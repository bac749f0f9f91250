------------------------------ MODULE HostStore ------------------------------
(***************************************************************************)
(* The host's StateStore (host/src/state.rs): the receiving side of the    *)
(* revision protocol as the host implements it, with list operations and   *)
(* an ordered map instead of the watch's slots.  Its owner may deliver the *)
(* mutations of a peer in any order and any number of times, and install a *)
(* snapshot of any revision at any moment.                                 *)
(*                                                                         *)
(* install_snapshot is one call, but its replay can stop half-way with an  *)
(* error, so each iteration of its loop is an action; nothing else happens *)
(* while control is in the loop.                                           *)
(***************************************************************************)
EXTENDS Integers, SequencesExt

CONSTANTS
    Segments,     \* what the dots of a path separate
    Items,        \* scalars, and elements of a list
    Start,        \* the state a store begins with
    Mutations,    \* payloads the peer sends
    MaxRevision   \* bound on the mutations of the peer

(***************************************************************************)
(* The state is a JSON object.  It is modelled as a function from the      *)
(* paths it has to what is there: an object, whose members have paths of   *)
(* their own, a list, or a scalar, which is its only item.                 *)
(***************************************************************************)
Paths == Seq(Segments) \ {<<>>}
Nodes == [kind : {"object", "list", "scalar"}, items : Seq(Items)]
Object == [kind |-> "object", items |-> <<>>]
Parents(path) == {SubSeq(path, 1, n) : n \in 1 .. Len(path) - 1}

\* Every member is reached through objects.
IsState(t) ==
    /\ t \in [DOMAIN t -> Nodes]
    /\ \A path \in DOMAIN t :
          /\ path \in Paths
          /\ \A p \in Parents(path) : p \in DOMAIN t /\ t[p].kind = "object"

\* Payloads of state_set and state_patch ("set": a value without members of its
\* own), of list_insert, list_update and list_remove, and of mutations refused
\* for what they are: a path that validate_host_path refuses, a field missing.
Kinds == {"set", "insert", "update", "remove", "refused"}
Ops == [kind : Kinds, path : Paths, node : Nodes, index : Nat, item : Items]

ASSUME StoreAssumption ==
    Mutations \subseteq Ops /\ IsState(Start) /\ MaxRevision \in Nat

\* Disposition, and what install_snapshot and an error return.
Results == {"none", "applied", "ignored", "sync required", "buffered", "installed", "error"}

VARIABLES
    log,        \* the peer's mutations; log[i] has revision i
    hist,       \* hist[i] is the peer's state at revision i
    state, revision, syncing,
    buffered,   \* revisions to messages
    result,     \* what the last call returned
    replaying,  \* control is in install_snapshot's loop
    before      \* history: the state when the last install_snapshot was called

peer == <<log, hist>>
store == <<state, revision, syncing, buffered>>
vars == <<log, hist, state, revision, syncing, buffered, result, replaying, before>>

TypeOK ==
    /\ log \in Seq(Mutations)
    /\ DOMAIN hist = 0 .. Len(log) /\ \A i \in 0 .. Len(log) : IsState(hist[i])
    /\ IsState(state)
    /\ revision \in Nat
    /\ syncing \in BOOLEAN
    /\ DOMAIN buffered \subseteq 1 .. MaxRevision
    /\ \A r \in DOMAIN buffered : buffered[r] \in Mutations
    /\ result \in Results
    /\ replaying \in BOOLEAN
    /\ IsState(before)
-----------------------------------------------------------------------------
(* replace_path, which walks down the path and makes what is missing. *)

\* A member that is not an object: the walk to anything below it ends here.
Blocks(p, t) == p \in DOMAIN t /\ t[p].kind # "object"
Blocked(path, t) == \E p \in Parents(path) : Blocks(p, t)

\* Mutant: the missing parents are made before the walk.
Made_BeforeTheWalk(path, t) == Parents(path) \ DOMAIN t

\* The parents that are missing as far as the walk comes: they are made on the
\* way, before it is known whether there is a way.
Made(path, t) ==
    {p \in Parents(path) \ DOMAIN t : \A q \in Parents(p) : ~Blocks(q, t)}

WithParents(path, t) ==
    [p \in DOMAIN t \cup Made(path, t) |-> IF p \in DOMAIN t THEN t[p] ELSE Object]

\* Insertion of the last member, with everything that was below it gone.
Replace(path, node, t) ==
    [p \in {p \in DOMAIN t : ~IsPrefix(path, p)} \cup {path} |->
        IF p = path THEN node ELSE t[p]]

(* apply_list, which only looks before it changes anything. *)

ListAt(path, t) == path \in DOMAIN t /\ t[path].kind = "list"

\* apply_current succeeds.
Possible(op, t) ==
    /\ op.kind # "refused"
    /\ op.kind = "set" => ~Blocked(op.path, t)
    /\ op.kind # "set" => ListAt(op.path, t)
    /\ op.kind = "insert" => op.index <= Len(t[op.path].items)
    /\ op.kind \in {"update", "remove"} => op.index < Len(t[op.path].items)

\* What it makes of the state then,
Effect(op, t) ==
    CASE op.kind = "set"    -> Replace(op.path, op.node, WithParents(op.path, t))
      [] op.kind = "insert" -> [t EXCEPT ![op.path].items = InsertAt(@, op.index + 1, op.item)]
      [] op.kind = "update" -> [t EXCEPT ![op.path].items = ReplaceAt(@, op.index + 1, op.item)]
      [] op.kind = "remove" -> [t EXCEPT ![op.path].items = RemoveAt(@, op.index + 1)]

\* and what it leaves of it when it fails: replace_path returns from its walk,
\* with the parents it has made so far.
LeftBy(op, t) == IF op.kind = "set" THEN WithParents(op.path, t) ELSE t

\* An impossible mutation changes nothing on the peer either, but has taken a
\* revision.
Outcome(op, s) == IF Possible(op, s) THEN Effect(op, s) ELSE s

\* BTreeMap: entry(i).or_insert, insert and remove.
WithEntry(i) ==
    [r \in DOMAIN buffered \cup {i} |-> IF r \in DOMAIN buffered THEN buffered[r] ELSE log[i]]
Without(rs) == Restrict(buffered, DOMAIN buffered \ rs)

Init ==
    /\ log = <<>>
    /\ hist = [i \in {0} |-> Start]
    /\ state = Start /\ revision = 0
    /\ syncing = FALSE
    /\ buffered = <<>>
    /\ result = "none" /\ replaying = FALSE /\ before = Start

Publish(op) ==
    /\ ~replaying
    /\ Len(log) < MaxRevision
    /\ log' = Append(log, op)
    /\ hist' = [i \in 0 .. Len(log) + 1 |->
                  IF i <= Len(log) THEN hist[i] ELSE Outcome(op, hist[Len(log)])]
    /\ UNCHANGED <<store, result, replaying, before>>

(* apply, by its outcomes. *)

\* While synchronizing every mutation is answered with Buffered, a stale one,
\* too, which is dropped; the path is not looked at.
ApplyWhileSyncing(i) ==
    /\ syncing
    /\ buffered' = IF i > revision THEN WithEntry(i) ELSE buffered
    /\ result' = "buffered"
    /\ UNCHANGED <<state, revision, syncing>>

ApplyStale(i) ==
    /\ ~syncing
    /\ i <= revision
    /\ result' = "ignored"
    /\ UNCHANGED store

ApplyGap(i) ==
    /\ ~syncing
    /\ i > revision + 1
    /\ syncing' = TRUE
    /\ buffered' = WithEntry(i)
    /\ result' = "sync required"
    /\ UNCHANGED <<state, revision>>

\* Mutant: no comparison with the next revision.
ApplyNext_AnyNewer(i) ==
    /\ ~syncing
    /\ i > revision
    /\ Possible(log[i], state)
    /\ state' = Effect(log[i], state)
    /\ revision' = i
    /\ result' = "applied"
    /\ UNCHANGED <<syncing, buffered>>

ApplyNext(i) ==
    /\ ~syncing
    /\ i = revision + 1
    /\ Possible(log[i], state)
    /\ state' = Effect(log[i], state)
    /\ revision' = i
    /\ result' = "applied"
    /\ UNCHANGED <<syncing, buffered>>

\* apply_current fails, and `?` returns before the revision is taken.
ApplyRefused(i) ==
    /\ ~syncing
    /\ i = revision + 1
    /\ ~Possible(log[i], state)
    /\ state' = LeftBy(log[i], state)
    /\ result' = "error"
    /\ UNCHANGED <<revision, syncing, buffered>>

Apply(i) ==
    /\ ~replaying
    /\ \/ ApplyWhileSyncing(i) \/ ApplyStale(i) \/ ApplyGap(i)
       \/ ApplyNext(i) \/ ApplyRefused(i)
    /\ UNCHANGED <<peer, replaying, before>>

\* Mutant: buffered messages the snapshot includes are not dropped.
InstallSnapshot_NoRetain(n) ==
    /\ ~replaying
    /\ state' = hist[n]
    /\ revision' = n
    /\ replaying' = TRUE
    /\ before' = state
    /\ UNCHANGED <<peer, syncing, buffered, result>>

\* Mutant: the revision before the snapshot's, as if the next one were expected.
InstallSnapshot_OneBefore(n) ==
    /\ ~replaying
    /\ state' = hist[n]
    /\ revision' = n - 1
    /\ buffered' = Without(0 .. n)
    /\ replaying' = TRUE
    /\ before' = state
    /\ UNCHANGED <<peer, syncing, result>>

\* install_snapshot, up to its loop.
InstallSnapshot(n) ==
    /\ ~replaying
    /\ state' = hist[n]
    /\ revision' = n
    /\ buffered' = Without(0 .. n)
    /\ replaying' = TRUE
    /\ before' = state
    /\ UNCHANGED <<peer, syncing, result>>

ReplayOne ==
    /\ replaying
    /\ revision + 1 \in DOMAIN buffered
    /\ Possible(buffered[revision + 1], state)
    /\ state' = Effect(buffered[revision + 1], state)
    /\ revision' = revision + 1
    /\ buffered' = Without({revision + 1})
    /\ UNCHANGED <<peer, syncing, result, replaying, before>>

\* apply_current fails: `?` returns from install_snapshot, the message is gone
\* and `syncing` is as it was.
ReplayFails ==
    /\ replaying
    /\ revision + 1 \in DOMAIN buffered
    /\ ~Possible(buffered[revision + 1], state)
    /\ state' = LeftBy(buffered[revision + 1], state)
    /\ buffered' = Without({revision + 1})
    /\ replaying' = FALSE
    /\ result' = "error"
    /\ UNCHANGED <<peer, revision, syncing, before>>

ReplayEnds ==
    /\ replaying
    /\ revision + 1 \notin DOMAIN buffered
    /\ syncing' = (DOMAIN buffered # {} /\ \A r \in DOMAIN buffered : r > revision + 1)
    /\ replaying' = FALSE
    /\ result' = "installed"
    /\ UNCHANGED <<peer, state, revision, buffered, before>>

Next ==
    \/ \E op \in Mutations : Publish(op)
    \/ \E i \in 1 .. Len(log) : Apply(i)
    \/ \E n \in 0 .. Len(log) : InstallSnapshot(n)
    \/ ReplayOne
    \/ ReplayFails
    \/ ReplayEnds

Spec == Init /\ [][Next]_vars
-----------------------------------------------------------------------------
\* The store's state is the peer's at the store's revision, always: also after
\* a refused mutation, in the middle of a replay, and after a replay that
\* failed, whatever order the mutations came in.  List operations make this
\* delicate: one index applied in the wrong state shifts all that follow.
StateOfRevision == revision \in 0 .. Len(log) /\ state = hist[revision]

\* What is buffered is the peer's, is newer than the state, and is there only
\* while the store synchronizes: it will be replayed by the next snapshot or
\* be included in it.
BufferIsAhead ==
    /\ ~syncing => DOMAIN buffered = {}
    /\ \A r \in DOMAIN buffered : r \in (revision + 1) .. Len(log) /\ buffered[r] = log[r]

\* A mutation that apply_current refuses, called by apply or for the last time by
\* install_snapshot's loop, leaves no trace: not the parents replace_path makes
\* before it finds that one further down is no object, not the revision, and of
\* the buffer only the replayed message itself is gone.
RefusalLeavesNoTrace ==
    [][~replaying' /\ result' = "error" =>
          /\ UNCHANGED <<state, revision, syncing>>
          /\ ~replaying => UNCHANGED buffered]_vars

\* docs/protocol.md, Error policy: malformed input, "impossible indices" among
\* it, is rejected and does "never partially mutate state".  An install_snapshot
\* that returns an error has changed nothing.
FailedInstallLeavesState ==
    [][replaying /\ ~replaying' /\ result' = "error" => state' = before]_vars
=============================================================================
