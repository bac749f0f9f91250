------------------------------ MODULE WatchSync ------------------------------
(***************************************************************************)
(* The revision-ordered synchronization service of the watch               *)
(* (watch/src/state/watch_sync.c), driven as the runtime drives it         *)
(* (watch_runtime.c: handle_protocol_message, handle_transport_event) by a *)
(* host that numbers its mutations as docs/protocol.md requires.           *)
(*                                                                         *)
(* The host may be any host: mutations reach the watch in any order, any   *)
(* number of times or never, and a sync_request may be answered with the   *)
(* state of any revision (server.rs answers with revision 0 after it has   *)
(* sent revision 1).  Between two connections the host may be replaced by  *)
(* a new one whose revisions start again from 0.                           *)
(***************************************************************************)
EXTENDS Integers, Sequences, FiniteSets

CONSTANTS
    Paths,          \* host-owned leaves the watch shows
    Values,         \* values of a leaf, with no regard to its type
    Capacity,       \* WATCH_SYNC_BUFFER_CAPACITY
    MaxRevision,    \* bound on the mutations of one host session
    WatchDefaults,  \* host-owned leaves after watch_state_init
    HostDefaults    \* states a host session may begin with

Data == [Paths -> Values]

ASSUME CapacityAssumption == Capacity \in Nat \ {0}
ASSUME MaxRevisionAssumption == MaxRevision \in Nat
ASSUME DefaultsAssumption == WatchDefaults \in Data /\ HostDefaults \subseteq Data

\* What parse_mutation makes of a mutation: a leaf to change, a list_insert,
\* list_remove or list_update, which watch_sync_handle passes over, or a path
\* or message type the watch refuses.
Kinds == {"leaf", "list", "refused"}

VARIABLES
    log,        \* the session's mutations; log[i] has revision i
    hist,       \* hist[i] is the host's state at revision i
    connected,  \* socket_fd >= 0
    asked,      \* sync_requests sent in this connection and not yet answered
    revision,   \* sync_state.revision
    syncing,    \* sync_state.syncing
    buffered,   \* the occupied slots of sync_state.buffered
    data,       \* the host-owned leaves of struct watch_state
    installed   \* history: a snapshot was installed in this connection

host == <<log, hist>>
vars == <<log, hist, connected, asked, revision, syncing, buffered, data, installed>>

Entries == [path : Paths, value : Values, kind : Kinds]
Mutations == [revision : Nat, path : Paths, value : Values]

TypeOK ==
    /\ log \in Seq(Entries)
    /\ hist \in [0 .. Len(log) -> Data]
    /\ connected \in BOOLEAN
    /\ asked \in Nat
    /\ revision \in Nat
    /\ syncing \in BOOLEAN
    /\ buffered \subseteq Mutations
    /\ IsFiniteSet(buffered)
    /\ Cardinality(buffered) <= Capacity
    /\ data \in Data
    /\ installed \in BOOLEAN

-----------------------------------------------------------------------------
\* struct watch_sync_mutation of the session's i-th mutation.
Mutation(i) == [revision |-> i, path |-> log[i].path, value |-> log[i].value]

BufferedRevisions == {b.revision : b \in buffered}

\* Mutant of buffer_mutation: one slot too many.
HasRoom_OneTooMany(m) ==
    m.revision \in BufferedRevisions \/ Cardinality(buffered) <= Capacity

\* buffer_mutation finds a place: the revision already has a slot, or one is
\* free.
HasRoom(m) == m.revision \in BufferedRevisions \/ Cardinality(buffered) < Capacity
BufferWith(m) == IF m.revision \in BufferedRevisions THEN buffered ELSE buffered \cup {m}

\* replay_buffer, started at revision n, applies n+1, n+2, ... and stops at
\* the first revision it has no slot for.
ReplayEndsAt(n, end) ==
    /\ \A i \in (n + 1) .. end : i \in BufferedRevisions
    /\ end + 1 \notin BufferedRevisions

\* The buffered mutations of leaf p among revisions n+1 .. end.
WritesTo(p, n, end) == {b \in buffered : b.path = p /\ n < b.revision /\ b.revision <= end}

LatestOf(writes) == CHOOSE b \in writes : \A c \in writes : c.revision <= b.revision

\* State d after the mutations n+1 .. end: every leaf has its last value.
Replayed(d, n, end) ==
    [p \in Paths |-> IF WritesTo(p, n, end) = {} THEN d[p]
                     ELSE LatestOf(WritesTo(p, n, end)).value]

\* Mutants of replay_buffer: the slot just applied stays occupied, and every slot
\* is freed.
Ahead_AppliedKept(end) == {b \in buffered : b.revision >= end}
Ahead_AllFreed(end) == {b \in buffered : FALSE}

\* What is left in the buffer after a replay.
Ahead(end) == {b \in buffered : b.revision > end}
-----------------------------------------------------------------------------
Init ==
    /\ log = <<>>
    /\ hist \in [{0} -> HostDefaults]
    /\ connected = FALSE
    /\ asked = 0
    /\ revision = 0
    /\ syncing = FALSE
    /\ buffered = {}
    /\ data = WatchDefaults
    /\ installed = FALSE

\* A host-owned mutation succeeds and consumes the next revision.
Publish(p, v, kind) ==
    /\ Len(log) < MaxRevision
    /\ log' = Append(log, [path |-> p, value |-> v, kind |-> kind])
    /\ hist' = [i \in 0 .. Len(log) + 1 |->
                  IF i <= Len(log) THEN hist[i] ELSE [hist[Len(log)] EXCEPT ![p] = v]]
    /\ UNCHANGED <<connected, asked, revision, syncing, buffered, data, installed>>

\* The host process is replaced while the watch is offline.
NewSession(d) ==
    /\ ~connected
    /\ log' = <<>>
    /\ hist' = [i \in {0} |-> d]
    /\ UNCHANGED <<connected, asked, revision, syncing, buffered, data, installed>>

\* Mutant: watch_sync_connected does not enter synchronization.
Connect_NotSyncing ==
    /\ ~connected
    /\ connected' = TRUE
    /\ asked' = 1
    /\ syncing' = FALSE
    /\ UNCHANGED <<log, hist, revision, buffered, data, installed>>

\* connect_if_due, TRANSPORT_EVENT_CONNECTED and send_bootstrap.  The revision
\* of the previous connection is kept.
Connect ==
    /\ ~connected
    /\ connected' = TRUE
    /\ asked' = 1
    /\ syncing' = TRUE
    /\ UNCHANGED <<log, hist, revision, buffered, data, installed>>

\* Mutant: watch_sync_disconnected keeps the buffer.
Offline_BufferKept ==
    /\ connected' = FALSE
    /\ asked' = 0
    /\ syncing' = FALSE
    /\ installed' = FALSE
    /\ UNCHANGED buffered

\* disconnect() with TRANSPORT_EVENT_DISCONNECTED.
Offline ==
    /\ connected' = FALSE
    /\ asked' = 0
    /\ syncing' = FALSE
    /\ buffered' = {}
    /\ installed' = FALSE

\* The link fails, the host closes it, or a frame or message is malformed.
LoseConnection ==
    /\ connected
    /\ Offline
    /\ UNCHANGED <<log, hist, revision, data>>

\* A mutation of a kind or path the watch refuses is WATCH_SYNC_ERROR at any
\* revision, and an error ends the connection.
ReceiveRefused(i) ==
    /\ connected
    /\ log[i].kind = "refused"
    /\ Offline
    /\ UNCHANGED <<log, hist, revision, data>>

\* list_* messages, and revisions the watch already has: WATCH_SYNC_UNCHANGED.
ReceiveUnchanged(i) ==
    /\ connected
    /\ \/ log[i].kind = "list"
       \/ log[i].kind = "leaf" /\ i <= revision
    /\ UNCHANGED vars

\* A newer mutation during synchronization: WATCH_SYNC_BUFFERED.
ReceiveWhileSyncing(i) ==
    /\ connected
    /\ log[i].kind = "leaf"
    /\ i > revision
    /\ syncing
    /\ HasRoom(Mutation(i))
    /\ buffered' = BufferWith(Mutation(i))
    /\ UNCHANGED <<log, hist, connected, asked, revision, syncing, data, installed>>

\* -ENOSPC from buffer_mutation is WATCH_SYNC_ERROR.
ReceiveWhileFull(i) ==
    /\ connected
    /\ log[i].kind = "leaf"
    /\ i > revision
    /\ syncing \/ i > revision + 1
    /\ ~HasRoom(Mutation(i))
    /\ Offline
    /\ UNCHANGED <<log, hist, revision, data>>

\* A revision gap: WATCH_SYNC_NEEDS_SNAPSHOT, and the runtime asks for one.
ReceiveGap(i) ==
    /\ connected
    /\ log[i].kind = "leaf"
    /\ ~syncing
    /\ i > revision + 1
    /\ HasRoom(Mutation(i))
    /\ syncing' = TRUE
    /\ buffered' = BufferWith(Mutation(i))
    /\ asked' = asked + 1
    /\ UNCHANGED <<log, hist, connected, revision, data, installed>>

\* Mutant: any newer revision is applied at once.
ReceiveNext_AnyNewer(i) ==
    /\ connected
    /\ log[i].kind = "leaf"
    /\ ~syncing
    /\ i > revision
    /\ data' = [data EXCEPT ![log[i].path] = log[i].value]
    /\ revision' = i
    /\ UNCHANGED <<log, hist, connected, asked, syncing, buffered, installed>>

\* The next revision is applied: WATCH_SYNC_CHANGED.
ReceiveNext(i) ==
    /\ connected
    /\ log[i].kind = "leaf"
    /\ ~syncing
    /\ i = revision + 1
    /\ data' = [data EXCEPT ![log[i].path] = log[i].value]
    /\ revision' = i
    /\ UNCHANGED <<log, hist, connected, asked, syncing, buffered, installed>>

\* watch_sync_handle on a sync_response for revision n: install it and replay
\* the buffer; when a gap remains, ask again.
InstallSnapshot(n, end) ==
    /\ ReplayEndsAt(n, end)
    /\ data' = Replayed(hist[n], n, end)
    /\ revision' = end

\* Mutant: no second sync_request for the gap that remains.
ReceiveSnapshot_NoRequest(n, end) ==
    /\ connected
    /\ asked > 0
    /\ InstallSnapshot(n, end)
    /\ buffered' = Ahead(end)
    /\ syncing' = (Ahead(end) # {})
    /\ asked' = asked - 1
    /\ installed' = TRUE
    /\ UNCHANGED <<log, hist, connected>>

ReceiveSnapshot(n, end) ==
    /\ connected
    /\ asked > 0
    /\ InstallSnapshot(n, end)
    /\ buffered' = Ahead(end)
    /\ syncing' = (Ahead(end) # {})
    /\ asked' = IF Ahead(end) # {} THEN asked ELSE asked - 1
    /\ installed' = TRUE
    /\ UNCHANGED <<log, hist, connected>>

\* As above, but the new sync_request cannot be sent: the error ends the
\* connection after the snapshot was installed.
ReceiveSnapshotAndFail(n, end) ==
    /\ connected
    /\ asked > 0
    /\ InstallSnapshot(n, end)
    /\ Ahead(end) # {}
    /\ Offline
    /\ UNCHANGED <<log, hist>>

ReceiveMutation(i) ==
    \/ ReceiveRefused(i)
    \/ ReceiveUnchanged(i)
    \/ ReceiveWhileSyncing(i)
    \/ ReceiveWhileFull(i)
    \/ ReceiveGap(i)
    \/ ReceiveNext(i)

Next ==
    \/ \E p \in Paths, v \in Values, kind \in Kinds : Publish(p, v, kind)
    \/ \E d \in HostDefaults : NewSession(d)
    \/ Connect
    \/ LoseConnection
    \/ \E i \in 1 .. Len(log) : ReceiveMutation(i)
    \/ \E n \in 0 .. Len(log) : \E end \in n .. n + Capacity :
          ReceiveSnapshot(n, end) \/ ReceiveSnapshotAndFail(n, end)

Spec == Init /\ [][Next]_vars
-----------------------------------------------------------------------------
(* Safety.                                                                 *)

\* What the watch shows is the host's state.  From the first snapshot of a
\* connection on, synchronizing again or not, the host-owned leaves are
\* exactly those of one revision of the current session, and that revision is
\* the one the watch reports, whatever was lost, repeated, reordered, ignored
\* or buffered, and whatever an earlier session left in struct watch_sync.
ShowsHostState ==
    connected /\ (installed \/ ~syncing) =>
        revision \in 0 .. Len(log) /\ data = hist[revision]

\* Progress of synchronization: a syncing watch has exactly one sync_request
\* outstanding, so it neither waits for an answer that will not come (and fills
\* its buffer until it errs) nor piles requests on the host.
OneRequestWhileSyncing == asked = (IF connected /\ syncing THEN 1 ELSE 0)

\* The buffer serves one purpose: it is empty unless the watch synchronizes,
\* and what it holds belongs to the current session, is newer than what is
\* shown, and is held once.
BufferIsAhead ==
    /\ ~(connected /\ syncing) => buffered = {}
    /\ \A b \in buffered :
          b.revision \in (revision + 1) .. Len(log) /\ b = Mutation(b.revision)

(* Action properties.                                                      *)

\* A buffered mutation is never lost: it leaves the buffer only when the shown
\* revision has reached it, or with the connection.
BufferedIsNotLost ==
    [][\A b \in buffered : b \in buffered' \/ b.revision <= revision' \/ ~connected']_vars

\* Outside a snapshot the watch applies strictly revision + 1; a state never
\* changes under an unchanged connection without its revision being accounted
\* for, and a mutation is never applied in a connection that has not installed
\* a snapshot.
AppliesInOrder ==
    [][data' # data \/ revision' # revision =>
         \/ ~syncing /\ installed /\ revision' = revision + 1 /\ data' = hist[revision']
         \/ syncing /\ asked = 1 /\ revision' \in 0 .. Len(log) /\ data' = hist[revision']]_vars
-----------------------------------------------------------------------------
(* Refinement.                                                             *)

Promise == INSTANCE SyncPromise WITH
    Starts <- {}, last <- Len(log), linked <- connected, waiting <- (asked > 0),
    synced <- installed, rev <- revision, shown <- data

\* Implementation of the abstract service: every step of watch_sync.c, as the
\* runtime drives it, is a step of SyncPromise or leaves it unchanged.
ImplementsPromise == Promise!Spec
=============================================================================
