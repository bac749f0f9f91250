--------------------------- MODULE HostStoreProofs ---------------------------
(***************************************************************************)
(* Proofs about HostStore: the store's state is the peer's at the store's  *)
(* revision, for any state, mutations and number of them, and a mutation   *)
(* that is refused leaves nothing behind.                                  *)
(***************************************************************************)
EXTENDS HostStore, SequenceTheorems, TLAPS

(***************************************************************************)
(* StateOfRevision is not inductive: that replaying one more buffered      *)
(* message leads to the peer's next state needs the message to be the      *)
(* peer's, and the peer's history to be what its mutations make of it.     *)
(***************************************************************************)
HistoryOfLog(l, h) ==
    /\ DOMAIN h = 0 .. Len(l)
    /\ \A i \in 0 .. Len(l) : IsState(h[i])
    /\ \A i \in 1 .. Len(l) : h[i] = Outcome(l[i], h[i - 1])

IInv ==
    /\ log \in Seq(Mutations)
    /\ Len(log) <= MaxRevision
    /\ HistoryOfLog(log, hist)
    /\ revision \in 0 .. Len(log)
    /\ state = hist[revision]
    /\ syncing \in BOOLEAN
    /\ replaying \in BOOLEAN
    /\ BufferIsAhead
------------------------------------------------------------------------------
\* The parents of a path are its proper prefixes: a shorter one is a parent of a
\* longer one.
LEMMA ParentsOfParents ==
  ASSUME NEW path \in Paths, NEW n \in 1 .. Len(path) - 1
  PROVE  /\ SubSeq(path, 1, n) \in Paths
         /\ Len(SubSeq(path, 1, n)) = n
         /\ \A m \in 1 .. n - 1 : SubSeq(SubSeq(path, 1, n), 1, m) = SubSeq(path, 1, m)
<1>1. path \in Seq(Segments) /\ Len(path) \in Nat /\ 1 \in 1 .. Len(path) + 1
  BY DEF Paths
<1>2. n \in 1 - 1 .. Len(path)
  BY <1>1
<1>3. /\ SubSeq(path, 1, n) \in Seq(Segments)
      /\ Len(SubSeq(path, 1, n)) = n
  BY <1>1, <1>2, SubSeqProperties
<1>4. ASSUME NEW m \in 1 .. n - 1
      PROVE  SubSeq(SubSeq(path, 1, n), 1, m) = SubSeq(path, 1, m)
  <2>1. SubSeq(SubSeq(path, 1, n), 1, m) = SubSeq(path, 1 + 1 - 1, 1 + m - 1)
    BY <1>1, <1>2, SubSeqOfSubSeq
  <2> QED
    BY <2>1
<1> QED
  BY <1>3, <1>4 DEF Paths

\* What the walk makes before it ends at a member that is no object is nothing:
\* everything above that member is there already, and everything below it is
\* behind it.
LEMMA BlockedMakesNothing ==
  ASSUME NEW t, IsState(t), NEW path \in Paths, Blocked(path, t)
  PROVE  Made(path, t) = {}
<1>1. PICK b \in 1 .. Len(path) - 1 : Blocks(SubSeq(path, 1, b), t)
  BY DEF Blocked, Parents
<1>2. SUFFICES ASSUME NEW m \in 1 .. Len(path) - 1, SubSeq(path, 1, m) \in Made(path, t)
               PROVE  FALSE
  BY DEF Made, Parents
<1> DEFINE q == SubSeq(path, 1, b)
           p == SubSeq(path, 1, m)
<1>3. Len(path) \in Nat
  BY DEF Paths
<1>4. /\ q \in DOMAIN t /\ t[q].kind # "object"
      /\ p \notin DOMAIN t
      /\ \A r \in Parents(p) : ~Blocks(r, t)
  BY <1>1, <1>2 DEF Blocks, Made
<1>5. CASE b < m
  <2>1. q \in Parents(p)
    BY <1>3, <1>5, ParentsOfParents DEF Parents
  <2> QED
    BY <1>1, <1>4, <2>1
<1>6. CASE m < b
  <2>1. p \in Parents(q)
    BY <1>3, <1>6, ParentsOfParents DEF Parents
  <2> QED
    BY <1>4, <2>1 DEF IsState
<1>7. CASE m = b
  BY <1>4, <1>7
<1> QED
  BY <1>3, <1>5, <1>6, <1>7

\* A mutation that apply_current refuses leaves the state as it was.
LEMMA RefusedLeavesState ==
  ASSUME NEW op \in Ops, NEW t, IsState(t), ~Possible(op, t)
  PROVE  LeftBy(op, t) = t
<1>1. CASE op.kind # "set"
  BY <1>1 DEF LeftBy
<1>2. CASE op.kind = "set"
  <2>1. Blocked(op.path, t) /\ op.path \in Paths
    BY <1>2 DEF Possible, Ops
  <2>2. Made(op.path, t) = {}
    BY <2>1, BlockedMakesNothing
  <2>3. t = [p \in DOMAIN t |-> t[p]]
    BY DEF IsState
  <2> QED
    BY <1>2, <2>2, <2>3 DEF LeftBy, WithParents
<1> QED
  BY <1>1, <1>2

\* A value put at the end of a walk that found its way yields a state: every
\* member is still reached through objects, also those that were made.
LEMMA SetKeepsType ==
  ASSUME NEW path \in Paths, NEW node \in Nodes, NEW t, IsState(t), ~Blocked(path, t)
  PROVE  IsState(Replace(path, node, WithParents(path, t)))
<1> DEFINE made == WithParents(path, t)
           new == Replace(path, node, made)
<1>1. Object \in Nodes
  BY DEF Object, Nodes
<1>2. /\ DOMAIN made = DOMAIN t \cup Made(path, t)
      /\ \A p \in DOMAIN t : made[p] = t[p] /\ t[p] \in Nodes
      /\ \A p \in Made(path, t) : made[p] = Object
  BY DEF WithParents, Made, IsState
<1>3. ASSUME NEW n \in 1 .. Len(path) - 1
      PROVE  /\ SubSeq(path, 1, n) \in DOMAIN made
             /\ made[SubSeq(path, 1, n)].kind = "object"
             /\ ~IsPrefix(path, SubSeq(path, 1, n))
  <2> DEFINE p == SubSeq(path, 1, n)
  <2>1. p \in Parents(path)
    BY DEF Parents
  <2>2. \A q \in Parents(p) : ~Blocks(q, t)
    <3>1. Len(p) = n /\ Len(path) \in Nat
      BY ParentsOfParents DEF Paths
    <3>2. \A m \in 1 .. Len(p) - 1 : SubSeq(p, 1, m) = SubSeq(path, 1, m)
      BY <3>1, ParentsOfParents
    <3>3. Parents(p) \subseteq Parents(path)
      BY <3>1, <3>2 DEF Parents
    <3> QED
      BY <3>3 DEF Blocked
  <2>3. ASSUME p \in DOMAIN t
        PROVE  p \in DOMAIN made /\ made[p].kind = "object"
    BY <1>2, <2>1, <2>3 DEF Blocked, Blocks
  <2>4. ASSUME p \notin DOMAIN t
        PROVE  p \in DOMAIN made /\ made[p].kind = "object"
    <3>1. p \in Made(path, t)
      BY <2>1, <2>2, <2>4 DEF Made
    <3>2. p \in DOMAIN made /\ made[p] = Object
      BY <1>2, <3>1
    <3> QED
      BY <3>2 DEF Object
  <2>5. ~IsPrefix(path, p)
    BY ParentsOfParents DEF IsPrefix, Paths
  <2> QED
    BY <2>3, <2>4, <2>5
<1>4. /\ DOMAIN new = {p \in DOMAIN made : ~IsPrefix(path, p)} \cup {path}
      /\ new[path] = node
      /\ \A p \in DOMAIN new \ {path} : p \in DOMAIN made /\ new[p] = made[p]
      /\ new = [p \in DOMAIN new |-> new[p]]
  BY DEF Replace
<1> HIDE DEF made, new
<1>5. path \in Seq(Segments) /\ Len(path) \in Nat /\ IsPrefix(path, path)
  BY DEF Paths, IsPrefix
<1>6. \A p \in Parents(path) : p \in DOMAIN new /\ new[p].kind = "object"
  BY <1>3, <1>4, <1>5 DEF Parents
<1>7. ASSUME NEW p \in DOMAIN new
      PROVE  /\ p \in Paths /\ new[p] \in Nodes
             /\ \A q \in Parents(p) : q \in DOMAIN new /\ new[q].kind = "object"
  <2>1. CASE p = path
    BY <1>4, <1>6, <2>1
  <2>2. CASE p \in Made(path, t)
    <3>1. PICK n \in 1 .. Len(path) - 1 : p = SubSeq(path, 1, n)
      BY <2>2 DEF Made, Parents
    <3>2. p \in Paths /\ Parents(p) \subseteq Parents(path)
      BY <1>5, <3>1, ParentsOfParents DEF Parents
    <3>3. p # path
      BY <1>3, <1>5, <3>1
    <3> QED
      BY <1>1, <1>2, <1>4, <1>6, <2>2, <3>2, <3>3
  <2>3. CASE p # path /\ p \in DOMAIN t
    <3>1. p \in Paths /\ ~IsPrefix(path, p) /\ new[p] = t[p]
      BY <1>2, <1>4, <2>3 DEF IsState
    <3>2. ASSUME NEW n \in 1 .. Len(p) - 1
          PROVE  SubSeq(p, 1, n) \in DOMAIN new /\ new[SubSeq(p, 1, n)].kind = "object"
      <4> DEFINE q == SubSeq(p, 1, n)
      <4>1. q \in DOMAIN t /\ t[q].kind = "object"
        BY <2>3 DEF IsState, Parents
      <4>2. ~IsPrefix(path, q)
        <5>1. p \in Seq(Segments) /\ Len(p) \in Nat /\ Len(path) # 0
          BY <1>5, <3>1 DEF Paths
        <5>2. Len(q) = n
          BY <3>1, ParentsOfParents
        <5>3. SUFFICES ASSUME Len(path) <= n, path = SubSeq(q, 1, Len(path))
                       PROVE  IsPrefix(path, p)
          BY <1>5, <3>1, <5>2, SubSeqFull DEF IsPrefix
        <5>4. SubSeq(q, 1, Len(path)) = SubSeq(p, 1, Len(path))
          <6>1. CASE Len(path) = n
            <7>1. q \in Seq(Segments)
              BY <3>1, ParentsOfParents DEF Paths
            <7>2. SubSeq(q, 1, n) = q
              BY <5>2, <7>1, SubSeqFull
            <7> QED
              BY <6>1, <7>2
          <6>2. CASE Len(path) < n
            <7>1. Len(path) \in 1 .. n - 1
              BY <1>5, <5>1, <6>2
            <7>2. \A m \in 1 .. n - 1 : SubSeq(SubSeq(p, 1, n), 1, m) = SubSeq(p, 1, m)
              BY <3>1, ParentsOfParents
            <7> QED
              BY <7>1, <7>2
          <6>3. Len(path) = n \/ Len(path) < n
            <7>1. n \in Nat /\ Len(path) \in Nat
              BY <1>5, <5>1
            <7>2. Len(path) <= n
              BY <5>3
            <7> HIDE DEF q
            <7> QED
              BY <7>1, <7>2
          <6> QED
            BY <6>1, <6>2, <6>3
        <5>5. SubSeq(path, 1, Len(path)) = path
          BY <1>5, SubSeqFull
        <5> QED
          BY <1>5, <5>1, <5>3, <5>4, <5>5 DEF IsPrefix
      <4>3. q # path
        BY <1>5, <4>2
      <4> QED
        BY <1>2, <1>4, <4>1, <4>2, <4>3
    <3> QED
      BY <1>2, <2>3, <3>1, <3>2 DEF Parents
  <2> QED
    BY <1>2, <1>4, <2>1, <2>2, <2>3
<1>8. IsState(new)
  BY <1>4, <1>7 DEF IsState
<1> QED
  BY <1>8 DEF new, made

\* apply_current turns one state of the host into another: an operation on an
\* index that exists makes a list of the list, and keeps the paths.
LEMMA EffectKeepsType ==
  ASSUME NEW op \in Ops, NEW t, IsState(t), Possible(op, t)
  PROVE  IsState(Effect(op, t))
<1>1. /\ op.kind \in Kinds /\ op.path \in Paths /\ op.node \in Nodes
      /\ op.index \in Nat /\ op.item \in Items
  BY DEF Ops
<1>2. CASE op.kind = "set"
  BY <1>1, <1>2, SetKeepsType DEF Effect, Possible
<1>3. CASE op.kind # "set"
  <2> DEFINE list == t[op.path].items
             With(items) == [t EXCEPT ![op.path].items = items]
  <2>1. op.path \in DOMAIN t /\ list \in Seq(Items) /\ Len(list) \in Nat
    BY <1>3 DEF Possible, ListAt, IsState, Nodes
  <2>2. ASSUME NEW items \in Seq(Items)
        PROVE  IsState(With(items))
    <3>1. \A p \in DOMAIN t :
            With(items)[p] \in Nodes /\ With(items)[p].kind = t[p].kind
      BY <2>1 DEF IsState, Nodes
    <3>2. DOMAIN With(items) = DOMAIN t /\ With(items) \in [DOMAIN t -> Nodes]
      BY <3>1
    <3> HIDE DEF With
    <3> QED
      BY <3>1, <3>2 DEF IsState
  <2> HIDE DEF With
  <2>3. CASE op.kind = "insert"
    <3>1. InsertAt(list, op.index + 1, op.item) \in Seq(Items)
      BY <1>1, <2>1, <2>3 DEF InsertAt, Possible
    <3> QED
      BY <2>2, <2>3, <3>1 DEF Effect, With
  <2>4. CASE op.kind = "update"
    <3>1. ReplaceAt(list, op.index + 1, op.item) \in Seq(Items)
      BY <1>1, <2>1, <2>4 DEF ReplaceAt, Possible
    <3> QED
      BY <2>2, <2>4, <3>1 DEF Effect, With
  <2>5. CASE op.kind = "remove"
    <3>1. RemoveAt(list, op.index + 1) \in Seq(Items)
      BY <1>1, <2>1, <2>5 DEF RemoveAt, Possible
    <3> QED
      BY <2>2, <2>5, <3>1 DEF Effect, With
  <2> QED
    BY <1>1, <1>3, <2>3, <2>4, <2>5 DEF Kinds, Possible
<1> QED
  BY <1>2, <1>3

\* A mutation has an outcome in every state, also one that is refused.
LEMMA OutcomeKeepsType ==
  ASSUME NEW op \in Mutations, NEW t, IsState(t)
  PROVE  IsState(Outcome(op, t))
BY EffectKeepsType, StoreAssumption DEF Outcome

------------------------------------------------------------------------------
\* StateStore::new agrees with its peer.
LEMMA InitIInv == Init => IInv
<1> SUFFICES ASSUME Init
             PROVE  IInv
  OBVIOUS
<1>1. log = <<>> /\ log \in Seq(Mutations) /\ Len(log) = 0
  BY DEF Init
<1>2. DOMAIN buffered = {}
  BY DEF Init
<1>3. HistoryOfLog(log, hist)
  <2>1. DOMAIN hist = 0 .. 0 /\ \A i \in 0 .. 0 : IsState(hist[i])
    BY StoreAssumption DEF Init
  <2> QED
    BY <1>1, <2>1 DEF HistoryOfLog
<1>4. revision = 0 /\ state = hist[revision]
  BY DEF Init
<1>5. BufferIsAhead
  BY <1>2 DEF BufferIsAhead
<1> QED
  BY <1>1, <1>3, <1>4, <1>5, StoreAssumption DEF Init, IInv

\* The peer's next mutation extends its history and nothing the store holds is
\* concerned.
LEMMA PublishKeepsIInv ==
  ASSUME IInv, NEW op \in Mutations, Publish(op)
  PROVE  IInv'
<1>1. Len(log) \in Nat /\ log' \in Seq(Mutations) /\ Len(log') = Len(log) + 1
  BY DEF IInv, Publish
<1>2. \A i \in 1 .. Len(log) : log'[i] = log[i]
  BY DEF IInv, Publish
<1>3. log'[Len(log) + 1] = op
  BY DEF IInv, Publish
<1>4. \A i \in 0 .. Len(log) : hist'[i] = hist[i] /\ IsState(hist[i])
  BY <1>1 DEF IInv, HistoryOfLog, Publish
<1>5. hist'[Len(log) + 1] = Outcome(op, hist[Len(log)])
  BY <1>1 DEF Publish
<1>6. HistoryOfLog(log', hist')
  <2>1. IsState(Outcome(op, hist[Len(log)]))
    BY <1>1, <1>4, OutcomeKeepsType
  <2>2. DOMAIN hist' = 0 .. Len(log') /\ \A i \in 0 .. Len(log') : IsState(hist'[i])
    <3>1. \A i \in 0 .. Len(log') : IsState(hist'[i])
      BY <1>1, <1>4, <1>5, <2>1
    <3>2. DOMAIN hist' = 0 .. Len(log')
      BY <1>1 DEF Publish
    <3> QED
      BY <3>1, <3>2
  <2>3. ASSUME NEW i \in 1 .. Len(log')
        PROVE  hist'[i] = Outcome(log'[i], hist'[i - 1])
    <3>1. CASE i = Len(log) + 1
      BY <1>1, <1>3, <1>4, <1>5, <3>1
    <3>2. CASE i # Len(log) + 1
      BY <1>1, <1>2, <1>4, <3>2 DEF IInv, HistoryOfLog
    <3> QED
      BY <3>1, <3>2
  <2> QED
    BY <2>2, <2>3 DEF HistoryOfLog
<1>7. revision' \in 0 .. Len(log') /\ state' = hist'[revision'] /\ Len(log') <= MaxRevision
  BY <1>1, <1>4, StoreAssumption DEF IInv, Publish, store
<1>8. BufferIsAhead'
  BY <1>1, <1>2 DEF IInv, BufferIsAhead, Publish, store
<1> QED
  BY <1>1, <1>6, <1>7, <1>8 DEF IInv, Publish, store

\* One more of the peer's mutations in the map.
LEMMA WithEntryIsAhead ==
  ASSUME IInv, NEW i \in 1 .. Len(log), i > revision, syncing',
         buffered' = WithEntry(i), UNCHANGED <<log, revision>>
  PROVE  BufferIsAhead'
BY DEF IInv, BufferIsAhead, WithEntry

\* The invariant says that the state is one.
LEMMA StateIsState == IInv => IsState(state)
  BY DEF IInv, HistoryOfLog

\* Every outcome of apply preserves the inductive invariant.
LEMMA ApplyKeepsIInv ==
  ASSUME IInv, NEW i \in 1 .. Len(log), Apply(i)
  PROVE  IInv'
<1>0. UNCHANGED <<log, hist, replaying>> /\ Len(log) \in Nat /\ revision \in Nat /\ ~replaying
  BY DEF IInv, Apply, peer
<1>1. CASE ApplyWhileSyncing(i)
  <2>1. BufferIsAhead'
    <3>1. CASE i > revision
      BY <1>0, <1>1, <3>1, WithEntryIsAhead DEF ApplyWhileSyncing, IInv
    <3>2. CASE ~(i > revision)
      BY <1>0, <1>1, <3>2 DEF ApplyWhileSyncing, IInv, BufferIsAhead
    <3> QED
      BY <3>1, <3>2
  <2> QED
    BY <1>0, <1>1, <2>1 DEF ApplyWhileSyncing, IInv
<1>2. CASE ApplyStale(i) \/ ApplyRefused(i)
  <2>1. state' = state
    BY <1>2, StateIsState, RefusedLeavesState, StoreAssumption
    DEF ApplyStale, ApplyRefused, store, IInv
  <2> QED
    BY <1>0, <1>2, <2>1 DEF ApplyStale, ApplyRefused, store, IInv, BufferIsAhead
<1>3. CASE ApplyGap(i)
  <2>1. BufferIsAhead'
    <3>1. i > revision
      <4>1. i > revision + 1
        BY <1>3, Zenon DEF ApplyGap
      <4> QED
        BY <1>0, <4>1
    <3>2. buffered' = WithEntry(i) /\ UNCHANGED <<log, revision>>
      BY <1>0, <1>3 DEF ApplyGap
    <3>3. syncing'
      BY <1>3, Zenon DEF ApplyGap
    <3> QED
      BY <3>1, <3>2, <3>3, WithEntryIsAhead
  <2> QED
    BY <1>0, <1>3, <2>1 DEF ApplyGap, IInv
<1>4. CASE ApplyNext(i)
  <2>1. revision' \in 0 .. Len(log) /\ i - 1 = revision
    BY <1>0, <1>4 DEF ApplyNext
  <2>2. state' = hist[revision']
    BY <1>4, <2>1 DEF ApplyNext, IInv, HistoryOfLog, Outcome
  <2>3. BufferIsAhead'
    BY <1>0, <1>4 DEF ApplyNext, IInv, BufferIsAhead
  <2> QED
    BY <1>0, <1>4, <2>1, <2>2, <2>3 DEF ApplyNext, IInv
<1> QED
  BY <1>1, <1>2, <1>3, <1>4 DEF Apply

\* The loop of install_snapshot and its ends: each iteration moves the store to
\* the peer's next revision, and a failing one stops between two of them.
LEMMA InstallKeepsIInv ==
  ASSUME IInv,
         (\E n \in 0 .. Len(log) : InstallSnapshot(n)) \/ ReplayOne \/ ReplayFails \/ ReplayEnds
  PROVE  IInv'
<1>0. UNCHANGED <<log, hist>> /\ Len(log) \in Nat /\ revision \in Nat
  BY DEF IInv, InstallSnapshot, ReplayOne, ReplayFails, ReplayEnds, peer
<1>1. ASSUME NEW n \in 0 .. Len(log), InstallSnapshot(n)
      PROVE  IInv'
  <2>1. BufferIsAhead'
    BY <1>0, <1>1 DEF InstallSnapshot, IInv, BufferIsAhead, Without, Restrict
  <2> QED
    BY <1>0, <1>1, <2>1 DEF InstallSnapshot, IInv
<1>2. CASE ReplayOne
  <2>1. revision + 1 \in 1 .. Len(log) /\ buffered[revision + 1] = log[revision + 1]
    BY <1>0, <1>2 DEF ReplayOne, IInv, BufferIsAhead
  <2>2. hist[revision + 1] = Outcome(log[revision + 1], hist[revision])
    BY <1>0, <2>1 DEF IInv, HistoryOfLog
  <2>3. state' = hist[revision']
    BY <1>2, <2>1, <2>2 DEF ReplayOne, IInv, Outcome
  <2>4. BufferIsAhead'
    BY <1>0, <1>2 DEF ReplayOne, IInv, BufferIsAhead, Without, Restrict
  <2> QED
    BY <1>0, <1>2, <2>1, <2>3, <2>4 DEF ReplayOne, IInv
<1>3. CASE ReplayFails
  <2>1. BufferIsAhead'
    BY <1>0, <1>3 DEF ReplayFails, IInv, BufferIsAhead, Without, Restrict
  <2>2. buffered[revision + 1] \in Ops
    BY <1>0, <1>3, StoreAssumption DEF ReplayFails, IInv, BufferIsAhead
  <2>3. state' = state
    BY <1>3, <2>2, StateIsState, RefusedLeavesState DEF ReplayFails
  <2> QED
    BY <1>0, <1>3, <2>1, <2>3 DEF ReplayFails, IInv
<1>4. CASE ReplayEnds
  <2>1. BufferIsAhead'
    BY <1>0, <1>4 DEF ReplayEnds, IInv, BufferIsAhead
  <2> QED
    BY <1>0, <1>4, <2>1 DEF ReplayEnds, IInv
<1> QED
  BY <1>1, <1>2, <1>3, <1>4

\* The inductive invariant holds in every reachable state.
THEOREM Invariance == Spec => []IInv
<1>1. IInv /\ UNCHANGED vars => IInv'
  BY DEF IInv, BufferIsAhead, vars
<1>2. IInv /\ Next => IInv'
  BY PublishKeepsIInv, ApplyKeepsIInv, InstallKeepsIInv DEF Next
<1> QED
  BY InitIInv, <1>1, <1>2, PTL DEF Spec

\* Every variable keeps its type: no list operation that apply_current accepts
\* makes a state that is not one.
THEOREM TypeCorrect == Spec => []TypeOK
<1> DEFINE Rest == result \in Results /\ IsState(before)
<1>1. Init => Rest
  BY StoreAssumption DEF Init, Results
<1>2. ASSUME IInv, Rest, [Next]_vars
      PROVE  Rest'
  <2>1. IsState(state)
    BY <1>2, StateIsState
  <2>2. before' \in {before, state}
    BY <1>2 DEF Next, vars, Publish, Apply, InstallSnapshot, ReplayOne, ReplayFails, ReplayEnds
  <2>3. result' \in {result, "applied", "ignored", "sync required", "buffered", "installed", "error"}
    <3>1. ASSUME NEW i \in 1 .. Len(log), Apply(i)
          PROVE  result' \in {"applied", "ignored", "sync required", "buffered", "error"}
      BY <3>1 DEF Apply, ApplyWhileSyncing, ApplyStale, ApplyGap, ApplyNext, ApplyRefused
    <3> QED
      BY <1>2, <3>1 DEF Next, vars, Publish, InstallSnapshot, ReplayOne, ReplayFails, ReplayEnds
  <2> QED
    BY <1>2, <2>1, <2>2, <2>3 DEF Results
<1>3. ASSUME IInv, Rest
      PROVE  TypeOK
  <2>1. /\ Len(log) \in Nat /\ MaxRevision \in Nat
        /\ DOMAIN hist = 0 .. Len(log) /\ \A i \in 0 .. Len(log) : IsState(hist[i])
    BY <1>3, StoreAssumption DEF IInv, HistoryOfLog
  <2>2. ASSUME NEW r \in DOMAIN buffered
        PROVE  r \in 1 .. MaxRevision /\ buffered[r] \in Mutations
    BY <1>3, <2>1, <2>2 DEF IInv, BufferIsAhead
  <2>3. IsState(state)
    BY <1>3, StateIsState
  <2> QED
    BY <1>3, <2>1, <2>2, <2>3 DEF IInv, TypeOK
<1> HIDE DEF Rest
<1> QED
  BY <1>1, <1>2, <1>3, Invariance, PTL DEF Spec

\* The store's state is the peer's at the store's revision, whatever was
\* refused, reordered, buffered or left half replayed.
THEOREM PeerState == Spec => []StateOfRevision
<1>1. IInv => StateOfRevision
  BY DEF IInv, StateOfRevision
<1> QED
  BY <1>1, Invariance, PTL

\* What waits in the map is the peer's and newer than the state, and nothing
\* waits in a store that is synchronized.
THEOREM BufferOfPeer == Spec => []BufferIsAhead
<1>1. IInv => BufferIsAhead
  BY DEF IInv
<1> QED
  BY <1>1, Invariance, PTL

\* A mutation that apply_current refuses changes nothing, for any state and any
\* path: what replace_path makes on its way, it makes only when the way is free.
THEOREM NoTrace == Spec => RefusalLeavesNoTrace
<1>1. ASSUME IInv, [Next]_vars, ~replaying', result' = "error"
      PROVE  /\ UNCHANGED <<state, revision, syncing>>
             /\ ~replaying => UNCHANGED buffered
  <2>1. CASE UNCHANGED vars \/ \E op \in Mutations : Publish(op)
    BY <2>1 DEF vars, Publish, store
  <2>2. CASE \E i \in 1 .. Len(log) : Apply(i)
    <3>1. PICK i \in 1 .. Len(log) : Apply(i)
      BY <2>2
    <3>2. ApplyRefused(i) /\ log[i] \in Ops
      BY <1>1, <3>1, StoreAssumption
      DEF IInv, Apply, ApplyWhileSyncing, ApplyStale, ApplyGap, ApplyNext
    <3>3. state' = state
      BY <1>1, <3>2, StateIsState, RefusedLeavesState DEF ApplyRefused
    <3> QED
      BY <3>2, <3>3 DEF ApplyRefused
  <2>3. CASE ReplayFails
    <3>1. buffered[revision + 1] \in Ops /\ replaying
      BY <1>1, <2>3, StoreAssumption DEF ReplayFails, IInv, BufferIsAhead
    <3>2. state' = state
      BY <1>1, <2>3, <3>1, StateIsState, RefusedLeavesState DEF ReplayFails
    <3> QED
      BY <2>3, <3>1, <3>2 DEF ReplayFails
  <2>4. CASE (\E n \in 0 .. Len(log) : InstallSnapshot(n)) \/ ReplayOne \/ ReplayEnds
    BY <1>1, <2>4 DEF InstallSnapshot, ReplayOne, ReplayEnds
  <2> QED
    BY <1>1, <2>1, <2>2, <2>3, <2>4 DEF Next
<1> QED
  BY <1>1, Invariance, PTL DEF Spec, RefusalLeavesNoTrace
=============================================================================
