-------------------------- MODULE ReplayBufferProofs --------------------------
(***************************************************************************)
(* Proofs about the slot array of watch_sync.c, for every capacity and any *)
(* mutations: no revision has two slots, and the loop of replay_buffer     *)
(* makes no more passes than there are slots (and one) and computes what   *)
(* WatchSync says of it in one step.                                       *)
(***************************************************************************)
EXTENDS ReplayBuffer, FiniteSetTheorems, TLAPS

\* The call of replay_buffer so far: the mutations that began it, of which those
\* above the revision are still there, and the run applied to its state.
CallSoFar ==
    replaying =>
        /\ start.revision \in Nat /\ start.revision <= revision
        /\ start.data \in Data
        /\ start.buffered \subseteq Mutations
        /\ \A b, c \in start.buffered : b.revision = c.revision => b = c
        /\ \A r \in start.revision + 1 .. revision : \E b \in start.buffered : b.revision = r
        /\ Occupied \subseteq start.buffered
        /\ \A b \in start.buffered : b.revision > revision => b \in Occupied
        /\ data = Account!Replayed(start.data, start.revision, revision)

IInv ==
    /\ SlotsWellFormed
    /\ revision \in Nat /\ replaying \in BOOLEAN /\ data \in Data
    /\ CallSoFar
    /\ PassesAreBounded
-----------------------------------------------------------------------------
LEMMA SlotKinds ==
    /\ MaxRevision \in Nat /\ Capacity \in Nat
    /\ \A m \in Mutations : m # Empty /\ m.revision \in Nat \ {0} /\ m.path \in Paths
                            /\ m.value \in Values
    /\ Empty.revision = 0
<1>1. MaxRevision \in Nat /\ Capacity \in Nat
  BY SlotsAssumption
<1>2. Empty.revision = 0
  BY DEF Empty
<1>3. \A m \in Mutations : m.revision \in Nat \ {0} /\ m.path \in Paths /\ m.value \in Values
  BY <1>1 DEF Mutations
<1> QED
  BY <1>1, <1>2, <1>3

\* The occupied slots, one for each of their revisions.
LEMMA OccupiedSlots ==
    ASSUME SlotsWellFormed
    PROVE  /\ Occupied \subseteq Mutations
           /\ \A b \in Occupied : \E i \in Slots : slots[i] = b /\ slots[i] # Empty
           /\ \A i \in Slots : slots[i] # Empty => slots[i] \in Occupied
           /\ \A b, c \in Occupied : b.revision = c.revision => b = c
  BY DEF SlotsWellFormed, Occupied

\* There are no more of them than slots.
LEMMA OccupiedFits ==
    IsFiniteSet(Occupied) /\ Cardinality(Occupied) \in Nat /\ Cardinality(Occupied) <= Capacity
<1> DEFINE J == {j \in Slots : slots[j] # Empty}
           f == [j \in J |-> slots[j]]
<1>1. Capacity \in Nat \ {0}
  BY SlotsAssumption
<1>2. IsFiniteSet(Slots) /\ Cardinality(Slots) = Capacity
  BY <1>1, FS_Interval DEF Slots
<1>3. IsFiniteSet(J) /\ Cardinality(J) <= Capacity
  BY <1>2, FS_Subset
<1>4. f \in Surjection(J, Occupied)
  BY DEF Surjection, Occupied
<1>5. IsFiniteSet(Occupied) /\ Cardinality(Occupied) <= Cardinality(J)
  BY <1>3, <1>4, FS_Surjection
<1>6. Cardinality(Occupied) \in Nat /\ Cardinality(J) \in Nat
  BY <1>3, <1>5, FS_CardinalityType
<1> QED
  BY <1>1, <1>3, <1>5, <1>6

\* Slots that are only freed stay well formed.
LEMMA FreeingSlots ==
    ASSUME SlotsWellFormed, NEW free \in SUBSET Slots,
           slots' = [i \in Slots |-> IF i \in free THEN Empty ELSE slots[i]]
    PROVE  SlotsWellFormed'
<1>1. slots' \in [Slots -> Mutations \cup {Empty}]
  BY DEF SlotsWellFormed
<1>2. \A i \in Slots : slots'[i] # Empty => i \notin free /\ slots'[i] = slots[i]
  OBVIOUS
<1>3. ASSUME NEW i \in Slots, NEW j \in Slots,
             slots'[i] # Empty, slots'[i].revision = slots'[j].revision
      PROVE  i = j
  <2>1. slots'[i] = slots[i] /\ slots[i] \in Mutations
    BY <1>2, <1>3 DEF SlotsWellFormed
  <2>2. slots[i].revision # 0
    BY <2>1, SlotKinds
  <2>3. slots'[j] # Empty
    BY <1>3, <2>1, <2>2, SlotKinds
  <2>4. slots'[j] = slots[j]
    BY <1>2, <2>3
  <2> QED
    BY <1>3, <2>1, <2>4 DEF SlotsWellFormed
<1>4. Mutations' = Mutations /\ Slots' = Slots /\ Empty' = Empty
  BY DEF Mutations, Slots, Empty
<1> QED
  BY <1>1, <1>3, <1>4 DEF SlotsWellFormed

\* The latest of the writes is the one at the top.
LEMMA LatestIsTop ==
    ASSUME NEW W \in SUBSET Mutations, NEW top \in W,
           \A b \in W : b.revision <= top.revision,
           \A b, c \in W : b.revision = c.revision => b = c
    PROVE  Account!LatestOf(W) = top
<1>1. \A b \in W : b.revision \in Nat
  BY SlotKinds
<1>2. \A b \in W : (\A c \in W : c.revision <= b.revision) <=> b = top
  BY <1>1
<1> QED
  BY <1>2 DEF Account!LatestOf
-----------------------------------------------------------------------------
(* The steps.                                                              *)

LEMMA BufferKeepsIInv ==
    ASSUME IInv, NEW m \in Mutations, Buffer(m)
    PROVE  IInv'
<1>1. /\ ~replaying /\ replaying' = replaying
      /\ \A i \in Slots : slots[i].revision # m.revision
      /\ UNCHANGED <<revision, data, start>>
  BY DEF Buffer
<1>2. PICK i \in Slots : slots[i] = Empty /\ slots' = [slots EXCEPT ![i] = m]
  BY DEF Buffer
<1>3. SlotsWellFormed'
  <2>1. slots' \in [Slots -> Mutations \cup {Empty}]
    BY <1>2 DEF IInv, SlotsWellFormed
  <2>2. ASSUME NEW j \in Slots, NEW k \in Slots,
               slots'[j] # Empty, slots'[j].revision = slots'[k].revision
        PROVE  j = k
    <3>1. slots \in [Slots -> Mutations \cup {Empty}]
      BY DEF IInv, SlotsWellFormed
    <3>2. \A n \in Slots : slots'[n] = IF n = i THEN m ELSE slots[n]
      BY <1>2, <3>1
    <3> QED
      BY <1>1, <2>2, <3>2 DEF IInv, SlotsWellFormed
  <2>3. Mutations' = Mutations /\ Slots' = Slots /\ Empty' = Empty
    BY DEF Mutations, Slots, Empty
  <2> QED
    BY <2>1, <2>2, <2>3 DEF SlotsWellFormed
<1>4. CallSoFar' /\ PassesAreBounded'
  BY <1>1 DEF CallSoFar, PassesAreBounded
<1> QED
  BY <1>1, <1>3, <1>4 DEF IInv, Data

LEMMA InstallKeepsIInv ==
    ASSUME IInv, NEW n \in 0 .. MaxRevision, NEW d \in Data, Install(n, d)
    PROVE  IInv'
<1>1. /\ revision' = n /\ data' = d /\ replaying' = TRUE /\ slots' = slots
      /\ start' = [revision |-> n, data |-> d, buffered |-> Occupied]
  BY DEF Install
<1>2. SlotsWellFormed'
  BY <1>1 DEF IInv, SlotsWellFormed, Mutations, Slots, Empty
<1>3. /\ start'.revision = n /\ start'.data = d /\ start'.buffered = Occupied
      /\ Occupied' = Occupied
  BY <1>1 DEF Occupied
<1>4. n \in Nat
  BY SlotKinds
<1>5. (Account!Replayed(start.data, start.revision, revision))' = d
  <2>1. (Account!Replayed(start.data, start.revision, revision))' =
          [p \in Paths |-> IF {b \in Occupied : b.path = p /\ n < b.revision /\ b.revision <= n} = {}
                           THEN d[p]
                           ELSE (Account!LatestOf({b \in Occupied : b.path = p /\ n < b.revision
                                                                     /\ b.revision <= n})).value]
    BY <1>1, <1>3 DEF Account!Replayed, Account!WritesTo, Account!LatestOf
  <2>2. \A p : {b \in Occupied : b.path = p /\ n < b.revision /\ b.revision <= n} = {}
    <3>1. \A b \in Occupied : b.revision \in Nat
      BY OccupiedSlots, SlotKinds DEF IInv
    <3> QED
      BY <1>4, <3>1
  <2> QED
    BY <2>1, <2>2 DEF Data
<1>6. CallSoFar'
  <2>1. /\ Occupied \subseteq Mutations
        /\ \A b, c \in Occupied : b.revision = c.revision => b = c
    BY OccupiedSlots DEF IInv
  <2>2. Mutations' = Mutations /\ Data' = Data
    BY DEF Mutations, Data
  <2>3. \A r \in n + 1 .. n : FALSE
    BY <1>4
  <2> QED
    BY <1>1, <1>3, <1>4, <1>5, <2>1, <2>2, <2>3 DEF CallSoFar
<1>7. PassesAreBounded'
  <2>1. n - n + Cardinality(Occupied) <= Capacity
    BY <1>4, OccupiedFits
  <2>2. Cardinality(Occupied)' = Cardinality(Occupied)
    BY <1>3
  <2> QED
    BY <1>1, <1>3, <2>1, <2>2 DEF PassesAreBounded
<1> QED
  BY <1>1, <1>2, <1>4, <1>6, <1>7 DEF IInv, Data

\* A pass of the loop that applies a mutation.
LEMMA ApplyKeepsIInv ==
    ASSUME IInv, Apply
    PROVE  IInv'
<1>1. PICK i \in Slots :
        /\ slots[i].revision = revision + 1
        /\ data' = [data EXCEPT ![slots[i].path] = slots[i].value]
        /\ revision' = slots[i].revision
        /\ slots' = [AfterScan EXCEPT ![i] = Empty]
  BY DEF Apply
<1> DEFINE m == slots[i]
           before == start.revision
<1>2. replaying /\ replaying' = replaying /\ start' = start
  BY DEF Apply
<1>3. /\ revision \in Nat /\ data \in Data /\ before \in Nat /\ before <= revision
      /\ start.buffered \subseteq Mutations /\ start.data \in Data
      /\ \A b, c \in start.buffered : b.revision = c.revision => b = c
      /\ \A r \in before + 1 .. revision : \E b \in start.buffered : b.revision = r
      /\ Occupied \subseteq start.buffered
      /\ \A b \in start.buffered : b.revision > revision => b \in Occupied
      /\ data = Account!Replayed(start.data, before, revision)
  BY <1>2 DEF IInv, CallSoFar
<1>4. slots \in [Slots -> Mutations \cup {Empty}]
  BY DEF IInv, SlotsWellFormed
<1>5. /\ m \in Mutations /\ m # Empty /\ m.path \in Paths /\ m.value \in Values
      /\ m \in Occupied /\ m \in start.buffered
  <2>1. m # Empty
    BY <1>1, <1>3, SlotKinds
  <2>2. m \in Mutations
    BY <1>4, <2>1
  <2>3. m \in Occupied
    BY <2>1, OccupiedSlots DEF IInv
  <2> QED
    BY <2>1, <2>2, <2>3, <1>3, SlotKinds
<1>6. \A j \in Slots : slots'[j] = IF j = i \/ slots[j].revision <= revision THEN Empty ELSE slots[j]
  BY <1>1 DEF AfterScan
<1>7. SlotsWellFormed'
  <2> DEFINE free == {j \in Slots : j = i \/ slots[j].revision <= revision}
  <2>1. slots' = [j \in Slots |-> IF j \in free THEN Empty ELSE slots[j]]
    BY <1>1 DEF AfterScan
  <2> QED
    BY <2>1, FreeingSlots DEF IInv
<1>8. revision' = revision + 1 /\ revision' \in Nat
  BY <1>1, <1>3
<1>9. data' \in Data
  BY <1>1, <1>3, <1>5 DEF Data
<1>10. Occupied' \subseteq Occupied
  BY <1>6 DEF Occupied, Slots, Empty
<1>11. ASSUME NEW b \in start.buffered, b.revision > revision'
       PROVE  b \in Occupied'
  <2>1. b \in Occupied /\ b.revision \in Nat
    BY <1>3, <1>8, <1>11, SlotKinds
  <2>2. PICK j \in Slots : slots[j] = b /\ slots[j] # Empty
    BY <2>1, OccupiedSlots DEF IInv
  <2>3. slots'[j] = b
    BY <1>1, <1>3, <1>6, <1>8, <1>11, <2>1, <2>2
  <2> QED
    BY <2>2, <2>3 DEF Occupied, Slots, Empty
<1>12. data' = Account!Replayed(start.data, before, revision + 1)
  <2> DEFINE W(p) == Account!WritesTo(p, before, revision)
             V(p) == Account!WritesTo(p, before, revision + 1)
             value(p) == IF V(p) = {} THEN start.data[p] ELSE Account!LatestOf(V(p)).value
  <2>1. \A p : /\ W(p) = {b \in start.buffered : b.path = p /\ before < b.revision
                                                  /\ b.revision <= revision}
               /\ V(p) = {b \in start.buffered : b.path = p /\ before < b.revision
                                                  /\ b.revision <= revision + 1}
    BY DEF Account!WritesTo
  <2>2. \A b \in start.buffered : b.revision \in Nat /\ (b.revision = revision + 1 => b = m)
    BY <1>1, <1>3, <1>5, SlotKinds
  <2>3. ASSUME NEW p \in Paths PROVE data'[p] = value(p)
    <3>1. CASE p = m.path
      <4>1. m \in V(p)
        BY <1>1, <1>3, <1>5, <2>1, <3>1
      <4>2. V(p) \in SUBSET Mutations /\ \A b \in V(p) : b.revision <= m.revision
        BY <1>1, <1>3, <2>1
      <4>3. \A b, c \in V(p) : b.revision = c.revision => b = c
        BY <1>3, <2>1
      <4>4. Account!LatestOf(V(p)) = m
        BY <4>1, <4>2, <4>3, LatestIsTop
      <4>5. data'[p] = m.value
        BY <1>1, <1>3, <3>1 DEF Data
      <4> QED
        BY <4>1, <4>4, <4>5
    <3>2. CASE p # m.path
      <4>1. V(p) = W(p)
        <5>1. \A b \in start.buffered : b.path = p /\ b.revision <= revision + 1
                                        <=> b.path = p /\ b.revision <= revision
          <6> SUFFICES ASSUME NEW b \in start.buffered, b.path = p
                       PROVE  b.revision <= revision + 1 <=> b.revision <= revision
            OBVIOUS
          <6>1. b.revision \in Nat /\ b.revision # revision + 1
            BY <2>2, <3>2
          <6> QED
            BY <1>3, <6>1
        <5> QED
          BY <2>1, <5>1
      <4>2. data'[p] = data[p]
        BY <1>1, <1>3, <3>2 DEF Data
      <4>3. data[p] = IF W(p) = {} THEN start.data[p] ELSE Account!LatestOf(W(p)).value
        BY <1>3 DEF Account!Replayed
      <4> QED
        BY <4>1, <4>2, <4>3
    <3> QED
      BY <3>1, <3>2
  <2>4. Account!Replayed(start.data, before, revision + 1) = [p \in Paths |-> value(p)]
    BY DEF Account!Replayed
  <2>5. data' = [p \in Paths |-> data'[p]]
    BY <1>9 DEF Data
  <2> HIDE DEF value
  <2> QED
    BY <2>3, <2>4, <2>5
<1>13. CallSoFar'
  <2>1. \A r \in before + 1 .. revision' : \E b \in start.buffered : b.revision = r
    <3> SUFFICES ASSUME NEW r \in before + 1 .. revision' PROVE \E b \in start.buffered : b.revision = r
      OBVIOUS
    <3>1. CASE r = revision + 1
      BY <3>1, <1>1, <1>5
    <3>2. CASE r # revision + 1
      BY <3>2, <1>3, <1>8
    <3> QED
      BY <3>1, <3>2
  <2>2. before <= revision'
    BY <1>3, <1>8
  <2>3. (Account!Replayed(start.data, start.revision, revision))'
          = Account!Replayed(start.data, before, revision + 1)
    BY <1>2, <1>8 DEF Account!Replayed, Account!WritesTo, Account!LatestOf
  <2>4. Mutations' = Mutations /\ Data' = Data
    BY DEF Mutations, Data
  <2> QED
    BY <1>2, <1>3, <1>10, <1>11, <1>12, <2>1, <2>2, <2>3, <2>4 DEF CallSoFar
<1>14. Data' = Data
  BY DEF Data
<1>15. PassesAreBounded'
  <2>1. m \notin Occupied'
    <3> SUFFICES ASSUME NEW j \in Slots, slots'[j] = m, slots'[j] # Empty PROVE FALSE
      BY DEF Occupied, Slots, Empty
    <3>1. j # i /\ slots[j] = m
      BY <1>6
    <3> QED
      BY <1>5, <3>1 DEF IInv, SlotsWellFormed
  <2>2. Occupied' \in SUBSET (Occupied \ {m})
    BY <1>10, <2>1
  <2>3. /\ IsFiniteSet(Occupied) /\ Cardinality(Occupied) \in Nat
        /\ IsFiniteSet(Occupied \ {m}) /\ Cardinality(Occupied \ {m}) = Cardinality(Occupied) - 1
    BY <1>5, OccupiedFits, FS_RemoveElement
  <2>4. IsFiniteSet(Occupied') /\ Cardinality(Occupied') <= Cardinality(Occupied \ {m})
    BY <2>2, <2>3, FS_Subset
  <2>5. Cardinality(Occupied') \in Nat
    BY <2>4, FS_CardinalityType
  <2>6. revision - before + Cardinality(Occupied) <= Capacity /\ Capacity \in Nat
    BY <1>2, SlotKinds DEF IInv, PassesAreBounded
  <2>7. (revision + 1) - before + Cardinality(Occupied') <= Capacity
    BY <1>3, <2>3, <2>4, <2>5, <2>6
  <2>8. start'.revision = before /\ Cardinality(Occupied)' = Cardinality(Occupied')
    BY <1>2
  <2> HIDE DEF m
  <2> QED
    BY <1>8, <2>7, <2>8 DEF PassesAreBounded
<1> QED
  BY <1>2, <1>7, <1>8, <1>9, <1>13, <1>14, <1>15 DEF IInv

LEMMA OtherStepsKeepIInv ==
    ASSUME IInv, Return \/ Reconnect \/ UNCHANGED vars
    PROVE  IInv'
<1>0. Data' = Data /\ Mutations' = Mutations /\ Slots' = Slots /\ Empty' = Empty
  BY DEF Data, Mutations, Slots, Empty
<1>1. CASE Return
  <2> DEFINE free == {j \in Slots : slots[j].revision <= revision}
  <2>1. /\ slots' = [j \in Slots |-> IF j \in free THEN Empty ELSE slots[j]]
        /\ replaying' = FALSE /\ UNCHANGED <<revision, data, start>>
    BY <1>1 DEF Return, AfterScan
  <2>2. SlotsWellFormed'
    BY <2>1, FreeingSlots DEF IInv
  <2> QED
    BY <1>0, <2>1, <2>2 DEF IInv, CallSoFar, PassesAreBounded
<1>2. CASE Reconnect
  <2>1. /\ slots' = [i \in Slots |-> Empty]
        /\ replaying' = FALSE /\ UNCHANGED <<revision, data>>
    BY <1>2 DEF Reconnect, IInv
  <2>2. SlotsWellFormed'
    BY <1>0, <2>1 DEF SlotsWellFormed
  <2> QED
    BY <1>0, <2>1, <2>2 DEF IInv, CallSoFar, PassesAreBounded
<1>3. CASE UNCHANGED vars
  <2>1. UNCHANGED <<slots, revision, data, replaying, start>>
    BY <1>3 DEF vars
  <2>2. SlotsWellFormed'
    BY <1>0, <2>1 DEF IInv, SlotsWellFormed
  <2>3. CallSoFar'
    <3>1. Occupied' = Occupied
      BY <2>1 DEF Occupied, Slots, Empty
    <3>2. (Account!Replayed(start.data, start.revision, revision))'
            = Account!Replayed(start.data, start.revision, revision)
      BY <2>1 DEF Account!Replayed, Account!WritesTo, Account!LatestOf
    <3> QED
      BY <1>0, <2>1, <3>1, <3>2 DEF IInv, CallSoFar
  <2>4. PassesAreBounded'
    BY <2>1 DEF IInv, PassesAreBounded, Occupied, Slots, Empty
  <2> QED
    BY <1>0, <2>1, <2>2, <2>3, <2>4 DEF IInv
<1> QED
  BY <1>1, <1>2, <1>3

LEMMA NextKeepsIInv == IInv /\ [Next]_vars => IInv'
  BY BufferKeepsIInv, InstallKeepsIInv, ApplyKeepsIInv, OtherStepsKeepIInv DEF Next

LEMMA InitIsIInv == Init => IInv
<1> SUFFICES ASSUME Init PROVE IInv
  OBVIOUS
<1>1. slots = [i \in Slots |-> Empty] /\ replaying = FALSE /\ revision \in 0 .. MaxRevision
      /\ data \in Data
  BY DEF Init
<1>2. revision \in Nat
  BY <1>1, SlotKinds
<1>3. SlotsWellFormed
  BY <1>1 DEF SlotsWellFormed
<1> QED
  BY <1>1, <1>2, <1>3 DEF IInv, CallSoFar, PassesAreBounded

LEMMA Invariance == Spec => []IInv
  BY InitIsIInv, NextKeepsIInv, PTL DEF Spec
-----------------------------------------------------------------------------
\* buffer_mutation and replay_buffer keep one slot for each revision, so the
\* mutation that comes next does not depend on the order of the slots.
THEOREM OneSlotEach == Spec => []SlotsWellFormed
<1>1. IInv => SlotsWellFormed
  BY DEF IInv
<1> QED
  BY <1>1, Invariance, PTL

\* A call of replay_buffer applies no more mutations than it found slots occupied:
\* its loop has no other bound in the code.
THEOREM LoopIsBounded == Spec => []PassesAreBounded
<1>1. IInv => PassesAreBounded
  BY DEF IInv
<1> QED
  BY <1>1, Invariance, PTL

\* A call of replay_buffer has, when it returns, done what WatchSync's snapshot
\* action does in one step.
THEOREM LoopIsAccount == Spec => ReturnsAsAccounted
<1>1. ASSUME IInv, [Next]_vars
      PROVE  [Return => /\ revision \in start.revision .. start.revision + Capacity
                        /\ Account!ReplayEndsAt(start.revision, revision)
                        /\ data = Account!Replayed(start.data, start.revision, revision)
                        /\ Occupied' = Account!Ahead(revision)
                        /\ syncing' = (Account!Ahead(revision) # {})]_vars
  <2> SUFFICES ASSUME Return
               PROVE  /\ revision \in start.revision .. start.revision + Capacity
                      /\ Account!ReplayEndsAt(start.revision, revision)
                      /\ data = Account!Replayed(start.data, start.revision, revision)
                      /\ Occupied' = Account!Ahead(revision)
                      /\ syncing' = (Account!Ahead(revision) # {})
    OBVIOUS
  <2>1. /\ replaying /\ \A i \in Slots : slots[i].revision # revision + 1
        /\ slots' = AfterScan
        /\ syncing' = (\E i \in Slots : slots[i].revision > revision + 1)
    BY DEF Return
  <2>2. /\ revision \in Nat /\ start.buffered \subseteq Mutations
        /\ \A r \in start.revision + 1 .. revision : \E b \in start.buffered : b.revision = r
        /\ Occupied \subseteq start.buffered
        /\ \A b \in start.buffered : b.revision > revision => b \in Occupied
        /\ data = Account!Replayed(start.data, start.revision, revision)
    BY <1>1, <2>1 DEF IInv, CallSoFar
  <2>3. slots \in [Slots -> Mutations \cup {Empty}]
    BY <1>1 DEF IInv, SlotsWellFormed
  <2>4. \A b \in start.buffered : b.revision \in Nat
    BY <2>2, SlotKinds
  <2>5. \A b \in Occupied : \E i \in Slots : slots[i] = b /\ slots[i] # Empty
    BY <1>1, OccupiedSlots DEF IInv
  <2>6. Account!ReplayEndsAt(start.revision, revision)
    <3>1. ~ \E b \in start.buffered : b.revision = revision + 1
      BY <2>1, <2>2, <2>5
    <3> QED
      BY <2>2, <3>1 DEF Account!ReplayEndsAt, Account!BufferedRevisions
  <2>7. Account!Ahead(revision) = {b \in start.buffered : b.revision > revision}
    BY DEF Account!Ahead
  <2>8. \A i \in Slots : slots'[i] = IF slots[i].revision <= revision THEN Empty ELSE slots[i]
    BY <2>1 DEF AfterScan
  <2>9. \A i \in Slots : slots[i] # Empty => slots[i] \in Occupied
    BY <1>1, OccupiedSlots DEF IInv
  <2>10. \A b : b \in Occupied' <=> \E i \in Slots : slots'[i] = b /\ slots'[i] # Empty
    BY DEF Occupied, Slots, Empty
  <2>11. Occupied' = {b \in start.buffered : b.revision > revision}
    <3>1. ASSUME NEW b \in Occupied' PROVE b \in start.buffered /\ b.revision > revision
      <4>1. PICK i \in Slots : slots'[i] = b /\ slots'[i] # Empty
        BY <2>10
      <4>2. slots[i] = b /\ ~(slots[i].revision <= revision) /\ slots[i] # Empty
        BY <2>8, <4>1
      <4> QED
        BY <2>2, <2>4, <2>9, <4>2
    <3>2. ASSUME NEW b \in start.buffered, b.revision > revision PROVE b \in Occupied'
      <4>1. PICK i \in Slots : slots[i] = b /\ slots[i] # Empty
        BY <2>2, <2>5, <3>2
      <4>2. slots'[i] = b
        BY <2>2, <2>4, <2>8, <3>2, <4>1
      <4> QED
        BY <2>10, <4>1, <4>2
    <3> QED
      BY <3>1, <3>2
  <2>12. (\E i \in Slots : slots[i].revision > revision + 1)
           <=> {b \in start.buffered : b.revision > revision} # {}
    <3>1. ASSUME NEW i \in Slots, slots[i].revision > revision + 1
          PROVE  \E b \in start.buffered : b.revision > revision
      <4>1. slots[i] # Empty
        BY <2>2, <3>1, SlotKinds
      <4> QED
        BY <2>2, <2>4, <2>9, <3>1, <4>1
    <3>2. ASSUME NEW b \in start.buffered, b.revision > revision
          PROVE  \E i \in Slots : slots[i].revision > revision + 1
      <4>1. PICK i \in Slots : slots[i] = b
        BY <2>2, <2>5, <3>2
      <4> QED
        BY <2>1, <2>2, <2>4, <3>2, <4>1
    <3> QED
      BY <3>1, <3>2
  <2>13. revision \in start.revision .. start.revision + Capacity
    <3>1. /\ start.revision \in Nat /\ start.revision <= revision
          /\ revision - start.revision + Cardinality(Occupied) <= Capacity
      BY <1>1, <2>1 DEF IInv, CallSoFar, PassesAreBounded
    <3>2. Cardinality(Occupied) \in Nat /\ Capacity \in Nat
      BY OccupiedFits, SlotKinds
    <3> QED
      BY <2>2, <3>1, <3>2
  <2> QED
    BY <2>1, <2>2, <2>6, <2>7, <2>11, <2>12, <2>13
<1> QED
  BY <1>1, Invariance, PTL DEF Spec, ReturnsAsAccounted
=============================================================================
