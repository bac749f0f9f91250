--------------------------- MODULE WatchSyncProofs ---------------------------
(***************************************************************************)
(* Theorems about the synchronization service, for every set of leaves and *)
(* values, every buffer capacity and every number of mutations.            *)
(***************************************************************************)
EXTENDS WatchSync, FiniteSetTheorems, WellFoundedInduction, TLAPS

(***************************************************************************)
(* The session's history is what its mutations make of its first state:    *)
(* a leaf has the value of the mutation that wrote it, and keeps it while  *)
(* no mutation writes it.  This replaces an induction over the mutations.  *)
(***************************************************************************)
EachMutationWrites(l, h) ==
    \A i \in 1 .. Len(l) : h[i] = [h[i - 1] EXCEPT ![l[i].path] = l[i].value]

UnwrittenLeavesStay(l, h) ==
    \A j, k \in 0 .. Len(l), p \in Paths :
        j <= k /\ (\A i \in (j + 1) .. k : l[i].path # p) => h[j][p] = h[k][p]

HistoryOfLog == EachMutationWrites(log, hist) /\ UnwrittenLeavesStay(log, hist)

\* The inductive invariant.
IInv ==
    /\ TypeOK
    /\ HistoryOfLog
    /\ installed => connected
    /\ connected /\ ~syncing => installed
    /\ ShowsHostState
    /\ OneRequestWhileSyncing
    /\ BufferIsAhead

-----------------------------------------------------------------------------
\* A bounded, nonempty set of mutations has one of greatest revision, which is
\* then the one LatestOf chooses.
LEMMA LatestExists ==
    ASSUME NEW W \in SUBSET Mutations, W # {},
           NEW top \in Nat, \A b \in W : b.revision <= top
    PROVE  /\ LatestOf(W) \in W
           /\ \A c \in W : c.revision <= LatestOf(W).revision
<1> DEFINE Less == {ss \in Nat \X Nat : ss[1] < ss[2]}
           Gaps == {n \in Nat : \E b \in W : n = top - b.revision}
<1>1. IsWellFoundedOn(Less, Nat)
  BY NatLessThanWellFounded DEF OpToRel
<1>2. Gaps \subseteq Nat /\ Gaps # {}
  BY DEF Mutations
<1>3. \E n \in Gaps : \A m \in Gaps : ~ (<<m, n>> \in Less)
  <2> HIDE DEF Less, Gaps
  <2> QED
    BY <1>1, <1>2, WFMin
<1>4. PICK n \in Gaps : \A m \in Gaps : ~ (m < n)
  BY <1>3
<1>5. PICK b \in W : n = top - b.revision
  BY <1>4
<1>6. \A c \in W : c.revision <= b.revision
  BY <1>4, <1>5 DEF Mutations
<1> QED
  BY <1>6 DEF LatestOf

\* replay_buffer does what the host did: replaying the buffered mutations
\* n+1 .. end on the host's state at n yields the host's state at end.
LEMMA ReplayMatchesHost ==
    ASSUME TypeOK, HistoryOfLog, BufferIsAhead,
           NEW n \in 0 .. Len(log), NEW end \in n .. n + Capacity, ReplayEndsAt(n, end)
    PROVE  /\ end \in 0 .. Len(log)
           /\ Replayed(hist[n], n, end) = hist[end]
<1> USE DEF TypeOK
<1>1. end \in 0 .. Len(log)
  <2>1. CASE end = n
    BY <2>1
  <2>2. CASE end # n
    <3>1. end \in BufferedRevisions
      BY <2>2, CapacityAssumption DEF ReplayEndsAt
    <3> QED
      BY <3>1 DEF BufferedRevisions, BufferIsAhead
  <2> QED
    BY <2>1, <2>2
<1>2. \A i \in (n + 1) .. end : Mutation(i) \in buffered
  BY <1>1 DEF ReplayEndsAt, BufferedRevisions, BufferIsAhead
<1>3. ASSUME NEW p \in Paths
      PROVE  Replayed(hist[n], n, end)[p] = hist[end][p]
  <2> DEFINE W == WritesTo(p, n, end)
  <2>1. CASE W = {}
    <3>1. \A i \in (n + 1) .. end : log[i].path # p
      <4> SUFFICES ASSUME NEW i \in (n + 1) .. end, log[i].path = p
                   PROVE  Mutation(i) \in W
        BY <2>1
      <4> QED
        BY <1>1, <1>2 DEF WritesTo, Mutation
    <3>2. hist[n][p] = hist[end][p]
      BY <1>1, <3>1, CapacityAssumption DEF HistoryOfLog, UnwrittenLeavesStay
    <3> QED
      BY <2>1, <3>2 DEF Replayed
  <2>2. CASE W # {}
    <3> DEFINE b == LatestOf(W)
    <3>1. b \in W /\ \A c \in W : c.revision <= b.revision
      <4>1. W \in SUBSET Mutations /\ end \in Nat /\ \A c \in W : c.revision <= end
        BY <1>1 DEF WritesTo, Mutations
      <4> QED
        BY <2>2, <4>1, LatestExists
    <3>2. b.revision \in (n + 1) .. end /\ b = Mutation(b.revision) /\ b.path = p
      BY <1>1, <3>1 DEF WritesTo, BufferIsAhead
    <3>3. \A i \in (b.revision + 1) .. end : log[i].path # p
      <4> SUFFICES ASSUME NEW i \in (b.revision + 1) .. end, log[i].path = p
                   PROVE  FALSE
        OBVIOUS
      <4>1. i \in (n + 1) .. end
        BY <1>1, <3>2
      <4>2. Mutation(i) \in buffered
        BY <1>2, <4>1
      <4>3. Mutation(i) \in W
        BY <4>1, <4>2, <1>1 DEF WritesTo, Mutation
      <4> QED
        BY <3>1, <3>2, <4>3, <1>1 DEF Mutation
    <3>4. hist[b.revision][p] = hist[end][p]
      <4>1. b.revision \in 0 .. Len(log) /\ b.revision <= end
        BY <1>1, <3>2
      <4> HIDE DEF b
      <4> QED
        BY <1>1, <3>3, <4>1, ZenonT(30) DEF HistoryOfLog, UnwrittenLeavesStay
    <3>5. hist[b.revision][p] = b.value
      <4> DEFINE r == b.revision
      <4>1. r \in 1 .. Len(log) /\ b.path = log[r].path /\ b.value = log[r].value
        BY <1>1, <3>2 DEF Mutation
      <4>2. hist[r] = [hist[r - 1] EXCEPT ![log[r].path] = log[r].value]
        BY <4>1 DEF HistoryOfLog, EachMutationWrites
      <4>3. hist[r - 1] \in Data
        BY <4>1
      <4> QED
        BY <3>2, <4>1, <4>2, <4>3, ZenonT(30) DEF Data
    <3> QED
      BY <2>2, <3>4, <3>5 DEF Replayed
  <2> QED
    BY <2>1, <2>2
<1>4. hist[end] \in Data
  BY <1>1
<1> QED
  BY <1>1, <1>3, <1>4 DEF Replayed, Data

-----------------------------------------------------------------------------
\* watch_sync_init and watch_state_init establish the inductive invariant: an
\* offline watch with an empty buffer owes nothing to any host state.
LEMMA InitIInv == Init => IInv
<1> SUFFICES ASSUME Init PROVE IInv
  OBVIOUS
<1> USE DefaultsAssumption, CapacityAssumption DEF Init
<1>1. TypeOK
  BY FS_EmptySet DEF TypeOK
<1>2. HistoryOfLog
  BY DEF HistoryOfLog, EachMutationWrites, UnwrittenLeavesStay
<1> QED
  BY <1>1, <1>2 DEF IInv, ShowsHostState, OneRequestWhileSyncing, BufferIsAhead

\* Publishing extends the history and disturbs nothing the watch holds.
LEMMA PublishKeepsIInv ==
    ASSUME IInv, NEW p \in Paths, NEW v \in Values, NEW kind \in Kinds, Publish(p, v, kind)
    PROVE  IInv'
<1> DEFINE e == [path |-> p, value |-> v, kind |-> kind]
<1>0. TypeOK /\ HistoryOfLog /\ ShowsHostState /\ BufferIsAhead
  BY DEF IInv
<1>1. e \in Entries
  BY DEF Entries
<1>2. /\ log' \in Seq(Entries)
      /\ Len(log') = Len(log) + 1
      /\ log'[Len(log) + 1] = e
      /\ \A i \in 1 .. Len(log) : log'[i] = log[i]
  BY <1>0, <1>1 DEF Publish, TypeOK
<1>3. hist[Len(log)] \in Data
  BY <1>0 DEF TypeOK
<1>4. [hist[Len(log)] EXCEPT ![p] = v] \in Data
  BY <1>3 DEF Data
<1>5. /\ \A i \in 0 .. Len(log) : hist'[i] = hist[i]
      /\ hist'[Len(log) + 1] = [hist[Len(log)] EXCEPT ![p] = v]
      /\ hist' \in [0 .. Len(log') -> Data]
  BY <1>0, <1>2, <1>4, SMTT(30) DEF Publish, TypeOK
<1>6. TypeOK'
  BY <1>0, <1>2, <1>5 DEF Publish, TypeOK
<1>a. Len(log) \in Nat
  BY <1>0 DEF TypeOK
<1>7. EachMutationWrites(log', hist')
  <2> SUFFICES ASSUME NEW i \in 1 .. Len(log')
               PROVE  hist'[i] = [hist'[i - 1] EXCEPT ![log'[i].path] = log'[i].value]
    BY DEF EachMutationWrites
  <2>1. CASE i <= Len(log)
    <3>1. i \in 1 .. Len(log) /\ i \in 0 .. Len(log) /\ i - 1 \in 0 .. Len(log)
      BY <1>a, <1>2, <2>1
    <3>2. hist'[i] = hist[i] /\ hist'[i - 1] = hist[i - 1] /\ log'[i] = log[i]
      BY <1>2, <1>5, <3>1
    <3>3. hist[i] = [hist[i - 1] EXCEPT ![log[i].path] = log[i].value]
      BY <1>0, <3>1 DEF HistoryOfLog, EachMutationWrites
    <3> QED
      BY <3>2, <3>3
  <2>2. CASE i = Len(log) + 1
    <3>1. i \in 0 .. Len(log') /\ i - 1 = Len(log) /\ Len(log) \in 0 .. Len(log)
      BY <1>a, <2>2
    <3>2. hist'[i] = [hist[Len(log)] EXCEPT ![p] = v] /\ hist'[i - 1] = hist[Len(log)]
      BY <1>5, <2>2, <3>1
    <3>3. log'[i].path = p /\ log'[i].value = v
      BY <1>2, <2>2
    <3> QED
      BY <3>2, <3>3
  <2> QED
    BY <1>a, <1>2, <2>1, <2>2
<1>8. UnwrittenLeavesStay(log', hist')
  <2> SUFFICES ASSUME NEW j \in 0 .. Len(log'), NEW k \in 0 .. Len(log'), NEW q \in Paths,
                      j <= k, \A i \in (j + 1) .. k : log'[i].path # q
               PROVE  hist'[j][q] = hist'[k][q]
    BY DEF UnwrittenLeavesStay
  <2>1. CASE k <= Len(log)
    <3>1. \A i \in (j + 1) .. k : log[i].path # q
      BY <1>a, <1>2, <2>1
    <3>2. j \in 0 .. Len(log) /\ k \in 0 .. Len(log)
      BY <1>a, <1>2, <2>1
    <3>3. hist[j][q] = hist[k][q]
      BY <1>0, <3>1, <3>2 DEF HistoryOfLog, UnwrittenLeavesStay
    <3> QED
      BY <1>5, <3>2, <3>3
  <2>2. CASE j = k
    BY <2>2
  <2>3. CASE j <= Len(log) /\ k = Len(log) + 1
    <3>1. p # q
      BY <1>a, <1>2, <2>3
    <3>2. \A i \in (j + 1) .. Len(log) : log[i].path # q
      BY <1>a, <1>2, <2>3
    <3>3. hist[j][q] = hist[Len(log)][q]
      BY <1>0, <1>a, <2>3, <3>2 DEF HistoryOfLog, UnwrittenLeavesStay
    <3>4. hist'[k][q] = hist[Len(log)][q]
      BY <1>3, <1>5, <2>3, <3>1 DEF Data
    <3> QED
      BY <1>a, <1>5, <2>3, <3>3, <3>4
  <2> QED
    BY <1>a, <1>2, <2>1, <2>2, <2>3
<1>9. ShowsHostState'
  BY <1>0, <1>2, <1>5 DEF Publish, ShowsHostState, TypeOK
<1>10. BufferIsAhead'
  BY <1>0, <1>2 DEF Publish, BufferIsAhead, Mutation, TypeOK
<1> QED
  BY <1>0, <1>6, <1>7, <1>8, <1>9, <1>10 DEF IInv, HistoryOfLog, Publish, OneRequestWhileSyncing

\* A buffer with a free slot takes one more mutation and no more than its
\* capacity.
LEMMA AddingOne ==
    ASSUME NEW S, NEW x, IsFiniteSet(S)
    PROVE  IsFiniteSet(S \cup {x}) /\ Cardinality(S \cup {x}) <= Cardinality(S) + 1
<1>1. Cardinality(S) \in Nat
  BY FS_CardinalityType
<1>2. CASE x \in S
  BY <1>1, <1>2, FS_AddElement
<1>3. CASE x \notin S
  BY <1>1, <1>3, FS_AddElement
<1> QED
  BY <1>2, <1>3

\* A buffer that takes one more of the session's mutations still has its type
\* and stays within its capacity.
LEMMA BufferWithStaysBounded ==
    ASSUME TypeOK, NEW i \in 1 .. Len(log), HasRoom(Mutation(i))
    PROVE  /\ BufferWith(Mutation(i)) \subseteq Mutations
           /\ IsFiniteSet(BufferWith(Mutation(i)))
           /\ Cardinality(BufferWith(Mutation(i))) <= Capacity
<1>1. Mutation(i) \in Mutations
  <2>1. log[i] \in Entries
    BY DEF TypeOK
  <2>2. log[i].path \in Paths /\ log[i].value \in Values
    BY <2>1 DEF Entries
  <2> QED
    BY <2>2 DEF Mutation, Mutations, TypeOK
<1>2. CASE i \in BufferedRevisions
  BY <1>2 DEF BufferWith, Mutation, TypeOK
<1>3. CASE i \notin BufferedRevisions
  <2>1. Cardinality(buffered) < Capacity /\ BufferWith(Mutation(i)) = buffered \cup {Mutation(i)}
    BY <1>3 DEF HasRoom, BufferWith, Mutation
  <2>2. Cardinality(buffered) \in Nat /\ IsFiniteSet(buffered)
    BY FS_CardinalityType DEF TypeOK
  <2>3. /\ IsFiniteSet(buffered \cup {Mutation(i)})
        /\ Cardinality(buffered \cup {Mutation(i)}) <= Cardinality(buffered) + 1
    <3> HIDE DEF Mutation
    <3> QED
      BY <2>2, AddingOne
  <2>4. Cardinality(buffered \cup {Mutation(i)}) \in Nat
    BY <2>3, FS_CardinalityType
  <2> QED
    BY <1>1, <2>1, <2>2, <2>3, <2>4, CapacityAssumption DEF TypeOK
<1> QED
  BY <1>2, <1>3

\* An offline watch has nothing to keep but a state and a revision.
LEMMA OfflineKeepsIInv ==
    ASSUME IInv, Offline, UNCHANGED host, data' \in Data, revision' \in Nat
    PROVE  IInv'
<1>1. UNCHANGED <<log, hist>>
  BY DEF host
<1>2. TypeOK'
  <2>1. log' \in Seq(Entries) /\ hist' \in [0 .. Len(log') -> Data]
    BY <1>1 DEF IInv, TypeOK
  <2> QED
    BY <2>1, FS_EmptySet, CapacityAssumption DEF Offline, TypeOK
<1>3. HistoryOfLog'
  <2>1. HistoryOfLog
    BY DEF IInv
  <2> QED
    BY <1>1, <2>1 DEF HistoryOfLog
<1> QED
  BY <1>2, <1>3 DEF Offline, IInv, ShowsHostState, OneRequestWhileSyncing, BufferIsAhead

\* Every outcome of watch_sync_handle on a state_set or state_patch preserves
\* the inductive invariant, whichever mutation of the session arrives.
LEMMA MutationKeepsIInv ==
    ASSUME IInv, NEW i \in 1 .. Len(log), ReceiveMutation(i)
    PROVE  IInv'
<1>0. /\ TypeOK
      /\ ShowsHostState
      /\ OneRequestWhileSyncing
      /\ BufferIsAhead
      /\ HistoryOfLog
      /\ connected /\ ~syncing => installed
      /\ installed => connected
  BY DEF IInv
<1>1. UNCHANGED <<log, hist>>
  BY DEF ReceiveMutation, ReceiveRefused, ReceiveUnchanged, ReceiveWhileSyncing,
         ReceiveWhileFull, ReceiveGap, ReceiveNext, vars
<1>2. HistoryOfLog'
  BY <1>0, <1>1 DEF HistoryOfLog
<1>3. CASE ReceiveRefused(i) \/ ReceiveWhileFull(i)
  <2>1. Offline /\ data' \in Data /\ revision' \in Nat
    BY <1>0, <1>3 DEF ReceiveRefused, ReceiveWhileFull, TypeOK
  <2> QED
    BY <1>1, <2>1, OfflineKeepsIInv DEF host
<1>4. CASE ReceiveUnchanged(i)
  <2>1. UNCHANGED vars
    BY <1>4 DEF ReceiveUnchanged
  <2> QED
    BY <2>1, <1>0, <1>2 DEF vars, IInv, TypeOK, ShowsHostState,
                            OneRequestWhileSyncing, BufferIsAhead, Mutation
<1>5. CASE ReceiveWhileSyncing(i)
  <2>1. TypeOK'
    BY <1>0, <1>5, BufferWithStaysBounded DEF ReceiveWhileSyncing, TypeOK
  <2>2. BufferIsAhead'
    BY <1>0, <1>5 DEF ReceiveWhileSyncing, BufferWith, BufferIsAhead, Mutation, TypeOK
  <2> QED
    BY <1>0, <1>2, <1>5, <2>1, <2>2 DEF IInv, ReceiveWhileSyncing, ShowsHostState,
                                        OneRequestWhileSyncing
<1>6. CASE ReceiveGap(i)
  <2>1. TypeOK'
    BY <1>0, <1>6, BufferWithStaysBounded DEF ReceiveGap, TypeOK
  <2>2. BufferIsAhead'
    BY <1>0, <1>6 DEF ReceiveGap, BufferWith, BufferIsAhead, Mutation, TypeOK
  <2> QED
    BY <1>0, <1>2, <1>6, <2>1, <2>2 DEF IInv, ReceiveGap, ShowsHostState,
                                        OneRequestWhileSyncing
<1>7. CASE ReceiveNext(i)
  <2>1. log[i].path \in Paths /\ log[i].value \in Values
    BY <1>0 DEF TypeOK, Entries
  <2>2. TypeOK'
    BY <1>0, <1>7, <2>1 DEF ReceiveNext, TypeOK, Data
  <2>3. data' = hist[i]
    <3>1. data = hist[i - 1]
      BY <1>0, <1>7 DEF ReceiveNext, ShowsHostState, TypeOK
    <3> DEFINE Write(d) == [d EXCEPT ![log[i].path] = log[i].value]
    <3>2. hist[i] = Write(hist[i - 1])
      BY <1>0 DEF HistoryOfLog, EachMutationWrites
    <3>3. data' = Write(data)
      BY <1>7 DEF ReceiveNext
    <3> HIDE DEF Write
    <3> QED
      BY <3>1, <3>2, <3>3
  <2>4. ShowsHostState'
    <3>1. revision' = i
      BY <1>7 DEF ReceiveNext
    <3>2. i \in 0 .. Len(log)
      BY <1>0 DEF TypeOK
    <3> QED
      BY <1>1, <2>3, <3>1, <3>2 DEF ShowsHostState
  <2>5. BufferIsAhead'
    BY <1>0, <1>7 DEF ReceiveNext, BufferIsAhead, Mutation
  <2> QED
    BY <1>0, <1>2, <1>7, <2>2, <2>4, <2>5 DEF IInv, ReceiveNext, OneRequestWhileSyncing
<1> QED
  BY <1>3, <1>4, <1>5, <1>6, <1>7 DEF ReceiveMutation

\* Every outcome of watch_sync_handle on a sync_response preserves the inductive
\* invariant, whichever revision the snapshot is of.
LEMMA SnapshotKeepsIInv ==
    ASSUME IInv, NEW n \in 0 .. Len(log), NEW end \in n .. n + Capacity,
           ReceiveSnapshot(n, end) \/ ReceiveSnapshotAndFail(n, end)
    PROVE  IInv'
<1>0. /\ TypeOK
      /\ OneRequestWhileSyncing
      /\ BufferIsAhead
      /\ HistoryOfLog
  BY DEF IInv
<1>1. end \in 0 .. Len(log) /\ data' = hist[end] /\ revision' = end
  BY <1>0, ReplayMatchesHost DEF ReceiveSnapshot, ReceiveSnapshotAndFail, InstallSnapshot
<1>2. data' \in Data /\ revision' \in Nat
  BY <1>0, <1>1 DEF TypeOK
<1>3. UNCHANGED <<log, hist>>
  BY DEF ReceiveSnapshot, ReceiveSnapshotAndFail
<1>4. CASE ReceiveSnapshot(n, end)
  <2>1. asked = 1 /\ connected /\ syncing
    BY <1>0, <1>4 DEF ReceiveSnapshot, OneRequestWhileSyncing
  <2>2. /\ buffered' \in SUBSET buffered
        /\ IsFiniteSet(buffered')
        /\ Cardinality(buffered') <= Capacity
    <3>1. buffered' \in SUBSET buffered
      BY <1>4 DEF ReceiveSnapshot, Ahead
    <3>2. IsFiniteSet(buffered') /\ Cardinality(buffered') <= Cardinality(buffered)
      BY <1>0, <3>1, FS_Subset DEF TypeOK
    <3>3. Cardinality(buffered') \in Nat /\ Cardinality(buffered) \in Nat
      BY <1>0, <3>2, FS_CardinalityType DEF TypeOK
    <3> QED
      BY <1>0, <3>1, <3>2, <3>3, CapacityAssumption DEF TypeOK
  <2>3. TypeOK'
    BY <1>0, <1>2, <1>4, <2>1, <2>2 DEF ReceiveSnapshot, TypeOK
  <2>4. BufferIsAhead'
    <3>1. \A b \in buffered' : b \in buffered /\ b.revision > end
      BY <1>4 DEF ReceiveSnapshot, Ahead
    <3>2. \A b \in buffered' : b.revision \in (end + 1) .. Len(log) /\ b = Mutation(b.revision)
      BY <1>0, <1>1, <3>1 DEF BufferIsAhead, TypeOK
    <3>4. ~(connected' /\ syncing') => buffered' = {}
      BY <1>4 DEF ReceiveSnapshot
    <3>3. \A b \in buffered' : b.revision \in (revision' + 1) .. Len(log')
      BY <1>1, <1>3, <3>2
    <3>5. \A b \in buffered' : b = Mutation(b.revision)'
      BY <1>3, <3>2 DEF Mutation
    <3> QED
      BY <3>3, <3>4, <3>5 DEF BufferIsAhead
  <2>5. OneRequestWhileSyncing'
    <3>1. CASE Ahead(end) = {}
      <4>1. ~syncing' /\ asked' = asked - 1
        BY <1>4, <3>1 DEF ReceiveSnapshot
      <4> QED
        BY <2>1, <4>1 DEF OneRequestWhileSyncing
    <3>2. CASE Ahead(end) # {}
      BY <1>4, <2>1, <3>2 DEF ReceiveSnapshot, OneRequestWhileSyncing
    <3> QED
      BY <3>1, <3>2
  <2>6. ShowsHostState'
    BY <1>1, <1>3, <1>4 DEF ReceiveSnapshot, ShowsHostState
  <2>7. HistoryOfLog'
    BY <1>0, <1>3 DEF HistoryOfLog
  <2> QED
    BY <1>4, <2>3, <2>4, <2>5, <2>6, <2>7 DEF IInv, ReceiveSnapshot
<1>5. CASE ReceiveSnapshotAndFail(n, end)
  BY <1>2, <1>3, <1>5, OfflineKeepsIInv DEF ReceiveSnapshotAndFail, host
<1> QED
  BY <1>4, <1>5

\* A new host may take over while the watch is offline: nothing the watch keeps
\* refers to the old session.
LEMMA NewSessionKeepsIInv ==
    ASSUME IInv, NEW d \in HostDefaults, NewSession(d)
    PROVE  IInv'
<1>0. TypeOK /\ ~installed /\ buffered = {} /\ OneRequestWhileSyncing
  BY DEF IInv, NewSession, BufferIsAhead
<1>1. log' = <<>> /\ Len(log') = 0 /\ log' \in Seq(Entries)
  BY DEF NewSession
<1>2. hist' = [i \in {0} |-> d] /\ hist' \in [0 .. Len(log') -> Data]
  BY <1>1, DefaultsAssumption DEF NewSession
<1>3. TypeOK'
  BY <1>0, <1>1, <1>2 DEF NewSession, TypeOK
<1>4. EachMutationWrites(log', hist')
  BY <1>1 DEF EachMutationWrites
<1>5. UnwrittenLeavesStay(log', hist')
  BY <1>1 DEF UnwrittenLeavesStay
<1>6. ~connected' /\ ~installed' /\ buffered' = {}
  BY <1>0 DEF NewSession
<1>7. OneRequestWhileSyncing'
  BY <1>0 DEF NewSession, OneRequestWhileSyncing
<1> QED
  BY <1>3, <1>4, <1>5, <1>6, <1>7 DEF IInv, HistoryOfLog, ShowsHostState, BufferIsAhead

\* Entering a connection keeps the invariant although the revision is kept.
LEMMA ConnectKeepsIInv ==
    ASSUME IInv, Connect
    PROVE  IInv'
<1>0. TypeOK /\ ~installed /\ buffered = {} /\ HistoryOfLog
  BY DEF IInv, Connect, BufferIsAhead
<1>1. TypeOK'
  BY <1>0 DEF Connect, TypeOK
<1>2. HistoryOfLog'
  BY <1>0 DEF Connect, HistoryOfLog
<1>3. connected' /\ syncing' /\ asked' = 1 /\ ~installed' /\ buffered' = {}
  BY <1>0 DEF Connect
<1> QED
  BY <1>1, <1>2, <1>3 DEF IInv, ShowsHostState, OneRequestWhileSyncing, BufferIsAhead

\* Every step, and every stutter, preserves the inductive invariant.
LEMMA NextKeepsIInv == IInv /\ [Next]_vars => IInv'
<1> SUFFICES ASSUME IInv, [Next]_vars
             PROVE  IInv'
  OBVIOUS
<1>1. CASE \E p \in Paths, v \in Values, kind \in Kinds : Publish(p, v, kind)
  BY <1>1, PublishKeepsIInv
<1>2. CASE \E d \in HostDefaults : NewSession(d)
  BY <1>2, NewSessionKeepsIInv
<1>3. CASE Connect
  BY <1>3, ConnectKeepsIInv
<1>4. CASE LoseConnection
  <2>1. Offline /\ UNCHANGED host /\ data' \in Data /\ revision' \in Nat
    BY <1>4 DEF LoseConnection, IInv, TypeOK, host
  <2> QED
    BY <2>1, OfflineKeepsIInv
<1>5. CASE \E i \in 1 .. Len(log) : ReceiveMutation(i)
  BY <1>5, MutationKeepsIInv
<1>6. CASE \E n \in 0 .. Len(log) : \E end \in n .. n + Capacity :
              ReceiveSnapshot(n, end) \/ ReceiveSnapshotAndFail(n, end)
  BY <1>6, SnapshotKeepsIInv
<1>7. CASE UNCHANGED vars
  <2>1. UNCHANGED <<log, hist, connected, asked, revision, syncing, buffered, data, installed>>
    BY <1>7 DEF vars
  <2>2. HistoryOfLog'
    BY <2>1 DEF IInv, HistoryOfLog
  <2> QED
    BY <2>1, <2>2 DEF IInv, TypeOK, ShowsHostState, OneRequestWhileSyncing,
                      BufferIsAhead, Mutation
<1> QED
  BY <1>1, <1>2, <1>3, <1>4, <1>5, <1>6, <1>7 DEF Next

\* The inductive invariant holds in every reachable state.
THEOREM Invariance == Spec => []IInv
<1>1. Init => IInv
  BY InitIInv
<1>2. IInv /\ [Next]_vars => IInv'
  BY NextKeepsIInv
<1> QED
  BY <1>1, <1>2, PTL DEF Spec

-----------------------------------------------------------------------------
\* The variables of struct watch_sync keep their types, and the buffer its
\* capacity: buffer_mutation never has more than Capacity slots to fill.
THEOREM TypeCorrect == Spec => []TypeOK
<1>1. IInv => TypeOK
  BY DEF IInv
<1> QED
  BY <1>1, Invariance, PTL

\* From the first snapshot of a connection on, the watch shows the host's state
\* at the revision it reports: watch_sync_handle never mixes revisions,
\* sessions or halves of a state.
THEOREM ConsistentView == Spec => []ShowsHostState
<1>1. IInv => ShowsHostState
  BY DEF IInv
<1> QED
  BY <1>1, Invariance, PTL

\* A watch that waits for a snapshot has asked for it exactly once: neither
\* watch_sync_connected nor a gap leaves it waiting for nothing.
THEOREM AskedOnce == Spec => []OneRequestWhileSyncing
<1>1. IInv => OneRequestWhileSyncing
  BY DEF IInv
<1> QED
  BY <1>1, Invariance, PTL

\* The buffer holds nothing of an earlier session, nothing already shown and
\* nothing once the watch is synchronized.
THEOREM BufferOfThisSession == Spec => []BufferIsAhead
<1>1. IInv => BufferIsAhead
  BY DEF IInv
<1> QED
  BY <1>1, Invariance, PTL

-----------------------------------------------------------------------------
\* A step never drops a buffered mutation that is still ahead of what is shown.
THEOREM NoBufferedLoss == Spec => BufferedIsNotLost
<1> DEFINE Kept == \A b \in buffered : b \in buffered' \/ b.revision <= revision' \/ ~connected'
<1>1. IInv /\ [Next]_vars => [Kept]_vars
  <2> SUFFICES ASSUME IInv, Next
               PROVE  Kept
    BY DEF vars
  <2>1. CASE \E n \in 0 .. Len(log) : \E end \in n .. n + Capacity : ReceiveSnapshot(n, end)
    <3>0. PICK n \in 0 .. Len(log) : \E end \in n .. n + Capacity : ReceiveSnapshot(n, end)
      BY <2>1
    <3>1. PICK end \in n .. n + Capacity : ReceiveSnapshot(n, end)
      BY <3>0
    <3>2. end \in Int /\ revision' = end /\ buffered' = Ahead(end)
      BY <3>1, CapacityAssumption DEF ReceiveSnapshot, InstallSnapshot
    <3>3. \A b \in buffered : b.revision \in Nat
      BY DEF IInv, TypeOK, Mutations
    <3> QED
      BY <3>2, <3>3 DEF Ahead
  <2>2. CASE ~connected' \/ buffered \subseteq buffered'
    BY <2>2
  <2> QED
    BY <2>1, <2>2 DEF Next, Publish, NewSession, Connect, LoseConnection, ReceiveMutation,
       ReceiveRefused, ReceiveUnchanged, ReceiveWhileSyncing, ReceiveWhileFull, ReceiveGap,
       ReceiveNext, ReceiveSnapshotAndFail, Offline, BufferWith, vars
<1> QED
  BY <1>1, Invariance, PTL DEF Spec, BufferedIsNotLost

\* The outcome of every step for what the watch shows: nothing changes, the
\* next revision is applied, or an answer is installed as a whole.
LEMMA ShownByStep ==
    ASSUME IInv, Next
    PROVE  \/ data' = data /\ revision' = revision
           \/ /\ \E i \in 1 .. Len(log) : ReceiveNext(i)
              /\ connected /\ ~syncing /\ installed /\ asked = 0
              /\ revision' = revision + 1 /\ revision' \in 0 .. Len(log)
              /\ data' = hist[revision']
           \/ /\ \E n \in 0 .. Len(log) : \E end \in n .. n + Capacity :
                    ReceiveSnapshot(n, end) \/ ReceiveSnapshotAndFail(n, end)
              /\ connected /\ syncing /\ asked = 1
              /\ revision' \in 0 .. Len(log)
              /\ data' = hist[revision']
<1>0. TypeOK /\ HistoryOfLog /\ BufferIsAhead /\ OneRequestWhileSyncing
  BY DEF IInv
<1>1. CASE \E i \in 1 .. Len(log) : ReceiveNext(i)
  <2>1. PICK i \in 1 .. Len(log) : ReceiveNext(i)
    BY <1>1
  <2>2. connected /\ ~syncing /\ i = revision + 1 /\ revision' = i /\ UNCHANGED <<log, hist>>
    BY <2>1 DEF ReceiveNext
  <2>3. IInv' /\ connected' /\ ReceiveMutation(i)
    <3>1. ReceiveMutation(i) /\ connected'
      BY <2>1 DEF ReceiveMutation, ReceiveNext
    <3> QED
      BY <3>1, MutationKeepsIInv
  <2>4. ~syncing'
    BY <2>1 DEF ReceiveNext
  <2>5. revision' \in 0 .. Len(log') /\ data' = hist'[revision']
    BY <2>3, <2>4 DEF IInv, ShowsHostState
  <2>6. revision' \in 0 .. Len(log) /\ data' = hist[revision']
    BY <2>2, <2>5
  <2>7. installed /\ asked = 0
    BY <2>2 DEF IInv, OneRequestWhileSyncing
  <2> QED
    BY <1>1, <2>2, <2>6, <2>7
<1>2. CASE \E n \in 0 .. Len(log) : \E end \in n .. n + Capacity :
              ReceiveSnapshot(n, end) \/ ReceiveSnapshotAndFail(n, end)
  <2>0. PICK n \in 0 .. Len(log) : \E end \in n .. n + Capacity :
            ReceiveSnapshot(n, end) \/ ReceiveSnapshotAndFail(n, end)
    BY <1>2
  <2>1. PICK end \in n .. n + Capacity :
            ReceiveSnapshot(n, end) \/ ReceiveSnapshotAndFail(n, end)
    BY <2>0
  <2>2. end \in 0 .. Len(log) /\ data' = hist[end] /\ revision' = end
    BY <1>0, <2>1, ReplayMatchesHost DEF ReceiveSnapshot, ReceiveSnapshotAndFail, InstallSnapshot
  <2>3. connected /\ syncing /\ asked = 1
    BY <1>0, <2>1 DEF ReceiveSnapshot, ReceiveSnapshotAndFail, OneRequestWhileSyncing
  <2> QED
    BY <1>2, <2>2, <2>3
<1>3. CASE data' = data /\ revision' = revision
  BY <1>3
<1> QED
  BY <1>1, <1>2, <1>3 DEF Next, Publish, NewSession, Connect, LoseConnection, ReceiveMutation,
     ReceiveRefused, ReceiveUnchanged, ReceiveWhileSyncing, ReceiveWhileFull, ReceiveGap, vars

\* Nothing is applied out of order, twice, or before the first snapshot of a
\* connection.
THEOREM InOrder == Spec => AppliesInOrder
<1> DEFINE Applied ==
      data' # data \/ revision' # revision =>
         \/ ~syncing /\ installed /\ revision' = revision + 1 /\ data' = hist[revision']
         \/ syncing /\ asked = 1 /\ revision' \in 0 .. Len(log) /\ data' = hist[revision']
<1>1. IInv /\ [Next]_vars => [Applied]_vars
  <2> SUFFICES ASSUME IInv, Next
               PROVE  Applied
    BY DEF vars
  <2> QED
    BY ShownByStep
<1> QED
  BY <1>1, Invariance, PTL DEF Spec, AppliesInOrder

-----------------------------------------------------------------------------
(* Refinement: the service implements SyncPromise.                         *)

\* The initial states of the service are initial states of SyncPromise.
LEMMA InitIsPromised == Init => Promise!Init
<1> SUFFICES ASSUME Init
             PROVE  Promise!Init
  OBVIOUS
<1>1. hist \in [{0} -> Data]
  BY DefaultsAssumption DEF Init
<1> QED
  BY <1>1, DefaultsAssumption DEF Init, Promise!Init

\* Every step of the service is a step of SyncPromise or leaves it unchanged.
LEMMA StepIsPromised ==
    ASSUME IInv, Next
    PROVE  [Promise!Next]_(Promise!promiseVars)
<1> USE DEF Promise!Next, Promise!hostVars, Promise!watchVars, Promise!promiseVars
<1>0. TypeOK /\ OneRequestWhileSyncing /\ (installed => connected)
  BY DEF IInv
<1>1. ASSUME NEW p \in Paths, NEW v \in Values, NEW kind \in Kinds, Publish(p, v, kind)
      PROVE  Promise!Publish
  <2>1. Len(log') = Len(log) + 1
    <3>1. [path |-> p, value |-> v, kind |-> kind] \in Entries
      BY DEF Entries
    <3> QED
      BY <1>0, <1>1, <3>1 DEF Publish, TypeOK
  <2>2. [hist[Len(log)] EXCEPT ![p] = v] \in Data
    BY <1>0 DEF TypeOK, Data
  <2> QED
    BY <1>1, <2>1, <2>2 DEF Publish, Promise!Publish
<1>2. ASSUME NEW d \in HostDefaults, NewSession(d)
      PROVE  Promise!NewSession
  <2>1. hist' \in [{0} -> Data] /\ Len(log') = 0
    BY <1>2, DefaultsAssumption DEF NewSession
  <2> QED
    BY <1>2, <2>1 DEF NewSession, Promise!NewSession
<1>3. ASSUME Connect
      PROVE  Promise!Link
  BY <1>3 DEF Connect, Promise!Link
<1>4. ASSUME LoseConnection
      PROVE  Promise!Lose
  BY <1>4 DEF LoseConnection, Offline, Promise!Lose, Promise!Unlink
<1>5. ASSUME NEW i \in 1 .. Len(log), ReceiveMutation(i)
      PROVE  [Promise!Next]_(Promise!promiseVars)
  <2>1. CASE ReceiveRefused(i) \/ ReceiveWhileFull(i)
    <3>1. Promise!Lose
      BY <2>1 DEF ReceiveRefused, ReceiveWhileFull, Offline, Promise!Lose, Promise!Unlink
    <3> QED
      BY <3>1
  <2>2. CASE ReceiveUnchanged(i) \/ ReceiveWhileSyncing(i)
    <3>1. UNCHANGED <<log, hist, connected, asked, installed, revision, data>>
      BY <2>2 DEF ReceiveUnchanged, ReceiveWhileSyncing, vars
    <3> QED
      BY <3>1
  <2>3. CASE ReceiveGap(i)
    <3>1. asked = 0 /\ asked' = 1
      BY <1>0, <2>3 DEF ReceiveGap, OneRequestWhileSyncing
    <3>2. Promise!Ask
      BY <2>3, <3>1 DEF ReceiveGap, Promise!Ask
    <3> QED
      BY <3>2
  <2>4. CASE ReceiveNext(i)
    <3>1. /\ connected /\ installed /\ asked = 0
          /\ revision' = revision + 1 /\ revision' \in 0 .. Len(log)
          /\ data' = hist[revision']
          /\ UNCHANGED <<log, hist, connected, asked, installed>>
      <4>1. connected /\ ~syncing /\ UNCHANGED <<log, hist, connected, asked, installed>>
        BY <2>4 DEF ReceiveNext
      <4>2. revision' # revision /\ asked = 0
        BY <1>0, <2>4, <4>1 DEF ReceiveNext, TypeOK, OneRequestWhileSyncing
      <4> QED
        BY <4>1, <4>2, ShownByStep
    <3>2. revision < Len(log)
      BY <1>0, <3>1 DEF TypeOK
    <3>3. Promise!Advance
      BY <3>1, <3>2 DEF Promise!Advance
    <3> QED
      BY <3>3
  <2> QED
    BY <1>5, <2>1, <2>2, <2>3, <2>4 DEF ReceiveMutation
<1>6. ASSUME NEW n \in 0 .. Len(log), NEW end \in n .. n + Capacity,
             ReceiveSnapshot(n, end) \/ ReceiveSnapshotAndFail(n, end)
      PROVE  Promise!Install \/ Promise!Lose
  <2>1. end \in 0 .. Len(log) /\ data' = hist[end] /\ revision' = end
    BY <1>6, ReplayMatchesHost DEF IInv, ReceiveSnapshot, ReceiveSnapshotAndFail, InstallSnapshot
  <2>2. connected /\ asked > 0 /\ UNCHANGED <<log, hist>>
    BY <1>6 DEF ReceiveSnapshot, ReceiveSnapshotAndFail
  <2>3. Promise!Move
    BY <2>1, <2>2 DEF Promise!Move
  <2>4. CASE ReceiveSnapshot(n, end)
    BY <2>2, <2>3, <2>4 DEF ReceiveSnapshot, Promise!Install
  <2>5. CASE ReceiveSnapshotAndFail(n, end)
    BY <2>2, <2>3, <2>5 DEF ReceiveSnapshotAndFail, Offline, Promise!Lose, Promise!Unlink
  <2> QED
    BY <1>6, <2>4, <2>5
<1> QED
  BY <1>1, <1>2, <1>3, <1>4, <1>5, <1>6 DEF Next

\* The synchronization service of watch_sync.c, driven by the runtime, is an
\* implementation of the abstract service.
THEOREM Refinement == Spec => ImplementsPromise
<1>1. Init => Promise!Init
  BY InitIsPromised
<1>2. IInv /\ [Next]_vars => [Promise!Next]_(Promise!promiseVars)
  <2>1. ASSUME UNCHANGED vars
        PROVE  UNCHANGED Promise!promiseVars
    BY <2>1 DEF vars, Promise!promiseVars
  <2> QED
    BY <2>1, StepIsPromised
<1> QED
  BY <1>1, <1>2, Invariance, PTL DEF Spec, ImplementsPromise, Promise!Spec

=============================================================================
