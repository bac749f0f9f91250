-------------------------- MODULE WatchSystemProofs --------------------------
(***************************************************************************)
(* Proofs of the safety properties of WatchSystem, for every capacity of   *)
(* the buffer, number of presses, losses, restarts and failing saves.  The *)
(* two queues are reasoned about by the set of their messages, by the      *)
(* number of messages of a type and, in one place, by their order.         *)
(***************************************************************************)
EXTENDS WatchSystem, FiniteSetTheorems, SequenceTheorems, WellFoundedInduction, TLAPS

Members(q) == {q[i] : i \in DOMAIN q}
-----------------------------------------------------------------------------
(* Queues.                                                                 *)

LEMMA EmptyQueue ==
    ASSUME NEW S, NEW type
    PROVE  <<>> \in Seq(S) /\ Members(<<>>) = {} /\ Count(<<>>, type) = 0
  BY FS_EmptySet DEF Members, Count

\* Taking the first message away.
LEMMA QueueTail ==
    ASSUME NEW S, NEW q \in Seq(S), q # <<>>
    PROVE  /\ Tail(q) \in Seq(S) /\ Head(q) \in S
           /\ Members(q) = {Head(q)} \cup Members(Tail(q))
           /\ Members(q) \subseteq S
<1>1. /\ Len(q) \in Nat \ {0} /\ DOMAIN q = 1 .. Len(q) /\ Head(q) = q[1]
      /\ Head(q) \in S /\ Tail(q) \in Seq(S)
      /\ DOMAIN Tail(q) = 1 .. Len(q) - 1
      /\ \A i \in 1 .. Len(q) - 1 : Tail(q)[i] = q[i + 1]
  BY HeadTailProperties, LenProperties, EmptySeq
<1>2. Members(q) \subseteq S
  BY <1>1, ElementOfSeq DEF Members
<1>3. ASSUME NEW i \in 1 .. Len(q)
      PROVE  q[i] \in {Head(q)} \cup Members(Tail(q))
  <2>1. CASE i = 1
    BY <2>1, <1>1
  <2>2. CASE i # 1
    <3>1. i - 1 \in 1 .. Len(q) - 1 /\ Tail(q)[i - 1] = q[i]
      BY <2>2, <1>1
    <3> QED
      BY <3>1, <1>1 DEF Members
  <2> QED
    BY <2>1, <2>2
<1>4. ASSUME NEW i \in 1 .. Len(q) - 1
      PROVE  Tail(q)[i] \in Members(q)
  <2>1. i + 1 \in 1 .. Len(q) /\ Tail(q)[i] = q[i + 1]
    BY <1>1
  <2> QED
    BY <2>1, <1>1 DEF Members
<1>5. Head(q) \in Members(q)
  BY <1>1 DEF Members
<1>6. Members(q) \subseteq {Head(q)} \cup Members(Tail(q))
  BY <1>1, <1>3 DEF Members
<1>7. Members(Tail(q)) \subseteq Members(q)
  BY <1>1, <1>4 DEF Members
<1> QED
  BY <1>1, <1>2, <1>5, <1>6, <1>7

\* Adding a message at the end.
LEMMA QueueAppend ==
    ASSUME NEW S, NEW q \in Seq(S), NEW m \in S
    PROVE  /\ Append(q, m) \in Seq(S) /\ Append(q, m) # <<>>
           /\ Members(Append(q, m)) = Members(q) \cup {m}
           /\ Head(Append(q, m)) = IF q = <<>> THEN m ELSE Head(q)
<1>1. /\ Len(q) \in Nat /\ DOMAIN q = 1 .. Len(q)
      /\ Append(q, m) \in Seq(S) /\ Len(Append(q, m)) = Len(q) + 1
      /\ DOMAIN Append(q, m) = 1 .. Len(q) + 1
      /\ \A i \in 1 .. Len(q) : Append(q, m)[i] = q[i]
      /\ Append(q, m)[Len(q) + 1] = m
  BY AppendProperties, LenProperties
<1>2. Append(q, m) # <<>> /\ Head(Append(q, m)) = IF q = <<>> THEN m ELSE Head(q)
  BY <1>1, EmptySeq, HeadTailProperties
<1>3. ASSUME NEW i \in 1 .. Len(q) + 1
      PROVE  Append(q, m)[i] \in Members(q) \cup {m}
  BY <1>1 DEF Members
<1>4. ASSUME NEW i \in 1 .. Len(q)
      PROVE  q[i] \in Members(Append(q, m))
  <2>1. i \in 1 .. Len(q) + 1 /\ q[i] = Append(q, m)[i]
    BY <1>1
  <2> QED
    BY <2>1, <1>1 DEF Members
<1>5. m \in Members(Append(q, m))
  BY <1>1 DEF Members
<1>6. Members(Append(q, m)) \subseteq Members(q) \cup {m}
  BY <1>1, <1>3 DEF Members
<1>7. Members(q) \subseteq Members(Append(q, m))
  BY <1>1, <1>4 DEF Members
<1> QED
  BY <1>1, <1>2, <1>5, <1>6, <1>7

LEMMA CountIsNat ==
    ASSUME NEW S, NEW q \in Seq(S), NEW type
    PROVE  /\ Count(q, type) \in Nat
           /\ IsFiniteSet({i \in DOMAIN q : q[i].type = type})
<1>1. Len(q) \in Nat /\ DOMAIN q = 1 .. Len(q)
  BY LenProperties
<1>2. IsFiniteSet(1 .. Len(q))
  BY <1>1, FS_Interval
<1>3. IsFiniteSet({i \in DOMAIN q : q[i].type = type})
  BY <1>1, <1>2, FS_Subset
<1> QED
  BY <1>3, FS_CardinalityType DEF Count

\* The number of messages of a type after an append.
LEMMA CountAppend ==
    ASSUME NEW S, NEW q \in Seq(S), NEW m \in S, NEW type
    PROVE  Count(Append(q, m), type) = Count(q, type) + (IF m.type = type THEN 1 ELSE 0)
<1> DEFINE D == {i \in DOMAIN q : q[i].type = type}
           E == {i \in DOMAIN Append(q, m) : Append(q, m)[i].type = type}
           n == Len(q) + 1
<1>1. /\ Len(q) \in Nat /\ DOMAIN q = 1 .. Len(q)
      /\ DOMAIN Append(q, m) = 1 .. Len(q) + 1
      /\ \A i \in 1 .. Len(q) : Append(q, m)[i] = q[i]
      /\ Append(q, m)[Len(q) + 1] = m
  BY AppendProperties, LenProperties
<1>2. IsFiniteSet(D) /\ Cardinality(D) \in Nat
  BY CountIsNat DEF Count
<1>3. n \notin D
  BY <1>1
<1>0. Count(q, type) = Cardinality(D) /\ Count(Append(q, m), type) = Cardinality(E)
  BY DEF Count
<1>4. CASE m.type = type
  <2>1. E = D \cup {n}
    BY <1>1, <1>4
  <2>2. Cardinality(E) = Cardinality(D) + 1
    BY <2>1, <1>2, <1>3, FS_AddElement
  <2> HIDE DEF D, E
  <2> QED
    BY <2>2, <1>0, <1>4
<1>5. CASE m.type # type
  <2>1. E = D
    BY <1>1, <1>5
  <2> HIDE DEF D, E
  <2> QED
    BY <2>1, <1>0, <1>2, <1>5
<1> QED
  BY <1>4, <1>5

\* The number of messages of a type after the first one is taken away.
LEMMA CountTail ==
    ASSUME NEW S, NEW q \in Seq(S), q # <<>>, NEW type
    PROVE  Count(Tail(q), type) = Count(q, type) - (IF Head(q).type = type THEN 1 ELSE 0)
<1> DEFINE D == {i \in DOMAIN q : q[i].type = type}
           E == {i \in DOMAIN Tail(q) : Tail(q)[i].type = type}
           f == [i \in E |-> i + 1]
<1>1. /\ Len(q) \in Nat \ {0} /\ DOMAIN q = 1 .. Len(q) /\ Head(q) = q[1]
      /\ Tail(q) \in Seq(S) /\ DOMAIN Tail(q) = 1 .. Len(q) - 1
      /\ \A i \in 1 .. Len(q) - 1 : Tail(q)[i] = q[i + 1]
  BY HeadTailProperties, LenProperties, EmptySeq
<1>2. IsFiniteSet(D) /\ Cardinality(D) \in Nat
  BY CountIsNat DEF Count
<1>3. IsFiniteSet(E) /\ Cardinality(E) \in Nat
  BY <1>1, CountIsNat DEF Count
<1>4. f \in Bijection(E, D \ {1})
  <2>1. \A i \in E : i + 1 \in D \ {1}
    BY <1>1
  <2>2. f \in Injection(E, D \ {1})
    BY <2>1, <1>1 DEF Injection, IsInjective
  <2>3. ASSUME NEW j \in D \ {1} PROVE \E i \in E : f[i] = j
    <3>1. j - 1 \in E
      BY <1>1
    <3>2. f[j - 1] = j
      BY <3>1, <1>1
    <3> QED
      BY <3>1, <3>2
  <2> QED
    BY <2>2, <2>3 DEF Bijection, Surjection, Injection
<1>5. Cardinality(D \ {1}) = Cardinality(E)
  BY <1>3, <1>4, FS_Bijection DEF ExistsBijection
<1>6. Cardinality(D \ {1}) = IF 1 \in D THEN Cardinality(D) - 1 ELSE Cardinality(D)
  BY <1>2, FS_RemoveElement
<1>7. 1 \in D <=> Head(q).type = type
  BY <1>1
<1>8. Count(q, type) = Cardinality(D) /\ Count(Tail(q), type) = Cardinality(E)
  BY DEF Count
<1> HIDE DEF D, E
<1> QED
  BY <1>2, <1>3, <1>5, <1>6, <1>7, <1>8

\* What the host writes at once is written message by message.
LEMMA TwoAppends ==
    ASSUME NEW S, NEW q \in Seq(S), NEW a \in S, NEW b \in S
    PROVE  q \o <<a, b>> = Append(Append(q, a), b)
  OBVIOUS

LEMMA FiveAppends ==
    ASSUME NEW S, NEW q \in Seq(S), NEW a \in S, NEW b \in S, NEW c \in S, NEW d \in S, NEW e \in S
    PROVE  q \o <<a, b, c, d, e>> = Append(Append(Append(Append(Append(q, a), b), c), d), e)
  OBVIOUS
-----------------------------------------------------------------------------
(* The inductive invariant: the types, what the watch knows, and what the    *)
(* connection carries.                                                       *)

\* The types, in the parts that a step changes or leaves alone; those of the disk are
\* in DiskInv.
NetTyped == link \in {"closed", "open", "broken"} /\ toHost \in Seq(Requests)
            /\ toWatch \in Seq(Answers)
HostTyped == rejecting \in BOOLEAN /\ hostRevision \in 0 .. 4 + MaxActions
             /\ hostData \in [Leaves -> LeafValues] /\ accepted \subseteq 1 .. MaxActions
SyncTyped == revision \in 0 .. 4 + MaxActions /\ syncing \in BOOLEAN
             /\ buffered \subseteq Sync!Mutations /\ Cardinality(buffered) <= Capacity
StateTyped == /\ data \in [Leaves -> LeafValues]
              /\ connection \in {"offline", "connecting", "online"}
              /\ stale \in BOOLEAN /\ pendingShown \in BOOLEAN
              /\ feedback \in {"", "SYNCING ACTION", "HOST CONFIRMED", "ACTION REJECTED",
                               "ACTION TIMEOUT", "HOST OFFLINE"}
ActionTyped == pending \in BOOLEAN /\ previous \in {"on", "off"}
               /\ messageId \in 0 .. MaxActions /\ nextId \in 1 .. MaxActions + 1
SavedTyped == cache \in Records
BoundsTyped == losses \in 0 .. MaxLosses /\ restarts \in 0 .. MaxRestarts
Typed == NetTyped /\ HostTyped /\ SyncTyped /\ StateTyped /\ ActionTyped /\ SavedTyped
         /\ BoundsTyped

\* The buffer is finite, and empty unless the watch synchronizes.
BufferIsBounded ==
    /\ IsFiniteSet(buffered)
    /\ ~syncing => buffered = {}
    /\ \A b \in buffered : b.revision \in 1 .. 4 + MaxActions

\* A patch is one of the host's updates, or that of an action.
IsUpdate(m) ==
    IF m.revision <= 4 THEN m.path = Updates[m.revision].path /\ m.value = Updates[m.revision].value
    ELSE m.path = "playing" /\ m.value \in {"on", "off"}

LeavesAreUpdates ==
    /\ \A b \in buffered : IsUpdate(b)
    /\ data["playing"] \in {"on", "off"} /\ cache.data["playing"] \in {"on", "off"}

OnlineOnceSynced == link # "closed" /\ ~syncing => connection = "online"

\* While nothing has been captured, nothing has been shown either.
NothingShown ==
    ~cache.known =>
        /\ data = WatchDefault /\ revision = 0 /\ ~pending
        /\ link # "closed" => syncing
        /\ \A b \in buffered : b.revision = 1

PendingIsLinked == pending => link # "closed"

\* Three properties, as far as they follow without looking at gaps.
LeavesUnlessSyncing == OnlineLeavesAreHosts \/ syncing
RecordIsShown ==
    connection = "online" /\ feedback # "ACTION TIMEOUT" => cache.known /\ cache.data = data
SavedUnlessSyncing == RecordIsShown \/ syncing
DrawnUnlessSyncing == ScreenIsCurrent \/ syncing

WatchInv ==
    /\ BufferIsBounded /\ LeavesAreUpdates /\ OnlineOnceSynced /\ NothingShown /\ PendingIsLinked
    /\ ConfirmedWasAccepted /\ ShownConnectionIsReal /\ LeavesUnlessSyncing
    /\ SavedUnlessSyncing /\ DrawnUnlessSyncing

\* Every action the host has still to read can be given a revision.
RevisionsSuffice ==
    /\ hostRevision + Count(toHost, "action") <= 3 + nextId
    /\ 1 + Count(toHost, "action") <= nextId

\* The first frame of a connection is a sync_request, so an action gets a
\* revision above those of the updates.
SyncComesFirst ==
    link = "open" /\ hostRevision < 4 => toHost # <<>> /\ Head(toHost) = SyncRequest

PatchesAreUpdates == \A m \in Members(toWatch) : m.type = "patch" => IsUpdate(m)

\* The host answers "ok" to what it has accepted.
OkIsAccepted == \A m \in Members(toWatch) : m.type = "result" /\ m.ok => m.id \in accepted

\* Before the first snapshot only patch 1 can come.
SnapshotFirst(q) ==
    \A i \in DOMAIN q : q[i].type = "patch" /\ q[i].revision # 1 =>
        \E j \in 1 .. i - 1 : q[j].type = "snapshot"

\* A press is captured, so before the first capture there is no action either.
FirstIsSnapshot == ~cache.known => SnapshotFirst(toWatch) /\ Count(toHost, "action") = 0

OneSnapshot ==
    link = "open" =>
        Count(toHost, "sync") + Count(toWatch, "snapshot") = (IF syncing THEN 1 ELSE 0)

AnswerComes ==
    pending /\ link = "open" =>
        \/ \E m \in Members(toHost) : m.type = "action" /\ m.id = messageId
        \/ \E m \in Members(toWatch) : m.type = "result" /\ m.id = messageId

NetInv ==
    /\ RevisionsSuffice /\ SyncComesFirst /\ PatchesAreUpdates /\ OkIsAccepted
    /\ FirstIsSnapshot /\ OneSnapshot /\ AnswerComes

IInv == Typed /\ WatchInv /\ NetInv

\* The file: a record, and while the watch is online that in memory unless the last
\* save failed.  A start reads it, so what is in memory keeps IInv only with this.
DiskInv ==
    /\ file \in Records /\ file.data["playing"] \in {"on", "off"}
    /\ saveFailed \in BOOLEAN /\ failedSaves \in 0 .. MaxFailedSaves
    /\ connection = "online" /\ ~saveFailed => file = cache

SystemInv == IInv /\ DiskInv
-----------------------------------------------------------------------------
(* Messages and leaves.                                                    *)

LEMMA Defaults ==
    /\ WatchDefault \in [Leaves -> LeafValues] /\ WatchDefault["playing"] = "off"
    /\ HostDefault \in [Leaves -> LeafValues] /\ HostDefault["playing"] = "off"
    /\ Synchronized \in [Leaves -> LeafValues]
  BY DEF WatchDefault, HostDefault, Synchronized, Leaf, Leaves, LeafValues

LEMMA RequestKinds ==
    ASSUME NEW m \in Requests
    PROVE  \/ m = SyncRequest /\ m.type = "sync"
           \/ /\ m.type = "action" /\ m # SyncRequest
              /\ m.id \in 1 .. MaxActions /\ m.value \in {"on", "off"}
  BY DEF Requests, SyncRequest, Action

LEMMA AnswerKinds ==
    ASSUME NEW m \in Answers
    PROVE  \/ /\ m.type = "patch" /\ m.revision \in 1 .. 4 + MaxActions
              /\ m.path \in Leaves /\ m.value \in LeafValues
           \/ m = Snapshot /\ m.type = "snapshot" /\ m.revision = 0 /\ m.state = HostDefault
           \/ m.type = "result" /\ m.id \in 1 .. MaxActions /\ m.ok \in BOOLEAN
  BY DEF Answers, Patch, Snapshot, Result

LEMMA FramesAreTyped ==
    /\ SyncRequest \in Requests /\ SyncRequest.type = "sync"
    /\ \A i \in 1 .. MaxActions, v \in {"on", "off"} :
          Action(i, v) \in Requests /\ Action(i, v).type = "action"
          /\ Action(i, v).id = i /\ Action(i, v).value = v
    /\ Snapshot \in Answers /\ Snapshot.type = "snapshot"
    /\ \A i \in 1 .. MaxActions, ok \in BOOLEAN :
          Result(i, ok) \in Answers /\ Result(i, ok).type = "result"
          /\ Result(i, ok).id = i /\ Result(i, ok).ok = ok
    /\ \A r \in 1 .. 4 + MaxActions, p \in Leaves, v \in LeafValues :
          Patch(r, p, v) \in Answers /\ Patch(r, p, v).type = "patch"
          /\ Patch(r, p, v).revision = r /\ Patch(r, p, v).path = p /\ Patch(r, p, v).value = v
<1>1. SyncRequest \in Requests /\ SyncRequest.type = "sync"
  BY DEF Requests, SyncRequest
<1>2. ASSUME NEW i \in 1 .. MaxActions, NEW v \in {"on", "off"}
      PROVE  /\ Action(i, v) \in Requests /\ Action(i, v).type = "action"
             /\ Action(i, v).id = i /\ Action(i, v).value = v
  <2>1. Action(i, v) \in Requests
    BY DEF Requests
  <2> QED
    BY <2>1 DEF Action
<1>3. Snapshot \in Answers /\ Snapshot.type = "snapshot"
  BY DEF Answers, Snapshot
<1>4. ASSUME NEW i \in 1 .. MaxActions, NEW ok \in BOOLEAN
      PROVE  /\ Result(i, ok) \in Answers /\ Result(i, ok).type = "result"
             /\ Result(i, ok).id = i /\ Result(i, ok).ok = ok
  <2>1. Result(i, ok) \in Answers
    BY DEF Answers
  <2> QED
    BY <2>1 DEF Result
<1>5. ASSUME NEW r \in 1 .. 4 + MaxActions, NEW p \in Leaves, NEW v \in LeafValues
      PROVE  /\ Patch(r, p, v) \in Answers /\ Patch(r, p, v).type = "patch"
             /\ Patch(r, p, v).revision = r /\ Patch(r, p, v).path = p
             /\ Patch(r, p, v).value = v
  <2>1. Patch(r, p, v) \in Answers
    BY DEF Answers
  <2> QED
    BY <2>1 DEF Patch
<1> QED
  BY <1>1, <1>2, <1>3, <1>4, <1>5

\* The four updates of the host.
LEMMA UpdatesAreTyped ==
    /\ \A i \in 1 .. 4 : Updates[i] \in Answers /\ Updates[i].type = "patch"
                         /\ Updates[i].revision = i /\ IsUpdate(Updates[i])
    /\ Updates[1].path = "temperature" /\ Updates[2].path = "steps"
    /\ Updates[3].path = "title" /\ Updates[4].path = "playing"
    /\ Updates[4].value = "on"
<1>1. MaxActions \in Nat
  BY SystemAssumption
<1>2. ASSUME NEW i \in 1 .. 4
      PROVE  /\ Updates[i] \in Answers /\ Updates[i].type = "patch"
             /\ Updates[i].revision = i /\ IsUpdate(Updates[i])
  <2>1. /\ Updates[1] = Patch(1, "temperature", "24") /\ Updates[2] = Patch(2, "steps", "9632")
        /\ Updates[3] = Patch(3, "title", "Localhost Radio") /\ Updates[4] = Patch(4, "playing", "on")
    BY DEF Updates
  <2>3. PICK p \in Leaves, v \in LeafValues : Updates[i] = Patch(i, p, v)
    <3>1. i = 1 \/ i = 2 \/ i = 3 \/ i = 4
      OBVIOUS
    <3>2. /\ {"temperature", "steps", "title", "playing"} \subseteq Leaves
          /\ {"24", "9632", "Localhost Radio", "on"} \subseteq LeafValues
      BY DEF Leaves, LeafValues
    <3> QED
      BY <2>1, <3>1, <3>2
  <2>4. i \in 1 .. 4 + MaxActions
    BY <1>1
  <2>5. Updates[i] \in Answers /\ Updates[i].type = "patch" /\ Updates[i].revision = i
    BY <2>3, <2>4, FramesAreTyped
  <2> QED
    BY <2>5 DEF IsUpdate
<1> QED
  BY <1>2 DEF Updates, Patch

\* A nonempty set of bounded mutations has a latest one.
LEMMA LatestExists ==
    ASSUME NEW W \in SUBSET Sync!Mutations, W # {},
           NEW top \in Nat, \A b \in W : b.revision <= top
    PROVE  /\ Sync!LatestOf(W) \in W
           /\ \A c \in W : c.revision <= Sync!LatestOf(W).revision
<1> DEFINE Less == {ss \in Nat \X Nat : ss[1] < ss[2]}
           Distances == {n \in Nat : \E b \in W : n = top - b.revision}
<1>1. IsWellFoundedOn(Less, Nat)
  BY NatLessThanWellFounded DEF OpToRel
<1>2. Distances \subseteq Nat /\ Distances # {}
  BY DEF Sync!Mutations
<1>3. \E n \in Distances : \A m \in Distances : ~ (<<m, n>> \in Less)
  <2> HIDE DEF Less, Distances
  <2> QED
    BY <1>1, <1>2, WFMin
<1>4. PICK n \in Distances : \A m \in Distances : ~ (m < n)
  BY <1>3
<1>5. PICK b \in W : n = top - b.revision
  BY <1>4
<1>6. \A c \in W : c.revision <= b.revision
  BY <1>4, <1>5 DEF Sync!Mutations
<1> QED
  BY <1>6 DEF Sync!LatestOf

\* A snapshot with the buffered updates replayed over it shows the host's leaves
\* at the revision where the replay ends.
LEMMA ReplayShowsHost ==
    ASSUME Typed, BufferIsBounded, LeavesAreUpdates,
           NEW end \in 0 .. 0 + Capacity, Sync!ReplayEndsAt(0, end)
    PROVE  /\ end \in 0 .. 4 + MaxActions
           /\ Sync!Replayed(HostDefault, 0, end) \in [Leaves -> LeafValues]
           /\ Sync!Replayed(HostDefault, 0, end)["playing"] \in {"on", "off"}
           /\ \A p \in Leaves \ {"playing"} : \A i \in 1 .. 4 :
                 Updates[i].path = p =>
                     Sync!Replayed(HostDefault, 0, end)[p] =
                         (IF i <= end THEN Updates[i].value ELSE HostDefault[p])
<1> DEFINE W(p) == Sync!WritesTo(p, 0, end)
           shown == Sync!Replayed(HostDefault, 0, end)
<1>0. MaxActions \in Nat /\ Capacity \in Nat
  BY SystemAssumption
<1>1. /\ buffered \subseteq Sync!Mutations
      /\ \A b \in buffered : b.revision \in 1 .. 4 + MaxActions /\ IsUpdate(b)
  BY DEF Typed, SyncTyped, BufferIsBounded, LeavesAreUpdates
<1>2. \A i \in 1 .. end : \E b \in buffered : b.revision = i
  BY <1>0 DEF Sync!ReplayEndsAt, Sync!BufferedRevisions
<1>3. end \in 0 .. 4 + MaxActions
  <2>1. CASE end = 0
    BY <2>1, <1>0
  <2>2. CASE end # 0
    <3>1. end \in 1 .. end
      BY <2>2, <1>0
    <3> QED
      BY <3>1, <1>0, <1>1, <1>2
  <2> QED
    BY <2>1, <2>2
<1>4. \A p \in Leaves : W(p) \subseteq buffered /\ \A b \in W(p) : b.path = p /\ b.revision <= end
  BY DEF Sync!WritesTo
<1>5. ASSUME NEW p \in Leaves
      PROVE  shown[p] = IF W(p) = {} THEN HostDefault[p] ELSE Sync!LatestOf(W(p)).value
  BY DEF Sync!Replayed
<1>6. ASSUME NEW p \in Leaves, W(p) # {}
      PROVE  Sync!LatestOf(W(p)) \in W(p)
  <2>1. W(p) \in SUBSET Sync!Mutations
    BY <1>1, <1>4
  <2>2. end \in Nat
    BY <1>0
  <2> QED
    BY <1>4, <1>6, <2>1, <2>2, LatestExists
<1>7. ASSUME NEW p \in Leaves
      PROVE  shown[p] \in LeafValues
  <2>1. CASE W(p) = {}
    BY <2>1, <1>5, Defaults
  <2>2. CASE W(p) # {}
    <3>1. Sync!LatestOf(W(p)) \in Sync!Mutations
      BY <2>2, <1>1, <1>4, <1>6
    <3>2. Sync!LatestOf(W(p)).value \in LeafValues
      BY <3>1 DEF Sync!Mutations
    <3> QED
      BY <3>2, <2>2, <1>5
  <2> QED
    BY <2>1, <2>2
<1>8. shown \in [Leaves -> LeafValues]
  <2>1. shown = [p \in Leaves |-> shown[p]]
    BY DEF Sync!Replayed
  <2> HIDE DEF shown
  <2> QED
    BY <2>1, <1>7
<1>9. shown["playing"] \in {"on", "off"}
  <2>0. "playing" \in Leaves
    BY DEF Leaves
  <2>1. CASE W("playing") = {}
    BY <2>0, <2>1, <1>5, Defaults
  <2>2. CASE W("playing") # {}
    <3>1. PICK b \in buffered : b = Sync!LatestOf(W("playing")) /\ b.path = "playing"
      BY <2>0, <2>2, <1>4, <1>6
    <3>2. b.value \in {"on", "off"}
      <4>1. CASE b.revision <= 4
        <5>1. b.revision \in 1 .. 4 /\ b.value = Updates[b.revision].value
              /\ Updates[b.revision].path = "playing"
          BY <4>1, <3>1, <1>0, <1>1 DEF IsUpdate
        <5> QED
          BY <5>1, UpdatesAreTyped
      <4>2. CASE ~(b.revision <= 4)
        BY <4>2, <1>1 DEF IsUpdate
      <4> QED
        BY <4>1, <4>2
    <3> QED
      BY <2>0, <2>2, <3>1, <3>2, <1>5
  <2> QED
    BY <2>1, <2>2
<1>10. ASSUME NEW p \in Leaves \ {"playing"}, NEW i \in 1 .. 4, Updates[i].path = p
       PROVE  shown[p] = (IF i <= end THEN Updates[i].value ELSE HostDefault[p])
  <2>1. \A b \in W(p) : b.revision = i /\ b.value = Updates[i].value
    <3> SUFFICES ASSUME NEW b \in W(p) PROVE b.revision = i /\ b.value = Updates[i].value
      OBVIOUS
    <3>1. b \in buffered /\ b.path = p /\ p # "playing"
      BY <1>4
    <3>2. b.revision \in 1 .. 4 /\ Updates[b.revision].path = p
          /\ b.value = Updates[b.revision].value
      BY <3>1, <1>0, <1>1 DEF IsUpdate
    <3>3. b.revision = i
      BY <3>2, <1>10, UpdatesAreTyped
    <3> QED
      BY <3>2, <3>3
  <2>2. CASE i <= end
    <3>1. PICK b \in buffered : b.revision = i
      BY <2>2, <1>0, <1>2
    <3>2. b.path = p
      BY <3>1, <1>1, <1>10 DEF IsUpdate
    <3>3. b \in W(p)
      BY <3>1, <3>2, <2>2 DEF Sync!WritesTo
    <3> QED
      BY <3>3, <2>1, <2>2, <1>5, <1>6
  <2>3. CASE ~(i <= end)
    <3>1. W(p) = {}
      BY <2>1, <2>3, <1>4
    <3> QED
      BY <3>1, <2>3, <1>5
  <2> QED
    BY <2>2, <2>3
<1> QED
  BY <1>3, <1>8, <1>9, <1>10
-----------------------------------------------------------------------------
(* What the queues tell of each other.                                     *)

LEMMA NoStrayKinds ==
    ASSUME NEW q
    PROVE  /\ q \in Seq(Answers) => Count(q, "sync") = 0
           /\ q \in Seq(Requests) => Count(q, "snapshot") = 0
<1>1. ASSUME q \in Seq(Answers) PROVE Count(q, "sync") = 0
  <2>1. \A i \in DOMAIN q : q[i] \in Answers
    BY <1>1, ElementOfSeq, LenProperties
  <2>2. {i \in DOMAIN q : q[i].type = "sync"} = {}
    BY <2>1, AnswerKinds
  <2> QED
    BY <2>2, FS_EmptySet DEF Count
<1>2. ASSUME q \in Seq(Requests) PROVE Count(q, "snapshot") = 0
  <2>1. \A i \in DOMAIN q : q[i] \in Requests
    BY <1>2, ElementOfSeq, LenProperties
  <2>2. {i \in DOMAIN q : q[i].type = "snapshot"} = {}
    BY <2>1, RequestKinds
  <2> QED
    BY <2>2, FS_EmptySet DEF Count
<1> QED
  BY <1>1, <1>2

\* A message of a type is there, or its number is 0.
LEMMA CountZero ==
    ASSUME NEW S, NEW q \in Seq(S), NEW type, Count(q, type) = 0
    PROVE  \A m \in Members(q) : m.type # type
<1> DEFINE D == {i \in DOMAIN q : q[i].type = type}
<1>1. IsFiniteSet(D)
  BY CountIsNat
<1>2. D = {}
  BY <1>1, FS_EmptySet DEF Count
<1> QED
  BY <1>2 DEF Members

\* The order of patch 1, snapshot and the other patches.
LEMMA SnapshotFirstTail ==
    ASSUME NEW S, NEW q \in Seq(S), q # <<>>, SnapshotFirst(q)
    PROVE  /\ Head(q).type = "patch" => Head(q).revision = 1
           /\ Head(q).type # "snapshot" => SnapshotFirst(Tail(q))
<1>1. /\ Len(q) \in Nat \ {0} /\ DOMAIN q = 1 .. Len(q) /\ Head(q) = q[1]
      /\ DOMAIN Tail(q) = 1 .. Len(q) - 1
      /\ \A i \in 1 .. Len(q) - 1 : Tail(q)[i] = q[i + 1]
  BY HeadTailProperties, LenProperties, EmptySeq
<1>2. Head(q).type = "patch" => Head(q).revision = 1
  BY <1>1 DEF SnapshotFirst
<1>3. ASSUME Head(q).type # "snapshot", NEW i \in 1 .. Len(q) - 1,
             Tail(q)[i].type = "patch", Tail(q)[i].revision # 1
      PROVE  \E j \in 1 .. i - 1 : Tail(q)[j].type = "snapshot"
  <2>1. PICK j \in 1 .. (i + 1) - 1 : q[j].type = "snapshot"
    BY <1>1, <1>3 DEF SnapshotFirst
  <2>2. j # 1
    BY <2>1, <1>1, <1>3
  <2>3. j - 1 \in 1 .. i - 1 /\ Tail(q)[j - 1] = q[j]
    BY <2>1, <2>2, <1>1
  <2> QED
    BY <2>1, <2>3
<1> QED
  BY <1>1, <1>2, <1>3 DEF SnapshotFirst

LEMMA SnapshotFirstAppend ==
    ASSUME NEW S, NEW q \in Seq(S), NEW m \in S, SnapshotFirst(q),
           \/ m.type # "patch" \/ m.revision = 1
           \/ \E k \in Members(q) : k.type = "snapshot"
    PROVE  SnapshotFirst(Append(q, m))
<1>1. /\ Len(q) \in Nat /\ DOMAIN q = 1 .. Len(q)
      /\ DOMAIN Append(q, m) = 1 .. Len(q) + 1
      /\ \A i \in 1 .. Len(q) : Append(q, m)[i] = q[i]
      /\ Append(q, m)[Len(q) + 1] = m
  BY AppendProperties, LenProperties
<1>2. ASSUME NEW i \in 1 .. Len(q), q[i].type = "patch", q[i].revision # 1
      PROVE  \E j \in 1 .. i - 1 : Append(q, m)[j].type = "snapshot"
  <2>1. PICK j \in 1 .. i - 1 : q[j].type = "snapshot"
    BY <1>1, <1>2 DEF SnapshotFirst
  <2>2. j \in 1 .. Len(q)
    BY <1>1
  <2> QED
    BY <2>1, <2>2, <1>1
<1>3. ASSUME m.type = "patch", m.revision # 1
      PROVE  \E j \in 1 .. (Len(q) + 1) - 1 : Append(q, m)[j].type = "snapshot"
  <2>1. PICK j \in 1 .. Len(q) : q[j].type = "snapshot"
    BY <1>1, <1>3 DEF Members
  <2>2. j \in 1 .. (Len(q) + 1) - 1
    BY <1>1
  <2> QED
    BY <2>1, <2>2, <1>1
<1> QED
  BY <1>1, <1>2, <1>3 DEF SnapshotFirst
-----------------------------------------------------------------------------
(* The steps of the host.                                                  *)

LEMMA TypeParts ==
    /\ Typed <=> NetTyped /\ HostTyped /\ SyncTyped /\ StateTyped /\ ActionTyped /\ SavedTyped
                  /\ BoundsTyped
    /\ Typed' <=> NetTyped' /\ HostTyped' /\ SyncTyped' /\ StateTyped' /\ ActionTyped'
                   /\ SavedTyped' /\ BoundsTyped'
  BY DEF Typed

LEMMA Numbers ==
    ASSUME IInv
    PROVE  /\ MaxActions \in Nat /\ Capacity \in Nat \ {0} /\ nextId \in Nat /\ revision \in Nat
           /\ hostRevision \in Nat
           /\ toHost \in Seq(Requests) /\ toWatch \in Seq(Answers)
           /\ Count(toHost, "sync") \in Nat /\ Count(toHost, "action") \in Nat
           /\ Count(toWatch, "snapshot") \in Nat
<1>1. MaxActions \in Nat /\ Capacity \in Nat \ {0}
  BY SystemAssumption
<1>2. /\ nextId \in Nat /\ revision \in Nat /\ hostRevision \in Nat
      /\ toHost \in Seq(Requests) /\ toWatch \in Seq(Answers)
  <2>1. /\ nextId \in 1 .. MaxActions + 1 /\ revision \in 0 .. 4 + MaxActions
        /\ hostRevision \in 0 .. 4 + MaxActions
        /\ toHost \in Seq(Requests) /\ toWatch \in Seq(Answers)
    BY TypeParts DEF IInv, ActionTyped, SyncTyped, HostTyped, NetTyped
  <2> QED
    BY <1>1, <2>1
<1>3. Count(toHost, "sync") \in Nat
  BY <1>2, CountIsNat
<1>4. Count(toHost, "action") \in Nat
  BY <1>2, CountIsNat
<1>5. Count(toWatch, "snapshot") \in Nat
  BY <1>2, CountIsNat
<1> QED
  BY <1>1, <1>2, <1>3, <1>4, <1>5

LEMMA Ranges ==
    ASSUME IInv
    PROVE  /\ MaxActions \in Nat /\ MaxLosses \in Nat /\ MaxRestarts \in Nat
           /\ nextId \in 1 .. MaxActions + 1 /\ messageId \in 0 .. MaxActions
           /\ revision \in 0 .. 4 + MaxActions /\ hostRevision \in 0 .. 4 + MaxActions
           /\ losses \in 0 .. MaxLosses /\ restarts \in 0 .. MaxRestarts
<1>1. MaxActions \in Nat /\ MaxLosses \in Nat /\ MaxRestarts \in Nat
  BY SystemAssumption
<1>2. /\ nextId \in 1 .. MaxActions + 1 /\ messageId \in 0 .. MaxActions
      /\ revision \in 0 .. 4 + MaxActions /\ hostRevision \in 0 .. 4 + MaxActions
      /\ losses \in 0 .. MaxLosses /\ restarts \in 0 .. MaxRestarts
  BY TypeParts DEF IInv, ActionTyped, SyncTyped, HostTyped, BoundsTyped
<1> QED
  BY <1>1, <1>2

LEMMA TypesUnchanged ==
    /\ SyncTyped /\ UNCHANGED syncVars => SyncTyped'
    /\ StateTyped /\ UNCHANGED stateVars => StateTyped'
    /\ ActionTyped /\ UNCHANGED actionVars => ActionTyped'
    /\ HostTyped /\ UNCHANGED hostVars => HostTyped'
    /\ SavedTyped /\ UNCHANGED cache => SavedTyped'
    /\ BoundsTyped /\ UNCHANGED bounds => BoundsTyped'
<1>1. SyncTyped /\ UNCHANGED syncVars => SyncTyped'
  BY DEF SyncTyped, syncVars, Sync!Mutations
<1>2. StateTyped /\ UNCHANGED stateVars => StateTyped'
  BY DEF StateTyped, stateVars
<1>3. ActionTyped /\ UNCHANGED actionVars => ActionTyped'
  BY DEF ActionTyped, actionVars
<1>4. HostTyped /\ UNCHANGED hostVars => HostTyped'
  BY DEF HostTyped, hostVars
<1>5. SavedTyped /\ UNCHANGED cache => SavedTyped'
  BY DEF SavedTyped
<1>6. BoundsTyped /\ UNCHANGED bounds => BoundsTyped'
  BY DEF BoundsTyped, bounds
<1> QED
  BY <1>1, <1>2, <1>3, <1>4, <1>5, <1>6

\* A step of the host or of the network, and a frame the watch ignores, leave
\* what the watch knows alone.
LEMMA WatchUnchanged ==
    ASSUME IInv, UNCHANGED <<syncVars, stateVars, actionVars, cache>>,
           link' = "closed" <=> link = "closed", accepted \subseteq accepted'
    PROVE  WatchInv'
<1> USE DEF IInv, WatchInv, syncVars, stateVars, actionVars
<1>1. BufferIsBounded' /\ LeavesAreUpdates'
  BY DEF BufferIsBounded, LeavesAreUpdates, IsUpdate
<1>2. OnlineOnceSynced' /\ NothingShown' /\ PendingIsLinked'
  BY DEF OnlineOnceSynced, NothingShown, PendingIsLinked
<1>3. ConfirmedWasAccepted' /\ ShownConnectionIsReal'
  BY DEF ConfirmedWasAccepted, ShownConnectionIsReal
<1>4. LeavesUnlessSyncing'
  BY DEF LeavesUnlessSyncing, OnlineLeavesAreHosts
<1>5. SavedUnlessSyncing' /\ DrawnUnlessSyncing'
  BY DEF SavedUnlessSyncing, RecordIsShown, DrawnUnlessSyncing, ScreenIsCurrent, View
<1> QED
  BY <1>1, <1>2, <1>3, <1>4, <1>5

LEMMA CountAppendOther ==
    ASSUME NEW S, NEW q \in Seq(S), NEW m \in S, NEW type, m.type # type
    PROVE  Count(Append(q, m), type) = Count(q, type)
<1>1. Count(q, type) \in Nat
  BY CountIsNat
<1>2. Count(Append(q, m), type) = Count(q, type) + 0
  BY CountAppend
<1> QED
  BY <1>1, <1>2

\* What the host writes in answer to a sync_request.
LEMMA SyncAnswer ==
    ASSUME NEW q \in Seq(Answers)
    PROVE  LET r == q \o <<Updates[1], Snapshot, Updates[2], Updates[3], Updates[4]>>
           IN /\ r \in Seq(Answers)
              /\ Members(r) = Members(q) \cup {Updates[1], Snapshot, Updates[2], Updates[3],
                                               Updates[4]}
              /\ Count(r, "snapshot") = Count(q, "snapshot") + 1
              /\ SnapshotFirst(q) => SnapshotFirst(r)
<1> DEFINE q1 == Append(q, Updates[1])
           q2 == Append(q1, Snapshot)
           q3 == Append(q2, Updates[2])
           q4 == Append(q3, Updates[3])
           q5 == Append(q4, Updates[4])
<1>1. /\ \A i \in 1 .. 4 : /\ Updates[i] \in Answers /\ Updates[i].type = "patch"
                           /\ Updates[i].type # "snapshot" /\ Updates[i].revision = i
      /\ Snapshot \in Answers /\ Snapshot.type = "snapshot" /\ Snapshot.type # "patch"
  BY UpdatesAreTyped, FramesAreTyped
<1>2. q \o <<Updates[1], Snapshot, Updates[2], Updates[3], Updates[4]>> = q5
  BY <1>1, FiveAppends, SMTT(30)
<1>3. /\ q1 \in Seq(Answers) /\ Members(q1) = Members(q) \cup {Updates[1]}
      /\ Count(q1, "snapshot") = Count(q, "snapshot")
      /\ SnapshotFirst(q) => SnapshotFirst(q1)
  BY <1>1, QueueAppend, CountAppendOther, SnapshotFirstAppend
<1> HIDE DEF q1
<1>4. /\ q2 \in Seq(Answers) /\ Members(q2) = Members(q1) \cup {Snapshot}
      /\ Count(q2, "snapshot") = Count(q1, "snapshot") + 1
      /\ SnapshotFirst(q1) => SnapshotFirst(q2)
  BY <1>1, <1>3, QueueAppend, CountAppend, SnapshotFirstAppend
<1> HIDE DEF q2
<1>5. /\ q3 \in Seq(Answers) /\ Members(q3) = Members(q2) \cup {Updates[2]}
      /\ Count(q3, "snapshot") = Count(q2, "snapshot")
      /\ SnapshotFirst(q2) => SnapshotFirst(q3)
  BY <1>1, <1>4, QueueAppend, CountAppendOther, SnapshotFirstAppend
<1> HIDE DEF q3
<1>6. /\ q4 \in Seq(Answers) /\ Members(q4) = Members(q3) \cup {Updates[3]}
      /\ Count(q4, "snapshot") = Count(q3, "snapshot")
      /\ SnapshotFirst(q3) => SnapshotFirst(q4)
  BY <1>1, <1>4, <1>5, QueueAppend, CountAppendOther, SnapshotFirstAppend
<1> HIDE DEF q4
<1>7. /\ q5 \in Seq(Answers) /\ Members(q5) = Members(q4) \cup {Updates[4]}
      /\ Count(q5, "snapshot") = Count(q4, "snapshot")
      /\ SnapshotFirst(q4) => SnapshotFirst(q5)
  BY <1>1, <1>4, <1>5, <1>6, QueueAppend, CountAppendOther, SnapshotFirstAppend
<1> HIDE DEF q5
<1> QED
  BY <1>2, <1>3, <1>4, <1>5, <1>6, <1>7

LEMMA HostSyncsKeepsIInv ==
    ASSUME IInv, HostSyncs
    PROVE  IInv'
<1>0. MaxActions \in Nat
  BY SystemAssumption
<1>1. /\ toHost \in Seq(Requests) /\ toWatch \in Seq(Answers) /\ toHost # <<>>
      /\ Head(toHost) = SyncRequest /\ link = "open" /\ link' = "open"
      /\ toHost' = Tail(toHost) /\ hostRevision' = 4
      /\ UNCHANGED <<accepted, syncing, pending, messageId, nextId, cache>>
  BY DEF IInv, Typed, NetTyped, HostSyncs, syncVars, actionVars
<1>2. /\ toWatch' \in Seq(Answers)
      /\ Members(toWatch') = Members(toWatch) \cup {Updates[1], Snapshot, Updates[2],
                                                     Updates[3], Updates[4]}
      /\ Count(toWatch', "snapshot") = Count(toWatch, "snapshot") + 1
      /\ SnapshotFirst(toWatch) => SnapshotFirst(toWatch')
  BY <1>1, SyncAnswer DEF HostSyncs
<1>3. /\ toHost' \in Seq(Requests) /\ Members(toHost) = {SyncRequest} \cup Members(toHost')
      /\ Count(toHost', "sync") = Count(toHost, "sync") - 1
      /\ Count(toHost', "action") = Count(toHost, "action") - 0
  <2>1. Head(toHost).type = "sync"
    BY <1>1, FramesAreTyped
  <2>2. Tail(toHost) \in Seq(Requests) /\ Members(toHost) = {Head(toHost)} \cup Members(Tail(toHost))
    BY <1>1, QueueTail
  <2>3. Count(Tail(toHost), "sync") = Count(toHost, "sync") - 1
    BY <1>1, <2>1, CountTail
  <2>4. Count(Tail(toHost), "action") = Count(toHost, "action") - 0
    BY <1>1, <2>1, CountTail
  <2> QED
    BY <1>1, <2>2, <2>3, <2>4
<1>4. /\ Count(toHost, "sync") \in Nat /\ Count(toHost, "action") \in Nat
      /\ Count(toWatch, "snapshot") \in Nat /\ nextId \in Nat
  BY Numbers
<1>5. /\ \A i \in 1 .. 4 : Updates[i].type = "patch" /\ IsUpdate(Updates[i])
      /\ Snapshot.type = "snapshot" /\ SyncRequest.type = "sync"
  BY UpdatesAreTyped, FramesAreTyped
<1>15. rejecting' = rejecting /\ hostData' = Synchronized
  BY DEF HostSyncs
<1>6. Typed'
  <2>1. NetTyped' /\ HostTyped'
    BY <1>0, <1>1, <1>2, <1>3, <1>15, Defaults, TypeParts DEF IInv, NetTyped, HostTyped
  <2> QED
    BY <2>1, TypeParts, TypesUnchanged DEF HostSyncs, IInv
<1>7. WatchInv'
  BY <1>1, WatchUnchanged DEF HostSyncs
<1>8. RevisionsSuffice'
  BY <1>1, <1>3, <1>4 DEF IInv, NetInv, RevisionsSuffice
<1>9. SyncComesFirst'
  BY <1>1 DEF SyncComesFirst
<1>10. PatchesAreUpdates'
  <2>1. \A m \in Members(toWatch') : m.type = "patch" => IsUpdate(m)
    BY <1>2, <1>5 DEF IInv, NetInv, PatchesAreUpdates
  <2> QED
    BY <2>1 DEF PatchesAreUpdates, IsUpdate
<1>11. OkIsAccepted'
  BY <1>1, <1>2, <1>5 DEF IInv, NetInv, OkIsAccepted
<1>12. FirstIsSnapshot'
  BY <1>1, <1>2, <1>3, <1>4 DEF IInv, NetInv, FirstIsSnapshot
<1>13. OneSnapshot'
  BY <1>1, <1>2, <1>3, <1>4 DEF IInv, NetInv, OneSnapshot
<1>14. AnswerComes'
  BY <1>1, <1>2, <1>3, <1>5 DEF IInv, NetInv, AnswerComes
<1> QED
  BY <1>6, <1>7, <1>8, <1>9, <1>10, <1>11, <1>12, <1>13, <1>14 DEF IInv, NetInv

\* Facts on an action the host reads.
LEMMA HeadIsAction ==
    ASSUME IInv, link = "open", toHost # <<>>, Head(toHost).type = "action"
    PROVE  /\ Head(toHost).id \in 1 .. MaxActions /\ Head(toHost).value \in {"on", "off"}
           /\ Tail(toHost) \in Seq(Requests)
           /\ Members(toHost) = {Head(toHost)} \cup Members(Tail(toHost))
           /\ Count(Tail(toHost), "sync") = Count(toHost, "sync")
           /\ Count(Tail(toHost), "action") = Count(toHost, "action") - 1
           /\ Count(toHost, "action") >= 1
           /\ hostRevision >= 4 /\ hostRevision + 1 \in 1 .. 4 + MaxActions
           /\ cache.known
<1>1. toHost \in Seq(Requests)
  BY Numbers
<1>2. /\ Head(toHost) \in Requests /\ Tail(toHost) \in Seq(Requests)
      /\ Members(toHost) = {Head(toHost)} \cup Members(Tail(toHost))
  BY <1>1, QueueTail
<1>3. /\ Head(toHost).id \in 1 .. MaxActions /\ Head(toHost).value \in {"on", "off"}
      /\ Head(toHost) # SyncRequest
  BY <1>2, RequestKinds
<1>4. Count(Tail(toHost), "sync") = Count(toHost, "sync") - 0
  BY <1>1, CountTail
<1>5. Count(Tail(toHost), "action") = Count(toHost, "action") - 1
  BY <1>1, CountTail
<1>6. Count(Tail(toHost), "action") \in Nat
  BY <1>2, CountIsNat
<1>0. /\ hostRevision \in Nat /\ nextId \in Nat /\ MaxActions \in Nat
      /\ Count(toHost, "action") \in Nat /\ Count(toHost, "sync") \in Nat
  BY Numbers
<1>7. hostRevision >= 4
  BY <1>0, <1>3 DEF IInv, NetInv, SyncComesFirst
<1>8. hostRevision + Count(toHost, "action") <= 3 + nextId /\ 1 + Count(toHost, "action") <= nextId
  BY DEF IInv, NetInv, RevisionsSuffice
<1>9. nextId <= MaxActions + 1
  <2>1. nextId \in 1 .. MaxActions + 1
    BY TypeParts DEF IInv, ActionTyped
  <2> QED
    BY <1>0, <2>1
<1>11. /\ Count(Tail(toHost), "sync") = Count(toHost, "sync")
       /\ Count(toHost, "action") >= 1
  BY <1>0, <1>4, <1>5, <1>6
<1>10. cache.known
  <2>1. ~(Count(toHost, "action") = 0)
    BY <1>0, <1>11
  <2> QED
    BY <2>1 DEF IInv, NetInv, FirstIsSnapshot
<1>12. hostRevision + 1 \in 1 .. 4 + MaxActions
  BY <1>0, <1>8, <1>9, <1>11
<1> QED
  BY <1>2, <1>3, <1>5, <1>7, <1>10, <1>11, <1>12

LEMMA HostAnswersKeepsIInv ==
    ASSUME IInv, HostAnswers
    PROVE  IInv'
<1> DEFINE action == Head(toHost)
<1>1. /\ toHost # <<>> /\ action.type = "action" /\ link = "open" /\ link' = "open"
      /\ toHost' = Tail(toHost) /\ rejecting' = rejecting
      /\ UNCHANGED <<syncVars, stateVars, actionVars, cache, bounds>>
      /\ UNCHANGED <<syncing, pending, messageId, nextId>>
  BY DEF HostAnswers, syncVars, actionVars
<1>0. toWatch \in Seq(Answers) /\ hostRevision \in Nat
  BY Numbers
<1>2. /\ action.id \in 1 .. MaxActions /\ action.value \in {"on", "off"}
      /\ toHost' \in Seq(Requests) /\ Members(toHost) = {action} \cup Members(toHost')
      /\ Count(toHost', "sync") = Count(toHost, "sync")
      /\ Count(toHost', "action") = Count(toHost, "action") - 1
      /\ Count(toHost, "action") >= 1
      /\ hostRevision >= 4 /\ hostRevision + 1 \in 1 .. 4 + MaxActions
      /\ cache.known
  BY <1>1, HeadIsAction
<1> HIDE DEF action
<1>3. \/ /\ toWatch' = Append(toWatch, Result(action.id, FALSE))
         /\ UNCHANGED <<hostRevision, hostData, accepted>>
      \/ /\ toWatch' = toWatch \o <<Result(action.id, TRUE),
                                    Patch(hostRevision + 1, "playing", action.value)>>
         /\ hostRevision' = hostRevision + 1
         /\ hostData' = [hostData EXCEPT !["playing"] = action.value]
         /\ accepted' = accepted \cup {action.id}
  BY DEF HostAnswers, action
<1>4. /\ toWatch' \in Seq(Answers)
      /\ \E m \in Members(toWatch') : m.type = "result" /\ m.id = action.id
      /\ Members(toWatch) \subseteq Members(toWatch')
      /\ \A m \in Members(toWatch') \ Members(toWatch) :
            /\ m.type = "patch" => IsUpdate(m)
            /\ m.type = "result" /\ m.ok => m.id \in accepted'
      /\ Count(toWatch', "snapshot") = Count(toWatch, "snapshot")
  <2>1. ASSUME NEW ok \in BOOLEAN
        PROVE  /\ Result(action.id, ok) \in Answers
               /\ Result(action.id, ok).type = "result" /\ Result(action.id, ok).id = action.id
               /\ Result(action.id, ok).ok = ok
    BY <1>2, FramesAreTyped
  <2>2. CASE toWatch' = Append(toWatch, Result(action.id, FALSE)) /\ UNCHANGED accepted
    <3>1. /\ toWatch' \in Seq(Answers)
          /\ Members(toWatch') = Members(toWatch) \cup {Result(action.id, FALSE)}
      <4> DEFINE a == Result(action.id, FALSE)
      <4>1. a \in Answers /\ toWatch' = Append(toWatch, a)
        BY <2>1, <2>2
      <4> HIDE DEF a
      <4>2. toWatch' \in Seq(Answers) /\ Members(toWatch') = Members(toWatch) \cup {a}
        BY <4>1, <1>0, QueueAppend
      <4> QED
        BY <4>2 DEF a
    <3>2. Count(toWatch', "snapshot") = Count(toWatch, "snapshot")
      BY <2>1, <2>2, <1>0, CountAppendOther
    <3> QED
      BY <2>1, <3>1, <3>2
  <2>3. CASE /\ toWatch' = toWatch \o <<Result(action.id, TRUE),
                                        Patch(hostRevision + 1, "playing", action.value)>>
             /\ accepted' = accepted \cup {action.id}
    <3> DEFINE a == Result(action.id, TRUE)
               b == Patch(hostRevision + 1, "playing", action.value)
               q == Append(toWatch, a)
    <3>1. /\ b \in Answers /\ b.type = "patch" /\ b.revision = hostRevision + 1
          /\ b.path = "playing" /\ b.value = action.value
      <4>1. "playing" \in Leaves /\ action.value \in LeafValues
        BY <1>2 DEF Leaves, LeafValues
      <4> QED
        BY <4>1, <1>2, FramesAreTyped
    <3>2. a \in Answers /\ a.type = "result" /\ a.id = action.id
      BY <2>1
    <3>3. IsUpdate(b)
      BY <1>2, <3>1, Numbers DEF IsUpdate
    <3> HIDE DEF a, b
    <3>4. toWatch' = Append(q, b)
      <4>1. toWatch' = toWatch \o <<a, b>>
        BY <2>3 DEF a, b
      <4> QED
        BY <4>1, <3>1, <3>2, <1>0, TwoAppends
    <3>5. /\ q \in Seq(Answers) /\ Members(q) = Members(toWatch) \cup {a}
          /\ Count(q, "snapshot") = Count(toWatch, "snapshot")
      BY <3>2, <1>0, QueueAppend, CountAppendOther
    <3> HIDE DEF q
    <3>6. /\ toWatch' \in Seq(Answers) /\ Members(toWatch') = Members(q) \cup {b}
          /\ Count(toWatch', "snapshot") = Count(q, "snapshot")
      BY <3>1, <3>4, <3>5, QueueAppend, CountAppendOther
    <3> QED
      BY <2>3, <3>1, <3>2, <3>3, <3>5, <3>6
  <2> QED
    BY <1>3, <2>2, <2>3
<1>5. accepted \subseteq accepted' /\ hostRevision' \in {hostRevision, hostRevision + 1}
  BY <1>3
<1>6. Typed'
  <2>1. NetTyped'
    BY <1>1, <1>2, <1>4 DEF NetTyped
  <2>2. hostData' \in [Leaves -> LeafValues]
    <3>1. hostData \in [Leaves -> LeafValues] /\ action.value \in LeafValues
      BY <1>2 DEF IInv, Typed, HostTyped, LeafValues
    <3> QED
      BY <1>3, <3>1
  <2>3. accepted' \subseteq 1 .. MaxActions /\ hostRevision' \in 0 .. 4 + MaxActions
    <3>1. accepted \subseteq 1 .. MaxActions /\ hostRevision \in 0 .. 4 + MaxActions
      BY TypeParts DEF IInv, HostTyped
    <3>2. hostRevision + 1 \in 0 .. 4 + MaxActions
      BY <1>2
    <3> QED
      BY <1>2, <1>3, <3>1, <3>2
  <2>4. HostTyped'
    BY <1>1, <2>2, <2>3, TypeParts DEF HostTyped, IInv
  <2> QED
    BY <1>1, <2>1, <2>4, TypeParts, TypesUnchanged DEF IInv
<1>7. WatchInv'
  BY <1>1, <1>5, WatchUnchanged
<1>8. RevisionsSuffice'
  <2>1. /\ hostRevision + Count(toHost, "action") <= 3 + nextId
        /\ 1 + Count(toHost, "action") <= nextId
    BY DEF IInv, NetInv, RevisionsSuffice
  <2>2. /\ hostRevision \in Nat /\ nextId \in Nat /\ Count(toHost, "action") \in Nat
    BY Numbers
  <2>3. Count(toHost', "action") = Count(toHost, "action") - 1 /\ nextId' = nextId
    BY <1>1, <1>2
  <2> QED
    BY <2>1, <2>2, <2>3, <1>5 DEF RevisionsSuffice
<1>9. SyncComesFirst'
  <2>1. hostRevision \in Nat
    BY Numbers
  <2>2. hostRevision' \in Nat /\ hostRevision' >= 4
    BY <1>2, <1>5, <2>1
  <2>3. ~(hostRevision' < 4)
    BY <2>2
  <2> QED
    BY <2>3 DEF SyncComesFirst
<1>10. PatchesAreUpdates'
  <2>1. \A m \in Members(toWatch') : m.type = "patch" => IsUpdate(m)
    BY <1>4 DEF IInv, NetInv, PatchesAreUpdates
  <2> QED
    BY <2>1 DEF PatchesAreUpdates, IsUpdate
<1>11. OkIsAccepted'
  BY <1>4, <1>5 DEF IInv, NetInv, OkIsAccepted
<1>12. FirstIsSnapshot'
  BY <1>1, <1>2 DEF FirstIsSnapshot
<1>13. OneSnapshot'
  BY <1>1, <1>2, <1>4 DEF IInv, NetInv, OneSnapshot
<1>14. AnswerComes'
  BY <1>1, <1>2, <1>4 DEF IInv, NetInv, AnswerComes
<1> QED
  BY <1>6, <1>7, <1>8, <1>9, <1>10, <1>11, <1>12, <1>13, <1>14 DEF IInv, NetInv

LEMMA LinkBreaksKeepsIInv ==
    ASSUME IInv, LinkBreaks
    PROVE  IInv'
<1>1. /\ link = "open" /\ link' = "broken" /\ toHost' = <<>> /\ UNCHANGED toWatch
      /\ UNCHANGED <<hostVars, syncVars, stateVars, actionVars, cache>>
      /\ UNCHANGED <<hostRevision, accepted, nextId>>
      /\ losses' = losses + 1 /\ losses < MaxLosses /\ restarts' = restarts
  BY DEF LinkBreaks, hostVars, actionVars
<1>2. toHost' \in Seq(Requests) /\ Count(toHost', "action") = 0
  BY <1>1, EmptyQueue
<1>3. Typed'
  <2>1. NetTyped'
    BY <1>1, <1>2, Numbers DEF NetTyped
  <2>2. BoundsTyped'
    BY <1>1, SystemAssumption, TypeParts DEF IInv, BoundsTyped
  <2> QED
    BY <1>1, <2>1, <2>2, TypeParts, TypesUnchanged DEF IInv
<1>4. WatchInv'
  BY <1>1, WatchUnchanged
<1>5. RevisionsSuffice'
  <2>1. /\ hostRevision \in Nat /\ nextId \in Nat /\ Count(toHost, "action") \in Nat
    BY Numbers
  <2>2. /\ hostRevision + Count(toHost, "action") <= 3 + nextId
        /\ 1 + Count(toHost, "action") <= nextId
    BY DEF IInv, NetInv, RevisionsSuffice
  <2>3. hostRevision' = hostRevision /\ nextId' = nextId /\ Count(toHost', "action") = 0
    BY <1>1, <1>2
  <2> QED
    BY <2>1, <2>2, <2>3 DEF RevisionsSuffice
<1>6. PatchesAreUpdates'
  BY <1>1 DEF IInv, NetInv, PatchesAreUpdates, IsUpdate
<1>7. OkIsAccepted' /\ FirstIsSnapshot'
  BY <1>1, <1>2 DEF IInv, NetInv, OkIsAccepted, FirstIsSnapshot
<1>8. SyncComesFirst' /\ OneSnapshot' /\ AnswerComes'
  BY <1>1 DEF SyncComesFirst, OneSnapshot, AnswerComes
<1> QED
  BY <1>3, <1>4, <1>5, <1>6, <1>7, <1>8 DEF IInv, NetInv
-----------------------------------------------------------------------------
(* What a step of the watch does to the connection.                        *)

\* A frame taken and, maybe, a sync_request sent.
LEMMA FrameTaken ==
    ASSUME IInv, toWatch # <<>>, toWatch' = Tail(toWatch), link' = link,
           \/ toHost' = toHost
           \/ link = "open" /\ toHost' = Append(toHost, SyncRequest),
           UNCHANGED hostVars, nextId' = nextId
    PROVE  /\ Head(toWatch) \in Answers /\ Head(toWatch) \in Members(toWatch)
           /\ NetTyped' /\ HostTyped'
           /\ RevisionsSuffice' /\ SyncComesFirst' /\ PatchesAreUpdates' /\ OkIsAccepted'
           /\ Head(toWatch).type # "snapshot" =>
                 /\ Count(toWatch', "snapshot") = Count(toWatch, "snapshot")
                 /\ (cache.known => cache'.known) => FirstIsSnapshot'
           /\ Head(toWatch).type = "snapshot" =>
                 Count(toWatch', "snapshot") = Count(toWatch, "snapshot") - 1
           /\ toHost' # toHost => Count(toHost', "sync") = Count(toHost, "sync") + 1
           /\ UNCHANGED <<pending, messageId>>
              /\ ~(Head(toWatch).type = "result" /\ pending /\ Head(toWatch).id = messageId)
              => AnswerComes'
<1> DEFINE m == Head(toWatch)
<1>1. /\ toHost \in Seq(Requests) /\ toWatch \in Seq(Answers)
      /\ SyncRequest \in Requests /\ SyncRequest.type = "sync"
      /\ UNCHANGED <<hostRevision, accepted>>
  BY Numbers, FramesAreTyped DEF hostVars
<1>2. /\ m \in Answers /\ toWatch' \in Seq(Answers)
      /\ Members(toWatch) = {m} \cup Members(toWatch')
  BY <1>1, QueueTail
<1>3. /\ toHost' \in Seq(Requests) /\ Members(toHost) \subseteq Members(toHost')
      /\ Count(toHost', "action") = Count(toHost, "action")
      /\ toHost # <<>> => toHost' # <<>> /\ Head(toHost') = Head(toHost)
  <2>1. CASE toHost' = toHost
    BY <2>1, <1>1
  <2>2. CASE toHost' = Append(toHost, SyncRequest)
    <3>1. /\ toHost' \in Seq(Requests) /\ Members(toHost) \subseteq Members(toHost')
          /\ toHost # <<>> => toHost' # <<>> /\ Head(toHost') = Head(toHost)
      BY <2>2, <1>1, QueueAppend
    <3>2. Count(toHost', "action") = Count(toHost, "action")
      BY <2>2, <1>1, CountAppendOther
    <3> QED
      BY <3>1, <3>2
  <2> QED
    BY <2>1, <2>2
<1>4. toHost' # toHost => Count(toHost', "sync") = Count(toHost, "sync") + 1
  BY <1>1, CountAppend
<1>5. NetTyped' /\ HostTyped'
  <2>1. NetTyped'
    BY <1>2, <1>3, TypeParts DEF IInv, NetTyped
  <2> QED
    BY <2>1, TypeParts, TypesUnchanged DEF IInv
<1>6. RevisionsSuffice'
  BY <1>1, <1>3 DEF IInv, NetInv, RevisionsSuffice
<1>7. SyncComesFirst'
  BY <1>1, <1>3 DEF IInv, NetInv, SyncComesFirst
<1>8. PatchesAreUpdates'
  <2>1. \A k \in Members(toWatch') : k.type = "patch" => IsUpdate(k)
    BY <1>2 DEF IInv, NetInv, PatchesAreUpdates
  <2> QED
    BY <2>1 DEF PatchesAreUpdates, IsUpdate
<1>9. OkIsAccepted'
  BY <1>1, <1>2 DEF IInv, NetInv, OkIsAccepted
<1>10. m.type # "snapshot" => Count(toWatch', "snapshot") = Count(toWatch, "snapshot")
  <2>1. m.type # "snapshot" => Count(toWatch', "snapshot") = Count(toWatch, "snapshot") - 0
    BY <1>1, CountTail
  <2> QED
    BY <2>1, Numbers
<1>11. m.type = "snapshot" => Count(toWatch', "snapshot") = Count(toWatch, "snapshot") - 1
  BY <1>1, CountTail
<1>12. ASSUME m.type # "snapshot", cache.known => cache'.known
       PROVE  FirstIsSnapshot'
  BY <1>1, <1>3, <1>12, SnapshotFirstTail DEF IInv, NetInv, FirstIsSnapshot
<1>13. ASSUME UNCHANGED <<pending, messageId>>,
              ~(m.type = "result" /\ pending /\ m.id = messageId)
       PROVE  AnswerComes'
  BY <1>2, <1>3, <1>13 DEF IInv, NetInv, AnswerComes
<1> QED
  BY <1>2, <1>4, <1>5, <1>6, <1>7, <1>8, <1>9, <1>10, <1>11, <1>12, <1>13

\* Both queues are empty once the watch has closed its socket.
LEMMA SocketClosed ==
    ASSUME IInv, link' = "closed", toHost' = <<>>, toWatch' = <<>>,
           UNCHANGED hostVars, nextId' = nextId
    PROVE  NetTyped' /\ HostTyped' /\ NetInv'
<1>1. /\ toHost' \in Seq(Requests) /\ toWatch' \in Seq(Answers)
      /\ Members(toWatch') = {} /\ Count(toHost', "action") = 0
      /\ UNCHANGED <<hostRevision, accepted>>
  BY EmptyQueue DEF hostVars
<1>2. NetTyped' /\ HostTyped'
  BY <1>1, TypeParts, TypesUnchanged DEF IInv, NetTyped
<1>3. RevisionsSuffice'
  <2>1. /\ hostRevision \in Nat /\ nextId \in Nat /\ Count(toHost, "action") \in Nat
    BY Numbers
  <2>2. /\ hostRevision + Count(toHost, "action") <= 3 + nextId
        /\ 1 + Count(toHost, "action") <= nextId
    BY DEF IInv, NetInv, RevisionsSuffice
  <2>3. hostRevision' = hostRevision /\ nextId' = nextId /\ Count(toHost', "action") = 0
    BY <1>1
  <2> QED
    BY <2>1, <2>2, <2>3 DEF RevisionsSuffice
<1>4. SyncComesFirst' /\ OneSnapshot' /\ AnswerComes'
  BY DEF SyncComesFirst, OneSnapshot, AnswerComes
<1>5. PatchesAreUpdates' /\ OkIsAccepted'
  BY <1>1 DEF PatchesAreUpdates, OkIsAccepted
<1>6. FirstIsSnapshot'
  BY <1>1 DEF FirstIsSnapshot, SnapshotFirst
<1> QED
  BY <1>2, <1>3, <1>4, <1>5, <1>6 DEF NetInv

\* Frames the watch ignores.
LEMMA IgnoredKeepsIInv ==
    ASSUME IInv, PatchIgnored \/ ResultIgnored
    PROVE  IInv'
<1>1. /\ toWatch # <<>> /\ toWatch' = Tail(toWatch) /\ UNCHANGED <<link, toHost>>
      /\ UNCHANGED <<hostVars, syncVars, stateVars, actionVars, cache, bounds>>
      /\ UNCHANGED <<syncing, pending, messageId, nextId>>
      /\ Head(toWatch).type \in {"patch", "result"}
      /\ ~(Head(toWatch).type = "result" /\ pending /\ Head(toWatch).id = messageId)
  BY DEF PatchIgnored, ResultIgnored, Received, syncVars, actionVars
<1>2. /\ NetTyped' /\ HostTyped'
      /\ RevisionsSuffice' /\ SyncComesFirst' /\ PatchesAreUpdates' /\ OkIsAccepted'
      /\ FirstIsSnapshot' /\ AnswerComes'
      /\ Count(toWatch', "snapshot") = Count(toWatch, "snapshot")
  BY <1>1, FrameTaken
<1>3. OneSnapshot'
  BY <1>1, <1>2 DEF IInv, NetInv, OneSnapshot
<1>4. Typed'
  BY <1>1, <1>2, TypeParts, TypesUnchanged DEF IInv
<1>5. WatchInv'
  BY <1>1, WatchUnchanged DEF hostVars
<1> QED
  BY <1>2, <1>3, <1>4, <1>5 DEF IInv, NetInv

LEMMA EmptyBufferFits == Cardinality({}) <= Capacity
<1>1. Cardinality({}) = 0
  BY FS_EmptySet
<1>2. Capacity \in Nat
  BY SystemAssumption
<1> QED
  BY <1>1, <1>2

\* The end of a connection, whichever handler notices it.
LEMMA OfflineKeepsIInv ==
    ASSUME IInv, NEW d \in [Leaves -> LeafValues], d["playing"] \in {"on", "off"},
           NEW shown \in BOOLEAN, NEW f, f \in {"", feedback},
           GoOffline(d, shown, f), revision' \in 0 .. 4 + MaxActions,
           ~cache.known => d = WatchDefault /\ revision' = 0
    PROVE  IInv'
<1>1. /\ link' = "closed" /\ toHost' = <<>> /\ toWatch' = <<>>
      /\ data' = IF pending THEN [d EXCEPT !["playing"] = previous] ELSE d
      /\ pendingShown' = (shown /\ ~pending)
      /\ feedback' = IF pending THEN "HOST OFFLINE" ELSE f
      /\ pending' = FALSE /\ connection' = "offline"
      /\ syncing' = FALSE /\ buffered' = {}
      /\ stale' = (stale \/ cache.known)
      /\ UNCHANGED <<hostVars, previous, messageId, nextId, cache, bounds>>
      /\ UNCHANGED accepted /\ drawn' = View'
  BY DEF GoOffline, Draw, hostVars
<1>2. NetTyped' /\ HostTyped' /\ NetInv'
  BY <1>1, SocketClosed
<1>3. /\ previous \in {"on", "off"} /\ previous \in LeafValues /\ "playing" \in Leaves
      /\ cache.data["playing"] \in {"on", "off"}
  BY TypeParts DEF IInv, WatchInv, LeavesAreUpdates, ActionTyped, LeafValues, Leaves
<1>4. data' \in [Leaves -> LeafValues] /\ data'["playing"] \in {"on", "off"}
  BY <1>1, <1>3
<1>5. Typed'
  <2>1. SyncTyped'
    <3>1. Cardinality(buffered') <= Capacity
      BY <1>1, EmptyBufferFits
    <3> QED
      BY <1>1, <3>1 DEF SyncTyped
  <2>2. StateTyped'
    <3>1. feedback' \in {"", "SYNCING ACTION", "HOST CONFIRMED", "ACTION REJECTED",
                         "ACTION TIMEOUT", "HOST OFFLINE"}
      BY <1>1, TypeParts DEF IInv, StateTyped
    <3>2. stale' \in BOOLEAN /\ pendingShown' \in BOOLEAN
      BY <1>1
    <3> QED
      BY <1>1, <1>4, <3>1, <3>2 DEF StateTyped
  <2>3. ActionTyped'
    BY <1>1, TypeParts DEF IInv, ActionTyped
  <2> QED
    BY <1>1, <1>2, <2>1, <2>2, <2>3, TypeParts, TypesUnchanged DEF IInv
<1>6. BufferIsBounded' /\ LeavesAreUpdates'
  BY <1>1, <1>3, <1>4, FS_EmptySet DEF BufferIsBounded, LeavesAreUpdates
<1>7. OnlineOnceSynced' /\ PendingIsLinked' /\ LeavesUnlessSyncing' /\ SavedUnlessSyncing'
  BY <1>1
     DEF OnlineOnceSynced, PendingIsLinked, LeavesUnlessSyncing, OnlineLeavesAreHosts,
         SavedUnlessSyncing, RecordIsShown
<1>8. NothingShown'
  BY <1>1 DEF IInv, WatchInv, NothingShown
<1>9. ConfirmedWasAccepted'
  BY <1>1 DEF IInv, WatchInv, ConfirmedWasAccepted
<1>10. ShownConnectionIsReal'
  <2>1. ~stale' => data' = WatchDefault
    BY <1>1 DEF IInv, WatchInv, NothingShown
  <2> QED
    BY <1>1, <2>1 DEF ShownConnectionIsReal
<1>11. DrawnUnlessSyncing'
  BY <1>1 DEF DrawnUnlessSyncing, ScreenIsCurrent
<1> QED
  BY <1>2, <1>5, <1>6, <1>7, <1>8, <1>9, <1>10, <1>11 DEF IInv, WatchInv

LEMMA OfflineWithSameState ==
    ASSUME IInv, GoOffline(data, pendingShown, feedback), revision' = revision
    PROVE  IInv'
<1>2. /\ data \in [Leaves -> LeafValues] /\ data["playing"] \in {"on", "off"}
      /\ pendingShown \in BOOLEAN
  BY TypeParts DEF IInv, WatchInv, LeavesAreUpdates, StateTyped
<1>3. revision \in 0 .. 4 + MaxActions
  BY TypeParts DEF IInv, SyncTyped
<1>4. ~cache.known => data = WatchDefault /\ revision = 0
  BY DEF IInv, WatchInv, NothingShown
<1> QED
  BY <1>2, <1>3, <1>4, OfflineKeepsIInv

LEMMA NoticeClosedKeepsIInv ==
    ASSUME IInv, NoticeClosed
    PROVE  IInv'
  BY OfflineWithSameState DEF NoticeClosed

\* The buffer's capacity is that of WatchSync's definitions.
LEMMA RoomIsCapacity ==
    ASSUME NEW m
    PROVE  Sync!HasRoom(m) <=> m.revision \in Sync!BufferedRevisions
                               \/ Cardinality(buffered) < Capacity
<1>1. Sync!Cardinality(buffered) = Cardinality(buffered)
  BY DEF Sync!Cardinality, Cardinality
<1> QED
  BY <1>1 DEF Sync!HasRoom

\* A patch kept for later.
LEMMA BufferTakes ==
    ASSUME IInv, NEW m \in Answers, m.type = "patch", IsUpdate(m), Sync!HasRoom(Mutation(m))
    PROVE  LET kept == Sync!BufferWith(Mutation(m))
           IN /\ kept \subseteq Sync!Mutations /\ Cardinality(kept) <= Capacity
              /\ IsFiniteSet(kept)
              /\ \A b \in kept : b.revision \in 1 .. 4 + MaxActions /\ IsUpdate(b)
              /\ \A b \in kept : b \in buffered \/ b.revision = m.revision
<1> DEFINE x == Mutation(m)
           kept == Sync!BufferWith(x)
<1>0. MaxActions \in Nat /\ Capacity \in Nat
  BY SystemAssumption
<1>1. /\ buffered \subseteq Sync!Mutations /\ Cardinality(buffered) <= Capacity
      /\ IsFiniteSet(buffered)
      /\ \A b \in buffered : b.revision \in 1 .. 4 + MaxActions /\ IsUpdate(b)
  BY TypeParts DEF IInv, WatchInv, BufferIsBounded, LeavesAreUpdates, SyncTyped
<1>2. /\ m.revision \in 1 .. 4 + MaxActions /\ m.path \in Leaves /\ m.value \in LeafValues
  BY AnswerKinds
<1>3. /\ x.revision = m.revision /\ x.path = m.path /\ x.value = m.value
      /\ x \in Sync!Mutations
  <2>1. m.revision \in Nat
    BY <1>0, <1>2
  <2> QED
    BY <2>1, <1>2 DEF Mutation, Sync!Mutations
<1>4. IsUpdate(x)
  BY <1>3 DEF IsUpdate
<1> HIDE DEF x
<1>5. kept = buffered \/ (kept = buffered \cup {x} /\ Cardinality(buffered) < Capacity)
  BY RoomIsCapacity DEF Sync!BufferWith, x
<1>6. IsFiniteSet(kept) /\ Cardinality(kept) <= Capacity
  <2>1. CASE kept = buffered
    BY <2>1, <1>1
  <2>2. CASE kept = buffered \cup {x} /\ Cardinality(buffered) < Capacity
    <3>1. Cardinality(buffered) \in Nat
      BY <1>1, FS_CardinalityType
    <3>2. IsFiniteSet(buffered \cup {x})
          /\ (Cardinality(buffered \cup {x}) = Cardinality(buffered)
              \/ Cardinality(buffered \cup {x}) = Cardinality(buffered) + 1)
      BY <1>1, FS_AddElement
    <3> HIDE DEF kept
    <3> QED
      BY <3>1, <3>2, <2>2, <1>0
  <2> QED
    BY <2>1, <2>2, <1>5
<1>7. \A b \in kept : b \in buffered \/ b = x
  BY <1>5
<1> HIDE DEF kept
<1>8. kept \subseteq Sync!Mutations
  BY <1>1, <1>3, <1>7
<1>9. \A b \in kept : b.revision \in 1 .. 4 + MaxActions /\ IsUpdate(b)
  BY <1>1, <1>2, <1>3, <1>4, <1>7
<1>10. \A b \in kept : b \in buffered \/ b.revision = m.revision
  BY <1>3, <1>7
<1> QED
  BY <1>6, <1>8, <1>9, <1>10 DEF kept, x

\* A patch kept while the watch synchronizes, or the first one after a gap.
LEMMA PatchKept ==
    ASSUME IInv, Received("patch"), toWatch' = Tail(toWatch), link' = link,
           \/ syncing /\ toHost' = toHost
           \/ ~syncing /\ toHost' = IF link = "open" THEN Append(toHost, SyncRequest) ELSE toHost,
           syncing' = TRUE,
           Sync!HasRoom(Mutation(Head(toWatch))),
           buffered' = Sync!BufferWith(Mutation(Head(toWatch))),
           UNCHANGED <<hostVars, revision, stateVars, actionVars, cache, bounds>>
    PROVE  IInv'
<1> DEFINE m == Head(toWatch)
<1>1. /\ toWatch # <<>> /\ m.type = "patch" /\ link # "closed"
      /\ \/ toHost' = toHost
         \/ link = "open" /\ toHost' = Append(toHost, SyncRequest)
      /\ UNCHANGED <<pending, messageId, nextId, accepted>>
      /\ UNCHANGED <<data, connection, stale, feedback, drawn>>
  BY DEF Received, actionVars, hostVars, stateVars
<1>2. /\ m \in Answers /\ m \in Members(toWatch) /\ NetTyped' /\ HostTyped'
      /\ RevisionsSuffice' /\ SyncComesFirst' /\ PatchesAreUpdates' /\ OkIsAccepted'
      /\ FirstIsSnapshot' /\ AnswerComes'
      /\ Count(toWatch', "snapshot") = Count(toWatch, "snapshot")
      /\ toHost' # toHost => Count(toHost', "sync") = Count(toHost, "sync") + 1
  BY <1>1, FrameTaken
<1>3. IsUpdate(m)
  BY <1>1, <1>2 DEF IInv, NetInv, PatchesAreUpdates
<1>4. /\ buffered' \subseteq Sync!Mutations /\ Cardinality(buffered') <= Capacity
      /\ IsFiniteSet(buffered')
      /\ \A b \in buffered' : b.revision \in 1 .. 4 + MaxActions /\ IsUpdate(b)
      /\ \A b \in buffered' : b \in buffered \/ b.revision = m.revision
  BY <1>1, <1>2, <1>3, BufferTakes
<1>5. OneSnapshot'
  <2>1. ASSUME link = "open"
        PROVE  Count(toHost', "sync") + Count(toWatch', "snapshot") = 1
    <3>1. Count(toHost, "sync") + Count(toWatch, "snapshot") = (IF syncing THEN 1 ELSE 0)
      BY <2>1 DEF IInv, NetInv, OneSnapshot
    <3>2. CASE syncing
      BY <1>2, <3>1, <3>2
    <3>3. CASE ~syncing
      <4>1. toHost' = Append(toHost, SyncRequest)
        BY <2>1, <3>3
      <4>2. Count(toHost', "sync") = Count(toHost, "sync") + 1
        BY <4>1, FramesAreTyped, Numbers, CountAppend
      <4> QED
        BY <1>2, <3>1, <3>3, <4>2, Numbers
    <3> QED
      BY <3>2, <3>3
  <2> QED
    BY <2>1 DEF OneSnapshot
<1>6. Typed'
  <2>1. SyncTyped'
    <3>1. revision' \in 0 .. 4 + MaxActions
      BY TypeParts DEF IInv, SyncTyped
    <3> QED
      BY <1>4, <3>1 DEF SyncTyped, Sync!Mutations
  <2> QED
    BY <1>2, <2>1, TypeParts, TypesUnchanged DEF IInv
<1>7. BufferIsBounded'
  BY <1>4 DEF BufferIsBounded
<1>8. LeavesAreUpdates'
  <2>1. data["playing"] \in {"on", "off"} /\ cache.data["playing"] \in {"on", "off"}
    BY DEF IInv, WatchInv, LeavesAreUpdates
  <2>2. \A b \in buffered' : IsUpdate(b)
    BY <1>4
  <2> QED
    BY <1>1, <2>1, <2>2 DEF LeavesAreUpdates, IsUpdate
<1>9. OnlineOnceSynced' /\ LeavesUnlessSyncing' /\ SavedUnlessSyncing' /\ DrawnUnlessSyncing'
  BY
     DEF OnlineOnceSynced, LeavesUnlessSyncing, OnlineLeavesAreHosts, SavedUnlessSyncing,
         RecordIsShown, DrawnUnlessSyncing, ScreenIsCurrent
<1>10. NothingShown'
  <2> SUFFICES ASSUME ~cache.known PROVE m.revision = 1
    BY <1>1, <1>4 DEF IInv, WatchInv, NothingShown
  <2>1. SnapshotFirst(toWatch)
    BY DEF IInv, NetInv, FirstIsSnapshot
  <2> QED
    BY <1>1, <2>1, Numbers, SnapshotFirstTail
<1>11. PendingIsLinked' /\ ConfirmedWasAccepted' /\ ShownConnectionIsReal'
  BY <1>1 DEF IInv, WatchInv, PendingIsLinked, ConfirmedWasAccepted, ShownConnectionIsReal
<1> QED
  BY <1>2, <1>5, <1>6, <1>7, <1>8, <1>9, <1>10, <1>11 DEF IInv, WatchInv, NetInv

LEMMA PatchBufferedKeepsIInv ==
    ASSUME IInv, PatchBuffered
    PROVE  IInv'
<1>1. CASE Sync!HasRoom(Mutation(Head(toWatch)))
  BY <1>1, PatchKept DEF PatchBuffered, syncVars
<1>2. CASE ~Sync!HasRoom(Mutation(Head(toWatch)))
  <2>1. GoOffline(data, pendingShown, feedback) /\ revision' = revision
    BY <1>2 DEF PatchBuffered
  <2> QED
    BY <2>1, OfflineWithSameState
<1> QED
  BY <1>1, <1>2

LEMMA PatchAheadKeepsIInv ==
    ASSUME IInv, PatchAhead
    PROVE  IInv'
<1>1. CASE GoOffline(data, pendingShown, feedback) /\ revision' = revision
  BY <1>1, OfflineWithSameState
<1>2. CASE ~(GoOffline(data, pendingShown, feedback) /\ revision' = revision)
  <2>1. /\ Received("patch") /\ ~syncing
        /\ RequestSync /\ syncing' = TRUE
        /\ buffered' = Sync!BufferWith(Mutation(Head(toWatch)))
        /\ toWatch' = Tail(toWatch)
        /\ UNCHANGED <<hostVars, revision, stateVars, actionVars, cache, bounds>>
    BY <1>2 DEF PatchAhead
  <2>2. Sync!HasRoom(Mutation(Head(toWatch)))
    <3>1. buffered = {}
      BY <2>1 DEF IInv, WatchInv, BufferIsBounded
    <3>2. Cardinality(buffered) < Capacity
      BY <3>1, FS_EmptySet, Numbers
    <3> QED
      BY <3>2, RoomIsCapacity
  <2> QED
    BY <2>1, <2>2, PatchKept DEF RequestSync
<1> QED
  BY <1>1, <1>2

\* The leaf an action changes.
LEMMA PlayingChanges ==
    ASSUME IInv,
           \/ data' = data
           \/ data' = [data EXCEPT !["playing"] = previous]
           \/ data' = [data EXCEPT !["playing"] = Toggle(@)]
    PROVE  /\ data' \in [Leaves -> LeafValues] /\ data'["playing"] \in {"on", "off"}
           /\ \A p \in Leaves \ {"playing"} : data'[p] = data[p]
<1>1. /\ data \in [Leaves -> LeafValues] /\ data["playing"] \in {"on", "off"}
      /\ previous \in {"on", "off"} /\ "playing" \in Leaves
      /\ {"on", "off"} \subseteq LeafValues
  BY TypeParts DEF IInv, WatchInv, LeavesAreUpdates, StateTyped, ActionTyped, Leaves, LeafValues
<1>2. Toggle(data["playing"]) \in {"on", "off"}
  BY DEF Toggle
<1>3. PICK v \in {"on", "off"} : data' = data \/ data' = [data EXCEPT !["playing"] = v]
  BY <1>1, <1>2
<1> QED
  BY <1>1, <1>3

\* What holds of the other leaves still holds after a step of an action.
LEMMA PlayingAlone ==
    ASSUME IInv, data'["playing"] \in {"on", "off"},
           \A p \in Leaves \ {"playing"} : data'[p] = data[p],
           cache' = cache \/ cache'.data = data',
           UNCHANGED <<connection, syncing, buffered, revision>>
    PROVE  LeavesAreUpdates' /\ LeavesUnlessSyncing'
<1>1. \A b \in buffered' : IsUpdate(b)
  BY DEF IInv, WatchInv, LeavesAreUpdates
<1>2. cache'.data["playing"] \in {"on", "off"}
  BY DEF IInv, WatchInv, LeavesAreUpdates
<1>3. LeavesAreUpdates'
  BY <1>1, <1>2 DEF LeavesAreUpdates, IsUpdate
<1>4. LeavesUnlessSyncing'
  BY DEF IInv, WatchInv, LeavesUnlessSyncing, OnlineLeavesAreHosts
<1> QED
  BY <1>3, <1>4

\* The next patch of a watch that is synchronized.
LEMMA PatchNextKeepsIInv ==
    ASSUME IInv, PatchNext
    PROVE  IInv'
<1> DEFINE m == Head(toWatch)
<1>1. /\ toWatch # <<>> /\ m.type = "patch" /\ link # "closed" /\ ~syncing
      /\ m.revision = revision + 1 /\ revision' = revision + 1
      /\ toWatch' = Tail(toWatch) /\ UNCHANGED <<link, toHost>>
      /\ data' = [data EXCEPT ![m.path] = m.value]
      /\ connection' = "online" /\ stale' = FALSE /\ drawn' = View'
      /\ cache' = [known |-> TRUE, data |-> data']
      /\ UNCHANGED <<hostVars, syncing, buffered, pendingShown, feedback, actionVars, bounds>>
      /\ UNCHANGED <<pending, messageId, nextId, accepted>>
  BY DEF PatchNext, Received, Changed, CaptureSync, Draw, actionVars, hostVars
<1>2. cache'.known /\ cache'.data = data'
  BY <1>1
<1>3. /\ m \in Answers /\ m \in Members(toWatch) /\ NetTyped' /\ HostTyped'
      /\ RevisionsSuffice' /\ SyncComesFirst' /\ PatchesAreUpdates' /\ OkIsAccepted'
      /\ FirstIsSnapshot' /\ AnswerComes'
      /\ Count(toWatch', "snapshot") = Count(toWatch, "snapshot")
  BY <1>1, <1>2, FrameTaken
<1>4. IsUpdate(m)
  BY <1>1, <1>3 DEF IInv, NetInv, PatchesAreUpdates
<1>5. m.revision \in 1 .. 4 + MaxActions /\ m.path \in Leaves /\ m.value \in LeafValues
  BY <1>1, <1>3, AnswerKinds
<1>6. m.path = "playing" => m.value \in {"on", "off"}
  <2>1. CASE m.revision <= 4
    <3>1. m.revision \in 1 .. 4
      BY <1>1, <2>1, Numbers, SMTT(30)
    <3> QED
      BY <2>1, <3>1, <1>4, UpdatesAreTyped DEF IsUpdate
  <2>2. CASE ~(m.revision <= 4)
    BY <2>2, <1>4 DEF IsUpdate
  <2> QED
    BY <2>1, <2>2
<1>7. /\ data \in [Leaves -> LeafValues] /\ data["playing"] \in {"on", "off"}
      /\ "playing" \in Leaves
  BY TypeParts DEF IInv, WatchInv, LeavesAreUpdates, StateTyped, Leaves
<1>8. data' \in [Leaves -> LeafValues] /\ data'["playing"] \in {"on", "off"}
  BY <1>1, <1>5, <1>6, <1>7
<1>9. OneSnapshot'
  BY <1>1, <1>3 DEF IInv, NetInv, OneSnapshot
<1>10. Typed'
  <2>1. SyncTyped'
    BY <1>1, <1>5, Numbers, TypeParts, SMTT(30) DEF IInv, SyncTyped, Sync!Mutations
  <2>2. StateTyped'
    BY <1>1, <1>8, TypeParts DEF IInv, StateTyped
  <2>3. SavedTyped'
    BY <1>1, <1>8 DEF SavedTyped, Records
  <2> QED
    BY <1>1, <1>3, <2>1, <2>2, <2>3, TypeParts, TypesUnchanged DEF IInv
<1>11. BufferIsBounded'
  BY <1>1 DEF IInv, WatchInv, BufferIsBounded
<1>12. LeavesAreUpdates'
  <2>1. \A b \in buffered' : IsUpdate(b)
    BY <1>1 DEF IInv, WatchInv, LeavesAreUpdates
  <2> QED
    BY <1>2, <1>8, <2>1 DEF LeavesAreUpdates, IsUpdate
<1>13. OnlineOnceSynced' /\ NothingShown' /\ SavedUnlessSyncing'
  BY <1>1, <1>2 DEF OnlineOnceSynced, NothingShown, SavedUnlessSyncing, RecordIsShown
<1>14. PendingIsLinked' /\ ConfirmedWasAccepted' /\ DrawnUnlessSyncing'
  BY <1>1
     DEF IInv, WatchInv, PendingIsLinked, ConfirmedWasAccepted, DrawnUnlessSyncing,
         ScreenIsCurrent
<1>15. ShownConnectionIsReal'
  BY <1>1 DEF ShownConnectionIsReal
<1>16. LeavesUnlessSyncing'
  <2> SUFFICES ASSUME NEW p \in Leaves \ {"playing"}, NEW i \in 1 .. 4, Updates[i].path = p
               PROVE  data'[p] = (IF i <= revision' THEN Updates[i].value ELSE HostDefault[p])
    BY DEF LeavesUnlessSyncing, OnlineLeavesAreHosts
  <2>0. revision \in Nat
    BY Numbers
  <2>1. data[p] = (IF i <= revision THEN Updates[i].value ELSE HostDefault[p])
    BY <1>1 DEF IInv, WatchInv, OnlineOnceSynced, LeavesUnlessSyncing, OnlineLeavesAreHosts
  <2>2. CASE i = revision + 1
    <3>1. m.path = p /\ m.value = Updates[i].value
      BY <1>1, <1>4, <2>2 DEF IsUpdate
    <3> QED
      BY <1>1, <1>7, <2>0, <2>2, <3>1
  <2>3. CASE i # revision + 1
    <3>1. m.path # p
      <4>1. CASE m.revision <= 4
        <5>1. m.revision \in 1 .. 4 /\ m.revision # i /\ m.path = Updates[m.revision].path
          BY <4>1, <1>1, <1>4, <2>0, <2>3 DEF IsUpdate
        <5> QED
          BY <5>1, UpdatesAreTyped
      <4>2. CASE ~(m.revision <= 4)
        BY <4>2, <1>4 DEF IsUpdate
      <4> QED
        BY <4>1, <4>2
    <3>2. data'[p] = data[p]
      BY <1>1, <1>7, <3>1
    <3>3. i <= revision' <=> i <= revision
      BY <1>1, <2>0, <2>3
    <3> QED
      BY <2>1, <3>2, <3>3
  <2> QED
    BY <2>2, <2>3
<1> QED
  BY <1>3, <1>9, <1>10, <1>11, <1>12, <1>13, <1>14, <1>15, <1>16 DEF IInv, WatchInv, NetInv

\* A command_result that settles the pending action.
LEMMA ResultSettlesKeepsIInv ==
    ASSUME IInv, ResultSettles
    PROVE  IInv'
<1> DEFINE m == Head(toWatch)
<1>1. /\ toWatch # <<>> /\ m.type = "result" /\ link # "closed" /\ pending /\ m.id = messageId
      /\ toWatch' = Tail(toWatch) /\ UNCHANGED <<link, toHost>>
      /\ pending' = FALSE /\ pendingShown' = FALSE /\ drawn' = View'
      /\ cache' = [known |-> TRUE, data |-> data']
      /\ UNCHANGED <<hostVars, syncVars, connection, stale, previous, messageId, nextId, bounds>>
      /\ UNCHANGED <<syncing, buffered, revision, accepted>>
      /\ \/ m.ok /\ feedback' = "HOST CONFIRMED" /\ data' = data
         \/ feedback' = "ACTION REJECTED" /\ data' = [data EXCEPT !["playing"] = previous]
  BY DEF ResultSettles, Received, CaptureSync, Draw, syncVars, hostVars
<1>2. cache'.known /\ cache'.data = data'
  BY <1>1
<1>3. /\ m \in Members(toWatch) /\ NetTyped' /\ HostTyped'
      /\ RevisionsSuffice' /\ SyncComesFirst' /\ PatchesAreUpdates' /\ OkIsAccepted'
      /\ FirstIsSnapshot'
      /\ Count(toWatch', "snapshot") = Count(toWatch, "snapshot")
  BY <1>1, <1>2, FrameTaken
<1>4. OneSnapshot' /\ AnswerComes'
  BY <1>1, <1>3 DEF IInv, NetInv, OneSnapshot, AnswerComes
<1>5. /\ data' \in [Leaves -> LeafValues] /\ data'["playing"] \in {"on", "off"}
      /\ \A p \in Leaves \ {"playing"} : data'[p] = data[p]
  BY <1>1, PlayingChanges
<1>6. Typed'
  <2>1. StateTyped'
    <3>1. feedback' \in {"HOST CONFIRMED", "ACTION REJECTED"}
      BY <1>1
    <3> QED
      BY <1>1, <1>5, <3>1, TypeParts DEF IInv, StateTyped
  <2>2. ActionTyped' /\ SavedTyped'
    BY <1>1, <1>5, TypeParts DEF IInv, ActionTyped, SavedTyped, Records
  <2> QED
    BY <1>1, <1>3, <2>1, <2>2, TypeParts, TypesUnchanged DEF IInv
<1>7. ConfirmedWasAccepted'
  BY <1>1, <1>3 DEF IInv, NetInv, OkIsAccepted, ConfirmedWasAccepted
<1>8. NothingShown' /\ PendingIsLinked' /\ SavedUnlessSyncing' /\ DrawnUnlessSyncing'
  BY <1>1, <1>2
     DEF NothingShown, PendingIsLinked, SavedUnlessSyncing, RecordIsShown, DrawnUnlessSyncing,
         ScreenIsCurrent
<1>9. LeavesAreUpdates' /\ LeavesUnlessSyncing'
  BY <1>1, <1>2, <1>5, PlayingAlone
<1>10. BufferIsBounded' /\ OnlineOnceSynced'
  BY <1>1 DEF IInv, WatchInv, BufferIsBounded, OnlineOnceSynced
<1>11. ShownConnectionIsReal'
  BY <1>1 DEF IInv, WatchInv, ShownConnectionIsReal
<1> QED
  BY <1>3, <1>4, <1>6, <1>7, <1>8, <1>9, <1>10, <1>11 DEF IInv, WatchInv, NetInv
-----------------------------------------------------------------------------
(* The user, the clock and the process.                                    *)

LEMMA ActivateSentKeepsIInv ==
    ASSUME IInv, ActivateSent
    PROVE  IInv'
<1> DEFINE a == Action(nextId, data'["playing"])
<1>1. /\ ~pending /\ nextId <= MaxActions /\ link # "closed"
      /\ previous' = data["playing"] /\ data' = [data EXCEPT !["playing"] = Toggle(@)]
      /\ pending' = TRUE /\ pendingShown' = TRUE /\ feedback' = "SYNCING ACTION"
      /\ messageId' = nextId /\ nextId' = nextId + 1
      /\ toHost' = IF link = "open" THEN Append(toHost, a) ELSE toHost
      /\ cache' = [known |-> TRUE, data |-> data'] /\ drawn' = View'
      /\ UNCHANGED <<link, toWatch, hostVars, syncVars, connection, stale, bounds>>
      /\ UNCHANGED <<syncing, buffered, revision, accepted, hostRevision>>
  BY DEF ActivateSent, CaptureSync, Draw, syncVars, hostVars
<1>15. nextId <= MaxActions /\ messageId' = nextId /\ nextId' = nextId + 1
       /\ hostRevision' = hostRevision
  BY <1>1
<1>2. cache'.known /\ cache'.data = data'
  BY <1>1
<1>3. /\ data' \in [Leaves -> LeafValues] /\ data'["playing"] \in {"on", "off"}
      /\ \A p \in Leaves \ {"playing"} : data'[p] = data[p]
      /\ data["playing"] \in {"on", "off"}
  BY <1>1, PlayingChanges DEF IInv, WatchInv, LeavesAreUpdates
<1>4. nextId \in 1 .. MaxActions
  BY <1>15, Ranges
<1>5. a \in Requests /\ a.type = "action" /\ a.id = nextId
  BY <1>3, <1>4, FramesAreTyped
<1> HIDE DEF a
<1>6. /\ toHost' \in Seq(Requests)
      /\ link = "open" => \E m \in Members(toHost') : m.type = "action" /\ m.id = messageId'
      /\ Count(toHost', "sync") = Count(toHost, "sync")
      /\ Count(toHost', "action") <= Count(toHost, "action") + 1
      /\ toHost # <<>> => toHost' # <<>> /\ Head(toHost') = Head(toHost)
  <2>0. toHost \in Seq(Requests) /\ Count(toHost, "action") \in Nat
    BY Numbers
  <2>1. CASE link = "open"
    <3>1. toHost' = Append(toHost, a)
      BY <1>1, <2>1
    <3>2. /\ toHost' \in Seq(Requests) /\ Members(toHost') = Members(toHost) \cup {a}
          /\ toHost # <<>> => toHost' # <<>> /\ Head(toHost') = Head(toHost)
      BY <1>5, <2>0, <3>1, QueueAppend
    <3>3. /\ Count(toHost', "sync") = Count(toHost, "sync")
          /\ Count(toHost', "action") = Count(toHost, "action") + 1
      BY <1>5, <2>0, <3>1, CountAppend, CountAppendOther
    <3> QED
      <4>1. \E m \in Members(toHost') : m.type = "action" /\ m.id = messageId'
        BY <1>5, <1>15, <3>2
      <4> QED
        BY <2>0, <3>2, <3>3, <4>1
  <2>2. CASE link # "open"
    <3>1. toHost' = toHost
      BY <1>1, <2>2
    <3> QED
      BY <2>0, <2>2, <3>1
  <2> QED
    BY <2>1, <2>2
<1>7. Typed'
  <2>1. NetTyped'
    BY <1>1, <1>6, TypeParts DEF IInv, NetTyped
  <2>2. StateTyped'
    BY <1>1, <1>3, TypeParts DEF IInv, StateTyped
  <2>3. ActionTyped'
    <3>1. messageId' \in 0 .. MaxActions /\ nextId' \in 1 .. MaxActions + 1
      BY <1>15, Ranges
    <3> QED
      BY <1>1, <1>3, <3>1 DEF ActionTyped
  <2>4. SavedTyped'
    BY <1>1, <1>3 DEF SavedTyped, Records
  <2> QED
    BY <1>1, <2>1, <2>2, <2>3, <2>4, TypeParts, TypesUnchanged DEF IInv
<1>8. RevisionsSuffice'
  <2>1. Count(toHost', "action") \in Nat
    BY <1>6, CountIsNat
  <2>2. hostRevision + Count(toHost, "action") <= 3 + nextId /\ 1 + Count(toHost, "action") <= nextId
    BY DEF IInv, NetInv, RevisionsSuffice
  <2>3. Count(toHost', "action") <= Count(toHost, "action") + 1
    BY <1>6
  <2>4. /\ hostRevision \in Nat /\ nextId \in Nat /\ Count(toHost, "action") \in Nat
    BY Numbers
  <2>5. hostRevision' = hostRevision /\ nextId' = nextId + 1
    BY <1>15
  <2> QED
    BY <2>1, <2>2, <2>3, <2>4, <2>5 DEF RevisionsSuffice
<1>9. SyncComesFirst' /\ OkIsAccepted' /\ FirstIsSnapshot' /\ OneSnapshot' /\ AnswerComes'
  BY <1>1, <1>2, <1>6
     DEF IInv, NetInv, SyncComesFirst, OkIsAccepted, FirstIsSnapshot, OneSnapshot, AnswerComes
<1>10. PatchesAreUpdates'
  BY <1>1 DEF IInv, NetInv, PatchesAreUpdates, IsUpdate
<1>11. NothingShown' /\ PendingIsLinked' /\ SavedUnlessSyncing' /\ DrawnUnlessSyncing'
       /\ ConfirmedWasAccepted'
  BY <1>1, <1>2
     DEF NothingShown, PendingIsLinked, SavedUnlessSyncing, RecordIsShown, DrawnUnlessSyncing,
         ScreenIsCurrent, ConfirmedWasAccepted
<1>12. LeavesAreUpdates' /\ LeavesUnlessSyncing'
  BY <1>1, <1>2, <1>3, PlayingAlone
<1>13. BufferIsBounded' /\ OnlineOnceSynced'
  BY <1>1 DEF IInv, WatchInv, BufferIsBounded, OnlineOnceSynced
<1>14. ShownConnectionIsReal'
  BY <1>1 DEF IInv, WatchInv, ShownConnectionIsReal
<1> QED
  BY <1>7, <1>8, <1>9, <1>10, <1>11, <1>12, <1>13, <1>14 DEF IInv, WatchInv, NetInv

LEMMA ActivateFailsKeepsIInv ==
    ASSUME IInv, ActivateFails
    PROVE  IInv'
<1>1. /\ ~pending /\ nextId <= MaxActions
      /\ previous' = data["playing"] /\ data' = data
      /\ messageId' = 0 /\ nextId' = nextId + 1
      /\ pendingShown' = FALSE /\ feedback' = "HOST OFFLINE" /\ link # "open"
      /\ cache' = [known |-> TRUE, data |-> data'] /\ drawn' = View'
      /\ UNCHANGED <<netVars, hostVars, syncVars, connection, stale, pending, bounds>>
      /\ UNCHANGED <<link, toHost, toWatch, syncing, buffered, revision, accepted, hostRevision>>
  BY DEF ActivateFails, CaptureSync, Draw, syncVars, hostVars, netVars
<1>12. nextId <= MaxActions /\ messageId' = 0 /\ nextId' = nextId + 1
       /\ hostRevision' = hostRevision /\ toHost' = toHost
  BY <1>1
<1>2. cache'.known /\ cache'.data = data'
  BY <1>1
<1>3. /\ data' \in [Leaves -> LeafValues] /\ data'["playing"] \in {"on", "off"}
      /\ \A p \in Leaves \ {"playing"} : data'[p] = data[p]
      /\ data["playing"] \in {"on", "off"}
  BY <1>1, PlayingChanges
<1>4. Typed'
  <2>1. NetTyped'
    BY <1>1, TypeParts DEF IInv, NetTyped
  <2>2. StateTyped'
    BY <1>1, <1>3, TypeParts DEF IInv, StateTyped
  <2>3. ActionTyped'
    <3>1. nextId' \in 1 .. MaxActions + 1 /\ messageId' \in 0 .. MaxActions
      BY <1>12, Ranges
    <3>2. pending' \in BOOLEAN
      BY <1>1, TypeParts DEF IInv, ActionTyped
    <3> QED
      BY <1>1, <1>3, <3>1, <3>2 DEF ActionTyped
  <2>4. SavedTyped'
    BY <1>1, <1>3 DEF SavedTyped, Records
  <2> QED
    BY <1>1, <2>1, <2>2, <2>3, <2>4, TypeParts, TypesUnchanged DEF IInv
<1>5. RevisionsSuffice'
  <2>1. Count(toHost', "action") = Count(toHost, "action")
    BY <1>12
  <2>2. hostRevision + Count(toHost, "action") <= 3 + nextId /\ 1 + Count(toHost, "action") <= nextId
    BY DEF IInv, NetInv, RevisionsSuffice
  <2>3. /\ hostRevision \in Nat /\ nextId \in Nat /\ Count(toHost, "action") \in Nat
    BY Numbers
  <2>4. hostRevision' = hostRevision /\ nextId' = nextId + 1
    BY <1>12
  <2> QED
    BY <2>1, <2>2, <2>3, <2>4 DEF RevisionsSuffice
<1>6. SyncComesFirst' /\ OkIsAccepted' /\ FirstIsSnapshot' /\ OneSnapshot' /\ AnswerComes'
  BY <1>1, <1>2
     DEF IInv, NetInv, SyncComesFirst, OkIsAccepted, FirstIsSnapshot, OneSnapshot, AnswerComes
<1>7. PatchesAreUpdates'
  BY <1>1 DEF IInv, NetInv, PatchesAreUpdates, IsUpdate
<1>8. NothingShown' /\ PendingIsLinked' /\ SavedUnlessSyncing' /\ DrawnUnlessSyncing'
      /\ ConfirmedWasAccepted'
  BY <1>1, <1>2
     DEF NothingShown, PendingIsLinked, SavedUnlessSyncing, RecordIsShown, DrawnUnlessSyncing,
         ScreenIsCurrent, ConfirmedWasAccepted
<1>9. LeavesAreUpdates' /\ LeavesUnlessSyncing'
  BY <1>1, <1>2, <1>3, PlayingAlone
<1>10. BufferIsBounded' /\ OnlineOnceSynced'
  BY <1>1 DEF IInv, WatchInv, BufferIsBounded, OnlineOnceSynced
<1>11. ShownConnectionIsReal'
  BY <1>1 DEF IInv, WatchInv, ShownConnectionIsReal
<1> QED
  BY <1>4, <1>5, <1>6, <1>7, <1>8, <1>9, <1>10, <1>11 DEF IInv, WatchInv, NetInv

LEMMA TimeoutKeepsIInv ==
    ASSUME IInv, Timeout
    PROVE  IInv'
<1>1. /\ pending /\ pending' = FALSE /\ pendingShown' = FALSE /\ feedback' = "ACTION TIMEOUT"
      /\ data' = [data EXCEPT !["playing"] = previous] /\ drawn' = View'
      /\ UNCHANGED <<netVars, hostVars, syncVars, connection, stale, previous, messageId, nextId,
                     cache, bounds>>
      /\ UNCHANGED <<link, toHost, toWatch, syncing, buffered, revision, accepted, hostRevision>>
  BY DEF Timeout, Draw, syncVars, hostVars, netVars
<1>2. cache.known /\ link # "closed"
  BY <1>1 DEF IInv, WatchInv, NothingShown, PendingIsLinked
<1>3. /\ data' \in [Leaves -> LeafValues] /\ data'["playing"] \in {"on", "off"}
      /\ \A p \in Leaves \ {"playing"} : data'[p] = data[p]
  BY <1>1, PlayingChanges
<1>4. Typed'
  <2>1. NetTyped'
    BY <1>1, TypeParts DEF IInv, NetTyped
  <2>2. StateTyped'
    BY <1>1, <1>3, TypeParts DEF IInv, StateTyped
  <2>3. ActionTyped'
    BY <1>1, TypeParts DEF IInv, ActionTyped
  <2> QED
    BY <1>1, <2>1, <2>2, <2>3, TypeParts, TypesUnchanged DEF IInv
<1>5. RevisionsSuffice'
  BY <1>1 DEF IInv, NetInv, RevisionsSuffice
<1>6. SyncComesFirst' /\ OkIsAccepted' /\ FirstIsSnapshot' /\ OneSnapshot' /\ AnswerComes'
  BY <1>1
     DEF IInv, NetInv, SyncComesFirst, OkIsAccepted, FirstIsSnapshot, OneSnapshot, AnswerComes
<1>7. PatchesAreUpdates'
  BY <1>1 DEF IInv, NetInv, PatchesAreUpdates, IsUpdate
<1>8. NothingShown' /\ PendingIsLinked' /\ SavedUnlessSyncing' /\ DrawnUnlessSyncing'
      /\ ConfirmedWasAccepted'
  BY <1>1, <1>2
     DEF NothingShown, PendingIsLinked, SavedUnlessSyncing, RecordIsShown, DrawnUnlessSyncing,
         ScreenIsCurrent, ConfirmedWasAccepted
<1>9. LeavesAreUpdates' /\ LeavesUnlessSyncing'
  BY <1>1, <1>3, PlayingAlone
<1>10. BufferIsBounded' /\ OnlineOnceSynced'
  BY <1>1 DEF IInv, WatchInv, BufferIsBounded, OnlineOnceSynced
<1>11. ShownConnectionIsReal'
  BY <1>1, <1>2 DEF IInv, WatchInv, ShownConnectionIsReal
<1> QED
  BY <1>4, <1>5, <1>6, <1>7, <1>8, <1>9, <1>10, <1>11 DEF IInv, WatchInv, NetInv

\* A start from the file, or from nothing.
LEMMA RestartKeepsIInv ==
    ASSUME SystemInv, Restart
    PROVE  IInv'
<1>1. /\ restarts < MaxRestarts /\ restarts' = restarts + 1 /\ losses' = losses
      /\ link' = "closed" /\ toHost' = <<>> /\ toWatch' = <<>>
      /\ revision' = 0 /\ syncing' = FALSE /\ buffered' = {}
      /\ cache' \in {file, NoRecord}
      /\ data' = IF cache'.known THEN cache'.data ELSE WatchDefault
      /\ connection' = "offline" /\ stale' = cache'.known
      /\ pendingShown' = FALSE /\ feedback' = "" /\ drawn' = View'
      /\ pending' = FALSE /\ previous' = "off" /\ messageId' = 0
      /\ UNCHANGED <<hostVars, nextId>>
  BY DEF Restart, Draw
<1>9. /\ restarts < MaxRestarts /\ restarts' = restarts + 1 /\ losses' = losses
      /\ revision' = 0 /\ messageId' = 0 /\ nextId' = nextId
  BY <1>1
<1>10. IInv /\ DiskInv
  BY DEF SystemInv
<1>2. NetTyped' /\ HostTyped' /\ NetInv'
  BY <1>1, <1>10, SocketClosed
<1>3. /\ cache' \in Records /\ cache'.known \in BOOLEAN /\ cache'.data \in [Leaves -> LeafValues]
      /\ cache'.data["playing"] \in {"on", "off"}
  <2>1. NoRecord \in Records /\ NoRecord.data["playing"] = "off"
    BY Defaults DEF NoRecord, Records
  <2>2. cache' \in Records /\ cache'.data["playing"] \in {"on", "off"}
    BY <1>1, <1>10, <2>1 DEF DiskInv
  <2> QED
    BY <2>2 DEF Records
<1>4. data' \in [Leaves -> LeafValues] /\ data'["playing"] \in {"on", "off"}
  BY <1>1, <1>3, Defaults
<1>5. Typed'
  <2>0. MaxActions \in Nat
    BY SystemAssumption
  <2>1. SyncTyped'
    <3>1. revision' \in 0 .. 4 + MaxActions
      BY <1>9, <2>0
    <3> QED
      BY <1>1, <3>1, EmptyBufferFits DEF SyncTyped
  <2>2. StateTyped'
    BY <1>1, <1>3, <1>4 DEF StateTyped
  <2>3. ActionTyped'
    <3>1. messageId' \in 0 .. MaxActions /\ nextId' \in 1 .. MaxActions + 1
      BY <1>9, <1>10, Ranges
    <3> QED
      BY <1>1, <3>1 DEF ActionTyped
  <2>4. BoundsTyped'
    BY <1>9, <1>10, Ranges DEF BoundsTyped
  <2>5. SavedTyped'
    BY <1>3 DEF SavedTyped
  <2> QED
    BY <1>2, <2>1, <2>2, <2>3, <2>4, <2>5, TypeParts
<1>6. BufferIsBounded' /\ LeavesAreUpdates'
  BY <1>1, <1>3, <1>4, FS_EmptySet DEF BufferIsBounded, LeavesAreUpdates
<1>7. OnlineOnceSynced' /\ PendingIsLinked' /\ LeavesUnlessSyncing' /\ SavedUnlessSyncing'
  BY <1>1
     DEF OnlineOnceSynced, PendingIsLinked, LeavesUnlessSyncing, OnlineLeavesAreHosts,
         SavedUnlessSyncing, RecordIsShown
<1>8. NothingShown' /\ ConfirmedWasAccepted' /\ ShownConnectionIsReal' /\ DrawnUnlessSyncing'
  BY <1>1 DEF NothingShown, ConfirmedWasAccepted, ShownConnectionIsReal,
              DrawnUnlessSyncing, ScreenIsCurrent
<1> QED
  BY <1>2, <1>5, <1>6, <1>7, <1>8 DEF IInv, WatchInv

LEMMA ConnectKeepsIInv ==
    ASSUME IInv, Connect
    PROVE  IInv'
<1>1. /\ link = "closed" /\ link' = "open" /\ toHost' = <<SyncRequest>> /\ toWatch' = <<>>
      /\ hostRevision' = 0 /\ connection' = "connecting" /\ syncing' = TRUE /\ drawn' = View'
      /\ UNCHANGED <<rejecting, hostData, accepted, revision, buffered, data, stale,
                     pendingShown, feedback, actionVars, cache, bounds>>
      /\ UNCHANGED <<pending, messageId, nextId>>
  BY DEF Connect, Draw, actionVars
<1>2. ~pending
  BY <1>1 DEF IInv, WatchInv, PendingIsLinked
<1>3. /\ toWatch' \in Seq(Answers) /\ Members(toWatch') = {}
      /\ Count(toWatch', "snapshot") = 0
  BY <1>1, EmptyQueue
<1>4. /\ toHost' \in Seq(Requests) /\ toHost' # <<>> /\ Head(toHost') = SyncRequest
      /\ Count(toHost', "sync") = 1 /\ Count(toHost', "action") = 0
  <2> DEFINE none == <<>>
  <2>1. toHost' = Append(none, SyncRequest)
    BY <1>1
  <2>2. SyncRequest \in Requests /\ SyncRequest.type = "sync"
    BY FramesAreTyped
  <2>3. /\ none \in Seq(Requests) /\ none = <<>>
        /\ Count(none, "sync") = 0 /\ Count(none, "action") = 0
    BY EmptyQueue
  <2> HIDE DEF none
  <2>4. toHost' \in Seq(Requests) /\ toHost' # <<>> /\ Head(toHost') = SyncRequest
    BY <2>1, <2>2, <2>3, QueueAppend
  <2>5. Count(toHost', "sync") = Count(none, "sync") + 1
    BY <2>1, <2>2, <2>3, CountAppend
  <2>6. Count(toHost', "action") = 0
    BY <2>1, <2>2, <2>3, CountAppendOther
  <2> QED
    BY <2>3, <2>4, <2>5, <2>6
<1>5. Typed'
  <2>1. NetTyped'
    BY <1>1, <1>3, <1>4 DEF NetTyped
  <2>2. HostTyped'
    BY <1>1, Numbers, TypeParts DEF IInv, HostTyped
  <2>3. SyncTyped'
    BY <1>1, TypeParts DEF IInv, SyncTyped, Sync!Mutations
  <2>4. StateTyped'
    BY <1>1, TypeParts DEF IInv, StateTyped
  <2> QED
    BY <1>1, <2>1, <2>2, <2>3, <2>4, TypeParts, TypesUnchanged DEF IInv
<1>6. RevisionsSuffice'
  <2>1. /\ hostRevision \in Nat /\ nextId \in Nat /\ Count(toHost, "action") \in Nat
    BY Numbers
  <2>2. /\ hostRevision + Count(toHost, "action") <= 3 + nextId
        /\ 1 + Count(toHost, "action") <= nextId
    BY DEF IInv, NetInv, RevisionsSuffice
  <2>3. hostRevision' = 0 /\ nextId' = nextId /\ Count(toHost', "action") = 0
    BY <1>1, <1>4
  <2> QED
    BY <2>1, <2>2, <2>3 DEF RevisionsSuffice
<1>7. SyncComesFirst' /\ OneSnapshot' /\ AnswerComes'
  BY <1>1, <1>2, <1>3, <1>4 DEF SyncComesFirst, OneSnapshot, AnswerComes
<1>8. PatchesAreUpdates' /\ OkIsAccepted' /\ FirstIsSnapshot'
  BY <1>1, <1>3, <1>4 DEF PatchesAreUpdates, OkIsAccepted, FirstIsSnapshot, SnapshotFirst
<1>9. BufferIsBounded'
  BY <1>1 DEF IInv, WatchInv, BufferIsBounded
<1>10. LeavesAreUpdates'
  BY <1>1 DEF IInv, WatchInv, LeavesAreUpdates, IsUpdate
<1>11. OnlineOnceSynced' /\ LeavesUnlessSyncing' /\ SavedUnlessSyncing' /\ DrawnUnlessSyncing'
       /\ PendingIsLinked' /\ ShownConnectionIsReal'
  BY <1>1
     DEF OnlineOnceSynced, LeavesUnlessSyncing, OnlineLeavesAreHosts, SavedUnlessSyncing,
         RecordIsShown, DrawnUnlessSyncing, ScreenIsCurrent,
              PendingIsLinked, ShownConnectionIsReal
<1>12. NothingShown' /\ ConfirmedWasAccepted'
  BY <1>1 DEF IInv, WatchInv, NothingShown, ConfirmedWasAccepted
<1> QED
  BY <1>5, <1>6, <1>7, <1>8, <1>9, <1>10, <1>11, <1>12 DEF IInv, WatchInv, NetInv
-----------------------------------------------------------------------------
(* The snapshot.                                                           *)

LEMMA SnapshotKeepsIInv ==
    ASSUME IInv, ReceiveSnapshot
    PROVE  IInv'
<1> DEFINE m == Head(toWatch)
<1>1. toWatch # <<>> /\ m.type = "snapshot" /\ link # "closed"
  BY DEF ReceiveSnapshot, Received
<1>2. m.revision = 0 /\ m.state = HostDefault
  <2>1. m \in Answers
    BY <1>1, Numbers, QueueTail
  <2> QED
    BY <2>1, <1>1, AnswerKinds
<1>3. PICK end \in 0 .. 0 + Capacity :
        LET shown == Sync!Replayed(HostDefault, 0, end)
            rest == Sync!Ahead(end)
        IN /\ Sync!ReplayEndsAt(0, end)
           /\ revision' = end
           /\ \/ /\ rest = {}
                 /\ data' = shown /\ pendingShown' = FALSE /\ feedback' = ""
                 /\ syncing' = FALSE /\ buffered' = {}
                 /\ Changed
                 /\ toWatch' = Tail(toWatch)
                 /\ UNCHANGED <<link, toHost, hostVars, actionVars, bounds>>
                 /\ Draw
              \/ /\ rest # {}
                 /\ RequestSync
                 /\ data' = shown /\ pendingShown' = FALSE /\ feedback' = ""
                 /\ stale' = FALSE
                 /\ syncing' = TRUE /\ buffered' = rest
                 /\ toWatch' = Tail(toWatch)
                 /\ UNCHANGED <<hostVars, connection, drawn, actionVars, cache, bounds>>
              \/ /\ rest # {} /\ link = "broken"
                 /\ GoOffline(shown, FALSE, "")
  BY <1>2 DEF ReceiveSnapshot
<1> DEFINE shown == Sync!Replayed(HostDefault, 0, end)
           rest == Sync!Ahead(end)
<1>4. /\ end \in 0 .. 4 + MaxActions
      /\ shown \in [Leaves -> LeafValues] /\ shown["playing"] \in {"on", "off"}
      /\ \A p \in Leaves \ {"playing"} : \A i \in 1 .. 4 :
            Updates[i].path = p =>
                shown[p] = (IF i <= end THEN Updates[i].value ELSE HostDefault[p])
  <2>1. Typed /\ BufferIsBounded /\ LeavesAreUpdates
    BY DEF IInv, WatchInv
  <2>2. Sync!ReplayEndsAt(0, end)
    BY <1>3
  <2> QED
    BY <2>1, <2>2, ReplayShowsHost
<1>5. rest \subseteq buffered /\ \A b \in rest : b.revision > end
  BY DEF Sync!Ahead
<1>6. rest # {} => cache.known
  <2> SUFFICES ASSUME ~cache.known, NEW b \in rest PROVE FALSE
    BY <1>5, TypeParts DEF IInv
  <2>1. b \in buffered /\ b.revision = 1
    BY <1>5 DEF IInv, WatchInv, NothingShown
  <2>2. end = 0
    BY <2>1, <1>5
  <2>3. end + 1 \notin Sync!BufferedRevisions
    BY <1>3 DEF Sync!ReplayEndsAt
  <2> QED
    BY <2>1, <2>2, <2>3 DEF Sync!BufferedRevisions
<1>7. /\ buffered \subseteq Sync!Mutations /\ Cardinality(buffered) <= Capacity
      /\ IsFiniteSet(buffered)
      /\ \A b \in buffered : b.revision \in 1 .. 4 + MaxActions /\ IsUpdate(b)
      /\ cache.data["playing"] \in {"on", "off"}
  BY TypeParts DEF IInv, WatchInv, BufferIsBounded, LeavesAreUpdates, SyncTyped
<1>8. CASE /\ data' = shown /\ pendingShown' = FALSE /\ feedback' = ""
           /\ syncing' = FALSE /\ buffered' = {}
           /\ Changed
           /\ toWatch' = Tail(toWatch)
           /\ UNCHANGED <<link, toHost, hostVars, actionVars, bounds>>
           /\ Draw
  <2> HIDE DEF shown, rest
  <2>1. /\ connection' = "online" /\ stale' = FALSE /\ drawn' = View'
        /\ cache' = [known |-> TRUE, data |-> data']
        /\ UNCHANGED <<pending, messageId, nextId, accepted>> /\ revision' = end
    BY <1>3, <1>8 DEF Changed, CaptureSync, Draw, actionVars, hostVars
  <2>2. cache'.known /\ cache'.data = data'
    BY <2>1
  <2>3. /\ NetTyped' /\ HostTyped'
        /\ RevisionsSuffice' /\ SyncComesFirst' /\ PatchesAreUpdates' /\ OkIsAccepted'
        /\ AnswerComes'
        /\ Count(toWatch', "snapshot") = Count(toWatch, "snapshot") - 1
    BY <1>1, <1>8, <2>1, FrameTaken
  <2>4. FirstIsSnapshot'
    BY <2>2 DEF FirstIsSnapshot
  <2>5. OneSnapshot'
    <3> SUFFICES ASSUME link = "open"
                 PROVE  Count(toHost, "sync") + Count(toWatch', "snapshot") = 0
      BY <1>8 DEF OneSnapshot
    <3>1. Count(toWatch', "snapshot") \in Nat
      BY <2>3, CountIsNat DEF NetTyped
    <3>2. Count(toHost, "sync") + Count(toWatch, "snapshot") \in {0, 1}
      BY DEF IInv, NetInv, OneSnapshot
    <3>3. Count(toHost, "sync") \in Nat /\ Count(toWatch, "snapshot") \in Nat
      BY Numbers
    <3>4. Count(toWatch', "snapshot") = Count(toWatch, "snapshot") - 1
      BY <2>3
    <3> QED
      BY <3>1, <3>2, <3>3, <3>4
  <2>6. Typed'
    <3>1. SyncTyped'
      BY <1>4, <1>8, <2>1, EmptyBufferFits DEF SyncTyped
    <3>2. StateTyped' /\ SavedTyped'
      BY <1>4, <1>8, <2>1 DEF StateTyped, SavedTyped, Records
    <3> QED
      BY <1>8, <2>3, <3>1, <3>2, TypeParts, TypesUnchanged DEF IInv
  <2>7. BufferIsBounded' /\ LeavesAreUpdates'
    BY <1>4, <1>8, <2>2, FS_EmptySet DEF BufferIsBounded, LeavesAreUpdates
  <2>8. OnlineOnceSynced' /\ NothingShown' /\ ConfirmedWasAccepted' /\ SavedUnlessSyncing'
        /\ DrawnUnlessSyncing'
    BY <1>8, <2>1, <2>2
       DEF OnlineOnceSynced, NothingShown, ConfirmedWasAccepted, SavedUnlessSyncing,
           RecordIsShown, DrawnUnlessSyncing, ScreenIsCurrent
  <2>9. PendingIsLinked' /\ ShownConnectionIsReal'
    BY <1>1, <1>8, <2>1 DEF PendingIsLinked, ShownConnectionIsReal
  <2>10. LeavesUnlessSyncing'
    BY <1>4, <1>8, <2>1 DEF LeavesUnlessSyncing, OnlineLeavesAreHosts
  <2> QED
    BY <2>3, <2>4, <2>5, <2>6, <2>7, <2>8, <2>9, <2>10 DEF IInv, WatchInv, NetInv
<1>9. CASE /\ rest # {}
           /\ RequestSync
           /\ data' = shown /\ pendingShown' = FALSE /\ feedback' = ""
           /\ stale' = FALSE
           /\ syncing' = TRUE /\ buffered' = rest
           /\ toWatch' = Tail(toWatch)
           /\ UNCHANGED <<hostVars, connection, drawn, actionVars, cache, bounds>>
  <2>0. cache.known
    BY <1>6, <1>9
  <2> HIDE DEF shown, rest
  <2>1. /\ UNCHANGED <<pending, messageId, nextId, accepted>> /\ revision' = end
        /\ UNCHANGED <<link, cache>>
        /\ toHost' = IF link = "open" THEN Append(toHost, SyncRequest) ELSE toHost
    BY <1>3, <1>9 DEF actionVars, hostVars, RequestSync
  <2>2. /\ NetTyped' /\ HostTyped'
        /\ RevisionsSuffice' /\ SyncComesFirst' /\ PatchesAreUpdates' /\ OkIsAccepted'
        /\ AnswerComes'
        /\ Count(toWatch', "snapshot") = Count(toWatch, "snapshot") - 1
    BY <1>1, <1>9, <2>1, FrameTaken
  <2>3. FirstIsSnapshot'
    BY <2>0, <2>1 DEF FirstIsSnapshot
  <2>4. OneSnapshot'
    <3> SUFFICES ASSUME link = "open"
                 PROVE  Count(toHost', "sync") + Count(toWatch', "snapshot") = 1
      BY <1>9, <2>1 DEF OneSnapshot
    <3>1. Count(toWatch', "snapshot") \in Nat
      BY <2>2, CountIsNat DEF NetTyped
    <3>2. Count(toHost, "sync") + Count(toWatch, "snapshot") \in {0, 1}
      BY DEF IInv, NetInv, OneSnapshot
    <3>3. Count(toHost, "sync") \in Nat /\ Count(toWatch, "snapshot") \in Nat
      BY Numbers
    <3>4. Count(toWatch', "snapshot") = Count(toWatch, "snapshot") - 1
      BY <2>2
    <3>5. Count(toHost', "sync") = Count(toHost, "sync") + 1
      BY <2>1, FramesAreTyped, Numbers, CountAppend
    <3> QED
      BY <3>1, <3>2, <3>3, <3>4, <3>5
  <2>5. IsFiniteSet(rest) /\ Cardinality(rest) <= Capacity
    <3>1. IsFiniteSet(rest) /\ Cardinality(rest) <= Cardinality(buffered)
      BY <1>5, <1>7, FS_Subset
    <3>2. Cardinality(rest) \in Nat /\ Cardinality(buffered) \in Nat
      BY <1>7, <3>1, FS_CardinalityType
    <3> QED
      BY <1>7, <3>1, <3>2, Numbers
  <2>6. Typed'
    <3>1. SyncTyped'
      BY <1>4, <1>5, <1>7, <1>9, <2>1, <2>5 DEF SyncTyped, Sync!Mutations
    <3>2. StateTyped'
      BY <1>4, <1>9, TypeParts DEF IInv, StateTyped
    <3> QED
      BY <1>9, <2>2, <3>1, <3>2, TypeParts, TypesUnchanged DEF IInv
  <2>7. BufferIsBounded'
    BY <1>5, <1>7, <1>9, <2>5 DEF BufferIsBounded
  <2>8. LeavesAreUpdates'
    <3>1. \A b \in buffered' : IsUpdate(b)
      BY <1>5, <1>7, <1>9
    <3> QED
      BY <1>4, <1>7, <1>9, <2>1, <3>1 DEF LeavesAreUpdates, IsUpdate
  <2>9. OnlineOnceSynced' /\ NothingShown' /\ ConfirmedWasAccepted' /\ SavedUnlessSyncing'
        /\ DrawnUnlessSyncing' /\ LeavesUnlessSyncing'
    BY <1>9, <2>0, <2>1
       DEF OnlineOnceSynced, NothingShown, ConfirmedWasAccepted, SavedUnlessSyncing,
           RecordIsShown, DrawnUnlessSyncing, ScreenIsCurrent,
           LeavesUnlessSyncing, OnlineLeavesAreHosts
  <2>10. PendingIsLinked' /\ ShownConnectionIsReal'
    BY <1>1, <1>9, <2>1 DEF IInv, WatchInv, PendingIsLinked, ShownConnectionIsReal
  <2> QED
    BY <2>2, <2>3, <2>4, <2>6, <2>7, <2>8, <2>9, <2>10 DEF IInv, WatchInv, NetInv
<1>10. CASE rest # {} /\ GoOffline(shown, FALSE, "")
  <2>1. cache.known /\ revision' \in 0 .. 4 + MaxActions
    BY <1>3, <1>4, <1>6, <1>10
  <2> QED
    BY <1>4, <1>10, <2>1, OfflineKeepsIInv
<1> QED
  BY <1>3, <1>8, <1>9, <1>10
-----------------------------------------------------------------------------
(* The invariant, and what it says.                                        *)

LEMMA InitIsInv == Init => SystemInv
<1> SUFFICES ASSUME Init PROVE SystemInv
  OBVIOUS
<1>1. /\ link = "closed" /\ toHost = <<>> /\ toWatch = <<>>
      /\ rejecting \in RejectModes
      /\ hostRevision = 0 /\ hostData = HostDefault /\ accepted = {}
      /\ revision = 0 /\ syncing = FALSE /\ buffered = {}
      /\ data = WatchDefault /\ connection = "offline" /\ stale = FALSE
      /\ pendingShown = FALSE /\ feedback = "" /\ drawn = View
      /\ pending = FALSE /\ previous = "off" /\ messageId = 0 /\ nextId = 1
      /\ cache = [known |-> FALSE, data |-> WatchDefault]
      /\ file = cache /\ saveFailed = FALSE /\ failedSaves = 0
      /\ losses = 0 /\ restarts = 0
  BY DEF Init, NoRecord
<1>11. /\ hostRevision = 0 /\ revision = 0 /\ messageId = 0 /\ nextId = 1
       /\ losses = 0 /\ restarts = 0
  BY <1>1
<1>12. toWatch = <<>>
  BY <1>1
<1>2. MaxActions \in Nat /\ MaxLosses \in Nat /\ MaxRestarts \in Nat
  BY SystemAssumption
<1>3. toHost \in Seq(Requests) /\ toWatch \in Seq(Answers) /\ Members(toWatch) = {}
      /\ Count(toHost, "action") = 0
  BY <1>1, EmptyQueue
<1>4. Typed
  <2>1. NetTyped
    BY <1>1, <1>3 DEF NetTyped
  <2>2. HostTyped
    <3>1. rejecting \in BOOLEAN
      BY <1>1, SystemAssumption
    <3>2. hostRevision \in 0 .. 4 + MaxActions
      BY <1>2, <1>11
    <3> QED
      BY <1>1, <3>1, <3>2, Defaults DEF HostTyped
  <2>3. SyncTyped
    <3>1. revision \in 0 .. 4 + MaxActions
      BY <1>2, <1>11
    <3> QED
      BY <1>1, <3>1, EmptyBufferFits DEF SyncTyped
  <2>4. StateTyped /\ SavedTyped
    BY <1>1, Defaults DEF StateTyped, SavedTyped, Records
  <2>5. ActionTyped
    <3>1. messageId \in 0 .. MaxActions /\ nextId \in 1 .. MaxActions + 1
      BY <1>2, <1>11
    <3> QED
      BY <1>1, <3>1 DEF ActionTyped
  <2>6. BoundsTyped
    BY <1>2, <1>11 DEF BoundsTyped
  <2> QED
    BY <2>1, <2>2, <2>3, <2>4, <2>5, <2>6, TypeParts
<1>5. BufferIsBounded /\ LeavesAreUpdates
  BY <1>1, FS_EmptySet, Defaults DEF BufferIsBounded, LeavesAreUpdates
<1>6. OnlineOnceSynced /\ NothingShown /\ PendingIsLinked /\ ConfirmedWasAccepted
      /\ ShownConnectionIsReal
  BY <1>1 DEF OnlineOnceSynced, NothingShown, PendingIsLinked, ConfirmedWasAccepted,
              ShownConnectionIsReal
<1>7. LeavesUnlessSyncing /\ SavedUnlessSyncing /\ DrawnUnlessSyncing
  BY <1>1
     DEF LeavesUnlessSyncing, OnlineLeavesAreHosts, SavedUnlessSyncing, RecordIsShown,
         DrawnUnlessSyncing, ScreenIsCurrent
<1>8. RevisionsSuffice
  <2>1. hostRevision = 0 /\ nextId = 1
    BY <1>1
  <2> QED
    BY <2>1, <1>3 DEF RevisionsSuffice
<1>9. SyncComesFirst /\ OneSnapshot /\ AnswerComes
  BY <1>1 DEF SyncComesFirst, OneSnapshot, AnswerComes
<1>10. PatchesAreUpdates /\ OkIsAccepted /\ FirstIsSnapshot
  BY <1>3, <1>12 DEF PatchesAreUpdates, OkIsAccepted, FirstIsSnapshot, SnapshotFirst
<1>13. DiskInv
  <2>1. MaxFailedSaves \in Nat /\ failedSaves = 0
    BY <1>1, SystemAssumption
  <2>2. failedSaves \in 0 .. MaxFailedSaves
    BY <2>1
  <2>3. file \in Records /\ file.data["playing"] = "off"
    BY <1>1, Defaults DEF Records
  <2> QED
    BY <1>1, <2>2, <2>3 DEF DiskInv
<1> QED
  BY <1>4, <1>5, <1>6, <1>7, <1>8, <1>9, <1>10, <1>13 DEF SystemInv, IInv, WatchInv, NetInv

\* A step that leaves the queues alone and changes nothing that is said of them.
LEMMA QueuesUnchanged ==
    ASSUME IInv, UNCHANGED <<link, toHost, toWatch, hostRevision, accepted, syncing, pending,
                             messageId, nextId, cache>>
    PROVE  NetInv'
<1>1. PatchesAreUpdates'
  BY DEF IInv, NetInv, PatchesAreUpdates, IsUpdate
<1>2. RevisionsSuffice' /\ SyncComesFirst'
  BY DEF IInv, NetInv, RevisionsSuffice, SyncComesFirst
<1>3. OkIsAccepted' /\ FirstIsSnapshot' /\ OneSnapshot' /\ AnswerComes'
  BY DEF IInv, NetInv, OkIsAccepted, FirstIsSnapshot, OneSnapshot, AnswerComes
<1> QED
  BY <1>1, <1>2, <1>3 DEF NetInv

\* A turned page is drawn with everything else.
LEMMA TurnPageKeepsIInv ==
    ASSUME IInv, TurnPage
    PROVE  IInv'
<1>1. /\ UNCHANGED <<netVars, hostVars, syncVars, actionVars, cache, bounds>>
      /\ UNCHANGED <<data, connection, stale, pendingShown, feedback>>
      /\ UNCHANGED <<link, toHost, toWatch, hostRevision, accepted>>
      /\ UNCHANGED <<revision, syncing, buffered, pending, messageId, nextId>>
      /\ drawn' = View'
  BY DEF TurnPage, Draw, netVars, hostVars, syncVars, actionVars
<1>2. Typed'
  <2>1. NetTyped' /\ StateTyped'
    BY <1>1, TypeParts DEF IInv, NetTyped, StateTyped
  <2> QED
    BY <1>1, <2>1, TypeParts, TypesUnchanged DEF IInv
<1>3. WatchInv'
  <2> USE DEF IInv, WatchInv
  <2>1. BufferIsBounded' /\ LeavesAreUpdates'
    BY <1>1 DEF BufferIsBounded, LeavesAreUpdates, IsUpdate
  <2>2. OnlineOnceSynced' /\ NothingShown' /\ PendingIsLinked'
    BY <1>1 DEF OnlineOnceSynced, NothingShown, PendingIsLinked
  <2>3. ConfirmedWasAccepted' /\ ShownConnectionIsReal'
    BY <1>1 DEF ConfirmedWasAccepted, ShownConnectionIsReal
  <2>4. LeavesUnlessSyncing'
    BY <1>1 DEF LeavesUnlessSyncing, OnlineLeavesAreHosts
  <2>5. SavedUnlessSyncing' /\ DrawnUnlessSyncing'
    BY <1>1 DEF SavedUnlessSyncing, RecordIsShown, DrawnUnlessSyncing, ScreenIsCurrent
  <2> QED
    BY <2>1, <2>2, <2>3, <2>4, <2>5
<1>4. NetInv'
  BY <1>1, QueuesUnchanged
<1> QED
  BY <1>2, <1>3, <1>4 DEF IInv

LEMMA StutterKeepsIInv ==
    ASSUME IInv, UNCHANGED vars
    PROVE  IInv'
<1>1. /\ UNCHANGED <<link, toHost, toWatch, hostVars, syncVars, stateVars, actionVars, cache,
                     bounds>>
      /\ UNCHANGED <<hostRevision, accepted, syncing, pending, messageId, nextId>>
  BY DEF vars, netVars, hostVars, syncVars, actionVars
<1>2. Typed'
  <2>1. NetTyped'
    BY <1>1, TypeParts DEF IInv, NetTyped
  <2> QED
    BY <1>1, <2>1, TypeParts, TypesUnchanged DEF IInv
<1>3. WatchInv'
  BY <1>1, WatchUnchanged
<1>4. NetInv'
  BY <1>1, QueuesUnchanged
<1> QED
  BY <1>2, <1>3, <1>4 DEF IInv

LEMMA NextKeepsIInv == SystemInv /\ [Next]_vars => IInv'
<1> SUFFICES ASSUME SystemInv, [Next]_vars PROVE IInv'
  OBVIOUS
<1>0. IInv
  BY DEF SystemInv
<1>1. CASE HostSyncs
  BY <1>0, <1>1, HostSyncsKeepsIInv
<1>2. CASE HostAnswers
  BY <1>0, <1>2, HostAnswersKeepsIInv
<1>3. CASE LinkBreaks
  BY <1>0, <1>3, LinkBreaksKeepsIInv
<1>4. CASE Connect
  BY <1>0, <1>4, ConnectKeepsIInv
<1>5. CASE NoticeClosed
  BY <1>0, <1>5, NoticeClosedKeepsIInv
<1>6. CASE WatchReceives
  BY <1>0, <1>6, IgnoredKeepsIInv, PatchBufferedKeepsIInv, PatchAheadKeepsIInv, PatchNextKeepsIInv,
     SnapshotKeepsIInv, ResultSettlesKeepsIInv DEF WatchReceives
<1>7. CASE ActivateSent
  BY <1>0, <1>7, ActivateSentKeepsIInv
<1>8. CASE ActivateFails
  BY <1>0, <1>8, ActivateFailsKeepsIInv
<1>9. CASE Timeout
  BY <1>0, <1>9, TimeoutKeepsIInv
<1>10. CASE Restart
  BY <1>10, RestartKeepsIInv
<1>11. CASE Idle \/ UNCHANGED vars
  BY <1>0, <1>11, StutterKeepsIInv DEF Idle
<1>12. CASE TurnPage
  BY <1>0, <1>12, TurnPageKeepsIInv
<1> QED
  BY <1>1, <1>2, <1>3, <1>4, <1>5, <1>6, <1>7, <1>8, <1>9, <1>10, <1>11, <1>12 DEF Next

\* What a step does to the file: a save, in whatever state it is made, or nothing,
\* and then the record in memory is as it was or nothing is promised of it.
LEMMA DiskSteps ==
    ASSUME Next
    PROVE  \/ Save
           \/ UNCHANGED diskVars /\ (connection' # "online" \/ UNCHANGED <<cache, connection>>)
           \/ Restart
<1>1. ASSUME NEW d, NEW shown, NEW f, GoOffline(d, shown, f)
      PROVE  connection' = "offline" /\ (Save \/ UNCHANGED diskVars)
  BY <1>1 DEF GoOffline, SaveStale
<1>2. CASE HostSyncs \/ HostAnswers \/ LinkBreaks \/ Connect \/ Timeout \/ Idle
  BY <1>2 DEF HostSyncs, HostAnswers, LinkBreaks, Connect, Timeout, Idle, stateVars, vars
<1>3. CASE ActivateSent \/ ActivateFails \/ TurnPage \/ PatchNext \/ ResultSettles
  BY <1>3 DEF ActivateSent, ActivateFails, TurnPage, PatchNext, ResultSettles, Changed
<1>4. CASE NoticeClosed
  BY <1>1, <1>4 DEF NoticeClosed
<1>5. CASE PatchIgnored \/ ResultIgnored
  BY <1>5 DEF PatchIgnored, ResultIgnored, stateVars
<1>6. CASE PatchBuffered
  BY <1>1, <1>6 DEF PatchBuffered, stateVars
<1>7. CASE PatchAhead
  BY <1>1, <1>7 DEF PatchAhead, stateVars
<1>8. CASE ReceiveSnapshot
  <2>1. PICK d, shown : \/ Changed
                        \/ UNCHANGED <<connection, cache, diskVars>>
                        \/ GoOffline(d, shown, "")
    BY <1>8 DEF ReceiveSnapshot
  <2> QED
    BY <1>1, <2>1 DEF Changed
<1> QED
  BY <1>2, <1>3, <1>4, <1>5, <1>6, <1>7, <1>8 DEF Next, WatchReceives

LEMMA NextKeepsInv == SystemInv /\ [Next]_vars => SystemInv'
<1> SUFFICES ASSUME SystemInv, [Next]_vars PROVE DiskInv'
  BY NextKeepsIInv DEF SystemInv
<1>1. IInv' /\ DiskInv
  BY NextKeepsIInv DEF SystemInv
<1>2. cache' \in Records /\ cache'.data["playing"] \in {"on", "off"}
  BY <1>1, TypeParts DEF IInv, SavedTyped, WatchInv, LeavesAreUpdates
<1>3. CASE Save
  <2>1. failedSaves' \in 0 .. MaxFailedSaves
    BY <1>1, <1>3, SystemAssumption DEF Save, DiskInv
  <2> QED
    BY <1>1, <1>2, <1>3, <2>1 DEF Save, DiskInv
<1>4. CASE UNCHANGED diskVars /\ (connection' # "online" \/ UNCHANGED <<cache, connection>>)
  BY <1>1, <1>4 DEF DiskInv, diskVars
<1>5. CASE Restart
  BY <1>1, <1>5 DEF Restart, DiskInv
<1>6. CASE UNCHANGED vars
  BY <1>1, <1>6 DEF vars, stateVars, diskVars, DiskInv
<1> QED
  BY <1>3, <1>4, <1>5, <1>6, DiskSteps

LEMMA Invariance == Spec => []SystemInv
  BY InitIsInv, NextKeepsInv, PTL DEF Spec

\* Every variable of the watch, the host and the connection keeps its type; above
\* all, the host's revisions and the buffer stay within their bounds.
THEOREM TypeCorrect == Spec => []TypeOK
<1>1. SystemInv => TypeOK
  <2> SUFFICES ASSUME SystemInv PROVE TypeOK
    OBVIOUS
  <2>1. IInv /\ DiskInv
    BY DEF SystemInv
  <2>2. NetTyped /\ HostTyped /\ SyncTyped /\ StateTyped /\ ActionTyped /\ SavedTyped /\ BoundsTyped
    BY <2>1, TypeParts DEF IInv
  <2> QED
    BY <2>1, <2>2
       DEF TypeOK, NetTyped, HostTyped, SyncTyped, StateTyped, ActionTyped, SavedTyped,
           BoundsTyped, DiskInv
<1> QED
  BY <1>1, Invariance, PTL

\* On a connection that stands, exactly one snapshot is asked for or on its way
\* while the watch synchronizes, and none otherwise.
THEOREM OneSnapshotUnderway == Spec => []SnapshotUnderway
<1>1. SystemInv => SnapshotUnderway
  <2> SUFFICES ASSUME SystemInv, link = "open"
               PROVE  InFlight("sync") + InFlight("snapshot") = (IF syncing THEN 1 ELSE 0)
    BY DEF SnapshotUnderway
  <2>0. IInv
    BY DEF SystemInv
  <2>1. Count(toWatch, "sync") = 0 /\ Count(toHost, "snapshot") = 0
    BY <2>0, Numbers, NoStrayKinds
  <2>2. Count(toHost, "sync") + Count(toWatch, "snapshot") = (IF syncing THEN 1 ELSE 0)
    BY <2>0 DEF IInv, NetInv, OneSnapshot
  <2>3. Count(toHost, "sync") \in Nat /\ Count(toWatch, "snapshot") \in Nat
    BY <2>0, Numbers
  <2>4. InFlight("sync") = Count(toHost, "sync") /\ InFlight("snapshot") = Count(toWatch, "snapshot")
    BY <2>1, <2>3 DEF InFlight
  <2> QED
    BY <2>2, <2>4
<1> QED
  BY <1>1, Invariance, PTL

\* A pending action is never orphaned: its message or its answer is on a
\* connection that stands, and it ends with the connection.
THEOREM PendingIsAnswered == Spec => []PendingWillBeAnswered
<1>1. SystemInv => PendingWillBeAnswered
  BY DEF SystemInv, IInv, WatchInv, NetInv, PendingIsLinked, AnswerComes, PendingWillBeAnswered, Members
<1> QED
  BY <1>1, Invariance, PTL

\* "HOST CONFIRMED" is never shown for an action the host did not accept.
THEOREM ConfirmedIsAccepted == Spec => []ConfirmedWasAccepted
<1>1. SystemInv => ConfirmedWasAccepted
  BY DEF SystemInv, IInv, WatchInv
<1> QED
  BY <1>1, Invariance, PTL

\* The connection shown is that of the socket, and data of a host or of a record
\* is never shown as fresh without one.
THEOREM ConnectionIsReal == Spec => []ShownConnectionIsReal
<1>1. SystemInv => ShownConnectionIsReal
  BY DEF SystemInv, IInv, WatchInv
<1> QED
  BY <1>1, Invariance, PTL
=============================================================================
