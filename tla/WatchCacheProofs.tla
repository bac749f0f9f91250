-------------------------- MODULE WatchCacheProofs --------------------------
(***************************************************************************)
(* Proofs about WatchCache for every capacity, number of screens and set   *)
(* of host data.  A record is checked when it is loaded and at no other    *)
(* time, so the invariant says of the record, the file and the temporary   *)
(* file only their types, and that a save has written the record that is   *)
(* in memory; the cursor's range is kept by the shown state alone.  What was  *)
(* captured is in the record, which is why the end of a connection finds   *)
(* something to mark.                                                      *)
(***************************************************************************)
EXTENDS WatchCache, TLAPS

\* A save in progress has a temporary file: torn, then the record in memory.
SavesTheRecord == saving = "written" => temporary = cache

\* A synchronization that was captured is in the record in memory: it is what
\* the end of a connection asks of it.
CapturedIsKept == captured => cache.synced

MarkInv == CapturedIsKept /\ OfflineIsMarked

IInv == TypeOK /\ CursorInRange /\ SavesTheRecord


USE DEF Leaves, Home, Notifications, Music

\* watch_cache_init makes a record.
LEMMA EmptyIsRecord == Empty \in Records
  BY CacheAssumption DEF Empty, Records

\* The state of a first start satisfies the invariant.
LEMMA InitIInv == Init => IInv
  BY EmptyIsRecord, CacheAssumption
  DEF Init, IInv, TypeOK, CursorInRange, SavesTheRecord, Empty, Records

\* A start from whatever is on disk satisfies it, because an invalid record is
\* not used.
LEMMA StartKeepsIInv == IInv /\ Restart => IInv'
<1> SUFFICES ASSUME IInv, Restart PROVE IInv'
  OBVIOUS
<1> USE DEF IInv
<1>1. PICK loaded \in {file, Nothing} :
        /\ cache' = IF Valid(loaded) THEN loaded ELSE Empty
        /\ leaves' = IF Valid(loaded) /\ loaded.synced THEN loaded.leaves ELSE Default
        /\ notes' = IF Valid(loaded) /\ loaded.synced THEN loaded.notes ELSE 0
        /\ index' = IF Valid(loaded) /\ loaded.synced THEN loaded.index ELSE 0
        /\ screen' = IF Valid(loaded) /\ loaded.positioned THEN loaded.screen ELSE Home
        /\ stale' = (Valid(loaded) /\ loaded.synced)
        /\ connected' = FALSE /\ syncing' = FALSE
        /\ saving' = "no"
        /\ captured' = (Valid(loaded) /\ loaded.synced)
  BY DEF Restart, Start
<1>2. Valid(loaded) => loaded \in Records /\ (loaded.index = 0 \/ loaded.index < loaded.notes)
  BY CacheAssumption DEF Valid, TypeOK, Records
<1>3. /\ cache' \in Records
      /\ leaves' \in Leaves /\ notes' \in 0 .. MaxNotes /\ index' \in 0 .. MaxNotes - 1
      /\ screen' \in 0 .. ScreenCount - 1
      /\ index' = 0 \/ index' < notes'
  BY <1>1, <1>2, EmptyIsRecord, CacheAssumption DEF Records
<1>4. stale' \in BOOLEAN /\ captured' \in BOOLEAN
  BY <1>1, <1>2 DEF Records
<1>5. file' = file /\ temporary' = temporary
  BY DEF Restart, disk
<1> QED
  BY <1>1, <1>3, <1>4, <1>5
  DEF TypeOK, CursorInRange, SavesTheRecord

\* A start keeps the marks: what it restores it marks.
LEMMA StartMarks == IInv /\ Restart => MarkInv'
<1> SUFFICES ASSUME IInv, Restart PROVE MarkInv'
  OBVIOUS
<1>1. PICK loaded \in {file, Nothing} :
        /\ cache' = IF Valid(loaded) THEN loaded ELSE Empty
        /\ stale' = (Valid(loaded) /\ loaded.synced)
        /\ captured' = (Valid(loaded) /\ loaded.synced)
  BY DEF Restart, Start
<1> QED
  BY <1>1 DEF MarkInv, CapturedIsKept, OfflineIsMarked

\* A save that begins leaves the files typed and is not yet written.
LEMMA BeginSaveKeeps ==
  ASSUME TypeOK, BeginSave
  PROVE  /\ file' \in Records \cup {Nothing, Torn}
         /\ temporary' \in Records \cup {Nothing, Torn}
         /\ saving' \in {"no", "opened"}
  BY DEF TypeOK, BeginSave

\* A capture of a typed state yields a record.
LEMMA CapturesAreRecords ==
  ASSUME TypeOK, leaves' \in Leaves, notes' \in 0 .. MaxNotes,
         index' \in 0 .. MaxNotes - 1, screen' \in 0 .. ScreenCount - 1
  PROVE  /\ CaptureSync => cache' \in Records
         /\ CaptureApplication => cache' \in Records
  BY DEF TypeOK, CaptureSync, CaptureApplication, Records

\* What comes over the link, online or as the end of it.
LEMMA LinkKeepsIInv ==
  IInv /\ (Connect \/ Synchronized \/ GapSeen \/ SnapshotWithGap \/ Disconnect) => IInv'
<1> SUFFICES ASSUME IInv, Connect \/ Synchronized \/ GapSeen \/ SnapshotWithGap \/ Disconnect
             PROVE IInv'
  OBVIOUS
<1> USE DEF IInv
<1>1. CASE Connect
  BY <1>1 DEF Connect, Running, TypeOK, CursorInRange, SavesTheRecord, shown, disk
<1>2. CASE Synchronized
  <2>1. /\ leaves' \in Leaves /\ notes' \in 0 .. MaxNotes /\ index' \in 0 .. MaxNotes - 1
        /\ index' = 0 \/ index' < notes'
    BY <1>2, CacheAssumption
    DEF Synchronized, Snapshot, Patch, NewList, TypeOK, CursorInRange
  <2>2. /\ stale' = FALSE /\ connected' \in BOOLEAN /\ syncing' \in BOOLEAN
        /\ captured' = TRUE
        /\ screen' \in 0 .. ScreenCount - 1
    BY <1>2 DEF Synchronized, Snapshot, Patch, TypeOK
  <2>3. cache' \in Records
    BY <1>2, <2>1, <2>2, CapturesAreRecords DEF Synchronized
  <2>4. /\ file' \in Records \cup {Nothing, Torn}
        /\ temporary' \in Records \cup {Nothing, Torn}
        /\ saving' \in {"no", "opened"}
    BY <1>2, BeginSaveKeeps DEF Synchronized
  <2> QED
    BY <2>1, <2>2, <2>3, <2>4 DEF TypeOK, CursorInRange, SavesTheRecord
<1>3. CASE GapSeen
  BY <1>3 DEF GapSeen, Running, TypeOK, CursorInRange, SavesTheRecord, shown, disk
<1>4. CASE SnapshotWithGap
  <2>1. leaves' \in Leaves /\ notes' \in 0 .. MaxNotes /\ index' = 0 /\ index' \in 0 .. MaxNotes - 1
    BY <1>4, CacheAssumption DEF SnapshotWithGap, NewList
  <2>2. /\ stale' = FALSE /\ syncing' = TRUE
        /\ UNCHANGED <<screen, connected, cache, disk, saving, captured>>
    BY <1>4 DEF SnapshotWithGap
  <2> QED
    BY <2>1, <2>2 DEF TypeOK, CursorInRange, SavesTheRecord, disk
<1>5. CASE Disconnect
  <2>1. /\ connected' = FALSE /\ syncing' = FALSE /\ UNCHANGED <<shown, screen, captured>>
    BY <1>5 DEF Disconnect
  <2>2. CASE cache.synced
    <3>1. stale' = TRUE /\ cache' = [cache EXCEPT !.stale = TRUE] /\ BeginSave
      BY <1>5, <2>2 DEF Disconnect, MarkStale
    <3>2. cache' \in Records
      BY <3>1 DEF TypeOK, Records
    <3> QED
      BY <2>1, <3>1, <3>2, BeginSaveKeeps DEF TypeOK, CursorInRange, SavesTheRecord, shown
  <2>3. CASE ~cache.synced
    <3>1. UNCHANGED <<stale, cache, disk, saving>>
      BY <1>5, <2>3 DEF Disconnect
    <3> QED
      BY <2>1, <3>1 DEF TypeOK, CursorInRange, SavesTheRecord, shown, disk
  <2> QED
    BY <2>2, <2>3
<1> QED
  BY <1>1, <1>2, <1>3, <1>4, <1>5

\* What the wearer does.
LEMMA WearerKeepsIInv ==
  IInv /\ (MusicAction \/ Navigate \/ NextItem \/ PreviousItem) => IInv'
<1> SUFFICES ASSUME IInv, MusicAction \/ Navigate \/ NextItem \/ PreviousItem PROVE IInv'
  OBVIOUS
<1> USE DEF IInv
<1>1. (CaptureSync \/ CaptureApplication) /\ BeginSave
  BY DEF MusicAction, Navigate, NextItem, PreviousItem, Moved
<1>2. UNCHANGED <<leaves, notes, stale, link, captured>>
  BY DEF MusicAction, Navigate, NextItem, PreviousItem, Moved, shown
<1>3. screen' \in 0 .. ScreenCount - 1
  <2>1. CASE Navigate
    BY <2>1, CacheAssumption DEF Navigate, TypeOK
  <2>2. CASE MusicAction \/ NextItem \/ PreviousItem
    BY <2>2 DEF MusicAction, NextItem, PreviousItem, TypeOK
  <2> QED
    BY <2>1, <2>2
<1>4. index' \in 0 .. MaxNotes - 1 /\ (index' = 0 \/ index' < notes')
  <2>1. CASE MusicAction \/ Navigate
    BY <2>1, <1>2 DEF MusicAction, Navigate, shown, TypeOK, CursorInRange
  <2>2. CASE NextItem \/ PreviousItem
    BY <2>2, <1>2, CacheAssumption DEF NextItem, PreviousItem, TypeOK, CursorInRange
  <2> QED
    BY <2>1, <2>2
<1>5. cache' \in Records
  BY <1>1, <1>2, <1>3, <1>4, CapturesAreRecords DEF TypeOK
<1>6. /\ file' \in Records \cup {Nothing, Torn}
      /\ temporary' \in Records \cup {Nothing, Torn}
      /\ saving' \in {"no", "opened"}
  BY <1>1, BeginSaveKeeps
<1> QED
  BY <1>2, <1>3, <1>4, <1>5, <1>6 DEF TypeOK, CursorInRange, SavesTheRecord, link

\* The steps of a save after the first.
LEMMA SavingKeepsIInv == IInv /\ (Write \/ Rename) => IInv'
  BY DEF IInv, Write, Rename, TypeOK, CursorInRange, SavesTheRecord, shown, link

\* Every step keeps the marks.  Only a synchronization clears one, online; the
\* end of a connection sets it if there is a record, and a record that was once
\* synchronized stays so through every capture.
LEMMA StepMarks == IInv /\ MarkInv /\ [Next]_vars => MarkInv'
<1> SUFFICES ASSUME IInv, MarkInv, [Next]_vars PROVE MarkInv'
  OBVIOUS
<1> USE DEF MarkInv, CapturedIsKept, OfflineIsMarked
<1>1. CASE Restart
  BY <1>1, StartMarks
<1>2. CASE Write \/ Rename
  BY <1>2 DEF Write, Rename, link
<1>3. CASE Connect \/ GapSeen \/ SnapshotWithGap
  BY <1>3 DEF Connect, GapSeen, SnapshotWithGap
<1>4. CASE Synchronized
  <2>1. connected' = TRUE
    BY <1>4 DEF Synchronized, IInv, TypeOK
  <2>2. cache'.synced
    BY <1>4 DEF Synchronized, CaptureSync, IInv, TypeOK, Records
  <2> QED
    BY <2>1, <2>2
<1>5. CASE Disconnect
  <2>1. captured' = captured
    BY <1>5 DEF Disconnect
  <2>2. CASE cache.synced
    BY <1>5, <2>1, <2>2 DEF Disconnect, MarkStale, IInv, TypeOK, Records
  <2>3. CASE ~cache.synced
    BY <1>5, <2>1, <2>3 DEF Disconnect
  <2> QED
    BY <2>2, <2>3
<1>6. CASE MusicAction \/ Navigate \/ NextItem \/ PreviousItem
  <2>1. UNCHANGED <<stale, connected, captured>>
    BY <1>6 DEF MusicAction, Navigate, NextItem, PreviousItem, Moved, link
  <2>2. CaptureSync \/ CaptureApplication
    BY <1>6 DEF MusicAction, Navigate, NextItem, PreviousItem, Moved
  <2>3. cache.synced => cache'.synced
    BY <2>2 DEF CaptureSync, CaptureApplication, IInv, TypeOK, Records
  <2> QED
    BY <2>1, <2>3
<1>7. CASE UNCHANGED vars
  BY <1>7 DEF vars
<1> QED
  BY <1>1, <1>2, <1>3, <1>4, <1>5, <1>6, <1>7 DEF Next

\* The invariant holds in every reachable state.
THEOREM Invariance == Spec => []IInv
<1>1. Init => IInv
  BY InitIInv
<1>2. IInv /\ [Next]_vars => IInv'
  <2> SUFFICES ASSUME IInv, [Next]_vars PROVE IInv'
    OBVIOUS
  <2>1. CASE Write \/ Rename
    BY <2>1, SavingKeepsIInv
  <2>2. CASE Restart
    BY <2>2, StartKeepsIInv
  <2>3. CASE Connect \/ Synchronized \/ GapSeen \/ SnapshotWithGap \/ Disconnect
    BY <2>3, LinkKeepsIInv
  <2>4. CASE MusicAction \/ Navigate \/ NextItem \/ PreviousItem
    BY <2>4, WearerKeepsIInv
  <2>5. CASE UNCHANGED vars
    BY <2>5 DEF vars, IInv, TypeOK, CursorInRange, SavesTheRecord
  <2> QED
    BY <2>1, <2>2, <2>3, <2>4, <2>5 DEF Next
<1> QED
  BY <1>1, <1>2, PTL DEF Spec

\* The types of the shown state, the record and the files hold in every
\* reachable state.
THEOREM TypeCorrect == Spec => []TypeOK
  BY Invariance, PTL DEF IInv

\* The notification cursor names a stored notification, whatever record a
\* restart began from.
THEOREM CursorSafe == Spec => []CursorInRange
  BY Invariance, PTL DEF IInv

\* Wherever a process ends and whichever call fails, the file only ever changes
\* to the record in memory as a whole.
THEOREM SavesAreWhole == Spec => FileIsReplacedWhole
<1>1. IInv /\ [Next]_vars => (file' # file => file' = cache)
  <2> SUFFICES ASSUME IInv, [Next]_vars, file' # file PROVE file' = cache
    OBVIOUS
  <2>1. Rename
    BY DEF Next, vars, Write, Restart, Connect, Synchronized, GapSeen, SnapshotWithGap,
           Disconnect, MusicAction, Navigate, NextItem, PreviousItem, Moved, BeginSave, disk
  <2> QED
    BY <2>1 DEF Rename, IInv, SavesTheRecord
<1> QED
  BY <1>1, Invariance, PTL DEF Spec, FileIsReplacedWhole

\* Once a synchronization has been captured, no start, disconnection, gap or
\* press leaves the watch offline with its data unmarked.
THEOREM NeverFreshOffline == Spec => []OfflineIsMarked
<1>1. Init => MarkInv
  BY DEF Init, MarkInv, CapturedIsKept, OfflineIsMarked
<1> QED
  BY <1>1, StepMarks, Invariance, PTL DEF Spec, MarkInv
=============================================================================
