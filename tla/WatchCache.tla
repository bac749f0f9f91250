----------------------------- MODULE WatchCache -----------------------------
(***************************************************************************)
(* The watch's persistent cache: the record (watch/src/cache/watch_cache.c)*)
(* as the runtime fills it (watch_runtime.c), its file and the temporary   *)
(* file beside it (watch_cache_storage.c), and the two cursors that go     *)
(* with it: the screen (navigation.c) and the notification shown           *)
(* (watch_state.c).  A process can end between any two steps of a save and *)
(* the next one starts from what is on disk.                               *)
(*                                                                         *)
(* What synchronization makes of the host's messages is an input here:     *)
(* WatchSync says which state it is.  The leaves other than the list of    *)
(* notifications are one value, without music.playing, which WatchSystem   *)
(* follows into the record.                                                *)
(***************************************************************************)
EXTENDS Integers

CONSTANTS
    Default,       \* host-owned leaves after watch_state_init
    HostData,      \* values a host gives them
    MaxNotes,      \* WATCH_NOTIFICATION_CAPACITY
    ScreenCount,   \* WATCH_SCREEN_COUNT
    Nothing, Torn  \* no file, and one that is not a whole record

ASSUME CacheAssumption ==
    Default \notin HostData /\ MaxNotes \in Nat \ {0} /\ ScreenCount \in Nat \ 0 .. 2

Leaves == HostData \cup {Default}
\* enum watch_screen, as far as the runtime tells screens apart.
Home == 0
Notifications == 1
Music == 2

VARIABLES
    leaves,      \* the host-owned leaves of struct watch_state but the list
    notes,       \* notifications.stored_count
    index,       \* notifications.active_index
    screen,      \* active_screen, and the top of the navigation stack
    stale,       \* host_data_stale
    connected,   \* socket_fd >= 0
    syncing,     \* sync_state.syncing: connected and no snapshot yet, or a gap
    cache,       \* the record in memory
    file,        \* what is at cache_path
    temporary,   \* what is at cache_path with ".tmp"
    saving,      \* control in watch_cache_storage_save: "no", "opened", "written"
    captured     \* history: the host's data shown goes back to a synchronization
                 \* of this process, or to the record it started from

shown == <<leaves, notes, index>>
disk == <<file, temporary>>
link == <<connected, syncing>>
vars == <<leaves, notes, index, screen, stale, connected, syncing, cache,
          file, temporary, saving, captured>>

\* struct watch_cache_record.  The metadata of weather, activity, notifications
\* and music always move together, so one flag each stands for `version > 0`
\* (synced) and for `stale`; `positioned` is application_meta.version > 0.
\* A sealed record is intact: its checksum fails only when it was torn.
Records ==
    [synced : BOOLEAN, stale : BOOLEAN, positioned : BOOLEAN,
     leaves : Leaves, notes : 0 .. MaxNotes, index : 0 .. MaxNotes - 1,
     screen : 0 .. ScreenCount - 1]

\* watch_cache_init.
Empty == [synced |-> FALSE, stale |-> FALSE, positioned |-> FALSE,
          leaves |-> Default, notes |-> 0, index |-> 0, screen |-> Home]

ASSUME FilesAssumption == Nothing # Torn /\ {Nothing, Torn} \cap Records = {}

TypeOK ==
    /\ leaves \in Leaves
    /\ notes \in 0 .. MaxNotes
    /\ index \in 0 .. MaxNotes - 1
    /\ screen \in 0 .. ScreenCount - 1
    /\ stale \in BOOLEAN
    /\ connected \in BOOLEAN
    /\ syncing \in BOOLEAN
    /\ cache \in Records
    /\ file \in Records \cup {Nothing, Torn}
    /\ temporary \in Records \cup {Nothing, Torn}
    /\ saving \in {"no", "opened", "written"}
    /\ captured \in BOOLEAN
-----------------------------------------------------------------------------
\* Mutant of watch_cache_valid: the cursor is not compared with the list.
Valid_AnyIndex(r) == r \notin {Nothing, Torn}

\* watch_cache_valid, on what watch_cache_storage_load has read.
Valid(r) ==
    /\ r \notin {Nothing, Torn}
    /\ \/ r.notes = 0 /\ r.index = 0
       \/ r.index < r.notes

\* Mutant of watch_runtime_run's start: the data is as stale as the record says.
Start_StaleAsRecorded ==
    \E loaded \in {file, Nothing} :
        LET usable == Valid(loaded)
            restored == usable /\ loaded.synced
        IN /\ cache' = IF usable THEN loaded ELSE Empty
           /\ leaves' = IF restored THEN loaded.leaves ELSE Default
           /\ notes' = IF restored THEN loaded.notes ELSE 0
           /\ index' = IF restored THEN loaded.index ELSE 0
           /\ screen' = IF usable /\ loaded.positioned THEN loaded.screen ELSE Home
           /\ stale' = (restored /\ loaded.stale)
           /\ connected' = FALSE /\ syncing' = FALSE
           /\ saving' = "no"
           /\ captured' = restored

\* watch_runtime_run's start: load, restore or begin with an empty record.  A load
\* that fails is a load of nothing.
Start ==
    \E loaded \in {file, Nothing} :
        LET usable == Valid(loaded)
            restored == usable /\ loaded.synced
        IN /\ cache' = IF usable THEN loaded ELSE Empty
           /\ leaves' = IF restored THEN loaded.leaves ELSE Default
           /\ notes' = IF restored THEN loaded.notes ELSE 0
           /\ index' = IF restored THEN loaded.index ELSE 0
           /\ screen' = IF usable /\ loaded.positioned THEN loaded.screen ELSE Home
           /\ stale' = restored
           /\ connected' = FALSE /\ syncing' = FALSE
           /\ saving' = "no"
           /\ captured' = restored

Init ==
    /\ leaves = Default /\ notes = 0 /\ index = 0
    /\ screen = Home
    /\ stale = FALSE
    /\ connected = FALSE /\ syncing = FALSE
    /\ cache = Empty
    /\ file = Nothing /\ temporary = Nothing
    /\ saving = "no"
    /\ captured = FALSE

\* Mutant of watch_cache_storage_save: the file itself is opened for writing.
BeginSave_InPlace ==
    /\ \/ file' = Torn /\ temporary' = Torn /\ saving' = "opened"
       \/ UNCHANGED disk /\ saving' = "no"

\* watch_cache_storage_save, called with the record in cache': fopen truncates
\* the temporary file, or fails.
BeginSave ==
    /\ \/ temporary' = Torn /\ saving' = "opened"
       \/ UNCHANGED temporary /\ saving' = "no"
    /\ UNCHANGED file

Running == saving = "no"

\* fwrite, fflush and fclose, or the removal after one of them has failed.
Write ==
    /\ saving = "opened"
    /\ \/ temporary' = cache /\ saving' = "written"
       \/ temporary' = Nothing /\ saving' = "no"
    /\ UNCHANGED <<shown, screen, stale, link, cache, file, captured>>

\* rename, or the removal after it has failed.
Rename ==
    /\ saving = "written"
    /\ temporary' = Nothing
    /\ file' \in {temporary, file}
    /\ saving' = "no"
    /\ UNCHANGED <<shown, screen, stale, link, cache, captured>>

\* The process ends, in a save or not, and is started again.
Restart ==
    /\ Start
    /\ UNCHANGED disk

Connect ==
    /\ Running /\ ~connected
    /\ connected' = TRUE /\ syncing' = TRUE
    /\ UNCHANGED <<shown, screen, stale, cache, disk, saving, captured>>

\* watch_cache_capture_sync.
CaptureSync ==
    cache' = [cache EXCEPT !.synced = TRUE, !.stale = FALSE,
                           !.leaves = leaves', !.notes = notes', !.index = index']

\* watch_cache_capture_application.
CaptureApplication ==
    cache' = [cache EXCEPT !.positioned = TRUE, !.screen = screen', !.index = index']

\* A snapshot or a list of notifications begins at the first one.
NewList == notes' \in 0 .. MaxNotes /\ index' = 0

\* A snapshot that leaves no gap (WATCH_SYNC_CHANGED).
Snapshot ==
    /\ leaves' \in HostData /\ NewList
    /\ syncing' = FALSE

\* A mutation in its turn: a list, or another leaf.
Patch ==
    /\ ~syncing
    /\ \/ NewList /\ UNCHANGED leaves
       \/ leaves' \in HostData /\ UNCHANGED <<notes, index>>
    /\ UNCHANGED syncing

\* handle_protocol_message on WATCH_SYNC_CHANGED.
Synchronized ==
    /\ Running /\ connected
    /\ (Snapshot \/ Patch)
    /\ stale' = FALSE
    /\ CaptureSync
    /\ BeginSave
    /\ captured' = TRUE
    /\ UNCHANGED <<screen, connected>>

\* A mutation ahead of its turn: WATCH_SYNC_NEEDS_SNAPSHOT.
GapSeen ==
    /\ Running /\ connected /\ ~syncing
    /\ syncing' = TRUE
    /\ UNCHANGED <<shown, screen, stale, connected, cache, disk, saving, captured>>

\* A snapshot after which a gap remains is WATCH_SYNC_NEEDS_SNAPSHOT, too: the
\* state is shown, but not captured.
SnapshotWithGap ==
    /\ Running /\ connected
    /\ leaves' \in HostData /\ NewList
    /\ stale' = FALSE
    /\ syncing' = TRUE
    /\ UNCHANGED <<screen, connected, cache, disk, saving, captured>>

\* watch_cache_mark_stale, when there is a record to mark.
MarkStale == cache' = [cache EXCEPT !.stale = TRUE]

\* TRANSPORT_EVENT_DISCONNECTED, watch_cache_mark_stale and a save, if there is
\* anything to mark.
Disconnect ==
    /\ Running /\ connected
    /\ connected' = FALSE /\ syncing' = FALSE
    /\ IF cache.synced
       THEN /\ stale' = TRUE
            /\ MarkStale
            /\ BeginSave
       ELSE UNCHANGED <<stale, cache, disk, saving>>
    /\ UNCHANGED <<shown, screen, captured>>

\* A press of play/pause that begins an action, online or not, or the result of
\* one: the runtime captures and saves.
MusicAction ==
    /\ Running
    /\ (screen = Music \/ connected)
    /\ UNCHANGED <<shown, screen, stale, link, captured>>
    /\ CaptureSync
    /\ BeginSave

\* handle_action on a change of screen or notification: capture and save.
Moved ==
    /\ CaptureApplication
    /\ BeginSave
    /\ UNCHANGED <<leaves, notes, stale, link, captured>>

\* navigation_next and navigation_previous, around the ring of screens.
Navigate ==
    /\ Running
    /\ screen' \in {(screen + 1) % ScreenCount, (screen + ScreenCount - 1) % ScreenCount}
    /\ UNCHANGED index
    /\ Moved

\* Mutant of watch_state_notification_next: one past the end.
NextItem_PastEnd ==
    /\ Running /\ screen = Notifications
    /\ index < notes
    /\ index' = index + 1
    /\ UNCHANGED screen
    /\ Moved

\* watch_state_notification_next and watch_state_notification_previous.
NextItem ==
    /\ Running /\ screen = Notifications
    /\ index + 1 < notes
    /\ index' = index + 1
    /\ UNCHANGED screen
    /\ Moved

PreviousItem ==
    /\ Running /\ screen = Notifications
    /\ index > 0
    /\ index' = index - 1
    /\ UNCHANGED screen
    /\ Moved

Next ==
    \/ Write \/ Rename \/ Restart
    \/ Connect \/ Synchronized \/ GapSeen \/ SnapshotWithGap \/ Disconnect
    \/ MusicAction \/ Navigate \/ NextItem \/ PreviousItem

Spec == Init /\ [][Next]_vars
-----------------------------------------------------------------------------
\* The notification cursor always names a stored notification (the renderer
\* reads entries[active_index]), through new lists, swipes, captures that mix
\* the cursor of one list with the length of another, and restarts from a
\* record so made (watch_cache.c, watch_state.c).
CursorInRange == index = 0 \/ index < notes

\* The file is replaced by the record in memory or not at all, at whatever step
\* of a save the process ends and whichever of its calls fail: a restart never
\* meets a torn file, and resumes from the last save that succeeded
\* (watch_cache_storage_save).
FileIsReplacedWhole == [][file' # file => file' = cache]_vars

\* Once a synchronization has been captured, by this process or in the record it
\* started from, the watch is not offline with its data unmarked: through every
\* later gap, reconnection that ends before its snapshot, press and failed save
\* (watch_cache_restore, handle_transport_event).  A snapshot that left a gap
\* before anything was captured is not covered: with no record to mark, the
\* connection's end leaves what it showed unmarked (watch_runtime.c:97).
OfflineIsMarked == captured /\ ~connected => stale

\* What the tests assert after every capture (watch/tests/navigation_test.c:69),
\* of the record the runtime saves: it is valid, so that a restart can use it.
SavedIsValid == file # Nothing => Valid(file)

=============================================================================
