----------------------------- MODULE WatchSystem -----------------------------
(***************************************************************************)
(* The watch and its host together: the runtime loop of the watch          *)
(* (watch_runtime.c) with its transport, synchronization service,          *)
(* optimistic music action, cache record and what the renderer last drew,  *)
(* and the connection handler of the host (server.rs), joined by one TCP   *)
(* connection that can break, with a user who toggles the music and a      *)
(* watch that can restart.                                                 *)
(*                                                                         *)
(* hello, capabilities, ping and pong change no state on either side and   *)
(* are left out.  A frame of the host is delivered in the order it was     *)
(* written, some time later, or lost with the connection; the host's       *)
(* simulated latency is part of that "some time later".                    *)
(***************************************************************************)
EXTENDS Integers, Sequences, FiniteSets

CONSTANTS
    Capacity,      \* WATCH_SYNC_BUFFER_CAPACITY
    RejectModes,   \* values CMF_HOST_REJECT_ACTIONS may have
    MaxActions,    \* bound on the presses of play/pause
    MaxLosses,     \* bound on the failures of a connection
    MaxRestarts,   \* bound on the restarts of the watch
    MaxFailedSaves \* bound on the saves that fail

ASSUME SystemAssumption ==
    /\ Capacity \in Nat \ {0}
    /\ RejectModes \subseteq BOOLEAN
    /\ MaxActions \in Nat /\ MaxLosses \in Nat /\ MaxRestarts \in Nat /\ MaxFailedSaves \in Nat

\* The host-owned leaves server.rs writes, and the values they take.
Leaves == {"temperature", "steps", "title", "playing"}
LeafValues == {"28", "26", "24", "7421", "9000", "9632", "Nothing playing",
               "Ready to play", "Localhost Radio", "off", "on"}

Leaf(temperature, steps, title, playing) ==
    [p \in Leaves |-> CASE p = "temperature" -> temperature [] p = "steps" -> steps
                        [] p = "title" -> title [] p = "playing" -> playing]

\* watch_state_init, and the host's default_state.
WatchDefault == Leaf("28", "7421", "Nothing playing", "off")
HostDefault == Leaf("26", "9000", "Ready to play", "off")

\* synchronization_updates.
Patch(r, p, v) == [type |-> "patch", revision |-> r, path |-> p, value |-> v]
Updates == <<Patch(1, "temperature", "24"), Patch(2, "steps", "9632"),
             Patch(3, "title", "Localhost Radio"), Patch(4, "playing", "on")>>
Synchronized == Leaf("24", "9632", "Localhost Radio", "on")

\* response_for a sync_request.
Snapshot == [type |-> "snapshot", revision |-> 0, state |-> HostDefault]

SyncRequest == [type |-> "sync"]
Action(id, v) == [type |-> "action", id |-> id, value |-> v]
Result(id, ok) == [type |-> "result", id |-> id, ok |-> ok]

Toggle(v) == IF v = "on" THEN "off" ELSE "on"

VARIABLES
    link,          \* the watch's socket: "closed", "open", or "broken" unnoticed
    toHost,        \* frames written by the watch, not yet read by the host
    toWatch,       \* frames written by the host, not yet read by the watch
    rejecting,     \* reject_actions of the host
    hostRevision,  \* current_revision of the connection's handler
    hostData,      \* history: the state the host has announced last
    accepted,      \* history: the actions the host has accepted
    revision,      \* sync_state.revision
    syncing,       \* sync_state.syncing
    buffered,      \* sync_state.buffered
    data,          \* the host-owned leaves of state
    connection,    \* state.connection
    stale,         \* state.host_data_stale
    pendingShown,  \* state.music_action_pending
    feedback,      \* state.music_action_feedback
    drawn,         \* what the renderer has put on the display
    pending,       \* actions.pending
    previous,      \* actions.previous_music_playing
    messageId,     \* actions.message_id
    nextId,        \* id of the next press; one that sends nothing has an id, too
    cache,         \* the cache record in memory: known iff its versions are > 0
    file,          \* the record at cache_path
    saveFailed,    \* history: the last save of this process failed
    losses, restarts, failedSaves

netVars == <<link, toHost, toWatch>>
hostVars == <<rejecting, hostRevision, hostData, accepted>>
syncVars == <<revision, syncing, buffered>>
stateVars == <<data, connection, stale, pendingShown, feedback, drawn>>
actionVars == <<pending, previous, messageId, nextId>>
diskVars == <<file, saveFailed, failedSaves>>
bounds == <<losses, restarts>>
vars == <<netVars, hostVars, syncVars, stateVars, actionVars, cache, diskVars, bounds>>

\* The buffer of the synchronization service, by the definitions of WatchSync.
Sync == INSTANCE WatchSync WITH
    Paths <- Leaves, Values <- LeafValues, MaxRevision <- 0,
    WatchDefaults <- WatchDefault, HostDefaults <- {HostDefault},
    log <- <<>>, hist <- <<>>, connected <- link # "closed", asked <- 0, installed <- TRUE

Mutation(m) == [revision |-> m.revision, path |-> m.path, value |-> m.value]

\* render_home and render_app: what the pages show of the state, all of them in
\* one picture (turning a page draws as well, and changes nothing else here).
View ==
    [temperature |-> data["temperature"], steps |-> data["steps"], cached |-> stale,
     status |-> CASE connection = "online" -> "HOST SYNCED"
                  [] connection # "online" /\ stale -> "CACHE / STALE"
                  [] OTHER -> "OFFLINE READY",
     headline |-> data["title"],
     detail |-> IF feedback # "" THEN feedback
                ELSE IF data["playing"] = "on" THEN "TAP TO PAUSE" ELSE "TAP TO PLAY"]

\* renderer_refresh and renderer_render, at the end of a handler.
Draw == drawn' = View'

\* The host-owned part of struct watch_cache_record, and watch_cache_init's.
Records == [known : BOOLEAN, data : [Leaves -> LeafValues]]
NoRecord == [known |-> FALSE, data |-> WatchDefault]

\* The frames either side writes.
Requests == {SyncRequest} \cup {Action(i, v) : i \in 1 .. MaxActions, v \in {"on", "off"}}
Answers == {Patch(r, p, v) : r \in 1 .. 4 + MaxActions, p \in Leaves, v \in LeafValues}
           \cup {Snapshot} \cup {Result(i, ok) : i \in 1 .. MaxActions, ok \in BOOLEAN}

TypeOK ==
    /\ link \in {"closed", "open", "broken"}
    /\ toHost \in Seq(Requests) /\ toWatch \in Seq(Answers)
    /\ rejecting \in BOOLEAN
    /\ hostRevision \in 0 .. 4 + MaxActions
    /\ hostData \in [Leaves -> LeafValues]
    /\ accepted \subseteq 1 .. MaxActions
    /\ revision \in 0 .. 4 + MaxActions
    /\ syncing \in BOOLEAN
    /\ buffered \subseteq Sync!Mutations /\ Cardinality(buffered) <= Capacity
    /\ data \in [Leaves -> LeafValues]
    /\ connection \in {"offline", "connecting", "online"}
    /\ stale \in BOOLEAN
    /\ pendingShown \in BOOLEAN
    /\ feedback \in {"", "SYNCING ACTION", "HOST CONFIRMED", "ACTION REJECTED",
                     "ACTION TIMEOUT", "HOST OFFLINE"}
    /\ pending \in BOOLEAN
    /\ previous \in {"on", "off"}
    /\ messageId \in 0 .. MaxActions
    /\ nextId \in 1 .. MaxActions + 1
    /\ cache \in Records /\ file \in Records
    /\ saveFailed \in BOOLEAN
    /\ losses \in 0 .. MaxLosses /\ restarts \in 0 .. MaxRestarts
    /\ failedSaves \in 0 .. MaxFailedSaves

Init ==
    /\ link = "closed" /\ toHost = <<>> /\ toWatch = <<>>
    /\ rejecting \in RejectModes
    /\ hostRevision = 0 /\ hostData = HostDefault /\ accepted = {}
    /\ revision = 0 /\ syncing = FALSE /\ buffered = {}
    /\ data = WatchDefault /\ connection = "offline" /\ stale = FALSE
    /\ pendingShown = FALSE /\ feedback = "" /\ drawn = View
    /\ pending = FALSE /\ previous = "off" /\ messageId = 0 /\ nextId = 1
    /\ cache = NoRecord /\ file = NoRecord /\ saveFailed = FALSE
    /\ losses = 0 /\ restarts = 0 /\ failedSaves = 0
-----------------------------------------------------------------------------
(* The host: one connection at a time, handle_connection.                  *)

\* Mutant: current_revision is advanced by the updates sent, not set.
HostSyncs_RevisionAdded ==
    /\ link = "open" /\ toHost # <<>> /\ Head(toHost) = SyncRequest
    /\ toHost' = Tail(toHost)
    /\ toWatch' = toWatch \o <<Updates[1], Snapshot, Updates[2], Updates[3], Updates[4]>>
    /\ hostRevision' = hostRevision + 4
    /\ hostData' = Synchronized
    /\ UNCHANGED <<link, rejecting, accepted, syncVars, stateVars, actionVars, cache,
                   diskVars, bounds>>

\* Mutant: the update sent before the snapshot is the second.
HostSyncs_SecondFirst ==
    /\ link = "open" /\ toHost # <<>> /\ Head(toHost) = SyncRequest
    /\ toHost' = Tail(toHost)
    /\ toWatch' = toWatch \o <<Updates[2], Snapshot, Updates[1], Updates[3], Updates[4]>>
    /\ hostRevision' = 4
    /\ hostData' = Synchronized
    /\ UNCHANGED <<link, rejecting, accepted, syncVars, stateVars, actionVars, cache,
                   diskVars, bounds>>

\* A sync_request: patch 1, the snapshot of revision 0, patches 2 to 4; and
\* current_revision starts again from 4.
HostSyncs ==
    /\ link = "open" /\ toHost # <<>> /\ Head(toHost) = SyncRequest
    /\ toHost' = Tail(toHost)
    /\ toWatch' = toWatch \o <<Updates[1], Snapshot, Updates[2], Updates[3], Updates[4]>>
    /\ hostRevision' = 4
    /\ hostData' = Synchronized
    /\ UNCHANGED <<link, rejecting, accepted, syncVars, stateVars, actionVars, cache,
                   diskVars, bounds>>

\* An action: a command_result and, when accepted, the authoritative patch.
HostAnswers ==
    /\ link = "open" /\ toHost # <<>> /\ Head(toHost).type = "action"
    /\ toHost' = Tail(toHost)
    /\ LET action == Head(toHost) IN
         IF rejecting
         THEN /\ toWatch' = Append(toWatch, Result(action.id, FALSE))
              /\ UNCHANGED <<hostRevision, hostData, accepted>>
         ELSE /\ toWatch' = toWatch \o <<Result(action.id, TRUE),
                                        Patch(hostRevision + 1, "playing", action.value)>>
              /\ hostRevision' = hostRevision + 1
              /\ hostData' = [hostData EXCEPT !["playing"] = action.value]
              /\ accepted' = accepted \cup {action.id}
    /\ UNCHANGED <<link, rejecting, syncVars, stateVars, actionVars, cache, diskVars, bounds>>

\* The host exits, closes the connection, or the network drops it.  What it has
\* written may still arrive; what it has not read is lost.
LinkBreaks ==
    /\ link = "open" /\ losses < MaxLosses
    /\ losses' = losses + 1
    /\ link' = "broken"
    /\ toHost' = <<>>
    /\ UNCHANGED <<toWatch, hostVars, syncVars, stateVars, actionVars, cache, diskVars, restarts>>
-----------------------------------------------------------------------------
(* The watch.                                                              *)

\* watch_cache_capture_sync.
CaptureSync == cache' = [known |-> TRUE, data |-> data']

\* watch_cache_storage_save of the record in cache', whose result every caller
\* discards.  It fails where fopen, fwrite, fflush, fclose or rename does, or the
\* process ends before the rename (and then Restart follows): the file stays as it
\* was.  WatchCache has these calls one by one.
Save ==
    \/ /\ file' = cache'
       /\ saveFailed' = FALSE
       /\ UNCHANGED failedSaves
    \/ /\ failedSaves < MaxFailedSaves /\ failedSaves' = failedSaves + 1
       /\ saveFailed' = TRUE
       /\ UNCHANGED file

\* watch_cache_mark_stale and the save after it, when host data has been captured:
\* a start shows it as stale whatever the record's marks say, so they are left out.
SaveStale == IF cache.known THEN Save ELSE UNCHANGED diskVars

\* connect_if_due, TRANSPORT_EVENT_CONNECTED, send_bootstrap; on the host's side
\* a new handle_connection.
Connect ==
    /\ link = "closed"
    /\ link' = "open" /\ toHost' = <<SyncRequest>> /\ toWatch' = <<>>
    /\ hostRevision' = 0
    /\ connection' = "connecting"
    /\ syncing' = TRUE
    /\ UNCHANGED <<rejecting, hostData, accepted, revision, buffered, data, stale,
                   pendingShown, feedback, actionVars, cache, diskVars, bounds>>
    /\ Draw

\* Mutants: a pending action is not failed; host data is not marked stale.
GoOffline_PendingKept(d, shown, f) ==
    /\ link' = "closed" /\ toHost' = <<>> /\ toWatch' = <<>>
    /\ data' = d /\ pendingShown' = shown /\ feedback' = f
    /\ connection' = "offline"
    /\ syncing' = FALSE /\ buffered' = {}
    /\ stale' = (stale \/ cache.known)
    /\ UNCHANGED <<hostVars, actionVars, cache, bounds>>
    /\ SaveStale
    /\ Draw

GoOffline_NotStale(d, shown, f) ==
    /\ link' = "closed" /\ toHost' = <<>> /\ toWatch' = <<>>
    /\ data' = IF pending THEN [d EXCEPT !["playing"] = previous] ELSE d
    /\ pendingShown' = (shown /\ ~pending)
    /\ feedback' = IF pending THEN "HOST OFFLINE" ELSE f
    /\ pending' = FALSE
    /\ connection' = "offline"
    /\ syncing' = FALSE /\ buffered' = {}
    /\ UNCHANGED <<stale, hostVars, previous, messageId, nextId, cache, bounds>>
    /\ SaveStale
    /\ Draw

\* disconnect() and TRANSPORT_EVENT_DISCONNECTED, from a state with leaves d,
\* indicator `shown` and feedback f.
GoOffline(d, shown, f) ==
    /\ link' = "closed" /\ toHost' = <<>> /\ toWatch' = <<>>
    /\ data' = IF pending THEN [d EXCEPT !["playing"] = previous] ELSE d
    /\ pendingShown' = (shown /\ ~pending)
    /\ feedback' = IF pending THEN "HOST OFFLINE" ELSE f
    /\ pending' = FALSE
    /\ connection' = "offline"
    /\ syncing' = FALSE /\ buffered' = {}
    /\ stale' = (stale \/ cache.known)
    /\ UNCHANGED <<hostVars, previous, messageId, nextId, cache, bounds>>
    /\ SaveStale
    /\ Draw

\* transport_poll finds the connection closed.
NoticeClosed ==
    /\ link = "broken"
    /\ GoOffline(data, pendingShown, feedback)
    /\ UNCHANGED revision

Received(type) == link # "closed" /\ toWatch # <<>> /\ Head(toWatch).type = type

\* transport_request_sync on a socket that is not closed: a broken one may still
\* take the frame, for nobody.
RequestSync ==
    /\ toHost' = IF link = "open" THEN Append(toHost, SyncRequest) ELSE toHost
    /\ UNCHANGED link

\* WATCH_SYNC_CHANGED.
Changed ==
    /\ connection' = "online"
    /\ stale' = FALSE
    /\ CaptureSync /\ Save

PatchIgnored ==
    /\ Received("patch") /\ Head(toWatch).revision <= revision
    /\ toWatch' = Tail(toWatch)
    /\ UNCHANGED <<link, toHost, hostVars, syncVars, stateVars, actionVars, cache,
                   diskVars, bounds>>

PatchBuffered ==
    /\ Received("patch") /\ Head(toWatch).revision > revision /\ syncing
    /\ LET m == Mutation(Head(toWatch)) IN
         IF Sync!HasRoom(m)
         THEN /\ buffered' = Sync!BufferWith(m)
              /\ toWatch' = Tail(toWatch)
              /\ UNCHANGED <<link, toHost, hostVars, revision, syncing, stateVars, actionVars,
                             cache, diskVars, bounds>>
         ELSE GoOffline(data, pendingShown, feedback) /\ UNCHANGED revision

\* Mutants: no sync_request for a gap; a sync_request, but no synchronization.
PatchAhead_NoRequest ==
    /\ Received("patch") /\ Head(toWatch).revision > revision + 1 /\ ~syncing
    /\ syncing' = TRUE
    /\ buffered' = Sync!BufferWith(Mutation(Head(toWatch)))
    /\ toWatch' = Tail(toWatch)
    /\ UNCHANGED <<link, toHost, hostVars, revision, stateVars, actionVars, cache,
                   diskVars, bounds>>

PatchAhead_NotSyncing ==
    /\ Received("patch") /\ Head(toWatch).revision > revision + 1 /\ ~syncing
    /\ RequestSync
    /\ buffered' = Sync!BufferWith(Mutation(Head(toWatch)))
    /\ toWatch' = Tail(toWatch)
    /\ UNCHANGED <<syncing, hostVars, revision, stateVars, actionVars, cache, diskVars, bounds>>

\* A gap: buffered, and a snapshot is asked for; the request fails only on a
\* broken connection, and then the connection ends.
PatchAhead ==
    /\ Received("patch") /\ Head(toWatch).revision > revision + 1 /\ ~syncing
    /\ \/ /\ RequestSync
          /\ syncing' = TRUE
          /\ buffered' = Sync!BufferWith(Mutation(Head(toWatch)))
          /\ toWatch' = Tail(toWatch)
          /\ UNCHANGED <<hostVars, revision, stateVars, actionVars, cache, diskVars, bounds>>
       \/ /\ link = "broken"
          /\ GoOffline(data, pendingShown, feedback)
          /\ UNCHANGED revision

\* Mutant: any newer revision is applied.
PatchNext_AnyNewer ==
    /\ Received("patch") /\ Head(toWatch).revision > revision /\ ~syncing
    /\ toWatch' = Tail(toWatch)
    /\ data' = [data EXCEPT ![Head(toWatch).path] = Head(toWatch).value]
    /\ revision' = Head(toWatch).revision
    /\ Changed
    /\ UNCHANGED <<link, toHost, hostVars, syncing, buffered, pendingShown, feedback,
                   actionVars, bounds>>
    /\ Draw

PatchNext ==
    /\ Received("patch") /\ Head(toWatch).revision = revision + 1 /\ ~syncing
    /\ toWatch' = Tail(toWatch)
    /\ data' = [data EXCEPT ![Head(toWatch).path] = Head(toWatch).value]
    /\ revision' = Head(toWatch).revision
    /\ Changed
    /\ UNCHANGED <<link, toHost, hostVars, syncing, buffered, pendingShown, feedback,
                   actionVars, bounds>>
    /\ Draw

\* A sync_response.  parse_snapshot resets every host-owned field first, the
\* indicator and the feedback of a pending action among them.  With a gap left it
\* is neither captured nor drawn.
ReceiveSnapshot ==
    /\ Received("snapshot")
    /\ LET n == Head(toWatch).revision
           d == Head(toWatch).state
       IN \E end \in n .. n + Capacity :
            LET shown == Sync!Replayed(d, n, end)
                rest == Sync!Ahead(end)
            IN /\ Sync!ReplayEndsAt(n, end)
               /\ revision' = end
               /\ \/ /\ rest = {}
                     /\ data' = shown /\ pendingShown' = FALSE /\ feedback' = ""
                     /\ syncing' = FALSE /\ buffered' = {}
                     /\ Changed
                     /\ toWatch' = Tail(toWatch)
                     /\ UNCHANGED <<link, toHost, hostVars, actionVars, bounds>>
                     /\ Draw
                  \/ /\ rest # {}
                     /\ RequestSync
                     /\ data' = shown /\ pendingShown' = FALSE /\ feedback' = ""
                     /\ stale' = FALSE
                     /\ syncing' = TRUE /\ buffered' = rest
                     /\ toWatch' = Tail(toWatch)
                     /\ UNCHANGED <<hostVars, connection, drawn, actionVars, cache,
                                    diskVars, bounds>>
                  \/ /\ rest # {} /\ link = "broken"
                     /\ GoOffline(shown, FALSE, "")

\* A command_result: watch_actions_handle_result, then capture and save.
ResultIgnored ==
    /\ Received("result") /\ ~(pending /\ Head(toWatch).id = messageId)
    /\ toWatch' = Tail(toWatch)
    /\ UNCHANGED <<link, toHost, hostVars, syncVars, stateVars, actionVars, cache,
                   diskVars, bounds>>

\* Mutant: reply_to is not compared with message_id.
ResultSettles_AnyReply ==
    /\ Received("result") /\ pending
    /\ toWatch' = Tail(toWatch)
    /\ pending' = FALSE /\ pendingShown' = FALSE
    /\ IF Head(toWatch).ok
       THEN feedback' = "HOST CONFIRMED" /\ UNCHANGED data
       ELSE /\ feedback' = "ACTION REJECTED"
            /\ data' = [data EXCEPT !["playing"] = previous]
    /\ CaptureSync /\ Save
    /\ UNCHANGED <<link, toHost, hostVars, syncVars, connection, stale, previous, messageId,
                   nextId, bounds>>
    /\ Draw

\* Mutant: the result is shown, but not captured.
ResultSettles_NotSaved ==
    /\ Received("result") /\ pending /\ Head(toWatch).id = messageId
    /\ toWatch' = Tail(toWatch)
    /\ pending' = FALSE /\ pendingShown' = FALSE
    /\ IF Head(toWatch).ok
       THEN feedback' = "HOST CONFIRMED" /\ UNCHANGED data
       ELSE /\ feedback' = "ACTION REJECTED"
            /\ data' = [data EXCEPT !["playing"] = previous]
    /\ UNCHANGED <<link, toHost, hostVars, syncVars, connection, stale, previous, messageId,
                   nextId, cache, diskVars, bounds>>
    /\ Draw

ResultSettles ==
    /\ Received("result") /\ pending /\ Head(toWatch).id = messageId
    /\ toWatch' = Tail(toWatch)
    /\ pending' = FALSE /\ pendingShown' = FALSE
    /\ IF Head(toWatch).ok
       THEN feedback' = "HOST CONFIRMED" /\ UNCHANGED data
       ELSE /\ feedback' = "ACTION REJECTED"
            /\ data' = [data EXCEPT !["playing"] = previous]
    /\ CaptureSync /\ Save
    /\ UNCHANGED <<link, toHost, hostVars, syncVars, connection, stale, previous, messageId,
                   nextId, bounds>>
    /\ Draw

WatchReceives ==
    \/ PatchIgnored \/ PatchBuffered \/ PatchAhead \/ PatchNext
    \/ ReceiveSnapshot
    \/ ResultIgnored \/ ResultSettles

\* RENDERER_ACTION_ACTIVATE on the music screen: the optimistic toggle, the
\* send, and capture and save whether or not the send succeeded.
ActivateSent ==
    /\ ~pending /\ nextId <= MaxActions
    /\ link # "closed"
    /\ previous' = data["playing"]
    /\ data' = [data EXCEPT !["playing"] = Toggle(@)]
    /\ pending' = TRUE /\ pendingShown' = TRUE /\ feedback' = "SYNCING ACTION"
    /\ messageId' = nextId /\ nextId' = nextId + 1
    /\ toHost' = IF link = "open" THEN Append(toHost, Action(nextId, data'["playing"])) ELSE toHost
    /\ CaptureSync /\ Save
    /\ UNCHANGED <<link, toWatch, hostVars, syncVars, connection, stale, bounds>>
    /\ Draw

ActivateFails ==
    /\ ~pending /\ nextId <= MaxActions
    /\ link # "open"
    /\ previous' = data["playing"]
    /\ messageId' = 0 /\ nextId' = nextId + 1
    /\ pendingShown' = FALSE /\ feedback' = "HOST OFFLINE"
    /\ UNCHANGED data
    /\ CaptureSync /\ Save
    /\ UNCHANGED <<netVars, hostVars, syncVars, connection, stale, pending, bounds>>
    /\ Draw

\* Mutant: the loop does not draw what the timeout changed.
Timeout_NotDrawn ==
    /\ pending
    /\ pending' = FALSE /\ pendingShown' = FALSE /\ feedback' = "ACTION TIMEOUT"
    /\ data' = [data EXCEPT !["playing"] = previous]
    /\ UNCHANGED <<netVars, hostVars, syncVars, connection, stale, drawn, previous, messageId,
                   nextId, cache, diskVars, bounds>>

\* watch_actions_poll_timeout.  The host may take longer than five seconds to
\* answer (two frames at 10 s each), so the time may be up at any point.  The
\* cache is not written.
Timeout ==
    /\ pending
    /\ pending' = FALSE /\ pendingShown' = FALSE /\ feedback' = "ACTION TIMEOUT"
    /\ data' = [data EXCEPT !["playing"] = previous]
    /\ UNCHANGED <<netVars, hostVars, syncVars, connection, stale, previous, messageId, nextId,
                   cache, diskVars, bounds>>
    /\ Draw

\* Mutant: the title of the saved record is not restored.
Restart_TitleNotRestored ==
    /\ restarts < MaxRestarts
    /\ restarts' = restarts + 1
    /\ link' = "closed" /\ toHost' = <<>> /\ toWatch' = <<>>
    /\ revision' = 0 /\ syncing' = FALSE /\ buffered' = {}
    /\ cache' \in {file, NoRecord}
    /\ data' = IF cache'.known
               THEN [cache'.data EXCEPT !["title"] = WatchDefault["title"]]
               ELSE WatchDefault
    /\ connection' = "offline" /\ stale' = cache'.known
    /\ pendingShown' = FALSE /\ feedback' = ""
    /\ pending' = FALSE /\ previous' = "off" /\ messageId' = 0
    /\ saveFailed' = FALSE
    /\ UNCHANGED <<hostVars, nextId, file, failedSaves, losses>>
    /\ Draw

\* The watch process ends and watch_runtime_run starts again, from the file or, when
\* that cannot be read, from watch_cache_init's record.
Restart ==
    /\ restarts < MaxRestarts
    /\ restarts' = restarts + 1
    /\ link' = "closed" /\ toHost' = <<>> /\ toWatch' = <<>>
    /\ revision' = 0 /\ syncing' = FALSE /\ buffered' = {}
    /\ cache' \in {file, NoRecord}
    /\ data' = IF cache'.known THEN cache'.data ELSE WatchDefault
    /\ connection' = "offline" /\ stale' = cache'.known
    /\ pendingShown' = FALSE /\ feedback' = ""
    /\ pending' = FALSE /\ previous' = "off" /\ messageId' = 0
    /\ saveFailed' = FALSE
    /\ UNCHANGED <<hostVars, nextId, file, failedSaves, losses>>
    /\ Draw

\* A change of page or notification in handle_action: the record is saved as it was
\* captured last.  The page itself is followed by WatchCache and WatchLoop.
TurnPage ==
    /\ UNCHANGED <<netVars, hostVars, syncVars, data, connection, stale, pendingShown, feedback,
                   actionVars, cache, bounds>>
    /\ Save
    /\ Draw

\* Both processes wait: the host for input, the watch for input and the clock.
Idle ==
    /\ link = "open" /\ toHost = <<>> /\ toWatch = <<>> /\ ~pending
    /\ UNCHANGED vars

Next ==
    \/ HostSyncs \/ HostAnswers \/ LinkBreaks
    \/ Connect \/ NoticeClosed \/ WatchReceives
    \/ ActivateSent \/ ActivateFails \/ TurnPage \/ Timeout \/ Restart \/ Idle

\* The host serves its connection; the runtime loop polls the socket and the
\* clock every 10 ms and reconnects every second.
Fairness ==
    /\ WF_vars(HostSyncs) /\ WF_vars(HostAnswers)
    /\ WF_vars(Connect) /\ WF_vars(NoticeClosed) /\ WF_vars(WatchReceives)
    /\ WF_vars(Timeout)

Spec == Init /\ [][Next]_vars /\ Fairness
-----------------------------------------------------------------------------
Count(queue, type) == Cardinality({i \in DOMAIN queue : queue[i].type = type})
InFlight(type) == Count(toHost, type) + Count(toWatch, type)

\* With the real host, too: on a connection that stands, a snapshot is on its
\* way (as a request or as an answer) exactly while the watch synchronizes, and
\* never two.
SnapshotUnderway ==
    link = "open" =>
        InFlight("sync") + InFlight("snapshot") = (IF syncing THEN 1 ELSE 0)

\* A pending action is one the host still has to answer: on a connection that
\* stands its action or its command_result is on the way, once; without a
\* connection no action is pending.
PendingWillBeAnswered ==
    /\ pending => link # "closed"
    /\ pending /\ link = "open" =>
         \/ \E i \in DOMAIN toHost : toHost[i].type = "action" /\ toHost[i].id = messageId
         \/ \E i \in DOMAIN toWatch : toWatch[i].type = "result" /\ toWatch[i].id = messageId

\* "HOST CONFIRMED" is shown only for the action the user made last, and only
\* when the host did accept that one: the late answer to an action that timed
\* out confirms nothing else.
ConfirmedWasAccepted == feedback = "HOST CONFIRMED" => messageId \in accepted

\* The connection shown is that of the socket, and without one what is shown as
\* fresh is nothing but the watch's own defaults: data a host or a saved record
\* gave is marked stale, whichever of the two gave it and in whatever step the
\* connection ended.
ShownConnectionIsReal ==
    /\ (connection = "offline") <=> (link = "closed")
    /\ connection = "offline" => stale \/ data = WatchDefault

\* A watch that is online shows the host: every leaf but the optimistic one is the
\* host's at the watch's revision, even while a gap is being closed, and whatever
\* the watch had buffered, ignored or kept from an earlier connection.
OnlineLeavesAreHosts ==
    connection = "online" =>
        \A p \in Leaves \ {"playing"} : \A i \in 1 .. 4 :
            Updates[i].path = p => data[p] = (IF i <= revision THEN Updates[i].value
                                              ELSE HostDefault[p])

\* docs/architecture.md, Local cache: a synchronization "refreshes the cache".
\* While the watch is online the record is what it shows, whatever handler changed
\* it, but for the rollback of a timeout, which is not captured before the next
\* change.  The file is that record unless the last save failed: nobody looks at the
\* result or tries again, but a save writes all there is, so the next one that
\* succeeds makes up for any number that did not, also those of an earlier process.
SavedIsShown ==
    connection = "online" /\ feedback # "ACTION TIMEOUT" =>
        cache.known /\ cache.data = data /\ (saveFailed \/ file = cache)

\* Whichever handler changed the state (a message, a disconnection, a key, the
\* clock), the display shows it when the handler is done.  handle_protocol_message
\* neither draws nor saves a snapshot that leaves a gap: with this host there is none.
ScreenIsCurrent == drawn = View

\* A snapshot ends the synchronization.  The host numbers its updates from 1 again
\* at every sync_request and goes on from 4 with those of the actions, and the watch
\* ignores some and buffers others: still, when the snapshot of revision 0 comes, no
\* revision is missing below one that is buffered, and no third request is made.
SnapshotClosesGap ==
    [][Received("snapshot") /\ toWatch' = Tail(toWatch) => ~syncing' /\ buffered' = {}]_vars

\* The leaves that follow the host (music.playing is toggled ahead of it), in any
\* state of a watch, and on a host at its revision n: every connection of this host
\* takes them through the same states, which its actions leave alone.
Followed(d) == [p \in Leaves \ {"playing"} |-> d[p]]
HostLeaves(n) ==
    Followed([p \in Leaves |-> IF \E i \in 1 .. 4 : i <= n /\ Updates[i].path = p
                               THEN Synchronized[p] ELSE HostDefault[p]])

Promise == INSTANCE SyncPromise WITH
    Data <- [Leaves \ {"playing"} -> LeafValues],
    Starts <- {Followed(WatchDefault)} \cup {HostLeaves(n) : n \in 0 .. 4 + MaxActions},
    last <- 4 + MaxActions, hist <- [n \in 0 .. 4 + MaxActions |-> HostLeaves(n)],
    linked <- (link # "closed"), waiting <- syncing, synced <- (connection = "online"),
    rev <- revision, shown <- Followed(data)

\* The composed system keeps the promise of the synchronization service: across
\* every loss, gap, optimistic toggle and restart from the record, the leaves that
\* follow the host are together those of one of its revisions (or the defaults of a
\* watch that never had one), and move one revision at a time or with a snapshot.
ImplementsPromise == Promise!Spec

\* Once the connection stays up, the watch ends up synchronized: at most two
\* snapshots after any reconnection it is online, fresh, has no gap and no
\* action in doubt, at a revision that includes the host's updates.
Settled ==
    /\ link = "open" /\ toHost = <<>> /\ toWatch = <<>>
    /\ connection = "online" /\ ~syncing /\ ~stale /\ ~pending /\ revision >= 4

EventuallySettles == <>[]Settled

\* Neither side waits for the other in vain.  The watch learns of a patch it ignored
\* or lost only from a later one, and the host sends no snapshot unasked: still, when
\* nothing is under way on a standing connection, the watch is settled and has every
\* revision the host has given.
QuietIsSettled ==
    link = "open" /\ toHost = <<>> /\ toWatch = <<>> => Settled /\ hostRevision <= revision
-----------------------------------------------------------------------------
(* Statements of the documentation that the code does not keep.            *)

\* docs/protocol.md, on the optimistic action: the watch "rolls back on
\* failure/timeout, and accepts the subsequent host-owned `music.playing` patch
\* as authoritative".  Once nothing is on the way and no action is pending, the
\* watch shows what the host announced last.
HostIsAuthoritative == Settled => data = hostData

\* docs/protocol.md, State ownership: "Every successful host-owned mutation
\* consumes exactly one globally increasing revision".  In one connection the
\* host's revision never falls, so no number is given to two mutations.
RevisionsIncrease == [][link = "open" /\ link' = "open" => hostRevision' >= hostRevision]_vars

\* docs/protocol.md, Reconnection: "Incremental mutations received while
\* syncing are buffered and not applied."
SyncingBuffers ==
    [][WatchReceives /\ Received("patch") /\ syncing /\ link' # "closed"
         => \E b \in buffered' : b.revision = Head(toWatch).revision]_vars

\* docs/architecture.md, Optimistic actions: activating Music "shows a compact
\* pending state", which a result, a disconnect or the timeout ends.
PendingIsShown == pending => drawn.detail = "SYNCING ACTION"
=============================================================================
