# CMF Watch Pro 2 OS: formal models

TLA+ models of the watch runtime (`watch/`, C on Zephyr) and of the simulator
host (`host/`, Rust), with the TLC configurations that check them and TLAPS
proofs of their main properties. Paths below are relative to the repository.

The system is small in code and rich in protocol: a watch shows a copy of state
that a host owns, over a link that breaks; it lets its wearer change one of
those values before the host has agreed; and it keeps what it shows in a file
for the next start. Each of the three (copy, optimistic change, file) has to
stay right whatever order the other two move in.

## 1. The system

### Components, their state and their operations

| Component | State | Operations | Module |
| --- | --- | --- | --- |
| Synchronization service, `watch/src/state/watch_sync.c` | `revision`, `syncing`, 16 buffered mutations; writes the host-owned leaves of `struct watch_state` | `connected`, `disconnected`, `handle` (snapshot, next, stale, gap, buffered, refused) | `WatchSync`, `ReplayBuffer` |
| Runtime, `watch_runtime.c` | owns all structures below; one thread, a loop every 10 ms | `handle_protocol_message`, `handle_transport_event`, `handle_action`, the loop | `WatchSystem`, `WatchCache` |
| Transport, `transport.c` | socket, frame decoder, next message id, next reconnect time | `poll`, `connect_if_due`, `disconnect`, `send_bytes`, `request_sync`, `send_music_action` | `WireLink`, `WatchLoop`; by messages, `WatchSystem` |
| Optimistic action, `watch_actions.c` | `pending`, `previous_music_playing`, `message_id`, start time | `begin_music`, `bind_message`, `handle_result`, `poll_timeout`, `fail` | `WatchSystem` |
| Watch state, `watch_state.c` | everything shown | `init`, `reset_host_owned`, `notification_next/previous` | `WatchSystem`, `WatchCache` |
| Cache record and file, `watch_cache.c`, `watch_cache_storage.c` | one record in memory, the file, its `.tmp` | `valid`, `restore`, `capture_sync`, `capture_application`, `mark_stale`; `load`, `save` | `WatchCache`, `WatchSystem` |
| Navigation, `navigation.c` | screen stack | `next`, `previous`, `replace` (`push`, `pop` are called by tests only) | `WatchCache`, `WatchLoop` |
| Host server, `host/src/server.rs` | per connection: decoder, `current_revision`, next id | read, `sync_request`, `action`, other commands | `WatchSystem`, `WireLink` |
| Host state store, `host/src/state.rs` | state tree, revision, `syncing`, ordered map of buffered messages | `apply`, `install_snapshot` | `HostStore` |
| Codecs, `watch_protocol.c`, `protocol.rs` | a partial frame | `push`, decode, validate | `WireLink` |
| Input and gestures, `watch_input.c`, `watch_gesture.c` | two flags set by interrupts | two handlers, poll, classify | `WatchLoop` |
| Renderer, `renderer.c` | the labels of the page shown, a swipe's start | redraw, touch | `WatchSystem` (`View`, `Draw`), `WatchLoop` (`Touch`) |
| Animation, registry, platform | LVGL objects, constants | draw | not modelled |
| Recovery tool, generator, scripts (`tools/`, `scripts/`) | none at run time | file copying and hashing, code generation | not modelled |

### Interaction

The runtime is one thread. `transport_poll` reads the socket and calls, for each
whole frame and before it returns, `handle_message` and the runtime's handler;
a handler that returns an error makes the transport disconnect, and that calls
back into the runtime (`TRANSPORT_EVENT_DISCONNECTED`) in the same stack. The
renderer calls `handle_action` from `lv_timer_handler`. So handlers never
interleave with each other on the watch, and an action of a module is one
handler with all it calls. What interleaves is the watch with the host, with
the network, with the wearer, with the clock and with the end of the process.
The only code that runs between two statements of the thread are two interrupt
handlers, `button_isr` and `activate_isr`; each sets one atomic flag.

The host serves one connection at a time. It answers a `sync_request` with
patch 1, a snapshot of revision 0 and patches 2 to 4; it answers an `action`
with a `command_result` and, if it accepts, a `music.playing` patch. It can be
told to be slow or to reject.

### What is hard, and the property each component owes

* *Synchronization.* Mutations arrive before, between and after the snapshot
  they belong with; connections end anywhere; the next host counts again from
  zero. The watch must show the state of one revision of this session, ask for
  a snapshot exactly when it needs one, and lose nothing it has buffered.
* *The replay loop.* It frees slots in slot order while it follows revision
  order, in a `while (true)`. It must do what the set of slots says and end.
* *The optimistic action.* A result, a timeout and a disconnection race to end
  it, snapshots and patches change the value underneath it, and the answer to
  an action given up arrives during the next one. Nothing may be confirmed that
  was not accepted, and nothing may stay pending that nobody will answer.
* *The cache.* Captures of different moments meet in one record; a process ends
  in the middle of a save; a save fails and nobody looks at its result; a record
  captured online is read offline.
* *The stream.* Frames arrive in pieces, sends are cut, a decoder holds the
  part of a frame when its connection ends, and both sides drop the rest of a
  read when a frame in its middle is refused. A frame is acted on whole, once
  and in order, or its connection ends; and a legal frame never ends it.
* *The keys.* The poll tests one flag after the other and takes one event per
  pass. No press may be lost between the tests.
* *The display.* Each handler draws for itself. What is shown must be the state
  when the handler is done.
* *The host's store.* It also has list operations, whose indices mean something
  else in any other state, writes that make the missing parents of a path before
  they know that the path can be followed, and a replay that can fail half-way.

`PROJECT.json` lists these as hazards at the line where each bites, with the
properties that watch it, and those no property covers yet with the reason.

## 2. Modules

```
SyncPromise          what synchronization promises: no buffer, no messages
   ^ implemented by WatchSync and by WatchSystem
WatchSync  <-------- WatchSyncProofs
   ^ instantiated by
   +-- ReplayBuffer  the slots and the loop, against WatchSync's set account
   |     ^ ReplayBufferProofs
   +-- WatchSystem   watch + host + link + wearer + saves + restarts + display
         ^ WatchSystemProofs, extended by WatchGapProofs
LinkPromise          what the connection promises: two queues of whole frames
   ^ implemented by WatchLoop
WireLink             the two byte streams and their four ends
   ^ extended by
WatchLoop            the watch's main loop, its keys and touches, over WireLink
   ^ WatchLoopProofs, with StreamLemmas on the streams of WireLink
WatchCache <-------- WatchCacheProofs
HostStore  <-------- HostStoreProofs
MC*                  small instances for TLC
```

### WatchSync and SyncPromise

`WatchSync` drives `watch_sync.c` by *any* host that numbers its mutations, not
just the simulator's. `log` and `hist` are that host: mutation `i` has revision
`i`, and `hist[i]` is its state after it. Any mutation of the log can reach the
watch at any time, again and again, or never, and a snapshot may be of any
revision; only its being answered is tied to having been asked (`asked`).

| Variable | Code |
| --- | --- |
| `revision`, `syncing` | the fields of `struct watch_sync` |
| `buffered` | the occupied slots of `buffered[16]`, as a set of mutations |
| `data` | the host-owned leaves of `struct watch_state` |
| `connected`, `asked` | `socket_fd >= 0`; `sync_request`s not yet answered |
| `installed` | history: a snapshot came in this connection |

The outcomes of `watch_sync_handle` are one action each, in the order of its
returns: `ReceiveRefused` (a path or type the watch refuses; the runtime
returns an error and the connection ends), `ReceiveUnchanged` (list operations
and old revisions), `ReceiveWhileSyncing`, `ReceiveWhileFull` (no free slot),
`ReceiveGap` (with the `sync_request` the runtime sends), `ReceiveNext`,
`ReceiveSnapshot` (install, replay, and a new request if a gap remains) and
`ReceiveSnapshotAndFail` (that request cannot be sent). A list operation takes
a revision and changes the host's state, and the watch passes over it: the next
leaf is then ahead of its turn, and the watch recovers by a snapshot.
`disconnected` keeps `revision`, as the code does.

`SyncPromise` is what the renderer, the cache and the actions may rely on: the
shown state is that of one revision, moves by one revision, or moves as a whole
when a snapshot was asked for. It also has the restart of the watch, from a set
of states `Starts`. `WatchSync` has no restart and implements it with
`Starts <- {}`; `WatchSystem` implements it, too, as described below.

### ReplayBuffer

The array of slots with `buffer_mutation` and the passes of `replay_buffer`,
one action per pass of the loop. `ReturnsAsAccounted` says that a call leaves
in `revision`, `data`, `syncing` and the slots what `Replayed`, `ReplayEndsAt`
and `Ahead` of `WatchSync` say in one step. This is why `WatchSync` may use a
set. It also says that a call ends within `Capacity` revisions of the snapshot,
which is the range `WatchSync` and `WatchSystem` take the end from.
`PassesAreBounded` is the bound of the loop: what a call has applied and what
still occupies slots never outnumber the slots.

### WatchSystem

The watch with the host of `server.rs`, as they run together. `toHost` and `toWatch`
are the two directions of the TCP connection; `link` is `"broken"` from the loss
until the watch notices it, and until then what the host wrote still arrives and
what the watch writes is lost or refused. `HostSyncs` and `HostAnswers` are the
iterations of `handle_connection`. The watch's actions are whole handlers:
`PatchNext` for instance includes `WATCH_SYNC_CHANGED`, the change of connection
state, the capture and the save. `ActivateSent` and `ActivateFails` are the press;
`Timeout`, `ResultSettles` and `GoOffline` end the action. `TurnPage` is a change of
page or notification, which saves, too. The operators on the buffer are those of
`WatchSync`, instantiated. The music value is a leaf like the others; messages that
change no state on either side (hello, ping, capabilities) are left out.

The record in memory is `cache`, the one at `cache_path` is `file`. Every capture
and every marking is followed by a save (`watch_runtime.c:57`, `:78`, `:100`,
`:143`, `:155`) whose result is discarded. `Save` puts the whole record into the
file or, at a failure of any call in it, leaves the file as it was; nothing in the
program knows which (`saveFailed` is a history). A process that ends inside a save
is a failed save followed by `Restart`, which reads the file, or begins with
`NoRecord` when the file cannot be read. The single calls of a save are in
`WatchCache`. The record's stale marks are left out here: a start sets
`host_data_stale` whatever they say. They are in `WatchCache`, too.

`drawn` is what the labels of the page show since `renderer_render` last ran,
and `View` what `render_app` makes of the state. Every action that ends in a
redraw ends in `Draw`; a snapshot that leaves a gap does not, as in the code
(`watch_runtime.c:67` to `:76`), and is not captured either. With this host there
is no such snapshot (`SnapshotClosesGap`), so display and record are current
after every step, and the file is if the last save succeeded.

`ImplementsPromise` maps the whole system to `SyncPromise` on the leaves that
follow the host. `music.playing` is not one of them, since the watch toggles it
ahead of the host. This host takes the others through the same states in every
connection, whatever actions it accepts, so the abstract history is the constant
`HostLeaves(0)`, `HostLeaves(1)`, ... and the abstract watch is synchronized while
the real one is online. A restart may show the defaults or one of these states, an
older one when saves have failed, never leaves of two of them.

### WireLink and WatchLoop

`WireLink` is the link below the messages: two queues of bytes, the watch's
decoder (`watch_protocol.c:211`, one byte at a time), the host's (`FrameDecoder`,
one read at a time), and the loop of `handle_connection` in its three phases
(read, take frames out, serve them). A byte is a pair, the number of the frame
its sender began and its place in that frame, and `LF` and `CR`. So a sequence
of bytes is a message exactly when it is one frame from the first byte to the
last; `IsWhole` is what the JSON parsers are assumed to do, take a whole object
and refuse any mixture of pieces. `WatchDecodes` and `HostDecodes` are the two
decoders' further checks (limit, version, type, fields, `reply_to`), each with
the table of fields of its own source; `TablesAgree` compares the two tables.

| Variable | Code |
| --- | --- |
| `socket`, `decoder`, `chunk` | `socket_fd >= 0`; `struct watch_frame_decoder`; the rest of what `zsock_recv` returned |
| `serving`, `phase`, `buffered`, `decoded` | `handle_connection` and where it is; `FrameDecoder.buffered`; the messages `push` returned |
| `toWatch`, `toHost` | bytes under way |
| `hostLog`, `watchLog`, `cut` | history: the frames begun on this connection, and the first not written whole |
| `handled`, `served` | history: the frames each side acted on |
| `watchError`, `hostError` | history: why each side ended the connection |

Receptions take any part of what has arrived, sends are cut anywhere
(`SendCut`), handlers fail (`PushFails`), connections break with any part of
the stream still to be read (`LinkBreaks`). `handle_connection` serves one
connection at a time, so the next `Connect` waits for `~serving`.

`WatchLoop` is `watch_runtime_run`, one step per call or per test of a flag:
`PollConnect`, `PollReceive`, `PollPush` for each byte, `PollActivate`,
`PollButton`, `Handle`, `Timers`. Interrupts, host and network act between any
two of them. A failed bootstrap or reception ends `transport_poll` for this
pass; a failed music action does not end the connection, as in the code. The
button waits for as long as `activate` is pressed again in every pass. A touch
is one step with `watch_swipe_classify` on its two ends; the toolkit may report
a click for the same touch, which then acts on the page swiped to.

`LinkPromise` is the connection as its users see it: two queues of whole frames,
a frame acted on in the order of the writing or not at all, and a new connection
that begins with the bootstrap and nothing old. In `WatchLoop!ImplementsLink` the
queues are the frames written whole and not yet acted on; bytes, reads and
decoders are gone. A side may end the connection over a frame only if the frame
was torn, or is none the decoder must accept.

### WatchCache

The record as one TLA+ record, the file and its `.tmp`, and a save in its three
steps: `BeginSave` (in the action that calls save: the temporary file is
truncated, or cannot be opened), `Write`, `Rename`, each with its failure.
`saving` says where the call is; other actions wait for it (one thread), but
`Restart` does not, so the process can end anywhere in it. `Start` is
`watch_runtime_run` up to the first frame: load (which may fail and then loads
nothing), validity, restore, screen. `captured` is a history: what is shown goes
back to a capture of this process or to the record it started from.

The four groups of host data in the record are captured, marked and restored
together, so one flag `synced` stands for their `version > 0` and one for their
`stale`. A checksum fails exactly for a torn record. Host data other than the
notification list is one value; `WatchSystem` follows `music.playing` into the
record. What synchronization delivers is an input (`Synchronized`,
`SnapshotWithGap`), limited to what `WatchSync` says it can be.

### HostStore

`StateStore`. The state is a JSON tree: a function from the paths that exist to an
object, a list or a scalar, with `IsState` for its being a tree. `replace_path`
makes the parents it misses on its way down (`Made`) and replaces what was at and
below the path (`Replace`); when it meets a member that is no object it returns
with what it has made so far (`LeftBy`). `apply_list` looks for its list and its
index and then changes the list. The values set have no members of their own.
`apply` is split into its outcomes; `ApplyRefused` and `ReplayFails` leave the
state `LeftBy` the operation that failed, and that this is no trace is a property
to check. `install_snapshot` is one call but may stop
with an error after any iteration, so the iterations are actions and nothing
else happens while `replaying`. A mutation is `refused` when
`validate_host_path` refuses it, and impossible when its index does not exist.

## 3. What TLC checks

| Run | Instance | States | Shows |
| --- | --- | --- | --- |
| `sync` | 2 leaves, 2 values, 2 slots, 3 mutations | 70 259 | The service keeps its properties and implements `SyncPromise` |
| `replay` | 3 slots, 4 revisions | 146 444 | The loop computes the set account, and ends |
| `system` | the real 16 slots, 3 presses, 2 losses, 1 restart, 1 failed save, both reject modes | 466 951 | The two sides agree and the pair settles |
| `store` | 4 segments, paths of 1 to 3, a list, indices 0 and 1, 11 operations, 3 mutations | 207 263 | The store's state is that of its revision, and a refusal leaves no trace |
| `cache` | 2 notifications, 3 screens, 1 host value | 3 474 405 | File, cursor and marks, over failed saves and any ends of the process |
| `loop` | frames of 1 to 3 bytes with a limit of 2, reads of at most 2, 6 kinds of host frame, 2 screens, 2 events | 149 346 | Both decoders, cut sends and the keys, under one loop |

The runs of section 4 use the same modules with fewer presses, losses or
mutations, as many as their counterexamples need.

*Why these bounds.* A gap needs two mutations, a gap after a replay three; two slots
fill with two, so every branch of the service fires in `sync`, the full buffer
included. Two leaves distinguish a mutation applied from one skipped, two values a
state from its successor. Three slots and four revisions let the loop of `replay`
meet a stale slot, the next one and a gap in any slot order. In `system` the second
loss comes during the recovery from the first, and the third press meets the late
answer to the first. One failed save meets a later one that succeeds, a restart in
between, and a loss; a second one after it leaves the same file, and a save that
succeeds in between makes up for the first. In `store` the operations find a root
that is there, absent, a scalar, an object, or made on the way two levels down, and
a list as a parent. A second notification and three screens tell "wraps", "stays"
and "moves" apart. `MaxRevision`, `MaxActions`, `MaxLosses`, `MaxRestarts`,
`MaxFailedSaves` and `MaxEvents` are the only counters bounded by guards. With the
real host the buffer never fills, and no gap remains after its snapshot; the
`rest # {}` branches of `WatchSystem!ReceiveSnapshot` are therefore idle there and `sync`
exercises them. In `loop` a frame of one byte, one of the maximum size and one above
it meet reads that split a frame, end inside its delimiter or hold two frames; the
watch's own action has the maximum size, so that a cut can fall on any of its bytes.
The six host frames are one of each kind the decoders and handlers tell apart: a
mutation ending in CR LF, a refused command (which makes the watch write), a legal
maximum, one byte too many, no JSON, and a missing `reply_to`. `MaxEvents` counts
presses, touches, host writes, cuts, failing handlers and broken links together; two
of them reach every pair, and the bootstrap of each connection puts two more frames
on the wire. Both components of a touch are taken at the threshold of 50 and at the
ratio of 2.

### Properties

* `ShowsHostState`, `OneRequestWhileSyncing`, `BufferIsAhead` (invariants),
  `BufferedIsNotLost`, `AppliesInOrder` (steps), `ImplementsPromise` (refinement):
  the synchronization service.
* `SlotsWellFormed`, `PassesAreBounded`, `ReturnsAsAccounted`,
  `ReplayTerminates`: slots and loop.
* `SnapshotUnderway`: on a standing connection a snapshot is on its way exactly
  while the watch synchronizes. `PendingWillBeAnswered`: the same for a pending
  action. `ConfirmedWasAccepted`: no answer settles another press.
  `ShownConnectionIsReal`: offline, nothing but the defaults is shown as fresh.
  `OnlineLeavesAreHosts`: online, every leaf but the optimistic one is the
  host's, also while a gap is being closed. `SavedIsShown`: online the
  record is what is shown, but for the rollback of a timeout, and the file is the
  record unless the last save failed. `ScreenIsCurrent`:
  every handler has drawn what it changed. `SnapshotClosesGap`: a snapshot ends
  the synchronization, with nothing left in the buffer. `ImplementsPromise`
  (refinement): the system keeps `SyncPromise`. `EventuallySettles`: the system
  comes to rest synchronized. `QuietIsSettled`: it never comes to rest otherwise,
  each side waiting for the other.
* `WatchReadsInOrder`, `HostReadsInOrder` (whole frames, in order, none twice
  and none left out; nothing from a cut frame on), `LegalFramesAreAccepted` (no
  connection ends over a frame that is legal and was written whole),
  `FramesArrive` (none waits for the next), `Reconnects`, `KeysAreServed`,
  `NoPressIsLost` (a press is on record from its interrupt until it is acted on),
  `ImplementsLink` (refinement): link and loop.
* `StateOfRevision`, `BufferIsAhead`, `RefusalLeavesNoTrace` (an operation that is
  refused, by `apply` or in a replay, leaves no parent made, takes no revision and
  touches nothing else in the buffer): the host's store.
* `CursorInRange`, `FileIsReplacedWhole`, `OfflineIsMarked` (once anything was
  captured, what is shown offline is marked as stale; the case before that is the
  last bullet of section 4): the cache.

Every property has a mutant in `PROJECT.json`: a definition of the model changed
as a slip in the code would change it, under which TLC finds it violated.

### Fairness

Safety needs none. `ReplayBuffer` assumes that a call that has begun continues
(`WF` on its loop). `WatchSystem` assumes weak fairness of the host's two
handlers (it blocks only in `read`), of the watch's reception, reconnection and
noticing a closed socket (the loop polls every 10 ms and retries every second
for ever) and of the timeout (the clock advances). Losses, presses, changes of page
and restarts are not fair, nor is the outcome of a save; losses, presses, restarts
and failed saves are finite in number, so `EventuallySettles` reads: if the
link stays up from some time on, and the wearer stops, the watch settles.
`WatchLoop` assumes weak fairness of the watch's loop as a whole and of the
host's process as a whole, which is all that two single threads give, and strong
fairness of a successful connect: an attempt is made in every pass, and one
succeeds sooner or later when the host listens. Nothing is assumed of
interrupts, touches, host writes or failures, but there are at most `MaxEvents` of
them. `FramesArrive` and `KeysAreServed` are shown for finitely many; `KeysAreServed`
is not true of more, since endless presses of `activate` starve the button.
Deadlock is checked everywhere; `Idle` in `WatchSystem` is both processes
waiting for something to happen.

## 4. Where code and documents disagree

Each of these is a run that TLC must find violated.

* `rollback` (`HostIsAuthoritative`, `watch_actions.c:59`): the rollback of a
  rejected action writes the value of before the press over a patch that came
  in between, and the watch settles on it. `docs/protocol.md:87` calls the
  host's patch authoritative.
* `revisions` (`RevisionsIncrease`, `server.rs:67`): every `sync_request` sets
  `current_revision = 4`, so revisions already given to accepted actions are
  given again; `docs/protocol.md:44` has them globally increasing.
* `buffering` (`SyncingBuffers`, `watch_sync.c:338`): after a reconnection the
  retained revision makes the watch drop mutations that `docs/protocol.md:124`
  says are buffered. One more round of synchronization repairs it.
* `indicator` (`PendingIsShown`, `watch_state.c:30`): a snapshot clears the
  feedback of an action that stays pending (`docs/architecture.md:59`); the page
  then says TAP TO PLAY or TAP TO PAUSE, and a press is refused.
* `install` (`FailedInstallLeavesState`, `state.rs:120`): `install_snapshot`
  returns an error after it has changed the store, against
  `docs/protocol.md:134`. `StateOfRevision` holds nevertheless: what is left is
  the peer's state at the revision the store reports.
* `record` (`SavedIsValid`, `watch_cache.c:136`): `capture_application` can seal
  a record that `watch_cache_valid` refuses, although
  `watch/tests/navigation_test.c:69` asserts it valid. It takes a
  snapshot that leaves a gap, and so is not captured, before any other was, and a
  swipe then; any gap will do, and `server.rs` leaves none. The
  loss is of the saved record, not of safety: `CursorInRange` holds because the
  record is checked when loaded.

Smaller disagreements, which the models have and no run singles out:

* Both decoders pass over an empty line, as `docs/protocol.md:115` says;
  `docs/decisions/0002-protocol-v1-json.md:17` says that empty frames are
  rejected.
* `docs/protocol.md:114` excludes the delimiter from the limit. The watch counts
  the CR of a CR LF (`watch_protocol.c:231`), so it always refuses a frame of
  the maximum size that ends in CR LF; `Legal` says so. The host refuses one
  only when a read ends between the CR and the LF (`protocol.rs:181`). Each
  side's own frames end in LF, so neither meets the other's limit.
* A snapshot that leaves a gap is installed with `host_data_stale` reset, but
  neither captured nor drawn (`watch_runtime.c:67`). With a host other than
  `server.rs`, a connection that ends before the second snapshot would then
  show that host's data unmarked if none was ever captured (`watch_runtime.c:97`
  looks at the record). This is the premise `captured` of `OfflineIsMarked`.

## 5. What is proved

For every value of the constants that satisfies the named assumptions
(`CapacityAssumption`, `MaxRevisionAssumption`, `DefaultsAssumption`;
`SlotsAssumption`; `SystemAssumption`; `StoreAssumption`; `CacheAssumption`,
`FilesAssumption`; `LinkAssumption`, `FramesAssumption`, `TablesAgree`,
`LoopAssumption`). TLC evaluates each of them in the runs of its module.

**WatchSyncProofs.** The invariant `IInv` is the conjunction of `TypeOK`, the
three invariants of the run and three facts they need: `HistoryOfLog` (`hist`
is the log applied step by step), `installed => connected`, and
`connected /\ ~syncing => installed`. Without the first, a replayed mutation
could not be compared with the host's next state; without the last two, "the
first snapshot of this connection" would not survive a reconnection. The heart
is `ReplayMatchesHost`: from `hist[n]`, the last buffered write of each leaf in
`n+1 .. end` gives `hist[end]`. No induction over the length is needed: for each leaf
the last write is compared with the history after it. `LatestExists` gets
the last write from the well-foundedness of `<` on naturals. From `IInv` follow
`TypeCorrect`, `ConsistentView`, `AskedOnce`, `BufferOfThisSession`, the step
properties `NoBufferedLoss` and `InOrder`, and `Refinement`: initial states and
every action map to `SyncPromise` or a stutter. `WatchSync` has no restart, so
`Starts` is empty there and the abstract `Restart` is impossible.

**HostStoreProofs.** `IInv` is the run's invariants with the same kind of
account of `hist` by the operations (`Outcome`). An operation that cannot be
carried out leaves the peer's state alone but takes a revision; that is why the
store may refuse it and `StateOfRevision` still holds. That it leaves the state
alone is no definition but `BlockedMakesNothing`: `replace_path` makes parents
before it knows that it can go on, but a member that exists is reached through
members that exist, so where it is stopped by one it has made nothing yet. This
needs the state to be a tree, which every operation keeps (`SetKeepsType`).
Results: `TypeCorrect`, `PeerState`, `BufferOfPeer`, `NoTrace`.

**WatchCacheProofs.** `IInv` adds to `TypeOK` and `CursorInRange` only that a
written temporary file holds the record in memory (`SavesTheRecord`). It says
*nothing* of the cursor inside a record: `SavedIsValid` is false, and
`StartKeepsIInv` needs only that an invalid record is not used. For
`OfflineIsMarked` there is a second invariant, `MarkInv`: `captured` means that the
record is marked synchronized (`CapturedIsKept`), since a disconnection marks what
is shown only if the record says so. It is kept by every capture, since that of a
press takes the host's data again and that of a swipe (`capture_application`) leaves
it in the record, and by a start, which takes both from the same record, or neither.
Results: `TypeCorrect`, `CursorSafe`, `SavesAreWhole`, `NeverFreshOffline`.

**ReplayBufferProofs.** `IInv` is `SlotsWellFormed` with `CallSoFar`, which
describes a call of `replay_buffer` in flight: every mutation that was in the
slots when it began and is above `revision` is still there, every revision the
loop has passed was among them, and `data` is `Replayed` up to `revision`; and
with `PassesAreBounded`, which every pass keeps because the slot it applies is
freed: one revision more, one mutation less. Results: `OneSlotEach`,
`LoopIsBounded`, and `LoopIsAccount`, that whenever `replay_buffer`
returns it has done what the set account of `WatchSync` says. So the slots are
abstracted soundly in `WatchSync` and `WatchSystem` for every capacity, not for
three slots only.

**WatchSystemProofs.** `SystemInv` is `IInv`, that is `Typed` (`TypeOK` without the
file), `WatchInv` and `NetInv`, together with `DiskInv`, about the file: it is a
record the watch can start from, and online it is that in memory unless the last
save failed. A start reads the file, so it keeps `IInv` only because of `DiskInv`.
`WatchInv` holds the run's invariants about the watch alone and what they need of
it: the buffer is finite and holds updates of the host (`BufferIsBounded`,
`LeavesAreUpdates`), and until something has been captured nothing has been shown
(`NothingShown`). `NetInv` is about the two queues: the first frame of a connection
is a `sync_request` (`SyncComesFirst`), so an action gets a revision above those of
the updates; every patch under way is an update or an action's
(`PatchesAreUpdates`), and a result that says ok is of an accepted action
(`OkIsAccepted`); before the first snapshot only patch 1 can come, and no action is
under way (`FirstIsSnapshot`); one snapshot is under way while the watch
synchronizes (`OneSnapshot`), and the answer to a pending action (`AnswerComes`).
None of the run's invariants is inductive alone: "the leaves are the host's" needs
to know what the buffer and the queue hold, that a snapshot comes first, and, for
the replay over it, the argument of `ReplayShowsHost`. Results: `TypeCorrect`,
`OneSnapshotUnderway`, `PendingIsAnswered`, `ConfirmedIsAccepted`,
`ConnectionIsReal`, for any capacity and any number of presses, losses and restarts.
Of the leaves, the record and the display it has what follows without looking at
gaps (`LeavesUnlessSyncing` and its two companions).

**WatchGapProofs.** That a snapshot never leaves a gap is a fact about the
numbers in both queues, the buffer and the host at once. The host counts from 1
at every `sync_request` and from 4 on with its actions; the watch ignores what is
not above its retained revision, buffers some of the rest and asks again. `GapInv`
follows a synchronization through its three stages. While the request is
under way (`SnapshotAsked`), what is buffered and what will be is nothing, or a
run that begins at 1 or 2 and ends at the host's revision. While the answer is
under way (`SnapshotComing`), what will be buffered when the snapshot is taken has
no number missing above 1, and neither have the patches behind it, which end at
the host's revision. And otherwise (`InStep`) the patches under way go on from the
watch's revision without a gap, at the worst from 2. A second snapshot would break
this (the numbers behind the first would be ignored before it came), so
`AtMostOneSnapshot` is part of it; a queue read as "closed under predecessor"
(`Closed`) instead of as an interval lets every step be checked at one number.
From `GapInv`, `NothingLeft` gets by well-foundedness that the replay empties the
buffer: a number left in it would have its predecessor left in it.

With that, every step that ends with the watch synchronizing has changed nothing
that is shown or captured, and what is shown, what the record holds
(`RecordIsShown`) and what is drawn agree always (`ShownInv`). `SavedIsShown` is
`RecordIsShown` with `DiskInv`: the two are apart because a failed save breaks the
second only. Results: `OnlineShowsHost`, `ShownIsSaved`, `ScreenKeepsUp`,
`SnapshotsClose`; and `SystemKeepsPromise`, the refinement. Its only further need is
`StatesInv`, that the leaves shown, those of the record and those of the file are
each the defaults or one of the host's states, since a restart shows what the file
holds, whichever save was the last to succeed. Finally `QuietMeansSettled`, the
safety half of `EventuallySettles`: with both queues empty, `OneSnapshot` leaves no
synchronization open, `AnswerComes` no action, `SyncComesFirst` no request unmade
and `InStep` no revision missing; with `OnlineIsFresh` the watch is settled.

**StreamLemmas and WatchLoopProofs.** `StreamLemmas` is about one direction of
the link, whatever its frames are and wherever it is cut. `Flow` says of the
bytes that their reader has not acted on that they are *part* of the writer's
frames from the next one on: every byte belongs to a frame begun and not yet
read, positions increase, no frame is skipped, and each frame that was written
whole lies there without a gap, its delimiter after it, as far as the sequence
goes. `Present` says that nothing is *missing*: every frame written whole is
there to its end. The lemmas say what writing a frame, writing part of one,
losing the tail, and taking a line from the front do to the two. Lengths are
arbitrary, so each is an argument about positions; a first line break exists because
`<` on naturals is well-founded.

`IInv` of `WatchLoopProofs` is `LoopTypes` and one end per direction. `WatchEnd`
applies `Flow` to `decoder \o (chunk \o toWatch)`, the bytes the watch holds and
those under way together; `HostEnd` applies it to `buffered \o toHost`, with the
messages already decoded and not served counted as read. Taken together, a
reception does not change the sequence at all, and a byte or a line changes it at
the front only. Without what is held, the rest of a split frame would be bytes of
no frame. `Present` holds only while the connection does, since a loss takes a
tail; and only that a line without a break is a *prefix* of the sequence lets it
be compared with a frame: a line either is one whole frame, or is the cut one or
an illegal one, and is refused. `TablesAgree` is needed so that what one side
sends is a frame the other's table accepts. Results: `TypeCorrect` (with the
bounds of both decoders' buffers), `WatchHandlesInOrder`, `HostHandlesInOrder`,
`LegalIsAccepted`: every safety invariant of `loop`, for every frame limit, read
size, set of host frames, and number of events.

`PressesAreKept` has an invariant of its own, `KeysInv`: the loop holds an event
only between the test of a flag and `Handle`, so neither test overwrites one.
`LinkKeepsItsPromise` is the refinement of `LinkPromise`. Almost every step is a
stutter of the two queues; the steps that are not are those the invariant already
describes: the line break that makes the watch act on a frame takes the head of
the queue, because by `Flow` the line *is* that frame; a refusal is one of a frame
at the head that may be refused, or on the host's side follows a cut; and what is
cut never enters a queue. The frames the abstract watch may act on and must accept
are `sound /\ Valid` and `Legal`.

**Model-checked only.** `ReplayTerminates`, `EventuallySettles`, `FramesArrive`,
`Reconnects` and `KeysAreServed` are liveness under fairness and beyond the
prover; `LoopIsBounded`, `QuietMeansSettled` and `PressesAreKept` are what of three
of them is safety. The runs of section 4 are counterexamples.

## 6. What is not modelled

LVGL's layout and events, the slide between pages, frame counts and performance
samples, and the generated application registry have no protocol. JSON scanning
is an assumption of `IsWhole`; text lengths, number formats and timestamps are
data: a message is what its handler makes of it. The semantic check that a
`"status":"ok"` written with other white space is not recognized
(`watch_actions.c:10`) is such a detail. That the clock is in whole seconds and
may be set back is covered by `Timeout` being possible at any moment. The
platform's constants, the device description, the recovery tool and the scripts
have no state at run time or run offline. Power loss (as opposed to the end of
the process) is not in `WatchCache`: `save` does not call `fsync`, and the
simulator has only processes. `push` and `pop` of the navigation stack are
called by tests only.

A save is one step in `WatchSystem`, and its record has no stale marks. The steps of
a save, each with its failure and with the end of the process between any two, and
the marks are in `WatchCache`, whose host data is one value. That the one step stands
for the three is by reading: `FileIsReplacedWhole` says that a save leaves the file
as it was or replaces it whole by the record in memory.

`WatchSystem` and `WatchLoop` are not composed into one. The first takes frames as
indivisible and delivered in order; the second is shown to implement two such
queues, `LinkPromise`, and leaves open what a handler answers, which covers what
the first makes it answer. That the queues of `WatchSystem` behave like those of
`LinkPromise` is by reading, not by proof: `WatchSystem` leaves out the frames
that change no state, and its host's side ends with the loss instead of a little
later.

## 7. Plan

Done: synchronization with its promise and its slots, the system of watch and
host, the host's store, the cache, the link with both decoders and its promise,
the loop with keys and touches, and the proofs of section 5, which cover every
safety property and every refinement of the passing runs. Left:

1. An abstract store for `HostStore` (the state of one revision, moved by one
   operation or by a snapshot) and one for the cache (the file holds one of the
   records that were captured), each with its refinement.
2. What the cache keeps of a press made offline (`watch_runtime.c:141`): the
   models have it and no document judges it.
3. The click that a toolkit reports with a swipe (`renderer.c:100`), when a
   document says which page a touch is for.
