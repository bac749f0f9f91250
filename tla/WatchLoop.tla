------------------------------ MODULE WatchLoop ------------------------------
(***************************************************************************)
(* The main loop of the watch (watch_runtime_run) over its inputs: each    *)
(* pass polls the transport (WireLink), then the flags two interrupt       *)
(* handlers set (watch_input.c), then runs LVGL's timers, which hand in    *)
(* what the finger did (renderer.c, watch_gesture.c).  The interrupts, the *)
(* host and the network act between any two steps of it.                   *)
(*                                                                         *)
(* A touch is one step: LVGL samples it over many passes, but only its two *)
(* ends count.  After a touch the toolkit may report a short click as      *)
(* well; it is not part of this code, so whether it does is left open.     *)
(***************************************************************************)
EXTENDS WireLink

CONSTANTS
    ScreenCount,   \* WATCH_SCREEN_COUNT
    MusicScreen,   \* WATCH_SCREEN_MUSIC
    MinDistance,   \* WATCH_SWIPE_MIN_DISTANCE
    Moves,         \* <<x, y>> between the two ends of a touch
    MaxEvents      \* bound on what happens from outside

ASSUME LoopAssumption ==
    /\ ScreenCount \in Nat \ {0} /\ MusicScreen \in 0 .. ScreenCount - 1
    /\ MinDistance \in Nat \ {0} /\ Moves \subseteq Int \X Int /\ MaxEvents \in Nat

VARIABLES
    pc,               \* position in the loop
    pendingButton,    \* the two atomic_t of watch_input.c
    pendingActivate,
    event,            \* what watch_input_poll returned
    waiting,          \* history: the keys pressed and not acted on since
    screen,           \* the current page
    events            \* counts what MaxEvents bounds

inputVars == <<pendingButton, pendingActivate, event, waiting>>
loopVars == <<pc, inputVars, screen>>
vars == <<linkVars, loopVars, events>>

Init ==
    /\ LinkInit
    /\ pc = "connect"
    /\ pendingButton = FALSE /\ pendingActivate = FALSE /\ event = "none" /\ waiting = {}
    /\ screen \in 0 .. ScreenCount - 1   \* the cache may have restored it
    /\ events = 0

Happens == events < MaxEvents /\ events' = events + 1
-----------------------------------------------------------------------------
(* The pass of the loop: transport_poll.                                   *)

Goto(from, to) ==
    pc = from /\ pc' = to /\ UNCHANGED <<inputVars, screen>>

\* connect_if_due: it connects, fails, or nothing is due.
PollConnect ==
    \/ Goto("connect", "receive") /\ Connect /\ UNCHANGED events
    \/ Goto("connect", "activate") /\ ConnectCut /\ Happens
    \/ Goto("connect", "receive") /\ socket /\ UNCHANGED <<linkVars, events>>
    \/ Goto("connect", "activate") /\ ~socket /\ UNCHANGED <<linkVars, events>>

\* zsock_recv: bytes, the end, or EAGAIN.
PollReceive ==
    /\ \/ Goto("receive", "push") /\ Receive
       \/ Goto("receive", "activate") /\ ReceiveEnd
       \/ Goto("receive", "activate") /\ toWatch = <<>> /\ serving /\ UNCHANGED linkVars
    /\ UNCHANGED events

\* watch_frame_decoder_push.
PollPush ==
    \/ Goto("push", "push") /\ (PushByte \/ PushEmpty \/ PushMessage) /\ UNCHANGED events
    \/ Goto("push", "activate") /\ PushRefused /\ UNCHANGED events
    \/ Goto("push", "activate") /\ PushFails /\ Happens
    \/ Goto("push", "activate") /\ chunk = <<>> /\ UNCHANGED <<linkVars, events>>
-----------------------------------------------------------------------------
(* watch_input.c and handle_action.                                        *)

\* button_isr and activate_isr.
ButtonISR ==
    /\ pendingButton' = TRUE /\ waiting' = waiting \cup {"button"}
    /\ UNCHANGED <<pc, pendingActivate, event, screen, linkVars>>

ActivateISR ==
    /\ pendingActivate' = TRUE /\ waiting' = waiting \cup {"activate"}
    /\ UNCHANGED <<pc, pendingButton, event, screen, linkVars>>

\* Mutant: the poll takes both flags and returns one.
PollActivate_ClearsBoth ==
    /\ pc = "activate"
    /\ IF pendingActivate THEN event' = "activate" /\ pc' = "handle" /\ pendingButton' = FALSE
       ELSE event' = "none" /\ pc' = "button" /\ UNCHANGED pendingButton
    /\ pendingActivate' = FALSE
    /\ UNCHANGED <<waiting, screen, linkVars, events>>

\* watch_input_poll: a compare-and-set each, the second only if the first
\* found nothing.
PollActivate ==
    /\ pc = "activate"
    /\ IF pendingActivate THEN event' = "activate" /\ pc' = "handle"
       ELSE event' = "none" /\ pc' = "button"
    /\ pendingActivate' = FALSE
    /\ UNCHANGED <<pendingButton, waiting, screen, linkVars, events>>

PollButton ==
    /\ pc = "button"
    /\ IF pendingButton THEN event' = "button" /\ pc' = "handle"
       ELSE event' = "none" /\ pc' = "timers"
    /\ pendingButton' = FALSE
    /\ UNCHANGED <<pendingActivate, waiting, screen, linkVars, events>>

NextScreen == (screen + 1) % ScreenCount
PreviousScreen == IF screen = 0 THEN ScreenCount - 1 ELSE screen - 1

\* handle_action, RENDERER_ACTION_ACTIVATE: on Music it sends the action, unless
\* one is pending; a send that fails does not end the connection.
Activate(page) ==
    \/ page = MusicScreen /\ socket /\ (Send(SetPlaying) \/ SendCut(SetPlaying))
    \/ UNCHANGED <<wires, logs>>

Flagged == {k \in {"button", "activate"} :
              IF k = "button" THEN pendingButton ELSE pendingActivate}

\* What the poll returned is handled; a key pressed since the poll still waits.
Handle ==
    /\ pc = "handle" /\ pc' = "timers"
    /\ event' = "none"
    /\ waiting' = {k \in waiting : k # event \/ k \in Flagged}
    /\ IF event = "activate" THEN Activate(screen) /\ UNCHANGED screen
       ELSE screen' = NextScreen /\ UNCHANGED <<wires, logs>>
    /\ UNCHANGED <<pendingButton, pendingActivate, watchSide, hostSide, events>>
-----------------------------------------------------------------------------
(* lv_timer_handler: gesture_event and activate_event.                     *)

Magnitude(d) == IF d < 0 THEN -d ELSE d

\* watch_swipe_classify.
Swipe(dx, dy) ==
    IF Magnitude(dx) >= MinDistance /\ Magnitude(dx) > 2 * Magnitude(dy)
      THEN IF dx < 0 THEN "next" ELSE "previous"
    ELSE IF Magnitude(dy) >= MinDistance /\ Magnitude(dy) > 2 * Magnitude(dx)
      THEN IF dy < 0 THEN "next_item" ELSE "previous_item"
    ELSE "none"

\* The page after the swipe is the one a click reported with it acts on.  The
\* items of Notifications are WatchCache's.
Touch ==
    \E m \in Moves :
        LET swipe == Swipe(m[1], m[2])
            page == CASE swipe = "next" -> NextScreen
                      [] swipe = "previous" -> PreviousScreen
                      [] OTHER -> screen
        IN screen' = page /\ (Activate(page) \/ UNCHANGED <<wires, logs>>)

\* The timers, and k_sleep.
Timers ==
    /\ pc = "timers" /\ pc' = "connect"
    /\ \/ Touch /\ Happens
       \/ UNCHANGED <<screen, wires, logs, events>>
    /\ UNCHANGED <<inputVars, watchSide, hostSide>>
-----------------------------------------------------------------------------
Loop == PollConnect \/ PollReceive \/ PollPush \/ PollActivate \/ PollButton \/ Handle \/ Timers

Host == /\ HostReads \/ HostSeesEnd \/ HostPushes \/ HostRefuses \/ HostPushed \/ HostServes
        /\ UNCHANGED <<loopVars, events>>

Environment ==
    /\ Happens
    /\ \/ ButtonISR \/ ActivateISR
       \/ (HostWrites \/ HostWritesEmpty \/ LinkBreaks) /\ UNCHANGED loopVars

Next == Loop \/ Host \/ Environment

\* The loop runs, the host's process runs, and an attempt to connect succeeds
\* sooner or later when the host listens.
Spec ==
    /\ Init /\ [][Next]_vars
    /\ WF_vars(Loop) /\ WF_vars(Host)
    /\ SF_vars(PollConnect /\ Connect)
-----------------------------------------------------------------------------
WatchFrames == {Hello, SyncRequest, SetPlaying, Unsupported}
Frames == HostFrames \cup WatchFrames
WireBytes == {LF, CR} \cup (Nat \X Nat)

TypeOK ==
    /\ socket \in BOOLEAN /\ serving \in BOOLEAN
    /\ toWatch \in Seq(WireBytes) /\ toHost \in Seq(WireBytes)
    /\ hostLog \in Seq(HostFrames) /\ watchLog \in Seq(Frames)
    /\ cut \in 0 .. Len(watchLog)
    /\ decoder \in Seq(WireBytes) /\ Len(decoder) <= MaxFrame
    /\ chunk \in Seq(WireBytes) /\ Len(chunk) <= WatchChunk
    /\ handled \in Seq(Nat) /\ decoded \in Seq(Nat) /\ served \in Seq(Nat)
    /\ buffered \in Seq(WireBytes) /\ Len(buffered) <= MaxFrame + HostChunk
    /\ phase \in {"read", "push", "serve"}
    /\ watchError \in {"", "frame", "handler"} /\ hostError \in {"", "frame", "io"}
    /\ pc \in {"connect", "receive", "push", "activate", "button", "handle", "timers"}
    /\ pendingButton \in BOOLEAN /\ pendingActivate \in BOOLEAN
    /\ event \in {"none", "button", "activate"}
    /\ waiting \subseteq {"button", "activate"}
    /\ screen \in 0 .. ScreenCount - 1
    /\ events \in 0 .. MaxEvents

Count(n) == [k \in 1 .. n |-> k]

\* ADR 0002: a decoder "never treats a partial frame as a message".  However the
\* stream is cut into reads, the watch handles the frames of this connection
\* whole, in order, none twice and none left out, and only sound ones.
WatchReadsInOrder ==
    /\ handled = Count(Len(handled)) /\ Len(handled) <= Len(hostLog)
    /\ \A n \in DOMAIN handled : hostLog[n].sound /\ Valid(hostLog[n])

\* The same for the host, and a frame the watch could not send whole is never
\* acted on, nor is anything the watch sends on that connection after it: what
\* the watch has rolled back as "HOST OFFLINE" the host has not done.
HostReadsInOrder ==
    LET read == served \o decoded
    IN /\ read = Count(Len(read)) /\ Len(read) <= Len(watchLog)
       /\ cut # 0 => Len(read) < cut

\* docs/protocol.md, TCP framing.
Legal(f) == f.sound /\ Valid(f) /\ f.size + (IF f.cr THEN 1 ELSE 0) <= MaxFrame

\* Neither side ends the connection over a frame that is legal and was written
\* whole: the two tables of fields agree, the two limits agree, and where a read
\* happens to end does not matter.  The CR counts toward the limit here.
LegalFramesAreAccepted ==
    /\ watchError = "frame" =>
         Len(handled) < Len(hostLog) /\ ~Legal(hostLog[Len(handled) + 1])
    /\ hostError = "frame" => cut # 0

\* No frame waits for a later one to be read: each is handled once its last byte
\* is written, unless its connection ends first.
FramesArrive ==
    /\ Len(handled) < Len(hostLog) ~> (Len(handled) >= Len(hostLog) \/ ~socket)
    /\ Len(served) < Len(watchLog) ~> (Len(served) >= Len(watchLog) \/ cut # 0 \/ ~serving)

\* Whichever side ended the connection, and with whatever left in a buffer, the
\* watch has one again.
Reconnects == []<>(socket /\ serving)

\* A key pressed at any moment, between the two flags' tests or while the other
\* key is handled, is acted on.
KeysAreServed == \A k \in {"button", "activate"} : k \in waiting ~> k \notin waiting

\* A press is on record from its interrupt until it is acted on: its flag is set,
\* or the poll has returned it.
NoPressIsLost == waiting \subseteq Flagged \cup {event}
-----------------------------------------------------------------------------
(* Refinement.                                                             *)

\* The frames written whole on this connection and not acted on.
Unhandled == IF socket THEN SubSeq(hostLog, Len(handled) + 1, Len(hostLog)) ELSE <<>>
Unserved ==
    IF serving
    THEN SubSeq(watchLog, Len(served) + 1, IF cut = 0 THEN Len(watchLog) ELSE cut - 1)
    ELSE <<>>

Link == INSTANCE LinkPromise WITH
    up <- socket, torn <- (cut # 0), toWatch <- Unhandled, toHost <- Unserved,
    Opening <- <<Hello, SyncRequest>>,
    MayTake <- {f \in HostFrames : f.sound /\ Valid(f)},
    MustTake <- {f \in HostFrames : Legal(f)}

\* Implementation of the abstract link: every step of the loop, of the host and of
\* the network, whatever it does to the bytes, is a step of LinkPromise on whole
\* frames or leaves it unchanged.  Such queues are what WatchSystem takes for granted.
ImplementsLink == Link!Spec
=============================================================================
