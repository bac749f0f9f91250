----------------------------- MODULE LinkPromise -----------------------------
(***************************************************************************)
(* What the connection between watch and host promises to whoever uses it: *)
(* two queues of frames.  A frame is acted on whole, in the order of the   *)
(* writing, or not at all; a new connection begins with empty queues; and  *)
(* a side ends the connection over a frame only if it may.  There are no   *)
(* bytes, reads or decoders here; WatchLoop is shown to implement this.    *)
(* WatchSystem takes queues like these for granted.                        *)
(***************************************************************************)
EXTENDS Integers, Sequences

CONSTANTS
    WatchFrames,   \* what the watch writes
    HostFrames,    \* what the host writes
    Opening,       \* the frames a connection begins with
    MayTake,       \* the host's frames the watch may act on
    MustTake       \* the host's frames the watch may not refuse

VARIABLES
    up,            \* the watch has the connection
    serving,       \* the host has it
    torn,          \* a frame of the watch was not written whole
    toWatch,       \* the host's frames the watch has not acted on
    toHost,        \* the watch's frames the host has not acted on
    watchError,    \* why the watch ended the connection last
    hostError      \* why the host did

linkVars == <<up, serving, torn, toWatch, toHost, watchError, hostError>>

Init ==
    /\ up = FALSE /\ serving = FALSE /\ torn = FALSE
    /\ toWatch = <<>> /\ toHost = <<>>
    /\ watchError = "" /\ hostError = ""
-----------------------------------------------------------------------------
\* Both sides begin afresh, when neither has the old connection any more.  The
\* opening may be torn, and then the watch gives up at once.
Open ==
    /\ ~up /\ ~serving
    /\ serving' = TRUE
    /\ toWatch' = <<>>
    /\ watchError' = "" /\ hostError' = ""
    /\ \/ up' = TRUE /\ torn' = FALSE /\ toHost' = Opening
       \/ /\ up' = FALSE /\ torn' = TRUE
          /\ \E n \in 0 .. Len(Opening) - 1 : toHost' = SubSeq(Opening, 1, n)

\* Nothing is acted on after a frame that was torn.
Send(f) ==
    /\ toHost' = IF serving /\ ~torn THEN Append(toHost, f) ELSE toHost
    /\ UNCHANGED torn

Tear == torn' \in {torn, TRUE} /\ UNCHANGED toHost

WatchSends ==
    /\ up
    /\ Tear \/ \E f \in WatchFrames : Send(f)
    /\ UNCHANGED <<up, serving, toWatch, watchError, hostError>>

HostSends ==
    /\ serving
    /\ \E f \in HostFrames : toWatch' = IF up THEN Append(toWatch, f) ELSE toWatch
    /\ UNCHANGED <<up, serving, torn, toHost, watchError, hostError>>
-----------------------------------------------------------------------------
WatchCloses == up' = FALSE /\ toWatch' = <<>>
HostCloses == serving' = FALSE /\ toHost' = <<>>

\* The next frame is acted on, and perhaps answered; or what it asks for fails.
WatchTakes ==
    /\ up /\ toWatch # <<>> /\ Head(toWatch) \in MayTake
    /\ \/ /\ toWatch' = Tail(toWatch)
          /\ UNCHANGED <<toHost, torn>> \/ \E f \in WatchFrames : Send(f)
          /\ UNCHANGED <<up, watchError>>
       \/ WatchCloses /\ watchError' = "handler" /\ Tear
    /\ UNCHANGED <<serving, hostError>>

WatchRefuses ==
    /\ up /\ toWatch # <<>> /\ Head(toWatch) \notin MustTake
    /\ WatchCloses /\ watchError' = "frame"
    /\ UNCHANGED <<serving, torn, toHost, hostError>>

WatchSeesEnd ==
    /\ up /\ ~serving
    /\ WatchCloses
    /\ UNCHANGED <<serving, torn, toHost, watchError, hostError>>

HostTakes ==
    /\ serving /\ toHost # <<>>
    /\ toHost' = Tail(toHost)
    /\ UNCHANGED <<up, serving, torn, toWatch, watchError, hostError>>

HostRefuses ==
    /\ serving /\ torn
    /\ HostCloses /\ hostError' = "frame"
    /\ UNCHANGED <<up, torn, toWatch, watchError>>

HostSeesEnd ==
    /\ serving /\ ~up
    /\ HostCloses
    /\ UNCHANGED <<up, torn, toWatch, watchError, hostError>>

\* What the host has written may still arrive, until the watch sees the end.
LinkBreaks ==
    /\ serving
    /\ HostCloses /\ hostError' = "io"
    /\ UNCHANGED <<up, torn, toWatch, watchError>>
-----------------------------------------------------------------------------
Next ==
    \/ Open \/ WatchSends \/ HostSends
    \/ WatchTakes \/ WatchRefuses \/ WatchSeesEnd
    \/ HostTakes \/ HostRefuses \/ HostSeesEnd \/ LinkBreaks

Spec == Init /\ [][Next]_linkVars
=============================================================================
