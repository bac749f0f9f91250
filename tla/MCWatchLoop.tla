---- MODULE MCWatchLoop ----
\* The instance TLC checks of WatchLoop: frames of one to three bytes, one of
\* each kind the decoders and the handlers tell apart.
EXTENDS WatchLoop

Plain(type) == Frame(type, HostRequires[type], 1)
MCHostFrames ==
    {[Plain("state_patch") EXCEPT !.cr = TRUE],
     Plain("refresh"),
     [Plain("pong") EXCEPT !.size = MaxFrame],
     [Plain("pong") EXCEPT !.size = MaxFrame + 1],
     [Plain("pong") EXCEPT !.sound = FALSE],
     [Plain("command_result") EXCEPT !.replyTo = FALSE]}
MCMoves == {<<-50, 24>>, <<50, 25>>}
====
