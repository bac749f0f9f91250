----------------------------- MODULE MCWatchSync -----------------------------
(* The synchronization service on a small instance, for TLC.               *)
EXTENDS WatchSync

\* Two leaves that tell mutations apart, as music.playing and music.title do.
MCPaths == {"playing", "title"}
MCValues == {0, 1}
MCWatchDefaults == [p \in MCPaths |-> 0]
MCHostDefaults == {[p \in MCPaths |-> 1]}
=============================================================================
