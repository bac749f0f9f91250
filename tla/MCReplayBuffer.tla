--------------------------- MODULE MCReplayBuffer ---------------------------
(* The slot array on a small instance, for TLC.                            *)
EXTENDS ReplayBuffer

MCPaths == {"playing", "title"}
MCValues == {0, 1}
=============================================================================
