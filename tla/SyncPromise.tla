----------------------------- MODULE SyncPromise -----------------------------
(***************************************************************************)
(* What the synchronization service promises to the rest of the watch: the *)
(* renderer, the cache and the optimistic actions see the state of one     *)
(* revision of the host, which moves one revision at a time, or, on demand *)
(* only, as a whole to another revision.  There is no buffer, no message   *)
(* and no gap here; WatchSync is shown to implement this for any host, and *)
(* WatchSystem for the host of the repository, with restarts of the watch. *)
(***************************************************************************)
EXTENDS Integers

CONSTANTS
    Data,     \* the states of the host
    Starts    \* the states a watch may show when it starts again

VARIABLES
    last,     \* the host's revision
    hist,     \* the host's state at each of its revisions
    linked,   \* the watch has a connection
    waiting,  \* the watch has asked for a snapshot
    synced,   \* a snapshot was installed in this connection
    rev,      \* the revision the watch shows
    shown     \* the state the watch shows

hostVars == <<last, hist>>
watchVars == <<linked, waiting, synced, rev, shown>>
promiseVars == <<last, hist, linked, waiting, synced, rev, shown>>

Init ==
    /\ last \in Nat
    /\ hist \in [0 .. last -> Data]
    /\ linked = FALSE
    /\ waiting = FALSE
    /\ synced = FALSE
    /\ rev = 0
    /\ shown \in Data

Publish ==
    /\ last' = last + 1
    /\ \E d \in Data : hist' = [i \in 0 .. last + 1 |-> IF i <= last THEN hist[i] ELSE d]
    /\ UNCHANGED watchVars

NewSession ==
    /\ ~linked
    /\ last' = 0
    /\ hist' \in [{0} -> Data]
    /\ UNCHANGED watchVars

Link ==
    /\ ~linked
    /\ linked' = TRUE
    /\ waiting' = TRUE
    /\ UNCHANGED <<last, hist, synced, rev, shown>>

Unlink ==
    /\ linked' = FALSE
    /\ waiting' = FALSE
    /\ synced' = FALSE
    /\ UNCHANGED hostVars

\* The shown state moves to the state of some revision, as a whole.
Move ==
    /\ waiting
    /\ rev' \in 0 .. last
    /\ shown' = hist[rev']

Lose ==
    /\ linked
    /\ Unlink
    /\ UNCHANGED <<rev, shown>> \/ Move

Ask ==
    /\ linked
    /\ ~waiting
    /\ waiting' = TRUE
    /\ UNCHANGED <<last, hist, linked, synced, rev, shown>>

Install ==
    /\ linked
    /\ Move
    /\ synced' = TRUE
    /\ waiting' \in BOOLEAN
    /\ UNCHANGED <<last, hist, linked>>

\* The shown state moves to the next revision, of a state already shown.
Advance ==
    /\ linked
    /\ synced
    /\ ~waiting
    /\ rev < last
    /\ rev' = rev + 1
    /\ shown' = hist[rev']
    /\ UNCHANGED <<last, hist, linked, waiting, synced>>

\* The process of the watch starts again, with what it kept of the state.
Restart ==
    /\ Unlink
    /\ rev' = 0
    /\ shown' \in Starts

Next ==
    Publish \/ NewSession \/ Link \/ Lose \/ Ask \/ Install \/ Advance \/ Restart

Spec == Init /\ [][Next]_promiseVars
=============================================================================
