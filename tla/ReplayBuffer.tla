---------------------------- MODULE ReplayBuffer ----------------------------
(***************************************************************************)
(* The mutation buffer of watch_sync.c as the code keeps it: an array of   *)
(* slots, filled by buffer_mutation and emptied by the passes of           *)
(* replay_buffer's loop.  WatchSync abstracts the array by the set of its  *)
(* occupied slots and the loop by its outcome; the properties below say    *)
(* that this is what the loop computes, for any mutations at all, whether  *)
(* or not a host could have sent them together.                            *)
(***************************************************************************)
EXTENDS Integers, FiniteSets

CONSTANTS Paths, Values, Capacity, MaxRevision

ASSUME SlotsAssumption == Capacity \in Nat \ {0} /\ MaxRevision \in Nat

Data == [Paths -> Values]
Mutations == [revision : 1 .. MaxRevision, path : Paths, value : Values]
Slots == 1 .. Capacity
Empty == [revision |-> 0]     \* occupied = false

VARIABLES
    slots,      \* sync->buffered
    revision,   \* sync->revision
    syncing,    \* sync->syncing
    data,       \* the host-owned leaves of *state
    replaying,  \* control is in replay_buffer's loop
    start       \* history: what the last call of replay_buffer began with

vars == <<slots, revision, syncing, data, replaying, start>>

Occupied == {slots[i] : i \in {j \in Slots : slots[j] # Empty}}

\* The set-based account of the same buffer, taken when the call began.
Account == INSTANCE WatchSync WITH
    buffered <- start.buffered, log <- <<>>, hist <- <<>>, connected <- TRUE,
    asked <- 1, installed <- TRUE, HostDefaults <- {},
    WatchDefaults <- [p \in Paths |-> CHOOSE v \in Values : TRUE]

Init ==
    /\ slots = [i \in Slots |-> Empty]
    /\ revision \in 0 .. MaxRevision
    /\ syncing = TRUE
    /\ data \in Data
    /\ replaying = FALSE
    /\ start = [revision |-> revision, data |-> data, buffered |-> {}]

\* Mutant of buffer_mutation: no search for the same revision.
Buffer_NoDuplicateCheck(m) ==
    /\ ~replaying
    /\ syncing
    /\ m.revision > revision
    /\ \E i \in Slots :
          /\ slots[i] = Empty /\ \A j \in 1 .. i - 1 : slots[j] # Empty
          /\ slots' = [slots EXCEPT ![i] = m]
    /\ UNCHANGED <<revision, syncing, data, replaying, start>>

\* buffer_mutation, called by watch_sync_handle while syncing: nothing to do
\* when the revision has a slot, else the first free slot, if any.
Buffer(m) ==
    /\ ~replaying
    /\ syncing
    /\ m.revision > revision
    /\ \A i \in Slots : slots[i].revision # m.revision
    /\ \E i \in Slots :
          /\ slots[i] = Empty /\ \A j \in 1 .. i - 1 : slots[j] # Empty
          /\ slots' = [slots EXCEPT ![i] = m]
    /\ UNCHANGED <<revision, syncing, data, replaying, start>>

\* A sync_response: the snapshot is installed and replay_buffer is entered.
Install(n, d) ==
    /\ ~replaying
    /\ syncing
    /\ revision' = n
    /\ data' = d
    /\ replaying' = TRUE
    /\ start' = [revision |-> n, data |-> d, buffered |-> Occupied]
    /\ UNCHANGED <<slots, syncing>>

\* The for loop of one pass frees what the revision has reached.
AfterScan ==
    [i \in Slots |-> IF slots[i].revision <= revision THEN Empty ELSE slots[i]]

\* Mutant of replay_buffer: the pass does not advance the revision.
Apply_RevisionKept ==
    /\ replaying
    /\ \E i \in Slots :
          /\ slots[i].revision = revision + 1
          /\ data' = [data EXCEPT ![slots[i].path] = slots[i].value]
    /\ UNCHANGED <<revision, slots, syncing, replaying, start>>

\* Mutant of replay_buffer: the slot just applied stays occupied until the next pass.
Apply_SlotKept ==
    /\ replaying
    /\ \E i \in Slots :
          /\ slots[i].revision = revision + 1
          /\ data' = [data EXCEPT ![slots[i].path] = slots[i].value]
          /\ revision' = slots[i].revision
          /\ slots' = AfterScan
    /\ UNCHANGED <<syncing, replaying, start>>

\* A pass that finds revision + 1 applies it and frees its slot.
Apply ==
    /\ replaying
    /\ \E i \in Slots :
          /\ slots[i].revision = revision + 1
          /\ data' = [data EXCEPT ![slots[i].path] = slots[i].value]
          /\ revision' = slots[i].revision
          /\ slots' = [AfterScan EXCEPT ![i] = Empty]
    /\ UNCHANGED <<syncing, replaying, start>>

\* Mutant of replay_buffer: the slots passed over by the snapshot stay.
Return_StaleKept ==
    /\ replaying
    /\ \A i \in Slots : slots[i].revision # revision + 1
    /\ syncing' = (\E i \in Slots : slots[i].revision > revision + 1)
    /\ replaying' = FALSE
    /\ UNCHANGED <<revision, slots, data, start>>

\* A pass that does not find it returns; syncing tells whether a gap remains.
Return ==
    /\ replaying
    /\ \A i \in Slots : slots[i].revision # revision + 1
    /\ slots' = AfterScan
    /\ syncing' = (\E i \in Slots : slots[i].revision > revision + 1)
    /\ replaying' = FALSE
    /\ UNCHANGED <<revision, data, start>>

\* watch_sync_disconnected, and watch_sync_connected of the next connection.
Reconnect ==
    /\ ~replaying
    /\ slots' = [i \in Slots |-> Empty]
    /\ syncing' = TRUE
    /\ start' = [revision |-> revision, data |-> data, buffered |-> {}]
    /\ UNCHANGED <<revision, data, replaying>>

Next ==
    \/ \E m \in Mutations : Buffer(m)
    \/ \E n \in 0 .. MaxRevision, d \in Data : Install(n, d)
    \/ Apply
    \/ Return
    \/ Reconnect

Spec == Init /\ [][Next]_vars /\ WF_vars(Apply \/ Return)
-----------------------------------------------------------------------------
\* A slot is free or holds a mutation, and no revision has two slots (else
\* `next` would depend on the slots' order and one of the two would be lost).
SlotsWellFormed ==
    /\ slots \in [Slots -> Mutations \cup {Empty}]
    /\ \A i, j \in Slots :
          slots[i] # Empty /\ slots[i].revision = slots[j].revision => i = j

\* What replay_buffer has done when it returns is what WatchSync says of it in
\* one step: the contiguous run is applied with the last write of each leaf
\* winning, the rest stays in the buffer, and syncing is set iff it is not
\* empty.  The order of the slots plays no part, and the revision it ends at is
\* within the bound WatchSync's Next gives it.
ReturnsAsAccounted ==
    [][Return =>
          /\ revision \in start.revision .. start.revision + Capacity
          /\ Account!ReplayEndsAt(start.revision, revision)
          /\ data = Account!Replayed(start.data, start.revision, revision)
          /\ Occupied' = Account!Ahead(revision)
          /\ syncing' = (Account!Ahead(revision) # {})]_vars

\* The `while (true)` of replay_buffer is bounded: the mutations a call has applied
\* and those that still occupy a slot never outnumber the slots, so no call makes
\* more than Capacity passes and one, whatever was buffered or left from earlier
\* snapshots.
PassesAreBounded ==
    replaying => revision - start.revision + Cardinality(Occupied) <= Capacity

\* The `while (true)` of replay_buffer terminates.
ReplayTerminates == replaying ~> ~replaying
=============================================================================
