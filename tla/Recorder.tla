------------------------------ MODULE Recorder ------------------------------
(***************************************************************************)
(* What the recording side of the flight computer promises, without        *)
(* saying how: packets are collected in batches of a fixed size, a full    *)
(* batch is handed over as a unit, and it reaches the flash file complete  *)
(* and unchanged or (when the file cannot be opened) not at all, while     *)
(* the next one is already being collected.  Packets built while a full    *)
(* batch waits to be handed over are not recorded.                         *)
(***************************************************************************)
EXTENDS Naturals, Sequences

CONSTANTS
  BatchSize,      \* packets in a batch
  Stamps, NextStamp, FirstStamp

VARIABLES
  newest,         \* stamp of the last packet built
  pending,        \* the batch being collected
  saving,         \* the batch being written, <<>> if none
  stored          \* the batch written last

vars == <<newest, pending, saving, stored>>

Init ==
  /\ newest = FirstStamp
  /\ pending = <<>> /\ saving = <<>> /\ stored = <<>>

Collect ==
  /\ newest' = NextStamp[newest]
  /\ pending' = IF Len(pending) < BatchSize THEN Append(pending, newest')
                ELSE pending
  /\ UNCHANGED <<saving, stored>>

HandOver ==
  /\ Len(pending) = BatchSize
  /\ saving = <<>>
  /\ saving' = pending
  /\ pending' = <<>>
  /\ UNCHANGED <<newest, stored>>

Save ==
  /\ saving # <<>>
  /\ stored' \in {saving, stored}
  /\ saving' = <<>>
  /\ UNCHANGED <<newest, pending>>

Next == Collect \/ HandOver \/ Save

\* Packets keep coming, a full batch is handed over, a write ends.
Spec ==
  /\ Init /\ [][Next]_vars
  /\ WF_vars(Collect) /\ WF_vars(HandOver) /\ WF_vars(Save)
=============================================================================
