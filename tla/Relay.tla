------------------------------- MODULE Relay --------------------------------
(***************************************************************************)
(* What the ground receiver promises: the telemetry packets it hears are   *)
(* handed to the computer in the order they were heard, each at most once, *)
(* and only those whose checksum is right.  It may hold on to the last one *)
(* or two.                                                                 *)
(***************************************************************************)
EXTENDS Sequences, Naturals

CONSTANTS
  Telemetry,      \* what the rocket can send
  Payload(_),     \* the part of a packet that is handed on
  Intact(_)       \* its checksum is right

VARIABLES
  held,           \* packets heard and not dealt with yet
  out             \* payload handed on last

vars == <<held, out>>

Init == held = <<>> /\ out = <<>>

Hear(m) == held' = Append(held, m) /\ UNCHANGED out

Deal ==
  /\ held # <<>>
  /\ out' = IF Intact(Head(held)) THEN Payload(Head(held)) ELSE out
  /\ held' = Tail(held)

Next == Deal \/ \E m \in Telemetry : Hear(m)

Spec == Init /\ [][Next]_vars
=============================================================================
