------------------------------ MODULE Mailbox -------------------------------
(***************************************************************************)
(* What the receiving half of a radio driver promises: a box for one       *)
(* message.  A message that reaches the box stays there, unchanged, until  *)
(* it is collected, and is collected once.                                 *)
(***************************************************************************)
CONSTANTS
  Messages,       \* what a message can carry
  Nothing         \* an empty box

VARIABLES
  box,            \* the message that waits to be collected
  got             \* the message collected last

vars == <<box, got>>

Init == box = Nothing /\ got = Nothing

Put(m) == box = Nothing /\ box' = m /\ UNCHANGED got

Take == box # Nothing /\ got' = box /\ box' = Nothing

Next == Take \/ \E m \in Messages : Put(m)

Spec == Init /\ [][Next]_vars
=============================================================================
