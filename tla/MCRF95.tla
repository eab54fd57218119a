------------------------------- MODULE MCRF95 -------------------------------
(* RF95 with two messages for this node, one for another node, one with a   *)
(* CRC error and one shorter than its header.                               *)
EXTENDS RF95

MCFrames ==
  { [msg |-> "m1", len |-> 6, addressed |-> TRUE, intact |-> TRUE],
    [msg |-> "m2", len |-> 4, addressed |-> TRUE, intact |-> TRUE],
    [msg |-> "theirs", len |-> 6, addressed |-> FALSE, intact |-> TRUE],
    [msg |-> "broken", len |-> 6, addressed |-> TRUE, intact |-> FALSE],
    [msg |-> "short", len |-> 2, addressed |-> TRUE, intact |-> TRUE] }
=============================================================================
