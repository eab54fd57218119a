----------------------------- MODULE MCAvionics -----------------------------
(* Avionics on small instances.  Stamps are counted modulo StampCount.      *)
EXTENDS Avionics

CONSTANT StampCount

\* The instances are of delays that fit, as those of the code are.
ASSUME FitAssumption == DelaysFit

MCStamps == 0 .. StampCount - 1
MCNextStamp == [s \in MCStamps |-> (s + 1) % StampCount]

\* The scheduler's ring with each task inserted behind the last one started,
\* and with each inserted right behind the main task.
StartOrder == [loop |-> "flash", flash |-> "radio", radio |-> "loop"]
ReverseOrder == [loop |-> "radio", radio |-> "flash", flash |-> "loop"]
=============================================================================
