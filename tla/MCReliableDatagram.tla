------------------------- MODULE MCReliableDatagram -------------------------
(* Values of the constants of ReliableDatagram for TLC.                     *)
EXTENDS ReliableDatagram, TLC

CONSTANTS a, b, c
ThreeNodes == {a, b, c}

\* Two nodes send, and a third only listens.
SomeEach == (a :> 2) @@ (b :> 1) @@ (c :> 0)
=============================================================================
