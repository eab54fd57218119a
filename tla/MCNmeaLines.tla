---------------------------- MODULE MCNmeaLines -----------------------------
(* NmeaLines with an RMC and a GGA sentence that report different places.   *)
EXTENDS NmeaLines

MCLatitudes == <<4, 7>>

\* The line buffers of the instance hold a sentence, as those of the code do.
ASSUME FitAssumption == LinesFit
=============================================================================
