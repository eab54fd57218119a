---------------------------- MODULE MCGrounduino ----------------------------
(* Grounduino with packets of seven bytes, two of them payload.             *)
EXTENDS Grounduino

\* Two intact packets, one with an N in its payload, and a torn one.
MCTelemetry ==
  { [payload |-> p, sum |-> Checksum(p)] : p \in {<<{0}, {0, 1}>>, <<N, U>>} }
    \union {[payload |-> <<{0}, N>>, sum |-> {}]}

\* Noise without an N, of two lengths.
MCNoise == {<<Space, X>>, <<U, {0}, X>>}

\* Another sender's message that has an N in it.
MCForeign == {<<N>>, <<{}, {1}>>}
=============================================================================
