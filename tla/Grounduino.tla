----------------------------- MODULE Grounduino -----------------------------
(***************************************************************************)
(* The ground receiver, grounduino/grounduino.ino: every message the radio *)
(* hears goes into a ring of bytes; once two packets' worth are there, the *)
(* ring is searched for the tag "NUx " and the packet behind it is checked *)
(* and passed on over the serial line.                                     *)
(*                                                                         *)
(* A byte is the set of its bits, so that XOR is symmetric difference.     *)
(* Each popq() of the search is a step; nothing else runs meanwhile.       *)
(* Operators whose name ends in _ are broken variants of the definition    *)
(* that follows them, used by nothing.                                     *)
(***************************************************************************)
EXTENDS Integers, Sequences, FiniteSets

CONSTANTS
  PacketSize,     \* PACKET_SIZE
  RingSize,       \* bytes of queue, and the range of head and tail
  Telemetry,      \* packets of the rocket: [payload, sum], whole or torn
  Noise,          \* messages of other senders on the band
  NoiseLimit      \* bound: bytes of noise in the ring at a time

Byte == SUBSET (0 .. 7)

ASSUME SizeAssumption ==
  /\ PacketSize \in Nat /\ PacketSize > 5
  /\ RingSize \in Nat /\ RingSize > 3 * PacketSize
ASSUME MessageAssumption ==
  /\ \A m \in Telemetry : m.payload \in [1 .. PacketSize - 5 -> Byte] /\ m.sum \in Byte
  /\ \A n \in Noise : n \in Seq(Byte) /\ Len(n) < RingSize
  /\ NoiseLimit \in Nat

VARIABLES
  queue, head, tail, sz,    \* the ring of bytes
  pc,                       \* what loop() does next: wait, look for a byte, forward
  done,                     \* a tag has been found
  out,                      \* payload written to the serial line last
  held                      \* history: packets pushed and not dealt with yet

ring == <<queue, head, tail, sz>>
vars == <<ring, pc, done, out, held>>

N == {1, 2, 3, 6}
U == {0, 2, 4, 6}
X == {3, 4, 5, 6}
Space == {5}

\* XOR of all bytes of p: the bits that are set in an odd number of them.
Checksum(p) == {b \in 0 .. 7 : Cardinality({i \in DOMAIN p : b \in p[i]}) % 2 = 1}

\* A packet as the rocket sends it.
Sent(m) == <<N, U, X, Space>> \o m.payload \o <<m.sum>>
Intact(m) == m.sum = Checksum(m.payload)
Payload(m) == m.payload

\* The n-th byte from the head of the ring.
Peek(n) == queue[(head + n) % RingSize]

\* tail is not wrapped.
PushUnwrapped_(x) ==
  IF RingSize - 1 - sz < Len(x) THEN UNCHANGED ring
  ELSE LET at(i) == (i + RingSize - tail) % RingSize IN
    /\ queue' = [i \in 0 .. RingSize - 1 |->
                   IF at(i) < Len(x) THEN x[at(i) + 1] ELSE queue[i]]
    /\ tail' = tail + Len(x)
    /\ sz' = sz + Len(x)
    /\ UNCHANGED head

\* pushq: all of x or nothing.
Push(x) ==
  IF RingSize - 1 - sz < Len(x) THEN UNCHANGED ring
  ELSE LET at(i) == (i + RingSize - tail) % RingSize IN
    /\ queue' = [i \in 0 .. RingSize - 1 |->
                   IF at(i) < Len(x) THEN x[at(i) + 1] ELSE queue[i]]
    /\ tail' = (tail + Len(x)) % RingSize
    /\ sz' = sz + Len(x)
    /\ UNCHANGED head

\* n calls of popq.
Pop(n) ==
  /\ head' = (head + n) % RingSize
  /\ sz' = sz - n
  /\ UNCHANGED <<queue, tail>>

-----------------------------------------------------------------------------
\* The search starts as soon as one packet may be there ...
ReceiveEager_(x) ==
  /\ pc = "wait"
  /\ Push(x)
  /\ pc' = IF sz' >= PacketSize THEN "N" ELSE "wait"
  /\ done' = FALSE
  /\ UNCHANGED out

\* ... or only when three may be.
ReceiveLazy_(x) ==
  /\ pc = "wait"
  /\ Push(x)
  /\ pc' = IF sz' >= 3 * PacketSize THEN "N" ELSE "wait"
  /\ done' = FALSE
  /\ UNCHANGED out

\* recv into recvBuf, pushq, and the test for two packets.
Receive(x) ==
  /\ pc = "wait"
  /\ Push(x)
  /\ pc' = IF sz' >= 2 * PacketSize THEN "N" ELSE "wait"
  /\ done' = FALSE
  /\ UNCHANGED out

ReceivePacket ==
  \E m \in Telemetry : Receive(Sent(m)) /\ held' = Append(held, m)

\* Bytes in the ring that belong to no packet of the rocket.
NoiseHeld == sz - Len(held) * PacketSize

ReceiveNoise ==
  \E n \in Noise :
    /\ NoiseHeld + Len(n) <= NoiseLimit
    /\ Receive(n)
    /\ UNCHANGED held

\* for (x = 0; x != 'N'; x = popq())
SeekN ==
  /\ pc = "N"
  /\ Pop(1)
  /\ pc' = IF Peek(0) = N THEN "U" ELSE "N"
  /\ UNCHANGED <<done, out, held>>

\* Bottom of the while loop.
Again == IF done' /\ sz' >= PacketSize THEN "packet" ELSE "N"

\* popq() == 'U' && popq() == 'x', one byte at a time.
Expect(label, byte, next) ==
  /\ pc = label
  /\ Pop(1)
  /\ UNCHANGED done
  /\ pc' = IF Peek(0) = byte THEN next ELSE Again
  /\ UNCHANGED <<out, held>>

ExpectU == Expect("U", U, "X")
ExpectX == Expect("X", X, "space")

\* The space stays in the ring.
LeaveSpace_ ==
  /\ pc = "space"
  /\ Pop(0)
  /\ done' = TRUE
  /\ pc' = Again
  /\ UNCHANGED <<out, held>>

\* The rest of the tag.
PopSpace ==
  /\ pc = "space"
  /\ Pop(1)
  /\ done' = TRUE
  /\ pc' = Again
  /\ UNCHANGED <<out, held>>

\* The checksum is not compared.
ForwardUnchecked_ ==
  /\ pc = "packet"
  /\ out' = [i \in 1 .. PacketSize - 5 |-> Peek(i - 1)]
  /\ Pop(PacketSize - 4)
  /\ pc' = "wait"
  /\ held' = IF held = <<>> THEN <<>> ELSE Tail(held)
  /\ UNCHANGED done

\* Payload and checksum.
Forward ==
  /\ pc = "packet"
  /\ LET payload == [i \in 1 .. PacketSize - 5 |-> Peek(i - 1)]
     IN  out' = IF Checksum(payload) = Peek(PacketSize - 5) THEN payload ELSE out
  /\ Pop(PacketSize - 4)
  /\ pc' = "wait"
  /\ held' = IF held = <<>> THEN <<>> ELSE Tail(held)
  /\ UNCHANGED done

Init ==
  /\ queue = [i \in 0 .. RingSize - 1 |-> {}]
  /\ head = 0 /\ tail = 0 /\ sz = 0
  /\ pc = "wait"
  /\ done = FALSE
  /\ out = <<>>
  /\ held = <<>>

Step == SeekN \/ ExpectU \/ ExpectX \/ PopSpace \/ Forward

Next == ReceivePacket \/ ReceiveNoise \/ Step

\* Messages arrive or do not; loop() goes on.
Spec == Init /\ [][Next]_vars /\ WF_vars(Step)
-----------------------------------------------------------------------------
(* Properties                                                              *)

\* Every variable keeps to the values its declaration is meant for; sz counts
\* what is between head and tail.
TypeOK ==
  /\ queue \in [0 .. RingSize - 1 -> Byte]
  /\ head \in 0 .. RingSize - 1 /\ tail \in 0 .. RingSize - 1
  /\ sz \in 0 .. RingSize - 1
  /\ tail = (head + sz) % RingSize
  /\ pc \in {"wait", "N", "U", "X", "space", "packet"}
  /\ done \in BOOLEAN
  /\ out = <<>> \/ out \in [1 .. PacketSize - 5 -> Byte]
  /\ held \in Seq(Telemetry)

\* "only call this after checking queue sz": the search never pops an empty ring.
NeverPopsEmpty == pc \in {"N", "U", "X", "space"} => sz > 0

\* The payload about to be forwarded starts where a packet of the rocket does:
\* neither noise nor an N in some payload is taken for a tag.
InStep ==
  pc = "packet" =>
    /\ held # <<>>
    /\ \A i \in 1 .. PacketSize - 5 : Peek(i - 1) = Head(held).payload[i]
    /\ Peek(PacketSize - 5) = Head(held).sum

\* The receiver relays: in order, once, intact.
Relayed == INSTANCE Relay
RelaysAsPromised == Relayed!Spec

\* A packet is passed on as soon as another one is behind it, so that the search
\* for it always ends.
SecondFreesFirst == Len(held) >= 2 ~> Len(held) < 2
=============================================================================
