-------------------------- MODULE GrounduinoProofs --------------------------
(***************************************************************************)
(* Proofs about Grounduino, for every size of packets and every ring that  *)
(* holds three of them and a byte, and every set of packets and messages   *)
(* of other senders, as long as the band is quiet (QuietBand).             *)
(***************************************************************************)
EXTENDS Grounduino, SequenceTheorems, TLAPS

\* Less than a packet of noise is in the ring at a time, and none has an N.
QuietBand ==
  /\ NoiseLimit < PacketSize
  /\ \A n \in Noise : \A i \in 1 .. Len(n) : n[i] # N

-----------------------------------------------------------------------------
(* The inductive invariant                                                 *)

\* From position p on, the ring holds packet m without its first k bytes.
Holds(p, m, k) == \A i \in k + 1 .. PacketSize : Peek(p + i - k - 1) = Sent(m)[i]

\* No byte from position a up to b is an N.
NoN(a, b) == \A i \in a .. b - 1 : Peek(i) # N

\* While loop() waits there is one packet at most, somewhere in the noise.
WaitInv ==
  \/ held = <<>> /\ sz <= NoiseLimit /\ NoN(0, sz)
  \/ /\ Len(held) = 1
     /\ sz <= PacketSize + NoiseLimit
     /\ \E s \in 0 .. sz - PacketSize :
          Holds(s, held[1], 0) /\ NoN(0, s) /\ NoN(s + PacketSize, sz)

\* The second of two packets is at the end of the ring, from position t on; of the
\* first, k bytes have been popped and the rest lies behind s bytes of noise.
TwoPackets(s, t, k) ==
  /\ Len(held) = 2
  /\ sz = t + PacketSize
  /\ sz <= 2 * PacketSize - k + NoiseLimit
  /\ s + PacketSize - k <= t
  /\ Holds(s, held[1], k) /\ Holds(t, held[2], 0)
  /\ NoN(0, s) /\ NoN(s + PacketSize - k, t)

SearchInv ==
  /\ pc = "wait" => WaitInv
  /\ pc = "N" => \E s, t \in 0 .. sz : TwoPackets(s, t, 0)
  /\ pc = "U" => \E t \in 0 .. sz : TwoPackets(0, t, 1)
  /\ pc = "X" => \E t \in 0 .. sz : TwoPackets(0, t, 2)
  /\ pc = "space" => \E t \in 0 .. sz : TwoPackets(0, t, 3)
  /\ pc = "packet" => \E t \in 0 .. sz : TwoPackets(0, t, 4)

RelayInv == TypeOK /\ SearchInv

-----------------------------------------------------------------------------
(* The ring                                                                *)

\* Indices wrap once at most.
Wrapped(a) == IF a < RingSize THEN a ELSE a - RingSize

LEMMA RingType == RingSize \in Nat /\ RingSize > 3 * PacketSize /\ PacketSize \in Nat /\ PacketSize > 5
  BY SizeAssumption

LEMMA Wrap ==
  ASSUME NEW a \in 0 .. 2 * RingSize - 1
  PROVE  a % RingSize = Wrapped(a) /\ Wrapped(a) \in 0 .. RingSize - 1
<1>1. RingSize \in Nat /\ RingSize > 0
  BY RingType
<1>2. CASE a < RingSize
  BY <1>1, <1>2 DEF Wrapped
<1>3. CASE a >= RingSize
  BY <1>1, <1>3 DEF Wrapped
<1> QED
  BY <1>1, <1>2, <1>3

LEMMA WrapSum ==
  ASSUME NEW a \in 0 .. RingSize - 1, NEW b \in 0 .. RingSize
  PROVE  (a + b) % RingSize = Wrapped(a + b) /\ Wrapped(a + b) \in 0 .. RingSize - 1
<1>1. a + b \in 0 .. 2 * RingSize - 1
  BY RingType
<1> QED
  BY <1>1, Wrap

\* A packet is PacketSize bytes: the tag, the payload, the checksum.
LEMMA SentBytes ==
  ASSUME NEW m \in Telemetry
  PROVE  /\ Sent(m) \in Seq(Byte) /\ Len(Sent(m)) = PacketSize
         /\ Sent(m)[1] = N /\ Sent(m)[2] = U /\ Sent(m)[3] = X /\ Sent(m)[4] = Space
         /\ \A i \in 1 .. PacketSize - 5 : Sent(m)[i + 4] = m.payload[i]
         /\ Sent(m)[PacketSize] = m.sum
<1> DEFINE tag == <<N, U, X, Space>>
           p == m.payload
<1>1. PacketSize \in Nat /\ PacketSize > 5
  BY SizeAssumption
<1>2. p \in [1 .. PacketSize - 5 -> Byte] /\ m.sum \in Byte
  BY MessageAssumption
<1>3. p \in Seq(Byte) /\ DOMAIN p = 1 .. PacketSize - 5
  BY <1>1, <1>2, SeqDef
<1>4. Len(p) = PacketSize - 5
  <2>1. Len(p) \in Nat /\ 1 .. Len(p) = 1 .. PacketSize - 5
    BY <1>3, LenProperties
  <2> QED
    BY <1>1, <2>1
<1>5. tag \in Seq(Byte) /\ Len(tag) = 4
  BY DEF Byte, N, U, X, Space
<1>6. <<m.sum>> \in Seq(Byte) /\ Len(<<m.sum>>) = 1
  BY <1>2
<1>7. /\ tag \o p \in Seq(Byte) /\ Len(tag \o p) = PacketSize - 1
      /\ \A i \in 1 .. PacketSize - 1 : (tag \o p)[i] = IF i <= 4 THEN tag[i] ELSE p[i - 4]
  BY <1>1, <1>3, <1>4, <1>5, ConcatProperties
<1>8. /\ Sent(m) \in Seq(Byte) /\ Len(Sent(m)) = PacketSize
      /\ \A i \in 1 .. PacketSize :
           Sent(m)[i] = IF i < PacketSize THEN (tag \o p)[i] ELSE <<m.sum>>[i - PacketSize + 1]
  BY <1>1, <1>6, <1>7, ConcatProperties DEF Sent
<1> HIDE DEF p
<1>9. \A i \in 1 .. 4 : Sent(m)[i] = tag[i]
  BY <1>1, <1>7, <1>8
<1>10. \A i \in 1 .. PacketSize - 5 : Sent(m)[i + 4] = p[i]
  BY <1>1, <1>7, <1>8
<1>11. Sent(m)[PacketSize] = m.sum
  BY <1>1, <1>8
<1> QED
  BY <1>8, <1>9, <1>10, <1>11 DEF p

\* popq() n times: what was behind the bytes popped moves up.
LEMMA PopBytes ==
  ASSUME TypeOK, NEW n \in 0 .. sz, Pop(n)
  PROVE  /\ sz' = sz - n /\ sz' \in 0 .. RingSize - 1
         /\ queue' \in [0 .. RingSize - 1 -> Byte]
         /\ head' \in 0 .. RingSize - 1 /\ tail' \in 0 .. RingSize - 1
         /\ tail' = (head' + sz') % RingSize
         /\ \A i \in 0 .. sz' : Peek(i)' = Peek(n + i)
<1>1. RingSize \in Nat /\ RingSize > 0
  BY RingType
<1>2. /\ head \in 0 .. RingSize - 1 /\ tail \in 0 .. RingSize - 1 /\ sz \in 0 .. RingSize - 1
      /\ tail = (head + sz) % RingSize /\ queue \in [0 .. RingSize - 1 -> Byte]
  BY DEF TypeOK
<1>3. /\ head' = (head + n) % RingSize /\ sz' = sz - n /\ queue' = queue /\ tail' = tail
  BY DEF Pop
<1>4. n \in 0 .. RingSize /\ sz \in 0 .. RingSize /\ sz' \in 0 .. RingSize
  BY <1>1, <1>2, <1>3
<1>5. head' = Wrapped(head + n) /\ head' \in 0 .. RingSize - 1 /\ sz' \in 0 .. RingSize - 1
  <2>1. head' = Wrapped(head + n) /\ head' \in 0 .. RingSize - 1
    BY <1>2, <1>3, <1>4, WrapSum
  <2>2. sz' \in 0 .. RingSize - 1
    BY <1>1, <1>2, <1>3
  <2> QED
    BY <2>1, <2>2
<1>6. (head' + sz') % RingSize = tail
  <2>1. tail = Wrapped(head + sz) /\ (head' + sz') % RingSize = Wrapped(head' + sz')
    BY <1>2, <1>4, <1>5, WrapSum
  <2>2. Wrapped(head' + sz') = Wrapped(head + sz)
    BY <1>1, <1>2, <1>3, <1>5 DEF Wrapped
  <2> QED
    BY <2>1, <2>2
<1>7. ASSUME NEW i \in 0 .. sz' PROVE Peek(i)' = Peek(n + i)
  <2>1. i \in 0 .. RingSize /\ n + i \in 0 .. RingSize
    BY <1>1, <1>2, <1>3
  <2>2. /\ (head' + i) % RingSize = Wrapped(head' + i)
        /\ (head + (n + i)) % RingSize = Wrapped(head + (n + i))
    BY <1>2, <1>5, <2>1, WrapSum
  <2>3. Wrapped(head' + i) = Wrapped(head + (n + i))
    BY <1>1, <1>2, <1>3, <1>5 DEF Wrapped
  <2>4. Peek(i)' = queue'[(head' + i) % RingSize] /\ Peek(n + i) = queue[(head + (n + i)) % RingSize]
    BY DEF Peek
  <2> QED
    BY <1>3, <2>2, <2>3, <2>4
<1> QED
  BY <1>2, <1>3, <1>5, <1>6, <1>7

\* pushq() of a message there is room for: it lies behind what was there.
LEMMA PushBytes ==
  ASSUME TypeOK, NEW x \in Seq(Byte), sz + Len(x) <= RingSize - 1, Push(x)
  PROVE  /\ sz' = sz + Len(x) /\ sz' \in 0 .. RingSize - 1
         /\ queue' \in [0 .. RingSize - 1 -> Byte]
         /\ head' \in 0 .. RingSize - 1 /\ tail' \in 0 .. RingSize - 1
         /\ tail' = (head' + sz') % RingSize
         /\ \A i \in 0 .. sz - 1 : Peek(i)' = Peek(i)
         /\ \A k \in sz .. sz + Len(x) - 1 : Peek(k)' = x[k - sz + 1]
<1> DEFINE n == Len(x)
           at(i) == (i + RingSize - tail) % RingSize
<1>1. RingSize \in Nat /\ RingSize > 0 /\ n \in Nat /\ \A i \in 1 .. n : x[i] \in Byte
  BY RingType, LenProperties, ElementOfSeq
<1>2. /\ head \in 0 .. RingSize - 1 /\ tail \in 0 .. RingSize - 1 /\ sz \in 0 .. RingSize - 1
      /\ tail = (head + sz) % RingSize /\ queue \in [0 .. RingSize - 1 -> Byte]
  BY DEF TypeOK
<1>3. /\ queue' = [i \in 0 .. RingSize - 1 |-> IF at(i) < n THEN x[at(i) + 1] ELSE queue[i]]
      /\ tail' = (tail + n) % RingSize
      /\ sz' = sz + n /\ head' = head
  <2>1. ~(RingSize - 1 - sz < Len(x))
    BY <1>1, <1>2
  <2> QED
    BY <2>1 DEF Push
<1>4. sz + n \in 0 .. RingSize - 1
  BY <1>1, <1>2
<1>5. ASSUME NEW i \in 0 .. RingSize - 1
      PROVE  at(i) = IF i < tail THEN i + RingSize - tail ELSE i - tail
  <2>1. i + RingSize - tail \in 0 .. 2 * RingSize - 1
    BY <1>1, <1>2
  <2>2. at(i) = Wrapped(i + RingSize - tail)
    BY <2>1, Wrap
  <2> HIDE DEF at
  <2> QED
    BY <1>1, <1>2, <2>2 DEF Wrapped
<1> HIDE DEF n, at
<1>6. n \in 0 .. RingSize /\ sz \in 0 .. RingSize /\ sz + n \in 0 .. RingSize
  BY <1>1, <1>2, <1>4
<1>7. tail = Wrapped(head + sz) /\ tail' = Wrapped(tail + n) /\ tail' \in 0 .. RingSize - 1
  BY <1>2, <1>3, <1>6, WrapSum
<1>8. tail' = (head' + sz') % RingSize
  <2>1. (head + (sz + n)) % RingSize = Wrapped(head + (sz + n))
    BY <1>2, <1>6, WrapSum
  <2>2. Wrapped(head + (sz + n)) = tail'
    BY <1>1, <1>2, <1>4, <1>7 DEF Wrapped
  <2> QED
    BY <1>3, <2>1, <2>2
<1>9. ASSUME NEW i \in 0 .. RingSize - 1
      PROVE  /\ Peek(i) = queue[Wrapped(head + i)] /\ Peek(i)' = queue'[Wrapped(head + i)]
             /\ Wrapped(head + i) \in 0 .. RingSize - 1
             /\ i < sz => ~(at(Wrapped(head + i)) < n)
             /\ i >= sz => at(Wrapped(head + i)) = i - sz
  <2>1. i \in 0 .. RingSize
    BY <1>1
  <2>2. (head + i) % RingSize = Wrapped(head + i) /\ Wrapped(head + i) \in 0 .. RingSize - 1
    BY <1>2, <2>1, WrapSum
  <2>3. Peek(i) = queue[(head + i) % RingSize] /\ Peek(i)' = queue'[(head' + i) % RingSize]
    BY DEF Peek
  <2> DEFINE j == Wrapped(head + i)
  <2>9. j \in 0 .. RingSize - 1
    BY <2>2
  <2> HIDE DEF j
  <2>4. at(j) = IF j < tail THEN j + RingSize - tail ELSE j - tail
    BY <1>5, <2>9
  <2>5. j = IF head + i < RingSize THEN head + i ELSE head + i - RingSize
    BY <1>1, <1>2 DEF Wrapped, j
  <2>6. tail = IF head + sz < RingSize THEN head + sz ELSE head + sz - RingSize
    BY <1>1, <1>2, <1>7 DEF Wrapped
  <2>7. (i < sz => ~(at(j) < n)) /\ (i >= sz => at(j) = i - sz)
    BY <1>1, <1>2, <1>4, <2>4, <2>5, <2>6
  <2> QED
    BY <1>3, <2>2, <2>3, <2>7 DEF j
<1>10. ASSUME NEW i \in 0 .. sz - 1 PROVE Peek(i)' = Peek(i)
  <2>1. i \in 0 .. RingSize - 1 /\ i < sz
    BY <1>1, <1>2
  <2>2. queue'[Wrapped(head + i)] = queue[Wrapped(head + i)]
    BY <1>3, <1>9, <2>1
  <2> QED
    BY <1>9, <2>1, <2>2
<1>11. ASSUME NEW k \in sz .. sz + n - 1 PROVE Peek(k)' = x[k - sz + 1]
  <2>1. k \in 0 .. RingSize - 1 /\ k >= sz /\ k - sz < n
    BY <1>1, <1>2, <1>4
  <2>2. at(Wrapped(head + k)) = k - sz /\ Wrapped(head + k) \in 0 .. RingSize - 1
    BY <1>9, <2>1
  <2>3. queue'[Wrapped(head + k)] = x[k - sz + 1]
    BY <1>3, <2>1, <2>2
  <2> QED
    BY <1>9, <2>1, <2>3
<1>12. queue' \in [0 .. RingSize - 1 -> Byte]
  <2>1. ASSUME NEW i \in 0 .. RingSize - 1, at(i) < n PROVE x[at(i) + 1] \in Byte
    <3>1. at(i) = IF i < tail THEN i + RingSize - tail ELSE i - tail
      BY <1>5
    <3>2. at(i) \in Nat
      BY <1>1, <1>2, <3>1
    <3>3. at(i) + 1 \in 1 .. n
      BY <1>1, <2>1, <3>2
    <3> QED
      BY <1>1, <3>3
  <2> QED
    BY <1>2, <1>3, <2>1
<1> QED
  BY <1>2, <1>3, <1>4, <1>7, <1>8, <1>10, <1>11, <1>12 DEF n

-----------------------------------------------------------------------------
(* The search                                                              *)

\* What pops and pushes leave of TypeOK, and what it says of the sizes.
LEMMA Sizes ==
  ASSUME TypeOK
  PROVE  /\ PacketSize \in Nat /\ PacketSize > 5
         /\ RingSize \in Nat /\ RingSize > 3 * PacketSize
         /\ NoiseLimit \in Nat
         /\ sz \in 0 .. RingSize - 1
         /\ held \in Seq(Telemetry) /\ Len(held) \in Nat
  BY RingType, MessageAssumption, LenProperties DEF TypeOK

\* A byte of noise is popped in front of the first packet.
LEMMA PopNoise ==
  ASSUME TypeOK, NEW s \in 0 .. sz, NEW t \in 0 .. sz, TwoPackets(s, t, 0), s > 0,
         Pop(1), UNCHANGED held
  PROVE  /\ Peek(0) # N
         /\ s - 1 \in 0 .. sz' /\ t - 1 \in 0 .. sz' /\ TwoPackets(s - 1, t - 1, 0)'
<1>1. /\ PacketSize \in Nat /\ PacketSize > 5 /\ NoiseLimit \in Nat /\ sz \in Nat
      /\ s \in Nat /\ t \in Nat
  BY Sizes
<1>2. /\ Len(held) = 2 /\ sz = t + PacketSize /\ sz <= 2 * PacketSize + NoiseLimit
      /\ s + PacketSize <= t
      /\ Holds(s, held[1], 0) /\ Holds(t, held[2], 0)
      /\ NoN(0, s) /\ NoN(s + PacketSize, t)
  BY <1>1 DEF TwoPackets
<1>3. sz' = sz - 1 /\ \A i \in 0 .. sz' : Peek(i)' = Peek(1 + i)
  BY <1>1, <1>2, PopBytes
<1>4. Peek(0) # N
  BY <1>1, <1>2 DEF NoN
<1>5. Holds(s - 1, held[1], 0)' /\ Holds(t - 1, held[2], 0)'
  <2>1. ASSUME NEW a \in {s, t}, NEW m, Holds(a, m, 0), NEW i \in 1 .. PacketSize
        PROVE  Peek(a - 1 + i - 0 - 1)' = Sent(m)[i]
    <3>1. a - 1 + i - 0 - 1 \in 0 .. sz' /\ 1 + (a - 1 + i - 0 - 1) = a + i - 0 - 1
      BY <1>1, <1>2, <1>3
    <3>2. Peek(a + i - 0 - 1) = Sent(m)[i]
      BY <1>1, <2>1 DEF Holds
    <3> QED
      BY <1>3, <3>1, <3>2
  <2> QED
    BY <1>1, <1>2, <2>1 DEF Holds
<1>6. NoN(0, s - 1)' /\ NoN(s - 1 + PacketSize - 0, t - 1)'
  BY <1>1, <1>2, <1>3 DEF NoN
<1> QED
  BY <1>1, <1>2, <1>3, <1>4, <1>5, <1>6 DEF TwoPackets

\* The next byte of the first packet is popped.
LEMMA PopTag ==
  ASSUME TypeOK, NEW t \in 0 .. sz, NEW k \in 0 .. 3, TwoPackets(0, t, k),
         Pop(1), UNCHANGED held
  PROVE  /\ Peek(0) = Sent(held[1])[k + 1]
         /\ t - 1 \in 0 .. sz' /\ TwoPackets(0, t - 1, k + 1)'
         /\ sz' >= PacketSize
<1>1. /\ PacketSize \in Nat /\ PacketSize > 5 /\ NoiseLimit \in Nat /\ sz \in Nat
      /\ t \in Nat /\ k \in Nat
  BY Sizes
<1>2. /\ Len(held) = 2 /\ sz = t + PacketSize /\ sz <= 2 * PacketSize - k + NoiseLimit
      /\ PacketSize - k <= t
      /\ Holds(0, held[1], k) /\ Holds(t, held[2], 0)
      /\ NoN(0 + PacketSize - k, t)
  BY <1>1 DEF TwoPackets
<1>3. sz' = sz - 1 /\ \A i \in 0 .. sz' : Peek(i)' = Peek(1 + i)
  BY <1>1, <1>2, PopBytes
<1>4. Peek(0) = Sent(held[1])[k + 1]
  <2>1. k + 1 \in k + 1 .. PacketSize /\ 0 + (k + 1) - k - 1 = 0
    BY <1>1
  <2>2. Peek(0 + (k + 1) - k - 1) = Sent(held[1])[k + 1]
    BY <1>2, <2>1 DEF Holds
  <2> QED
    BY <2>1, <2>2
<1>5. Holds(0, held[1], k + 1)'
  <2>1. ASSUME NEW i \in (k + 1) + 1 .. PacketSize
        PROVE  Peek(0 + i - (k + 1) - 1)' = Sent(held[1])[i]
    <3>1. /\ 0 + i - (k + 1) - 1 \in 0 .. sz'
          /\ 1 + (0 + i - (k + 1) - 1) = 0 + i - k - 1
          /\ i \in k + 1 .. PacketSize
      BY <1>1, <1>2, <1>3
    <3>2. Peek(0 + i - k - 1) = Sent(held[1])[i]
      BY <1>2, <3>1 DEF Holds
    <3> QED
      BY <1>3, <3>1, <3>2
  <2> QED
    BY <2>1 DEF Holds
<1>6. Holds(t - 1, held[2], 0)'
  <2>1. ASSUME NEW i \in 1 .. PacketSize
        PROVE  Peek(t - 1 + i - 0 - 1)' = Sent(held[2])[i]
    <3>1. t - 1 + i - 0 - 1 \in 0 .. sz' /\ 1 + (t - 1 + i - 0 - 1) = t + i - 0 - 1
      BY <1>1, <1>2, <1>3
    <3>2. Peek(t + i - 0 - 1) = Sent(held[2])[i]
      BY <1>1, <1>2 DEF Holds
    <3> QED
      BY <1>3, <3>1, <3>2
  <2> QED
    BY <1>1, <2>1 DEF Holds
<1>7. NoN(0, 0)' /\ NoN(0 + PacketSize - (k + 1), t - 1)'
  BY <1>1, <1>2, <1>3 DEF NoN
<1> QED
  BY <1>1, <1>2, <1>3, <1>4, <1>5, <1>6, <1>7 DEF TwoPackets

\* The rest of the first packet is popped: the second is left, and the noise in front
\* of it.
LEMMA PopPacket ==
  ASSUME TypeOK, NEW t \in 0 .. sz, TwoPackets(0, t, 4),
         Pop(PacketSize - 4), Len(held') = 1, held'[1] = held[2]
  PROVE  WaitInv'
<1>1. /\ PacketSize \in Nat /\ PacketSize > 5 /\ NoiseLimit \in Nat /\ sz \in Nat
      /\ t \in Nat
  BY Sizes
<1>2. /\ Len(held) = 2 /\ sz = t + PacketSize /\ sz <= 2 * PacketSize - 4 + NoiseLimit
      /\ PacketSize - 4 <= t
      /\ Holds(t, held[2], 0) /\ NoN(0 + PacketSize - 4, t)
  BY <1>1 DEF TwoPackets
<1>3. /\ sz' = sz - (PacketSize - 4)
      /\ \A i \in 0 .. sz' : Peek(i)' = Peek(PacketSize - 4 + i)
  <2>1. PacketSize - 4 \in 0 .. sz
    BY <1>1, <1>2
  <2> QED
    BY <2>1, PopBytes
<1>4. PICK s \in Nat : s = t - (PacketSize - 4)
  BY <1>1, <1>2
<1>5. s \in 0 .. sz' - PacketSize /\ s + PacketSize = sz'
  BY <1>1, <1>2, <1>3, <1>4
<1>6. Holds(s, held[1], 0)'
  <2>1. ASSUME NEW i \in 1 .. PacketSize
        PROVE  Peek(s + i - 0 - 1)' = Sent(held'[1])[i]
    <3>1. s + i - 0 - 1 \in 0 .. sz' /\ PacketSize - 4 + (s + i - 0 - 1) = t + i - 0 - 1
      BY <1>1, <1>2, <1>3, <1>4
    <3>2. Peek(t + i - 0 - 1) = Sent(held[2])[i]
      BY <1>1, <1>2 DEF Holds
    <3> QED
      BY <1>3, <3>1, <3>2
  <2> QED
    BY <2>1 DEF Holds
<1>7. NoN(0, s)' /\ NoN(s + PacketSize, sz)'
  BY <1>1, <1>2, <1>3, <1>4 DEF NoN
<1> QED
  BY <1>1, <1>2, <1>3, <1>4, <1>5, <1>6, <1>7 DEF WaitInv

-----------------------------------------------------------------------------
(* Messages                                                                *)

\* While loop() waits there is room for a packet or the noise allowed.
LEMMA Waiting ==
  ASSUME TypeOK, QuietBand, WaitInv
  PROVE  /\ NoiseLimit < PacketSize
         /\ held = <<>> => Len(held) = 0 /\ sz <= NoiseLimit
         /\ held # <<>> => Len(held) = 1 /\ sz >= PacketSize /\ sz <= PacketSize + NoiseLimit
<1>1. PacketSize \in Nat /\ sz \in Nat /\ NoiseLimit \in Nat /\ NoiseLimit < PacketSize
  BY Sizes DEF QuietBand
<1>2. Len(<<>>) = 0
  BY EmptySeq
<1>3. ASSUME NEW s \in 0 .. sz - PacketSize PROVE sz >= PacketSize
  BY <1>1
<1> QED
  BY <1>1, <1>2, <1>3 DEF WaitInv

\* The first packet lies behind the noise.
LEMMA PushFirst ==
  ASSUME TypeOK, QuietBand, sz <= NoiseLimit, NoN(0, sz),
         NEW m \in Telemetry, Push(Sent(m)), Len(held') = 1, held'[1] = m
  PROVE  sz' = sz + PacketSize /\ WaitInv'
<1>1. /\ PacketSize \in Nat /\ PacketSize > 5 /\ RingSize \in Nat /\ RingSize > 3 * PacketSize
      /\ NoiseLimit \in Nat /\ NoiseLimit < PacketSize /\ sz \in Nat
  BY Sizes DEF QuietBand
<1>2. Sent(m) \in Seq(Byte) /\ Len(Sent(m)) = PacketSize
  BY SentBytes
<1>3. /\ sz' = sz + PacketSize
      /\ \A i \in 0 .. sz - 1 : Peek(i)' = Peek(i)
      /\ \A i \in sz .. sz + PacketSize - 1 : Peek(i)' = Sent(m)[i - sz + 1]
  <2>1. sz + Len(Sent(m)) <= RingSize - 1
    BY <1>1, <1>2
  <2> QED
    BY <1>2, <2>1, PushBytes
<1>4. PICK s \in Nat : s = sz
  BY <1>1
<1>5. s \in 0 .. sz' - PacketSize
  BY <1>1, <1>3, <1>4
<1>6. Holds(s, held[1], 0)'
  <2>1. ASSUME NEW i \in 1 .. PacketSize
        PROVE  Peek(s + i - 0 - 1)' = Sent(held'[1])[i]
    <3>1. s + i - 0 - 1 \in sz .. sz + PacketSize - 1 /\ (s + i - 0 - 1) - sz + 1 = i
      BY <1>1, <1>4
    <3> QED
      BY <1>3, <3>1
  <2> QED
    BY <2>1 DEF Holds
<1>7. NoN(0, s)' /\ NoN(s + PacketSize, sz)'
  BY <1>1, <1>3, <1>4 DEF NoN
<1> QED
  BY <1>1, <1>3, <1>5, <1>6, <1>7 DEF WaitInv

\* The second one lies behind the noise behind the first.
LEMMA PushSecond ==
  ASSUME TypeOK, QuietBand, Len(held) = 1, sz <= PacketSize + NoiseLimit,
         NEW s \in 0 .. sz - PacketSize, Holds(s, held[1], 0),
         NoN(0, s), NoN(s + PacketSize, sz),
         NEW m \in Telemetry, Push(Sent(m)),
         Len(held') = 2, held'[1] = held[1], held'[2] = m
  PROVE  /\ sz' >= 2 * PacketSize
         /\ \E a, b \in 0 .. sz' : TwoPackets(a, b, 0)'
<1>1. /\ PacketSize \in Nat /\ PacketSize > 5 /\ RingSize \in Nat /\ RingSize > 3 * PacketSize
      /\ NoiseLimit \in Nat /\ NoiseLimit < PacketSize /\ sz \in Nat
  BY Sizes DEF QuietBand
<1>2. Sent(m) \in Seq(Byte) /\ Len(Sent(m)) = PacketSize
  BY SentBytes
<1>3. /\ sz' = sz + PacketSize
      /\ \A i \in 0 .. sz - 1 : Peek(i)' = Peek(i)
      /\ \A i \in sz .. sz + PacketSize - 1 : Peek(i)' = Sent(m)[i - sz + 1]
  <2>1. sz + Len(Sent(m)) <= RingSize - 1
    BY <1>1, <1>2
  <2> QED
    BY <1>2, <2>1, PushBytes
<1>4. PICK t \in Nat : t = sz
  BY <1>1
<1>5. s \in 0 .. sz' /\ t \in 0 .. sz' /\ s + PacketSize <= t
  BY <1>1, <1>3, <1>4
<1>6. Holds(s, held[1], 0)'
  <2>1. ASSUME NEW i \in 1 .. PacketSize
        PROVE  Peek(s + i - 0 - 1)' = Sent(held'[1])[i]
    <3>1. s + i - 0 - 1 \in 0 .. sz - 1
      BY <1>1
    <3>2. Peek(s + i - 0 - 1) = Sent(held[1])[i]
      BY <1>1 DEF Holds
    <3> QED
      BY <1>3, <3>1, <3>2
  <2> QED
    BY <2>1 DEF Holds
<1>7. Holds(t, held[2], 0)'
  <2>1. ASSUME NEW i \in 1 .. PacketSize
        PROVE  Peek(t + i - 0 - 1)' = Sent(held'[2])[i]
    <3>1. t + i - 0 - 1 \in sz .. sz + PacketSize - 1 /\ (t + i - 0 - 1) - sz + 1 = i
      BY <1>1, <1>4
    <3> QED
      BY <1>3, <3>1
  <2> QED
    BY <2>1 DEF Holds
<1>8. NoN(0, s)' /\ NoN(s + PacketSize - 0, t)'
  BY <1>1, <1>3, <1>4 DEF NoN
<1>9. TwoPackets(s, t, 0)'
  BY <1>1, <1>3, <1>4, <1>5, <1>6, <1>7, <1>8 DEF TwoPackets
<1> QED
  BY <1>1, <1>3, <1>5, <1>9

\* Noise leaves loop() waiting.
LEMMA PushNoise ==
  ASSUME TypeOK, QuietBand, WaitInv, NEW n \in Noise, NoiseHeld + Len(n) <= NoiseLimit,
         Push(n), UNCHANGED held
  PROVE  sz' < 2 * PacketSize /\ sz + Len(n) <= RingSize - 1 /\ WaitInv'
<1>1. /\ PacketSize \in Nat /\ PacketSize > 5 /\ RingSize \in Nat /\ RingSize > 3 * PacketSize
      /\ NoiseLimit \in Nat /\ NoiseLimit < PacketSize /\ sz \in Nat
  BY Sizes DEF QuietBand
<1>2. n \in Seq(Byte) /\ Len(n) \in Nat /\ \A i \in 1 .. Len(n) : n[i] # N
  <2>1. n \in Seq(Byte)
    BY MessageAssumption
  <2> QED
    BY <2>1, LenProperties DEF QuietBand
<1>3. sz + Len(n) <= IF held = <<>> THEN NoiseLimit ELSE PacketSize + NoiseLimit
  <2>1. CASE held = <<>>
    BY <1>1, <1>2, <2>1, Waiting DEF NoiseHeld
  <2>2. CASE held # <<>>
    <3>1. Len(held) = 1
      BY <2>2, Waiting
    <3>2. NoiseHeld = sz - PacketSize
      BY <1>1, <3>1 DEF NoiseHeld
    <3> QED
      BY <1>1, <1>2, <2>2, <3>2
  <2> QED
    BY <2>1, <2>2
<1>4. sz + Len(n) <= RingSize - 1
  BY <1>1, <1>2, <1>3
<1>5. /\ sz' = sz + Len(n)
      /\ \A i \in 0 .. sz - 1 : Peek(i)' = Peek(i)
      /\ \A i \in sz .. sz + Len(n) - 1 : Peek(i)' = n[i - sz + 1]
  BY <1>2, <1>4, PushBytes
<1>6. sz' < 2 * PacketSize
  BY <1>1, <1>2, <1>3, <1>5
<1>7. \A i \in sz .. sz' - 1 : Peek(i)' # N
  BY <1>1, <1>2, <1>5
<1>8. ASSUME NEW a \in Nat, NoN(a, sz) PROVE NoN(a, sz)'
  BY <1>1, <1>2, <1>5, <1>7, <1>8 DEF NoN
<1>9. CASE held = <<>> /\ sz <= NoiseLimit /\ NoN(0, sz)
  BY <1>3, <1>4, <1>5, <1>6, <1>8, <1>9 DEF WaitInv
<1>10. CASE /\ Len(held) = 1
           /\ \E s \in 0 .. sz - PacketSize :
                Holds(s, held[1], 0) /\ NoN(0, s) /\ NoN(s + PacketSize, sz)
  <2>1. PICK s \in 0 .. sz - PacketSize :
          Holds(s, held[1], 0) /\ NoN(0, s) /\ NoN(s + PacketSize, sz)
    BY <1>10
  <2>2. s \in 0 .. sz' - PacketSize
    BY <1>1, <1>2, <1>5
  <2>3. Holds(s, held[1], 0)'
    <3>1. ASSUME NEW i \in 1 .. PacketSize
          PROVE  Peek(s + i - 0 - 1)' = Sent(held'[1])[i]
      <4>1. s + i - 0 - 1 \in 0 .. sz - 1
        BY <1>1
      <4>2. Peek(s + i - 0 - 1) = Sent(held[1])[i]
        BY <1>1, <2>1 DEF Holds
      <4> QED
        BY <1>5, <4>1, <4>2
    <3> QED
      BY <3>1 DEF Holds
  <2>4. NoN(0, s)' /\ NoN(s + PacketSize, sz)'
    <3>1. NoN(0, s)'
      BY <1>1, <1>5, <2>1 DEF NoN
    <3>2. s + PacketSize \in Nat
      BY <1>1
    <3> QED
      BY <1>8, <2>1, <3>1, <3>2
  <2>5. Len(held') = 1 /\ sz' <= PacketSize + NoiseLimit
    BY <1>1, <1>2, <1>3, <1>5, <1>10
  <2> QED
    BY <1>4, <1>6, <2>2, <2>3, <2>4, <2>5 DEF WaitInv
<1> QED
  BY <1>9, <1>10 DEF WaitInv

-----------------------------------------------------------------------------
(* The actions                                                             *)

\* Nothing has been heard, nothing is in the ring.
LEMMA InitInv == Init => RelayInv
<1> SUFFICES ASSUME Init PROVE RelayInv
  OBVIOUS
<1>1. PacketSize \in Nat /\ RingSize \in Nat /\ RingSize > 0 /\ NoiseLimit \in Nat
  BY RingType, MessageAssumption
<1>2. TypeOK
  <2>1. <<>> \in Seq(Telemetry)
    BY EmptySeq
  <2>2. (0 + 0) % RingSize = 0
    <3>1. 0 \in 0 .. RingSize - 1 /\ 0 \in 0 .. RingSize
      BY <1>1
    <3>2. (0 + 0) % RingSize = Wrapped(0 + 0)
      BY <3>1, WrapSum
    <3> QED
      BY <1>1, <3>2 DEF Wrapped
  <2>3. {} \in Byte
    BY DEF Byte
  <2>4. queue \in [0 .. RingSize - 1 -> Byte] /\ tail = (head + sz) % RingSize
    BY <2>2, <2>3 DEF Init
  <2>5. 0 \in 0 .. RingSize - 1
    BY <1>1
  <2> QED
    BY <2>1, <2>4, <2>5 DEF Init, TypeOK
<1>3. SearchInv
  BY <1>1 DEF Init, SearchInv, WaitInv, NoN
<1> QED
  BY <1>2, <1>3 DEF RelayInv

\* A packet: the first is waited on, the second is searched from.
LEMMA ReceivePacketInv ==
  ASSUME RelayInv, QuietBand, ReceivePacket
  PROVE  RelayInv'
<1>1. TypeOK /\ pc = "wait" /\ WaitInv
  BY DEF RelayInv, SearchInv, ReceivePacket, Receive
<1>2. /\ PacketSize \in Nat /\ PacketSize > 5 /\ RingSize \in Nat /\ RingSize > 3 * PacketSize
      /\ NoiseLimit \in Nat /\ NoiseLimit < PacketSize /\ sz \in Nat
  BY <1>1, Sizes DEF QuietBand
<1>3. PICK m \in Telemetry : Receive(Sent(m)) /\ held' = Append(held, m)
  BY DEF ReceivePacket
<1>4. /\ Push(Sent(m)) /\ done' = FALSE /\ out' = out
      /\ pc' = IF sz' >= 2 * PacketSize THEN "N" ELSE "wait"
  BY <1>3 DEF Receive
<1>5. /\ held' \in Seq(Telemetry) /\ Len(held') = Len(held) + 1
      /\ \A i \in 1 .. Len(held) : held'[i] = held[i]
      /\ held'[Len(held) + 1] = m
  <2>1. held \in Seq(Telemetry)
    BY <1>1, Sizes
  <2> QED
    BY <1>3, <2>1, AppendProperties
<1>6. TypeOK'
  <2>1. Sent(m) \in Seq(Byte) /\ Len(Sent(m)) = PacketSize
    BY SentBytes
  <2>2. sz + Len(Sent(m)) <= RingSize - 1
    BY <1>1, <1>2, <2>1, Waiting
  <2> QED
    BY <1>1, <1>4, <1>5, <2>1, <2>2, PushBytes DEF TypeOK
<1>7. CASE held = <<>> /\ sz <= NoiseLimit /\ NoN(0, sz)
  <2>1. Len(held') = 1 /\ held'[1] = m
    BY <1>1, <1>5, <1>7, Waiting
  <2>2. sz' = sz + PacketSize /\ WaitInv'
    BY <1>1, <1>4, <1>7, <2>1, PushFirst
  <2>3. pc' = "wait"
    BY <1>2, <1>4, <1>7, <2>2
  <2> QED
    BY <1>6, <2>2, <2>3 DEF RelayInv, SearchInv
<1>8. CASE /\ Len(held) = 1 /\ sz <= PacketSize + NoiseLimit
           /\ \E s \in 0 .. sz - PacketSize :
                Holds(s, held[1], 0) /\ NoN(0, s) /\ NoN(s + PacketSize, sz)
  <2>1. PICK s \in 0 .. sz - PacketSize :
          Holds(s, held[1], 0) /\ NoN(0, s) /\ NoN(s + PacketSize, sz)
    BY <1>8
  <2>2. Len(held') = 2 /\ held'[1] = held[1] /\ held'[2] = m
    BY <1>5, <1>8
  <2>3. sz' >= 2 * PacketSize /\ \E a, b \in 0 .. sz' : TwoPackets(a, b, 0)'
    BY <1>1, <1>4, <1>8, <2>1, <2>2, PushSecond
  <2>4. pc' = "N"
    BY <1>4, <2>3
  <2> QED
    BY <1>6, <2>3, <2>4 DEF RelayInv, SearchInv
<1> QED
  BY <1>1, <1>7, <1>8 DEF WaitInv

\* Noise is waited on.
LEMMA ReceiveNoiseInv ==
  ASSUME RelayInv, QuietBand, ReceiveNoise
  PROVE  RelayInv'
<1>1. TypeOK /\ WaitInv
  BY DEF RelayInv, SearchInv, ReceiveNoise, Receive
<1>2. PICK n \in Noise : NoiseHeld + Len(n) <= NoiseLimit /\ Receive(n) /\ held' = held
  BY DEF ReceiveNoise
<1>3. /\ Push(n) /\ done' = FALSE /\ out' = out
      /\ pc' = IF sz' >= 2 * PacketSize THEN "N" ELSE "wait"
  BY <1>2 DEF Receive
<1>4. sz' < 2 * PacketSize /\ sz + Len(n) <= RingSize - 1 /\ WaitInv'
  BY <1>1, <1>2, <1>3, PushNoise
<1>5. TypeOK'
  <2>1. n \in Seq(Byte)
    BY MessageAssumption
  <2> QED
    BY <1>1, <1>2, <1>3, <1>4, <2>1, PushBytes DEF TypeOK
<1>6. pc' = "wait"
  <2>1. PacketSize \in Nat /\ sz' \in Nat
    BY <1>5, RingType DEF TypeOK
  <2> QED
    BY <1>3, <1>4, <2>1
<1> QED
  BY <1>4, <1>5, <1>6 DEF RelayInv, SearchInv

\* Popping a byte of the search keeps the types.
LEMMA PopType ==
  ASSUME TypeOK, sz > 0, Pop(1), UNCHANGED <<out, held>>, done' \in BOOLEAN,
         pc' \in {"wait", "N", "U", "X", "space", "packet"}
  PROVE  TypeOK'
<1>1. 1 \in 0 .. sz
  BY Sizes
<1> QED
  BY <1>1, PopBytes DEF TypeOK

\* The search for an N passes noise only, and ends at the packet.
LEMMA SeekNInv ==
  ASSUME RelayInv, SeekN
  PROVE  RelayInv'
<1>1. /\ TypeOK /\ pc = "N" /\ Pop(1) /\ UNCHANGED <<done, out, held>>
      /\ pc' = IF Peek(0) = N THEN "U" ELSE "N"
  BY DEF RelayInv, SeekN
<1>2. PICK s, t \in 0 .. sz : TwoPackets(s, t, 0)
  BY <1>1 DEF RelayInv, SearchInv
<1>3. PacketSize \in Nat /\ PacketSize > 5 /\ sz \in Nat /\ sz = t + PacketSize
  BY <1>1, <1>2, Sizes DEF TwoPackets
<1>4. TypeOK'
  BY <1>1, <1>3, PopType DEF TypeOK
<1>5. CASE s = 0
  <2>1. Len(held) = 2 /\ held \in Seq(Telemetry)
    BY <1>1, <1>2, Sizes DEF TwoPackets
  <2>2. held[1] \in Telemetry
    BY <2>1, ElementOfSeq
  <2>3. /\ Peek(0) = Sent(held[1])[0 + 1]
        /\ t - 1 \in 0 .. sz' /\ TwoPackets(0, t - 1, 0 + 1)'
    BY <1>1, <1>2, <1>5, PopTag
  <2>4. pc' = "U"
    BY <1>1, <2>2, <2>3, SentBytes
  <2> QED
    BY <1>4, <2>3, <2>4 DEF RelayInv, SearchInv
<1>6. CASE s > 0
  <2>1. /\ Peek(0) # N
        /\ s - 1 \in 0 .. sz' /\ t - 1 \in 0 .. sz' /\ TwoPackets(s - 1, t - 1, 0)'
    BY <1>1, <1>2, <1>6, PopNoise
  <2>2. pc' = "N"
    BY <1>1, <2>1
  <2> QED
    BY <1>4, <2>1, <2>2 DEF RelayInv, SearchInv
<1> QED
  BY <1>3, <1>5, <1>6

\* The byte behind the N is the U of the tag ...
LEMMA ExpectUInv ==
  ASSUME RelayInv, ExpectU
  PROVE  RelayInv'
<1>1. /\ TypeOK /\ pc = "U" /\ Pop(1) /\ UNCHANGED <<done, out, held>>
      /\ Peek(0) = U => pc' = "X"
  BY DEF RelayInv, ExpectU, Expect
<1>2. PICK t \in 0 .. sz : TwoPackets(0, t, 1)
  BY <1>1 DEF RelayInv, SearchInv
<1>3. PacketSize \in Nat /\ PacketSize > 5 /\ sz \in Nat /\ sz = t + PacketSize
  BY <1>1, <1>2, Sizes DEF TwoPackets
<1>4. /\ Peek(0) = Sent(held[1])[1 + 1]
      /\ t - 1 \in 0 .. sz' /\ TwoPackets(0, t - 1, 1 + 1)'
  BY <1>1, <1>2, PopTag
<1>5. held[1] \in Telemetry
  <2>1. Len(held) = 2 /\ held \in Seq(Telemetry)
    BY <1>1, <1>2, Sizes DEF TwoPackets
  <2> QED
    BY <2>1, ElementOfSeq
<1>6. pc' = "X"
  BY <1>1, <1>4, <1>5, SentBytes
<1>7. TypeOK'
  BY <1>1, <1>3, <1>6, PopType DEF TypeOK
<1> QED
  BY <1>4, <1>6, <1>7 DEF RelayInv, SearchInv

\* ... and the next one its x.
LEMMA ExpectXInv ==
  ASSUME RelayInv, ExpectX
  PROVE  RelayInv'
<1>1. /\ TypeOK /\ pc = "X" /\ Pop(1) /\ UNCHANGED <<done, out, held>>
      /\ Peek(0) = X => pc' = "space"
  BY DEF RelayInv, ExpectX, Expect
<1>2. PICK t \in 0 .. sz : TwoPackets(0, t, 2)
  BY <1>1 DEF RelayInv, SearchInv
<1>3. PacketSize \in Nat /\ PacketSize > 5 /\ sz \in Nat /\ sz = t + PacketSize
  BY <1>1, <1>2, Sizes DEF TwoPackets
<1>4. /\ Peek(0) = Sent(held[1])[2 + 1]
      /\ t - 1 \in 0 .. sz' /\ TwoPackets(0, t - 1, 2 + 1)'
  BY <1>1, <1>2, PopTag
<1>5. held[1] \in Telemetry
  <2>1. Len(held) = 2 /\ held \in Seq(Telemetry)
    BY <1>1, <1>2, Sizes DEF TwoPackets
  <2> QED
    BY <2>1, ElementOfSeq
<1>6. pc' = "space"
  BY <1>1, <1>4, <1>5, SentBytes
<1>7. TypeOK'
  BY <1>1, <1>3, <1>6, PopType DEF TypeOK
<1> QED
  BY <1>4, <1>6, <1>7 DEF RelayInv, SearchInv

\* Enough is left behind the tag for the packet to be forwarded.
LEMMA PopSpaceInv ==
  ASSUME RelayInv, PopSpace
  PROVE  RelayInv'
<1>1. /\ TypeOK /\ pc = "space" /\ Pop(1) /\ UNCHANGED <<out, held>> /\ done' = TRUE
      /\ pc' = Again
  BY DEF RelayInv, PopSpace
<1>2. PICK t \in 0 .. sz : TwoPackets(0, t, 3)
  BY <1>1 DEF RelayInv, SearchInv
<1>3. PacketSize \in Nat /\ PacketSize > 5 /\ sz \in Nat /\ sz = t + PacketSize
  BY <1>1, <1>2, Sizes DEF TwoPackets
<1>4. t - 1 \in 0 .. sz' /\ TwoPackets(0, t - 1, 3 + 1)' /\ sz' >= PacketSize
  BY <1>1, <1>2, PopTag
<1>5. pc' = "packet"
  BY <1>1, <1>4 DEF Again
<1>6. TypeOK'
  BY <1>1, <1>3, <1>5, PopType DEF TypeOK
<1> QED
  BY <1>4, <1>5, <1>6 DEF RelayInv, SearchInv

\* The first packet's payload and checksum are what is at the head of the ring.
LEMMA PacketAtHead ==
  ASSUME RelayInv, pc = "packet"
  PROVE  /\ held # <<>> /\ Len(held) = 2 /\ Head(held) = held[1] /\ held[1] \in Telemetry
         /\ \A i \in 1 .. PacketSize - 5 : Peek(i - 1) = held[1].payload[i]
         /\ Peek(PacketSize - 5) = held[1].sum
<1>1. TypeOK /\ held \in Seq(Telemetry) /\ PacketSize \in Nat /\ PacketSize > 5
  BY Sizes DEF RelayInv
<1>2. PICK t \in 0 .. sz : TwoPackets(0, t, 4)
  BY DEF RelayInv, SearchInv
<1>3. Len(held) = 2 /\ Holds(0, held[1], 4)
  BY <1>2 DEF TwoPackets
<1>4. held # <<>> /\ Head(held) = held[1] /\ held[1] \in Telemetry
  <2>1. Len(<<>>) = 0
    BY EmptySeq
  <2>2. held[1] \in Telemetry
    BY <1>1, <1>3, ElementOfSeq
  <2> QED
    BY <1>1, <1>3, <2>1, <2>2
<1>5. ASSUME NEW i \in 1 .. PacketSize - 5 PROVE Peek(i - 1) = held[1].payload[i]
  <2>1. i + 4 \in 4 + 1 .. PacketSize /\ 0 + (i + 4) - 4 - 1 = i - 1
    BY <1>1
  <2>2. Peek(0 + (i + 4) - 4 - 1) = Sent(held[1])[i + 4]
    BY <1>3, <2>1 DEF Holds
  <2> QED
    BY <1>4, <2>1, <2>2, SentBytes
<1>6. Peek(PacketSize - 5) = held[1].sum
  <2>1. PacketSize \in 4 + 1 .. PacketSize /\ 0 + PacketSize - 4 - 1 = PacketSize - 5
    BY <1>1
  <2>2. Peek(0 + PacketSize - 4 - 1) = Sent(held[1])[PacketSize]
    BY <1>3, <2>1 DEF Holds
  <2> QED
    BY <1>4, <2>1, <2>2, SentBytes
<1> QED
  BY <1>3, <1>4, <1>5, <1>6

\* Forwarding leaves the second packet, waited behind.
LEMMA ForwardInv ==
  ASSUME RelayInv, Forward
  PROVE  RelayInv'
<1>1. /\ TypeOK /\ pc = "packet" /\ Pop(PacketSize - 4) /\ pc' = "wait" /\ done' = done
      /\ held' = IF held = <<>> THEN <<>> ELSE Tail(held)
  BY DEF RelayInv, Forward
<1>2. PICK t \in 0 .. sz : TwoPackets(0, t, 4)
  BY <1>1 DEF RelayInv, SearchInv
<1>3. /\ PacketSize \in Nat /\ PacketSize > 5 /\ sz \in Nat /\ sz = t + PacketSize
      /\ held \in Seq(Telemetry)
  BY <1>1, <1>2, Sizes DEF TwoPackets
<1>4. held # <<>> /\ Len(held) = 2
  BY <1>1, PacketAtHead
<1>5. held' \in Seq(Telemetry) /\ Len(held') = 1 /\ held'[1] = held[2]
  <2>1. /\ Tail(held) \in Seq(Telemetry) /\ Len(Tail(held)) = Len(held) - 1
        /\ \A i \in 1 .. Len(Tail(held)) : Tail(held)[i] = held[i + 1]
    BY <1>3, <1>4, HeadTailProperties
  <2>2. Len(Tail(held)) = 1 /\ Tail(held)[1] = held[2]
    BY <1>4, <2>1
  <2> QED
    BY <1>1, <1>4, <2>1, <2>2
<1>6. WaitInv'
  BY <1>1, <1>2, <1>5, PopPacket
<1>7. out' = out \/ out' \in [1 .. PacketSize - 5 -> Byte]
  <2>1. held[1].payload \in [1 .. PacketSize - 5 -> Byte]
    BY <1>1, PacketAtHead, MessageAssumption
  <2>2. \A i \in 1 .. PacketSize - 5 : Peek(i - 1) \in Byte
    BY <1>1, <2>1, PacketAtHead
  <2> QED
    BY <2>2 DEF Forward
<1>8. TypeOK'
  <2>1. PacketSize - 4 \in 0 .. sz
    BY <1>3
  <2> QED
    BY <1>1, <1>5, <1>7, <2>1, PopBytes DEF TypeOK
<1> QED
  BY <1>1, <1>6, <1>8 DEF RelayInv, SearchInv

\* The invariant survives every step.
LEMMA NextInv ==
  ASSUME RelayInv, QuietBand, [Next]_vars
  PROVE  RelayInv'
<1>1. CASE Next
  BY <1>1, ReceivePacketInv, ReceiveNoiseInv, SeekNInv, ExpectUInv, ExpectXInv,
     PopSpaceInv, ForwardInv DEF Next, Step
<1>2. CASE UNCHANGED vars
  BY <1>2 DEF vars, ring, RelayInv, TypeOK, SearchInv, WaitInv, TwoPackets, Holds, NoN, Peek
<1> QED
  BY <1>1, <1>2

-----------------------------------------------------------------------------
(* Theorems                                                                *)

\* On a quiet band the ring always holds what RelayInv says.
THEOREM Invariant == ASSUME QuietBand PROVE Spec => []RelayInv
<1>1. RelayInv /\ [Next]_vars => RelayInv'
  BY NextInv
<1> QED
  BY <1>1, InitInv, PTL DEF Spec

\* The indices stay in the ring and sz is what is between them.
THEOREM TypeCorrect == ASSUME QuietBand PROVE Spec => []TypeOK
<1>1. RelayInv => TypeOK
  BY DEF RelayInv
<1> QED
  BY <1>1, Invariant, PTL

\* loop() never pops an empty ring.
THEOREM NeverPopsEmptyHolds == ASSUME QuietBand PROVE Spec => []NeverPopsEmpty
<1>1. RelayInv => NeverPopsEmpty
  <2> SUFFICES ASSUME RelayInv, pc \in {"N", "U", "X", "space"} PROVE sz > 0
    BY DEF NeverPopsEmpty
  <2>1. PICK s, t \in 0 .. sz, k \in 0 .. 3 : TwoPackets(s, t, k)
    <3>1. 0 \in 0 .. sz
      BY Sizes DEF RelayInv
    <3> QED
      BY <3>1 DEF RelayInv, SearchInv
  <2>2. PacketSize \in Nat /\ PacketSize > 5 /\ sz \in Nat /\ sz = t + PacketSize
    BY <2>1, Sizes DEF RelayInv, TwoPackets
  <2> QED
    BY <2>2
<1> QED
  BY <1>1, Invariant, PTL

\* What is about to be forwarded is the first packet held.
THEOREM InStepHolds == ASSUME QuietBand PROVE Spec => []InStep
<1>1. RelayInv => InStep
  <2> SUFFICES ASSUME RelayInv, pc = "packet"
               PROVE  /\ held # <<>>
                      /\ \A i \in 1 .. PacketSize - 5 : Peek(i - 1) = Head(held).payload[i]
                      /\ Peek(PacketSize - 5) = Head(held).sum
    BY DEF InStep
  <2>1. held # <<>> /\ Head(held) = held[1]
    BY PacketAtHead
  <2>2. \A i \in 1 .. PacketSize - 5 : Peek(i - 1) = held[1].payload[i]
    BY PacketAtHead
  <2>3. Peek(PacketSize - 5) = held[1].sum
    BY PacketAtHead
  <2> QED
    BY <2>1, <2>2, <2>3
<1> QED
  BY <1>1, Invariant, PTL

\* Forward deals with the packet heard first as the relay promises.
LEMMA ForwardDeals ==
  ASSUME RelayInv, Forward
  PROVE  Relayed!Deal
<1>1. pc = "packet" /\ PacketSize \in Nat
  BY Sizes DEF Forward, RelayInv
<1>2. held # <<>> /\ Head(held) = held[1] /\ held[1] \in Telemetry
  BY <1>1, PacketAtHead
<1> DEFINE payload == [i \in 1 .. PacketSize - 5 |-> Peek(i - 1)]
<1>3. payload = held[1].payload
  <2>1. held[1].payload \in [1 .. PacketSize - 5 -> Byte]
    BY <1>2, MessageAssumption
  <2>2. \A i \in 1 .. PacketSize - 5 : Peek(i - 1) = held[1].payload[i]
    BY <1>1, PacketAtHead
  <2> QED
    BY <2>1, <2>2
<1>4. Peek(PacketSize - 5) = held[1].sum
  BY <1>1, PacketAtHead
<1>5. /\ out' = IF Checksum(payload) = Peek(PacketSize - 5) THEN payload ELSE out
      /\ held' = IF held = <<>> THEN <<>> ELSE Tail(held)
  BY DEF Forward
<1> HIDE DEF payload
<1>6. out' = IF Intact(Head(held)) THEN Payload(Head(held)) ELSE out
  BY <1>2, <1>3, <1>4, <1>5 DEF Intact, Payload
<1> QED
  BY <1>2, <1>5, <1>6 DEF Relayed!Deal

\* The receiver relays: in order, once, intact.
THEOREM RelaysAsPromisedHolds == ASSUME QuietBand PROVE Spec => RelaysAsPromised
<1>1. Init => Relayed!Init
  BY DEF Init, Relayed!Init
<1>2. RelayInv /\ [Next]_vars => [Relayed!Next]_Relayed!vars
  <2> SUFFICES ASSUME RelayInv, [Next]_vars PROVE Relayed!Next \/ UNCHANGED <<held, out>>
    BY DEF Relayed!vars
  <2>1. CASE ReceivePacket
    <3>1. \E m \in Telemetry : Relayed!Hear(m)
      BY <2>1 DEF ReceivePacket, Receive, Relayed!Hear
    <3> QED
      BY <3>1 DEF Relayed!Next
  <2>2. CASE Forward
    BY <2>2, ForwardDeals DEF Relayed!Next
  <2>3. CASE ReceiveNoise \/ SeekN \/ ExpectU \/ ExpectX \/ PopSpace
    BY <2>3 DEF ReceiveNoise, Receive, SeekN, ExpectU, ExpectX, Expect, PopSpace
  <2>4. CASE UNCHANGED vars
    BY <2>4 DEF vars
  <2> QED
    BY <2>1, <2>2, <2>3, <2>4 DEF Next, Step
<1> QED
  BY <1>1, <1>2, Invariant, PTL DEF Spec, RelaysAsPromised, Relayed!Spec
=============================================================================
