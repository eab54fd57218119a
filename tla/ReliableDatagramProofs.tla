----------------------- MODULE ReliableDatagramProofs -----------------------
(***************************************************************************)
(* Proofs about ReliableDatagram, for every set of nodes and every number  *)
(* of retries, as long as no node uses a sequence number twice (NoWrap).   *)
(***************************************************************************)
EXTENDS ReliableDatagram, SequenceTheorems, TLAPS

\* No node sends as many messages as there are sequence numbers.
NoWrap == \A n \in Node : MaxSent[n] < IdRange

-----------------------------------------------------------------------------
(* The inductive invariant                                                 *)

\* f is about a message that a has sent to n or to all.
About(f, a, n) ==
  /\ f.id = f.no
  /\ f.no \in 1 .. Len(sent[a])
  /\ sent[a][f.no] = f.to /\ f.to \in {n, Broadcast}

\* Numbers: the history and what the code keeps of it.
NumberInv ==
  \A n \in Node :
    /\ Len(sent[n]) <= MaxSent[n]
    /\ lastSequenceNumber[n] = Len(sent[n])
    /\ \A a \in Node :
         /\ seenIds[n][a] = Newest(received[n][a])
         /\ Newest(received[n][a]) \in 0 .. Len(sent[a])

\* Calls: where the program of a node is and what goes with it.
CallInv ==
  \A n \in Node :
    /\ pc[n] = "acked" <=> taken[n] # {}
    /\ pc[n] \in {"send", "wait"} => ~result[n] /\ Len(sent[n]) > 0
    /\ result[n] => Len(sent[n]) > 0

\* A message being judged is the only one, and not older than what was returned.
TakenInv ==
  \A n \in Node : \A f \in taken[n] :
    /\ ~f.ack /\ About(f, f.from, n)
    /\ Newest(received[n][f.from]) <= f.no
    /\ \A g \in taken[n] : g = f

\* A request in n's box is not older than what n has ...
Fresh(n, f) ==
  /\ About(f, f.from, n)
  /\ Newest(received[n][f.from]) <= f.no
  /\ \A g \in taken[n] : g.from = f.from => g.no <= f.no

\* ... and an acknowledgement is of a message that the other node has.
Justified(n, f) ==
  /\ f.to = n /\ f.id = f.no /\ f.no \in 1 .. Len(sent[n])
  /\ \/ f.no <= Newest(received[f.from][n])
     \/ \E g \in taken[f.from] : g.from = n /\ f.no <= g.no

Good(n, f) ==
  /\ f.from # n
  /\ ~f.ack => Fresh(n, f)
  /\ f.ack => Justified(n, f)

BoxInv ==
  \A n \in Node : \A f \in inbox[n] : Good(n, f) /\ \A g \in inbox[n] : g = f

LinkInv == TypeOK /\ NumberInv /\ CallInv /\ TakenInv /\ BoxInv /\ SuccessMeansReceived

-----------------------------------------------------------------------------
(* Boxes and sequences                                                     *)

\* What the type of the state says of its parts.
LEMMA Parts ==
  ASSUME TypeOK
  PROVE  /\ IdRange \in Nat /\ IdRange > 0 /\ Broadcast \notin Node
         /\ \A n \in Node :
              /\ MaxSent[n] \in Nat /\ sent[n] \in Seq(Node \union {Broadcast})
              /\ Len(sent[n]) \in Nat
              /\ \A f \in inbox[n] \union taken[n] :
                   /\ f \in Frame /\ f.from \in Node /\ f.to \in Node \union {Broadcast}
                   /\ f.id \in Nat /\ f.no \in Nat /\ f.ack \in BOOLEAN
              /\ \A a \in Node : received[n][a] \in Seq(Nat) /\ Len(received[n][a]) \in Nat
<1>1. IdRange \in Nat /\ IdRange > 0 /\ Broadcast \notin Node /\ MaxSent \in [Node -> Nat]
  BY NodeAssumption, RangeAssumption
<1>2. ASSUME NEW n \in Node
      PROVE  /\ sent[n] \in Seq(Node \union {Broadcast}) /\ Len(sent[n]) \in Nat
             /\ inbox[n] \subseteq Frame /\ taken[n] \subseteq Frame
  <2>1. /\ sent[n] \in Seq(Node \union {Broadcast})
        /\ inbox[n] \subseteq Frame /\ taken[n] \subseteq Frame
    BY DEF TypeOK
  <2> QED
    BY <2>1, LenProperties
<1>3. ASSUME NEW n \in Node, NEW a \in Node
      PROVE  received[n][a] \in Seq(Nat) /\ Len(received[n][a]) \in Nat
  <2>1. received[n][a] \in Seq(Nat)
    BY DEF TypeOK
  <2> QED
    BY <2>1, LenProperties
<1>4. ASSUME NEW f \in Frame
      PROVE  /\ f.from \in Node /\ f.to \in Node \union {Broadcast}
             /\ f.id \in Nat /\ f.no \in Nat /\ f.ack \in BOOLEAN
  BY <1>1 DEF Frame
<1> QED
  BY <1>1, <1>2, <1>3, <1>4

\* Newest of an extended sequence is what it was extended with.
LEMMA NewestAppend ==
  ASSUME NEW nos \in Seq(Nat), NEW no \in Nat
  PROVE  Append(nos, no) \in Seq(Nat) /\ Newest(Append(nos, no)) = no
<1>1. /\ Append(nos, no) \in Seq(Nat) /\ Append(nos, no) # <<>>
      /\ Len(Append(nos, no)) = Len(nos) + 1 /\ Append(nos, no)[Len(nos) + 1] = no
  BY AppendProperties
<1> QED
  BY <1>1 DEF Newest

\* A number below the range does not wrap.
LEMMA SmallMod ==
  ASSUME NEW m \in Nat, NEW k \in 0 .. m - 1
  PROVE  k % m = k
  OBVIOUS

\* A frame sent comes into empty boxes of nodes it is for, or is lost.
LEMMA OnAirBox ==
  ASSUME NEW boxes \in [Node -> SUBSET Frame], NEW f \in Frame, NEW new \in OnAir(boxes, f)
  PROVE  /\ new \in [Node -> SUBSET Frame]
         /\ \A n \in Node :
              \/ new[n] = boxes[n]
              \/ new[n] = {f} /\ n # f.from /\ f.to \in {n, Broadcast} /\ boxes[n] = {}
<1>1. PICK hearers \in SUBSET {n \in Node \ {f.from} : boxes[n] = {} /\ f.to \in {n, Broadcast}} :
        new = [n \in Node |-> IF n \in hearers THEN {f} ELSE boxes[n]]
  BY DEF OnAir
<1> QED
  BY <1>1

\* Boxes that lose their frame, or get a good one, stay good.
LEMMA KeepBoxes ==
  ASSUME BoxInv, UNCHANGED <<taken, sent, received>>,
         \A n \in Node : \/ inbox'[n] \subseteq inbox[n]
                         \/ \E f : inbox'[n] = {f} /\ Good(n, f)
  PROVE  BoxInv'
<1>1. ASSUME NEW n \in Node, NEW f, Good(n, f) PROVE Good(n, f)'
  BY <1>1 DEF Good, Fresh, Justified, About
<1>2. ASSUME NEW n \in Node, NEW f \in inbox'[n]
      PROVE  Good(n, f)' /\ \A g \in inbox'[n] : g = f
  <2>1. CASE inbox'[n] \subseteq inbox[n]
    BY <1>1, <1>2, <2>1 DEF BoxInv
  <2>2. CASE \E h : inbox'[n] = {h} /\ Good(n, h)
    BY <1>1, <1>2, <2>2
  <2> QED
    BY <2>1, <2>2
<1> QED
  BY <1>2 DEF BoxInv

-----------------------------------------------------------------------------
(* Sending                                                                 *)

LEMMA InitInv == Init => LinkInv
<1> SUFFICES ASSUME Init PROVE LinkInv
  OBVIOUS
<1>1. IdRange \in Nat /\ IdRange > 0 /\ Retries \in Nat /\ MaxSent \in [Node -> Nat]
  BY RangeAssumption
<1>2. <<>> \in Seq(Nat) /\ <<>> \in Seq(Node \union {Broadcast}) /\ Len(<<>>) = 0
  BY EmptySeq
<1>3. TypeOK
  BY <1>1, <1>2 DEF Init, TypeOK
<1>4. NumberInv
  <2>1. Newest(<<>>) = 0
    BY DEF Newest
  <2>2. ASSUME NEW n \in Node
        PROVE  Len(sent[n]) = 0 /\ lastSequenceNumber[n] = 0 /\ 0 <= MaxSent[n]
    BY <1>1, <1>2 DEF Init
  <2>3. ASSUME NEW n \in Node, NEW a \in Node
        PROVE  seenIds[n][a] = 0 /\ received[n][a] = <<>>
    BY DEF Init
  <2>4. 0 \in 0 .. 0
    OBVIOUS
  <2> QED
    BY <2>1, <2>2, <2>3, <2>4 DEF NumberInv
<1>5. CallInv /\ TakenInv /\ BoxInv /\ SuccessMeansReceived
  BY DEF Init, CallInv, TakenInv, BoxInv, SuccessMeansReceived
<1> QED
  BY <1>3, <1>4, <1>5 DEF LinkInv

\* A call begins: the next number is not in use.
LEMMA SendtoWaitInv ==
  ASSUME LinkInv, NoWrap, NEW n \in Node, NEW to \in Node \union {Broadcast}, SendtoWait(n, to)
  PROVE  LinkInv'
<1>1. TypeOK /\ NumberInv /\ CallInv /\ TakenInv /\ BoxInv /\ SuccessMeansReceived
  BY DEF LinkInv
<1>2. /\ pc[n] = "idle" /\ Len(sent[n]) < MaxSent[n]
      /\ lastSequenceNumber' = [lastSequenceNumber EXCEPT ![n] = (@ + 1) % IdRange]
      /\ sent' = [sent EXCEPT ![n] = Append(@, to)]
      /\ pc' = [pc EXCEPT ![n] = "send"]
      /\ retries' = [retries EXCEPT ![n] = 0]
      /\ result' = [result EXCEPT ![n] = FALSE]
      /\ UNCHANGED <<seenIds, inbox, taken, received>>
  BY DEF SendtoWait
<1>3. /\ Append(sent[n], to) \in Seq(Node \union {Broadcast})
      /\ Len(Append(sent[n], to)) = Len(sent[n]) + 1
      /\ \A k \in 1 .. Len(sent[n]) : Append(sent[n], to)[k] = sent[n][k]
  BY <1>1, Parts, AppendProperties
<1>4. /\ sent' \in [Node -> Seq(Node \union {Broadcast})]
      /\ \A a \in Node : /\ Len(sent'[a]) = IF a = n THEN Len(sent[a]) + 1 ELSE Len(sent[a])
                         /\ a # n => sent'[a] = sent[a]
                         /\ \A k \in 1 .. Len(sent[a]) : sent'[a][k] = sent[a][k]
  BY <1>1, <1>2, <1>3 DEF TypeOK
<1>5. \A a \in Node : Len(sent[a]) \in Nat /\ Len(sent'[a]) >= Len(sent[a])
  BY <1>1, <1>4, Parts
<1>6. lastSequenceNumber' = [lastSequenceNumber EXCEPT ![n] = Len(sent[n]) + 1]
  <2>1. /\ lastSequenceNumber[n] = Len(sent[n]) /\ MaxSent[n] < IdRange /\ MaxSent[n] \in Nat
        /\ IdRange \in Nat
    BY <1>1, Parts DEF NumberInv, NoWrap
  <2>2. Len(sent[n]) + 1 \in 0 .. IdRange - 1
    BY <1>2, <1>5, <2>1
  <2>3. (Len(sent[n]) + 1) % IdRange = Len(sent[n]) + 1
    BY <2>1, <2>2, SmallMod
  <2> QED
    BY <1>1, <1>2, <2>1, <2>3 DEF TypeOK
<1>7. TypeOK'
  <2>1. Len(sent[n]) + 1 \in 0 .. IdRange - 1
    BY <1>1, <1>2, <1>5, Parts DEF NoWrap
  <2>2. 0 \in 0 .. Retries + 1
    BY RangeAssumption
  <2> QED
    BY <1>1, <1>2, <1>4, <1>6, <2>1, <2>2 DEF TypeOK
<1>8. NumberInv'
  <2>1. ASSUME NEW m \in Node
        PROVE  Len(sent'[m]) <= MaxSent[m] /\ lastSequenceNumber'[m] = Len(sent'[m])
    <3>1. /\ Len(sent[m]) <= MaxSent[m] /\ lastSequenceNumber[m] = Len(sent[m])
          /\ Len(sent[m]) \in Nat /\ MaxSent[m] \in Nat
      BY <1>1, Parts DEF NumberInv
    <3>2. lastSequenceNumber'[m] = IF m = n THEN Len(sent[n]) + 1 ELSE lastSequenceNumber[m]
      BY <1>1, <1>6 DEF TypeOK
    <3> QED
      BY <1>2, <1>4, <3>1, <3>2
  <2>2. ASSUME NEW m \in Node, NEW a \in Node
        PROVE  Newest(received[m][a]) \in 0 .. Len(sent'[a])
    <3>1. Newest(received[m][a]) \in 0 .. Len(sent[a])
      BY <1>1 DEF NumberInv
    <3> QED
      BY <1>4, <1>5, <3>1
  <2> QED
    BY <1>1, <1>2, <2>1, <2>2 DEF NumberInv
<1>9. CallInv'
  BY <1>1, <1>2, <1>4, <1>5 DEF CallInv, TypeOK
<1>10. ASSUME NEW a \in Node, NEW f \in Frame, About(f, f.from, a) PROVE About(f, f.from, a)'
  <2>1. f.from \in Node /\ f.no \in 1 .. Len(sent[f.from])
    BY <1>10 DEF About, Frame
  <2>2. f.no \in 1 .. Len(sent'[f.from]) /\ sent'[f.from][f.no] = sent[f.from][f.no]
    BY <1>4, <1>5, <2>1
  <2> QED
    BY <1>10, <2>2 DEF About
<1>11. TakenInv'
  BY <1>1, <1>2, <1>10, Parts DEF TakenInv
<1>12. ASSUME NEW m \in Node, NEW f \in inbox[m], Good(m, f) PROVE Good(m, f)'
  <2>1. f \in Frame /\ f.from \in Node
    BY <1>1, Parts
  <2>2. Fresh(m, f) => Fresh(m, f)'
    BY <1>2, <1>10, <2>1 DEF Fresh
  <2>3. Justified(m, f) => Justified(m, f)'
    BY <1>2, <1>5 DEF Justified
  <2> QED
    BY <1>12, <2>2, <2>3 DEF Good
<1>13. BoxInv'
  BY <1>1, <1>2, <1>12 DEF BoxInv
<1>14. SuccessMeansReceived'
  <2>1. ASSUME NEW m \in Node, m # n PROVE Dest(m)' = Dest(m) /\ result'[m] = result[m]
    BY <1>1, <1>2, <1>4, <2>1 DEF Dest, TypeOK
  <2>2. result'[n] = FALSE
    BY <1>1, <1>2 DEF TypeOK
  <2>3. \A m, d, k : Has(d, m, k)' = Has(d, m, k)
    BY <1>2 DEF Has
  <2> QED
    BY <1>1, <1>4, <2>1, <2>2, <2>3 DEF SuccessMeansReceived
<1> QED
  BY <1>7, <1>8, <1>9, <1>11, <1>13, <1>14 DEF LinkInv

\* The request of a node that is sending is the newest there is of it.
LEMMA RequestGood ==
  ASSUME LinkInv, NEW n \in Node, Len(sent[n]) > 0
  PROVE  /\ Request(n) \in Frame
         /\ \A m \in Node \ {n} : Dest(n) \in {m, Broadcast} => Good(m, Request(n))
<1>1. TypeOK /\ NumberInv /\ TakenInv
  BY DEF LinkInv
<1>2. Len(sent[n]) \in 1 .. Len(sent[n]) /\ Dest(n) \in Node \union {Broadcast}
  <2>1. Len(sent[n]) \in Nat /\ sent[n] \in Seq(Node \union {Broadcast})
    BY <1>1, Parts
  <2>2. Len(sent[n]) \in 1 .. Len(sent[n])
    BY <2>1
  <2> QED
    BY <2>1, <2>2, ElementOfSeq DEF Dest
<1>3. Request(n) \in Frame
  <2>1. lastSequenceNumber[n] \in 0 .. IdRange - 1 /\ Len(sent[n]) \in Nat
    BY <1>1, Parts DEF TypeOK
  <2> QED
    BY <1>2, <2>1 DEF Request, Frame
<1>4. ASSUME NEW m \in Node \ {n}, Dest(n) \in {m, Broadcast} PROVE Good(m, Request(n))
  <2>1. /\ Request(n).from = n /\ Request(n).to = Dest(n) /\ Request(n).ack = FALSE
        /\ Request(n).id = Len(sent[n]) /\ Request(n).no = Len(sent[n])
    BY <1>1 DEF Request, NumberInv
  <2>2. About(Request(n), n, m)
    BY <1>2, <1>4, <2>1 DEF About, Dest
  <2>3. Newest(received[m][n]) <= Len(sent[n])
    BY <1>1, Parts DEF NumberInv
  <2>4. \A g \in taken[m] : g.from = n => g.no <= Len(sent[n])
    <3>1. \A g \in taken[m] : g.from = n => g.no \in 1 .. Len(sent[n])
      BY <1>1 DEF TakenInv, About
    <3> QED
      BY <1>1, <3>1, Parts
  <2> QED
    BY <2>1, <2>2, <2>3, <2>4 DEF Good, Fresh
<1> QED
  BY <1>3, <1>4

\* A transmission: the request comes into the boxes of some of those it is for.
LEMMA TransmitInv ==
  ASSUME LinkInv, NEW n \in Node, Transmit(n)
  PROVE  LinkInv'
<1>1. TypeOK /\ NumberInv /\ CallInv /\ TakenInv /\ BoxInv /\ SuccessMeansReceived
  BY DEF LinkInv
<1>2. /\ pc[n] = "send" /\ retries[n] <= Retries
      /\ inbox' \in OnAir(inbox, Request(n))
      /\ retries' = [retries EXCEPT ![n] = @ + 1]
      /\ pc' = [pc EXCEPT ![n] = IF Dest(n) = Broadcast THEN "idle" ELSE "wait"]
      /\ result' = [result EXCEPT ![n] = Dest(n) = Broadcast]
      /\ UNCHANGED <<lastSequenceNumber, seenIds, taken, sent, received>>
  BY DEF Transmit
<1>3. Len(sent[n]) > 0
  BY <1>1, <1>2 DEF CallInv
<1>4. /\ Request(n) \in Frame /\ Request(n).from = n /\ Request(n).to = Dest(n)
      /\ \A m \in Node \ {n} : Dest(n) \in {m, Broadcast} => Good(m, Request(n))
  <2>1. Request(n).from = n /\ Request(n).to = Dest(n)
    BY DEF Request
  <2> QED
    BY <1>3, <2>1, RequestGood
<1>5. /\ inbox' \in [Node -> SUBSET Frame]
      /\ \A m \in Node : \/ inbox'[m] = inbox[m]
                         \/ /\ inbox'[m] = {Request(n)} /\ m # Request(n).from
                            /\ Request(n).to \in {m, Broadcast} /\ inbox[m] = {}
  <2>1. inbox \in [Node -> SUBSET Frame]
    BY <1>1 DEF TypeOK
  <2>2. PICK new : new = inbox'
    OBVIOUS
  <2> QED
    BY <1>2, <1>4, <2>1, <2>2, OnAirBox
<1>6. TypeOK'
  <2>1. retries[n] + 1 \in 0 .. Retries + 1
    BY <1>1, <1>2, RangeAssumption DEF TypeOK
  <2> QED
    BY <1>1, <1>2, <1>5, <2>1 DEF TypeOK
<1>7. BoxInv'
  BY <1>1, <1>2, <1>4, <1>5, KeepBoxes
<1>8. CallInv'
  BY <1>1, <1>2, <1>3 DEF CallInv, TypeOK
<1>9. NumberInv' /\ TakenInv'
  BY <1>1, <1>2 DEF NumberInv, TakenInv, About
<1>10. SuccessMeansReceived'
  BY <1>1, <1>2 DEF SuccessMeansReceived, Has, Dest, TypeOK
<1> QED
  BY <1>6, <1>7, <1>8, <1>9, <1>10 DEF LinkInv

\* Only the place in sendtoWait changes when a timeout comes or the retries are used up.
LEMMA GiveUpOrTimeoutInv ==
  ASSUME LinkInv, NEW n \in Node, GiveUp(n) \/ Timeout(n)
  PROVE  LinkInv'
<1>1. TypeOK /\ NumberInv /\ CallInv /\ TakenInv /\ BoxInv /\ SuccessMeansReceived
  BY DEF LinkInv
<1>2. /\ pc[n] \in {"send", "wait"}
      /\ \E p \in {"idle", "send"} : pc' = [pc EXCEPT ![n] = p]
      /\ UNCHANGED <<lastSequenceNumber, seenIds, inbox, taken, sent, received, retries, result>>
  BY DEF GiveUp, Timeout
<1>3. TypeOK'
  BY <1>1, <1>2 DEF TypeOK
<1>4. CallInv'
  BY <1>1, <1>2 DEF CallInv, TypeOK
<1>5. NumberInv' /\ TakenInv' /\ SuccessMeansReceived'
  BY <1>1, <1>2 DEF NumberInv, TakenInv, About, SuccessMeansReceived, Has, Dest
<1>6. BoxInv'
  BY <1>1, <1>2, KeepBoxes
<1> QED
  BY <1>3, <1>4, <1>5, <1>6 DEF LinkInv

-----------------------------------------------------------------------------
(* Listening                                                               *)

\* What a node reads is gone from its box, and nothing else.
LEMMA ReadBoxes ==
  ASSUME TypeOK, NEW n \in Node
  PROVE  /\ Read(n) \in [Node -> SUBSET Frame] /\ Read(n)[n] = {}
         /\ \A m \in Node : Read(n)[m] \subseteq inbox[m]
BY DEF Read, TypeOK

\* An acknowledgement of the last message is of a message that has arrived.
LEMMA HearAckInv ==
  ASSUME LinkInv, NEW n \in Node, HearAck(n)
  PROVE  LinkInv'
<1>1. TypeOK /\ NumberInv /\ CallInv /\ TakenInv /\ BoxInv /\ SuccessMeansReceived
  BY DEF LinkInv
<1>2. /\ pc[n] = "wait" /\ inbox' = Read(n)
      /\ pc' = [pc EXCEPT ![n] = "idle"]
      /\ result' = [result EXCEPT ![n] = TRUE]
      /\ UNCHANGED <<lastSequenceNumber, seenIds, taken, sent, received, retries>>
  BY DEF HearAck
<1>3. PICK f \in inbox[n] : IsOurAck(n, f)
  BY DEF HearAck
<1>4. Len(sent[n]) > 0 /\ Len(sent[n]) \in Nat
  BY <1>1, <1>2, Parts DEF CallInv
<1>5. Has(Dest(n), n, Len(sent[n]))
  <2>1. Justified(n, f) /\ f.from \in Node /\ f.no \in Nat
    BY <1>1, <1>3, Parts DEF BoxInv, Good, IsOurAck
  <2>2. f.no = Len(sent[n]) /\ f.from = Dest(n)
    BY <1>1, <1>3, <2>1 DEF Justified, IsOurAck, NumberInv
  <2>3. CASE f.no <= Newest(received[f.from][n])
    <3>1. Newest(received[f.from][n]) \in 0 .. Len(sent[n])
      BY <1>1, <2>1 DEF NumberInv
    <3>2. Newest(received[f.from][n]) = Len(sent[n])
      BY <1>4, <2>2, <2>3, <3>1
    <3> QED
      BY <2>2, <3>2 DEF Has
  <2>4. CASE \E g \in taken[f.from] : g.from = n /\ f.no <= g.no
    <3>1. PICK g \in taken[f.from] : g.from = n /\ f.no <= g.no
      BY <2>4
    <3>2. g.no \in 1 .. Len(sent[n])
      BY <1>1, <2>1, <3>1 DEF TakenInv, About
    <3>3. g.no = Len(sent[n])
      BY <1>4, <2>2, <3>1, <3>2
    <3> QED
      BY <2>2, <3>1, <3>3 DEF Has
  <2> QED
    BY <2>1, <2>3, <2>4 DEF Justified
<1>6. TypeOK'
  BY <1>1, <1>2, ReadBoxes DEF TypeOK
<1>7. BoxInv'
  BY <1>1, <1>2, ReadBoxes, KeepBoxes
<1>8. CallInv'
  BY <1>1, <1>2, <1>4 DEF CallInv, TypeOK
<1>9. NumberInv' /\ TakenInv'
  BY <1>1, <1>2 DEF NumberInv, TakenInv, About
<1>10. SuccessMeansReceived'
  BY <1>1, <1>2, <1>5 DEF SuccessMeansReceived, Has, Dest, TypeOK
<1> QED
  BY <1>6, <1>7, <1>8, <1>9, <1>10 DEF LinkInv

\* An acknowledgement of a message that f's receiver has, or has taken, is justified.
LEMMA AckGood ==
  ASSUME TypeOK, NEW n \in Node, NEW f \in Frame, About(f, f.from, n), f.from # n,
         \/ f.no <= Newest(received[n][f.from])
         \/ \E g \in taken[n] : g.from = f.from /\ f.no <= g.no
  PROVE  Ack(n, f) \in Frame /\ Ack(n, f).from = n /\ Ack(n, f).to = f.from
         /\ Good(f.from, Ack(n, f))
<1>1. /\ f.from \in Node /\ f.id \in 0 .. IdRange - 1 /\ f.no \in Nat
      /\ Ack(n, f).from = n /\ Ack(n, f).to = f.from /\ Ack(n, f).ack = TRUE
      /\ Ack(n, f).id = f.id /\ Ack(n, f).no = f.no
  BY DEF Frame, Ack
<1>2. Ack(n, f) \in Frame
  BY <1>1 DEF Frame, Ack
<1>3. Justified(f.from, Ack(n, f))
  BY <1>1 DEF Justified, About
<1> QED
  BY <1>1, <1>2, <1>3 DEF Good

\* A step that changes the boxes alone keeps all that is not about them.
LEMMA BoxesOnly ==
  ASSUME TypeOK, NumberInv, CallInv, TakenInv, SuccessMeansReceived,
         inbox' \in [Node -> SUBSET Frame],
         UNCHANGED <<lastSequenceNumber, seenIds, taken, sent, received, pc, retries, result>>
  PROVE  TypeOK' /\ NumberInv' /\ CallInv' /\ TakenInv' /\ SuccessMeansReceived'
<1>1. TypeOK'
  BY DEF TypeOK
<1>2. NumberInv'
  BY DEF NumberInv
<1>3. CallInv'
  BY DEF CallInv
<1>4. TakenInv'
  BY DEF TakenInv, About
<1>5. SuccessMeansReceived'
  BY DEF SuccessMeansReceived, Has, Dest
<1> QED
  BY <1>1, <1>2, <1>3, <1>4, <1>5

\* Whatever else sendtoWait hears is lost; at most a message of before is acknowledged.
LEMMA HearOtherInv ==
  ASSUME LinkInv, NEW n \in Node, HearOther(n)
  PROVE  LinkInv'
<1>1. TypeOK /\ NumberInv /\ CallInv /\ TakenInv /\ BoxInv /\ SuccessMeansReceived
  BY DEF LinkInv
<1>2. PICK f \in inbox[n] :
        IF IsSeen(n, f) THEN inbox' \in OnAir(Read(n), Ack(n, f)) ELSE inbox' = Read(n)
  BY DEF HearOther
<1>3. UNCHANGED <<lastSequenceNumber, seenIds, taken, sent, received, pc, retries, result>>
  BY DEF HearOther, callVars
<1>4. /\ inbox' \in [Node -> SUBSET Frame]
      /\ \A m \in Node : \/ inbox'[m] \subseteq inbox[m]
                         \/ \E g : inbox'[m] = {g} /\ Good(m, g)
  <2>1. CASE IsSeen(n, f)
    <3>1. /\ f \in Frame /\ f.from # n /\ f.from \in Node /\ f.no \in Nat
          /\ About(f, f.from, n)
      BY <1>1, <2>1, Parts DEF BoxInv, Good, Fresh, IsSeen
    <3>2. f.no = Newest(received[n][f.from])
      BY <1>1, <2>1, <3>1 DEF IsSeen, NumberInv, About
    <3>3. Ack(n, f) \in Frame /\ Ack(n, f).to = f.from /\ Good(f.from, Ack(n, f))
      BY <1>1, <3>1, <3>2, AckGood
    <3>4. Read(n) \in [Node -> SUBSET Frame] /\ \A m \in Node : Read(n)[m] \subseteq inbox[m]
      BY <1>1, ReadBoxes
    <3>5. PICK new : new = inbox'
      OBVIOUS
    <3>6. /\ new \in [Node -> SUBSET Frame]
          /\ \A m \in Node : \/ new[m] = Read(n)[m]
                             \/ new[m] = {Ack(n, f)} /\ Ack(n, f).to \in {m, Broadcast}
      BY <1>2, <2>1, <3>3, <3>4, <3>5, OnAirBox
    <3>7. f.from # Broadcast
      BY <3>1, NodeAssumption
    <3> QED
      BY <3>3, <3>4, <3>5, <3>6, <3>7
  <2>2. CASE ~IsSeen(n, f)
    BY <1>1, <1>2, <2>2, ReadBoxes
  <2> QED
    BY <2>1, <2>2
<1>5. TypeOK' /\ NumberInv' /\ CallInv' /\ TakenInv' /\ SuccessMeansReceived'
  BY <1>1, <1>3, <1>4, BoxesOnly
<1>6. BoxInv'
  BY <1>1, <1>3, <1>4, KeepBoxes
<1> QED
  BY <1>5, <1>6 DEF LinkInv

LEMMA DropAckInv ==
  ASSUME LinkInv, NEW n \in Node, DropAck(n)
  PROVE  LinkInv'
<1>1. TypeOK /\ NumberInv /\ CallInv /\ TakenInv /\ BoxInv /\ SuccessMeansReceived
  BY DEF LinkInv
<1>2. /\ inbox' = Read(n)
      /\ UNCHANGED <<lastSequenceNumber, seenIds, taken, sent, received, pc, retries, result>>
  BY DEF DropAck, callVars
<1>3. TypeOK' /\ NumberInv' /\ CallInv' /\ TakenInv' /\ SuccessMeansReceived'
  <2>1. inbox' \in [Node -> SUBSET Frame]
    BY <1>1, <1>2, ReadBoxes
  <2> QED
    BY <1>1, <1>2, <2>1, BoxesOnly
<1>4. BoxInv'
  BY <1>1, <1>2, ReadBoxes, KeepBoxes
<1> QED
  BY <1>3, <1>4 DEF LinkInv

\* recvfromAck takes a message and acknowledges it: from now on the node has it.
LEMMA AcknowledgeInv ==
  ASSUME LinkInv, NEW n \in Node, Acknowledge(n)
  PROVE  LinkInv'
<1>1. TypeOK /\ NumberInv /\ CallInv /\ TakenInv /\ BoxInv /\ SuccessMeansReceived
  BY DEF LinkInv
<1>2. PICK f \in inbox[n] :
        /\ ~f.ack
        /\ IF f.to = Broadcast THEN inbox' = Read(n) ELSE inbox' \in OnAir(Read(n), Ack(n, f))
        /\ taken' = [taken EXCEPT ![n] = {f}]
  BY DEF Acknowledge
<1>3. /\ pc[n] = "idle" /\ pc' = [pc EXCEPT ![n] = "acked"]
      /\ UNCHANGED <<lastSequenceNumber, seenIds, sent, received, retries, result>>
  BY DEF Acknowledge
<1>4. /\ f \in Frame /\ f.from # n /\ f.from \in Node /\ f.from # Broadcast
      /\ f.no \in Nat /\ Fresh(n, f)
  BY <1>1, <1>2, Parts DEF BoxInv, Good
<1>5. taken[n] = {}
  BY <1>1, <1>3 DEF CallInv
<1>6. /\ taken' \in [Node -> SUBSET Frame]
      /\ taken'[n] = {f} /\ \A m \in Node \ {n} : taken'[m] = taken[m]
  BY <1>1, <1>2, <1>4 DEF TypeOK
<1>7. /\ inbox' \in [Node -> SUBSET Frame]
      /\ \A m \in Node : \/ inbox'[m] \subseteq inbox[m] /\ m # n
                         \/ inbox'[m] = {}
                         \/ inbox'[m] = {Ack(n, f)} /\ m = f.from
  <2>1. /\ Read(n) \in [Node -> SUBSET Frame] /\ Read(n)[n] = {}
        /\ \A m \in Node : Read(n)[m] \subseteq inbox[m]
    BY <1>1, ReadBoxes
  <2>2. CASE f.to = Broadcast
    BY <1>2, <2>1, <2>2
  <2>3. CASE f.to # Broadcast
    <3>1. Ack(n, f) \in Frame /\ Ack(n, f).to = f.from
      BY <1>4 DEF Ack, Frame
    <3>2. PICK new : new = inbox'
      OBVIOUS
    <3>3. /\ new \in [Node -> SUBSET Frame]
          /\ \A m \in Node : \/ new[m] = Read(n)[m]
                             \/ new[m] = {Ack(n, f)} /\ Ack(n, f).to \in {m, Broadcast}
      BY <1>2, <2>1, <2>3, <3>1, <3>2, OnAirBox
    <3> QED
      BY <1>4, <2>1, <3>1, <3>2, <3>3
  <2> QED
    BY <2>2, <2>3
<1>8. TypeOK' /\ NumberInv'
  BY <1>1, <1>3, <1>6, <1>7 DEF TypeOK, NumberInv
<1>9. CallInv'
  BY <1>1, <1>3, <1>6 DEF CallInv, TypeOK
<1>10. TakenInv'
  BY <1>1, <1>2, <1>3, <1>4, <1>6 DEF TakenInv, Fresh, About
<1>11. Good(f.from, Ack(n, f))'
  <2>1. /\ Ack(n, f).from = n /\ Ack(n, f).to = f.from /\ Ack(n, f).ack = TRUE
        /\ Ack(n, f).id = f.id /\ Ack(n, f).no = f.no
    BY DEF Ack
  <2>2. f.no <= f.no
    BY <1>4
  <2>3. Justified(f.from, Ack(n, f))'
    BY <1>3, <1>4, <1>6, <2>1, <2>2 DEF Justified, Fresh, About
  <2> QED
    BY <1>4, <2>1, <2>3 DEF Good
<1>12. ASSUME NEW m \in Node \ {n}, NEW g \in inbox[m], Good(m, g) PROVE Good(m, g)'
  <2>1. g.from \in Node
    BY <1>1, Parts
  <2>2. Fresh(m, g) => Fresh(m, g)'
    BY <1>3, <1>6 DEF Fresh, About
  <2>3. Justified(m, g) => Justified(m, g)'
    BY <1>3, <1>5, <1>6, <2>1 DEF Justified
  <2> QED
    BY <1>12, <2>2, <2>3 DEF Good
<1>13. BoxInv'
  BY <1>1, <1>7, <1>11, <1>12 DEF BoxInv
<1>14. SuccessMeansReceived'
  <2>1. \A m \in Node : \A k : Has(Dest(m), m, k) => Has(Dest(m), m, k)' \/ Dest(m) \notin Node
    BY <1>3, <1>5, <1>6 DEF Has, Dest
  <2>2. \A m \in Node : result[m] => Dest(m) \in Node \union {Broadcast}
    <3>1. ASSUME NEW m \in Node, result[m] PROVE Dest(m) \in Node \union {Broadcast}
      <4>1. Len(sent[m]) > 0 /\ Len(sent[m]) \in Nat /\ sent[m] \in Seq(Node \union {Broadcast})
        BY <1>1, <3>1, Parts DEF CallInv
      <4>2. Len(sent[m]) \in 1 .. Len(sent[m])
        BY <4>1
      <4> QED
        BY <4>1, <4>2, ElementOfSeq DEF Dest
    <3> QED
      BY <3>1
  <2>3. \A m \in Node : Dest(m)' = Dest(m) /\ result'[m] = result[m]
    BY <1>3 DEF Dest
  <2> QED
    BY <1>1, <1>3, <2>1, <2>2, <2>3 DEF SuccessMeansReceived
<1> QED
  BY <1>8, <1>9, <1>10, <1>13, <1>14 DEF LinkInv

\* A message judged is the last one returned, whether it is new or not.
LEMMA JudgeReturns ==
  ASSUME LinkInv, NEW n \in Node, Judge(n)
  PROVE  \E f \in Frame :
           /\ taken[n] = {f} /\ f.from \in Node /\ f.no \in Nat /\ f.id = f.no
           /\ ~f.ack /\ About(f, f.from, n) /\ Newest(received[n][f.from]) <= f.no
           /\ received' \in [Node -> [Node -> Seq(Nat)]]
           /\ seenIds' \in [Node -> [Node -> 0 .. IdRange - 1]]
           /\ Newest(received'[n][f.from]) = f.no /\ seenIds'[n][f.from] = f.no
           /\ \A m, a \in Node :
                m # n \/ a # f.from =>
                  received'[m][a] = received[m][a] /\ seenIds'[m][a] = seenIds[m][a]
           /\ received'[n][f.from] = IF IsSeen(n, f) THEN received[n][f.from]
                                     ELSE Append(received[n][f.from], f.no)
<1>1. TypeOK /\ NumberInv /\ TakenInv
  BY DEF LinkInv
<1>2. PICK f \in taken[n] :
        IF IsSeen(n, f) THEN UNCHANGED <<seenIds, received>>
        ELSE /\ seenIds' = [seenIds EXCEPT ![n][f.from] = f.id]
             /\ received' = [received EXCEPT ![n][f.from] = Append(@, f.no)]
  BY DEF Judge
<1>3. /\ f \in Frame /\ taken[n] = {f} /\ f.from \in Node /\ f.no \in Nat /\ f.id = f.no
      /\ ~f.ack /\ About(f, f.from, n) /\ Newest(received[n][f.from]) <= f.no
  <2>1. taken[n] = {f} /\ ~f.ack /\ About(f, f.from, n) /\ Newest(received[n][f.from]) <= f.no
    BY <1>1, <1>2 DEF TakenInv
  <2> QED
    BY <1>1, <2>1, Parts DEF About
<1>4. CASE IsSeen(n, f)
  <2>1. seenIds' = seenIds /\ received' = received
    BY <1>2, <1>4
  <2>2. seenIds[n][f.from] = f.no /\ Newest(received[n][f.from]) = f.no
    BY <1>1, <1>3, <1>4 DEF IsSeen, NumberInv
  <2> QED
    BY <1>1, <1>3, <1>4, <2>1, <2>2 DEF TypeOK
<1>5. CASE ~IsSeen(n, f)
  <2>1. /\ received[n][f.from] \in Seq(Nat)
        /\ Append(received[n][f.from], f.no) \in Seq(Nat)
        /\ Newest(Append(received[n][f.from], f.no)) = f.no
    BY <1>1, <1>3, Parts, NewestAppend
  <2>2. f.id \in 0 .. IdRange - 1
    BY <1>3 DEF Frame
  <2>3. /\ received' = [received EXCEPT ![n][f.from] = Append(received[n][f.from], f.no)]
        /\ received \in [Node -> [Node -> Seq(Nat)]]
        /\ seenIds' = [seenIds EXCEPT ![n][f.from] = f.no]
        /\ seenIds \in [Node -> [Node -> 0 .. IdRange - 1]] /\ f.no \in 0 .. IdRange - 1
    BY <1>1, <1>2, <1>3, <1>5, <2>2 DEF TypeOK
  <2>4. received' \in [Node -> [Node -> Seq(Nat)]]
    BY <1>3, <2>1, <2>3
  <2>5. seenIds' \in [Node -> [Node -> 0 .. IdRange - 1]]
    BY <1>3, <2>3
  <2>6. received'[n][f.from] = Append(received[n][f.from], f.no) /\ seenIds'[n][f.from] = f.no
    BY <1>3, <2>3
  <2>7. ASSUME NEW m \in Node, NEW a \in Node, m # n \/ a # f.from
        PROVE  received'[m][a] = received[m][a] /\ seenIds'[m][a] = seenIds[m][a]
    BY <1>3, <2>3, <2>7
  <2> QED
    BY <1>3, <1>5, <2>1, <2>4, <2>5, <2>6, <2>7
<1> QED
  BY <1>4, <1>5

LEMMA JudgeInv ==
  ASSUME LinkInv, NEW n \in Node, Judge(n)
  PROVE  LinkInv'
<1>1. TypeOK /\ NumberInv /\ CallInv /\ TakenInv /\ BoxInv /\ SuccessMeansReceived
  BY DEF LinkInv
<1>2. PICK f \in Frame :
        /\ taken[n] = {f} /\ f.from \in Node /\ f.no \in Nat /\ f.id = f.no
        /\ ~f.ack /\ About(f, f.from, n) /\ Newest(received[n][f.from]) <= f.no
        /\ received' \in [Node -> [Node -> Seq(Nat)]]
        /\ seenIds' \in [Node -> [Node -> 0 .. IdRange - 1]]
        /\ Newest(received'[n][f.from]) = f.no /\ seenIds'[n][f.from] = f.no
        /\ \A m, a \in Node :
             m # n \/ a # f.from =>
               received'[m][a] = received[m][a] /\ seenIds'[m][a] = seenIds[m][a]
  BY JudgeReturns
<1>3. /\ taken' = [taken EXCEPT ![n] = {}] /\ pc' = [pc EXCEPT ![n] = "idle"]
      /\ UNCHANGED <<lastSequenceNumber, inbox, sent, retries, result>>
  BY DEF Judge
<1>4. /\ taken' \in [Node -> SUBSET Frame]
      /\ taken'[n] = {} /\ \A m \in Node \ {n} : taken'[m] = taken[m]
  BY <1>1, <1>3 DEF TypeOK
<1>5. \A m, a \in Node : Newest(received[m][a]) \in Nat /\ Newest(received[m][a]) <= Len(sent[a])
  BY <1>1, Parts DEF NumberInv
<1>6. TypeOK'
  BY <1>1, <1>2, <1>3, <1>4 DEF TypeOK
<1>7. NumberInv'
  <2>1. f.no \in 0 .. Len(sent[f.from])
    BY <1>1, <1>2, Parts DEF About
  <2>2. ASSUME NEW m \in Node, NEW a \in Node
        PROVE  /\ seenIds'[m][a] = Newest(received'[m][a])
               /\ Newest(received'[m][a]) \in 0 .. Len(sent[a])
    <3>1. CASE m = n /\ a = f.from
      BY <1>2, <2>1, <3>1
    <3>2. CASE m # n \/ a # f.from
      <4>1. received'[m][a] = received[m][a] /\ seenIds'[m][a] = seenIds[m][a]
        BY <1>2, <3>2
      <4> QED
        BY <1>1, <4>1 DEF NumberInv
    <3> QED
      BY <3>1, <3>2
  <2> QED
    BY <1>1, <1>3, <2>2 DEF NumberInv
<1>8. CallInv'
  BY <1>1, <1>3, <1>4 DEF CallInv, TypeOK
<1>9. TakenInv'
  <2>1. ASSUME NEW m \in Node, NEW g \in taken'[m]
        PROVE  /\ ~g.ack /\ About(g, g.from, m)
               /\ Newest(received'[m][g.from]) <= g.no /\ \A h \in taken'[m] : h = g
    <3>1. m # n /\ g \in taken[m] /\ g.from \in Node
      BY <1>1, <1>4, <2>1, Parts
    <3> QED
      BY <1>1, <1>2, <1>4, <3>1 DEF TakenInv
  <2> QED
    BY <1>3, <2>1 DEF TakenInv, About
<1>10. ASSUME NEW m \in Node, NEW g \in inbox[m], Good(m, g) PROVE Good(m, g)'
  <2>1. g.from \in Node /\ g.no \in Nat
    BY <1>1, Parts
  <2>2. Fresh(m, g) => Fresh(m, g)'
    <3>1. ASSUME Fresh(m, g) PROVE Newest(received'[m][g.from]) <= g.no
      <4>1. CASE m = n /\ g.from = f.from
        <5>1. f \in taken[m] /\ f.no <= g.no
          BY <1>2, <3>1, <4>1 DEF Fresh
        <5> QED
          BY <1>2, <4>1, <5>1
      <4>2. CASE m # n \/ g.from # f.from
        <5>1. received'[m][g.from] = received[m][g.from]
          BY <1>2, <2>1, <4>2
        <5> QED
          BY <3>1, <5>1 DEF Fresh
      <4> QED
        BY <4>1, <4>2
    <3> QED
      BY <1>3, <1>4, <3>1 DEF Fresh, About
  <2>3. Justified(m, g) => Justified(m, g)'
    <3>1. CASE g.from = n /\ m = f.from
      <4>1. ASSUME Justified(m, g) PROVE g.no <= f.no
        <5>1. \/ g.no <= Newest(received[n][m])
              \/ \E h \in taken[n] : h.from = m /\ g.no <= h.no
          BY <3>1, <4>1 DEF Justified
        <5>2. Newest(received[n][m]) \in Nat /\ Newest(received[n][m]) <= f.no /\ taken[n] = {f}
          BY <1>2, <1>5, <3>1
        <5>3. g.no <= Newest(received[n][m]) \/ g.no <= f.no
          BY <5>1, <5>2
        <5>4. \A k, l, h \in Nat : k <= l /\ l <= h => k <= h
          OBVIOUS
        <5> QED
          BY <1>2, <2>1, <5>2, <5>3, <5>4
      <4> QED
        BY <1>2, <1>3, <3>1, <4>1 DEF Justified
    <3>2. CASE g.from = n /\ m # f.from
      BY <1>2, <1>3, <3>2 DEF Justified
    <3>3. CASE g.from # n
      BY <1>2, <1>3, <1>4, <2>1, <3>3 DEF Justified
    <3> QED
      BY <3>1, <3>2, <3>3
  <2> QED
    BY <1>10, <2>2, <2>3 DEF Good
<1>11. BoxInv'
  BY <1>1, <1>3, <1>10 DEF BoxInv
<1>12. SuccessMeansReceived'
  <2>1. ASSUME NEW m \in Node, result[m], Dest(m) # Broadcast
        PROVE  Has(Dest(m), m, Len(sent[m]))'
    <3>1. Len(sent[m]) > 0 /\ Len(sent[m]) \in Nat /\ sent[m] \in Seq(Node \union {Broadcast})
      BY <1>1, <2>1, Parts DEF CallInv
    <3>2. Len(sent[m]) \in 1 .. Len(sent[m])
      BY <3>1
    <3>3. Dest(m) \in Node
      BY <2>1, <3>1, <3>2, ElementOfSeq DEF Dest
    <3>4. Has(Dest(m), m, Len(sent[m])) /\ Dest(m)' = Dest(m)
      BY <1>1, <1>3, <2>1 DEF SuccessMeansReceived, Dest
    <3>5. CASE Dest(m) # n \/ m # f.from
      <4>1. received'[Dest(m)][m] = received[Dest(m)][m]
        BY <1>2, <3>3, <3>5
      <4>2. \A g \in taken[Dest(m)] : g.from = m => g \in taken'[Dest(m)]
        BY <1>2, <1>4, <3>3, <3>5
      <4> QED
        BY <1>3, <3>4, <4>1, <4>2 DEF Has
    <3>6. CASE Dest(m) = n /\ m = f.from
      <4>1. f.no \in 1 .. Len(sent[m])
        BY <1>2, <3>6 DEF About
      <4>2. f.no = Len(sent[m])
        BY <1>2, <1>5, <3>1, <3>4, <3>6, <4>1 DEF Has
      <4> QED
        BY <1>2, <1>3, <3>4, <3>6, <4>2 DEF Has
    <3> QED
      BY <3>5, <3>6
  <2>2. \A m \in Node : Dest(m)' = Dest(m) /\ result'[m] = result[m]
    BY <1>3 DEF Dest
  <2> QED
    BY <2>1, <2>2 DEF SuccessMeansReceived
<1> QED
  BY <1>6, <1>7, <1>8, <1>9, <1>11, <1>12 DEF LinkInv

-----------------------------------------------------------------------------
(* Every behaviour                                                         *)

LEMMA NextInv ==
  ASSUME LinkInv, NoWrap, [Next]_vars
  PROVE  LinkInv'
<1>1. CASE UNCHANGED vars
  <2>1. UNCHANGED <<lastSequenceNumber, seenIds, inbox, taken, sent, received, pc, retries, result>>
    BY <1>1 DEF vars, callVars
  <2>2. TypeOK' /\ NumberInv' /\ CallInv' /\ TakenInv' /\ SuccessMeansReceived'
    <3>1. inbox' \in [Node -> SUBSET Frame]
      BY <2>1 DEF LinkInv, TypeOK
    <3> QED
      BY <2>1, <3>1, BoxesOnly DEF LinkInv
  <2>3. BoxInv'
    BY <2>1, KeepBoxes DEF LinkInv
  <2> QED
    BY <2>2, <2>3 DEF LinkInv
<1>2. CASE Next
  <2>1. PICK n \in Node :
          \/ \E to \in (Node \ {n}) \union {Broadcast} : SendtoWait(n, to)
          \/ Transmit(n) \/ GiveUp(n) \/ Timeout(n) \/ Judge(n)
          \/ HearAck(n) \/ HearOther(n) \/ DropAck(n) \/ Acknowledge(n)
    BY <1>2 DEF Next, Steps
  <2>2. CASE \E to \in (Node \ {n}) \union {Broadcast} : SendtoWait(n, to)
    BY <2>2, SendtoWaitInv
  <2>3. CASE Transmit(n)
    BY <2>3, TransmitInv
  <2>4. CASE GiveUp(n) \/ Timeout(n)
    BY <2>4, GiveUpOrTimeoutInv
  <2>5. CASE Judge(n)
    BY <2>5, JudgeInv
  <2>6. CASE HearAck(n)
    BY <2>6, HearAckInv
  <2>7. CASE HearOther(n)
    BY <2>7, HearOtherInv
  <2>8. CASE DropAck(n)
    BY <2>8, DropAckInv
  <2>9. CASE Acknowledge(n)
    BY <2>9, AcknowledgeInv
  <2> QED
    BY <2>1, <2>2, <2>3, <2>4, <2>5, <2>6, <2>7, <2>8, <2>9
<1> QED
  BY <1>1, <1>2

\* The inductive invariant holds in every state, while no number is used twice.
THEOREM Invariant == ASSUME NoWrap PROVE Spec => []LinkInv
<1>1. Init => LinkInv
  BY InitInv
<1>2. LinkInv /\ [Next]_vars => LinkInv'
  BY NextInv
<1> QED
  BY <1>1, <1>2, PTL DEF Spec

\* The retry counter and the sequence numbers stay in their ranges.
THEOREM TypeCorrect == ASSUME NoWrap PROVE Spec => []TypeOK
<1>1. LinkInv => TypeOK
  BY DEF LinkInv
<1> QED
  BY <1>1, Invariant, PTL

\* A sendtoWait that returns true has put its message in the other program's hands,
\* however many frames and acknowledgements were lost on the way.
THEOREM SuccessMeansReceivedHolds == ASSUME NoWrap PROVE Spec => []SuccessMeansReceived
<1>1. LinkInv => SuccessMeansReceived
  BY DEF LinkInv
<1> QED
  BY <1>1, Invariant, PTL

-----------------------------------------------------------------------------
(* The promise of Datagrams                                                *)

\* accepted is a function of what has been returned and taken.
LEMMA AcceptedIs ==
  ASSUME NEW b \in Node, NEW a \in Node
  PROVE  /\ (\A f \in taken[b] : f.from = a => IsSeen(b, f)) => accepted[b][a] = received[b][a]
         /\ \A f : taken[b] = {f} /\ f.from = a /\ ~IsSeen(b, f) =>
              accepted[b][a] = Append(received[b][a], f.no)
<1>1. ASSUME NEW f, taken[b] = {f} PROVE (CHOOSE g \in taken[b] : TRUE) = f
  BY <1>1
<1> QED
  BY <1>1 DEF accepted

\* The last message accepted is the one being judged, or the last one returned.
LEMMA HasAccepted ==
  ASSUME LinkInv, NEW n \in Node, NEW to \in Node, Has(to, n, Len(sent[n]))
  PROVE  Newest(accepted[to][n]) = Len(sent[n])
<1>1. TypeOK /\ NumberInv /\ TakenInv
  BY DEF LinkInv
<1>2. /\ received[to][n] \in Seq(Nat) /\ Len(sent[n]) \in Nat
      /\ seenIds[to][n] = Newest(received[to][n])
  BY <1>1, Parts DEF NumberInv
<1>3. CASE \E f \in taken[to] : f.from = n
  <2>1. PICK f \in taken[to] : f.from = n
    BY <1>3
  <2>2. /\ taken[to] = {f} /\ ~f.ack /\ f.id = f.no /\ f.no \in 1 .. Len(sent[n])
        /\ Newest(received[to][n]) <= f.no
    BY <1>1, <2>1 DEF TakenInv, About
  <2>3. f.no = Len(sent[n])
    <3>1. Newest(received[to][n]) = Len(sent[n]) \/ f.no = Len(sent[n])
      BY <2>2 DEF Has
    <3> QED
      BY <1>2, <2>2, <3>1
  <2>4. CASE IsSeen(to, f)
    BY <1>2, <2>1, <2>2, <2>3, <2>4, AcceptedIs DEF IsSeen
  <2>5. CASE ~IsSeen(to, f)
    <3>1. accepted[to][n] = Append(received[to][n], f.no)
      BY <2>1, <2>2, <2>5, AcceptedIs
    <3>2. f.no \in Nat
      BY <1>2, <2>3
    <3> QED
      BY <1>2, <2>3, <3>1, <3>2, NewestAppend
  <2> QED
    BY <2>4, <2>5
<1>4. CASE \A f \in taken[to] : f.from # n
  BY <1>4, AcceptedIs DEF Has
<1> QED
  BY <1>3, <1>4

\* Judging a message does not change what has been accepted.
LEMMA JudgeKeeps ==
  ASSUME LinkInv, NEW n \in Node, Judge(n)
  PROVE  accepted' = accepted
<1>1. PICK f \in Frame :
        /\ taken[n] = {f} /\ f.from \in Node
        /\ \A m, a \in Node :
             m # n \/ a # f.from =>
               received'[m][a] = received[m][a] /\ seenIds'[m][a] = seenIds[m][a]
        /\ received'[n][f.from] = IF IsSeen(n, f) THEN received[n][f.from]
                                  ELSE Append(received[n][f.from], f.no)
  BY JudgeReturns
<1>2. TypeOK /\ taken' = [taken EXCEPT ![n] = {}]
  BY DEF LinkInv, Judge
<1>3. ASSUME NEW m \in Node \ {n}, NEW a \in Node
      PROVE  accepted'[m][a] = accepted[m][a]
  <2>1. /\ taken'[m] = taken[m]
        /\ \A b \in Node : received'[m][b] = received[m][b] /\ seenIds'[m][b] = seenIds[m][b]
        /\ \A g \in taken[m] : g.from \in Node
    BY <1>1, <1>2, Parts DEF TypeOK
  <2>2. (\E g \in taken'[m] : g.from = a /\ ~IsSeen(m, g)')
          <=> \E g \in taken[m] : g.from = a /\ ~IsSeen(m, g)
    BY <2>1 DEF IsSeen
  <2>3. (CHOOSE g \in taken'[m] : TRUE) = CHOOSE g \in taken[m] : TRUE
    BY <2>1
  <2> QED
    BY <2>1, <2>2, <2>3 DEF accepted
<1>4. ASSUME NEW a \in Node PROVE accepted'[n][a] = accepted[n][a]
  <2>1. taken'[n] = {}
    BY <1>2 DEF TypeOK
  <2>2. accepted'[n][a] = received'[n][a]
    BY <2>1 DEF accepted
  <2>3. CASE a # f.from
    BY <1>1, <2>2, <2>3, AcceptedIs
  <2>4. CASE a = f.from /\ IsSeen(n, f)
    <3>1. \A g \in taken[n] : g.from = a => IsSeen(n, g)
      BY <1>1, <2>4
    <3>2. accepted[n][a] = received[n][a]
      BY <3>1, AcceptedIs
    <3> QED
      BY <1>1, <2>2, <2>4, <3>2
  <2>5. CASE a = f.from /\ ~IsSeen(n, f)
    <3>1. accepted[n][a] = Append(received[n][a], f.no)
      BY <1>1, <2>5, AcceptedIs
    <3> QED
      BY <1>1, <2>2, <2>5, <3>1
  <2> QED
    BY <2>3, <2>4, <2>5
<1>5. \A m, a \in Node : accepted'[m][a] = accepted[m][a]
  BY <1>3, <1>4
<1> QED
  BY <1>5 DEF accepted

\* A message is accepted when recvfromAck takes it, unless it has been seen.
LEMMA AcknowledgeAccepts ==
  ASSUME LinkInv, NEW n \in Node, Acknowledge(n)
  PROVE  \/ accepted' = accepted
         \/ \E a \in Node : \E no \in Newest(accepted[n][a]) + 1 .. Len(sent[a]) :
              /\ no \in 1 .. Len(sent[a]) /\ sent[a][no] \in {n, Broadcast}
              /\ accepted' = [accepted EXCEPT ![n][a] = Append(@, no)]
<1>1. TypeOK /\ NumberInv /\ CallInv /\ BoxInv
  BY DEF LinkInv
<1>2. PICK f \in inbox[n] : ~f.ack /\ taken' = [taken EXCEPT ![n] = {f}]
  BY DEF Acknowledge
<1>3. pc[n] = "idle" /\ UNCHANGED <<seenIds, sent, received>>
  BY DEF Acknowledge
<1>4. f.from \in Node /\ f.no \in Nat /\ Fresh(n, f)
  BY <1>1, <1>2, Parts DEF BoxInv, Good
<1>5. taken[n] = {} /\ taken'[n] = {f} /\ \A m \in Node \ {n} : taken'[m] = taken[m]
  BY <1>1, <1>2, <1>3 DEF CallInv, TypeOK
<1>6. \A a \in Node : accepted[n][a] = received[n][a]
  BY <1>5, AcceptedIs
<1>7. ASSUME NEW m \in Node, NEW a \in Node, m # n \/ a # f.from
      PROVE  accepted'[m][a] = accepted[m][a]
  <2>1. CASE m # n
    BY <1>3, <1>5, <2>1 DEF accepted, IsSeen
  <2>2. CASE m = n /\ a # f.from
    <3>1. accepted'[n][a] = received[n][a]
      BY <1>3, <1>5, <2>2 DEF accepted
    <3> QED
      BY <1>6, <2>2, <3>1
  <2> QED
    BY <1>7, <2>1, <2>2
<1>8. CASE IsSeen(n, f)
  <2>1. accepted'[n][f.from] = received[n][f.from]
    BY <1>3, <1>4, <1>5, <1>8 DEF accepted, IsSeen
  <2>2. \A m, a \in Node : accepted'[m][a] = accepted[m][a]
    BY <1>4, <1>6, <1>7, <2>1
  <2> QED
    BY <2>2 DEF accepted
<1>9. CASE ~IsSeen(n, f)
  <2>1. accepted'[n][f.from] = Append(received[n][f.from], f.no)
    <3>1. (CHOOSE g \in {f} : TRUE) = f
      OBVIOUS
    <3> QED
      BY <1>3, <1>4, <1>5, <1>9, <3>1 DEF accepted, IsSeen
  <2>2. accepted' = [accepted EXCEPT ![n][f.from] = Append(@, f.no)]
    <3>1. accepted' = [m \in Node |-> [a \in Node |-> accepted'[m][a]]]
      BY DEF accepted
    <3>2. accepted = [m \in Node |-> [a \in Node |-> accepted[m][a]]]
      BY DEF accepted
    <3>3. PICK old, new : old = accepted /\ new = accepted'
      OBVIOUS
    <3>4. /\ new = [m \in Node |-> [a \in Node |-> new[m][a]]]
          /\ old = [m \in Node |-> [a \in Node |-> old[m][a]]]
          /\ new[n][f.from] = Append(old[n][f.from], f.no)
          /\ \A m, a \in Node : m # n \/ a # f.from => new[m][a] = old[m][a]
      BY <1>4, <1>6, <1>7, <2>1, <3>1, <3>2, <3>3
    <3>5. new = [old EXCEPT ![n][f.from] = Append(@, f.no)]
      <4>1. new[n] = [old[n] EXCEPT ![f.from] = Append(@, f.no)]
        <5>1. /\ new[n] = [a \in Node |-> new[n][a]] /\ old[n] = [a \in Node |-> old[n][a]]
          BY <3>4
        <5>2. \A a \in Node : new[n][a] = IF a = f.from THEN Append(old[n][f.from], f.no)
                                         ELSE old[n][a]
          BY <3>4
        <5> QED
          BY <1>4, <5>1, <5>2
      <4>2. ASSUME NEW m \in Node, m # n PROVE new[m] = old[m]
        <5>1. new[m] = [a \in Node |-> new[m][a]] /\ old[m] = [a \in Node |-> old[m][a]]
          BY <3>4
        <5>2. \A a \in Node : new[m][a] = old[m][a]
          BY <3>4, <4>2
        <5> QED
          BY <5>1, <5>2
      <4>3. new = [m \in Node |-> new[m]] /\ old = [m \in Node |-> old[m]]
        BY <3>4
      <4>4. new = [old EXCEPT ![n] = [old[n] EXCEPT ![f.from] = Append(old[n][f.from], f.no)]]
        BY <4>1, <4>2, <4>3
      <4> QED
        BY <4>4
    <3> QED
      BY <3>3, <3>5
  <2>3. /\ f.no \in Newest(accepted[n][f.from]) + 1 .. Len(sent[f.from])
        /\ f.no \in 1 .. Len(sent[f.from]) /\ sent[f.from][f.no] \in {n, Broadcast}
    <3>1. /\ f.no \in 1 .. Len(sent[f.from]) /\ sent[f.from][f.no] \in {n, Broadcast}
          /\ f.id = f.no /\ Newest(received[n][f.from]) <= f.no
      BY <1>4 DEF Fresh, About
    <3>2. /\ Newest(received[n][f.from]) \in 0 .. Len(sent[f.from])
          /\ seenIds[n][f.from] = Newest(received[n][f.from])
      BY <1>1, <1>4 DEF NumberInv
    <3>3. f.no # Newest(received[n][f.from])
      BY <1>2, <1>9, <3>1, <3>2 DEF IsSeen
    <3> QED
      BY <1>1, <1>4, <1>6, <3>1, <3>2, <3>3, Parts
  <2> QED
    BY <1>4, <2>2, <2>3
<1> QED
  BY <1>8, <1>9

\* The nodes inside sendtoWait.
Calling == {n \in Node : pc[n] \in {"send", "wait"}}

\* A step that keeps what Datagrams sees is a stutter of it.
LEMMA Stutter ==
  ASSUME UNCHANGED <<sent, result, accepted>>, Calling' = Calling
  PROVE  [Promise!Next]_Promise!vars
BY DEF Promise!vars, Calling

\* What was acknowledged can be reported.
LEMMA CanReturn ==
  ASSUME LinkInv, NEW n \in Node, Len(sent[n]) > 0,
         Dest(n) # Broadcast => Has(Dest(n), n, Len(sent[n]))
  PROVE  Promise!Accepted(n)
<1>1. Len(sent[n]) \in 1 .. Len(sent[n]) /\ sent[n] \in Seq(Node \union {Broadcast})
  <2>1. Len(sent[n]) \in Nat /\ sent[n] \in Seq(Node \union {Broadcast})
    BY Parts DEF LinkInv
  <2> QED
    BY <2>1
<1>2. Dest(n) \in Node \union {Broadcast}
  BY <1>1, ElementOfSeq DEF Dest
<1>3. Dest(n) # Broadcast => Newest(accepted[Dest(n)][n]) = Len(sent[n])
  BY <1>2, HasAccepted
<1> QED
  BY <1>3 DEF Promise!Accepted, Promise!Newest, Newest, Dest

\* A step of a node: a message submitted, accepted or reported, or a stutter.
LEMMA StepRefines ==
  ASSUME LinkInv, NoWrap, LinkInv', [Next]_vars
  PROVE  [Promise!Next]_Promise!vars
<1>1. TypeOK /\ CallInv /\ SuccessMeansReceived'
  BY DEF LinkInv
<1>2. UNCHANGED <<taken, received, seenIds>> => accepted' = accepted
  BY DEF accepted, IsSeen
<1>3. CASE UNCHANGED vars
  <2>1. UNCHANGED <<sent, result, pc, taken, received, seenIds>>
    BY <1>3 DEF vars, callVars
  <2> QED
    BY <1>2, <2>1, Stutter DEF Calling
<1>4. ASSUME NEW n \in Node, NEW to \in Node \union {Broadcast}, SendtoWait(n, to)
      PROVE  Promise!Next
  <2>1. /\ n \notin Calling /\ Calling' = Calling \union {n}
        /\ sent' = [sent EXCEPT ![n] = Append(@, to)]
        /\ result' = [result EXCEPT ![n] = FALSE] /\ accepted' = accepted
    BY <1>1, <1>2, <1>4 DEF SendtoWait, Calling, TypeOK
  <2>2. Promise!Submit(n, to)
    BY <2>1 DEF Promise!Submit, Calling
  <2> QED
    BY <2>2 DEF Promise!Next
<1>5. ASSUME NEW n \in Node, NEW ok \in BOOLEAN,
             pc[n] \in {"send", "wait"}, pc' = [pc EXCEPT ![n] = "idle"],
             ok => Promise!Accepted(n), result' = [result EXCEPT ![n] = ok],
             UNCHANGED <<sent, taken, received, seenIds>>
      PROVE  Promise!Next
  <2>1. n \in Calling /\ Calling' = Calling \ {n} /\ accepted' = accepted
    BY <1>1, <1>2, <1>5 DEF Calling, TypeOK
  <2>2. Promise!Return(n, ok)
    BY <1>5, <2>1 DEF Promise!Return, Calling
  <2> QED
    BY <2>2 DEF Promise!Next
<1>6. ASSUME NEW n \in Node, Transmit(n) PROVE [Promise!Next]_Promise!vars
  <2>1. pc[n] = "send" /\ Len(sent[n]) > 0 /\ ~result[n]
    BY <1>1, <1>6 DEF Transmit, CallInv
  <2>2. CASE Dest(n) = Broadcast
    <3>1. Promise!Accepted(n)
      BY <2>1, <2>2, CanReturn
    <3>2. /\ pc' = [pc EXCEPT ![n] = "idle"] /\ result' = [result EXCEPT ![n] = TRUE]
          /\ UNCHANGED <<sent, taken, received, seenIds>>
      BY <1>6, <2>2 DEF Transmit
    <3> QED
      BY <1>5, <2>1, <3>1, <3>2
  <2>3. CASE Dest(n) # Broadcast
    <3>1. /\ pc' = [pc EXCEPT ![n] = "wait"] /\ result' = [result EXCEPT ![n] = FALSE]
          /\ UNCHANGED <<sent, taken, received, seenIds>>
      BY <1>6, <2>3 DEF Transmit
    <3>2. result' = result
      BY <1>1, <2>1, <3>1 DEF TypeOK
    <3>3. Calling' = Calling
      BY <1>1, <2>1, <3>1 DEF Calling, TypeOK
    <3> QED
      BY <1>2, <3>1, <3>2, <3>3, Stutter
  <2> QED
    BY <2>2, <2>3
<1>7. ASSUME NEW n \in Node, GiveUp(n) PROVE Promise!Next
  <2>1. /\ pc[n] = "send" /\ ~result[n] /\ pc' = [pc EXCEPT ![n] = "idle"]
        /\ UNCHANGED <<sent, taken, received, seenIds, result>>
    BY <1>1, <1>7 DEF GiveUp, CallInv
  <2>2. result' = [result EXCEPT ![n] = FALSE]
    BY <1>1, <2>1 DEF TypeOK
  <2> QED
    BY <1>5, <2>1, <2>2
<1>8. ASSUME NEW n \in Node, HearAck(n) PROVE Promise!Next
  <2>1. /\ pc[n] = "wait" /\ pc' = [pc EXCEPT ![n] = "idle"] /\ Len(sent[n]) > 0
        /\ result' = [result EXCEPT ![n] = TRUE] /\ UNCHANGED <<sent, taken, received, seenIds>>
    BY <1>1, <1>8 DEF HearAck, CallInv
  <2>2. result'[n] = TRUE
    BY <1>1, <2>1 DEF TypeOK
  <2>3. Dest(n) # Broadcast => Has(Dest(n), n, Len(sent[n]))
    BY <1>1, <2>1, <2>2 DEF SuccessMeansReceived, Has, Dest
  <2>4. Promise!Accepted(n)
    BY <2>1, <2>3, CanReturn
  <2> QED
    BY <1>5, <2>1, <2>4
<1>9. ASSUME NEW n \in Node, Timeout(n) \/ HearOther(n) \/ DropAck(n)
      PROVE  [Promise!Next]_Promise!vars
  <2>1. UNCHANGED <<sent, result, taken, received, seenIds>>
    BY <1>9 DEF Timeout, HearOther, DropAck, callVars
  <2>2. Calling' = Calling
    BY <1>1, <1>9 DEF Timeout, HearOther, DropAck, callVars, Calling, TypeOK
  <2> QED
    BY <1>2, <2>1, <2>2, Stutter
<1>10. ASSUME NEW n \in Node, Judge(n) PROVE [Promise!Next]_Promise!vars
  <2>1. UNCHANGED <<sent, result>> /\ Calling' = Calling
    BY <1>1, <1>10 DEF Judge, Calling, TypeOK
  <2> QED
    BY <1>10, <2>1, JudgeKeeps, Stutter
<1>11. ASSUME NEW n \in Node, Acknowledge(n) PROVE [Promise!Next]_Promise!vars
  <2>1. UNCHANGED <<sent, result>> /\ Calling' = Calling
    BY <1>1, <1>11 DEF Acknowledge, Calling, TypeOK
  <2>2. CASE accepted' = accepted
    BY <2>1, <2>2, Stutter
  <2>3. CASE accepted' # accepted
    <3>1. PICK a \in Node : \E no \in 1 .. Len(sent[a]) :
            /\ no \in Newest(accepted[n][a]) + 1 .. Len(sent[a])
            /\ sent[a][no] \in {n, Broadcast}
            /\ accepted' = [accepted EXCEPT ![n][a] = Append(@, no)]
      BY <1>11, <2>3, AcknowledgeAccepts
    <3>2. PICK no \in 1 .. Len(sent[a]) :
            /\ no \in Newest(accepted[n][a]) + 1 .. Len(sent[a])
            /\ sent[a][no] \in {n, Broadcast}
            /\ accepted' = [accepted EXCEPT ![n][a] = Append(@, no)]
      BY <3>1
    <3>3. Promise!Accept(n, a, no)
      BY <2>1, <3>2 DEF Promise!Accept, Promise!Newest, Newest, Calling
    <3> QED
      BY <3>2, <3>3 DEF Promise!Next
  <2> QED
    BY <2>2, <2>3
<1> QED
  BY <1>3, <1>4, <1>6, <1>7, <1>8, <1>9, <1>10, <1>11 DEF Next, Steps

\* The layer keeps the promise of Datagrams, while no number is used twice: messages are
\* accepted in order and at most once, and a reported success has been accepted.
THEOREM DeliversAsPromisedHolds == ASSUME NoWrap PROVE Spec => DeliversAsPromised
<1>1. Init => Promise!Init
  <2> SUFFICES ASSUME Init PROVE Promise!Init
    OBVIOUS
  <2>1. accepted = [b \in Node |-> [a \in Node |-> <<>>]]
    BY DEF Init, accepted
  <2>2. {n \in Node : pc[n] \in {"send", "wait"}} = {}
    BY DEF Init
  <2> QED
    BY <2>1, <2>2 DEF Init, Promise!Init
<1>2. LinkInv /\ LinkInv' /\ [Next]_vars => [Promise!Next]_Promise!vars
  BY StepRefines
<1>3. Spec => []LinkInv
  BY Invariant
<1> QED
  BY <1>1, <1>2, <1>3, PTL DEF Spec, DeliversAsPromised, Promise!Spec
=============================================================================
