--------------------------- MODULE DownlinkProofs ---------------------------
(***************************************************************************)
(* Proofs about Downlink, for every number and length of packets, room in  *)
(* the serial port and limit of the text.                                  *)
(***************************************************************************)
EXTENDS Downlink, Integers, SequenceTheorems, TLAPS

-----------------------------------------------------------------------------
(* The inductive invariant                                                 *)

\* Bytes the reader thread has taken out of the port and not yet put into the list.
Rest ==
  IF reader \in {"append", "link"} THEN array
  ELSE IF reader = "count" THEN Tail(array) ELSE <<>>

\* Every byte the receiver has written, in order.
Stream == list \o (Rest \o port)

\* The reader's array is as long as it needs to be, and filled when it is appended.
ReaderInv ==
  /\ reader = "read" => array # <<>> /\ Len(array) <= Len(port)
  /\ reader \in {"append", "count", "link"} => array \in Seq(Cells) /\ array # <<>>

\* A sequence of bytes is packets, the last one possibly cut short.
PacketsIn(s) ==
  /\ s # <<>> => s[1].at = 1
  /\ \A i \in DOMAIN s : s[i].whole
  /\ \A i \in 1 .. Len(s) - 1 : Follows(s[i], s[i + 1])

\* The receiver writes whole packets.
StreamInv ==
  /\ PacketsIn(Stream)
  /\ Stream # <<>> => Stream[Len(Stream)].at = PacketBytes

\* What is behind was sent later.
OrderInv ==
  /\ \A i \in DOMAIN Stream :
       /\ Stream[i].n <= sent
       /\ box # None => Stream[i].n < box.n
       /\ \A j \in DOMAIN held : Stream[i].n < held[j].n
  /\ \A j \in DOMAIN held :
       /\ held[j].n <= sent
       /\ box # None => held[j].n < box.n
       /\ \A k \in DOMAIN held : j < k => held[j].n < held[k].n
  /\ box # None => box.n <= sent

Waiting == Len(held) + IF box = None THEN 0 ELSE 1

\* No byte comes from nowhere.
CountInv == Len(Stream) + Waiting * PacketBytes <= sent * PacketBytes

\* Main has seen what it acts on: bytes in the list, or enough of them.
MainInv ==
  /\ printed => list # <<>>
  /\ main = "text" => len >= Limit
  /\ FailsOnlyAtFirst
  /\ TextIsPackets

DownInv ==
  VarTypes /\ ReaderInv /\ StreamInv /\ OrderInv /\ CountInv /\ MainInv

\* The bounds.
LEMMA BoundTypes ==
  /\ MaxPackets \in Nat /\ PacketBytes \in Nat /\ PacketBytes > 0
  /\ PortRoom \in Nat /\ Limit \in Nat /\ Limit >= 2
  BY SizeAssumption

\* The bytes of a packet are a packet.
LEMMA BytesType ==
  ASSUME NEW p \in Packets
  PROVE  /\ Bytes(p) \in Seq(Cells) /\ Len(Bytes(p)) = PacketBytes
         /\ \A i \in 1 .. PacketBytes : Bytes(p)[i] = [n |-> p.n, whole |-> p.whole, at |-> i]
<1>1. p.n \in 1 .. MaxPackets /\ p.whole \in BOOLEAN
  BY DEF Packets
<1>2. \A i \in 1 .. PacketBytes : [n |-> p.n, whole |-> p.whole, at |-> i] \in Cells
  BY <1>1 DEF Cells
<1> QED BY <1>2, BoundTypes DEF Bytes

\* Two sequences of bytes behind each other.
LEMMA ConcatCells ==
  ASSUME NEW s \in Seq(Cells), NEW t \in Seq(Cells)
  PROVE  /\ s \o t \in Seq(Cells) /\ Len(s \o t) = Len(s) + Len(t)
         /\ \A i \in 1 .. Len(s) + Len(t) :
              (s \o t)[i] = IF i <= Len(s) THEN s[i] ELSE t[i - Len(s)]
  BY ConcatProperties

\* The bytes of a packet behind others.
LEMMA BytesBehind ==
  ASSUME NEW s \in Seq(Cells), NEW p \in Packets
  PROVE  /\ s \o Bytes(p) \in Seq(Cells) /\ Len(s \o Bytes(p)) = Len(s) + PacketBytes
         /\ \A i \in 1 .. Len(s) + PacketBytes : (s \o Bytes(p))[i]
              = IF i <= Len(s) THEN s[i] ELSE Bytes(p)[i - Len(s)]
<1> DEFINE b == Bytes(p)
<1>1. b \in Seq(Cells) /\ Len(b) = PacketBytes
  BY BytesType
<1> HIDE DEF b
<1> QED BY <1>1, ConcatCells DEF b

\* Lengths and elements of the stream.
LEMMA StreamType ==
  ASSUME VarTypes, ReaderInv
  PROVE  /\ Rest \in Seq(Cells) /\ port \in Seq(Cells) /\ list \in Seq(Cells)
         /\ Stream \in Seq(Cells)
         /\ Len(Stream) = Len(list) + Len(Rest) + Len(port)
         /\ \A i \in 1 .. Len(list) : Stream[i] = list[i]
<1>1. Rest \in Seq(Cells)
  BY HeadTailProperties DEF Rest, ReaderInv, VarTypes
<1>2. port \in Seq(Cells) /\ list \in Seq(Cells)
  BY DEF VarTypes
<1>3. Rest \o port \in Seq(Cells) /\ Len(Rest \o port) = Len(Rest) + Len(port)
  BY <1>1, <1>2, ConcatProperties
<1> HIDE DEF Rest
<1>4. /\ list \o (Rest \o port) \in Seq(Cells)
      /\ Len(list \o (Rest \o port)) = Len(list) + (Len(Rest) + Len(port))
      /\ \A i \in 1 .. Len(list) : (list \o (Rest \o port))[i] = list[i]
  BY <1>2, <1>3, ConcatProperties
<1> QED BY <1>1, <1>2, <1>4 DEF Stream

\* A beginning of a sequence of packets is one.
LEMMA PacketsInPrefix ==
  ASSUME NEW s \in Seq(Cells), NEW t \in Seq(Cells), Len(t) <= Len(s),
         \A i \in 1 .. Len(t) : s[i] = t[i], PacketsIn(s)
  PROVE  PacketsIn(t)
  BY DEF PacketsIn

\* A packet behind a sequence of whole packets.
LEMMA PacketsInConcat ==
  ASSUME NEW s \in Seq(Cells), PacketsIn(s),
         s # <<>> => s[Len(s)].at = PacketBytes,
         NEW p \in Packets, p.whole, \A i \in DOMAIN s : s[i].n < p.n
  PROVE  /\ PacketsIn(s \o Bytes(p))
         /\ (s \o Bytes(p))[Len(s \o Bytes(p))].at = PacketBytes
<1> DEFINE u == s \o Bytes(p)
<1>1. /\ u \in Seq(Cells) /\ Len(u) = Len(s) + PacketBytes
      /\ \A i \in 1 .. Len(s) + PacketBytes :
           u[i] = IF i <= Len(s) THEN s[i] ELSE Bytes(p)[i - Len(s)]
  BY BytesBehind
<1>2. \A i \in 1 .. PacketBytes : Bytes(p)[i] = [n |-> p.n, whole |-> p.whole, at |-> i]
  BY BytesType
<1>3. Len(s) \in Nat /\ PacketBytes \in Nat /\ PacketBytes > 0
  BY BoundTypes
<1> HIDE DEF u
<1>4. \A i \in 1 .. Len(s) : u[i] = s[i]
  BY <1>1, <1>3
<1>5. \A k \in 1 .. PacketBytes : u[Len(s) + k] = [n |-> p.n, whole |-> p.whole, at |-> k]
  <2> SUFFICES ASSUME NEW k \in 1 .. PacketBytes
               PROVE  u[Len(s) + k] = [n |-> p.n, whole |-> p.whole, at |-> k]
    OBVIOUS
  <2>1. Len(s) + k \in 1 .. Len(s) + PacketBytes /\ ~(Len(s) + k <= Len(s))
    BY <1>3
  <2>2. (Len(s) + k) - Len(s) = k
    BY <1>3
  <2> QED BY <1>1, <1>2, <2>1, <2>2
<1>6. u[1].at = 1
  <2>1. CASE s = <<>>
    <3>1. Len(s) + 1 = 1 /\ 1 \in 1 .. PacketBytes
      BY <1>3, <2>1
    <3>2. u[1] = [n |-> p.n, whole |-> p.whole, at |-> 1]
      BY <1>5, <3>1
    <3> QED BY <3>2
  <2>2. CASE s # <<>>
    BY <1>3, <1>4, <2>2 DEF PacketsIn
  <2> QED BY <2>1, <2>2
<1>7. ASSUME NEW i \in 1 .. Len(u) PROVE u[i].whole
  <2>1. CASE i <= Len(s)
    BY <1>1, <1>4, <2>1 DEF PacketsIn
  <2>2. CASE i > Len(s)
    <3>1. i - Len(s) \in 1 .. PacketBytes /\ Len(s) + (i - Len(s)) = i
      BY <1>1, <1>3, <2>2
    <3>2. u[i] = [n |-> p.n, whole |-> p.whole, at |-> i - Len(s)]
      BY <1>5, <3>1
    <3> QED BY <3>2
  <2> QED BY <1>1, <1>3, <2>1, <2>2
<1>8. ASSUME NEW i \in 1 .. Len(u) - 1 PROVE Follows(u[i], u[i + 1])
  <2>1. CASE i < Len(s)
    BY <1>3, <1>4, <2>1 DEF PacketsIn
  <2>2. CASE i = Len(s)
    <3>1. u[i] = s[i] /\ s[i].at = PacketBytes /\ s[i].n < p.n
      BY <1>3, <1>4, <2>2
    <3>2. u[i + 1].n = p.n /\ u[i + 1].at = 1
      <4>1. u[Len(s) + 1] = [n |-> p.n, whole |-> p.whole, at |-> 1]
        BY <1>3, <1>5
      <4> QED BY <2>2, <4>1
    <3>3. s[i] \in Cells
      BY <1>3, <2>2
    <3> QED BY <1>3, <3>1, <3>2, <3>3 DEF Follows, Cells, Packets
  <2>3. CASE i > Len(s)
    <3>1. i - Len(s) \in 1 .. PacketBytes - 1
      BY <1>1, <1>3, <2>3
    <3>2. /\ u[i] = [n |-> p.n, whole |-> p.whole, at |-> i - Len(s)]
          /\ u[i + 1] = [n |-> p.n, whole |-> p.whole, at |-> i - Len(s) + 1]
      <4>1. /\ Len(s) + (i - Len(s)) = i /\ Len(s) + (i - Len(s) + 1) = i + 1
            /\ i - Len(s) \in 1 .. PacketBytes /\ i - Len(s) + 1 \in 1 .. PacketBytes
        BY <1>3, <3>1
      <4> QED BY <1>5, <4>1
    <3> QED BY <1>3, <3>1, <3>2 DEF Follows
  <2> QED BY <1>3, <2>1, <2>2, <2>3
<1>9. u[Len(u)].at = PacketBytes
  <2>1. u[Len(s) + PacketBytes] = [n |-> p.n, whole |-> p.whole, at |-> PacketBytes]
    BY <1>3, <1>5
  <2> QED BY <1>1, <2>1
<1>10. DOMAIN u = 1 .. Len(u)
  BY <1>1
<1>11. PacketsIn(u)
  BY <1>6, <1>7, <1>8, <1>10 DEF PacketsIn
<1> QED BY <1>9, <1>11 DEF u

-----------------------------------------------------------------------------
(* The reader thread                                                       *)

\* The rest of an array is empty behind its last byte.
LEMMA TailEmpty ==
  ASSUME NEW a \in Seq(Cells), a # <<>>
  PROVE  Tail(a) \in Seq(Cells) /\ (Tail(a) = <<>> <=> Len(a) = 1)
<1> DEFINE t == Tail(a)
<1>1. t \in Seq(Cells) /\ Len(t) = Len(a) - 1 /\ Len(a) \in Nat
  BY HeadTailProperties
<1> HIDE DEF t
<1>2. t = <<>> <=> Len(t) = 0
  BY <1>1
<1> QED BY <1>1, <1>2 DEF t

\* A byte that moves from the array to the list.
LEMMA MoveByte ==
  ASSUME NEW l \in Seq(Cells), NEW a \in Seq(Cells), a # <<>>, NEW p \in Seq(Cells)
  PROVE  Append(l, a[1]) \o (Tail(a) \o p) = l \o (a \o p)
<1>1. a[1] \in Cells /\ Tail(a) \in Seq(Cells) /\ <<a[1]>> \in Seq(Cells)
  OBVIOUS
<1>2. a = <<a[1]>> \o Tail(a)
  OBVIOUS
<1>3. Append(l, a[1]) = l \o <<a[1]>>
  BY <1>1, AppendIsConcat
<1>4. a \o p = <<a[1]>> \o (Tail(a) \o p)
  BY <1>1, <1>2, ConcatAssociative
<1>5. Tail(a) \o p \in Seq(Cells)
  BY <1>1
<1>6. (l \o <<a[1]>>) \o (Tail(a) \o p) = l \o (<<a[1]>> \o (Tail(a) \o p))
  <2> DEFINE x == <<a[1]>>
             y == Tail(a) \o p
  <2>1. x \in Seq(Cells) /\ y \in Seq(Cells)
    BY <1>1, <1>5
  <2> HIDE DEF x, y
  <2>2. (l \o x) \o y = l \o (x \o y)
    BY <2>1, ConcatAssociative
  <2> QED BY <2>2 DEF x, y
<1> QED BY <1>3, <1>4, <1>6

\* The reader thread changes where bytes are, not which there are.
LEMMA ReaderStep ==
  ASSUME VarTypes, ReaderInv, Reader
  PROVE  VarTypes' /\ ReaderInv' /\ Stream' = Stream
<1> USE DEF rocketVars, receiverVars, bufferVars, readerVars, mainVars
<1>0. /\ port \in Seq(Cells) /\ Len(port) <= PortRoom /\ list \in Seq(Cells)
      /\ array \in Seq(Cells \union {None})
  BY DEF VarTypes
<1>1. CASE Allocate
  <2>1. /\ reader = "poll" /\ reader' = "read" /\ UNCHANGED <<list, port, len>>
        /\ array' \in Seq(Cells \union {None}) /\ Len(array') = Len(port) /\ array' # <<>>
    BY <1>0, <1>1 DEF Allocate
  <2>2. VarTypes'
    BY <1>1, <2>1 DEF Allocate, VarTypes
  <2>3. ReaderInv'
    BY <1>0, <2>1 DEF ReaderInv
  <2>4. Stream' = Stream
    BY <2>1 DEF Stream, Rest
  <2> QED BY <2>2, <2>3, <2>4
<1>2. CASE ReadBytes
  <2>1. /\ reader = "read" /\ reader' = "append" /\ UNCHANGED <<list, len>>
        /\ array' = SubSeq(port, 1, Len(array))
        /\ port' = SubSeq(port, Len(array) + 1, Len(port))
        /\ Len(array) \in 1 .. Len(port)
    BY <1>0, <1>2 DEF ReadBytes, ReaderInv
  <2>2. /\ array' \in Seq(Cells) /\ array' # <<>>
        /\ port' \in Seq(Cells) /\ Len(port') <= Len(port)
    BY <1>0, <2>1
  <2>3. array' \in Seq(Cells \union {None})
    BY <2>2, SeqMonotonic
  <2>4. VarTypes'
    BY <1>0, <1>2, <2>1, <2>2, <2>3, BoundTypes DEF ReadBytes, VarTypes
  <2>5. ReaderInv'
    BY <2>1, <2>2 DEF ReaderInv
  <2>6. array' \o port' = port
    <3>1. SubSeq(port, 1, Len(array)) \o SubSeq(port, Len(array) + 1, Len(port))
            = SubSeq(port, 1, Len(port))
      BY <1>0, <2>1, ConcatAdjacentSubSeq
    <3> QED BY <1>0, <2>1, <3>1, SubSeqFull
  <2>7. <<>> \o port = port
    BY <1>0
  <2>8. Stream' = Stream
    BY <2>1, <2>6, <2>7 DEF Stream, Rest
  <2> QED BY <2>4, <2>5, <2>8
<1>3. CASE AppendByte
  <2>0. /\ UNCHANGED <<sent, box, got, held, port, main, printed, text>>
        /\ array \in Seq(Cells) /\ array # <<>> /\ array[1] \in Cells
        /\ Append(list, array[1]) \in Seq(Cells)
        /\ Len(Append(list, array[1])) = Len(list) + 1
        /\ Append(list, array[1]) \o (Tail(array) \o port) = list \o (array \o port)
    <3>1. reader \in {"append", "count", "link"}
      BY <1>3 DEF AppendByte, LinkFirst, CountFirst, ThenCount, ThenLink
    <3>2. array \in Seq(Cells) /\ array # <<>>
      BY <3>1 DEF ReaderInv
    <3>3. array[1] \in Cells
      BY <3>2
    <3> QED BY <1>0, <1>3, <3>2, <3>3, MoveByte, AppendProperties DEF AppendByte
  <2>1. CASE LinkFirst
    <3>1. /\ reader = "append" /\ reader' = "count" /\ UNCHANGED <<len, array>>
          /\ list' = Append(list, array[1])
      BY <2>1 DEF LinkFirst
    <3>2. VarTypes'
      BY <1>0, <2>0, <3>1 DEF VarTypes
    <3>3. ReaderInv' /\ Stream' = Stream
      BY <2>0, <3>1 DEF ReaderInv, Stream, Rest
    <3> QED BY <3>2, <3>3
  <2>2. CASE CountFirst
    <3>1. /\ reader = "append" /\ reader' = "link" /\ UNCHANGED <<list, array>>
          /\ len' = len + 1
      BY <2>2 DEF CountFirst
    <3>2. VarTypes'
      BY <1>0, <2>0, <3>1 DEF VarTypes
    <3>3. ReaderInv' /\ Stream' = Stream
      BY <2>0, <3>1 DEF ReaderInv, Stream, Rest
    <3> QED BY <3>2, <3>3
  <2>3. CASE ThenCount \/ ThenLink
    <3>1. /\ array' = Tail(array) /\ array' \in Seq(Cells)
          /\ reader' = IF array' = <<>> THEN "poll" ELSE "append"
      <4>1. Tail(array) \in Seq(Cells) /\ (Tail(array) = <<>> <=> Len(array) = 1)
        BY <2>0, TailEmpty
      <4> QED BY <2>3, <4>1 DEF ThenCount, ThenLink, Done
    <3>2. array' \in Seq(Cells \union {None})
      BY <3>1, SeqMonotonic
    <3>3. \/ reader = "count" /\ len' = len + 1 /\ list' = list
          \/ reader = "link" /\ len' = len /\ list' = Append(list, array[1])
      BY <2>3 DEF ThenCount, ThenLink
    <3>4. VarTypes'
      <4>1. /\ list' \in Seq(Cells) /\ len' \in Nat /\ reader' \in {"poll", "append"}
            /\ len' = Len(list')
        <5>1. len \in Nat /\ Len(list) \in Nat
          BY DEF VarTypes
        <5>2. CASE reader = "count" /\ len' = len + 1 /\ list' = list
          BY <1>0, <3>1, <5>1, <5>2 DEF VarTypes
        <5>3. CASE reader = "link" /\ len' = len /\ list' = Append(list, array[1])
          BY <2>0, <3>1, <5>1, <5>3 DEF VarTypes
        <5> QED BY <3>3, <5>2, <5>3
      <4> QED BY <2>0, <3>2, <4>1 DEF VarTypes
    <3>5. ReaderInv'
      BY <3>1 DEF ReaderInv
    <3>6. Rest' = Tail(array)
      BY <3>1 DEF Rest
    <3>7. Stream' = Stream
      BY <2>0, <3>3, <3>6 DEF Stream, Rest
    <3> QED BY <3>4, <3>5, <3>7
  <2> QED BY <1>3, <2>1, <2>2, <2>3 DEF AppendByte
<1> QED BY <1>1, <1>2, <1>3 DEF Reader

\* Reading adds nothing to what the receiver has written, and takes nothing away.
LEMMA ReaderKeeps ==
  ASSUME DownInv, Reader
  PROVE  DownInv'
<1>1. VarTypes' /\ ReaderInv' /\ Stream' = Stream
  BY ReaderStep DEF DownInv
<1>2. UNCHANGED <<sent, box, got, held, out, mainVars>>
  BY DEF Reader, Allocate, ReadBytes, AppendByte, rocketVars, receiverVars
<1>3. StreamInv'
  BY <1>1 DEF DownInv, StreamInv, PacketsIn
<1>4. OrderInv'
  BY <1>1, <1>2 DEF DownInv, OrderInv
<1>5. CountInv'
  BY <1>1, <1>2 DEF DownInv, CountInv, Waiting
<1>6. MainInv'
  <2>1. list' = list \/ list' = Append(list, array[1])
    BY DEF Reader, Allocate, ReadBytes, AppendByte, LinkFirst, ThenCount, CountFirst,
           ThenLink, bufferVars
  <2>2. (len' = len \/ len' = len + 1) /\ len \in Nat
    BY DEF Reader, Allocate, ReadBytes, AppendByte, LinkFirst, ThenCount, CountFirst,
           ThenLink, bufferVars, DownInv, VarTypes
  <2>3. list # <<>> => list' # <<>>
    <3>1. CASE list' = Append(list, array[1])
      <4>1. list \in Seq(Cells) /\ list' \in Seq(Cells)
        BY <1>1 DEF VarTypes, DownInv
      <4>2. Len(list') = Len(list) + 1
        BY <3>1, <4>1
      <4> QED BY <4>1, <4>2
    <3> QED BY <2>1, <3>1
  <2>4. Limit \in Nat
    BY BoundTypes
  <2> QED BY <1>2, <2>2, <2>3, <2>4
          DEF DownInv, MainInv, FailsOnlyAtFirst, TextIsPackets, mainVars
<1> QED BY <1>1, <1>3, <1>4, <1>5, <1>6 DEF DownInv

-----------------------------------------------------------------------------
(* Main                                                                    *)

\* What is in the list is packets, the last one possibly cut short.
LEMMA ListIsPackets ==
  ASSUME DownInv
  PROVE  PacketsIn(list)
  BY StreamType, PacketsInPrefix DEF DownInv, StreamInv

\* Main prints a byte only if there is one, and the text once it is long enough.
LEMMA MainKeeps ==
  ASSUME DownInv, Main
  PROVE  DownInv'
<1> USE DEF rocketVars, receiverVars, bufferVars, readerVars, mainVars
<1>1. UNCHANGED <<sent, box, got, held, out, port, list, len, array, reader>>
  BY DEF Main, Check, Look, PrintHead, PrintText
<1>2. /\ list \in Seq(Cells) /\ len \in Nat /\ len <= Len(list) + 1 /\ Len(list) \in Nat
      /\ main \in {"check", "look", "head", "text", "ended", "failed"}
      /\ text \in Seq(Cells) /\ printed \in BOOLEAN
  BY DEF DownInv, VarTypes
<1>3. VarTypes'
  <2>1. text' \in Seq(Cells) /\ printed' \in BOOLEAN
        /\ main' \in {"check", "look", "head", "text", "ended", "failed"}
    BY <1>2 DEF Main, Check, Look, PrintHead, PrintText
  <2> QED BY <1>1, <2>1 DEF DownInv, VarTypes
<1>4. ReaderInv' /\ Stream' = Stream
  BY <1>1 DEF DownInv, ReaderInv, Stream, Rest
<1>5. StreamInv' /\ OrderInv' /\ CountInv'
  BY <1>1, <1>4 DEF DownInv, StreamInv, PacketsIn, OrderInv, CountInv, Waiting
<1>6. MainInv'
  <2>1. CASE Check \/ Look
    <3>1. main' \in {"look", "head", "check"} \/ (main' = "text" /\ len >= Limit)
      BY <1>2, <2>1, BoundTypes DEF Check, Look
    <3>2. UNCHANGED <<printed, text>>
      BY <2>1 DEF Check, Look
    <3> QED BY <1>1, <3>1, <3>2 DEF DownInv, MainInv, FailsOnlyAtFirst, TextIsPackets
  <2>2. CASE PrintHead
    BY <1>1, <2>2 DEF PrintHead, DownInv, MainInv, FailsOnlyAtFirst, TextIsPackets
  <2>3. CASE PrintText
    <3>1. text' = list /\ main' = "ended" /\ UNCHANGED printed /\ len >= Limit
      BY <2>3 DEF PrintText, DownInv, MainInv
    <3>2. Len(list) >= Limit - 1 /\ list # <<>> /\ DOMAIN list = 1 .. Len(list)
      BY <1>2, <3>1, BoundTypes
    <3>3. PacketsIn(list)
      BY ListIsPackets
    <3>4. TextIsPackets'
      BY <3>1, <3>2, <3>3 DEF TextIsPackets, PacketsIn
    <3> QED BY <1>1, <3>1, <3>4 DEF DownInv, MainInv, FailsOnlyAtFirst
  <2> QED BY <2>1, <2>2, <2>3 DEF Main
<1> QED BY <1>3, <1>4, <1>5, <1>6 DEF DownInv

-----------------------------------------------------------------------------
(* The rocket and the receiver                                             *)

\* Multiples of a packet's length.
LEMMA Distribute ==
  ASSUME NEW a \in Int, NEW b \in Nat
  PROVE  /\ a * b \in Int /\ (a + 1) * b = a * b + b /\ (a - 1) * b = a * b - b
         /\ a >= 0 => a * b >= 0
  OBVIOUS

\* A packet that is sent, lost or not, comes behind all others.
LEMMA TransmitKeeps ==
  ASSUME DownInv, Transmit \/ TransmitLost
  PROVE  DownInv'
<1> USE DEF receiverVars, bufferVars, readerVars, mainVars
<1>1. /\ sent \in Nat /\ sent' = sent + 1 /\ sent' \in 0 .. MaxPackets
      /\ UNCHANGED <<held, port, list, len, array, reader, main, printed, text>>
  BY BoundTypes DEF Transmit, TransmitLost, DownInv, VarTypes
<1>2. /\ got' = got
      /\ \/ box' = box
         \/ /\ box = None
            /\ \E whole \in BOOLEAN : box' = [n |-> sent', whole |-> whole]
  BY DEF Transmit, TransmitLost, Radio!Put
<1>3. box' = box \/ (box = None /\ box' \in Packets /\ box'.n = sent')
  BY <1>1, <1>2, BoundTypes DEF Packets
<1>4. VarTypes'
  <2>1. {box', got'} \subseteq Packets \union {None}
    BY <1>2, <1>3 DEF DownInv, VarTypes
  <2> QED BY <1>1, <2>1 DEF DownInv, VarTypes
<1>5. ReaderInv' /\ Stream' = Stream /\ Stream \in Seq(Cells)
  BY <1>1, StreamType DEF DownInv, ReaderInv, Stream, Rest
<1>6. StreamInv' /\ MainInv'
  BY <1>1, <1>5
  DEF DownInv, StreamInv, PacketsIn, MainInv, FailsOnlyAtFirst, TextIsPackets
<1>7. OrderInv'
  <2>1. /\ \A i \in DOMAIN Stream : Stream[i].n \in Nat /\ Stream[i].n <= sent
        /\ \A j \in DOMAIN held : held[j].n \in Nat /\ held[j].n <= sent
    <3>1. /\ \A i \in DOMAIN Stream : Stream[i] \in Cells
          /\ \A j \in DOMAIN held : held[j] \in Packets
      BY <1>5 DEF DownInv, VarTypes
    <3>2. /\ \A c \in Cells : c.n \in Nat
          /\ \A p \in Packets : p.n \in Nat
      BY BoundTypes DEF Cells, Packets
    <3> QED BY <3>1, <3>2 DEF DownInv, OrderInv
  <2>2. CASE box' = box
    <3>1. box # None => box.n \in Nat /\ box.n <= sent
      <4>1. box \in Packets \union {None} /\ \A p \in Packets : p.n \in Nat
        BY BoundTypes DEF DownInv, VarTypes, Packets
      <4> QED BY <4>1 DEF DownInv, OrderInv
    <3> QED BY <1>1, <1>5, <2>1, <2>2, <3>1 DEF DownInv, OrderInv
  <2>3. CASE box = None /\ box'.n = sent'
    BY <1>1, <1>5, <2>1, <2>3 DEF DownInv, OrderInv
  <2> QED BY <1>3, <2>2, <2>3
<1>8. CountInv'
  <2>1. Waiting \in Nat /\ (Waiting' = Waiting \/ Waiting' = Waiting + 1)
    BY <1>1, <1>3 DEF Waiting, DownInv, VarTypes
  <2>2. /\ Waiting * PacketBytes \in Int /\ sent * PacketBytes \in Int
        /\ (Waiting + 1) * PacketBytes = Waiting * PacketBytes + PacketBytes
        /\ (sent + 1) * PacketBytes = sent * PacketBytes + PacketBytes
    BY <1>1, <2>1, BoundTypes, Distribute
  <2>3. Len(Stream) \in Nat /\ PacketBytes \in Nat
    BY <1>5, BoundTypes
  <2> QED BY <1>1, <1>5, <2>1, <2>2, <2>3 DEF DownInv, CountInv
<1> QED BY <1>4, <1>5, <1>6, <1>7, <1>8 DEF DownInv

\* The message collected is put behind those heard before.
LEMMA HearKeeps ==
  ASSUME DownInv, Hear
  PROVE  DownInv'
<1> USE DEF rocketVars, bufferVars, readerVars, mainVars
<1>1. /\ box \in Packets /\ box # None /\ got' = box /\ box' = None
      /\ held \in Seq(Packets) /\ held' = Append(held, box)
      /\ UNCHANGED <<sent, port, list, len, array, reader, main, printed, text>>
  BY DEF Hear, Radio!Take, Receiver!Hear, DownInv, VarTypes
<1>2. /\ held' \in Seq(Packets) /\ Len(held') = Len(held) + 1 /\ Len(held) \in Nat
      /\ \A j \in DOMAIN held' : held'[j] = IF j \in DOMAIN held THEN held[j] ELSE box
      /\ \A j, k \in DOMAIN held' : j < k => j \in DOMAIN held
  BY <1>1
<1>3. VarTypes'
  BY <1>1, <1>2 DEF DownInv, VarTypes
<1>4. ReaderInv' /\ Stream' = Stream /\ Stream \in Seq(Cells)
  BY <1>1, StreamType DEF DownInv, ReaderInv, Stream, Rest
<1>5. StreamInv' /\ MainInv'
  BY <1>1, <1>4
  DEF DownInv, StreamInv, PacketsIn, MainInv, FailsOnlyAtFirst, TextIsPackets
<1>6. OrderInv'
  BY <1>1, <1>2, <1>4 DEF DownInv, OrderInv
<1>7. CountInv'
  <2>1. Waiting' = Waiting
    BY <1>1, <1>2 DEF Waiting
  <2> QED BY <1>1, <1>4, <2>1 DEF DownInv, CountInv
<1> QED BY <1>3, <1>4, <1>5, <1>6, <1>7 DEF DownInv

\* What is put into the port comes behind everything in front of it.
LEMMA StreamGrows ==
  ASSUME NEW l \in Seq(Cells), NEW r \in Seq(Cells), NEW p \in Seq(Cells),
         NEW b \in Seq(Cells)
  PROVE  l \o (r \o (p \o b)) = (l \o (r \o p)) \o b
<1>1. (r \o p) \o b = r \o (p \o b)
  BY ConcatAssociative
<1> DEFINE q == r \o p
<1>2. q \in Seq(Cells)
  OBVIOUS
<1> HIDE DEF q
<1>3. (l \o q) \o b = l \o (q \o b)
  BY <1>2, ConcatAssociative
<1> QED BY <1>1, <1>3 DEF q

\* The oldest packet held goes behind everything written, or nowhere.
LEMMA DealKeeps ==
  ASSUME DownInv, Deal
  PROVE  DownInv'
<1> USE DEF rocketVars, bufferVars, readerVars, mainVars
<1> DEFINE p == Head(held)
<1>1. /\ held \in Seq(Packets) /\ held # <<>> /\ held' = Tail(held) /\ p \in Packets
      /\ Len(port) + PacketBytes <= PortRoom /\ port \in Seq(Cells)
      /\ port' = IF p.whole THEN port \o Bytes(p) ELSE port
      /\ UNCHANGED <<sent, box, got, list, len, array, reader, main, printed, text>>
  BY DEF Deal, Receiver!Deal, Intact, DownInv, VarTypes
<1>2. /\ held' \in Seq(Packets) /\ Len(held') = Len(held) - 1 /\ Len(held) \in Nat
      /\ p = held[1] /\ 1 \in DOMAIN held
      /\ \A j \in DOMAIN held' : j + 1 \in DOMAIN held /\ held'[j] = held[j + 1]
  BY <1>1
<1> HIDE DEF p
<1>3. /\ Bytes(p) \in Seq(Cells) /\ Len(Bytes(p)) = PacketBytes
      /\ \A i \in 1 .. PacketBytes : Bytes(p)[i].n = p.n
  <2>1. \A i \in 1 .. PacketBytes : Bytes(p)[i] = [n |-> p.n, whole |-> p.whole, at |-> i]
    BY <1>1, BytesType
  <2>2. Bytes(p) \in Seq(Cells) /\ Len(Bytes(p)) = PacketBytes
    BY <1>1, BytesType
  <2>3. \A i \in 1 .. PacketBytes : Bytes(p)[i].n = p.n
    <3> SUFFICES ASSUME NEW i \in 1 .. PacketBytes PROVE Bytes(p)[i].n = p.n
      OBVIOUS
    <3>1. Bytes(p)[i] = [n |-> p.n, whole |-> p.whole, at |-> i]
      BY <2>1
    <3> QED BY <3>1
  <2> QED BY <2>2, <2>3
<1>4. /\ Rest \in Seq(Cells) /\ list \in Seq(Cells) /\ Stream \in Seq(Cells)
      /\ Len(Stream) \in Nat
  BY StreamType DEF DownInv
<1>5. /\ \A i \in DOMAIN Stream : Stream[i].n < p.n
      /\ p.n <= sent /\ (box # None => p.n < box.n)
      /\ \A j \in DOMAIN held' : p.n < held'[j].n
  <2>1. \A j \in DOMAIN held' : j \in Nat /\ 1 < j + 1
    BY <1>2
  <2> QED BY <1>2, <2>1 DEF DownInv, OrderInv
<1>6. Rest' = Rest
  BY <1>1 DEF Rest
<1>7. Stream' = IF p.whole THEN Stream \o Bytes(p) ELSE Stream
  <2>1. CASE p.whole
    <3>1. Stream' = list \o (Rest \o (port \o Bytes(p)))
      BY <1>1, <1>6, <2>1 DEF Stream
    <3>2. Stream' = (list \o (Rest \o port)) \o Bytes(p)
      <4>1. \A r, q, b \in Seq(Cells) : list \o (r \o (q \o b)) = (list \o (r \o q)) \o b
        BY <1>4, StreamGrows
      <4>2. \A q, b \in Seq(Cells) :
              list \o (Rest \o (q \o b)) = (list \o (Rest \o q)) \o b
        BY <1>4, <4>1
      <4>3. \A b \in Seq(Cells) :
              list \o (Rest \o (port \o b)) = (list \o (Rest \o port)) \o b
        BY <1>1, <4>2
      <4> QED BY <1>3, <3>1, <4>3
    <3> QED BY <2>1, <3>2 DEF Stream
  <2>2. CASE ~p.whole
    BY <1>1, <1>6, <2>2 DEF Stream
  <2> QED BY <2>1, <2>2
<1>8. VarTypes'
  <2>1. port' \in Seq(Cells) /\ Len(port') <= PortRoom
    <3>1. /\ port \o Bytes(p) \in Seq(Cells)
          /\ Len(port \o Bytes(p)) = Len(port) + Len(Bytes(p))
      BY <1>1, <1>3, ConcatCells
    <3>2. Len(port) <= PortRoom
      BY DEF DownInv, VarTypes
    <3> QED BY <1>1, <1>3, <3>1, <3>2
  <2> QED BY <1>1, <1>2, <2>1 DEF DownInv, VarTypes
<1>9. ReaderInv'
  <2>1. Len(port) <= Len(port')
    <3>1. Len(port \o Bytes(p)) = Len(port) + PacketBytes /\ Len(port) \in Nat
      BY <1>1, BytesBehind
    <3> QED BY <1>1, <3>1, BoundTypes
  <2>2. Len(array) \in Nat /\ Len(port) \in Nat /\ Len(port') \in Nat
    BY <1>1, <1>8 DEF DownInv, VarTypes
  <2> QED BY <1>1, <2>1, <2>2 DEF DownInv, ReaderInv
<1>10. StreamInv'
  <2>1. CASE p.whole
    <3>1. PacketsIn(Stream) /\ (Stream # <<>> => Stream[Len(Stream)].at = PacketBytes)
      BY DEF DownInv, StreamInv
    <3>2. /\ PacketsIn(Stream \o Bytes(p))
          /\ (Stream \o Bytes(p))[Len(Stream \o Bytes(p))].at = PacketBytes
      BY <1>1, <1>4, <1>5, <2>1, <3>1, PacketsInConcat
    <3> QED BY <1>7, <2>1, <3>2 DEF StreamInv, PacketsIn
  <2>2. CASE ~p.whole
    BY <1>7, <2>2 DEF DownInv, StreamInv, PacketsIn
  <2> QED BY <2>1, <2>2
<1>11. OrderInv'
  <2>1. ASSUME NEW i \in DOMAIN Stream'
        PROVE  (i \in DOMAIN Stream /\ Stream'[i] = Stream[i]) \/ Stream'[i].n = p.n
    <3>1. CASE p.whole
      <4>1. i \in 1 .. Len(Stream) + PacketBytes
        BY <1>1, <1>4, <1>7, <2>1, <3>1, BytesBehind
      <4>2. Stream'[i] = IF i <= Len(Stream) THEN Stream[i] ELSE Bytes(p)[i - Len(Stream)]
        BY <1>1, <1>4, <1>7, <3>1, <4>1, BytesBehind
      <4>3. CASE i <= Len(Stream)
        BY <1>4, <4>1, <4>2, <4>3
      <4>4. CASE ~(i <= Len(Stream))
        <5>1. i - Len(Stream) \in 1 .. PacketBytes
          BY <1>4, <4>1, <4>4, BoundTypes
        <5> QED BY <1>3, <4>2, <4>4, <5>1
      <4> QED BY <4>3, <4>4
    <3>2. CASE ~p.whole
      BY <1>7, <2>1, <3>2
    <3> QED BY <3>1, <3>2
  <2>2. ASSUME NEW j \in DOMAIN held'
        PROVE  /\ held'[j].n <= sent /\ (box # None => held'[j].n < box.n)
               /\ \A i \in DOMAIN Stream : Stream[i].n < held'[j].n
    BY <1>2, <2>2 DEF DownInv, OrderInv
  <2>3. \A j, k \in DOMAIN held' : j < k => held'[j].n < held'[k].n
    <3>1. \A j \in DOMAIN held' : j \in Nat
      BY <1>2
    <3>2. \A j, k \in DOMAIN held' : j < k => j + 1 < k + 1
      BY <3>1
    <3> QED BY <1>2, <3>2 DEF DownInv, OrderInv
  <2>4. ASSUME NEW i \in DOMAIN Stream'
        PROVE  /\ Stream'[i].n <= sent /\ (box # None => Stream'[i].n < box.n)
               /\ \A j \in DOMAIN held' : Stream'[i].n < held'[j].n
    BY <1>5, <2>1, <2>2 DEF DownInv, OrderInv
  <2> QED BY <1>1, <2>2, <2>3, <2>4 DEF DownInv, OrderInv
<1>12. CountInv'
  <2>1. Waiting \in Int /\ Waiting' = Waiting - 1
    BY <1>1, <1>2 DEF Waiting
  <2>2. /\ Waiting * PacketBytes \in Int /\ sent * PacketBytes \in Int
        /\ (Waiting - 1) * PacketBytes = Waiting * PacketBytes - PacketBytes
    <3>1. sent \in Int
      BY BoundTypes DEF DownInv, VarTypes
    <3> QED BY <2>1, <3>1, BoundTypes, Distribute
  <2>3. Len(Stream') \in {Len(Stream), Len(Stream) + PacketBytes}
    BY <1>1, <1>4, <1>7, BytesBehind
  <2> QED BY <1>1, <1>4, <2>1, <2>2, <2>3, BoundTypes DEF DownInv, CountInv
<1>13. MainInv'
  BY <1>1 DEF DownInv, MainInv, FailsOnlyAtFirst, TextIsPackets
<1> QED BY <1>8, <1>9, <1>10, <1>11, <1>12, <1>13 DEF DownInv

-----------------------------------------------------------------------------
(* Safety                                                                  *)

\* Nothing has been sent or read.
LEMMA DownInit == Init => DownInv
<1> SUFFICES ASSUME Init PROVE DownInv
  OBVIOUS
<1> USE DEF Init, Radio!Init, Receiver!Init
<1>1. VarTypes
  <2>1. sent \in 0 .. MaxPackets /\ Len(port) <= PortRoom /\ len \in Nat
    BY BoundTypes
  <2>2. {box, got} \subseteq Packets \union {None} /\ held \in Seq(Packets)
    OBVIOUS
  <2>3. /\ port \in Seq(Cells) /\ array \in Seq(Cells \union {None})
        /\ list \in Seq(Cells) /\ text \in Seq(Cells) /\ Len(list) = 0
    OBVIOUS
  <2>4. reader = "poll" /\ main = "check" /\ printed = FALSE /\ len = 0
    OBVIOUS
  <2> HIDE DEF Init, Radio!Init, Receiver!Init
  <2>5. len + (IF reader = "count" THEN 1 ELSE 0)
          = Len(list) + (IF reader = "link" THEN 1 ELSE 0)
    BY <2>3, <2>4
  <2> QED BY <2>1, <2>2, <2>3, <2>4, <2>5, Zenon DEF VarTypes
<1>2. Stream = <<>>
  BY DEF Stream, Rest
<1>3. StreamInv /\ OrderInv
  BY <1>2 DEF StreamInv, PacketsIn, OrderInv
<1>4. Waiting = 0 /\ 0 * PacketBytes = 0
  BY BoundTypes DEF Waiting
<1>5. CountInv
  BY <1>2, <1>4 DEF CountInv
<1>6. ReaderInv /\ MainInv
  BY DEF ReaderInv, MainInv, FailsOnlyAtFirst, TextIsPackets
<1> QED BY <1>1, <1>3, <1>5, <1>6 DEF DownInv

\* The invariant is inductive.
LEMMA DownStep == DownInv /\ [Next]_vars => DownInv'
<1> SUFFICES ASSUME DownInv, [Next]_vars PROVE DownInv'
  OBVIOUS
<1>1. CASE Next
  BY <1>1, TransmitKeeps, HearKeeps, DealKeeps, ReaderKeeps, MainKeeps DEF Next
<1>2. CASE UNCHANGED vars
  <2>1. UNCHANGED <<sent, box, got, held, out, port, array, list, len, reader, main,
                    printed, text>>
    BY <1>2 DEF vars, rocketVars, receiverVars, bufferVars, readerVars, mainVars
  <2>2. VarTypes' /\ ReaderInv' /\ MainInv' /\ Stream' = Stream /\ Waiting' = Waiting
    BY <2>1 DEF DownInv, VarTypes, ReaderInv, MainInv, FailsOnlyAtFirst, TextIsPackets,
                Stream, Rest, Waiting
  <2>3. StreamInv' /\ OrderInv' /\ CountInv'
    BY <2>1, <2>2 DEF DownInv, StreamInv, PacketsIn, OrderInv, CountInv
  <2> QED BY <2>2, <2>3 DEF DownInv
<1> QED BY <1>1, <1>2

\* The invariant holds in every behaviour.
THEOREM Invariant == Spec => []DownInv
  BY DownInit, DownStep, PTL DEF Spec

\* The variables keep to their types, and no more bytes are read than were sent.
THEOREM TypeCorrect == Spec => []TypeOK
<1>1. DownInv => TypeOK
  <2> SUFFICES ASSUME DownInv PROVE TypeOK
    OBVIOUS
  <2>1. Len(list) <= Len(Stream) /\ Len(list) \in Nat /\ Len(Stream) \in Nat
    BY StreamType DEF DownInv
  <2>2. Waiting \in Nat /\ sent \in Nat
    BY BoundTypes DEF Waiting, DownInv, VarTypes
  <2>3. Waiting * PacketBytes \in Int /\ Waiting * PacketBytes >= 0
        /\ sent * PacketBytes \in Int
    BY <2>2, BoundTypes, Distribute
  <2> QED BY <2>1, <2>3 DEF DownInv, CountInv, TypeOK
<1> QED BY <1>1, Invariant, PTL

\* What Main prints is whole packets in the order the rocket sent them, none torn, none
\* twice, however the threads interleave and whatever the channel loses.
THEOREM TextIsPacketsHolds == Spec => []TextIsPackets
<1>1. DownInv => TextIsPackets
  BY DEF DownInv, MainInv
<1> QED BY <1>1, Invariant, PTL

\* The race on the list ends Main at the first byte or never.
THEOREM FailsOnlyAtFirstHolds == Spec => []FailsOnlyAtFirst
<1>1. DownInv => FailsOnlyAtFirst
  BY DEF DownInv, MainInv
<1> QED BY <1>1, Invariant, PTL
=============================================================================
