------------------------------ MODULE Downlink ------------------------------
(***************************************************************************)
(* From the rocket to the ground computer: packets go on the air, the      *)
(* radio driver of the receiver keeps one (Mailbox, which RF95             *)
(* implements), the receiver passes the intact ones on over the serial     *)
(* line (Relay, which Grounduino implements), and on the computer          *)
(* SerialReader.scala collects the bytes for Main.scala in a ListBuffer    *)
(* the two threads share without synchronisation.                          *)
(*                                                                         *)
(* ListBuffer += is two writes, of the list and of its length, that the    *)
(* other thread may see in either order.                                   *)
(* Operators whose name ends in _ are broken variants of the definition    *)
(* that follows them, used by nothing.                                     *)
(***************************************************************************)
EXTENDS Naturals, Sequences

CONSTANTS
  MaxPackets,     \* bound: packets the rocket sends
  PacketBytes,    \* bytes of a packet that reach the computer: tag and payload
  PortRoom,       \* bytes the computer's serial port keeps
  Limit,          \* Main prints the text when there are so many bytes (1000)
  None            \* no message in the driver

ASSUME SizeAssumption ==
  /\ MaxPackets \in Nat /\ PacketBytes \in Nat \ {0}
  /\ PortRoom \in Nat /\ PortRoom >= PacketBytes
  /\ Limit \in Nat /\ Limit >= 2

VARIABLES
  sent,           \* how many packets the rocket has sent
  box, got,       \* the receiver's radio: message waiting, message collected last
  held, out,      \* the receiver: packets heard, payload handed on last
  port,           \* bytes in the computer's serial port
  array,          \* readBuffer: the part of it not appended yet
  list,           \* the list inside buffer
  len,            \* its length, as buffer keeps it
  reader,         \* where the reader thread is
  main,           \* where Main is
  printed,        \* history: Main has printed a byte
  text            \* the string Main prints last

rocketVars == <<sent>>
receiverVars == <<box, got, held, out>>
bufferVars == <<list, len>>
readerVars == <<array, reader>>
mainVars == <<main, printed, text>>
vars == <<rocketVars, receiverVars, port, bufferVars, readerVars, mainVars>>

-----------------------------------------------------------------------------
Packets == [n : 1 .. MaxPackets, whole : BOOLEAN]
Bytes(p) == [i \in 1 .. PacketBytes |-> [n |-> p.n, whole |-> p.whole, at |-> i]]
Intact(p) == p.whole

Radio == INSTANCE Mailbox WITH Messages <- Packets, Nothing <- None
Receiver == INSTANCE Relay WITH Telemetry <- Packets, Payload <- Bytes

-----------------------------------------------------------------------------
(* The rocket and the receiver                                             *)

\* A packet, whole or torn, reaches the receiver ...
Transmit ==
  /\ sent < MaxPackets
  /\ sent' = sent + 1
  /\ \E whole \in BOOLEAN : Radio!Put([n |-> sent', whole |-> whole])
  /\ UNCHANGED <<held, out, port, bufferVars, readerVars, mainVars>>

\* ... or is lost, as each is that comes while the last one is uncollected.
TransmitLost ==
  /\ sent < MaxPackets
  /\ sent' = sent + 1
  /\ UNCHANGED <<receiverVars, port, bufferVars, readerVars, mainVars>>

\* available(), recv() and pushq().
Hear ==
  /\ Radio!Take
  /\ Receiver!Hear(box)
  /\ UNCHANGED <<rocketVars, port, bufferVars, readerVars, mainVars>>

\* The checksum is not looked at.
DealUnchecked_ ==
  /\ Receiver!Deal
  /\ Len(port) + PacketBytes <= PortRoom
  /\ port' = port \o Bytes(Head(held))
  /\ UNCHANGED <<rocketVars, box, got, bufferVars, readerVars, mainVars>>

\* Serial.write waits until the computer has room.
Deal ==
  /\ Receiver!Deal
  /\ Len(port) + PacketBytes <= PortRoom
  /\ port' = IF Intact(Head(held)) THEN port \o Bytes(Head(held)) ELSE port
  /\ UNCHANGED <<rocketVars, box, got, bufferVars, readerVars, mainVars>>

-----------------------------------------------------------------------------
(* SerialReader: the reader thread                                         *)

\* bytesAvailable() > 0, and an array for as many bytes.
Allocate ==
  /\ reader = "poll"
  /\ port # <<>>
  /\ array' = [i \in DOMAIN port |-> None]
  /\ reader' = "read"
  /\ UNCHANGED <<rocketVars, receiverVars, port, bufferVars, mainVars>>

\* readBytes fills the array; more may have come meanwhile.
ReadBytes ==
  /\ reader = "read"
  /\ array' = SubSeq(port, 1, Len(array))
  /\ port' = SubSeq(port, Len(array) + 1, Len(port))
  /\ reader' = "append"
  /\ UNCHANGED <<rocketVars, receiverVars, bufferVars, mainVars>>

\* for (x <- readBuffer) buffer += x: the element and the length, in either order.
LinkFirst == reader = "append" /\ reader' = "count" /\ list' = Append(list, array[1])
                               /\ UNCHANGED <<len, array>>
CountFirst == reader = "append" /\ reader' = "link" /\ len' = len + 1
                                /\ UNCHANGED <<list, array>>
Done == array' = Tail(array) /\ reader' = IF Len(array) = 1 THEN "poll" ELSE "append"
ThenCount == reader = "count" /\ len' = len + 1 /\ UNCHANGED list /\ Done
ThenLink == reader = "link" /\ list' = Append(list, array[1]) /\ UNCHANGED len /\ Done

AppendByte ==
  /\ LinkFirst \/ ThenCount \/ CountFirst \/ ThenLink
  /\ UNCHANGED <<rocketVars, receiverVars, port, mainVars>>

-----------------------------------------------------------------------------
(* Main                                                                    *)

\* The loop is left at the limit only.
CheckExactly_ ==
  /\ main = "check"
  /\ main' = IF len # Limit THEN "look" ELSE "text"
  /\ UNCHANGED <<rocketVars, receiverVars, port, bufferVars, readerVars, printed, text>>

\* while (SerialReader.buffer.length < 1000)
Check ==
  /\ main = "check"
  /\ main' = IF len < Limit THEN "look" ELSE "text"
  /\ UNCHANGED <<rocketVars, receiverVars, port, bufferVars, readerVars, printed, text>>

\* if (SerialReader.buffer.nonEmpty), or sleep.
Look ==
  /\ main = "look"
  /\ main' = IF len > 0 THEN "head" ELSE "check"
  /\ UNCHANGED <<rocketVars, receiverVars, port, bufferVars, readerVars, printed, text>>

\* The byte is taken out of the list.
PrintHeadOff_ ==
  /\ main = "head"
  /\ IF list = <<>> THEN main' = "failed" /\ UNCHANGED <<printed, list>>
     ELSE main' = "check" /\ printed' = TRUE /\ list' = Tail(list)
  /\ UNCHANGED <<rocketVars, receiverVars, port, len, readerVars, text>>

\* println(buffer.head): of an empty list, an exception that ends Main.
PrintHead ==
  /\ main = "head"
  /\ IF list = <<>> THEN main' = "failed" /\ UNCHANGED printed
     ELSE main' = "check" /\ printed' = TRUE
  /\ UNCHANGED <<rocketVars, receiverVars, port, bufferVars, readerVars, text>>

\* new String(buffer.toArray): toArray takes what is in the list.  The ListBuffer of
\* Scala 2.12, which the project is built with, forwards it to its List; the length it
\* keeps is not looked at.
PrintText ==
  /\ main = "text"
  /\ text' = list
  /\ main' = "ended"
  /\ UNCHANGED <<rocketVars, receiverVars, port, bufferVars, readerVars, printed>>

-----------------------------------------------------------------------------
Init ==
  /\ sent = 0
  /\ Radio!Init /\ Receiver!Init
  /\ port = <<>>
  /\ list = <<>> /\ len = 0
  /\ array = <<>> /\ reader = "poll"
  /\ main = "check" /\ printed = FALSE /\ text = <<>>

Reader == Allocate \/ ReadBytes \/ AppendByte
Main == Check \/ Look \/ PrintHead \/ PrintText

Next == Transmit \/ TransmitLost \/ Hear \/ Deal \/ Reader \/ Main

\* Both threads are scheduled.  Nothing is assumed of the rocket or the receiver.
Spec == Init /\ [][Next]_vars /\ WF_vars(Reader) /\ WF_vars(Main)
-----------------------------------------------------------------------------
(* Properties                                                              *)

Cells == [n : 1 .. MaxPackets, whole : BOOLEAN, at : 1 .. PacketBytes]

\* The values the declarations are meant for; len is never more than the one append
\* in progress away from the list.
VarTypes ==
  /\ sent \in 0 .. MaxPackets
  /\ {box, got} \subseteq Packets \union {None}
  /\ held \in Seq(Packets)
  /\ port \in Seq(Cells) /\ Len(port) <= PortRoom
  /\ array \in Seq(Cells \union {None})
  /\ list \in Seq(Cells) /\ text \in Seq(Cells)
  /\ len \in Nat
  /\ len + (IF reader = "count" THEN 1 ELSE 0) = Len(list) + (IF reader = "link" THEN 1 ELSE 0)
  /\ reader \in {"poll", "read", "append", "count", "link"}
  /\ main \in {"check", "look", "head", "text", "ended", "failed"}
  /\ printed \in BOOLEAN

\* Every variable keeps to its values, and no more bytes reach the list than the
\* rocket has sent.
TypeOK == VarTypes /\ Len(list) <= sent * PacketBytes

\* Byte b is what may come behind byte a: the next of the same packet, or the first
\* of a later one.
Follows(a, b) ==
  IF a.at < PacketBytes THEN b.n = a.n /\ b.at = a.at + 1 ELSE b.n > a.n /\ b.at = 1

\* What Main prints is whole packets in the order the rocket sent them, none torn,
\* none twice, the last one possibly cut short: over a lossy channel, a receiver
\* that drops, and two threads on one list.
TextIsPackets ==
  main = "ended" =>
    /\ Len(text) >= Limit - 1
    /\ text[1].at = 1
    /\ \A i \in DOMAIN text : text[i].whole
    /\ \A i \in 1 .. Len(text) - 1 : Follows(text[i], text[i + 1])

\* The race on the shared list can end Main only at the very first byte: after one
\* has been printed, no order of the two threads does.
FailsOnlyAtFirst == main = "failed" => ~printed

\* Once enough bytes have come, Main prints the text, unless the race ends it.
TextAppears ==
  Len(list) + Len(port) >= Limit ~> main \in {"ended", "failed"}
=============================================================================
