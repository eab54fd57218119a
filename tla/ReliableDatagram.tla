-------------------------- MODULE ReliableDatagram --------------------------
(***************************************************************************)
(* RHReliableDatagram, the layer of the radio library that acknowledges    *)
(* and retransmits: sendtoWait() and recvfromAck() of several nodes that   *)
(* share the air.  The driver below is a Mailbox of one frame: a frame for *)
(* a node is in its box when the transmission ends, or lost (on the air,   *)
(* because the box is full, because the node is not receiving).            *)
(*                                                                         *)
(* Time is not modelled: the timeout of sendtoWait() may come at any time  *)
(* while it waits.                                                         *)
(***************************************************************************)
EXTENDS Integers, Sequences

CONSTANTS
  Node,           \* the addresses
  Broadcast,      \* RH_BROADCAST_ADDRESS
  IdRange,        \* sequence numbers are uint8_t: 256
  Retries,        \* _retries
  MaxSent         \* bound: messages each node sends

ASSUME NodeAssumption == Broadcast \notin Node
ASSUME RangeAssumption == IdRange \in Nat \ {0} /\ Retries \in Nat /\ MaxSent \in [Node -> Nat]

VARIABLES
  lastSequenceNumber,   \* _lastSequenceNumber
  seenIds,              \* _seenIds, by receiver and sender
  inbox,                \* the frame in a node's driver, if there is one
  pc,                   \* idle: the program; send, wait: sendtoWait; acked: recvfromAck
  retries,              \* transmissions of the message
  taken,                \* the message recvfromAck has acknowledged and not judged yet
  result,               \* value of the last call of sendtoWait, FALSE before it ends
  sent,                 \* history: where each node has sent its messages
  received              \* history: received[b][a], the messages of a that recvfromAck
                        \* has returned to b's program, by number

callVars == <<pc, retries, result>>
vars == <<lastSequenceNumber, seenIds, inbox, taken, sent, received, callVars>>

\* A frame carries the number of its message (history) besides what the code sends.
Frame ==
  [from : Node, to : Node \union {Broadcast}, id : 0 .. IdRange - 1, ack : BOOLEAN, no : Nat]

\* What may become of the boxes when f is sent.
OnAir(boxes, f) ==
  { [n \in Node |-> IF n \in hearers THEN {f} ELSE boxes[n]] :
      hearers \in SUBSET {n \in Node \ {f.from} : boxes[n] = {} /\ f.to \in {n, Broadcast}} }

\* inbox once n has read its frame.
Read(n) == [inbox EXCEPT ![n] = {}]

\* Where the last message of n goes.
Dest(n) == sent[n][Len(sent[n])]

\* The message n is sending.
Request(n) ==
  [from |-> n, to |-> Dest(n), id |-> lastSequenceNumber[n], ack |-> FALSE, no |-> Len(sent[n])]

\* acknowledge()
Ack(n, f) == [from |-> n, to |-> f.from, id |-> f.id, ack |-> TRUE, no |-> f.no]

-----------------------------------------------------------------------------
(* sendtoWait()                                                            *)

SendtoWait(n, to) ==
  /\ pc[n] = "idle" /\ Len(sent[n]) < MaxSent[n]
  /\ lastSequenceNumber' = [lastSequenceNumber EXCEPT ![n] = (@ + 1) % IdRange]
  /\ sent' = [sent EXCEPT ![n] = Append(@, to)]
  /\ pc' = [pc EXCEPT ![n] = "send"]
  /\ retries' = [retries EXCEPT ![n] = 0]
  /\ result' = [result EXCEPT ![n] = FALSE]
  /\ UNCHANGED <<seenIds, inbox, taken, received>>

\* Transmissions are not counted.
TransmitUncounted_(n) ==
  /\ pc[n] = "send" /\ retries[n] <= Retries
  /\ inbox' \in OnAir(inbox, Request(n))
  /\ pc' = [pc EXCEPT ![n] = IF Dest(n) = Broadcast THEN "idle" ELSE "wait"]
  /\ result' = [result EXCEPT ![n] = Dest(n) = Broadcast]
  /\ UNCHANGED <<lastSequenceNumber, seenIds, taken, sent, received, retries>>

\* Nobody acknowledges a broadcast.
Transmit(n) ==
  /\ pc[n] = "send" /\ retries[n] <= Retries
  /\ inbox' \in OnAir(inbox, Request(n))
  /\ retries' = [retries EXCEPT ![n] = @ + 1]
  /\ pc' = [pc EXCEPT ![n] = IF Dest(n) = Broadcast THEN "idle" ELSE "wait"]
  /\ result' = [result EXCEPT ![n] = Dest(n) = Broadcast]
  /\ UNCHANGED <<lastSequenceNumber, seenIds, taken, sent, received>>

GiveUp(n) ==
  /\ pc[n] = "send" /\ retries[n] > Retries
  /\ pc' = [pc EXCEPT ![n] = "idle"]
  /\ UNCHANGED <<lastSequenceNumber, seenIds, inbox, taken, sent, received, retries, result>>

Timeout(n) ==
  /\ pc[n] = "wait"
  /\ pc' = [pc EXCEPT ![n] = "send"]
  /\ UNCHANGED <<lastSequenceNumber, seenIds, inbox, taken, sent, received, retries, result>>

\* The id of the acknowledgement is not compared.
IsOurAck_(n, f) == f.from = Dest(n) /\ f.to = n /\ f.ack

IsOurAck(n, f) == f.from = Dest(n) /\ f.to = n /\ f.ack /\ f.id = lastSequenceNumber[n]

\* A request seen before: its acknowledgement was lost.
IsSeen(n, f) == ~f.ack /\ f.id = seenIds[n][f.from]

HearAck(n) ==
  /\ pc[n] = "wait"
  /\ \E f \in inbox[n] : IsOurAck(n, f)
  /\ inbox' = Read(n)
  /\ pc' = [pc EXCEPT ![n] = "idle"]
  /\ result' = [result EXCEPT ![n] = TRUE]
  /\ UNCHANGED <<lastSequenceNumber, seenIds, taken, sent, received, retries>>

HearOther(n) ==
  /\ pc[n] = "wait"
  /\ \E f \in inbox[n] :
       /\ ~IsOurAck(n, f)
       /\ IF IsSeen(n, f) THEN inbox' \in OnAir(Read(n), Ack(n, f)) ELSE inbox' = Read(n)
  /\ UNCHANGED <<lastSequenceNumber, seenIds, taken, sent, received, callVars>>

-----------------------------------------------------------------------------
(* recvfromAck()                                                           *)

\* An acknowledgement nobody waits for any more is dropped.
DropAck(n) ==
  /\ pc[n] = "idle"
  /\ \E f \in inbox[n] : f.ack
  /\ inbox' = Read(n)
  /\ UNCHANGED <<lastSequenceNumber, seenIds, taken, sent, received, callVars>>

\* Acknowledge first, because sending may overwrite the message ...
Acknowledge(n) ==
  /\ pc[n] = "idle"
  /\ \E f \in inbox[n] :
       /\ ~f.ack
       /\ IF f.to = Broadcast THEN inbox' = Read(n) ELSE inbox' \in OnAir(Read(n), Ack(n, f))
       /\ taken' = [taken EXCEPT ![n] = {f}]
  /\ pc' = [pc EXCEPT ![n] = "acked"]
  /\ UNCHANGED <<lastSequenceNumber, seenIds, sent, received, retries, result>>

\* seenIds is not kept up to date.
Judge_(n) ==
  /\ pc[n] = "acked"
  /\ \E f \in taken[n] :
       IF IsSeen(n, f) THEN UNCHANGED <<seenIds, received>>
       ELSE /\ received' = [received EXCEPT ![n][f.from] = Append(@, f.no)]
            /\ UNCHANGED seenIds
  /\ taken' = [taken EXCEPT ![n] = {}]
  /\ pc' = [pc EXCEPT ![n] = "idle"]
  /\ UNCHANGED <<lastSequenceNumber, inbox, sent, retries, result>>

\* ... then return it to the program, unless it has been seen before.
Judge(n) ==
  /\ pc[n] = "acked"
  /\ \E f \in taken[n] :
       IF IsSeen(n, f) THEN UNCHANGED <<seenIds, received>>
       ELSE /\ seenIds' = [seenIds EXCEPT ![n][f.from] = f.id]
            /\ received' = [received EXCEPT ![n][f.from] = Append(@, f.no)]
  /\ taken' = [taken EXCEPT ![n] = {}]
  /\ pc' = [pc EXCEPT ![n] = "idle"]
  /\ UNCHANGED <<lastSequenceNumber, inbox, sent, retries, result>>

-----------------------------------------------------------------------------
Init ==
  /\ lastSequenceNumber = [n \in Node |-> 0]
  /\ seenIds = [b \in Node |-> [a \in Node |-> 0]]
  /\ inbox = [n \in Node |-> {}]
  /\ pc = [n \in Node |-> "idle"]
  /\ retries = [n \in Node |-> 0]
  /\ taken = [n \in Node |-> {}]
  /\ result = [n \in Node |-> FALSE]
  /\ sent = [n \in Node |-> <<>>]
  /\ received = [b \in Node |-> [a \in Node |-> <<>>]]

Steps(n) == Transmit(n) \/ GiveUp(n) \/ Timeout(n) \/ Judge(n)

Next ==
  \E n \in Node :
    \/ \E to \in (Node \ {n}) \union {Broadcast} : SendtoWait(n, to)
    \/ Steps(n) \/ HearAck(n) \/ HearOther(n) \/ DropAck(n) \/ Acknowledge(n)

\* A call goes on and its timeout comes; the program need not listen.
Spec == Init /\ [][Next]_vars /\ \A n \in Node : WF_vars(Steps(n))

-----------------------------------------------------------------------------
(* Properties                                                              *)

\* The counters stay in their ranges: no message is transmitted more often than allowed.
TypeOK ==
  /\ lastSequenceNumber \in [Node -> 0 .. IdRange - 1]
  /\ seenIds \in [Node -> [Node -> 0 .. IdRange - 1]]
  /\ inbox \in [Node -> SUBSET Frame]
  /\ pc \in [Node -> {"idle", "send", "wait", "acked"}]
  /\ retries \in [Node -> 0 .. Retries + 1]
  /\ taken \in [Node -> SUBSET Frame]
  /\ result \in [Node -> BOOLEAN]
  /\ sent \in [Node -> Seq(Node \union {Broadcast})]
  /\ received \in [Node -> [Node -> Seq(Nat)]]

\* The last of some messages, 0 if there are none.
Newest(nos) == IF nos = <<>> THEN 0 ELSE nos[Len(nos)]

\* b's program has message no of a, or recvfromAck is about to return it.
Has(b, a, no) ==
  Newest(received[b][a]) = no \/ \E f \in taken[b] : f.from = a /\ f.no = no

\* What sendtoWait reports as acknowledged has reached the other program.
SuccessMeansReceived ==
  \A n \in Node :
    result[n] /\ Dest(n) # Broadcast => Has(Dest(n), n, Len(sent[n]))

\* The layer keeps the promise of Datagrams: a message counts as accepted as soon as
\* recvfromAck has acknowledged it and is going to return it.
accepted ==
  [b \in Node |-> [a \in Node |->
     IF \E f \in taken[b] : f.from = a /\ ~IsSeen(b, f)
     THEN Append(received[b][a], (CHOOSE f \in taken[b] : TRUE).no)
     ELSE received[b][a]]]
Promise == INSTANCE Datagrams WITH calling <- {n \in Node : pc[n] \in {"send", "wait"}}
DeliversAsPromised == Promise!Spec

\* Every call of sendtoWait ends, acknowledged or with its retries exhausted.
SendEnds == \A n \in Node : pc[n] = "send" ~> pc[n] = "idle"
=============================================================================
