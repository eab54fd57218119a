----------------------------- MODULE Datagrams ------------------------------
(***************************************************************************)
(* What RHReliableDatagram promises.  A node submits one message at a time *)
(* and is told whether it was acknowledged.  A node accepts the messages   *)
(* of another one in the order they were submitted, each at most once, and *)
(* only those meant for it.  What was acknowledged has been accepted.      *)
(***************************************************************************)
EXTENDS Naturals, Sequences

CONSTANTS
  Node,           \* the addresses
  Broadcast       \* RH_BROADCAST_ADDRESS

VARIABLES
  sent,           \* where each node has sent its messages, in order
  calling,        \* nodes whose last message is still being sent
  result,         \* what each node was told of its last message
  accepted        \* accepted[b][a]: the messages of a that b has accepted, by number

vars == <<sent, calling, result, accepted>>

Init ==
  /\ sent = [n \in Node |-> <<>>]
  /\ calling = {}
  /\ result = [n \in Node |-> FALSE]
  /\ accepted = [b \in Node |-> [a \in Node |-> <<>>]]

Submit(n, to) ==
  /\ n \notin calling
  /\ sent' = [sent EXCEPT ![n] = Append(@, to)]
  /\ calling' = calling \union {n}
  /\ result' = [result EXCEPT ![n] = FALSE]
  /\ UNCHANGED accepted

\* The last of some messages, 0 if there are none.
Newest(nos) == IF nos = <<>> THEN 0 ELSE nos[Len(nos)]

Accept(b, a, no) ==
  /\ no \in Newest(accepted[b][a]) + 1 .. Len(sent[a])
  /\ sent[a][no] \in {b, Broadcast}
  /\ accepted' = [accepted EXCEPT ![b][a] = Append(@, no)]
  /\ UNCHANGED <<sent, calling, result>>

\* The last message of n has been acknowledged by the node it was for.
Accepted(n) ==
  LET to == sent[n][Len(sent[n])]
  IN  to # Broadcast => Newest(accepted[to][n]) = Len(sent[n])

Return(n, ok) ==
  /\ n \in calling
  /\ ok => Accepted(n)
  /\ calling' = calling \ {n}
  /\ result' = [result EXCEPT ![n] = ok]
  /\ UNCHANGED <<sent, accepted>>

Next ==
  \E n \in Node :
    \/ \E to \in Node \union {Broadcast} : Submit(n, to)
    \/ \E a \in Node : \E no \in 1 .. Len(sent[a]) : Accept(n, a, no)
    \/ \E ok \in BOOLEAN : Return(n, ok)

Spec == Init /\ [][Next]_vars
=============================================================================
