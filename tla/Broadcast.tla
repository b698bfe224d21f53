----------------------------- MODULE Broadcast ------------------------------
(***************************************************************************)
(* The flooding of messages over the WebSocket connections: sendMessage    *)
(* and the "message" handler of wsTransport.ts, and the two HTTP requests  *)
(* of base.controller.ts that start one.                                   *)
(*                                                                         *)
(* Which nodes a node's neighbours' sockets lead to changes as connections *)
(* come and go (module Connections), and two of them may lead to the same  *)
(* node, or back to the sender; so every send picks anew how many copies   *)
(* go to whom.  The packet's ttl is never decremented: nothing but the     *)
(* record of seen ids ends a flood.                                        *)
(***************************************************************************)
EXTENDS Integers

CONSTANTS
  Nodes,
  Messages,    \* ids of the packets of the instance
  MaxCopies    \* bound: sockets of a node that lead to the same other node

ASSUME MaxCopiesAssumption == MaxCopies \in Nat

VARIABLES
  packet,     \* of each id: what was posted under it
  copies,     \* copies of a message on their way to a node
  seen,       \* of each node: the keys of messages.BROADCAST
  delivered   \* how often a node emitted the message: 0, 1 or 2 (more than once)

vars == <<packet, copies, seen, delivered>>

-----------------------------------------------------------------------------

Fanouts == [Nodes -> 0 .. MaxCopies]

Packets == [origin : Nodes, kind : {"broadcast", "direct"}, to : Nodes]

Unposted == [kind |-> "unposted"]

Posted(m) == packet[m] # Unposted

Saturated(count) == IF count >= 2 THEN 2 ELSE count

(* Mutant of Recorded: the sender does not record what it sends.           *)
NotRecorded(n, m, fanout) == seen' = seen

(* Mutant of Recorded: records who sends instead of what is sent.          *)
RecordedSender(n, m, fanout) == seen' = [seen EXCEPT ![n] = @ \cup {n}]

(* sendMessage records an id with each copy that it sends.  It records     *)
(* nothing when no neighbour has a socket, and it also records a send into *)
(* a socket that is closing, which sends no copy.                          *)
Recorded(n, m, fanout) ==
  \/ seen' = [seen EXCEPT ![n] = @ \cup {m}]
  \/ /\ \A p \in Nodes : fanout[p] = 0
     /\ seen' = seen

(* postBroadcast, and postDirectMessage, which passes MessageType.Braodcast*)
(* too: its addressee is part of the payload only.  buildPacket gives the  *)
(* packet a fresh id, and sendMessage sends it to every neighbour.         *)
Post(n, m, kind, to) ==
  /\ ~ Posted(m)
  /\ packet' = [packet EXCEPT ![m] = [origin |-> n, kind |-> kind, to |-> to]]
  /\ \E fanout \in Fanouts :
       /\ Recorded(n, m, fanout)
       /\ copies' = [copies EXCEPT ![m] = fanout]
  /\ UNCHANGED delivered

(* A copy of a message whose id is recorded is dropped.                    *)
ReceiveSeen(n, m) ==
  /\ copies[m][n] > 0
  /\ m \in seen[n]
  /\ copies' = [copies EXCEPT ![m][n] = @ - 1]
  /\ UNCHANGED <<packet, seen, delivered>>

(* The received copy is replaced by the forwarded ones.                    *)
Forwarded(n, m, fanout) ==
  copies' = [copies EXCEPT ![m] =
    [p \in Nodes |-> fanout[p] + copies[m][p] - (IF p = n THEN 1 ELSE 0)]]

(* Mutant of Noted: only the origin of a message records it.               *)
NotNoted(n, m) == seen' = seen

(* messages.BROADCAST.set of the message handler.                          *)
Noted(n, m) == seen' = [seen EXCEPT ![n] = @ \cup {m}]

(* The first copy is recorded, forwarded to every neighbour, the one it    *)
(* came from included, and emitted.                                        *)
ReceiveNew(n, m) ==
  /\ copies[m][n] > 0
  /\ m \notin seen[n]
  /\ Noted(n, m)
  /\ \E fanout \in Fanouts : Forwarded(n, m, fanout)
  /\ delivered' = [delivered EXCEPT ![n][m] = Saturated(@ + 1)]
  /\ UNCHANGED packet

(* A copy is lost with the connection it travels on.                       *)
LoseCopy(n, m) ==
  /\ copies[m][n] > 0
  /\ copies' = [copies EXCEPT ![m][n] = @ - 1]
  /\ UNCHANGED <<packet, seen, delivered>>

-----------------------------------------------------------------------------

Init ==
  /\ packet = [m \in Messages |-> Unposted]
  /\ copies = [m \in Messages |-> [n \in Nodes |-> 0]]
  /\ seen = [n \in Nodes |-> {}]
  /\ delivered = [n \in Nodes |-> [m \in Messages |-> 0]]

Next ==
  \E n \in Nodes, m \in Messages :
    \/ \E kind \in {"broadcast", "direct"}, to \in Nodes : Post(n, m, kind, to)
    \/ ReceiveSeen(n, m)
    \/ ReceiveNew(n, m)
    \/ LoseCopy(n, m)

Spec == Init /\ [][Next]_vars

(* What is on a socket is received, or the socket dies.                    *)
Fairness ==
  \A n \in Nodes, m \in Messages :
    WF_vars(ReceiveSeen(n, m) \/ ReceiveNew(n, m) \/ LoseCopy(n, m))

FairSpec == Spec /\ Fairness

-----------------------------------------------------------------------------
(* Properties.                                                             *)

(* Every variable keeps its shape.                                         *)
TypeOK ==
  /\ packet \in [Messages -> Packets \cup {Unposted}]
  /\ copies \in [Messages -> [Nodes -> Nat]]
  /\ seen \in [Nodes -> SUBSET Messages]
  /\ delivered \in [Nodes -> [Messages -> 0 .. 2]]

(* However many copies of a message cycle through the network, each node   *)
(* hands it to its application at most once, and its origin never does     *)
(* (the look-up in messages.BROADCAST, which sendMessage filled when the   *)
(* message left its origin).                                               *)
AtMostOnce ==
  \A n \in Nodes, m \in Messages :
    /\ delivered[n][m] =< 1
    /\ Posted(m) /\ packet[m].origin = n => delivered[n][m] = 0

(* A flood dies out although the packet's ttl is never decremented.        *)
FloodEnds ==
  \A m \in Messages : Posted(m) ~> (\A n \in Nodes : copies[m][n] = 0)

(* README.md:139, "send a direct message to a node": a direct message is   *)
(* handed to the application of its addressee and of nobody else.          *)
DirectToAddressee ==
  \A n \in Nodes, m \in Messages :
    delivered[n][m] > 0 /\ packet[m].kind = "direct" => n = packet[m].to

=============================================================================
