---------------------------- MODULE Connections -----------------------------
(***************************************************************************)
(* The WebSocket connections between nodes (wsTransport.ts), the discovery *)
(* rounds that open them and the closes that empty the routing tables      *)
(* (node.ts).                                                              *)
(*                                                                         *)
(* A link is one WebSocket; each of its two ends is handled by its own     *)
(* node.  Both ends are filed under the id of the node that was dialled:   *)
(* the dialling node uses the port, and the dialled one, which cannot tell *)
(* who calls, uses its own id.  A table is reduced to its set of peers,    *)
(* with the capacity of its buckets; the lists are in RoutingTable.  Any   *)
(* datagram may arrive at any time or never: which ones a lookup sends is  *)
(* in Discovery.  The model takes a node over when the link to itself that *)
(* listen() dials is up.                                                   *)
(***************************************************************************)
EXTENDS KeySpace, FiniteSets

CONSTANTS
  Bootstrap,  \* the node that node.start enters
  Talking,    \* bound: pairs of nodes between which datagrams pass
  MaxLinks,   \* bound: links at one time from one node to another
  Doubled,    \* bound: pairs <<n, p>> with more than one link from n to p
  MaxFaults   \* bound: failures of links and restarts of nodes

ASSUME BootstrapAssumption == Bootstrap \in Ids
ASSUME TalkingAssumption == Talking \subseteq {{n, p} : n, p \in Ids}
ASSUME BoundsAssumption == MaxLinks \in Nat \ {0} /\ MaxFaults \in Nat

VARIABLES
  outEnd,    \* of a link: its end at the dialling node
  inEnd,     \* of a link: its end at the dialled node
  shakes,    \* links with the handshake of the dialled node on its way
  conn,      \* of a node: connections, id -> end of a link
  nbrs,      \* of a node: the keys of neighbors, each its own value
  table,     \* of a node: the peers in its routing table
  faults     \* failures so far

linkVars == <<outEnd, inEnd, shakes>>
nodeVars == <<conn, nbrs, table>>
vars == <<linkVars, nodeVars, faults>>

-----------------------------------------------------------------------------

Links ==
  {l \in [from : Ids, to : Ids, no : 1 .. MaxLinks] : l.no = 1 \/ <<l.from, l.to>> \in Doubled}

Ends == [link : Links, side : {"out", "in"}]

OutEnd(l) == [link |-> l, side |-> "out"]
InEnd(l) == [link |-> l, side |-> "in"]

(* connections.get(id) is undefined.                                       *)
NoEnd == [side |-> "none"]

Owner(e) == IF e.side = "out" THEN e.link.from ELSE e.link.to

State(e) == IF e.side = "out" THEN outEnd[e.link] ELSE inEnd[e.link]

Free(l) == outEnd[l] = "none" /\ inEnd[l] = "none"

(* The first unused link from n to p, if the bound leaves one.             *)
FreeLinks(n, p) ==
  {l \in Links : /\ l.from = n /\ l.to = p /\ Free(l)
                 /\ \A k \in Links : k.from = n /\ k.to = p /\ Free(k) => l.no =< k.no}

SelfLink(n) == [from |-> n, to |-> n, no |-> 1]

-----------------------------------------------------------------------------
(* Datagrams and discovery rounds.                                         *)

(* The bucket of p in which n belongs has no room.                         *)
Full(p, n) ==
  Cardinality({q \in table[p] : getBucketIndex(p, q) = getBucketIndex(p, n)}) >= K_BUCKET_SIZE

(* A datagram arrives at p: handleMessage enters its sender, if the bucket *)
(* has room.                                                               *)
HandleMessage(p, from) ==
  /\ {p, from} \in Talking
  /\ ~ Full(p, from)
  /\ table' = [table EXCEPT ![p] = @ \cup {from}]
  /\ UNCHANGED <<linkVars, conn, nbrs, faults>>

(* Mutant of Missing: looks in neighbors instead of connections.           *)
MissingNeighbours(n) == {p \in table[n] : p \notin nbrs[n]}

(* refreshAndUpdateConnections dials every peer of the table for which     *)
(* connections has no entry; a socket still being opened is no entry.  (A  *)
(* peer with all links of the bound in use is left out.)                   *)
Missing(n) == {p \in table[n] : conn[n][p] = NoEnd}

Refresh(n) ==
  LET dialled == UNION {FreeLinks(n, p) : p \in Missing(n)}
  IN  /\ dialled # {}
      /\ outEnd' = [l \in Links |-> IF l \in dialled THEN "connecting" ELSE outEnd[l]]
      /\ UNCHANGED <<inEnd, shakes, nodeVars, faults>>

-----------------------------------------------------------------------------
(* The life of a link.                                                     *)

(* handleNewSocket: connections.set(connectionId, socket), whatever was    *)
(* there.                                                                  *)
Filed(e) == conn' = [conn EXCEPT ![Owner(e)][e.link.to] = e]

(* "_connect": the dialled node sends its handshake over the new socket.   *)
HandshakeSent(l) == shakes' = shakes \cup {l}

(* The server's "connection" event: the new end is filed and sends its     *)
(* handshake, which the other end will read once it is open.               *)
Accept(l) ==
  /\ outEnd[l] = "connecting"
  /\ inEnd[l] = "none"
  /\ inEnd' = [inEnd EXCEPT ![l] = "open"]
  /\ HandshakeSent(l)
  /\ Filed(InEnd(l))
  /\ UNCHANGED <<outEnd, nbrs, table, faults>>

(* The "open" event at the dialling node, whose handshake makes the        *)
(* dialled node its own neighbour.  (It comes at once here: what matters   *)
(* to the dialled node is only when it comes.)                             *)
Open(l) ==
  /\ outEnd[l] = "connecting"
  /\ inEnd[l] = "open"
  /\ outEnd' = [outEnd EXCEPT ![l] = "open"]
  /\ nbrs' = [nbrs EXCEPT ![l.to] = @ \cup {l.to}]
  /\ Filed(OutEnd(l))
  /\ UNCHANGED <<inEnd, shakes, table, faults>>

(* Mutant of Neighboured: neighbors get the port, not the id.              *)
NeighbouredPort(l) == nbrs' = [nbrs EXCEPT ![l.from] = @ \cup {l.to + 3000}]

(* neighbors.set(id, id)                                                   *)
Neighboured(l) == nbrs' = [nbrs EXCEPT ![l.from] = @ \cup {l.to}]

(* "_message" with a handshake: the dialled node becomes a neighbour,      *)
(* whether or not connections still have it.  What arrived before the      *)
(* socket died is read before its close event.                             *)
ReceiveHandshake(l) ==
  /\ l \in shakes
  /\ outEnd[l] \in {"open", "lost"}
  /\ shakes' = shakes \ {l}
  /\ Neighboured(l)
  /\ UNCHANGED <<outEnd, inEnd, conn, table, faults>>

(* handleTcpDisconnet: the id leaves neighbors and, unless it is the       *)
(* node's own, the table.                                                  *)
Forgotten(e) ==
  /\ nbrs' = [nbrs EXCEPT ![Owner(e)] = @ \ {e.link.to}]
  /\ table' = [table EXCEPT ![Owner(e)] = @ \ ({e.link.to} \ {Owner(e)})]

(* Mutant of Unfiled: the socket stays in connections.                     *)
UnfiledNot(e) == conn' = conn

(* The socket's "close" handler: the id leaves connections, even if they   *)
(* hold another socket by now.                                             *)
Unfiled(e) == conn' = [conn EXCEPT ![Owner(e)][e.link.to] = NoEnd]

(* The close of an end, and the chain of events "_disconnect" (which gets  *)
(* an object for an id and so deletes nothing itself) and "disconnect".    *)
Close(e) ==
  /\ State(e) = "lost"
  /\ outEnd' = IF e.side = "out" THEN [outEnd EXCEPT ![e.link] = "none"] ELSE outEnd
  /\ inEnd' = IF e.side = "in" THEN [inEnd EXCEPT ![e.link] = "none"] ELSE inEnd
  /\ shakes' = IF e.side = "out" THEN shakes \ {e.link} ELSE shakes
  /\ Unfiled(e)
  /\ Forgotten(e)
  /\ UNCHANGED faults

-----------------------------------------------------------------------------
(* Failures.                                                               *)

(* connections of a node that has dialled itself: the end that opened last.*)
OnlySelf(n) == [p \in Ids |-> IF p = n THEN OutEnd(SelfLink(n)) ELSE NoEnd]

Fault == faults < MaxFaults /\ faults' = faults + 1

(* An end notices that the link is gone.  An end that is still connecting  *)
(* gets an error event, which is only logged.                              *)
AfterLoss(state) == IF state = "open" THEN "lost"
                    ELSE IF state = "connecting" THEN "none" ELSE state

(* A link fails while it is being opened or later.                         *)
Break(l) ==
  /\ Fault
  /\ ~ Free(l)
  /\ outEnd' = [outEnd EXCEPT ![l] = AfterLoss(@)]
  /\ inEnd' = [inEnd EXCEPT ![l] = AfterLoss(@)]
  /\ shakes' = IF outEnd[l] = "connecting" THEN shakes \ {l} ELSE shakes
  /\ UNCHANGED nodeVars

(* Node n exits and starts again: its table has the bootstrap peer, it has *)
(* dialled itself, and its other links are gone.                           *)
Restart(n) ==
  /\ Fault
  /\ outEnd' = [l \in Links |-> IF l = SelfLink(n) THEN "open"
                                ELSE IF l.from = n THEN "none"
                                ELSE IF l.to = n THEN AfterLoss(outEnd[l]) ELSE outEnd[l]]
  /\ inEnd' = [l \in Links |-> IF l = SelfLink(n) THEN "open"
                               ELSE IF l.to = n THEN "none"
                               ELSE IF l.from = n THEN AfterLoss(inEnd[l]) ELSE inEnd[l]]
  /\ shakes' = {l \in shakes : l.from # n /\ (l.to = n => outEnd[l] # "connecting")}
  /\ conn' = [conn EXCEPT ![n] = OnlySelf(n)]
  /\ nbrs' = [nbrs EXCEPT ![n] = {n}]
  /\ table' = [table EXCEPT ![n] = {Bootstrap}]

-----------------------------------------------------------------------------

(* Every node has been constructed and started.                            *)
Init ==
  /\ outEnd = [l \in Links |-> IF l = SelfLink(l.from) THEN "open" ELSE "none"]
  /\ inEnd = outEnd
  /\ shakes = {}
  /\ conn = [n \in Ids |-> OnlySelf(n)]
  /\ nbrs = [n \in Ids |-> {n}]
  /\ table = [n \in Ids |-> {Bootstrap}]
  /\ faults = 0

LinkStep(l) ==
  \/ Accept(l)
  \/ Open(l)
  \/ ReceiveHandshake(l)
  \/ \E e \in {OutEnd(l), InEnd(l)} : Close(e)

Next ==
  \/ \E p, from \in Ids : HandleMessage(p, from)
  \/ \E n \in Ids : Refresh(n)
  \/ \E l \in Links : LinkStep(l)
  \/ \E l \in Links : Break(l)
  \/ \E n \in Ids : Restart(n)

Spec == Init /\ [][Next]_vars

(* The cron job starts a round every 30 s, and the events of a socket are  *)
(* delivered.  No datagram is required to arrive, and no failure to        *)
(* happen.                                                                 *)
Fairness ==
  /\ \A n \in Ids : WF_vars(Refresh(n))
  /\ \A l \in Links : WF_vars(LinkStep(l))

FairSpec == Spec /\ Fairness

-----------------------------------------------------------------------------
(* Properties.                                                             *)

(* Every variable keeps its shape.                                         *)
TypeOK ==
  /\ outEnd \in [Links -> {"none", "connecting", "open", "lost"}]
  /\ inEnd \in [Links -> {"none", "open", "lost"}]
  /\ shakes \in SUBSET Links
  /\ conn \in [Ids -> [Ids -> Ends \cup {NoEnd}]]
  /\ nbrs \in [Ids -> SUBSET Ids]
  /\ table \in [Ids -> SUBSET Ids]
  /\ faults \in 0 .. MaxFaults

(* connections never keep a socket whose close event has been handled, and *)
(* the socket filed under another node's id leads to that node, however    *)
(* links to it were doubled, lost and replaced: what send writes for a     *)
(* neighbour goes to that neighbour or into a socket about to close.       *)
EntriesLive ==
  \A n, p \in Ids : conn[n][p] # NoEnd =>
    LET e == conn[n][p]
    IN  /\ Owner(e) = n
        /\ e.link.to = p
        /\ State(e) \in {"open", "lost"}

(* The socket that send finds for p leads to p: both its ends are open.    *)
Meshed(n, p) ==
  /\ p \in nbrs[n]
  /\ conn[n][p] # NoEnd
  /\ outEnd[conn[n][p].link] = "open"
  /\ inEnd[conn[n][p].link] = "open"

(* When the failures are over, a peer that stays in a node's table is, in  *)
(* the end, a neighbour of the node with an entry of connections over      *)
(* which a message arrives, whatever links were doubled, lost and closed   *)
(* late on the way.  (The converse is no promise of the code: a node that  *)
(* finds the bucket of its peer full keeps dialling one way.)              *)
MeshedOrForgotten ==
  \A n, p \in Ids : n # p => <>[](p \notin table[n]) \/ <>[]Meshed(n, p)

=============================================================================
