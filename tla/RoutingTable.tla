---------------------------- MODULE RoutingTable ----------------------------
(***************************************************************************)
(* One node's routing table: RoutingTable (routingTable.ts) and the        *)
(* KBuckets it holds (kBucket.ts), driven by the events that change it:    *)
(* node.start, a datagram from a peer, the end of a discovery round and a  *)
(* closed TCP connection.                                                  *)
(*                                                                         *)
(* updateTables runs its loop over the contacts without yielding.  The     *)
(* model takes one step per contact; while contacts are left in todo no    *)
(* other event is handled, as on the single JavaScript thread.             *)
(***************************************************************************)
EXTENDS KeySpace, Lists

CONSTANTS
  self,       \* tableId, the id of the node that owns the table
  Bootstrap,  \* the peer node.start adds: id 0, port 3000
  MaxRound    \* bound: contacts a discovery round hands to updateTables

ASSUME SelfAssumption == self \in Ids
ASSUME BootstrapAssumption == Bootstrap \in Ids
ASSUME MaxRoundAssumption == MaxRound \in Nat

VARIABLES
  buckets,  \* bucket index -> KBucket.nodes, empty for an index not in order
  order,    \* the keys of the Map `buckets`, in insertion order
  todo,     \* contacts the running updateTables call has not reached
  probes    \* peers with an unsettled PING of a full bucket

vars == <<buckets, order, todo, probes>>

-----------------------------------------------------------------------------

Index(p) == getBucketIndex(self, p)

Has(p) == p \in Elements(buckets[Index(p)])

(* Mutant of IsFull: room for one more than K_BUCKET_SIZE.                 *)
IsFullLate(i) == Len(buckets[i]) > K_BUCKET_SIZE

IsFull(i) == Len(buckets[i]) >= K_BUCKET_SIZE

Known == UNION {Elements(buckets[i]) : i \in Indices}

(* Mutant of FindBucket: creates the bucket one index too high.            *)
FindBucketOffByOne(p) == order' = WithKey(order, Index(p) + 1)

(* findBucket: the bucket of a peer is created on first use.               *)
FindBucket(p) == order' = WithKey(order, Index(p))

(* getAllPeers: the buckets' lists one after another, in the order the     *)
(* buckets were created.                                                   *)
getAllPeers == Concatenated([k \in 1 .. Len(order) |-> buckets[order[k]]])

-----------------------------------------------------------------------------
(* KBucket.updateBucketNode, one action per way through it.                *)

(* Mutant of Fronted: the old entry stays.                                 *)
FrontedKeepsOld(nodes, p) == <<p>> \o nodes

(* Mutant of Fronted: drops the head of the list instead of the old entry. *)
FrontedOverHead(nodes, p) == <<p>> \o Tail(nodes)

(* moveToFront: [nodeId, ...this.nodes.filter((n) => n !== nodeId)]        *)
Fronted(nodes, p) == <<p>> \o Without(nodes, p)

(* The peer is in its bucket: it moves to the head of the list.            *)
MoveToFront(p) ==
  /\ Has(p)
  /\ buckets' = [buckets EXCEPT ![Index(p)] = Fronted(@, p)]
  /\ UNCHANGED probes

(* A newcomer and room in the bucket: it goes to the end of the list.      *)
Push(p) ==
  /\ ~Has(p)
  /\ ~IsFull(Index(p))
  /\ buckets' = [buckets EXCEPT ![Index(p)] = Append(@, p)]
  /\ UNCHANGED probes

(* A newcomer, no room, and the last peer of the list is this node itself: *)
(* nothing is sent, and the first reverse() has turned the list round for  *)
(* good.                                                                   *)
SelfAtEnd(p) ==
  LET nodes == buckets[Index(p)]
  IN  /\ ~Has(p)
      /\ IsFull(Index(p))
      /\ nodes[Len(nodes)] = self
      /\ buckets' = [buckets EXCEPT ![Index(p)] = Reversed(@)]
      /\ UNCHANGED probes

(* A newcomer and no room: the two reverse() calls cancel, the peer at the *)
(* head is sent a PING, and the newcomer is dropped whatever comes back.   *)
PingHead(p) ==
  LET nodes == buckets[Index(p)]
  IN  /\ ~Has(p)
      /\ IsFull(Index(p))
      /\ nodes[Len(nodes)] # self
      /\ probes' = probes \cup {Head(nodes)}
      /\ UNCHANGED buckets

-----------------------------------------------------------------------------

(* One pass of the loop in updateTables.                                   *)
UpdateNext ==
  /\ todo # << >>
  /\ todo' = Tail(todo)
  /\ FindBucket(Head(todo))
  /\ \/ MoveToFront(Head(todo))
     \/ Push(Head(todo))
     \/ SelfAtEnd(Head(todo))
     \/ PingHead(Head(todo))

BeginUpdate(contacts) ==
  /\ todo = << >>
  /\ todo' = contacts
  /\ UNCHANGED <<buckets, order, probes>>

(* node.start: the node adds the bootstrap peer, which for the bootstrap   *)
(* node is itself.                                                         *)
Start == BeginUpdate(<<Bootstrap>>)

(* handleMessage: every datagram enters its sender.  The sender is this    *)
(* node when it holds itself in its table or asks itself for a value.      *)
HandleMessage(from) == BeginUpdate(<<from>>)

(* The end of a discovery round enters what the lookup contacted: distinct *)
(* peers, never the node itself.                                           *)
RoundContacts ==
  UNION {{c \in [1 .. n -> Ids \ {self}] : Distinct(c)} : n \in 1 .. MaxRound}

RoundDone == \E contacts \in RoundContacts : BeginUpdate(contacts)

(* handleTcpDisconnet: the peer leaves its bucket, which is created if it  *)
(* was not there.  The close of a connection filed under the node's own id *)
(* leaves the table alone.                                                 *)
HandleTcpDisconnect(nodeId) ==
  /\ todo = << >>
  /\ nodeId # self
  /\ FindBucket(nodeId)
  /\ buckets' = [buckets EXCEPT ![Index(nodeId)] = Without(@, nodeId)]
  /\ UNCHANGED <<todo, probes>>

(* A PING settles, by PONG or by timeout: updateBucketNode does nothing    *)
(* with either.  (The PONG itself is a message: see HandleMessage.)        *)
ProbeSettled(p) ==
  /\ todo = << >>
  /\ p \in probes
  /\ probes' = probes \ {p}
  /\ UNCHANGED <<buckets, order, todo>>

-----------------------------------------------------------------------------

Init ==
  /\ buckets = [i \in Indices |-> << >>]
  /\ order = << >>
  /\ todo = << >>
  /\ probes = {}

Next ==
  \/ UpdateNext
  \/ Start
  \/ \E p \in Ids : HandleMessage(p)
  \/ RoundDone
  \/ \E p \in Ids : HandleTcpDisconnect(p)
  \/ \E p \in Ids : ProbeSettled(p)

Spec == Init /\ [][Next]_vars

-----------------------------------------------------------------------------
(* Properties.                                                             *)

(* Every variable keeps its shape: the table maps each index to a list of  *)
(* ids, the Map's keys are indices, the loop's work list and the probed    *)
(* peers are ids.                                                          *)
TypeOK ==
  /\ buckets \in [Indices -> Seq(Ids)]
  /\ order \in Seq(Indices)
  /\ todo \in Seq(Ids)
  /\ probes \in SUBSET Ids

(* No bucket outgrows K_BUCKET_SIZE, whatever arrives while it is full     *)
(* (kBucket.ts:52).                                                        *)
BucketsBounded == \A i \in Indices : Len(buckets[i]) =< K_BUCKET_SIZE

(* Bucket i is for the peers at a distance from 2^i up to 2^(i+1).  The    *)
(* node itself, at distance 0, is not one of them: if it is listed (see    *)
(* HandleMessage) it takes a place in the farthest bucket.                 *)
InPlace(p, i) ==
  IF p = self THEN i = BIT_SIZE - 1
  ELSE Pow2[i] =< XOR(self, p) /\ XOR(self, p) < Pow2[i + 1]

(* A peer is listed only in the bucket of its XOR distance ("Nodes in the  *)
(* routing table are organized into buckets based on their XOR distance    *)
(* from the local node", README.md:46).                                    *)
WellPlaced ==
  \A i \in Indices : \A k \in 1 .. Len(buckets[i]) : InPlace(buckets[i][k], i)

(* No peer is listed twice in a bucket: updateBucketNode searches by id    *)
(* before it pushes, moveToFront filters by object identity.               *)
NoDuplicates == \A i \in Indices : Distinct(buckets[i])

(* The Map has each key once, and a bucket that lists anybody is a key of  *)
(* it: otherwise getAllPeers would miss or repeat peers.                   *)
OrderCoversTable ==
  /\ Distinct(order)
  /\ \A i \in Indices : buckets[i] # << >> => i \in Elements(order)

(* A table in order: bounded buckets, every peer once and in its place,    *)
(* every used bucket a key of the Map.                                     *)
TableWellFormed ==
  BucketsBounded /\ WellPlaced /\ NoDuplicates /\ OrderCoversTable

(* getAllPeers, the list that store and refreshAndUpdateConnections work   *)
(* from, names every known peer exactly once.                              *)
AllPeersExact ==
  /\ Elements(getAllPeers) = Known
  /\ Len(getAllPeers) = Cardinality(Known)

(* A peer leaves the table only when its TCP connection closes, alone, and *)
(* never this node itself: an unanswered PING of a full bucket, a newcomer *)
(* or a discovery round evicts nobody.                                     *)
OnlyDisconnectForgets ==
  [][Known' # Known =>
       \/ Known \subseteq Known'
       \/ \E p \in Known \ {self} : HandleTcpDisconnect(p) /\ Known' = Known \ {p}]_vars

(* The lists implement the bounded set of PeerSet.                         *)
Abstract == INSTANCE PeerSet WITH known <- Known
ImplementsPeerSet == Abstract!Spec

=============================================================================
