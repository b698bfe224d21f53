# Verification of kademlia-p2p-ts

A TLA+ model of the distributed hash table in `src/src`: the routing table, the
recursive lookup, requests over UDP, storing and finding values, the WebSocket
mesh, the flooding of messages over it, and the discovery rounds that combine
tables, lookups and links of several nodes. TLC checks each part on a small
instance; TLAPS proves every safety property that TLC checks for every instance.

Paths such as `node.ts` are relative to `src/src` and its obvious directory.
`PROJECT.json` maps every definition that models code to its lines.

## 1. The system

A node is one Node.js process with id `n` in 0..31, a UDP socket and a WebSocket
server on port 3000 + n, and an HTTP server on port 2000 + n. Everything in a
process runs on one thread: a handler runs until it returns or awaits.

| Part | State | Operations |
|---|---|---|
| Key space (`utils/nodeUtils.ts`, `constants.ts`) | none | `XOR`, `getBucketIndex`, `hashKeyAndmapToKeyspace` |
| Routing table (`routingTable.ts`, `kBucket.ts`) | a Map from bucket index to a list of at most 3 peers; the Map of stored values | `updateTables`, `updateBucketNode`, `removeNode`, `getAllPeers`, `findNode`, `nodeStore`, `findValue` |
| Lookup (`node.ts`) | shortlist, contacts and level of a search | `findNodes`, `findNodeRecursiveSearch`, `handleFindNodeQuery` |
| UDP request/response (`udpTransport.ts`, `node.ts`) | promises, one-time listeners, timers | `sendMessage`, `udpMessageResolver`, `handleMessage` |
| Store and find (`node.ts`) | position in the loop over chunks | `store`, `findValue` |
| WebSocket transport (`wsTransport.ts`) | `connections`, `neighbors`, ids of seen messages | `connect`, `handleNewSocket`, handshake, close, `sendMessage` |
| Discovery rounds (`node.ts`, `discoveryScheduler.ts`) | a cron job every 30 s | lookup of the own id, `updateTables`, `refreshAndUpdateConnections` |
| HTTP API (`base.controller.ts`) | none | starts stores, finds and floods; reads the rest |

How they interact. A round looks the node's own id up over UDP, enters those who
answered in the table and dials every peer of the table that has no connection.
Every datagram, request or response, enters its sender in the receiver's table.
A full bucket pings its first peer over UDP. The close of a WebSocket removes
the peer from the table. Store and find read the list of peers of a table and
send requests to them in chunks of three. Floods follow the neighbours that
handshakes entered.

What is hard: responses that race the registration of their listener and the
timer; a chunk of which a part succeeds; concurrent queries that share a
shortlist; lists that are reversed in place; sockets that are doubled because a
socket being opened does not count; closes of old sockets that delete the entry
of newer ones; floods in a network full of cycles without a working hop limit;
rounds that overlap, lose a query or meet a restarted node and must still join
everybody to the network.
`PROJECT.json` lists these hazards at their lines, each with the properties that
would catch it going wrong.

## 2. Modules

| Module | Models | Correctness |
|---|---|---|
| `KeySpace` | ids, XOR, `getBucketIndex`; the constants and their assumptions | the index is the logarithm of the distance |
| `Lists` | the list operations the program uses, as recursive functions | lemmas in `ListsProofs` |
| `FindNode` | `findNode`, `addNodes` and the sort as operators on a table | sound and long enough answers |
| `PeerSet` | abstract: what a table promises, a bounded set | - |
| `RoutingTable` | one node's table and buckets under all events that change them | well formed, nobody evicted, implements `PeerSet` |
| `Lookup` | one node's search | bounded depth and contacts, ends |
| `RemoteCall` | abstract: what a call over UDP promises | - |
| `UdpRpc` | requests, responses, listeners, timers, the network, the stores | answers fit, calls settle, implements `RemoteCall` |
| `ValueStore` | `store` and `findValue`, composed with `UdpRpc` | acknowledged means stored, found was stored, ends |
| `Connections` | links with two ends, dialling rounds, handshakes, closes, restarts, tables as sets with the capacity of their buckets | no dead socket, a peer that stays is reached |
| `Broadcast` | flooding | at most once, dies out |
| `Discovery` | the rounds of several nodes: their lookups, tables and dialled sockets composed, timeouts, restarts | the network becomes and stays connected, every peer dialled, peers know each other |

`MC...` modules instantiate them for TLC, `...Proofs` modules hold theorems: one
for each component, but `ValueStoreProofs` has those of `UdpRpc` too, and
`RoutingTableProofs` those of `FindNode`.
Operators called "Mutant of X" are wrong versions of X, used to confirm that the
properties can fail; no specification uses them.

### RoutingTable
`buckets` and `order` are the Map: lists by index, and the keys in insertion
order, which is the order of `getAllPeers`. `todo` holds the contacts that the
loop of `updateTables` has not reached; while it is not empty no other event is
handled. `probes` are the peers with a ping under way. `MoveToFront`, `Push`,
`SelfAtEnd` and `PingHead` are the four ways through `updateBucketNode`. The
bootstrap node has itself in its table: `start` enters id 0 at node 0 too. So
may any other node: `findValue` asks the peers of another node's table, the
asking node may be one of them, and `handleMessage` enters the sender of every
datagram. The own id differs in no bit, and `getBucketIndex` falls through to
the farthest bucket for it. `WellPlaced` says of everybody else that the bucket
is the one of the XOR distance, and names that place of the own id (`InPlace`).

### KeySpace and FindNode
What the prover cannot expand is written out: `Pow2` is a recursive function
because the operator `^` is opaque to it, `Sorted` is an insertion sort (ids
are distinct, so any correct sort gives the same list as `Array.sort`), and
`Without` stands for `filter`. TLC computes all of them.

### Lookup
A level queries up to ALPHA entries of the shortlist at once. What the other
nodes answer is a parameter, any lists of ids for the proofs; in `MCLookup` it
is everything that `findNode` computes from some table of the asked node: a
table whose buckets are within their capacity, with the bootstrap node in it
(bound) and with the asker in it unless its bucket is full. That no list names the asking
node is what `findNode` sees to; it is checked and proved in `Discovery`.

### UdpRpc and ValueStore
A call is its `resId`. `net` is the set of datagrams sent; none is ever removed,
so each may be delivered late, twice, in any order, or never. A response in it
is the record that its request was carried out (`Executed`). `listener`
is separate from `status`, since the callback of the socket's send registers the
listener at some later moment and the timer does not remove it. `ValueStore`
extends `UdpRpc`: an operation enters a chunk by sending its requests in one
step, and goes on when Promise.all settles. Processes do not restart in these
two modules: a restart would lose the node's Map of values, and nothing in the
code would bring it back, so what `AckMeansStored` says holds of processes that
live on.

### Connections
A link has an end at the dialling and one at the dialled node, with their own
events. Both file their end under the id of the dialled node. A link that
breaks is noticed by each end in its own time (`Close`), which runs the whole
chain `close`, `_disconnect`, `disconnect`, `handleTcpDisconnet`. `_disconnect`
receives an object where it expects an id and deletes nothing; the later handler
does. `HandleMessage` enters the sender of a datagram, if its bucket has room,
and may happen at any time or never. The dialling node's handshake is delivered
with `Open`: it only enters the dialled node's own id among its neighbours, where
it is from the start. A message to the neighbour "itself" is therefore written
to the socket filed under the own id, which is the last one that was accepted
(`conn[n][n]`): the dialled node does send over one of its accepted sockets, to
whoever dialled last.

### Broadcast
Each send chooses how many copies go to which node, so that every topology, and
every change of topology during a flood, is covered. What happens to a copy is
receipt or loss. `delivered` counts what a process emits; a restarted process
starts with no seen ids and is another node to this model.

### Discovery
A step is what a process does without yielding: the cron job's tick up to the
first queries (`Tick`), the handling of a datagram with all that follows on it
(`HandleFindNode`, `HandleReply`, `HandleMessage`), the expiry of a timer
(`TimeOut`), a close event (`Close`). `Proceed` is what follows on a settled
query: the next level, or the end of the round, which enters the contacts and
dials. Rounds are places that ticks of any node take, so rounds of one node may
overlap. A table is a set of peers with the indices of its Map, since the order
inside a bucket decides only who is pinged (any peer of the bucket, here) and
what is cut off at BIT_SIZE entries (nothing, by `NothingCut`). `Answers` is
a constant that `AnswersAssumption` fixes to be `findNode` of `FindNode` on such
a table; `MCDiscovery` computes it once, TLC tests the assumption, and the
proof uses it.

A socket is its dialling end, and from a node to a peer there may be several:
`opening` counts those that are being opened, which `Dialled` does not see, so
that a second round dials the peer again; `open` those that are open; `lost`
those whose close event is to come. `links` are the ids that are keys of
connections. `Open` enters one, and every `Close` deletes it, whichever socket
it holds by then, and takes the peer out of the table. What the dialled node
sends back over the socket it accepted last (`Connections`) is not counted
as a link: nobody can say whom it reaches. `Restart` leaves the other nodes
with sockets that they notice later, and loses the datagrams of the queries of
the former process.

## 3. Runs

| Run | Instance | Shows |
|---|---|---|
| `key_space` | the real key space, all 1024 pairs of ids | `IndexIsLogDistance`, `OwnBucketIsNearest` |
| `routing_table` | 3 bits, buckets of 2, the table of node 6 and seven ids (0, 1, 2 and 6 itself compete for its far bucket, 4 and 5 share the next), rounds of up to 2 contacts | the seven properties of the table, and `findNode` for every key on every table a call meets; 548,264 states |
| `lookup` | 3 bits, ALPHA 2, six ids, the lookup of node 2, every table of every node within the bounds of `MCLookup` | bounds, level invariant and termination; 216,716 states |
| `udp_rpc` | 2 calls, 2 nodes, 2 keys, 2 values | answers fit, calls settle, refinement of `RemoteCall` |
| `values` | a store over chunks of 2 and 1 peers and a find of the other of two colliding values, at one node | acknowledgement, order of chunks, origin of what is found, termination |
| `broadcast` | 3 nodes, one message, up to 2 copies per socket and node | at most once, the flood ends |
| `connections` | 2 bits, nodes 0, 2 and 3 of which 0 has room for one, up to 2 links from 2 to 0, one failure or restart | no dead socket, a peer that stays is reached; 148,026 states |
| `discovery` | 3 bits, buckets of 2, ALPHA 2, nodes 0, 6 and 7 of which 0 has room for one, 2 rounds at a time, 2 sockets being opened at a time, one timeout or restart of 7 | the network stays connected, every peer is dialled, peers know each other; 405,844 states |

Four runs show a document of the repository contradicted by the code:

| Run | Says | Does |
|---|---|---|
| `find_node_closest` | README:80, FIND_NODE "Returns the k closest nodes" | stops at `count` entries, upper buckets first, and can omit nearer peers of a lower bucket |
| `find_stored` | README:124, findValue "returns a previously stored value" | null if the first peer of the chunk lacks it |
| `broadcast_direct` | README:139, "send a direct message to a node" | the message is flooded and every node emits it |
| `rejoin` | README:38, "robustness in the presence of network churn" | a restarted bootstrap node knows nobody and everybody forgets it when its sockets close: it can stay apart for ever |

The repository's README disagrees with the code in three more places, on which no run
is spent:

- README:90 reports "a small bug for middle nodes in the keyspace [...] 3006 &
  3007 where the last bucket contains the wrong nodes". The model does not show
  one for other peers: `WellPlaced`, checked for node 6 and proved for every owner,
  says that each is in the bucket of its XOR distance, also the last one. The
  one node that the last bucket can hold without belonging there is the
  table's owner (see `RoutingTable` above), for which distance 0 has no bucket;
  that holds for any owner, not only for the middle of the key space. Whether
  this is what README:90 saw cannot be told from the code. A run for it would
  refute nothing, since the document announces the defect itself.
- README:54 and README:89 give a capacity of 4 for a bucket; K_BUCKET_SIZE in
  `constants.ts` is 3. All theorems are for any capacity.
- README:53 and README:89 speak of 16-bit ids and of 4 buckets; BIT_SIZE is 5,
  so ids have 5 bits and a table up to 5 buckets. All theorems are for any number of bits.
  The last two are numbers in a text against numbers in `constants.ts`,
  for which there is nothing to run.

**Bounds.** Messages are independent of each other in `Broadcast` (every
variable is indexed by the message), so one is enough. Two calls are the fewest
for a datagram of one to be mistaken for the other's. In `values` all values
share the one key: what keeps two keys apart is in `AnswersFit`, for which
`udp_rpc` has two, and in the theorems, which have any number.

In `routing_table` a capacity of 2 has a first, a last and a full bucket. Answers
reach the cap: node 4 gets one peer of its own bucket and would get two above and one
below, of which BIT_SIZE = 3 are kept. The theorems have any sizes. In `lookup`
node 2 can meet five others while the bound on contacts, BIT_SIZE - 1 + ALPHA,
is four, so a lookup that went on too long would exceed it.

In `connections` three nodes are the fewest of which one is refused by a full
bucket. Such a node keeps its peer and dials it one way for as long as the
bucket is full, so `MeshedOrForgotten` asks of each node only that the peers
that stay in its own table are reached, not that they know it. Two links from
one node to another (`Doubled`) are the fewest for an old and a new socket
under one id, and one such pair is enough, because the closes of other ids do not touch
its entry; datagrams pass between the bootstrap node and the others
(`Talking`). One failure is enough for every pair of close events to race a new
dial, and the theorems about `Connections` have no bound.

In `discovery` three nodes are the fewest of which one finds the bucket of the
bootstrap node full and has to be met through the other. With three nodes
every peer of a table is on the first shortlist of a lookup: what the slices of
deeper levels skip in larger networks is outside this run, and nothing here
says that a network of many nodes gets connected. The second round is node 0's,
so its rounds overlap each other and those of 6 and 7, but a round
of 6 and one of 7 do not overlap (`Overlapping`; allowing it to 7 as well takes
longer than the runs have, and had the same outcome). Sockets are counted
up to two being opened from a node to another (`MaxDials`), only to the nodes
that may restart, since others never close, and no longer when the one failure is over, since
then nothing depends on their number. K_BUCKET_SIZE = ALPHA there as in
`constants.ts`, and it matters: with ALPHA 3 and buckets of 2 the levels slice past
what a full bucket answers, and TLC finds a node that nobody ever dials.
The one failure comes at any moment, and either kind of it.
`EveryPeerDialled` says that peers of the table have an entry of connections, not the converse:
an entry may stay for a peer that the table has lost, when the close of a
first socket comes while a second one is being opened and another node has
taken the place in the bucket.

**Fairness.** Timers fire (`Timeout`, `Rejected`); the event loop runs the
continuation of a settled promise (`Search`, `Collect`, `ChunkDone`,
`ChunkFailed`); bytes on a socket are received or the socket dies
(`Broadcast`); in `Connections`, rounds come every 30 s and the events of a
socket are delivered, while no datagram has to arrive. In `Discovery`, the cron job of each node keeps
ticking (strong fairness, because rounds share the places that bound them), a
lookup ends, which `LookupEnds` of `Lookup` shows of one under timers alone, and
sockets open and close events come; pings need not arrive. Nothing is assumed of UDP in `UdpRpc`, `ValueStore`
and `Lookup`. Failures and requests of users are never required.

**Deadlock.** Runs in which the work is finite (calls used up, floods died out,
nodes that have forgotten each other) switch the deadlock check off; the
routing table, the lookup and the discovery rounds never stop and keep it on.

## 4. Proofs

All theorems hold for every value of the constants that satisfies the named
ASSUMEs. Those are the ones the code justifies: positive sizes, ALPHA at most
BIT_SIZE, ids in the key space, values that are not the markers of the model.
`Calls` and `Answers` are constants only in form: assumptions fix what they are.
`NothingCut` bounds the instances of `Discovery` for which sets stand for buckets
faithfully; its theorem does not cite it.

- `KeySpaceProofs`: `LogDistance`, `OwnBucketFirst`, for any number of bits. The
  sum that defines `XOR` is split at the top differing bit i: the bits above add
  nothing, the bit itself adds 2^i and those below less than 2^i. Also that XOR
  with a fixed id is injective on the key space, by the same argument.
- `RoutingTableProofs`: `TypeCorrect`, `WellFormed`, `AllPeers`, `NobodyEvicted`,
  `Refinement`. `TypeOK /\ TableWellFormed` is inductive: moving
  a peer to the front keeps a bucket bounded only because the peer was in it
  once, a close forgets a peer only because the peer is in no other bucket, and
  `AllPeersExact` needs both together with the keys of the Map. The lists enter
  through lemmas of `ListsProofs` (what `Without`, `Reversed`, `Concatenated` and
  `WithKey` contain and preserve), which are proved by induction on
  a set of numbers. Every
  way through `updateBucketNode` maps to `Learn` or a stutter of `PeerSet`, a
  close to `Forget` or a stutter. The table is proved in place by distance: `IndexIsPlace`
  shows that a bucket's range of distances and the index that `getBucketIndex`
  computes are the same, from the facts about XOR of an instance of `KeySpaceProofs`.
- `RoutingTableProofs`, answers: `AnswersSound`, `AnswersEnough`. `Gathered(c, k, I)` says
  of findNode's list that it has peers of the buckets I only, each once, never
  k, and that it has ALPHA entries or all of those peers. Each round of the loop
  keeps it true of the buckets seen so far (`Seen`), because tables are well
  formed: a peer is in one bucket, once. No more than BIT_SIZE - 1 buckets lie
  between two others, so BIT_SIZE rounds have seen them all, also when a round
  jumps over ALPHA and the loop goes on. The sort keeps the entries and, since
  distances to k are injective, leaves them strictly descending.
- `LookupProofs`, for any lists of ids as answers: `LevelInvariant`, and from it `DepthIsBounded` and
  `ContactsAreBounded`. Neither bound is inductive. `LevelInv` adds that a level
  begins with at least as many contacts as there were levels and fewer than
  BIT_SIZE, that each pending query can add one contact, and that the first
  answer of a level does: the entries it queried were not contacts. So a level
  that recurses has gained a contact.
- `ValueStoreProofs`, calls: `RpcTypeCorrect`, `AnswersAlwaysFit`, `CallsAreRemoteCalls`.
  The inductive invariant `RpcInv` says of every datagram that its call was made
  and, for a response, that its content fits the request: a value in it was
  asked to be stored under the key at that node, and a STORE left its key
  non-empty (no value is ever removed); and that what resolved a call has those
  properties and came in a response. Since `net` only grows, a response stays
  the evidence of its request's execution. These proofs cite nothing of
  `ValueStore`.
- `ValueStoreProofs`, operations: `TypeCorrect`, `AcksAreTrue`, `FindsAreStored`,
  `ChunksInTurn`, and for the composition `AnswersFitHere`, `ChunksAreRemoteCalls`.
  `ValuesInv` joins `RpcInv` with `OpInv` for each operation. That a stored
  chunk left values follows from `RpcInv` only because `LoopInv` says that the
  calls the operation counts carry its own request, and `ResultInv` that a
  result stems from resolved calls of the chunk the loop is at. That chunks are
  asked in turn needs that beyond the current one no call exists and that every
  chunk before it has a rejected call, which a later answer cannot undo. Lists
  of peers, chunk size and the hash are any.
- `BroadcastProofs`: `BroadcastTypeCorrect`, `EmittedAtMostOnce`. `FloodInv` adds
  that a node that emitted a message has it on record, that its origin has it on
  record as long as copies exist, and that an id not posted has no copies.
- `ConnectionsProofs`: `ConnectionsTypeCorrect`, `NoDeadSocket`, by one step per
  action: every step that closes an end also clears the entry it could be in.

- `DiscoveryProofs`: `DiscoveryTypeCorrect`. `DiscoveryInv` adds `RoundInv` of every
  round to the types. That a lookup never meets its own node rests on what
  `findNode` answers from any table whatsoever (`AnswerType`). That it has at
  most BIT_SIZE levels is not inductive: `RoundInv` adds that there is a contact
  for every level left, that the queries of a level went to nobody contacted
  before it, and so that its first answer brings a new contact, however the
  answers and timeouts of the level are ordered. `DiscoveryInv` was
  model-checked on the instance of the run before it was proved, like the other
  inductive invariants.

Inductions over lists, rounds of a loop and bits go through `SetInduction` and
`IteratesExists` of `ListsProofs`, which are about a set of numbers and a function,
and so need no operator as a parameter.

**Only model-checked**: the liveness properties (`LookupEnds`, `CallsSettle`,
`OpsEnd`, `FloodEnds`, `MeshedOrForgotten`, and `StaysConnected`,
`EveryPeerDialled` and `KnowEachOther` of `Discovery`). They need fairness and
ENABLED, which TLAPS does not reason about. Every invariant and every action
property that a passing run checks is proved.

## 5. Not modelled

- The change of interval in `discoveryScheduler.ts`: both schedules are the same
  string, so it never happens. `discExecutor.ts`, `messageQueue.ts` and `redis.ts` have no caller.
- `findClosestNode`, which an HTTP handler calls (`base.controller.ts`, routed in
  `base.route.ts`): it reads the table and changes nothing.
- Restarts in `UdpRpc` and `ValueStore`: stored values live in memory, are lost with the
  process and are never stored again by the code.
- The growth of the emitter's listeners (three per datagram, rarely removed).
- The branches for `PacketType.Direct`, which no caller reaches.
- `lastSeen`, which no decision reads; msgpack and JSON encoding; logging;
  the HTTP framework.

## 6. Plan

Done: the modules above, in the order key space, routing table, lookup, RPC,
values, broadcast, connections, discovery; all their safety properties as
theorems, and the refinements of `PeerSet` and `RemoteCall`.

Next: the safety part of liveness arguments, where it says something of its
own, such as what a node that has stopped ticking or a call that has settled
can still change; in `Discovery`, that links and tables name each other as far as no
close is under way; an abstract specification of `Connections`.
