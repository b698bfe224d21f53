----------------------------- MODULE Discovery ------------------------------
(***************************************************************************)
(* Discovery rounds of several nodes: initDiscScheduler of node.ts with    *)
(* the lookup, the tables of the nodes it asks and the links it dials.     *)
(*                                                                         *)
(* A step is what a process does without yielding: the cron job's tick up  *)
(* to the first queries, the handling of one datagram with everything that *)
(* follows on it (the next level, or the end of the round).  Each query    *)
(* passes through "asked" (FIND_NODE under way) and "answered" (REPLY      *)
(* under way).  A table is the set of its peers and the indices of its     *)
(* Map; the lists are in RoutingTable, the calls in UdpRpc, the ends of a  *)
(* link in Connections.                                                    *)
(***************************************************************************)
EXTENDS FindNode

CONSTANTS
  Bootstrap,   \* the node that node.start enters
  Rounds,      \* bound: 1, 2, ..., the rounds under way at one time
  Overlapping, \* bound: who may run the rounds 2, ...; round 1 is anybody's
  Failing,     \* bound: the nodes that may restart
  MaxDials,    \* bound: sockets being opened at one time from node to node
  MaxFaults,   \* bound: queries that time out, and restarts
  Answers      \* AnswerTo as a function of its arguments, one after another

ASSUME BootstrapAssumption == Bootstrap \in Ids
ASSUME FailingAssumption == Failing \subseteq Ids
ASSUME BoundsAssumption == MaxDials \in Nat \ {0} /\ MaxFaults \in Nat
ASSUME AnswersAssumption ==
  \A asker, n \in Ids, ks \in SUBSET Indices, T \in SUBSET Ids :
    Answers[asker][n][ks][T] = AnswerTo(asker, n, ks, T)
ASSUME NothingCut == Cardinality(Ids) =< BIT_SIZE + 1   \* see AnswerTo

VARIABLES
  table,    \* of a node: the peers in its buckets
  keys,     \* of a node: the indices of its Map, also of emptied buckets
  round,    \* the state of each round's lookup
  net,      \* PINGs, PONGs, and datagrams of queries that were given up
  links,    \* of a node: the other ids that are keys of its connections
  opening,  \* sockets from a node to another that are being opened
  open,     \* sockets that are open
  lost,     \* sockets whose close event is to come
  faults    \* so far

tableVars == <<table, keys>>
socketVars == <<links, opening, open, lost>>
vars == <<table, keys, round, net, socketVars, faults>>

-----------------------------------------------------------------------------
(* Tables.                                                                 *)

Full(n, T, p) == Cardinality(InBucket(n, T, getBucketIndex(n, p))) >= K_BUCKET_SIZE

(* The set after updateTables(ps): a peer finds room or is left out.       *)
Updated(n, ps) ==
  LET after[i \in 0 .. Len(ps)] ==
        IF i = 0 THEN table[n]
        ELSE LET T == after[i - 1] IN T \cup {p \in {ps[i]} : ~Full(n, T, p)}
  IN  after[Len(ps)]

(* Mutant of Heard: the sender of a datagram is not entered.               *)
HeardNot(n, p) == table[n]

(* handleMessage: the sender of every datagram enters the table.           *)
Heard(n, p) == Updated(n, <<p>>)

Datagram(kind, from, to) == [kind |-> kind, from |-> from, to |-> to]

(* The PINGs for the newcomers among ps that found no room in T.  Which    *)
(* peer is at the head of a bucket is not kept here: it may be any but n.  *)
Pings(n, ps, T) ==
  {Datagram("request", n, q) :
     q \in (UNION {InBucket(n, T, getBucketIndex(n, p)) : p \in Elements(ps) \ T}) \ {n}}

(* The indices of the Map after updateTables(ps).                          *)
KeysWith(n, ps) == keys[n] \cup {getBucketIndex(n, p) : p \in Elements(ps)}

(* updateTables(ps) makes the table T, in a step that also sends ds.       *)
UpdateTables(n, ps, T, ds) ==
  /\ table' = [table EXCEPT ![n] = T]
  /\ keys' = [keys EXCEPT ![n] = KeysWith(n, ps)]
  /\ net' = net \cup Pings(n, ps, T) \cup ds

-----------------------------------------------------------------------------
(* The lookup of a round, as a value R.                                    *)

Slots == 1 .. ALPHA

Unasked == [s \in Slots |-> "none"]
NoReply == [s \in Slots |-> << >>]

IdleRound ==
  [node |-> Bootstrap, iteration |-> 0, shortlist |-> << >>, contacts |-> << >>, result |-> Unasked, reply |-> NoReply]

Pending(R) == {s \in Slots : R.result[s] \in {"asked", "answered"}}

Idle(r) == Pending(round[r]) = {}

Entry(R, s) == R.shortlist[R.iteration * ALPHA + s]

Queried(R) ==
  {s \in Slots : /\ R.iteration * ALPHA + s =< Len(R.shortlist)
                 /\ Entry(R, s) \notin Elements(R.contacts)}

(* The queries of a level go out.                                          *)
Level(R) == [R EXCEPT !.result = [s \in Slots |-> IF s \in Queried(R) THEN "asked" ELSE "none"]]

HasCloser(R, closeNodes) ==
  \E p \in Elements(closeNodes) : getBucketIndex(R.node, p) < getBucketIndex(R.node, R.shortlist[1])

(* The answer to query s, from p, has arrived.                             *)
Answered(R, s, p) ==
  [R EXCEPT !.shortlist = @ \o R.reply[s],
            !.contacts = WithKey(@, p),
            !.result[s] = IF HasCloser(R, R.reply[s]) THEN "closer" ELSE "same",
            !.reply[s] = << >>]

GoesOn(R) == (\E s \in Slots : R.result[s] = "closer") /\ Len(R.contacts) < BIT_SIZE

(* What the continuation of Promise.all makes of a round.                  *)
Continued(R) ==
  IF Pending(R) # {} THEN R
  ELSE LET next == [R EXCEPT !.iteration = @ + 1]
       IN  IF GoesOn(R) /\ Queried(next) # {} THEN Level(next) ELSE IdleRound

-----------------------------------------------------------------------------
(* The sockets of node n to p, of which connections know one at most.      *)

NoSockets == [n \in Ids |-> [p \in Ids |-> 0]]

(* Bound: once no failure can come, nothing depends on how many sockets    *)
(* are open or opened, and they are not counted.                           *)
MayFail == faults' < MaxFaults

Counted(sockets) == IF MayFail THEN sockets ELSE NoSockets

(* Mutant of Dialled: of two nodes only the higher one dials.              *)
DialledLower(n, T) == {p \in T : p < n /\ p \notin links[n]}

(* refreshAndUpdateConnections dials every peer of the table that          *)
(* connections do not have; a socket still being opened is no entry.       *)
Dialled(n, T) == T \ ({n} \cup links[n])

(* A socket to a node that never fails is taken to be open at once: it has *)
(* no close.                                                               *)
Dial(n, P) ==
  /\ links' = [links EXCEPT ![n] = @ \cup (P \ Failing)]
  /\ opening' = [opening EXCEPT ![n] = [p \in Ids |->
                   IF p \in P \cap Failing /\ @[p] < (IF MayFail THEN MaxDials ELSE 1) THEN @[p] + 1 ELSE @[p]]]

(* Round r gets to R, after updateTables(ps); when the lookup has ended    *)
(* the round enters its contacts and dials.  (Here and below, \E x \in {e} *)
(* only names e: TLC then evaluates it once.)                              *)
Proceed(r, R, ps, ds) ==
  LET n == R.node
  IN  \E C \in {Continued(R)} :
        /\ round' = [round EXCEPT ![r] = C]
        /\ IF Pending(C) # {}
             THEN UNCHANGED <<links, opening>> /\ \E T \in {Updated(n, ps)} : UpdateTables(n, ps, T, ds)
             ELSE \E T \in {Updated(n, ps \o R.contacts)} :
                    /\ UpdateTables(n, ps \o R.contacts, T, ds)
                    /\ Dial(n, Dialled(n, T))

-----------------------------------------------------------------------------

(* The cron job: a round starts, whatever other rounds are doing.          *)
Tick(r, n) ==
  /\ Idle(r)
  /\ r = 1 \/ n \in Overlapping
  /\ \A q \in Rounds : q < r => ~Idle(q)
  /\ UNCHANGED <<open, lost, faults>>
  /\ \E list \in {Answers[n][n][keys[n]][table[n]]} :
       \E R \in {Level([IdleRound EXCEPT !.node = n, !.shortlist = list])} :
         Proceed(r, R, << >>, {})

(* handleMessage for a FIND_NODE: the asker enters the table, which then   *)
(* yields the answer.                                                      *)
HandleFindNode(r, s) ==
  LET n == round[r].node
      p == Entry(round[r], s)
  IN  /\ round[r].result[s] = "asked"
      /\ \E T \in {Heard(p, n)} :
           /\ UpdateTables(p, <<n>>, T, {})
           /\ \E list \in {Answers[n][p][KeysWith(p, <<n>>)][T]} :
                round' = [round EXCEPT ![r].result[s] = "answered", ![r].reply[s] = list]
      /\ UNCHANGED <<socketVars, faults>>

(* handleMessage for a REPLY, and what the query and the search do next.   *)
HandleReply(r, s) ==
  LET p == Entry(round[r], s)
  IN  /\ round[r].result[s] = "answered"
      /\ UNCHANGED <<open, lost, faults>>
      /\ \E R \in {Answered(round[r], s, p)} : Proceed(r, R, <<p>>, {})

(* The datagram of query s that is still under way.                       *)
Underway(R, s) ==
  IF R.result[s] = "asked" THEN Datagram("request", R.node, Entry(R, s))
  ELSE Datagram("response", Entry(R, s), R.node)

(* A query times out; its datagram may still arrive.                       *)
TimeOut(r, s) ==
  LET R == round[r]
  IN  /\ faults < MaxFaults
      /\ s \in Pending(R)
      /\ faults' = faults + 1
      /\ Proceed(r, [R EXCEPT !.result[s] = "failed", !.reply[s] = << >>], << >>, {Underway(R, s)})
      /\ open' = Counted(open)
      /\ UNCHANGED lost

(* Any other datagram: its sender enters the table, a request is answered. *)
HandleMessage(m) ==
  /\ m \in net
  /\ UpdateTables(m.to, <<m.from>>, Heard(m.to, m.from),
                  IF m.kind = "request" THEN {Datagram("response", m.to, m.from)} ELSE {})
  /\ UNCHANGED <<round, socketVars, faults>>

(* Node p exits and starts again: it knows the bootstrap node, its sockets *)
(* are gone and its rounds with the datagrams of their queries.  Those who *)
(* had dialled it will notice; a socket that was still being opened is     *)
(* gone with an error that is only logged.                                 *)
Restart(p) ==
  /\ faults < MaxFaults
  /\ p \in Failing
  /\ faults' = faults + 1
  /\ table' = [table EXCEPT ![p] = {Bootstrap}]
  /\ keys' = [keys EXCEPT ![p] = {getBucketIndex(p, Bootstrap)}]
  /\ round' = [r \in Rounds |-> IF round[r].node = p THEN IdleRound ELSE round[r]]
  /\ links' = [links EXCEPT ![p] = {}]
  /\ opening' = [n \in Ids |-> [q \in Ids |-> IF p \in {n, q} THEN 0 ELSE opening[n][q]]]
  /\ open' = Counted([n \in Ids |-> [q \in Ids |-> IF p \in {n, q} THEN 0 ELSE open[n][q]]])
  /\ lost' = [n \in Ids |-> [q \in Ids |->
                IF n = p THEN 0 ELSE IF q = p THEN lost[n][p] + open[n][p] ELSE lost[n][q]]]
  /\ UNCHANGED net

(* handleNewSocket for the "open" event: connections get an entry, or the  *)
(* entry gets this socket.                                                 *)
Open(n, p) ==
  /\ opening[n][p] > 0
  /\ opening' = [opening EXCEPT ![n][p] = @ - 1]
  /\ links' = [links EXCEPT ![n] = @ \cup {p}]
  /\ UNCHANGED faults
  /\ open' = Counted([open EXCEPT ![n][p] = @ + 1])
  /\ UNCHANGED <<table, keys, round, net, lost>>

(* The "close" event of a socket of n and handleTcpDisconnet: the entry    *)
(* goes, whatever socket it holds, and the peer leaves the table.          *)
Close(n, p) ==
  /\ lost[n][p] > 0
  /\ lost' = [lost EXCEPT ![n][p] = @ - 1]
  /\ links' = [links EXCEPT ![n] = @ \ {p}]
  /\ table' = [table EXCEPT ![n] = @ \ {p}]
  /\ keys' = [keys EXCEPT ![n] = @ \cup {getBucketIndex(n, p)}]
  /\ UNCHANGED <<round, net, opening, open, faults>>

-----------------------------------------------------------------------------

(* Every node has started.                                                 *)
Init ==
  /\ table = [n \in Ids |-> {Bootstrap}]
  /\ keys = [n \in Ids |-> {getBucketIndex(n, Bootstrap)}]
  /\ round = [r \in Rounds |-> IdleRound]
  /\ net = {}
  /\ links = [n \in Ids |-> {}]
  /\ opening = NoSockets
  /\ open = NoSockets
  /\ lost = NoSockets
  /\ faults = 0

RoundStep(r) == \E s \in Slots : HandleFindNode(r, s) \/ HandleReply(r, s)

Next ==
  \/ \E r \in Rounds, n \in Ids : Tick(r, n)
  \/ \E r \in Rounds : RoundStep(r)
  \/ \E r \in Rounds, s \in Slots : TimeOut(r, s)
  \/ \E m \in net : HandleMessage(m)
  \/ \E p \in Ids : Restart(p)
  \/ \E n, p \in Ids : Open(n, p) \/ Close(n, p)

Spec == Init /\ [][Next]_vars

(* The cron job of every node keeps ticking (SF: within the bound on       *)
(* rounds), every lookup ends (LookupEnds of module Lookup), and every     *)
(* socket opens, every close event comes: RoundStep, Open and Close always *)
(* can bring that about.  Nothing says that a PING arrives.                *)
Fairness ==
  /\ \A n \in Ids : SF_vars(\E r \in Rounds : Tick(r, n))
  /\ \A r \in Rounds : []<>Idle(r)
  /\ []<>(opening = NoSockets)
  /\ []<>(lost = NoSockets)

FairSpec == Spec /\ Fairness

-----------------------------------------------------------------------------
(* Properties.                                                             *)

(* Every variable keeps its shape, and a lookup never meets the node that  *)
(* runs it, whatever tables the nodes on its way have.                     *)
TypeOK ==
  /\ table \in [Ids -> SUBSET Ids]
  /\ keys \in [Ids -> SUBSET Indices]
  /\ \A r \in Rounds :
       /\ round[r].iteration \in 0 .. BIT_SIZE - 1
       /\ Elements(round[r].shortlist) \cup Elements(round[r].contacts) \subseteq Ids \ {round[r].node}
       /\ round[r].result \in [Slots -> {"none", "asked", "answered", "closer", "same", "failed"}]
  /\ net \subseteq [kind : {"request", "response"}, from : Ids, to : Ids]
  /\ links \in [Ids -> SUBSET Ids]
  /\ {opening, open, lost} \subseteq [Ids -> [Ids -> Nat]]
  /\ faults \in 0 .. MaxFaults

(* A message reaches everybody if a link leads out of every group of nodes *)
(* that is not the network.  (Links are counted from the dialling node     *)
(* only.  The dialled node files all its ends under its own id, one of     *)
(* which a message to its neighbour `itself` is written to: module         *)
(* Connections; nothing says whose end that is.)                           *)
Connected == \A S \in (SUBSET Ids) \ {{}, Ids} : \E n \in S : links[n] \ S # {}

(* The rounds connect the network and keep it connected, also if a bucket  *)
(* has no room for somebody, rounds overlap, a query times out or a node   *)
(* is started again ("robustness in the presence of network churn",        *)
(* README.md:38; "the message will propagate throughout the entire         *)
(* network", README.md:144).                                               *)
StaysConnected == <>[]Connected

(* In the end connections have an entry for each peer of the table: what a *)
(* close, a second close for a doubled socket, a restart or another round  *)
(* does between a lookup and its dialling (node.ts:346) leaves no peer     *)
(* undialled for good.  (An entry may be left for a peer that the table    *)
(* has lost: the close of the first socket comes while the second is being *)
(* opened, and another node takes the place in the bucket.)                *)
EveryPeerDialled == <>[](\A n \in Ids : table[n] \ {n} \subseteq links[n])

(* In the end a peer knows whoever has it in his table, unless it has no   *)
(* room: one side's close or restart does not leave the other with an      *)
(* entry that is never returned (handleTcpDisconnet, node.ts:319).         *)
KnowEachOther ==
  <>[](\A n, p \in Ids : p \notin table[n] \/ n \in table[p] \/ Full(p, table[p], n))

=============================================================================
