------------------------------- MODULE UdpRpc -------------------------------
(***************************************************************************)
(* Requests and responses over UDP: UDPTransport.sendMessage, the listener *)
(* that udpMessageResolver registers, and the part of handleMessage that   *)
(* answers requests and dispatches responses.  (That handleMessage enters  *)
(* the sender in the routing table is modelled in RoutingTable.)           *)
(*                                                                         *)
(* A call stands for its resId, a fresh v4().  net holds every datagram    *)
(* ever sent, and a step takes any of them: datagrams are reordered,       *)
(* repeated, and lost when no step takes them.  The listener for the       *)
(* response is registered by the callback of the socket's send, a later    *)
(* event; an event emitted before it is registered is lost.  The timer of  *)
(* timeoutReject may fire at any time while the call is unsettled; when it *)
(* fires later it does nothing, for it is never cleared.                   *)
(***************************************************************************)
EXTENDS FiniteSets

CONSTANTS
  Nodes,
  Calls,     \* the resIds of the instance
  Keys,
  Values,
  Missing    \* no value is stored under a key

ASSUME MissingAssumption == Missing \notin Values
ASSUME ValuesAssumption == Values \cap {"pong", "peers", "none"} = {}

VARIABLES
  request,   \* of each call made: its type, receiver, key and value
  status,    \* of the promise of sendMessage: Promise.race of answer and timer
  answer,    \* what the promise was resolved with
  listener,  \* "none", then "registered" by the callback, then "gone"
  net,       \* the datagrams sent so far
  store      \* of each node: RoutingTable.store, key -> value

rpcVars == <<request, status, answer, listener, net, store>>

-----------------------------------------------------------------------------

Types == {"PING", "STORE", "FIND_NODE", "FIND_VALUE"}

(* Only a STORE carries a value.                                           *)
Requests ==
  [type : {"STORE"}, to : Nodes, key : Keys, value : Values]
    \cup [type : Types \ {"STORE"}, to : Nodes, key : Keys, value : {Missing}]

NoRequest == [type |-> "NONE"]

(* A PONG, a list of peers, or a value.                                    *)
Results == {"pong", "peers"} \cup Values

Datagrams ==
  [kind : {"request"}, call : Calls] \cup [kind : {"response"}, call : Calls, result : Results]

(* The calls whose request some node has carried out.                      *)
Executed == {c \in Calls : \E m \in net : m.kind = "response" /\ m.call = c}

(* Mutant of Result: findValue without the test `store.has(key)`.          *)
ResultUntested(r) == IF r.type = "FIND_VALUE" THEN store[r.to][r.key] ELSE "pong"

(* What handleMessage answers: STORE and PING get a PONG, FIND_NODE a      *)
(* REPLY with peers, FIND_VALUE a FOUND_RESPONSE with the value stored     *)
(* under the key or, if there is none, with peers (RoutingTable.findValue).*)
Result(r) ==
  CASE r.type \in {"PING", "STORE"} -> "pong"
    [] r.type = "FIND_NODE" -> "peers"
    [] r.type = "FIND_VALUE" -> IF store[r.to][r.key] = Missing THEN "peers"
                                ELSE store[r.to][r.key]

-----------------------------------------------------------------------------

(* sendMessage for each of the calls in the domain of reqs, at once.       *)
Send(reqs) ==
  /\ \A c \in DOMAIN reqs : status[c] = "unused"
  /\ request' = [c \in Calls |-> IF c \in DOMAIN reqs THEN reqs[c] ELSE request[c]]
  /\ status' = [c \in Calls |-> IF c \in DOMAIN reqs THEN "pending" ELSE status[c]]
  /\ net' = net \cup [kind : {"request"}, call : DOMAIN reqs]
  /\ UNCHANGED <<answer, listener, store>>

(* The callback of the socket's send: udpMessageResolver registers the     *)
(* once-listeners, also when the call has been settled by then.            *)
SendCallback(c) ==
  /\ status[c] # "unused"
  /\ listener[c] = "none"
  /\ listener' = [listener EXCEPT ![c] = "registered"]
  /\ UNCHANGED <<request, status, answer, net, store>>

(* Mutant of NodeStore: reads the key where it is not, and so stores all   *)
(* values under NaN.                                                       *)
NodeStoreOneKey(r) ==
  store' = IF r.type = "STORE" THEN [store EXCEPT ![r.to] = [k \in Keys |-> r.value]] ELSE store

(* nodeStore: a STORE writes the node's Map.                               *)
NodeStore(r) ==
  store' = IF r.type = "STORE" THEN [store EXCEPT ![r.to][r.key] = r.value] ELSE store

(* handleMessageResponse                                                   *)
ResponseTo(m) ==
  [kind |-> "response", call |-> m.call, result |-> Result(request[m.call])]

(* handleMessage for a request.                                            *)
HandleRequest(m) ==
  /\ m \in net
  /\ m.kind = "request"
  /\ NodeStore(request[m.call])
  /\ net' = net \cup {ResponseTo(m)}
  /\ UNCHANGED <<request, status, answer, listener>>

(* Mutant of Settles: a resolve after the timer's reject counts.           *)
SettlesLate(c) == listener[c] = "registered"

(* A registered listener resolves the promise, which takes effect only if  *)
(* the timer has not rejected it.                                          *)
Settles(c) == listener[c] = "registered" /\ status[c] = "pending"

(* handleMessage for a response: it emits the event of the resId, which    *)
(* removes a registered listener.  Without one nothing happens.            *)
HandleResponse(m) ==
  /\ m \in net
  /\ m.kind = "response"
  /\ listener' = [listener EXCEPT ![m.call] = IF @ = "registered" THEN "gone" ELSE @]
  /\ IF Settles(m.call)
       THEN /\ status' = [status EXCEPT ![m.call] = "resolved"]
            /\ answer' = [answer EXCEPT ![m.call] = m.result]
       ELSE UNCHANGED <<status, answer>>
  /\ UNCHANGED <<request, net, store>>

(* Mutant of TimerRuns: the timer is started by the callback of the send.  *)
TimerRunsAfterCallback(c) == status[c] = "pending" /\ listener[c] = "registered"

(* timeoutReject starts with the call, next to the promise of the answer.  *)
TimerRuns(c) == status[c] = "pending"

(* 45 s after sendMessage.                                                 *)
Timeout(c) ==
  /\ TimerRuns(c)
  /\ status' = [status EXCEPT ![c] = "rejected"]
  /\ UNCHANGED <<request, answer, listener, net, store>>

-----------------------------------------------------------------------------

RpcInit ==
  /\ request = [c \in Calls |-> NoRequest]
  /\ status = [c \in Calls |-> "unused"]
  /\ answer = [c \in Calls |-> "none"]
  /\ listener = [c \in Calls |-> "none"]
  /\ net = {}
  /\ store = [n \in Nodes |-> [k \in Keys |-> Missing]]

(* Everything but the calls themselves, which are their callers' business. *)
RpcStep ==
  \/ \E c \in Calls : SendCallback(c) \/ Timeout(c)
  \/ \E m \in net : HandleRequest(m) \/ HandleResponse(m)

RpcNext ==
  \/ \E c \in Calls, r \in Requests : Send([x \in {c} |-> r])
  \/ RpcStep

RpcSpec == RpcInit /\ [][RpcNext]_rpcVars

(* setTimeout fires; nothing is assumed of the network.                    *)
RpcFairness == \A c \in Calls : WF_rpcVars(Timeout(c))

RpcFairSpec == RpcSpec /\ RpcFairness

-----------------------------------------------------------------------------
(* Properties.                                                             *)

(* Every variable keeps its shape.                                         *)
RpcTypeOK ==
  /\ request \in [Calls -> Requests \cup {NoRequest}]
  /\ status \in [Calls -> {"unused", "pending", "resolved", "rejected"}]
  /\ answer \in [Calls -> Results \cup {"none"}]
  /\ listener \in [Calls -> {"none", "registered", "gone"}]
  /\ net \in SUBSET Datagrams
  /\ store \in [Nodes -> [Keys -> Values \cup {Missing}]]

(* Some call has asked node n to store v under k.                          *)
StoreAsked(n, k, v) ==
  \E s \in Calls : request[s] = [type |-> "STORE", to |-> n, key |-> k, value |-> v]

(* What a resolved call tells its caller is true, however datagrams are    *)
(* delayed and repeated: the request was carried out; an acknowledged      *)
(* STORE has left the key in the node's Map; and a value is the answer of  *)
(* a FIND_VALUE, one that somebody has stored at that node under that key. *)
AnswersFit ==
  \A c \in Calls : status[c] = "resolved" =>
    LET r == request[c]
    IN  /\ c \in Executed
        /\ r.type = "STORE" => store[r.to][r.key] # Missing
        /\ answer[c] \in Values =>
             r.type = "FIND_VALUE" /\ StoreAsked(r.to, r.key, answer[c])

(* Every call settles, by its response or by its timer.                    *)
CallsSettle == \A c \in Calls : (status[c] = "pending") ~> (status[c] \in {"resolved", "rejected"})

(* sendMessage keeps the promise of RemoteCall.                            *)
Promise == INSTANCE RemoteCall WITH executed <- Executed
ImplementsRemoteCall == Promise!Spec

=============================================================================
