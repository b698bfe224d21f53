-------------------------- MODULE ValueStoreProofs --------------------------
(***************************************************************************)
(* Proofs about UdpRpc and ValueStore, for any set of nodes, operations    *)
(* and values, any lists of peers and any chunk size, over a network that  *)
(* loses, repeats and reorders.                                            *)
(*                                                                         *)
(* First the calls: what their answers say is true (RpcInv), and           *)
(* sendMessage implements RemoteCall.  Then the operations, whose          *)
(* invariant joins RpcInv to OpInv, which says where each operation is in  *)
(* its loop: which chunks it has asked, that those before its chunk have   *)
(* failed, and what a result was made from.                                *)
(***************************************************************************)
EXTENDS ValueStore, ListsProofs

-----------------------------------------------------------------------------
(* The calls.                                                              *)

(* What an answer a to call c says is true of the nodes' Maps.             *)
Fits(c, a) ==
  LET r == request[c]
  IN  /\ r.type = "STORE" => store[r.to][r.key] # Missing
      /\ a \in Values => r.type = "FIND_VALUE" /\ StoreAsked(r.to, r.key, a)

(* A datagram belongs to a call that has been made, and a response fits.   *)
Justified(m) ==
  /\ status[m.call] # "unused"
  /\ m.kind = "response" => Fits(m.call, m.result)

(* A call has a request once it is made, and a resolved call was carried   *)
(* out and holds an answer that fits.                                      *)
OnRecord(c) ==
  /\ status[c] = "unused" => request[c] = NoRequest
  /\ status[c] # "unused" => request[c] \in Requests
  /\ status[c] = "resolved" => c \in Executed /\ Fits(c, answer[c])

(* What a Map holds, somebody asked to store there.                        *)
MapsJustified ==
  \A n \in Nodes, k \in Keys : store[n][k] # Missing => StoreAsked(n, k, store[n][k])

RpcInv ==
  /\ RpcTypeOK
  /\ \A m \in net : Justified(m)
  /\ \A c \in Calls : OnRecord(c)
  /\ MapsJustified

(* What every step leaves true: calls are never unmade or changed, a key   *)
(* never becomes empty, no datagram is forgotten.                          *)
Grows ==
  /\ \A c \in Calls : status[c] # "unused" => status'[c] # "unused" /\ request'[c] = request[c]
  /\ \A n \in Nodes, k \in Keys : store[n][k] # Missing => store'[n][k] # Missing
  /\ net \subseteq net'

(* The fields of requests and datagrams.                                   *)
LEMMA Fields ==
  /\ \A r \in Requests : /\ r.type \in Types /\ r.to \in Nodes /\ r.key \in Keys
                         /\ r.type = "STORE" => r.value \in Values
                         /\ r.type = "STORE" =>
                              r = [type |-> "STORE", to |-> r.to, key |-> r.key, value |-> r.value]
  /\ \A m \in Datagrams : /\ m.call \in Calls
                          /\ m.kind \in {"request", "response"}
                          /\ m.kind = "response" => m.result \in Results
BY DEF Requests, Datagrams, Types

(* The answer to a request is a PONG, a list or a value that is there, and *)
(* a value only if one was asked for.                                      *)
LEMMA ResultFits ==
  ASSUME RpcTypeOK, NEW r \in Requests
  PROVE  /\ Result(r) \in Results
         /\ Result(r) \in Values =>
              r.type = "FIND_VALUE" /\ store[r.to][r.key] # Missing /\ Result(r) = store[r.to][r.key]
<1>1. store[r.to][r.key] \in Values \cup {Missing}
  BY Fields DEF RpcTypeOK
<1>2. r.type \in Types
  BY Fields
<1> QED BY <1>1, <1>2, ValuesAssumption DEF Result, Results, Types

(* A store that was asked for stays so.                                    *)
LEMMA StillAsked ==
  ASSUME RpcInv, Grows, NEW n, NEW k, NEW v, StoreAsked(n, k, v)
  PROVE  \E s \in Calls : request'[s] = [type |-> "STORE", to |-> n, key |-> k, value |-> v]
<1>1. PICK s \in Calls : request[s] = [type |-> "STORE", to |-> n, key |-> k, value |-> v]
  BY DEF StoreAsked
<1>2. request[s] # NoRequest
  <2>1. request[s].type = "STORE"
    BY <1>1
  <2> QED BY <2>1 DEF NoRequest
<1>3. request'[s] = request[s]
  BY <1>2 DEF RpcInv, OnRecord, Grows
<1> QED BY <1>1, <1>3

(* An answer that fits goes on fitting.                                    *)
LEMMA StillFits ==
  ASSUME RpcInv, Grows, NEW c \in Calls, status[c] # "unused", NEW a, Fits(c, a)
  PROVE  Fits(c, a)'
<1>1. request'[c] = request[c] /\ request[c].to \in Nodes /\ request[c].key \in Keys
  BY Fields DEF RpcInv, OnRecord, Grows
<1>2. request[c].type = "STORE" => store'[request[c].to][request[c].key] # Missing
  BY <1>1 DEF Fits, Grows
<1>3. a \in Values =>
        /\ request[c].type = "FIND_VALUE"
        /\ \E s \in Calls :
             request'[s] = [type |-> "STORE", to |-> request[c].to, key |-> request[c].key, value |-> a]
  BY StillAsked DEF Fits
<1> QED BY <1>1, <1>2, <1>3 DEF Fits, StoreAsked

(* A datagram that was justified stays so.                                 *)
LEMMA StillJustified ==
  ASSUME RpcInv, Grows, NEW m \in net
  PROVE  Justified(m)'
<1>1. m.call \in Calls /\ Justified(m)
  BY Fields DEF RpcInv, RpcTypeOK
<1>2. status'[m.call] # "unused"
  BY <1>1 DEF Justified, Grows
<1>3. m.kind = "response" => Fits(m.call, m.result)'
  BY <1>1, StillFits DEF Justified
<1> QED BY <1>2, <1>3 DEF Justified

(* A resolved call whose answer does not change keeps its record.          *)
LEMMA StillOnRecord ==
  ASSUME RpcInv, Grows, NEW c \in Calls, status[c] = "resolved", answer'[c] = answer[c]
  PROVE  (c \in Executed /\ Fits(c, answer[c]))'
<1>1. c \in Executed /\ Fits(c, answer[c])
  BY DEF RpcInv, OnRecord
<1>2. c \in Executed'
  BY <1>1 DEF Executed, Grows
<1>3. \A a : Fits(c, a) => Fits(c, a)'
  BY StillFits
<1>4. Fits(c, answer[c])'
  BY <1>1, <1>3 DEF Fits, StoreAsked
<1> QED BY <1>2, <1>4

(* Initially no call has been made.                                        *)
LEMMA RpcInitInv == RpcInit => RpcInv
BY DEF RpcInit, RpcInv, RpcTypeOK, OnRecord, MapsJustified, NoRequest

(* Calls are made: any number at once, as sendManyUdp does.                *)
LEMMA SendStep ==
  ASSUME RpcInv, NEW reqs, DOMAIN reqs \subseteq Calls,
         \A c \in DOMAIN reqs : reqs[c] \in Requests, Send(reqs)
  PROVE  RpcInv'
<1> USE DEF Send
<1>1. RpcTypeOK'
  <2>1. [kind : {"request"}, call : DOMAIN reqs] \subseteq Datagrams
    BY DEF Datagrams
  <2> QED BY <2>1 DEF RpcInv, RpcTypeOK
<1>2. Grows
  BY DEF Grows, RpcInv, RpcTypeOK
<1>3. \A m \in net' : Justified(m)'
  <2> SUFFICES ASSUME NEW m \in net' PROVE Justified(m)'
    OBVIOUS
  <2>1. CASE m \in net
    BY <2>1, <1>2, StillJustified
  <2>2. CASE m \in [kind : {"request"}, call : DOMAIN reqs]
    BY <2>2 DEF Justified
  <2> QED BY <2>1, <2>2
<1>4. \A c \in Calls : OnRecord(c)'
  BY <1>2, StillOnRecord DEF RpcInv, RpcTypeOK, OnRecord
<1>5. MapsJustified'
  BY <1>2, StillAsked DEF RpcInv, MapsJustified, StoreAsked
<1> QED BY <1>1, <1>3, <1>4, <1>5 DEF RpcInv

(* A request is carried out, perhaps again.                                *)
LEMMA RequestStep ==
  ASSUME RpcInv, NEW m \in net, HandleRequest(m)
  PROVE  RpcInv'
<1> DEFINE r == request[m.call]
           resp == [kind |-> "response", call |-> m.call, result |-> Result(r)]
<1>1. m.call \in Calls /\ r \in Requests /\ status[m.call] # "unused"
  BY Fields DEF RpcInv, RpcTypeOK, Justified, OnRecord
<1>2. UNCHANGED <<request, status, answer, listener>> /\ net' = net \cup {resp}
  BY DEF HandleRequest, ResponseTo
<1>3. store' = IF r.type = "STORE" THEN [store EXCEPT ![r.to][r.key] = r.value] ELSE store
  BY DEF HandleRequest, NodeStore
<1>4. /\ r.to \in Nodes /\ r.key \in Keys
      /\ r.type = "STORE" =>
           /\ r.value \in Values
           /\ r = [type |-> "STORE", to |-> r.to, key |-> r.key, value |-> r.value]
  BY <1>1, Fields
<1>5. /\ Result(r) \in Results
      /\ Result(r) \in Values =>
           /\ r.type = "FIND_VALUE"
           /\ store[r.to][r.key] # Missing
           /\ Result(r) = store[r.to][r.key]
  BY <1>1, ResultFits DEF RpcInv
<1>6. RpcTypeOK'
  <2>1. resp \in Datagrams
    BY <1>1, <1>5 DEF Datagrams
  <2>2. store' \in [Nodes -> [Keys -> Values \cup {Missing}]]
    BY <1>3, <1>4 DEF RpcInv, RpcTypeOK
  <2> QED BY <1>2, <2>1, <2>2 DEF RpcInv, RpcTypeOK
<1>7. Grows
  <2>1. \A n \in Nodes, k \in Keys : store[n][k] # Missing => store'[n][k] # Missing
    BY <1>3, <1>4, MissingAssumption DEF RpcInv, RpcTypeOK
  <2> QED BY <1>2, <2>1 DEF Grows
<1>8. ASSUME NEW d \in net', d = resp PROVE Justified(d)'
  <2>1. d.call = m.call /\ d.result = Result(r)
    BY <1>8
  <2>2. r.type = "STORE" => store'[r.to][r.key] # Missing
    BY <1>3, <1>4, MissingAssumption DEF RpcInv, RpcTypeOK
  <2>3. d.result \in Values => r.type = "FIND_VALUE" /\ StoreAsked(r.to, r.key, d.result)
    BY <1>4, <1>5, <2>1 DEF RpcInv, MapsJustified
  <2> QED BY <1>1, <1>2, <2>1, <2>2, <2>3 DEF Justified, Fits, StoreAsked
<1>9. \A d \in net' : Justified(d)'
  <2> SUFFICES ASSUME NEW d \in net' PROVE Justified(d)'
    OBVIOUS
  <2>1. CASE d \in net
    BY <2>1, <1>7, StillJustified
  <2> QED BY <1>2, <1>8, <2>1
<1>10. \A c \in Calls : OnRecord(c)'
  BY <1>2, <1>7, StillOnRecord DEF RpcInv, OnRecord
<1>11. MapsJustified'
  <2> SUFFICES ASSUME NEW n \in Nodes, NEW k \in Keys, store'[n][k] # Missing
               PROVE  StoreAsked(n, k, store[n][k])'
    BY DEF MapsJustified
  <2>1. CASE store'[n][k] = store[n][k]
    BY <1>2, <2>1 DEF RpcInv, MapsJustified, StoreAsked
  <2>2. CASE store'[n][k] # store[n][k]
    <3>1. r.type = "STORE" /\ n = r.to /\ k = r.key /\ store'[n][k] = r.value
      BY <1>3, <1>4, <2>2 DEF RpcInv, RpcTypeOK
    <3> QED BY <1>1, <1>2, <1>4, <3>1 DEF StoreAsked
  <2> QED BY <2>1, <2>2
<1> QED BY <1>6, <1>9, <1>10, <1>11 DEF RpcInv

(* A response arrives, in time or not.                                     *)
LEMMA ResponseStep ==
  ASSUME RpcInv, NEW m \in net, HandleResponse(m)
  PROVE  RpcInv'
<1>1. /\ m.call \in Calls /\ m.kind = "response" /\ m.result \in Results
      /\ m.call \in Executed /\ Fits(m.call, m.result)
  BY Fields DEF HandleResponse, RpcInv, RpcTypeOK, Justified, Executed
<1>2. UNCHANGED <<request, net, store>>
  BY DEF HandleResponse
<1>3. listener' = [listener EXCEPT ![m.call] = IF @ = "registered" THEN "gone" ELSE @]
  BY DEF HandleResponse
<1>4. \/ UNCHANGED <<status, answer>>
      \/ /\ status[m.call] = "pending"
         /\ status' = [status EXCEPT ![m.call] = "resolved"]
         /\ answer' = [answer EXCEPT ![m.call] = m.result]
  BY DEF HandleResponse, Settles
<1>5. RpcTypeOK'
  BY <1>1, <1>2, <1>3, <1>4 DEF RpcInv, RpcTypeOK
<1>6. Grows
  BY <1>2, <1>4 DEF Grows, RpcInv, RpcTypeOK
<1>7. \A d \in net' : Justified(d)'
  BY <1>2, <1>6, StillJustified
<1>8. \A c \in Calls : OnRecord(c)'
  <2> SUFFICES ASSUME NEW c \in Calls PROVE OnRecord(c)'
    OBVIOUS
  <2>1. CASE status'[c] = status[c] /\ answer'[c] = answer[c]
    BY <1>2, <1>6, <2>1, StillOnRecord DEF RpcInv, OnRecord
  <2>2. CASE c = m.call /\ status[c] = "pending" /\ status'[c] = "resolved" /\ answer'[c] = m.result
    <3>1. c \in Executed'
      BY <1>1, <1>2, <2>2 DEF Executed
    <3>2. Fits(c, answer[c])'
      BY <1>1, <1>2, <2>2 DEF Fits, StoreAsked
    <3>3. request'[c] \in Requests
      BY <1>2, <2>2 DEF RpcInv, OnRecord
    <3> QED BY <2>2, <3>1, <3>2, <3>3 DEF OnRecord
  <2> QED BY <1>4, <2>1, <2>2 DEF RpcInv, RpcTypeOK
<1>9. MapsJustified'
  BY <1>2 DEF RpcInv, MapsJustified, StoreAsked
<1> QED BY <1>5, <1>7, <1>8, <1>9 DEF RpcInv

(* The callback of the send and the timer.                                 *)
LEMMA QuietStep ==
  ASSUME RpcInv, NEW c \in Calls, SendCallback(c) \/ Timeout(c)
  PROVE  RpcInv'
<1>1. UNCHANGED <<request, answer, net, store>>
  BY DEF SendCallback, Timeout
<1>2. listener' \in [Calls -> {"none", "registered", "gone"}]
  BY DEF SendCallback, Timeout, RpcInv, RpcTypeOK
<1>3. status' = status \/ (status[c] = "pending" /\ status' = [status EXCEPT ![c] = "rejected"])
  BY DEF SendCallback, Timeout, TimerRuns
<1>4. RpcTypeOK'
  BY <1>1, <1>2, <1>3 DEF RpcInv, RpcTypeOK
<1>5. Grows
  BY <1>1, <1>3 DEF Grows, RpcInv, RpcTypeOK
<1>6. \A d \in net' : Justified(d)'
  BY <1>1, <1>5, StillJustified
<1>7. \A d \in Calls : OnRecord(d)'
  <2>1. \A d \in Calls : /\ status'[d] = "unused" <=> status[d] = "unused"
                         /\ status'[d] = "resolved" => status[d] = "resolved"
    BY <1>3 DEF RpcInv, RpcTypeOK
  <2> SUFFICES ASSUME NEW d \in Calls PROVE OnRecord(d)'
    OBVIOUS
  <2>2. request'[d] = request[d] /\ answer'[d] = answer[d] /\ OnRecord(d)
    BY <1>1 DEF RpcInv
  <2>3. status'[d] = "resolved" => (d \in Executed /\ Fits(d, answer[d]))'
    BY <1>5, <2>1, <2>2, StillOnRecord
  <2> QED BY <2>1, <2>2, <2>3 DEF OnRecord
<1>8. MapsJustified'
  BY <1>1 DEF RpcInv, MapsJustified, StoreAsked
<1> QED BY <1>4, <1>6, <1>7, <1>8 DEF RpcInv

(* RpcInv is inductive.                                                    *)
LEMMA RpcInvStep == RpcInv /\ [RpcNext]_rpcVars => RpcInv'
<1> SUFFICES ASSUME RpcInv, [RpcNext]_rpcVars PROVE RpcInv'
  OBVIOUS
<1>1. ASSUME NEW c \in Calls, NEW r \in Requests, Send([x \in {c} |-> r])
      PROVE  RpcInv'
  BY <1>1, SendStep
<1>2. CASE RpcStep
  BY <1>2, RequestStep, ResponseStep, QuietStep DEF RpcStep
<1>3. CASE UNCHANGED rpcVars
  BY <1>3 DEF rpcVars, RpcInv, RpcTypeOK, Justified, OnRecord, Fits, MapsJustified, StoreAsked, Executed
<1> QED BY <1>1, <1>2, <1>3 DEF RpcNext

(* The variables keep their types.                                         *)
THEOREM RpcTypeCorrect == RpcSpec => []RpcTypeOK
<1>1. RpcInv => RpcTypeOK
  BY DEF RpcInv
<1> QED BY <1>1, RpcInitInv, RpcInvStep, PTL DEF RpcSpec

(* AnswersFit for any set of calls: no loss, repetition or delay of        *)
(* datagrams settles a call with what is not true of it.                   *)
THEOREM AnswersAlwaysFit == RpcSpec => []AnswersFit
<1>1. RpcInv => AnswersFit
  BY DEF RpcInv, OnRecord, Fits, AnswersFit
<1> QED BY <1>1, RpcInitInv, RpcInvStep, PTL DEF RpcSpec

(* What sendMessage and its events do is what RemoteCall allows.           *)
LEMMA SendIsInvoke ==
  ASSUME NEW reqs, DOMAIN reqs \subseteq Calls, Send(reqs)
  PROVE  Promise!Next
<1>1. Executed' = Executed
  BY DEF Send, Executed
<1>2. Promise!Invoke(DOMAIN reqs)
  BY <1>1 DEF Send, Promise!Invoke
<1> QED BY <1>2 DEF Promise!Next

LEMMA RpcStepIsRemote ==
  ASSUME RpcInv, RpcStep
  PROVE  Promise!Next \/ UNCHANGED <<status, Executed>>
<1>1. ASSUME NEW c \in Calls, SendCallback(c) \/ Timeout(c)
      PROVE  Promise!Next \/ UNCHANGED <<status, Executed>>
  BY <1>1 DEF SendCallback, Timeout, TimerRuns, Promise!Next, Promise!Fail, Executed
<1>2. ASSUME NEW m \in net, HandleRequest(m) PROVE Promise!Next
  <2>1. m.call \in Calls /\ status[m.call] # "unused"
    BY Fields DEF RpcInv, RpcTypeOK, Justified
  <2>2. Executed' = Executed \cup {m.call}
    <3>1. net' = net \cup {ResponseTo(m)}
      BY <1>2 DEF HandleRequest
    <3>2. ResponseTo(m).kind = "response" /\ ResponseTo(m).call = m.call
      BY DEF ResponseTo
    <3> QED BY <2>1, <3>1, <3>2 DEF Executed
  <2>3. Promise!Execute(m.call)
    BY <1>2, <2>1, <2>2 DEF HandleRequest, Promise!Execute
  <2> QED BY <2>1, <2>3 DEF Promise!Next
<1>3. ASSUME NEW m \in net, HandleResponse(m)
      PROVE  Promise!Next \/ UNCHANGED <<status, Executed>>
  <2>1. m.call \in Calls /\ m.call \in Executed /\ UNCHANGED Executed
    BY <1>3, Fields DEF RpcInv, RpcTypeOK, HandleResponse, Executed
  <2>2. Promise!Succeed(m.call) \/ UNCHANGED <<status, Executed>>
    BY <1>3, <2>1 DEF HandleResponse, Settles, Promise!Succeed
  <2> QED BY <2>1, <2>2 DEF Promise!Next
<1> QED BY <1>1, <1>2, <1>3 DEF RpcStep

LEMMA InitIsRemote == RpcInit => Promise!Init
  BY DEF RpcInit, Promise!Init, Executed

(* sendMessage keeps the promise of RemoteCall: a call settles at most     *)
(* once, and resolves only after its request was carried out.              *)
THEOREM CallsAreRemoteCalls == RpcSpec => ImplementsRemoteCall
<1>1. RpcInv /\ [RpcNext]_rpcVars => [Promise!Next]_<<status, Executed>>
  <2> SUFFICES ASSUME RpcInv, [RpcNext]_rpcVars
               PROVE  Promise!Next \/ UNCHANGED <<status, Executed>>
    OBVIOUS
  <2>1. ASSUME NEW c \in Calls, NEW r \in Requests, Send([x \in {c} |-> r])
        PROVE  Promise!Next
    BY <2>1, SendIsInvoke
  <2>2. CASE RpcStep
    BY <2>2, RpcStepIsRemote
  <2>3. CASE UNCHANGED rpcVars
    BY <2>3 DEF rpcVars, Executed
  <2> QED BY <2>1, <2>2, <2>3 DEF RpcNext
<1> QED BY <1>1, InitIsRemote, RpcInitInv, RpcInvStep, PTL
        DEF RpcSpec, ImplementsRemoteCall, Promise!Spec

-----------------------------------------------------------------------------
(* The operations.                                                         *)

(* The calls of o that exist are to the peers of its list; those beyond    *)
(* its chunk are unused, those made carry o's request, and every chunk     *)
(* before its own has a rejected call.                                     *)
LoopInv(o) ==
  /\ phase[o] = "idle" => at[o] = 0 /\ \A p \in Elements(List(o)) : status[<<o, p>>] = "unused"
  /\ phase[o] = "await" => Chunk(o, at[o]) # {}
  /\ \A i \in Nat : i > at[o] => \A p \in Chunk(o, i) : status[<<o, p>>] = "unused"
  /\ \A i \in Nat : i < at[o] => \E p \in Chunk(o, i) : status[<<o, p>>] = "rejected"
  /\ \A p \in Elements(List(o)) :
       status[<<o, p>>] # "unused" => request[<<o, p>>] = RequestOf(o, p)

(* An operation has a result only when it is done, and the calls the       *)
(* result was made from are resolved.                                      *)
ResultInv(o) ==
  /\ result[o] # "none" => phase[o] = "done"
  /\ result[o] = "stored" =>
       /\ Kind[o] = "store"
       /\ Chunk(o, at[o]) # {}
       /\ \A p \in Chunk(o, at[o]) : status[<<o, p>>] = "resolved"
  /\ result[o] \in Values =>
       /\ Kind[o] = "find"
       /\ First(o) \in Calls /\ status[First(o)] = "resolved"
       /\ answer[First(o)] = result[o]

OpInv(o) == LoopInv(o) /\ ResultInv(o)

ValuesInv == RpcInv /\ TypeOK /\ \A o \in Ops : OpInv(o)

-----------------------------------------------------------------------------
(* Chunks of a list.                                                       *)

LEMMA Division ==
  ASSUME NEW a \in Nat, NEW d \in Nat \ {0}
  PROVE  /\ a \div d \in Nat
         /\ (a \div d) * d =< a
         /\ a \div d =< a
<1>1. a \div d \in Nat /\ (a \div d) * d =< a
  OBVIOUS
<1>2. ASSUME NEW q \in Nat PROVE q =< q * d
  <2>1. q * d = q * (d - 1) + q
    OBVIOUS
  <2>2. q * (d - 1) \in Nat
    OBVIOUS
  <2> QED
    BY <2>1, <2>2
<1>3. (a \div d) =< (a \div d) * d
  BY <1>1, <1>2
<1>4. (a \div d) * d \in Nat
  BY <1>1
<1> QED
  BY <1>1, <1>3, <1>4

LEMMA Multiple ==
  ASSUME NEW q \in Nat, NEW d \in Nat \ {0}
  PROVE  q * d \in Nat /\ (q * d) \div d = q
OBVIOUS

LEMMA ListType ==
  ASSUME NEW o \in Ops
  PROVE  /\ List(o) \in Seq(Nodes) /\ Distinct(List(o))
         /\ Key(o) \in Keys /\ Value[o] \in Values /\ Kind[o] \in {"store", "find"}
         /\ \A p \in Elements(List(o)) : <<o, p>> \in Calls /\ p \in Nodes
<1>1. Key(o) \in Keys /\ Value[o] \in Values /\ Kind[o] \in {"store", "find"}
  BY OpsAssumption, HashAssumption DEF Key
<1>2. List(o) \in Seq(Nodes) /\ Distinct(List(o))
  BY <1>1, OpsAssumption, HashAssumption, PeersAssumption DEF List
<1>3. \A p \in Elements(List(o)) : p \in Nodes
  BY <1>2 DEF Elements
<1>4. \A p \in Elements(List(o)) : <<o, p>> \in Calls
  BY <1>3, CallsAssumption
<1> QED
  BY <1>1, <1>2, <1>3, <1>4

(* A peer is in one chunk, and a chunk with peers begins with the peer     *)
(* that findValue looks at and comes before the end of the list.           *)
LEMMA ChunkProperties ==
  ASSUME NEW o \in Ops, NEW i \in Nat
  PROVE  /\ Chunk(o, i) \subseteq Elements(List(o))
         /\ \A j \in Nat : i # j => Chunk(o, i) \cap Chunk(o, j) = {}
         /\ Chunk(o, i) # {} => /\ List(o)[i * ALPHA + 1] \in Chunk(o, i)
                                /\ i \in 0 .. Cardinality(Nodes)
<1> DEFINE s == List(o)
<1>1. s \in Seq(Nodes) /\ Distinct(s) /\ Len(s) \in Nat
  BY ListType
<1> HIDE DEF s
<1>2. \A j : Chunk(o, j) = {s[k] : k \in {l \in 1 .. Len(s) : (l - 1) \div ALPHA = j}}
  BY DEF Chunk, s
<1>3. Chunk(o, i) \subseteq Elements(s)
  BY <1>2 DEF Elements
<1>4. ASSUME NEW j \in Nat, i # j PROVE Chunk(o, i) \cap Chunk(o, j) = {}
  <2> SUFFICES ASSUME NEW k \in 1 .. Len(s), (k - 1) \div ALPHA = i,
                      NEW l \in 1 .. Len(s), (l - 1) \div ALPHA = j, s[k] = s[l]
               PROVE  FALSE
    BY <1>2
  <2>1. k = l
    BY <1>1 DEF Distinct
  <2> QED
    BY <1>4, <2>1
<1>5. ASSUME Chunk(o, i) # {}
      PROVE  s[i * ALPHA + 1] \in Chunk(o, i) /\ i \in 0 .. Cardinality(Nodes)
  <2>1. PICK k \in 1 .. Len(s) : (k - 1) \div ALPHA = i
    BY <1>2, <1>5
  <2>2. k - 1 \in Nat /\ i * ALPHA =< k - 1 /\ i =< k - 1 /\ i * ALPHA \in Nat
    BY <2>1, Division, Multiple, AlphaAssumption
  <2>3. i * ALPHA + 1 \in 1 .. Len(s) /\ (i * ALPHA + 1) - 1 = i * ALPHA
    BY <1>1, <2>2
  <2>4. (i * ALPHA) \div ALPHA = i
    BY Multiple, AlphaAssumption
  <2>5. Len(s) =< Cardinality(Nodes) /\ Cardinality(Nodes) \in Nat
    <3>1. IsFiniteSet(Elements(s)) /\ Cardinality(Elements(s)) = Len(s)
      BY <1>1, DistinctCardinality
    <3>2. Elements(s) \in SUBSET Nodes
      BY <1>1 DEF Elements
    <3> QED
      BY <3>1, <3>2, NodesAssumption, FS_Subset, FS_CardinalityType
  <2>6. s[i * ALPHA + 1] \in Chunk(o, i)
    BY <1>2, <2>3, <2>4
  <2> QED
    BY <1>1, <2>2, <2>5, <2>6
<1> QED
  BY <1>3, <1>4, <1>5 DEF s

-----------------------------------------------------------------------------
(* Steps.                                                                  *)

(* What a step leaves true of the calls of o if o makes none in it.        *)
Settled(c) == status[c] \in {"resolved", "rejected"}

CallStable(c) ==
  /\ request'[c] = request[c]
  /\ status'[c] = "unused" <=> status[c] = "unused"
  /\ Settled(c) => status'[c] = status[c] /\ answer'[c] = answer[c]

LEMMA RpcStepStable ==
  ASSUME RpcInv, RpcStep
  PROVE  RpcInv' /\ \A c \in Calls : CallStable(c)
<1>1. RpcInv'
  BY RequestStep, ResponseStep, QuietStep DEF RpcStep
<1>2. ASSUME NEW d \in Calls, SendCallback(d) \/ Timeout(d) PROVE \A c \in Calls : CallStable(c)
  BY <1>2 DEF SendCallback, Timeout, TimerRuns, CallStable, Settled, RpcInv, RpcTypeOK
<1>3. ASSUME NEW m \in net, HandleRequest(m) PROVE \A c \in Calls : CallStable(c)
  BY <1>3 DEF HandleRequest, CallStable
<1>4. ASSUME NEW m \in net, HandleResponse(m) PROVE \A c \in Calls : CallStable(c)
  <2>1. m.call \in Calls
    BY Fields DEF RpcInv, RpcTypeOK
  <2>2. request' = request
    BY <1>4 DEF HandleResponse
  <2>3. \/ status' = status /\ answer' = answer
        \/ /\ status[m.call] = "pending"
           /\ status' = [status EXCEPT ![m.call] = "resolved"]
           /\ answer' = [answer EXCEPT ![m.call] = m.result]
    BY <1>4 DEF HandleResponse, Settles
  <2> QED
    BY <2>1, <2>2, <2>3 DEF CallStable, Settled, RpcInv, RpcTypeOK
<1> QED
  BY <1>1, <1>2, <1>3, <1>4 DEF RpcStep

(* An operation that does not move keeps its invariant.                    *)
LEMMA OpStable ==
  ASSUME NEW o \in Ops, OpInv(o), at[o] \in Nat,
         phase'[o] = phase[o], at'[o] = at[o], result'[o] = result[o],
         \A p \in Elements(List(o)) : CallStable(<<o, p>>)
  PROVE  OpInv(o)'
<1>1. \A i \in Nat : Chunk(o, i) \subseteq Elements(List(o))
  BY ChunkProperties
<1>2. \A i : Chunk(o, i)' = Chunk(o, i)
  BY DEF Chunk, List, Key
<1>3. List(o)' = List(o) /\ \A p : RequestOf(o, p)' = RequestOf(o, p)
  BY DEF List, Key, RequestOf
<1>4. LoopInv(o)'
  BY <1>1, <1>2, <1>3 DEF OpInv, LoopInv, CallStable, Settled
<1>5. First(o)' = First(o)
  BY DEF First, List, Key
<1>6. ResultInv(o)'
  <2>1. CASE result[o] \in Values
    <3>1. First(o) \in Calls /\ status[First(o)] = "resolved" /\ answer[First(o)] = result[o]
      BY <2>1 DEF OpInv, ResultInv
    <3>2. PICK p \in Elements(List(o)) : First(o) = <<o, p>>
      BY <3>1, CallsAssumption DEF First
    <3>3. status'[First(o)] = "resolved" /\ answer'[First(o)] = result[o]
      BY <3>1, <3>2 DEF CallStable, Settled
    <3> QED
      BY <2>1, <3>1, <3>3, <1>5, ResultsAssumption, ValuesAssumption DEF OpInv, ResultInv
  <2>2. CASE result[o] \notin Values
    BY <2>2, <1>1, <1>2 DEF OpInv, ResultInv, CallStable, Settled
  <2> QED
    BY <2>1, <2>2
<1> QED
  BY <1>4, <1>6 DEF OpInv

LEMMA RpcUnchanged ==
  ASSUME RpcInv, UNCHANGED rpcVars
  PROVE  RpcInv' /\ \A c : CallStable(c)
<1>1. RpcInv'
  BY RpcInvStep
<1>2. \A c : CallStable(c)
  BY DEF rpcVars, CallStable
<1> QED
  BY <1>1, <1>2

(* What TypeOK and the invariants say of one operation.                    *)
LEMMA OpFacts ==
  ASSUME ValuesInv, NEW o \in Ops
  PROVE  /\ at[o] \in Nat /\ OpInv(o) /\ RpcInv
         /\ phase[o] # "done" => result[o] = "none"
<1>1. at[o] \in 0 .. Cardinality(Nodes) /\ OpInv(o) /\ RpcInv
  BY DEF ValuesInv, TypeOK
<1>2. at[o] \in Nat
  BY <1>1
<1> QED
  BY <1>1, <1>2 DEF OpInv, ResultInv

(* Only o moves, so the others keep their invariants.                      *)
LEMMA OneOpMoves ==
  ASSUME ValuesInv, NEW o \in Ops, RpcInv',
         \A q \in Ops \ {o} :
           /\ phase'[q] = phase[q] /\ at'[q] = at[q] /\ result'[q] = result[q]
           /\ \A p \in Elements(List(q)) : CallStable(<<q, p>>),
         phase' \in [Ops -> {"idle", "await", "done"}],
         at' \in [Ops -> 0 .. Cardinality(Nodes)],
         result' \in [Ops -> {"none", "stored", "null"} \cup Values],
         OpInv(o)'
  PROVE  ValuesInv'
<1>1. ASSUME NEW q \in Ops \ {o} PROVE OpInv(q)'
  BY OpFacts, OpStable
<1>2. TypeOK'
  BY DEF TypeOK, RpcInv
<1> QED
  BY <1>1, <1>2 DEF ValuesInv

(* The loop is over, or fetch has failed: no result.                       *)
LEMMA EndsWithoutResult ==
  ASSUME ValuesInv, NEW o \in Ops, phase[o] # "done",
         phase' = [phase EXCEPT ![o] = "done"], UNCHANGED <<rpcVars, at, result>>
  PROVE  ValuesInv'
<1>1. OpInv(o) /\ RpcInv /\ result[o] = "none"
  BY OpFacts
<1>2. RpcInv' /\ \A c : CallStable(c)
  BY <1>1, RpcUnchanged
<1>3. /\ phase' \in [Ops -> {"idle", "await", "done"}] /\ phase'[o] = "done"
      /\ \A q \in Ops \ {o} : phase'[q] = phase[q]
  BY DEF ValuesInv, TypeOK
<1>4. LoopInv(o)'
  BY <1>1, <1>3 DEF OpInv, LoopInv, rpcVars, Chunk, List, Key, RequestOf
<1>5. ResultInv(o)'
  BY <1>1, ValuesAssumption DEF ResultInv
<1> QED
  BY <1>2, <1>3, <1>4, <1>5, OneOpMoves DEF ValuesInv, TypeOK, OpInv

(* A chunk is asked: the first, or the next after a rejection.             *)
LEMMA AsksChunk ==
  ASSUME ValuesInv, NEW o \in Ops, NEW i \in Nat, Chunk(o, i) # {}, EnterChunk(o, i),
         \/ phase[o] = "idle" /\ i = 0
         \/ phase[o] = "await" /\ SomeRejected(o) /\ i = at[o] + 1
  PROVE  ValuesInv'
<1> DEFINE D == {<<o, p>> : p \in Chunk(o, i)}
           reqs == [c \in D |-> RequestOf(o, c[2])]
<1>1. at[o] \in Nat /\ OpInv(o) /\ RpcInv /\ result[o] = "none"
  BY OpFacts
<1>2. Chunk(o, i) \subseteq Elements(List(o)) /\ i \in 0 .. Cardinality(Nodes)
  BY ChunkProperties
<1>3. /\ phase' = [phase EXCEPT ![o] = "await"] /\ at' = [at EXCEPT ![o] = i]
      /\ Send(reqs) /\ result' = result
  BY DEF EnterChunk
<1>4. DOMAIN reqs = D /\ D \subseteq Calls
  BY <1>2, ListType
<1>5. ASSUME NEW c \in D PROVE reqs[c] \in Requests
  <2>1. PICK p \in Chunk(o, i) : c = <<o, p>>
    OBVIOUS
  <2>2. reqs[c] = RequestOf(o, p) /\ p \in Nodes
    BY <1>2, <2>1, ListType
  <2>3. Key(o) \in Keys /\ Value[o] \in Values /\ Kind[o] \in {"store", "find"}
    BY ListType
  <2> HIDE DEF reqs
  <2> QED
    BY <2>2, <2>3 DEF RequestOf, Requests, Types
<1>6. /\ \A c \in D : status[c] = "unused" /\ status'[c] = "pending" /\ request'[c] = reqs[c]
      /\ \A c \in Calls \ D : status'[c] = status[c] /\ request'[c] = request[c]
      /\ answer' = answer
  BY <1>3, <1>4 DEF Send
<1>7. \A p \in Chunk(o, i) : <<o, p>> \in D /\ reqs[<<o, p>>] = RequestOf(o, p)
  OBVIOUS
<1>8. \A p \in Elements(List(o)) \ Chunk(o, i) : <<o, p>> \in Calls \ D
  BY ListType
<1>9. \A q \in Ops \ {o} : \A p \in Elements(List(q)) : <<q, p>> \in Calls \ D
  BY ListType
<1> HIDE DEF reqs
<1>10. RpcInv'
  BY <1>1, <1>3, <1>4, <1>5, SendStep
<1> HIDE DEF D
<1>11. /\ phase' \in [Ops -> {"idle", "await", "done"}] /\ phase'[o] = "await"
       /\ at' \in [Ops -> 0 .. Cardinality(Nodes)] /\ at'[o] = i
       /\ result' \in [Ops -> {"none", "stored", "null"} \cup Values]
       /\ \A q \in Ops \ {o} : phase'[q] = phase[q] /\ at'[q] = at[q] /\ result'[q] = result[q]
  BY <1>2, <1>3 DEF ValuesInv, TypeOK
<1>12. \A q \in Ops \ {o} : \A p \in Elements(List(q)) : CallStable(<<q, p>>)
  BY <1>6, <1>9 DEF CallStable
<1>13. \A j : Chunk(o, j)' = Chunk(o, j)
  BY DEF Chunk, List, Key
<1>14. \A p \in Elements(List(o)) : status[<<o, p>>] = "rejected" => status'[<<o, p>>] = "rejected"
  BY <1>6, <1>7, <1>8
<1>15. LoopInv(o)'
  <2>1. ASSUME NEW j \in Nat, j > i, NEW p \in Chunk(o, j) PROVE status'[<<o, p>>] = "unused"
    <3>1. p \in Elements(List(o)) \ Chunk(o, i)
      BY <2>1, ChunkProperties
    <3>2. j > at[o]
      BY <1>1, <2>1 DEF OpInv, LoopInv
    <3> QED
      BY <1>1, <1>6, <1>8, <3>1, <3>2 DEF OpInv, LoopInv
  <2>2. ASSUME NEW j \in Nat, j < i PROVE \E p \in Chunk(o, j) : status'[<<o, p>>] = "rejected"
    <3>1. phase[o] = "await" /\ SomeRejected(o) /\ (j < at[o] \/ j = at[o])
      BY <1>1, <2>2
    <3>2. \E p \in Chunk(o, j) : status[<<o, p>>] = "rejected"
      BY <1>1, <3>1 DEF OpInv, LoopInv, SomeRejected, ChunkCalls
    <3>3. Chunk(o, j) \subseteq Elements(List(o))
      BY ChunkProperties
    <3> QED
      BY <1>14, <3>2, <3>3
  <2>3. ASSUME NEW p \in Elements(List(o)), status'[<<o, p>>] # "unused"
        PROVE  request'[<<o, p>>] = RequestOf(o, p)
    BY <1>1, <1>6, <1>7, <1>8, <2>3 DEF OpInv, LoopInv
  <2>4. List(o)' = List(o) /\ \A p : RequestOf(o, p)' = RequestOf(o, p)
    BY DEF List, Key, RequestOf
  <2> QED
    BY <1>11, <1>13, <2>1, <2>2, <2>3, <2>4 DEF LoopInv
<1>16. ResultInv(o)'
  BY <1>1, <1>3, ValuesAssumption DEF ResultInv
<1> QED
  BY <1>10, <1>11, <1>12, <1>15, <1>16, OneOpMoves DEF OpInv

(* Promise.all has resolved: the operation takes its result.               *)
LEMMA TakesResult ==
  ASSUME ValuesInv, NEW o \in Ops, ChunkDone(o)
  PROVE  ValuesInv'
<1> DEFINE i == at[o]
<1>1. i \in Nat /\ OpInv(o) /\ RpcInv /\ phase[o] = "await"
  BY OpFacts DEF ChunkDone
<1>2. RpcInv' /\ \A c : CallStable(c)
  BY <1>1, RpcUnchanged DEF ChunkDone
<1>3. Chunk(o, i) # {} /\ \A p \in Chunk(o, i) : status[<<o, p>>] = "resolved"
  BY <1>1 DEF OpInv, LoopInv, ChunkDone, AllResolved, ChunkCalls
<1>4. List(o)[i * ALPHA + 1] \in Chunk(o, i) /\ Chunk(o, i) \subseteq Elements(List(o))
  BY <1>1, <1>3, ChunkProperties
<1>5. First(o) \in Calls /\ status[First(o)] = "resolved"
  BY <1>3, <1>4, ListType DEF First
<1>6. Returned(o) \in {"stored", "null"} \cup Values
  BY DEF Returned
<1>7. /\ phase' \in [Ops -> {"idle", "await", "done"}] /\ phase'[o] = "done"
      /\ result' \in [Ops -> {"none", "stored", "null"} \cup Values] /\ result'[o] = Returned(o)
      /\ at' = at /\ at \in [Ops -> 0 .. Cardinality(Nodes)]
      /\ \A q \in Ops \ {o} : phase'[q] = phase[q] /\ result'[q] = result[q]
  BY <1>6 DEF ValuesInv, TypeOK, ChunkDone
<1>8. LoopInv(o)'
  BY <1>1, <1>7 DEF ChunkDone, OpInv, LoopInv, rpcVars, Chunk, List, Key, RequestOf
<1>9. ResultInv(o)'
  <2>1. Returned(o) = "stored" => Kind[o] = "store"
    BY ResultsAssumption DEF Returned
  <2>2. Returned(o) \in Values => Kind[o] = "find" /\ answer[First(o)] = Returned(o)
    BY ResultsAssumption, ListType DEF Returned
  <2>3. Chunk(o, i)' = Chunk(o, i) /\ First(o)' = First(o) /\ UNCHANGED <<status, answer>>
    BY <1>7 DEF ChunkDone, rpcVars, First, Chunk, List, Key
  <2>4. at'[o] = i
    BY <1>7
  <2> HIDE DEF i
  <2> QED
    BY <1>3, <1>5, <1>7, <2>1, <2>2, <2>3, <2>4 DEF ResultInv
<1> QED
  BY <1>2, <1>7, <1>8, <1>9, OneOpMoves DEF OpInv

LEMMA ValuesInvInit == Init => ValuesInv
<1> SUFFICES ASSUME Init PROVE ValuesInv
  OBVIOUS
<1>1. RpcInv
  BY RpcInitInv DEF Init
<1>2. 0 \in 0 .. Cardinality(Nodes)
  BY NodesAssumption, FS_CardinalityType
<1>3. TypeOK
  BY <1>1, <1>2 DEF Init, TypeOK, RpcInv
<1>4. ASSUME NEW o \in Ops PROVE OpInv(o)
  <2>1. \A p \in Elements(List(o)) : status[<<o, p>>] = "unused"
    BY ListType DEF Init, RpcInit
  <2>2. \A i \in Nat : Chunk(o, i) \subseteq Elements(List(o))
    BY ChunkProperties
  <2>3. phase[o] = "idle" /\ at[o] = 0 /\ result[o] = "none"
    BY DEF Init
  <2>4. LoopInv(o)
    BY <2>1, <2>2, <2>3 DEF LoopInv
  <2> QED
    BY <2>3, <2>4, ValuesAssumption DEF OpInv, ResultInv
<1> QED
  BY <1>1, <1>3, <1>4 DEF ValuesInv

(* ValuesInv is inductive.                                                 *)
LEMMA ValuesInvStep == ValuesInv /\ [Next]_vars => ValuesInv'
<1> SUFFICES ASSUME ValuesInv, [Next]_vars PROVE ValuesInv'
  OBVIOUS
<1>1. ASSUME NEW o \in Ops, NEW i \in Nat, EnterChunk(o, i),
             \/ phase[o] = "idle" /\ i = 0
             \/ phase[o] = "await" /\ SomeRejected(o) /\ i = at[o] + 1
      PROVE  ValuesInv'
  <2>1. CASE Chunk(o, i) = {}
    BY <1>1, <2>1, EndsWithoutResult DEF EnterChunk
  <2>2. CASE Chunk(o, i) # {}
    BY <1>1, <2>2, AsksChunk
  <2> QED
    BY <2>1, <2>2
<1>2. ASSUME NEW o \in Ops, Begin(o) PROVE ValuesInv'
  BY <1>1, <1>2 DEF Begin
<1>3. ASSUME NEW o \in Ops, FetchFails(o) PROVE ValuesInv'
  BY <1>3, EndsWithoutResult DEF FetchFails
<1>4. ASSUME NEW o \in Ops, ChunkDone(o) PROVE ValuesInv'
  BY <1>4, TakesResult
<1>5. ASSUME NEW o \in Ops, ChunkFailed(o) PROVE ValuesInv'
  <2>1. at[o] + 1 \in Nat
    BY OpFacts
  <2> QED
    BY <1>1, <1>5, <2>1 DEF ChunkFailed
<1>6. ASSUME RpcInv', \A c \in Calls : CallStable(c), UNCHANGED opVars PROVE ValuesInv'
  <2>1. ASSUME NEW o \in Ops PROVE OpInv(o)'
    <3>1. \A p \in Elements(List(o)) : CallStable(<<o, p>>)
      BY <1>6, ListType
    <3> QED
      BY <1>6, <3>1, OpFacts, OpStable DEF opVars
  <2>2. TypeOK'
    BY <1>6 DEF ValuesInv, TypeOK, RpcInv, opVars
  <2> QED
    BY <1>6, <2>1, <2>2 DEF ValuesInv
<1>7. CASE RpcStep /\ UNCHANGED opVars
  BY <1>6, <1>7, RpcStepStable DEF ValuesInv
<1>8. CASE UNCHANGED vars
  BY <1>6, <1>8, RpcUnchanged DEF ValuesInv, vars
<1> QED
  BY <1>2, <1>3, <1>4, <1>5, <1>7, <1>8 DEF Next

LEMMA ValuesInvariant == Spec => []ValuesInv
  BY ValuesInvInit, ValuesInvStep, PTL DEF Spec

-----------------------------------------------------------------------------
(* Theorems.                                                               *)

(* The variables keep their types, and no operation returns a list of      *)
(* peers.                                                                  *)
THEOREM TypeCorrect == Spec => []TypeOK
<1>1. ValuesInv => TypeOK
  BY DEF ValuesInv
<1> QED
  BY <1>1, ValuesInvariant, PTL

(* What UdpRpc promises of answers holds of the calls that store and       *)
(* findValue make.                                                         *)
THEOREM AnswersFitHere == Spec => []AnswersFit
<1>1. ValuesInv => AnswersFit
  BY DEF ValuesInv, RpcInv, OnRecord, Fits, AnswersFit
<1> QED
  BY <1>1, ValuesInvariant, PTL

(* A store that returned acknowledgements has left a value under the key   *)
(* at every peer of a chunk.                                               *)
THEOREM AcksAreTrue == Spec => []AckMeansStored
<1>1. ASSUME ValuesInv, NEW o \in Ops, result[o] = "stored", NEW p \in Chunk(o, at[o])
      PROVE  store[p][Key(o)] # Missing
  <2>1. OpInv(o) /\ RpcInv /\ at[o] \in Nat
    BY <1>1, OpFacts
  <2>2. p \in Elements(List(o))
    BY <1>1, <2>1, ChunkProperties
  <2>3. Kind[o] = "store" /\ status[<<o, p>>] = "resolved"
    BY <1>1, <2>1 DEF OpInv, ResultInv
  <2>4. request[<<o, p>>] = RequestOf(o, p) /\ <<o, p>> \in Calls
    BY <2>1, <2>2, <2>3, ListType DEF OpInv, LoopInv
  <2>5. Fits(<<o, p>>, answer[<<o, p>>])
    BY <2>1, <2>3, <2>4 DEF RpcInv, OnRecord
  <2> QED
    BY <2>3, <2>4, <2>5 DEF Fits, RequestOf
<1>2. ValuesInv => AckMeansStored
  BY <1>1 DEF AckMeansStored, ValuesInv, OpInv, ResultInv
<1> QED
  BY <1>2, ValuesInvariant, PTL

(* A find returns only what some store has been asked to store, under the  *)
(* key looked for and at the peer whose answer was taken.                  *)
THEOREM FindsAreStored == Spec => []FoundWasStored
<1>1. ASSUME ValuesInv, NEW o \in Ops, result[o] \in Values
      PROVE  /\ Kind[o] = "find"
             /\ \E s \in Ops :
                  /\ Kind[s] = "store" /\ Value[s] = result[o] /\ Key(s) = Key(o)
                  /\ \E c \in Calls : c = <<s, First(o)[2]>> /\ status[c] # "unused"
  <2> DEFINE c == First(o)
             p == c[2]
  <2>1. OpInv(o) /\ RpcInv
    BY <1>1, OpFacts
  <2>2. Kind[o] = "find" /\ c \in Calls /\ status[c] = "resolved" /\ answer[c] = result[o]
    BY <1>1, <2>1 DEF OpInv, ResultInv
  <2>3. c = <<o, p>> /\ p \in Elements(List(o))
    BY <2>2, CallsAssumption DEF First
  <2> HIDE DEF c, p
  <2>4. request[c] = RequestOf(o, p)
    BY <2>1, <2>2, <2>3 DEF OpInv, LoopInv
  <2>5. Fits(c, result[o])
    BY <2>1, <2>2 DEF RpcInv, OnRecord
  <2>6. StoreAsked(p, Key(o), result[o])
    BY <1>1, <2>4, <2>5 DEF Fits, RequestOf
  <2>7. PICK d \in Calls :
          request[d] = [type |-> "STORE", to |-> p, key |-> Key(o), value |-> result[o]]
    BY <2>6 DEF StoreAsked
  <2>8. status[d] # "unused"
    <3>1. request[d].type = "STORE"
      BY <2>7
    <3>2. request[d] # NoRequest
      BY <3>1 DEF NoRequest
    <3> QED
      BY <2>1, <3>2 DEF RpcInv, OnRecord
  <2>9. PICK s \in Ops : \E q \in Elements(List(s)) : d = <<s, q>>
    BY CallsAssumption
  <2>10. PICK q \in Elements(List(s)) : d = <<s, q>>
    BY <2>9
  <2>11. request[d] = RequestOf(s, q)
    BY <1>1, <2>8, <2>10 DEF ValuesInv, OpInv, LoopInv
  <2>12. /\ RequestOf(s, q).type = "STORE" /\ RequestOf(s, q).to = p
         /\ RequestOf(s, q).key = Key(o) /\ RequestOf(s, q).value = result[o]
    BY <2>7, <2>11
  <2>13. Kind[s] = "store" /\ q = p /\ Key(s) = Key(o) /\ Value[s] = result[o]
    BY <2>12 DEF RequestOf
  <2> QED
    BY <2>2, <2>8, <2>10, <2>13 DEF c, p
<1>2. ValuesInv => FoundWasStored
  BY <1>1 DEF FoundWasStored
<1> QED
  BY <1>2, ValuesInvariant, PTL

(* A peer beyond a chunk is asked only after a peer of that chunk failed.  *)
THEOREM ChunksInTurn == Spec => []ChunkAfterFailure
<1>1. ASSUME ValuesInv, NEW o \in Ops, NEW i \in 0 .. Cardinality(Nodes),
             NEW p \in Chunk(o, i + 1), status[<<o, p>>] # "unused"
      PROVE  \E q \in Chunk(o, i) : status[<<o, q>>] = "rejected"
  <2>1. i \in Nat /\ i + 1 \in Nat /\ at[o] \in Nat /\ LoopInv(o)
    BY <1>1, OpFacts DEF OpInv
  <2>2. ~ (i + 1 > at[o])
    BY <1>1, <2>1 DEF LoopInv
  <2>3. i < at[o]
    BY <2>1, <2>2
  <2> QED
    BY <2>1, <2>3 DEF LoopInv
<1>2. ValuesInv => ChunkAfterFailure
  BY <1>1 DEF ChunkAfterFailure
<1> QED
  BY <1>2, ValuesInvariant, PTL

(* The calls of store and findValue, which sendManyUdp makes together,     *)
(* keep the promise of RemoteCall.                                         *)
THEOREM ChunksAreRemoteCalls == Spec => ImplementsRemoteCall
<1>1. Init => Promise!Init
  BY InitIsRemote DEF Init
<1>2. ValuesInv /\ [Next]_vars => [Promise!Next]_<<status, Executed>>
  <2> SUFFICES ASSUME ValuesInv, [Next]_vars
               PROVE  Promise!Next \/ UNCHANGED <<status, Executed>>
    OBVIOUS
  <2>1. ASSUME NEW o \in Ops, NEW i \in Nat, EnterChunk(o, i)
        PROVE  Promise!Next \/ UNCHANGED <<status, Executed>>
    <3>1. CASE Chunk(o, i) = {}
      BY <2>1, <3>1 DEF EnterChunk, rpcVars, Executed
    <3>2. CASE Chunk(o, i) # {}
      <4> DEFINE D == {<<o, p>> : p \in Chunk(o, i)}
                 reqs == [c \in D |-> RequestOf(o, c[2])]
      <4>1. D \subseteq Calls
        BY ChunkProperties, ListType
      <4>2. Send(reqs)
        BY <2>1, <3>2 DEF EnterChunk
      <4>3. DOMAIN reqs = D
        OBVIOUS
      <4> HIDE DEF reqs, D
      <4> QED
        BY <4>1, <4>2, <4>3, SendIsInvoke
    <3> QED
      BY <3>1, <3>2
  <2>2. ASSUME NEW o \in Ops, Begin(o) \/ ChunkFailed(o)
        PROVE  Promise!Next \/ UNCHANGED <<status, Executed>>
    <3>1. at[o] + 1 \in Nat
      BY OpFacts
    <3> QED
      BY <2>1, <2>2, <3>1 DEF Begin, ChunkFailed
  <2>3. ASSUME NEW o \in Ops, FetchFails(o) \/ ChunkDone(o) PROVE UNCHANGED <<status, Executed>>
    BY <2>3 DEF FetchFails, ChunkDone, rpcVars, Executed
  <2>4. CASE RpcStep
    BY <2>4, RpcStepIsRemote DEF ValuesInv
  <2>5. CASE UNCHANGED vars
    BY <2>5 DEF vars, rpcVars, Executed
  <2> QED
    BY <2>2, <2>3, <2>4, <2>5 DEF Next
<1> QED
  BY <1>1, <1>2, ValuesInvariant, PTL DEF Spec, ImplementsRemoteCall, Promise!Spec

=============================================================================
