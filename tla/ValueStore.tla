----------------------------- MODULE ValueStore -----------------------------
(***************************************************************************)
(* Storing and finding values: KademliaNode.store and findValue, each a    *)
(* loop over chunks of ALPHA peers whose requests go out at once over      *)
(* UdpRpc.                                                                 *)
(*                                                                         *)
(* An operation stands for one HTTP request to a node.  The routing tables *)
(* are settled: Peers[n] is getAllPeers of node n, which may name n        *)
(* itself.  The call of operation o to node p is <<o, p>>; a list of peers *)
(* has no duplicates, so there is at most one.                             *)
(***************************************************************************)
EXTENDS UdpRpc, Lists

CONSTANTS
  ALPHA,
  Ops,      \* the operations of the instance
  Kind,     \* operation -> "store" or "find"
  At,       \* operation -> the node that runs it
  Value,    \* operation -> the value stored or looked for
  Hash,     \* hashKeyAndmapToKeyspace: value -> key
  Home,     \* key -> the node whose id the key is
  Peers     \* node -> list of peers

ASSUME AlphaAssumption == ALPHA \in Nat \ {0}
ASSUME NodesAssumption == IsFiniteSet(Nodes)
ASSUME OpsAssumption ==
  Kind \in [Ops -> {"store", "find"}] /\ At \in [Ops -> Nodes] /\ Value \in [Ops -> Values]
ASSUME HashAssumption == Hash \in [Values -> Keys] /\ Home \in [Keys -> Nodes]
ASSUME ResultsAssumption == Values \cap {"stored", "null"} = {}
ASSUME PeersAssumption ==
  \A n \in Nodes : Peers[n] \in Seq(Nodes) /\ Distinct(Peers[n])

VARIABLES
  phase,   \* of each operation: "idle", "await" a chunk, "done"
  at,      \* the chunk, counted from 0
  result   \* what it returns: "none" is undefined, "null" is null

opVars == <<phase, at, result>>
vars == <<rpcVars, opVars>>

-----------------------------------------------------------------------------

Key(o) == Hash[Value[o]]

(* store works from the peers of its own node, findValue from those of the *)
(* node whose id is the key, which it asks over HTTP.                      *)
List(o) == IF Kind[o] = "store" THEN Peers[At[o]] ELSE Peers[Home[Key(o)]]

ASSUME CallsAssumption == Calls = {c \in Ops \X Nodes : c[2] \in Elements(List(c[1]))}

(* chunk(list, ALPHA)[i], empty past the end of the list.                  *)
Chunk(o, i) ==
  {List(o)[j] : j \in {k \in 1 .. Len(List(o)) : (k - 1) \div ALPHA = i}}

ChunkCalls(o) == {<<o, p>> : p \in Chunk(o, at[o])}

(* The first node of a chunk: findValue looks at its result only.          *)
First(o) == <<o, List(o)[at[o] * ALPHA + 1]>>

RequestOf(o, p) ==
  [type |-> IF Kind[o] = "store" THEN "STORE" ELSE "FIND_VALUE",
   to |-> p, key |-> Key(o), value |-> IF Kind[o] = "store" THEN Value[o] ELSE Missing]

(* The loop reaches chunk i: its requests go out, or the loop is over and  *)
(* the operation returns undefined.                                        *)
EnterChunk(o, i) ==
  IF Chunk(o, i) = {}
    THEN /\ phase' = [phase EXCEPT ![o] = "done"]
         /\ UNCHANGED <<rpcVars, at, result>>
    ELSE /\ phase' = [phase EXCEPT ![o] = "await"]
         /\ at' = [at EXCEPT ![o] = i]
         /\ Send([c \in {<<o, p>> : p \in Chunk(o, i)} |-> RequestOf(o, c[2])])
         /\ UNCHANGED result

Begin(o) == phase[o] = "idle" /\ EnterChunk(o, 0)

(* fetch of the home node's peers fails: findValue throws.                 *)
FetchFails(o) ==
  /\ phase[o] = "idle"
  /\ Kind[o] = "find"
  /\ phase' = [phase EXCEPT ![o] = "done"]
  /\ UNCHANGED <<rpcVars, at, result>>

(* Mutant of AllResolved: Promise.any instead of Promise.all.              *)
SomeResolved(o) == \E c \in ChunkCalls(o) : status[c] = "resolved"

AllResolved(o) == \A c \in ChunkCalls(o) : status[c] = "resolved"

(* Mutant of Returned: without the test `typeof result === "string"`.      *)
ReturnedUntested(o) == IF Kind[o] = "store" THEN "stored" ELSE answer[First(o)]

(* Mutant of Returned: the value that was looked for.                      *)
ReturnedSought(o) ==
  IF Kind[o] = "store" THEN "stored"
  ELSE IF answer[First(o)] \in Values THEN Value[o] ELSE "null"

(* store returns the acknowledgements, findValue the first peer's value.   *)
Returned(o) ==
  IF Kind[o] = "store" THEN "stored"
  ELSE IF answer[First(o)] \in Values THEN answer[First(o)] ELSE "null"

(* Promise.all resolves, and both loops return in their first pass.        *)
ChunkDone(o) ==
  /\ phase[o] = "await"
  /\ AllResolved(o)
  /\ phase' = [phase EXCEPT ![o] = "done"]
  /\ result' = [result EXCEPT ![o] = Returned(o)]
  /\ UNCHANGED <<rpcVars, at>>

(* Mutant of SomeRejected: goes on while requests are unanswered.          *)
SomeUnresolved(o) == \E c \in ChunkCalls(o) : status[c] # "resolved"

(* Mutant of SomeRejected: Promise.any instead of Promise.all.             *)
AllRejected(o) == \A c \in ChunkCalls(o) : status[c] = "rejected"

SomeRejected(o) == \E c \in ChunkCalls(o) : status[c] = "rejected"

(* Promise.all rejects with the first rejection, whatever becomes of the   *)
(* other requests: the error is printed and the loop goes on.              *)
ChunkFailed(o) ==
  /\ phase[o] = "await"
  /\ SomeRejected(o)
  /\ EnterChunk(o, at[o] + 1)

-----------------------------------------------------------------------------

Init ==
  /\ RpcInit
  /\ phase = [o \in Ops |-> "idle"]
  /\ at = [o \in Ops |-> 0]
  /\ result = [o \in Ops |-> "none"]

Next ==
  \/ \E o \in Ops : Begin(o) \/ FetchFails(o) \/ ChunkDone(o) \/ ChunkFailed(o)
  \/ RpcStep /\ UNCHANGED opVars

Spec == Init /\ [][Next]_vars

(* The event loop resumes an operation whose promise has settled, and      *)
(* setTimeout fires.                                                       *)
Fairness ==
  /\ \A o \in Ops : WF_vars(ChunkDone(o)) /\ WF_vars(ChunkFailed(o))
  /\ \A c \in Calls : WF_vars(Timeout(c) /\ UNCHANGED opVars)

FairSpec == Spec /\ Fairness

-----------------------------------------------------------------------------
(* Properties.                                                             *)

(* Every variable keeps its shape; in particular an operation returns      *)
(* acknowledgements, a value or null, never a list of peers.               *)
TypeOK ==
  /\ RpcTypeOK
  /\ phase \in [Ops -> {"idle", "await", "done"}]
  /\ at \in [Ops -> 0 .. Cardinality(Nodes)]
  /\ result \in [Ops -> {"none", "stored", "null"} \cup Values]

(* A store that returned a result has reached every peer of a chunk: each  *)
(* of them holds a value under the key.                                    *)
AckMeansStored ==
  \A o \in Ops : result[o] = "stored" =>
    /\ Chunk(o, at[o]) # {}
    /\ \A p \in Chunk(o, at[o]) : store[p][Key(o)] # Missing

(* A find returns only a value that a store has been asked to store, under *)
(* the key that was looked for and at the peer whose answer was taken: no  *)
(* list of peers, and not the value that the find was asked for.           *)
FoundWasStored ==
  \A o \in Ops : result[o] \in Values =>
    /\ Kind[o] = "find"
    /\ \E s \in Ops :
         /\ Kind[s] = "store" /\ Value[s] = result[o] /\ Key(s) = Key(o)
         /\ \E c \in Calls : c = <<s, First(o)[2]>> /\ status[c] # "unused"

(* A peer beyond a chunk is asked only after some peer of the chunk failed *)
(* to answer in time, so an operation never has more than one chunk of     *)
(* requests that it still waits for.                                       *)
ChunkAfterFailure ==
  \A o \in Ops, i \in 0 .. Cardinality(Nodes) :
    (\E p \in Chunk(o, i + 1) : status[<<o, p>>] # "unused")
      => \E p \in Chunk(o, i) : status[<<o, p>>] = "rejected"

(* Every operation that has begun ends, whatever the network does.         *)
OpsEnd == \A o \in Ops : (phase[o] = "await") ~> (phase[o] = "done")

(* README.md:124, findValue "returns a previously stored value in he DHT": *)
(* a find that begins after a store of the same value has returned its     *)
(* acknowledgements, and whose own requests are answered, returns it.      *)
FindReturnsStored ==
  \A o, s \in Ops :
    Kind[o] = "find" /\ Kind[s] = "store" /\ Value[s] = Value[o] =>
      [](result[s] = "stored" /\ phase[o] = "idle" =>
           [](result[o] # "none" => result[o] = Value[o]))

=============================================================================
