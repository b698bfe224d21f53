---------------------------- MODULE MCValueStore ----------------------------
(***************************************************************************)
(* Model checking of ValueStore: operation s1 stores v1, and f1 looks for  *)
(* v1, or for v2 whose hash is the same key.                               *)
(***************************************************************************)
EXTENDS ValueStore, TLC

CONSTANTS n1, n2, n3, s1, f1, k1, v1, v2

MCCalls == {c \in Ops \X Nodes : c[2] \in Elements(List(c[1]))}
MCKind == s1 :> "store" @@ f1 :> "find"
MCAt == s1 :> n1 @@ f1 :> n1
MCHash == v1 :> k1 @@ v2 :> k1
MCHome == k1 :> n2

Colliding == s1 :> v1 @@ f1 :> v2
SameValue == s1 :> v1 @@ f1 :> v1

(* At n1 a store of two chunks, the second of them the node itself, which  *)
(* is also whom the find asks.                                             *)
MeetingPeers == n1 :> <<n2, n3, n1>> @@ n2 :> <<n1>> @@ n3 :> << >>

(* The find asks first a node that the store does not reach.               *)
ApartPeers == n1 :> <<n3>> @@ n2 :> <<n1, n3>> @@ n3 :> << >>

=============================================================================
