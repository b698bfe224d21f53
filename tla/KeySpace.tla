------------------------------ MODULE KeySpace ------------------------------
(***************************************************************************)
(* Node ids, the XOR metric and the bucket of an id.                       *)
(*                                                                         *)
(* src/node/constants.ts fixes BIT_SIZE = 5, HASH_SIZE = 32,               *)
(* K_BUCKET_SIZE = 3 and ALPHA = 3; here they are parameters.  A peer      *)
(* (src/peer/peer.ts) is represented by its nodeId: its port is always     *)
(* nodeId + 3000, its address is always 127.0.0.1, and lastSeen is written *)
(* but never read by any decision of the program.                          *)
(***************************************************************************)
EXTENDS Integers

CONSTANTS
  BIT_SIZE,       \* bits of a node id, and the cap of a FIND_NODE answer
  HASH_SIZE,      \* size of the key space
  K_BUCKET_SIZE,  \* capacity of a bucket
  ALPHA,          \* queries in flight per lookup level, and FIND_NODE's count
  Ids             \* the node ids of the instance

(* 1 << i, as a function because the provers do not know the operator ^.   *)
Pow2[i \in 0 .. BIT_SIZE] == IF i = 0 THEN 1 ELSE 2 * Pow2[i - 1]

ASSUME BitSizeAssumption == BIT_SIZE \in Nat \ {0}
ASSUME HashSizeAssumption == HASH_SIZE \in Nat /\ HASH_SIZE = Pow2[BIT_SIZE]
ASSUME BucketSizeAssumption == K_BUCKET_SIZE \in Nat \ {0}
ASSUME AlphaAssumption == ALPHA \in Nat \ {0} /\ ALPHA =< BIT_SIZE
ASSUME IdsAssumption == Ids \subseteq 0 .. HASH_SIZE - 1

Indices == 0 .. BIT_SIZE - 1

Bit(n, i) == (n \div Pow2[i]) % 2

(* utils/nodeUtils.ts XOR: the bits of the sum are those in which the two  *)
(* numbers differ.                                                         *)
XOR(n1, n2) ==
  LET low[i \in 0 .. BIT_SIZE] ==
        IF i = 0 THEN 0
        ELSE low[i - 1] + (IF Bit(n1, i - 1) = Bit(n2, i - 1) THEN 0 ELSE Pow2[i - 1])
  IN  low[BIT_SIZE]

DifferingBits(tableId, targetId) ==
  {i \in Indices : Bit(tableId, i) # Bit(targetId, i)}

(* A scan that starts one bit too low and so never sees the top bit.       *)
getBucketIndexSkipsTopBit(tableId, targetId) ==
  LET D == DifferingBits(tableId, targetId) \ {BIT_SIZE - 1}
  IN  IF D = {} THEN BIT_SIZE - 1 ELSE CHOOSE i \in D : \A j \in D : j =< i

(* RoutingTable.getBucketIndex: the loop runs down from the top bit and    *)
(* returns the first one set in tableId ^ targetId; for tableId itself no  *)
(* bit is set and the loop falls through to BIT_SIZE - 1.                  *)
getBucketIndex(tableId, targetId) ==
  LET D == DifferingBits(tableId, targetId)
  IN  IF D = {} THEN BIT_SIZE - 1 ELSE CHOOSE i \in D : \A j \in D : j =< i

=============================================================================
