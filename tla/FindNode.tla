------------------------------ MODULE FindNode ------------------------------
(***************************************************************************)
(* RoutingTable.findNode: what a node answers to FIND_NODE, and the first  *)
(* shortlist of its own lookup, as an operator on the table's state.       *)
(*                                                                         *)
(* keys is the set of bucket indices the Map holds, bs[i] the list of      *)
(* peers of bucket i (empty for an index the Map does not hold).  An       *)
(* existing empty bucket uses up a round of the loop, a missing one is     *)
(* skipped.                                                                *)
(***************************************************************************)
EXTENDS KeySpace, Lists

Sequence == INSTANCE SequencesExt

Least(a, b) == IF a =< b THEN a ELSE b

(* Mutant of addNodes: without the test `node.nodeId === key`.             *)
addNodesKeepsKey(key, nodes, closestNodes) ==
  closestNodes \o SubSeq(nodes, 1, Least(BIT_SIZE - Len(closestNodes), Len(nodes)))

(* Mutant of addNodes: without the test `length === BIT_SIZE`.             *)
addNodesUncapped(key, nodes, closestNodes) == closestNodes \o Without(nodes, key)

(* addNodes: append the bucket's peers other than key until the list holds *)
(* BIT_SIZE of them.                                                       *)
addNodes(key, nodes, closestNodes) ==
  LET others == Without(nodes, key)
      room   == BIT_SIZE - Len(closestNodes)
  IN  closestNodes \o SubSeq(others, 1, Least(room, Len(others)))

(* The existing bucket the inner while loops stop at in round r: the r-th  *)
(* one above, and the r-th one below, index b.                             *)
NthAbove(keys, b, r) ==
  {i \in keys : i > b /\ Cardinality({j \in keys : b < j /\ j < i}) = r - 1}

(* Mutant of NthBelow: only buckets above the key's are visited.           *)
NthBelowNever(keys, b, r) == {}

NthBelow(keys, b, r) ==
  {i \in keys : i < b /\ Cardinality({j \in keys : i < j /\ j < b}) = r - 1}

AddBucket(key, bs, which, closestNodes) ==
  IF which = {} THEN closestNodes
  ELSE addNodes(key, bs[CHOOSE i \in which : TRUE], closestNodes)

(* The nodes findNode collects: the key's own bucket, then round by round  *)
(* the next bucket above and the next bucket below.  The loop is left when *)
(* the list has exactly count entries before a round, or when both         *)
(* directions are exhausted, which BIT_SIZE rounds always reach.           *)
Collected(tableId, keys, bs, key, count) ==
  LET b == getBucketIndex(tableId, key)
      after[r \in 0 .. BIT_SIZE] ==
        IF r = 0 THEN addNodes(key, bs[b], << >>)
        ELSE IF Len(after[r - 1]) = count THEN after[r - 1]
        ELSE AddBucket(key, bs, NthBelow(keys, b, r),
               AddBucket(key, bs, NthAbove(keys, b, r), after[r - 1]))
  IN  after[BIT_SIZE]

(* n among the nodes of a sorted list, behind those not nearer to key.     *)
Inserted(nodes, n, key) ==
  LET Ahead(i) == XOR(nodes[i], key) >= XOR(n, key)
      c == CHOOSE c \in 0 .. Len(nodes) :
             (\A i \in 1 .. c : Ahead(i)) /\ (c < Len(nodes) => ~Ahead(c + 1))
  IN  [i \in 1 .. Len(nodes) + 1 |->
         IF i =< c THEN nodes[i] ELSE IF i = c + 1 THEN n ELSE nodes[i - 1]]

(* nodes.sort((a, b) => b.distance - a.distance)                           *)
Sorted(nodes, key) ==
  LET upto[i \in 0 .. Len(nodes)] ==
        IF i = 0 THEN << >> ELSE Inserted(upto[i - 1], nodes[i], key)
  IN  upto[Len(nodes)]

(* The list is sorted in place, the most distant node first.  The slice    *)
(* that follows returns a new array nobody keeps, so count cuts nothing.   *)
findNode(tableId, keys, bs, key, count) ==
  Sorted(Collected(tableId, keys, bs, key, count), key)

(* The peers of table T that node n keeps in bucket i.                     *)
InBucket(n, T, i) == {p \in T : getBucketIndex(n, p) = i}

(* What node n, whose Map has the indices keys and whose buckets hold the  *)
(* set T, answers to a FIND_NODE of asker; for itself, the first shortlist *)
(* of its lookup.  The order in the buckets matters only if the answer is  *)
(* cut at BIT_SIZE.                                                        *)
AnswerTo(asker, n, keys, T) ==
  findNode(n, keys, [i \in Indices |-> Sequence!SetToSeq(InBucket(n, T, i))], asker, ALPHA)

=============================================================================
