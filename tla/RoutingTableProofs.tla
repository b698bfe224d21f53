------------------------- MODULE RoutingTableProofs -------------------------
(***************************************************************************)
(* Proofs about RoutingTable, for every size of key space and bucket and   *)
(* every set of ids.                                                       *)
(*                                                                         *)
(* TypeOK is inductive.  TableWellFormed is inductive relative to it, and  *)
(* needs all four of its parts: MoveToFront keeps a bucket bounded only    *)
(* because the peer it puts in front was removed, which is one entry less  *)
(* only if the peer was there; HandleTcpDisconnect forgets a peer only if  *)
(* the peer is nowhere else.                                               *)
(***************************************************************************)
EXTENDS MCRoutingTable, ListsProofs

(* The bucket of any id is one of the table's indices.                     *)
LEMMA IndexType == \A p : Index(p) \in Indices
<1> TAKE p
<1> DEFINE D == DifferingBits(self, p)
<1>1. BIT_SIZE - 1 \in Nat /\ D \in SUBSET (0 .. BIT_SIZE - 1)
  BY BitSizeAssumption DEF DifferingBits, Indices
<1> HIDE DEF D
<1>2. CASE D = {}
  <2>1. Index(p) = BIT_SIZE - 1
    BY <1>2 DEF Index, getBucketIndex, D
  <2> QED
    BY <2>1, <1>1, BitSizeAssumption DEF Indices
<1>3. CASE D # {}
  <2>1. \E i \in D : \A j \in D : j =< i
    BY <1>1, <1>3, GreatestExists
  <2>2. Index(p) = CHOOSE i \in D : \A j \in D : j =< i
    BY <1>3 DEF Index, getBucketIndex, D
  <2>3. Index(p) \in D
    BY <2>1, <2>2
  <2> QED
    BY <2>3, <1>1 DEF Indices
<1> QED
  BY <1>2, <1>3

-----------------------------------------------------------------------------
(* The bucket of a peer is the one of its distance.  The facts about the   *)
(* XOR metric are those of KeySpaceProofs.                                 *)

Metric == INSTANCE KeySpaceProofs WITH owner <- self, key <- self

LEMMA SameMetric ==
  /\ Metric!Pow2 = Pow2
  /\ \A p, q : Metric!XOR(p, q) = XOR(p, q)
  /\ \A p, q : Metric!getBucketIndex(p, q) = getBucketIndex(p, q)
  /\ Metric!Indices = Indices
<1>1. Metric!Pow2 = Pow2
  BY Zenon DEF Metric!Pow2, Pow2
<1>2. \A p, q : Metric!XOR(p, q) = XOR(p, q)
  BY Zenon DEF Metric!XOR, XOR, Metric!Bit, Bit, Metric!Pow2, Pow2
<1>3. \A p, q : Metric!getBucketIndex(p, q) = getBucketIndex(p, q)
  BY Zenon DEF Metric!getBucketIndex, getBucketIndex, Metric!DifferingBits, DifferingBits,
         Metric!Bit, Bit, Metric!Pow2, Pow2, Metric!Indices, Indices
<1>4. Metric!Indices = Indices
  BY DEF Metric!Indices, Indices
<1> QED
  BY <1>1, <1>2, <1>3, <1>4

LEMMA MetricAssumptions ==
  /\ Metric!BitSizeAssumption /\ Metric!HashSizeAssumption
  /\ Metric!BucketSizeAssumption /\ Metric!AlphaAssumption /\ Metric!IdsAssumption
  BY SameMetric, BitSizeAssumption, HashSizeAssumption, BucketSizeAssumption,
     AlphaAssumption, IdsAssumption
     DEF Metric!BitSizeAssumption, Metric!HashSizeAssumption, Metric!BucketSizeAssumption,
         Metric!AlphaAssumption, Metric!IdsAssumption

LEMMA IndexIsPlace ==
  ASSUME NEW p \in Ids, NEW i \in Indices
  PROVE  InPlace(p, i) <=> Index(p) = i
<1>1. CASE p = self
  <2>1. DifferingBits(self, p) = {}
    BY <1>1 DEF DifferingBits
  <2> QED
    BY <1>1, <2>1 DEF InPlace, Index, getBucketIndex
<1>2. CASE p # self
  <2>1. self \in 0 .. HASH_SIZE - 1 /\ p \in 0 .. HASH_SIZE - 1 /\ self # p
    BY <1>2, IdsAssumption, SelfAssumption
  <2>2. LET j == Index(p)
        IN  Pow2[j] =< XOR(self, p) /\ XOR(self, p) < Pow2[j + 1]
    BY <2>1, SameMetric, MetricAssumptions, Metric!IndexBounds DEF Index
  <2>3. ASSUME Pow2[i] =< XOR(self, p), XOR(self, p) < Pow2[i + 1]
        PROVE  Index(p) = i
    BY <2>1, <2>3, SameMetric, MetricAssumptions, Metric!IndexUnique DEF Index
  <2> QED
    BY <1>2, <2>2, <2>3 DEF InPlace
<1> QED
  BY <1>1, <1>2

LEMMA PeersInPlace ==
  ASSUME TypeOK, TableWellFormed
  PROVE  \A i \in Indices : \A p \in Elements(buckets[i]) : p \in Ids /\ Index(p) = i
<1> SUFFICES ASSUME NEW i \in Indices, NEW k \in 1 .. Len(buckets[i])
             PROVE  buckets[i][k] \in Ids /\ Index(buckets[i][k]) = i
  BY DEF Elements
<1>1. buckets[i][k] \in Ids
  BY DEF TypeOK
<1>2. InPlace(buckets[i][k], i)
  BY DEF TableWellFormed, WellPlaced
<1> QED
  BY <1>1, <1>2, IndexIsPlace

-----------------------------------------------------------------------------

(* What one pass of the loop of updateTables may do to the bucket of p.    *)
LEMMA UpdateCases ==
  ASSUME TypeOK, UpdateNext
  PROVE  /\ Head(todo) \in Ids
         /\ todo' \in Seq(Ids)
         /\ order' = WithKey(order, Index(Head(todo)))
         /\ \/ MoveToFront(Head(todo))
            \/ Push(Head(todo))
            \/ SelfAtEnd(Head(todo))
            \/ PingHead(Head(todo))
  BY DEF TypeOK, UpdateNext, FindBucket

(* The lists that UpdateNext can leave in a bucket of p.                   *)
LEMMA BucketTypes ==
  ASSUME TypeOK, NEW p \in Ids
  PROVE  LET b == buckets[Index(p)]
         IN  /\ b \in Seq(Ids)
             /\ <<p>> \o Without(b, p) \in Seq(Ids)
             /\ Append(b, p) \in Seq(Ids)
             /\ Reversed(b) \in Seq(Ids)
             /\ Without(b, p) \in Seq(Ids)
             /\ IsFull(Index(p)) => Head(b) \in Ids
<1>1. buckets[Index(p)] \in Seq(Ids)
  BY IndexType DEF TypeOK
<1>2. ASSUME NEW b \in Seq(Ids)
      PROVE  /\ <<p>> \o Without(b, p) \in Seq(Ids)
             /\ Append(b, p) \in Seq(Ids)
             /\ Reversed(b) \in Seq(Ids)
             /\ Without(b, p) \in Seq(Ids)
  <2>1. Without(b, p) \in Seq(Ids)
    BY WithoutProperties
  <2>2. <<p>> \o Without(b, p) \in Seq(Ids)
    BY <2>1, PrependElements
  <2> QED
    BY <2>1, <2>2, AppendElements, ReversedElements
<1>3. IsFull(Index(p)) => Head(buckets[Index(p)]) \in Ids
  BY <1>1, BucketSizeAssumption DEF IsFull
<1> QED
  BY <1>1, <1>2, <1>3

LEMMA ContactsType == RoundContacts \subseteq Seq(Ids)
<1> SUFFICES ASSUME NEW n \in 1 .. MaxRound, NEW c \in [1 .. n -> Ids \ {self}]
             PROVE  c \in Seq(Ids)
  BY DEF RoundContacts
<1>1. n \in Nat /\ c \in [1 .. n -> Ids]
  BY MaxRoundAssumption
<1> QED
  BY <1>1, IsASeq

-----------------------------------------------------------------------------

(* Every variable keeps its type.                                          *)
THEOREM TypeCorrect == Spec => []TypeOK
<1>1. Init => TypeOK
  BY DEF Init, TypeOK
<1>2. TypeOK /\ [Next]_vars => TypeOK'
  <2> SUFFICES ASSUME TypeOK, [Next]_vars PROVE TypeOK'
    OBVIOUS
  <2>1. CASE UpdateNext
    <3> DEFINE p == Head(todo)
    <3>1. p \in Ids /\ todo' \in Seq(Ids) /\ order' = WithKey(order, Index(p))
      BY <2>1, UpdateCases
    <3> HIDE DEF p
    <3>2. order' \in Seq(Indices)
      BY <3>1, IndexType, WithKeyProperties DEF TypeOK
    <3>3. Index(p) \in Indices
      BY IndexType
    <3>4. CASE MoveToFront(p)
      BY <3>1, <3>2, <3>3, <3>4, BucketTypes DEF TypeOK, MoveToFront, Fronted
    <3>5. CASE Push(p)
      BY <3>1, <3>2, <3>3, <3>5, BucketTypes DEF TypeOK, Push
    <3>6. CASE SelfAtEnd(p)
      BY <3>1, <3>2, <3>3, <3>6, BucketTypes DEF TypeOK, SelfAtEnd
    <3>7. CASE PingHead(p)
      BY <3>1, <3>2, <3>3, <3>7, BucketTypes DEF TypeOK, PingHead
    <3> QED
      BY <2>1, <3>4, <3>5, <3>6, <3>7, UpdateCases DEF p
  <2>2. CASE Start
    BY <2>2, BootstrapAssumption DEF TypeOK, Start, BeginUpdate
  <2>3. ASSUME NEW p \in Ids, HandleMessage(p) PROVE TypeOK'
    BY <2>3 DEF TypeOK, HandleMessage, BeginUpdate
  <2>4. CASE RoundDone
    BY <2>4, ContactsType DEF TypeOK, RoundDone, BeginUpdate
  <2>5. ASSUME NEW p \in Ids, HandleTcpDisconnect(p) PROVE TypeOK'
    <3>1. order' \in Seq(Indices)
      BY <2>5, IndexType, WithKeyProperties DEF TypeOK, HandleTcpDisconnect, FindBucket
    <3>2. Index(p) \in Indices
      BY IndexType
    <3> QED
      BY <2>5, <3>1, <3>2, BucketTypes DEF TypeOK, HandleTcpDisconnect
  <2>6. ASSUME NEW p \in Ids, ProbeSettled(p) PROVE TypeOK'
    BY <2>6 DEF TypeOK, ProbeSettled
  <2>7. CASE UNCHANGED vars
    BY <2>7 DEF TypeOK, vars
  <2> QED
    BY <2>1, <2>2, <2>3, <2>4, <2>5, <2>6, <2>7 DEF Next
<1> QED
  BY <1>1, <1>2, PTL DEF Spec

-----------------------------------------------------------------------------
(* Every step that touches the table replaces the list of one bucket.      *)

Replaced(p, b) ==
  /\ buckets' = [buckets EXCEPT ![Index(p)] = b]
  /\ order' = WithKey(order, Index(p))

(* A table stays well formed if the new list is short enough, free of      *)
(* duplicates, and names nobody but p besides those it named before.       *)
LEMMA ReplacedWellFormed ==
  ASSUME TypeOK, TableWellFormed, NEW p \in Ids, NEW b \in Seq(Ids), Replaced(p, b),
         Distinct(b), Len(b) =< K_BUCKET_SIZE,
         Elements(b) \subseteq Elements(buckets[Index(p)]) \cup {p}
  PROVE  TableWellFormed'
<1> DEFINE i == Index(p)
<1>1. i \in Indices
  BY IndexType
<1>2. buckets' = [buckets EXCEPT ![i] = b] /\ order' = WithKey(order, i)
  BY DEF Replaced
<1>3. buckets \in [Indices -> Seq(Ids)] /\ order \in Seq(Indices)
  BY DEF TypeOK
<1>4. \A j \in Indices : buckets'[j] = IF j = i THEN b ELSE buckets[j]
  BY <1>1, <1>2, <1>3
<1>5. BucketsBounded'
  BY <1>4 DEF BucketsBounded, TableWellFormed
<1>6. WellPlaced'
  <2> SUFFICES ASSUME NEW j \in Indices, NEW k \in 1 .. Len(buckets'[j])
               PROVE  InPlace(buckets'[j][k], j)
    BY DEF WellPlaced, InPlace
  <2>1. \A q \in Elements(buckets[i]) : Index(q) = i
    BY <1>1, PeersInPlace
  <2>2. CASE j = i
    <3>1. b[k] \in Elements(b) /\ buckets'[j][k] = b[k] /\ b[k] \in Ids
      BY <2>2, <1>4 DEF Elements
    <3>2. Index(b[k]) = i
      BY <2>1, <3>1
    <3> QED
      BY <1>1, <2>2, <3>1, <3>2, IndexIsPlace
  <2>3. CASE j # i
    BY <2>3, <1>4 DEF TableWellFormed, WellPlaced
  <2> QED
    BY <2>2, <2>3
<1>7. NoDuplicates'
  BY <1>4 DEF NoDuplicates, TableWellFormed
<1>8. OrderCoversTable'
  <2>1. Distinct(order') /\ Elements(order') = Elements(order) \cup {i}
    BY <1>1, <1>2, <1>3, WithKeyProperties DEF TableWellFormed, OrderCoversTable
  <2> QED
    BY <2>1, <1>4 DEF TableWellFormed, OrderCoversTable
<1> QED
  BY <1>5, <1>6, <1>7, <1>8 DEF TableWellFormed

(* How replacing the list of a bucket changes the set of known peers.      *)
LEMMA ReplacedKnown ==
  ASSUME TypeOK, TableWellFormed, NEW p \in Ids, NEW b \in Seq(Ids), Replaced(p, b)
  PROVE  LET old == Elements(buckets[Index(p)])
         IN  /\ Elements(b) = old => Known' = Known
             /\ Elements(b) = old \cup {p} => Known' = Known \cup {p}
             /\ Elements(b) = old \ {p} => Known' = Known \ {p}
<1> DEFINE i == Index(p)
           E(j) == Elements(buckets[j])
<1>1. i \in Indices
  BY IndexType
<1>2. \A j \in Indices : Elements(buckets'[j]) = IF j = i THEN Elements(b) ELSE E(j)
  BY <1>1 DEF Replaced, TypeOK
<1>3. \A j \in Indices : \A q \in E(j) : Index(q) = j
  BY PeersInPlace
<1>4. \A j \in Indices : j # i => p \notin E(j)
  BY <1>3
<1>5. \A q : q \in Known <=> \E j \in Indices : q \in E(j)
  BY DEF Known
<1>6. \A q : q \in Known' <=> \E j \in Indices : q \in Elements(buckets'[j])
  BY DEF Known
<1> HIDE DEF E
<1>7. \A q : q \in Known' <=> \/ q \in Elements(b)
                              \/ \E j \in Indices : j # i /\ q \in E(j)
  BY <1>1, <1>2, <1>6
<1>8. \A q : q \in Known <=> \/ q \in E(i)
                             \/ \E j \in Indices : j # i /\ q \in E(j)
  BY <1>1, <1>5
<1>9. Elements(b) = E(i) => Known' = Known
  BY <1>7, <1>8
<1>10. Elements(b) = E(i) \cup {p} => Known' = Known \cup {p}
  BY <1>7, <1>8
<1>11. Elements(b) = E(i) \ {p} => Known' = Known \ {p}
  BY <1>4, <1>7, <1>8
<1> QED
  BY <1>9, <1>10, <1>11 DEF E

(* The list that a pass of the loop of updateTables leaves in the bucket   *)
(* of its peer: the same peers, or one more if there is room.              *)
LEMMA UpdateEffect ==
  ASSUME TypeOK, TableWellFormed, UpdateNext
  PROVE  \E p \in Ids, b \in Seq(Ids) :
           LET old == buckets[Index(p)]
           IN  /\ Replaced(p, b)
               /\ Distinct(b)
               /\ Len(b) =< K_BUCKET_SIZE
               /\ \/ Elements(b) = Elements(old)
                  \/ /\ Elements(b) = Elements(old) \cup {p}
                     /\ p \notin Elements(old)
                     /\ Len(old) < K_BUCKET_SIZE
<1> DEFINE p == Head(todo)
           i == Index(p)
           old == buckets[i]
<1>1. p \in Ids /\ order' = WithKey(order, i)
  BY UpdateCases
<1>2. i \in Indices /\ old \in Seq(Ids) /\ Distinct(old) /\ Len(old) =< K_BUCKET_SIZE
  BY IndexType DEF TypeOK, TableWellFormed, NoDuplicates, BucketsBounded
<1>3. Len(old) \in Nat /\ K_BUCKET_SIZE \in Nat
  BY <1>2, BucketSizeAssumption
<1> DEFINE Fits(b) == /\ b \in Seq(Ids)
                      /\ buckets' = [buckets EXCEPT ![i] = b]
                      /\ Distinct(b)
                      /\ Len(b) =< K_BUCKET_SIZE
                      /\ \/ Elements(b) = Elements(old)
                         \/ /\ Elements(b) = Elements(old) \cup {p}
                            /\ p \notin Elements(old)
                            /\ Len(old) < K_BUCKET_SIZE
<1> SUFFICES \E b : Fits(b)
  BY <1>1 DEF Replaced
<1> HIDE DEF p, i, old
<1>4. CASE MoveToFront(p)
  <2> DEFINE w == Without(old, p)
             b == <<p>> \o w
  <2>1. p \in Elements(old) /\ buckets' = [buckets EXCEPT ![i] = b]
    BY <1>4 DEF MoveToFront, Fronted, Has, i, old
  <2>2. /\ w \in Seq(Ids)
        /\ Elements(w) = Elements(old) \ {p}
        /\ Len(w) < Len(old)
        /\ Distinct(w)
    BY <1>2, <2>1, WithoutProperties
  <2> HIDE DEF w
  <2>3. p \notin Elements(w)
    BY <2>2
  <2>4. b \in Seq(Ids) /\ Distinct(b) /\ Len(b) = Len(w) + 1 /\ Elements(b) = Elements(w) \cup {p}
    BY <1>1, <2>2, <2>3, PrependElements
  <2> HIDE DEF b
  <2>5. Len(w) \in Nat
    BY <2>2
  <2>6. Len(b) =< K_BUCKET_SIZE
    BY <1>2, <1>3, <2>2, <2>4, <2>5
  <2>7. Elements(b) = Elements(old)
    BY <2>1, <2>2, <2>4
  <2> QED
    BY <2>1, <2>4, <2>6, <2>7
<1>5. CASE Push(p)
  <2> DEFINE b == Append(old, p)
  <2>1. /\ p \notin Elements(old)
        /\ ~ (Len(old) >= K_BUCKET_SIZE)
        /\ buckets' = [buckets EXCEPT ![i] = b]
    BY <1>5 DEF Push, Has, IsFull, i, old
  <2>2. b \in Seq(Ids) /\ Distinct(b) /\ Elements(b) = Elements(old) \cup {p}
    BY <1>1, <1>2, <2>1, AppendElements
  <2>3. Len(b) =< K_BUCKET_SIZE /\ Len(old) < K_BUCKET_SIZE
    BY <1>2, <1>3, <2>1
  <2> HIDE DEF b
  <2> QED
    BY <2>1, <2>2, <2>3
<1>6. CASE SelfAtEnd(p)
  <2> DEFINE b == Reversed(old)
  <2>1. buckets' = [buckets EXCEPT ![i] = b]
    BY <1>6 DEF SelfAtEnd, i, old
  <2>2. b \in Seq(Ids) /\ Distinct(b) /\ Elements(b) = Elements(old) /\ Len(b) = Len(old)
    BY <1>2, ReversedElements
  <2> HIDE DEF b
  <2> QED
    BY <1>2, <2>1, <2>2
<1>7. CASE PingHead(p)
  <2>1. buckets' = [buckets EXCEPT ![i] = old]
    BY <1>7 DEF PingHead, old, TypeOK
  <2> QED
    BY <1>2, <2>1
<1> QED
  BY <1>4, <1>5, <1>6, <1>7, UpdateCases DEF p

(* A closed connection takes its peer, and nobody else, out of the bucket. *)
LEMMA DisconnectEffect ==
  ASSUME TypeOK, TableWellFormed, NEW p \in Ids, HandleTcpDisconnect(p)
  PROVE  \E b \in Seq(Ids) :
           /\ Replaced(p, b)
           /\ Distinct(b)
           /\ Len(b) =< K_BUCKET_SIZE
           /\ Elements(b) = Elements(buckets[Index(p)]) \ {p}
<1> DEFINE old == buckets[Index(p)]
           b == Without(old, p)
<1>1. old \in Seq(Ids) /\ Distinct(old) /\ Len(old) =< K_BUCKET_SIZE
  BY IndexType DEF TypeOK, TableWellFormed, NoDuplicates, BucketsBounded
<1>2. Replaced(p, b)
  BY DEF HandleTcpDisconnect, FindBucket, Replaced
<1> HIDE DEF old
<1>3. b \in Seq(Ids) /\ Distinct(b) /\ Len(b) =< Len(old) /\ Elements(b) = Elements(old) \ {p}
  BY <1>1, WithoutProperties
<1> HIDE DEF b
<1>4. Len(b) =< K_BUCKET_SIZE
  BY <1>1, <1>3, BucketSizeAssumption
<1> QED
  BY <1>2, <1>3, <1>4 DEF old

(* The other steps leave the table alone.                                  *)
LEMMA OtherSteps ==
  ASSUME \/ Start
         \/ \E p \in Ids : HandleMessage(p)
         \/ RoundDone
         \/ \E p \in Ids : ProbeSettled(p)
         \/ UNCHANGED vars
  PROVE  UNCHANGED <<buckets, order>>
  BY DEF Start, HandleMessage, RoundDone, BeginUpdate, ProbeSettled, vars

-----------------------------------------------------------------------------

LEMMA WellFormedStep ==
  ASSUME TypeOK, TableWellFormed, [Next]_vars
  PROVE  TableWellFormed'
<1>1. CASE UpdateNext
  <2>1. PICK p \in Ids, b \in Seq(Ids) :
          /\ Replaced(p, b)
          /\ Distinct(b)
          /\ Len(b) =< K_BUCKET_SIZE
          /\ Elements(b) \subseteq Elements(buckets[Index(p)]) \cup {p}
    BY <1>1, UpdateEffect
  <2> QED
    BY <2>1, ReplacedWellFormed
<1>2. ASSUME NEW p \in Ids, HandleTcpDisconnect(p) PROVE TableWellFormed'
  BY <1>2, DisconnectEffect, ReplacedWellFormed
<1>3. CASE UNCHANGED <<buckets, order>>
  BY <1>3 DEF TableWellFormed, BucketsBounded, WellPlaced, InPlace, NoDuplicates,
              OrderCoversTable
<1> QED
  BY <1>1, <1>2, <1>3, OtherSteps DEF Next

(* In every reachable state the buckets are bounded, every peer is listed  *)
(* once and in the bucket of its distance, and every used bucket is a key  *)
(* of the Map.                                                             *)
THEOREM WellFormed == Spec => []TableWellFormed
<1>1. Init => TableWellFormed
  BY BucketSizeAssumption DEF Init, TableWellFormed, BucketsBounded, WellPlaced,
     NoDuplicates, OrderCoversTable, Distinct, Elements
<1>2. TypeOK /\ TableWellFormed /\ [Next]_vars => TableWellFormed'
  BY WellFormedStep
<1> QED
  BY <1>1, <1>2, TypeCorrect, PTL DEF Spec

-----------------------------------------------------------------------------
(* What getAllPeers returns.                                               *)

LEMMA AllPeersFromWellFormed ==
  ASSUME TypeOK, TableWellFormed
  PROVE  AllPeersExact
<1> DEFINE n == Len(order)
           lists == [k \in 1 .. n |-> buckets[order[k]]]
<1>1. n \in Nat /\ \A k \in 1 .. n : order[k] \in Indices
  BY DEF TypeOK
<1>2. lists \in Seq(Seq(Ids)) /\ Len(lists) = n
  <2>1. lists \in [1 .. n -> Seq(Ids)]
    BY <1>1 DEF TypeOK
  <2> HIDE DEF lists
  <2> QED
    BY <1>1, <2>1
<1>3. \A k \in 1 .. n : lists[k] = buckets[order[k]]
  OBVIOUS
<1> HIDE DEF lists, n
<1>4. \A k \in 1 .. n : Distinct(lists[k])
  BY <1>1, <1>3 DEF TableWellFormed, NoDuplicates
<1>5. \A k, l \in 1 .. n : k # l => Elements(lists[k]) \cap Elements(lists[l]) = {}
  <2> SUFFICES ASSUME NEW k \in 1 .. n, NEW l \in 1 .. n, k # l,
                      NEW q \in Elements(lists[k]) \cap Elements(lists[l])
               PROVE  FALSE
    OBVIOUS
  <2>1. order[k] # order[l]
    BY DEF TableWellFormed, OrderCoversTable, Distinct, n
  <2>2. \A j \in Indices : \A x \in Elements(buckets[j]) : Index(x) = j
    BY PeersInPlace
  <2> QED
    BY <1>1, <1>3, <2>1, <2>2
<1>6. /\ getAllPeers \in Seq(Ids)
      /\ Elements(getAllPeers) = UNION {Elements(lists[k]) : k \in 1 .. n}
      /\ Distinct(getAllPeers)
  <2>1. getAllPeers = Concatenated(lists)
    BY DEF getAllPeers, lists, n
  <2> QED
    BY <1>2, <1>4, <1>5, <2>1, ConcatenatedProperties
<1>7. Elements(getAllPeers) = Known
  <2>1. ASSUME NEW k \in 1 .. n PROVE Elements(lists[k]) \subseteq Known
    BY <1>1, <1>3 DEF Known
  <2>2. ASSUME NEW j \in Indices, NEW q \in Elements(buckets[j])
        PROVE  \E k \in 1 .. n : q \in Elements(lists[k])
    <3>1. buckets[j] # << >>
      BY DEF Elements
    <3>2. PICK k \in 1 .. n : order[k] = j
      BY <3>1 DEF TableWellFormed, OrderCoversTable, Elements, n
    <3> QED
      BY <3>2, <1>3
  <2>3. Known \subseteq UNION {Elements(lists[k]) : k \in 1 .. n}
    BY <2>2 DEF Known
  <2> QED
    BY <2>1, <2>3, <1>6
<1>8. Cardinality(Elements(getAllPeers)) = Len(getAllPeers)
  BY <1>6, DistinctCardinality
<1> QED
  BY <1>6, <1>7, <1>8 DEF AllPeersExact

(* getAllPeers always names every known peer exactly once.                 *)
THEOREM AllPeers == Spec => []AllPeersExact
  BY TypeCorrect, WellFormed, AllPeersFromWellFormed, PTL

-----------------------------------------------------------------------------

(* No step but the close of a peer's connection takes a peer out of the    *)
(* table, and that one takes out no other.                                 *)
THEOREM NobodyEvicted == Spec => OnlyDisconnectForgets
<1> DEFINE A == Known' # Known =>
                  \/ Known \subseteq Known'
                  \/ \E p \in Known \ {self} : HandleTcpDisconnect(p) /\ Known' = Known \ {p}
<1>1. TypeOK /\ TableWellFormed /\ [Next]_vars => [A]_vars
  <2> SUFFICES ASSUME TypeOK, TableWellFormed, [Next]_vars, Known' # Known PROVE A
    OBVIOUS
  <2>1. CASE UpdateNext
    <3>1. PICK p \in Ids, b \in Seq(Ids) :
            /\ Replaced(p, b)
            /\ \/ Elements(b) = Elements(buckets[Index(p)])
               \/ Elements(b) = Elements(buckets[Index(p)]) \cup {p}
      BY <2>1, UpdateEffect
    <3> QED
      BY <3>1, ReplacedKnown
  <2>2. ASSUME NEW p \in Ids, HandleTcpDisconnect(p) PROVE A
    <3>1. Known' = Known \ {p}
      BY <2>2, DisconnectEffect, ReplacedKnown
    <3>2. p \in Known /\ p # self
      BY <2>2, <3>1 DEF HandleTcpDisconnect
    <3> QED
      BY <2>2, <3>1, <3>2
  <2>3. CASE UNCHANGED <<buckets, order>>
    BY <2>3 DEF Known
  <2> QED
    BY <2>1, <2>2, <2>3, OtherSteps DEF Next
<1> QED
  BY <1>1, TypeCorrect, WellFormed, PTL DEF Spec, OnlyDisconnectForgets

-----------------------------------------------------------------------------
(* Refinement.                                                             *)

LEMMA SameIndex == \A p, q : Abstract!getBucketIndex(p, q) = getBucketIndex(p, q)
  BY Zenon DEF Abstract!getBucketIndex, getBucketIndex, Abstract!DifferingBits, DifferingBits,
         Abstract!Bit, Bit, Abstract!Pow2, Pow2, Abstract!Indices, Indices

LEMMA SameCardinality == \A S : Abstract!Cardinality(S) = Cardinality(S)
  BY Zenon DEF Abstract!Cardinality, Cardinality

(* The peers of the abstract set in the bucket of p are those listed.      *)
LEMMA SameBucketIsBucket ==
  ASSUME TypeOK, TableWellFormed, NEW p \in Ids
  PROVE  /\ Abstract!SameBucket(p) = Elements(buckets[Index(p)])
         /\ Cardinality(Abstract!SameBucket(p)) = Len(buckets[Index(p)])
<1>1. Abstract!SameBucket(p) = {q \in Known : Index(q) = Index(p)}
  BY SameIndex DEF Abstract!SameBucket, Index
<1>2. \A j \in Indices : \A q \in Elements(buckets[j]) : Index(q) = j
  BY PeersInPlace
<1>3. Index(p) \in Indices
  BY IndexType
<1>4. Abstract!SameBucket(p) = Elements(buckets[Index(p)])
  BY <1>1, <1>2, <1>3 DEF Known
<1>5. buckets[Index(p)] \in Seq(Ids) /\ Distinct(buckets[Index(p)])
  BY <1>3 DEF TypeOK, TableWellFormed, NoDuplicates
<1> QED
  BY <1>4, <1>5, DistinctCardinality

(* The table implements the bounded set of PeerSet: each step adds one     *)
(* peer for which its bucket has room, forgets one peer, or changes        *)
(* nothing that the set shows.                                             *)
THEOREM Refinement == Spec => ImplementsPeerSet
<1>1. Init => Abstract!Init
  BY DEF Init, Abstract!Init, Known, Elements
<1>2. TypeOK /\ TableWellFormed /\ [Next]_vars => [Abstract!Next]_Known
  <2> SUFFICES ASSUME TypeOK, TableWellFormed, [Next]_vars, Known' # Known
               PROVE  \E p \in Ids : Abstract!Learn(p) \/ Abstract!Forget(p)
    BY DEF Abstract!Next
  <2>1. CASE UpdateNext
    <3>1. PICK p \in Ids, b \in Seq(Ids) :
            /\ Replaced(p, b)
            /\ \/ Elements(b) = Elements(buckets[Index(p)])
               \/ /\ Elements(b) = Elements(buckets[Index(p)]) \cup {p}
                  /\ Len(buckets[Index(p)]) < K_BUCKET_SIZE
      BY <2>1, UpdateEffect
    <3>2. Known' = Known \cup {p} /\ Len(buckets[Index(p)]) < K_BUCKET_SIZE
      BY <3>1, ReplacedKnown
    <3>3. p \notin Known
      BY <3>2
    <3> QED
      BY <3>2, <3>3, SameBucketIsBucket, SameCardinality DEF Abstract!Learn
  <2>2. ASSUME NEW p \in Ids, HandleTcpDisconnect(p)
        PROVE  Abstract!Forget(p)
    <3>1. Known' = Known \ {p}
      BY <2>2, DisconnectEffect, ReplacedKnown
    <3> QED
      BY <2>2, <3>1 DEF Abstract!Forget, HandleTcpDisconnect
  <2>3. CASE UNCHANGED <<buckets, order>>
    BY <2>3 DEF Known
  <2> QED
    BY <2>1, <2>2, <2>3, OtherSteps DEF Next
<1> QED
  BY <1>1, <1>2, TypeCorrect, WellFormed, PTL DEF Spec, ImplementsPeerSet, Abstract!Spec

-----------------------------------------------------------------------------
(* What findNode returns.                                                  *)

(* Distances to an id are numbers, and different for different peers.      *)
LEMMA Distances ==
  ASSUME NEW k \in Ids
  PROVE  /\ \A p \in Ids : XOR(p, k) \in Nat
         /\ \A p, q \in Ids : p # q => XOR(p, k) # XOR(q, k)
<1>1. \A p : XOR(p, k) \in Nat
  BY SameMetric, MetricAssumptions, Metric!XorType
<1>2. ASSUME NEW p \in Ids, NEW q \in Ids, p # q PROVE XOR(p, k) # XOR(q, k)
  <2>1. {p, q, k} \subseteq 0 .. HASH_SIZE - 1
    BY IdsAssumption
  <2> QED
    BY <1>2, <2>1, SameMetric, MetricAssumptions, Metric!XorInjective
<1> QED
  BY <1>1, <1>2

(* Nearer and nearer to k.                                                 *)
Descending(s, k) == \A i, j \in 1 .. Len(s) : i < j => XOR(s[i], k) > XOR(s[j], k)

(* One pass of the sort: a node finds its place in a list of any order,    *)
(* and keeps a descending list descending.                                 *)
LEMMA InsertedProperties ==
  ASSUME NEW k \in Ids, NEW s \in Seq(Ids), NEW n \in Ids
  PROVE  LET r == Inserted(s, n, k)
         IN  /\ r \in Seq(Ids)
             /\ Len(r) = Len(s) + 1
             /\ Elements(r) = Elements(s) \cup {n}
             /\ (Descending(s, k) /\ n \notin Elements(s)) => Descending(r, k)
<1> DEFINE l == Len(s)
           Ahead(i) == XOR(s[i], k) >= XOR(n, k)
           Fits(c) == (\A i \in 1 .. c : Ahead(i)) /\ (c < l => ~Ahead(c + 1))
           c == CHOOSE x \in 0 .. l : Fits(x)
           r == Inserted(s, n, k)
<1>1. l \in Nat /\ \A i \in 1 .. l : s[i] \in Ids
  OBVIOUS
<1>2. c \in 0 .. l /\ Fits(c)
  <2> DEFINE D == {x \in 0 .. l : \A i \in 1 .. x : Ahead(i)}
  <2>1. D \in SUBSET (0 .. l) /\ 0 \in D
    BY <1>1
  <2>2. PICK x \in D : \A y \in D : y =< x
    <3> HIDE DEF D
    <3> QED
      BY <1>1, <2>1, GreatestExists
  <2>3. ASSUME x < l, Ahead(x + 1) PROVE FALSE
    <3>1. x + 1 \in 0 .. l /\ 1 .. x + 1 = (1 .. x) \cup {x + 1}
      BY <1>1, <2>3
    <3> HIDE DEF Ahead
    <3>2. x + 1 \in D
      BY <2>3, <3>1
    <3> QED
      BY <1>1, <2>2, <3>2
  <2>4. x \in 0 .. l /\ Fits(x)
    BY <2>2, <2>3
  <2> HIDE DEF Fits
  <2> QED
    BY <2>4
<1>3. r = [i \in 1 .. l + 1 |-> IF i =< c THEN s[i] ELSE IF i = c + 1 THEN n ELSE s[i - 1]]
  BY DEF Inserted
<1> HIDE DEF c, r
<1>4. r \in Seq(Ids) /\ Len(r) = l + 1
  <2>1. ASSUME NEW i \in 1 .. l + 1 PROVE r[i] \in Ids
    BY <1>1, <1>2, <1>3
  <2>2. r = [i \in 1 .. l + 1 |-> r[i]]
    BY <1>3
  <2>3. r \in [1 .. l + 1 -> Ids] /\ l + 1 \in Nat
    BY <1>1, <2>1, <2>2
  <2> QED
    BY <2>3
<1>5. /\ \A i \in 1 .. c : r[i] = s[i]
      /\ r[c + 1] = n
      /\ \A i \in c + 1 .. l : r[i + 1] = s[i]
  BY <1>1, <1>2, <1>3
<1>6. \A i \in 1 .. l + 1 : i \in 1 .. c \/ i = c + 1 \/ (i - 1 \in c + 1 .. l /\ (i - 1) + 1 = i)
  BY <1>1, <1>2
<1>7. Elements(r) = Elements(s) \cup {n}
  <2>1. ASSUME NEW x \in Elements(r) PROVE x \in Elements(s) \cup {n}
    <3>1. PICK i \in 1 .. l + 1 : x = r[i]
      BY <1>4 DEF Elements
    <3>2. \A j \in 1 .. l : s[j] \in Elements(s)
      BY DEF Elements
    <3>3. CASE i - 1 \in c + 1 .. l /\ (i - 1) + 1 = i
      <4>1. x = s[i - 1] /\ i - 1 \in 1 .. l
        BY <1>1, <1>2, <1>5, <3>1, <3>3
      <4> QED
        BY <3>2, <4>1
    <3> QED
      BY <1>1, <1>2, <1>5, <1>6, <3>1, <3>2, <3>3
  <2>2. ASSUME NEW x \in Elements(s) PROVE x \in Elements(r)
    <3>1. PICK i \in 1 .. l : x = s[i]
      BY DEF Elements
    <3>2. \E j \in 1 .. l + 1 : r[j] = x
      BY <1>1, <1>2, <1>5, <3>1
    <3> QED
      BY <1>4, <3>2 DEF Elements
  <2>3. n \in Elements(r)
    BY <1>1, <1>2, <1>4, <1>5 DEF Elements
  <2> QED
    BY <2>1, <2>2, <2>3
<1>8. ASSUME Descending(s, k), n \notin Elements(s) PROVE Descending(r, k)
  <2> DEFINE d(x) == XOR(x, k)
  <2>1. d(n) \in Nat /\ \A i \in 1 .. l : d(s[i]) \in Nat /\ d(s[i]) # d(n)
    <3>1. \A i \in 1 .. l : s[i] # n
      BY <1>8 DEF Elements
    <3> QED
      BY <1>1, <3>1, Distances
  <2>2. \A i, j \in 1 .. l : i < j => d(s[i]) > d(s[j])
    BY <1>8 DEF Descending
  <2>3. \A i \in 1 .. c : d(s[i]) > d(n)
    BY <1>1, <1>2, <2>1
  <2>4. \A i \in c + 1 .. l : d(s[i]) < d(n)
    <3> TAKE i \in c + 1 .. l
    <3>1. c + 1 \in 1 .. l /\ i \in 1 .. l /\ d(s[c + 1]) < d(n)
      BY <1>1, <1>2, <2>1
    <3>2. i = c + 1 \/ d(s[i]) < d(s[c + 1])
      BY <1>1, <1>2, <2>2, <3>1
    <3> QED
      BY <2>1, <3>1, <3>2
  <2> HIDE DEF d
  <2> SUFFICES ASSUME NEW i \in 1 .. l + 1, NEW j \in 1 .. l + 1, i < j
               PROVE  d(r[i]) > d(r[j])
    BY <1>4 DEF Descending, d
  <2>5. CASE j \in 1 .. c
    BY <1>1, <1>2, <1>5, <2>2, <2>5
  <2>6. CASE j = c + 1
    BY <1>1, <1>2, <1>5, <2>3, <2>6
  <2>7. CASE j - 1 \in c + 1 .. l /\ (j - 1) + 1 = j
    <3>1. r[j] = s[j - 1] /\ j - 1 \in 1 .. l
      BY <1>1, <1>2, <1>5, <2>7
    <3>2. CASE i \in 1 .. c
      BY <1>1, <1>2, <1>5, <2>2, <2>7, <3>1, <3>2
    <3>3. CASE i = c + 1
      BY <1>1, <1>2, <1>5, <2>1, <2>4, <2>7, <3>1, <3>3
    <3>4. CASE i - 1 \in c + 1 .. l /\ (i - 1) + 1 = i
      <4>1. r[i] = s[i - 1] /\ i - 1 \in 1 .. l /\ i - 1 < j - 1
        BY <1>1, <1>2, <1>5, <3>1, <3>4
      <4> QED
        BY <2>2, <3>1, <4>1
    <3> QED
      BY <1>6, <3>2, <3>3, <3>4
  <2> QED
    BY <1>6, <2>5, <2>6, <2>7
<1> QED
  BY <1>4, <1>7, <1>8 DEF r

(* The sort loses nobody and leaves the most distant node first.           *)
LEMMA SortedProperties ==
  ASSUME NEW k \in Ids, NEW s \in Seq(Ids), Distinct(s)
  PROVE  /\ Sorted(s, k) \in Seq(Ids)
         /\ Len(Sorted(s, k)) = Len(s)
         /\ Elements(Sorted(s, k)) = Elements(s)
         /\ Descending(Sorted(s, k), k)
<1> DEFINE n == Len(s)
           body(f) == [i \in 0 .. n |-> IF i = 0 THEN << >> ELSE Inserted(f[i - 1], s[i], k)]
           step == [p \in Nat \X Seq(Ids) |->
                      IF p[1] \in 1 .. n THEN Inserted(p[2], s[p[1]], k) ELSE p[2]]
<1>1. n \in Nat /\ \A i \in 1 .. n : s[i] \in Ids
  OBVIOUS
<1>2. ASSUME NEW i \in 1 .. n, NEW t \in Seq(Ids) PROVE Inserted(t, s[i], k) \in Seq(Ids)
  BY <1>1, InsertedProperties
<1>3. step \in [Nat \X Seq(Ids) -> Seq(Ids)] /\ << >> \in Seq(Ids)
  BY <1>2
<1>4. ASSUME NEW i \in 1 .. n, NEW t \in Seq(Ids) PROVE step[<<i, t>>] = Inserted(t, s[i], k)
  BY <1>1
<1> HIDE DEF step
<1>5. PICK f : Iterates(f, n, Seq(Ids), << >>, step)
  BY <1>1, <1>3, IteratesExists
<1>6. /\ f \in [0 .. n -> Seq(Ids)] /\ f[0] = << >>
      /\ \A i \in 1 .. n : f[i] = step[<<i, f[i - 1]>>]
  BY <1>5 DEF Iterates
<1>7. ASSUME NEW i \in 0 .. n PROVE f[i] = IF i = 0 THEN << >> ELSE Inserted(f[i - 1], s[i], k)
  <2>1. CASE i # 0
    <3>1. i \in 1 .. n /\ i - 1 \in 0 .. n
      BY <1>1, <2>1
    <3> QED
      BY <1>4, <1>6, <2>1, <3>1
  <2> QED
    BY <1>6, <2>1
<1>8. f = body(f)
  BY <1>6, <1>7
<1> DEFINE upto == CHOOSE g : g = body(g)
<1>9. upto = body(upto)
  <2> HIDE DEF body
  <2> QED
    BY <1>8
<1>10. Sorted(s, k) = upto[n]
  BY DEF Sorted
<1> HIDE DEF upto
<1>11. ASSUME NEW i \in 0 .. n
       PROVE  upto[i] = IF i = 0 THEN << >> ELSE Inserted(upto[i - 1], s[i], k)
  BY <1>9
<1> DEFINE Good(i) == /\ upto[i] \in Seq(Ids)
                      /\ Len(upto[i]) = i
                      /\ Elements(upto[i]) = {s[j] : j \in 1 .. i}
                      /\ Descending(upto[i], k)
           T == {i \in Nat : i =< n => Good(i)}
<1>12. 0 \in T
  <2>1. upto[0] = << >>
    BY <1>1, <1>11
  <2>2. Elements(<< >>) = {s[j] : j \in 1 .. 0} /\ Descending(<< >>, k)
    BY DEF Elements, Descending
  <2>3. << >> \in Seq(Ids) /\ Len(<< >>) = 0
    OBVIOUS
  <2>4. Good(0)
    BY <2>1, <2>2, <2>3
  <2> HIDE DEF Good
  <2> QED
    BY <2>4
<1>13. ASSUME NEW i \in T PROVE i + 1 \in T
  <2> SUFFICES ASSUME i + 1 =< n PROVE Good(i + 1)
    OBVIOUS
  <2> DEFINE t == upto[i]
             e == s[i + 1]
  <2>1. i + 1 \in 0 .. n /\ i + 1 # 0 /\ (i + 1) - 1 = i /\ i + 1 \in 1 .. n /\ Good(i)
    BY <1>1
  <2>2. t \in Seq(Ids) /\ Len(t) = i /\ Elements(t) = {s[j] : j \in 1 .. i} /\ Descending(t, k)
    BY <2>1
  <2>3. upto[i + 1] = Inserted(t, e, k)
    BY <1>11, <2>1
  <2>4. e \in Ids /\ e \notin {s[j] : j \in 1 .. i}
    BY <1>1, <2>1 DEF Distinct
  <2>5. {s[j] : j \in 1 .. i + 1} = {s[j] : j \in 1 .. i} \cup {e}
    <3>1. 1 .. i + 1 = (1 .. i) \cup {i + 1}
      BY <2>1
    <3> QED
      BY <3>1
  <2> HIDE DEF t, e
  <2>6. /\ Inserted(t, e, k) \in Seq(Ids) /\ Len(Inserted(t, e, k)) = Len(t) + 1
        /\ Elements(Inserted(t, e, k)) = Elements(t) \cup {e}
        /\ Descending(Inserted(t, e, k), k)
    BY <2>2, <2>4, InsertedProperties
  <2> QED
    BY <2>2, <2>3, <2>5, <2>6
<1> HIDE DEF T
<1>14. T = Nat
  BY <1>12, <1>13, SetInduction DEF T
<1>15. Good(n)
  <2>1. n \in T /\ n =< n
    BY <1>1, <1>14
  <2> HIDE DEF Good
  <2> QED
    BY <2>1 DEF T
<1> QED
  BY <1>10, <1>15 DEF Elements

(* addNodes takes as many of the bucket's peers as fit.                    *)
LEMMA AddNodesProperties ==
  ASSUME NEW nodes \in Seq(Ids), NEW c \in Seq(Ids), Len(c) =< BIT_SIZE, NEW k
  PROVE  LET r      == addNodes(k, nodes, c)
             others == Elements(nodes) \ {k}
         IN  /\ r \in Seq(Ids)
             /\ Len(c) =< Len(r)
             /\ Len(r) =< BIT_SIZE
             /\ Elements(r) \subseteq Elements(c) \cup others
             /\ Len(r) = BIT_SIZE \/ Elements(r) = Elements(c) \cup others
             /\ (Distinct(c) /\ Distinct(nodes) /\ Elements(c) \cap others = {})
                  => Distinct(r)
<1> DEFINE w == Without(nodes, k)
           room == BIT_SIZE - Len(c)
           m == IF room =< Len(w) THEN room ELSE Len(w)
           p == SubSeq(w, 1, m)
<1>1. w \in Seq(Ids) /\ Elements(w) = Elements(nodes) \ {k} /\ (Distinct(nodes) => Distinct(w))
  BY WithoutProperties
<1>2. addNodes(k, nodes, c) = c \o p
  BY DEF addNodes, Least
<1> HIDE DEF w
<1>3. m \in 0 .. Len(w) /\ Len(c) \in Nat /\ BIT_SIZE \in Nat
  BY <1>1, BitSizeAssumption
<1>4. (m = Len(w) \/ Len(c) + m = BIT_SIZE) /\ Len(c) + m =< BIT_SIZE
  BY <1>1, <1>3
<1> HIDE DEF m
<1>5. /\ p \in Seq(Ids) /\ Len(p) = m /\ Elements(p) \subseteq Elements(w)
      /\ (m = Len(w) => Elements(p) = Elements(w))
      /\ (Distinct(w) => Distinct(p))
  BY <1>1, <1>3, PrefixElements
<1> HIDE DEF p
<1>6. /\ c \o p \in Seq(Ids) /\ Elements(c \o p) = Elements(c) \cup Elements(p)
      /\ ((Distinct(c) /\ Distinct(p) /\ Elements(c) \cap Elements(p) = {}) => Distinct(c \o p))
  BY <1>5, ConcatElements
<1>7. Len(c \o p) = Len(c) + m
  BY <1>5
<1> QED
  BY <1>1, <1>2, <1>3, <1>4, <1>5, <1>6, <1>7

-----------------------------------------------------------------------------
(* The peers of the buckets I that an answer to k may name.                *)
Others(I, k) == (UNION {Elements(buckets[i]) : i \in I}) \ {k}

(* The state of findNode's list c once it has visited the buckets I.       *)
Gathered(c, k, I) ==
  /\ c \in Seq(Ids)
  /\ Len(c) =< BIT_SIZE
  /\ Distinct(c)
  /\ Elements(c) \subseteq Others(I, k)
  /\ Len(c) >= ALPHA \/ Elements(c) = Others(I, k)

LEMMA VisitBucket ==
  ASSUME TypeOK, TableWellFormed, NEW k, NEW I \in SUBSET Indices,
         NEW c, Gathered(c, k, I), NEW i \in Indices \ I
  PROVE  Gathered(addNodes(k, buckets[i], c), k, I \cup {i})
<1> DEFINE nodes == buckets[i]
           others == Elements(nodes) \ {k}
           r == addNodes(k, nodes, c)
<1>1. nodes \in Seq(Ids) /\ Distinct(nodes)
  BY DEF TypeOK, TableWellFormed, NoDuplicates
<1>2. /\ c \in Seq(Ids) /\ Len(c) =< BIT_SIZE /\ Distinct(c)
      /\ Elements(c) \subseteq Others(I, k)
      /\ Len(c) >= ALPHA \/ Elements(c) = Others(I, k)
  BY DEF Gathered
<1>3. Others(I \cup {i}, k) = Others(I, k) \cup others
  BY DEF Others
<1>4. Others(I, k) \cap others = {}
  <2> SUFFICES ASSUME NEW x \in others, NEW j \in I, x \in Elements(buckets[j]) PROVE FALSE
    BY DEF Others
  <2>1. Index(x) = i
    BY PeersInPlace
  <2>2. Index(x) = j
    BY PeersInPlace
  <2> QED
    BY <2>1, <2>2
<1> HIDE DEF nodes
<1>5. /\ r \in Seq(Ids) /\ Len(c) =< Len(r) /\ Len(r) =< BIT_SIZE
      /\ Elements(r) \subseteq Elements(c) \cup others
      /\ Len(r) = BIT_SIZE \/ Elements(r) = Elements(c) \cup others
      /\ (Distinct(c) /\ Distinct(nodes) /\ Elements(c) \cap others = {}) => Distinct(r)
  BY <1>1, <1>2, AddNodesProperties
<1> HIDE DEF r, others
<1>6. Elements(c) \cap others = {}
  BY <1>2, <1>4
<1>7. Len(r) >= ALPHA \/ Elements(r) = Others(I, k) \cup others
  <2>1. CASE Len(r) = BIT_SIZE \/ Len(c) >= ALPHA
    BY <2>1, <1>2, <1>5, AlphaAssumption, BitSizeAssumption
  <2>2. CASE Elements(r) = Elements(c) \cup others /\ Elements(c) = Others(I, k)
    BY <2>2
  <2> QED
    BY <2>1, <2>2, <1>2, <1>5
<1>8. Gathered(r, k, I \cup {i})
  BY <1>1, <1>2, <1>3, <1>5, <1>6, <1>7 DEF Gathered
<1> QED
  BY <1>8 DEF r, nodes

(* The next bucket in one direction, if there is one.                      *)
LEMMA VisitNext ==
  ASSUME TypeOK, TableWellFormed, NEW k, NEW I \in SUBSET Indices,
         NEW c, Gathered(c, k, I), NEW which \in SUBSET (Indices \ I),
         \A i, j \in which : i = j
  PROVE  Gathered(AddBucket(k, buckets, which, c), k, I \cup which)
<1>1. CASE which = {}
  BY <1>1 DEF AddBucket
<1>2. CASE which # {}
  <2> DEFINE i == CHOOSE i \in which : TRUE
  <2>1. i \in which /\ which = {i}
    BY <1>2
  <2>2. AddBucket(k, buckets, which, c) = addNodes(k, buckets[i], c)
    BY <1>2 DEF AddBucket
  <2> HIDE DEF i
  <2>3. i \in Indices \ I
    BY <2>1
  <2>4. Gathered(addNodes(k, buckets[i], c), k, I \cup {i})
    BY <2>3, VisitBucket
  <2> QED
    BY <2>1, <2>2, <2>4
<1> QED
  BY <1>1, <1>2

(* The loop may stop where it finds ALPHA entries.                         *)
LEMMA StopEarly ==
  ASSUME NEW k, NEW I, NEW J, I \subseteq J, NEW c, Gathered(c, k, I), Len(c) = ALPHA
  PROVE  Gathered(c, k, J)
  BY AlphaAssumption DEF Gathered, Others

-----------------------------------------------------------------------------
(* The buckets findNode has visited after r rounds: its own and the r      *)
(* nearest existing ones on either side.                                   *)

Between(keys, a, b) == {j \in keys : a < j /\ j < b}

Seen(keys, b, r) ==
  {i \in keys \cup {b} : \/ i = b
                         \/ i > b /\ Cardinality(Between(keys, b, i)) < r
                         \/ i < b /\ Cardinality(Between(keys, i, b)) < r}

LEMMA BetweenFinite ==
  ASSUME NEW keys \in SUBSET Indices, NEW a \in Int, NEW b \in Int
  PROVE  /\ IsFiniteSet(Between(keys, a, b)) /\ Cardinality(Between(keys, a, b)) \in Nat
         /\ a \in Indices /\ b \in Indices => Cardinality(Between(keys, a, b)) < BIT_SIZE
<1>1. BIT_SIZE - 1 \in Int /\ 0 \in Int /\ 1 \in Int
  BY BitSizeAssumption
<1>2. IsFiniteSet(Indices)
  BY <1>1, FS_Interval DEF Indices
<1>3. IsFiniteSet(Between(keys, a, b))
  BY <1>2, FS_Subset DEF Between
<1>4. ASSUME a \in Indices, b \in Indices PROVE Cardinality(Between(keys, a, b)) < BIT_SIZE
  <2>1. IsFiniteSet(1 .. BIT_SIZE - 1) /\ Cardinality(1 .. BIT_SIZE - 1) = BIT_SIZE - 1
    BY <1>1, FS_Interval, BitSizeAssumption
  <2>2. Between(keys, a, b) \in SUBSET (1 .. BIT_SIZE - 1)
    <3>1. ASSUME NEW j \in Between(keys, a, b) PROVE j \in 1 .. BIT_SIZE - 1
      <4>1. j \in 0 .. BIT_SIZE - 1 /\ a \in 0 .. BIT_SIZE - 1 /\ a < j
        BY <1>4 DEF Between, Indices
      <4> QED
        BY <1>1, <4>1
    <3> QED
      BY <3>1
  <2>3. Cardinality(Between(keys, a, b)) =< BIT_SIZE - 1
    BY <2>1, <2>2, FS_Subset
  <2> QED
    BY <2>3, <1>3, FS_CardinalityType, BitSizeAssumption
<1> QED
  BY <1>3, <1>4, FS_CardinalityType

(* A longer interval with the same number of keys has the same keys.       *)
LEMMA BetweenStrict ==
  ASSUME NEW keys \in SUBSET Indices, NEW a \in Int, NEW b \in Int, NEW c \in Int, NEW d \in Int,
         c =< a, b =< d,
         Cardinality(Between(keys, a, b)) = Cardinality(Between(keys, c, d))
  PROVE  Between(keys, a, b) = Between(keys, c, d)
<1>1. Between(keys, a, b) \in SUBSET Between(keys, c, d)
  <2> SUFFICES ASSUME NEW j \in keys, a < j, j < b PROVE c < j /\ j < d
    BY DEF Between
  <2>1. j \in Int
    BY DEF Indices
  <2> QED
    BY <2>1
<1>2. IsFiniteSet(Between(keys, c, d))
  BY BetweenFinite
<1> QED
  BY <1>1, <1>2, FS_Subset

(* At most one bucket is the r-th one above, and at most one below.        *)
LEMMA NthUnique ==
  ASSUME NEW keys \in SUBSET Indices, NEW b \in Indices, NEW r
  PROVE  /\ \A i, j \in NthAbove(keys, b, r) : i = j
         /\ \A i, j \in NthBelow(keys, b, r) : i = j
<1>0. Indices \subseteq Int
  BY DEF Indices
<1>1. ASSUME NEW i \in NthAbove(keys, b, r), NEW j \in NthAbove(keys, b, r), i < j PROVE FALSE
  <2>1. i \in keys /\ b < i /\ {i, j, b} \subseteq Int
    BY <1>0 DEF NthAbove
  <2>2. Cardinality(Between(keys, b, i)) = Cardinality(Between(keys, b, j))
    BY DEF NthAbove, Between
  <2>3. Between(keys, b, i) = Between(keys, b, j)
    BY <1>1, <2>1, <2>2, BetweenStrict
  <2> QED
    BY <1>1, <2>1, <2>3 DEF Between
<1>2. ASSUME NEW i \in NthBelow(keys, b, r), NEW j \in NthBelow(keys, b, r), i < j PROVE FALSE
  <2>1. j \in keys /\ j < b /\ {i, j, b} \subseteq Int
    BY <1>0 DEF NthBelow
  <2>2. Cardinality(Between(keys, j, b)) = Cardinality(Between(keys, i, b))
    BY DEF NthBelow, Between
  <2>3. Between(keys, j, b) = Between(keys, i, b)
    BY <1>2, <2>1, <2>2, BetweenStrict
  <2> QED
    BY <1>2, <2>1, <2>3 DEF Between
<1>3. NthAbove(keys, b, r) \subseteq Int /\ NthBelow(keys, b, r) \subseteq Int
  BY <1>0 DEF NthAbove, NthBelow
<1> QED
  BY <1>1, <1>2, <1>3

(* A round adds the next bucket on either side; BIT_SIZE rounds add all.   *)
LEMMA SeenStep ==
  ASSUME NEW keys \in SUBSET Indices, NEW b \in Indices, NEW r \in Nat \ {0}
  PROVE  LET above == NthAbove(keys, b, r)
             below == NthBelow(keys, b, r)
         IN  /\ Seen(keys, b, r - 1) \in SUBSET Indices
             /\ above \in SUBSET (Indices \ Seen(keys, b, r - 1))
             /\ below \in SUBSET (Indices \ (Seen(keys, b, r - 1) \cup above))
             /\ Seen(keys, b, r) = (Seen(keys, b, r - 1) \cup above) \cup below
<1>0. Indices \subseteq Int
  BY DEF Indices
<1>1. \A i \in keys : /\ Cardinality(Between(keys, b, i)) \in Nat
                      /\ Cardinality(Between(keys, i, b)) \in Nat
  BY <1>0, BetweenFinite
<1>2. NthAbove(keys, b, r) = {i \in keys : i > b /\ Cardinality(Between(keys, b, i)) = r - 1}
  BY DEF NthAbove, Between
<1>3. NthBelow(keys, b, r) = {i \in keys : i < b /\ Cardinality(Between(keys, i, b)) = r - 1}
  BY DEF NthBelow, Between
<1>4. \A i \in keys : i \in Int
  BY <1>0
<1>5. Seen(keys, b, r - 1) \in SUBSET Indices
  BY DEF Seen
<1>a. ASSUME NEW i \in keys, i > b, Cardinality(Between(keys, b, i)) = r - 1
      PROVE  i \notin Seen(keys, b, r - 1) /\ i \in Int /\ b \in Int
  BY <1>0, <1>1, <1>a DEF Seen
<1>b. ASSUME NEW i \in keys, i < b, Cardinality(Between(keys, i, b)) = r - 1
      PROVE  i \notin Seen(keys, b, r - 1) /\ i \in Int /\ b \in Int
  BY <1>0, <1>1, <1>b DEF Seen
<1>6. NthAbove(keys, b, r) \cap Seen(keys, b, r - 1) = {}
  BY <1>2, <1>a
<1>7. NthBelow(keys, b, r) \cap (Seen(keys, b, r - 1) \cup NthAbove(keys, b, r)) = {}
  <2>1. NthBelow(keys, b, r) \cap Seen(keys, b, r - 1) = {}
    BY <1>3, <1>b
  <2>2. NthBelow(keys, b, r) \cap NthAbove(keys, b, r) = {}
    <3>1. ASSUME NEW i \in keys, i < b, i > b PROVE FALSE
      BY <1>0, <3>1
    <3> QED
      BY <1>2, <1>3, <3>1
  <2> QED
    BY <2>1, <2>2
<1>8. Seen(keys, b, r) = (Seen(keys, b, r - 1) \cup NthAbove(keys, b, r)) \cup NthBelow(keys, b, r)
  <2>1. ASSUME NEW n \in Nat PROVE n < r <=> (n < r - 1 \/ n = r - 1)
    OBVIOUS
  <2> QED
    BY <1>1, <1>2, <1>3, <2>1 DEF Seen
<1> QED
  BY <1>2, <1>3, <1>5, <1>6, <1>7, <1>8

LEMMA SeenAll ==
  ASSUME NEW keys \in SUBSET Indices, NEW b \in Indices
  PROVE  keys \subseteq Seen(keys, b, BIT_SIZE) /\ Seen(keys, b, 0) = {b}
<1>0. Indices \subseteq Int
  BY DEF Indices
<1>1. \A i \in keys : /\ Cardinality(Between(keys, b, i)) < BIT_SIZE
                      /\ Cardinality(Between(keys, i, b)) < BIT_SIZE
                      /\ Cardinality(Between(keys, b, i)) \in Nat
                      /\ Cardinality(Between(keys, i, b)) \in Nat
  BY <1>0, BetweenFinite
<1>2. keys \subseteq Seen(keys, b, BIT_SIZE)
  BY <1>0, <1>1 DEF Seen
<1>3. Seen(keys, b, 0) = {b}
  <2>1. \A n \in Nat : ~ (n < 0)
    OBVIOUS
  <2> QED
    BY <1>1, <2>1 DEF Seen
<1> QED
  BY <1>2, <1>3

-----------------------------------------------------------------------------
(* The list findNode sorts: every round keeps Gathered true of what has    *)
(* been seen, and after BIT_SIZE rounds that is the whole table.           *)
LEMMA CollectedGathers ==
  ASSUME TypeOK, TableWellFormed, NEW k \in Ids
  PROVE  Gathered(Collected(self, Elements(order), buckets, k, ALPHA), k, Indices)
<1> DEFINE keys == Elements(order)
           b == Index(k)
           S == {c \in Seq(Ids) : Len(c) =< BIT_SIZE}
           round(r, c) == IF Len(c) = ALPHA THEN c
                          ELSE AddBucket(k, buckets, NthBelow(keys, b, r),
                                 AddBucket(k, buckets, NthAbove(keys, b, r), c))
           start == addNodes(k, buckets[b], << >>)
           body(f) == [r \in 0 .. BIT_SIZE |->
                         IF r = 0 THEN start ELSE round(r, f[r - 1])]
           step == [p \in Nat \X S |-> IF p[1] \in 1 .. BIT_SIZE THEN round(p[1], p[2]) ELSE p[2]]
<1>1. keys \in SUBSET Indices /\ b \in Indices /\ BIT_SIZE \in Nat
  BY IndexType, BitSizeAssumption DEF TypeOK, Elements
<1>2. ASSUME NEW c \in S, NEW i \in Indices PROVE addNodes(k, buckets[i], c) \in S
  BY AddNodesProperties DEF TypeOK
<1>3. ASSUME NEW c \in S, NEW which \in SUBSET Indices
      PROVE  AddBucket(k, buckets, which, c) \in S
  BY <1>2 DEF AddBucket
<1>4. \A r : NthAbove(keys, b, r) \in SUBSET Indices /\ NthBelow(keys, b, r) \in SUBSET Indices
  BY <1>1 DEF NthAbove, NthBelow
<1>5. << >> \in S /\ start \in S
  <2>1. << >> \in S
    BY <1>1
  <2> QED
    BY <1>1, <1>2, <2>1
<1> HIDE DEF start
<1>6. ASSUME NEW c \in S, NEW r PROVE round(r, c) \in S
  BY <1>3, <1>4
<1> HIDE DEF round, S
<1>7. step \in [Nat \X S -> S]
  BY <1>6
<1>8. ASSUME NEW r \in 1 .. BIT_SIZE, NEW c \in S PROVE step[<<r, c>>] = round(r, c)
  OBVIOUS
<1> HIDE DEF step
<1>9. PICK f : Iterates(f, BIT_SIZE, S, start, step)
  BY <1>1, <1>5, <1>7, IteratesExists
<1>10. /\ f \in [0 .. BIT_SIZE -> S] /\ f[0] = start
       /\ \A r \in 1 .. BIT_SIZE : f[r] = step[<<r, f[r - 1]>>]
  BY <1>9 DEF Iterates
<1>11. ASSUME NEW r \in 0 .. BIT_SIZE
       PROVE  f[r] = IF r = 0 THEN start ELSE round(r, f[r - 1])
  <2>1. CASE r # 0
    <3>1. r \in 1 .. BIT_SIZE /\ r - 1 \in 0 .. BIT_SIZE
      BY <1>1, <2>1
    <3> QED
      BY <1>8, <1>10, <2>1, <3>1
  <2> QED
    BY <1>10, <2>1
<1>12. f = body(f)
  BY <1>10, <1>11
<1> DEFINE after == CHOOSE g : g = body(g)
<1>13. after = body(after)
  <2> HIDE DEF body
  <2> QED
    BY <1>12
<1>14. Collected(self, keys, buckets, k, ALPHA) = after[BIT_SIZE]
  BY DEF Collected, Index, start, round
<1> HIDE DEF after
<1>15. ASSUME NEW r \in 0 .. BIT_SIZE
       PROVE  after[r] = IF r = 0 THEN start ELSE round(r, after[r - 1])
  BY <1>13
<1> DEFINE Good(r) == Gathered(after[r], k, Seen(keys, b, r))
           T == {r \in Nat : r =< BIT_SIZE => Good(r)}
<1>16. 0 \in T
  <2>1. Gathered(<< >>, k, {})
    BY <1>1 DEF Gathered, Others, Distinct, Elements
  <2>2. Gathered(start, k, {} \cup {b})
    BY <1>1, <2>1, VisitBucket DEF start
  <2>3. Good(0)
    BY <1>1, <1>15, <2>2, SeenAll
  <2> HIDE DEF Good
  <2> QED
    BY <2>3
<1>17. ASSUME NEW n \in T PROVE n + 1 \in T
  <2> SUFFICES ASSUME n + 1 =< BIT_SIZE PROVE Good(n + 1)
    OBVIOUS
  <2> DEFINE r == n + 1
             c == after[n]
             I == Seen(keys, b, n)
             above == NthAbove(keys, b, r)
             below == NthBelow(keys, b, r)
  <2>1. r \in 0 .. BIT_SIZE /\ r \in Nat \ {0} /\ r - 1 = n /\ n =< BIT_SIZE
    BY <1>1
  <2>2. Gathered(c, k, I)
    BY <2>1
  <2>3. /\ I \in SUBSET Indices /\ above \in SUBSET (Indices \ I)
        /\ below \in SUBSET (Indices \ (I \cup above))
        /\ Seen(keys, b, r) = (I \cup above) \cup below
    <3> HIDE DEF keys, b, r
    <3>1. /\ Seen(keys, b, r - 1) \in SUBSET Indices
          /\ above \in SUBSET (Indices \ Seen(keys, b, r - 1))
          /\ below \in SUBSET (Indices \ (Seen(keys, b, r - 1) \cup above))
          /\ Seen(keys, b, r) = (Seen(keys, b, r - 1) \cup above) \cup below
      BY <1>1, <2>1, SeenStep
    <3> QED
      BY <2>1, <3>1
  <2>4. (\A i, j \in above : i = j) /\ (\A i, j \in below : i = j)
    BY <1>1, NthUnique
  <2>5. after[r] = round(r, c)
    BY <1>15, <2>1
  <2>6. CASE Len(c) = ALPHA
    <3>1. after[r] = c
      BY <2>5, <2>6 DEF round
    <3> HIDE DEF c, I, above, below
    <3> QED
      BY <2>2, <2>3, <2>6, <3>1, StopEarly
  <2>7. CASE Len(c) # ALPHA
    <3>1. after[r] = AddBucket(k, buckets, below, AddBucket(k, buckets, above, c))
      BY <2>5, <2>7 DEF round
    <3> HIDE DEF c, I, above, below
    <3>2. Gathered(AddBucket(k, buckets, above, c), k, I \cup above)
      BY <2>2, <2>3, <2>4, VisitNext
    <3>3. I \cup above \in SUBSET Indices
      BY <2>3
    <3>4. Gathered(AddBucket(k, buckets, below, AddBucket(k, buckets, above, c)), k,
                   (I \cup above) \cup below)
      BY <2>3, <2>4, <3>2, <3>3, VisitNext
    <3> QED
      BY <2>3, <3>1, <3>4
  <2> QED
    BY <2>6, <2>7
<1> HIDE DEF T
<1>18. T = Nat
  BY <1>16, <1>17, SetInduction DEF T
<1>19. Good(BIT_SIZE)
  <2>1. BIT_SIZE \in T /\ BIT_SIZE =< BIT_SIZE
    BY <1>1, <1>18
  <2> HIDE DEF Good
  <2> QED
    BY <2>1 DEF T
<1>20. Others(Seen(keys, b, BIT_SIZE), k) = Others(Indices, k)
  <2>1. keys \subseteq Seen(keys, b, BIT_SIZE) /\ Seen(keys, b, BIT_SIZE) \subseteq Indices
    BY <1>1, SeenAll DEF Seen
  <2>2. ASSUME NEW i \in Indices \ keys PROVE Elements(buckets[i]) = {}
    <3>1. buckets[i] = << >>
      BY DEF TableWellFormed, OrderCoversTable
    <3> QED
      BY <3>1 DEF Elements
  <2> QED
    BY <2>1, <2>2 DEF Others
<1> QED
  BY <1>14, <1>19, <1>20 DEF Gathered

(* What an answer to k is made of.                                         *)
LEMMA AnswerProperties ==
  ASSUME TypeOK, TableWellFormed, NEW k \in Ids
  PROVE  LET r == Answer(k)
         IN  /\ r \in Seq(Ids)
             /\ Elements(r) \subseteq Known \ {k}
             /\ Len(r) =< BIT_SIZE
             /\ Descending(r, k)
             /\ Len(r) >= ALPHA \/ Elements(r) = Known \ {k}
<1> DEFINE c == Collected(self, Elements(order), buckets, k, ALPHA)
<1>1. Others(Indices, k) = Known \ {k}
  BY DEF Others, Known
<1>2. /\ c \in Seq(Ids) /\ Len(c) =< BIT_SIZE /\ Distinct(c)
      /\ Elements(c) \subseteq Known \ {k}
      /\ Len(c) >= ALPHA \/ Elements(c) = Known \ {k}
  BY <1>1, CollectedGathers DEF Gathered
<1>3. Answer(k) = Sorted(c, k)
  BY DEF Answer, findNode
<1> HIDE DEF c
<1> QED
  BY <1>2, <1>3, SortedProperties

(* A FIND_NODE answer always holds known peers only, none of them twice,   *)
(* never the asker, at most BIT_SIZE of them, the most distant first.      *)
THEOREM AnswersSound == Spec => []FindNodeSound
<1>1. TypeOK /\ TableWellFormed => FindNodeSound
  BY AnswerProperties DEF FindNodeSound, Descending
<1> QED
  BY <1>1, TypeCorrect, WellFormed, PTL

(* A FIND_NODE answer always has ALPHA entries or every known peer but the *)
(* asker: the rounds that jump over count end at the last bucket.          *)
THEOREM AnswersEnough == Spec => []FindNodeEnough
<1>1. TypeOK /\ TableWellFormed => FindNodeEnough
  BY AnswerProperties DEF FindNodeEnough
<1> QED
  BY <1>1, TypeCorrect, WellFormed, PTL

=============================================================================
