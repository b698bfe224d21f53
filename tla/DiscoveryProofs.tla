--------------------------- MODULE DiscoveryProofs ---------------------------
(***************************************************************************)
(* Discovery keeps its types, for every key space and set of nodes that    *)
(* NothingCut allows, any number of rounds at a time and any faults.       *)
(***************************************************************************)
EXTENDS Discovery, ListsProofs

(* The bucket of any id is one of the table's indices.                     *)
LEMMA IndexType == \A n, p : getBucketIndex(n, p) \in Indices
<1> TAKE n, p
<1> DEFINE D == DifferingBits(n, p)
<1>1. BIT_SIZE - 1 \in Nat /\ D \in SUBSET (0 .. BIT_SIZE - 1)
  BY BitSizeAssumption DEF DifferingBits, Indices
<1> HIDE DEF D
<1>2. CASE D = {}
  <2>1. getBucketIndex(n, p) = BIT_SIZE - 1
    BY <1>2 DEF getBucketIndex, D
  <2> QED
    BY <2>1, <1>1, BitSizeAssumption DEF Indices
<1>3. CASE D # {}
  <2>1. \E i \in D : \A j \in D : j =< i
    BY <1>1, <1>3, GreatestExists
  <2>2. getBucketIndex(n, p) = CHOOSE i \in D : \A j \in D : j =< i
    BY <1>3 DEF getBucketIndex, D
  <2>3. getBucketIndex(n, p) \in D
    BY <2>1, <2>2
  <2> QED
    BY <2>3, <1>1 DEF Indices
<1> QED
  BY <1>2, <1>3

-----------------------------------------------------------------------------
(* An answer to k is a list of ids, k not among them.                      *)

Lists(k) == {c \in Seq(Ids \ {k}) : Len(c) =< BIT_SIZE}

LEMMA SeqOfOthers ==
  ASSUME NEW w \in Seq(Ids), NEW k, k \notin Elements(w)
  PROVE  w \in Seq(Ids \ {k})
<1>1. \A i \in 1 .. Len(w) : w[i] \in Elements(w) /\ w[i] \in Ids
  BY DEF Elements
<1>2. Len(w) \in Nat /\ w \in [1 .. Len(w) -> Ids \ {k}]
  BY <1>1
<1> QED
  BY <1>2

(* A bucket as a list.                                                     *)
LEMMA BucketType ==
  ASSUME NEW n, NEW T \in SUBSET Ids, NEW i
  PROVE  Sequence!SetToSeq(InBucket(n, T, i)) \in Seq(Ids)
<1> DEFINE B == InBucket(n, T, i)
<1>1. IsFiniteSet(B) /\ B \subseteq Ids
  <2>1. HASH_SIZE - 1 \in Int /\ 0 \in Int
    BY HashSizeAssumption
  <2>2. IsFiniteSet(0 .. HASH_SIZE - 1)
    BY <2>1, FS_Interval
  <2>3. B \in SUBSET (0 .. HASH_SIZE - 1)
    BY IdsAssumption DEF InBucket
  <2> QED
    BY <2>2, <2>3, FS_Subset DEF InBucket
<1> HIDE DEF B
<1>2. Cardinality(B) \in Nat /\ ExistsBijection(1 .. Cardinality(B), B)
  BY <1>1, FS_CardinalityType
<1>3. \E f \in [1 .. Cardinality(B) -> B] : Sequence!IsInjective(f)
  BY <1>2 DEF ExistsBijection, Bijection, Injection, IsInjective, Sequence!IsInjective
<1>a. Sequence!Cardinality(B) = Cardinality(B)
  BY Zenon DEF Sequence!Cardinality, Cardinality
<1>4. Sequence!SetToSeq(B) \in [1 .. Cardinality(B) -> B]
  BY <1>3, <1>a DEF Sequence!SetToSeq
<1>5. Sequence!SetToSeq(B) \in Seq(B)
  BY <1>2, <1>4
<1> QED
  BY <1>1, <1>5 DEF B

(* addNodes drops the key and stops at BIT_SIZE.                           *)
LEMMA AddNodesType ==
  ASSUME NEW k, NEW nodes \in Seq(Ids), NEW c \in Lists(k)
  PROVE  addNodes(k, nodes, c) \in Lists(k)
<1> DEFINE w == Without(nodes, k)
           room == BIT_SIZE - Len(c)
           m == IF room =< Len(w) THEN room ELSE Len(w)
           p == SubSeq(w, 1, m)
<1>1. w \in Seq(Ids) /\ Elements(w) = Elements(nodes) \ {k}
  BY WithoutProperties
<1>2. addNodes(k, nodes, c) = c \o p
  BY DEF addNodes, Least
<1>3. w \in Seq(Ids \ {k})
  BY <1>1, SeqOfOthers
<1> HIDE DEF w
<1>4. c \in Seq(Ids \ {k}) /\ Len(c) =< BIT_SIZE /\ BIT_SIZE \in Nat
  BY BitSizeAssumption DEF Lists
<1>5. m \in 0 .. Len(w) /\ Len(c) + m =< BIT_SIZE
  BY <1>3, <1>4
<1> HIDE DEF m
<1>6. p \in Seq(Ids \ {k}) /\ Len(p) = m
  BY <1>3, <1>5, PrefixElements
<1> QED
  BY <1>2, <1>4, <1>5, <1>6 DEF Lists

LEMMA CollectedType ==
  ASSUME NEW n, NEW ks \in SUBSET Indices, NEW bs \in [Indices -> Seq(Ids)], NEW k, NEW count
  PROVE  Collected(n, ks, bs, k, count) \in Lists(k)
<1> DEFINE b == getBucketIndex(n, k)
           S == Lists(k)
           visit(r, c) == IF Len(c) = count THEN c
                          ELSE AddBucket(k, bs, NthBelow(ks, b, r),
                                 AddBucket(k, bs, NthAbove(ks, b, r), c))
           start == addNodes(k, bs[b], << >>)
           body(f) == [r \in 0 .. BIT_SIZE |->
                         IF r = 0 THEN start ELSE visit(r, f[r - 1])]
           step == [p \in Nat \X S |-> visit(p[1], p[2])]
<1>1. b \in Indices /\ BIT_SIZE \in Nat
  BY IndexType, BitSizeAssumption
<1>2. ASSUME NEW c \in S, NEW i \in Indices PROVE addNodes(k, bs[i], c) \in S
  BY AddNodesType
<1>3. ASSUME NEW c \in S, NEW which \in SUBSET Indices
      PROVE  AddBucket(k, bs, which, c) \in S
  BY <1>2 DEF AddBucket
<1>4. \A r : NthAbove(ks, b, r) \in SUBSET Indices /\ NthBelow(ks, b, r) \in SUBSET Indices
  BY DEF NthAbove, NthBelow
<1>5. start \in S
  <2>1. << >> \in S
    BY <1>1 DEF Lists
  <2> QED
    BY <1>1, <1>2, <2>1
<1> HIDE DEF start
<1>6. ASSUME NEW c \in S, NEW r PROVE visit(r, c) \in S
  BY <1>3, <1>4
<1> HIDE DEF visit, S
<1>7. step \in [Nat \X S -> S]
  BY <1>6
<1>8. ASSUME NEW r \in Nat, NEW c \in S PROVE step[<<r, c>>] = visit(r, c)
  OBVIOUS
<1> HIDE DEF step
<1>9. PICK f : Iterates(f, BIT_SIZE, S, start, step)
  BY <1>1, <1>5, <1>7, IteratesExists
<1>10. /\ f \in [0 .. BIT_SIZE -> S] /\ f[0] = start
       /\ \A r \in 1 .. BIT_SIZE : f[r] = step[<<r, f[r - 1]>>]
  BY <1>9 DEF Iterates
<1>11. ASSUME NEW r \in 0 .. BIT_SIZE
       PROVE  f[r] = IF r = 0 THEN start ELSE visit(r, f[r - 1])
  <2>1. CASE r # 0
    <3>1. r \in 1 .. BIT_SIZE /\ r \in Nat /\ r - 1 \in 0 .. BIT_SIZE
      BY <1>1, <2>1
    <3> QED
      BY <1>8, <1>10, <2>1, <3>1
  <2> QED
    BY <1>10, <2>1
<1>12. f = body(f)
  BY <1>10, <1>11
<1> DEFINE after == CHOOSE g : g = body(g)
<1>13. after = body(after)
  <2> HIDE DEF body
  <2> QED
    BY <1>12
<1>14. Collected(n, ks, bs, k, count) = after[BIT_SIZE]
  BY DEF Collected, start, visit
<1> HIDE DEF after
<1>15. ASSUME NEW r \in 0 .. BIT_SIZE
       PROVE  after[r] = IF r = 0 THEN start ELSE visit(r, after[r - 1])
  BY <1>13
<1> DEFINE T == {r \in Nat : r =< BIT_SIZE => after[r] \in S}
<1>16. 0 \in T
  BY <1>1, <1>5, <1>15
<1>17. ASSUME NEW r \in T PROVE r + 1 \in T
  <2> SUFFICES ASSUME r + 1 =< BIT_SIZE PROVE after[r + 1] \in S
    OBVIOUS
  <2>1. r + 1 \in 0 .. BIT_SIZE /\ r + 1 # 0 /\ (r + 1) - 1 = r /\ after[r] \in S
    BY <1>1
  <2>2. after[r + 1] = visit(r + 1, after[r])
    BY <1>15, <2>1
  <2> QED
    BY <1>6, <2>1, <2>2
<1> HIDE DEF T
<1>18. T = Nat
  BY <1>16, <1>17, SetInduction DEF T
<1>19. BIT_SIZE \in T /\ BIT_SIZE =< BIT_SIZE
  BY <1>1, <1>18
<1>20. after[BIT_SIZE] \in S
  BY <1>19 DEF T
<1> QED
  BY <1>14, <1>20 DEF S

(* One pass of the sort puts a node in some place.                         *)
LEMMA InsertedType ==
  ASSUME NEW S, NEW s \in Seq(S), NEW e \in S, NEW k
  PROVE  Inserted(s, e, k) \in Seq(S)
<1> DEFINE l == Len(s)
           Ahead(i) == XOR(s[i], k) >= XOR(e, k)
           Fits(c) == (\A i \in 1 .. c : Ahead(i)) /\ (c < l => ~Ahead(c + 1))
           c == CHOOSE x \in 0 .. l : Fits(x)
<1>1. l \in Nat /\ \A i \in 1 .. l : s[i] \in S
  OBVIOUS
<1>2. c \in 0 .. l
  <2> DEFINE D == {x \in 0 .. l : \A i \in 1 .. x : Ahead(i)}
  <2>1. D \in SUBSET (0 .. l) /\ 0 \in D
    BY <1>1
  <2>2. PICK x \in D : \A y \in D : y =< x
    <3> HIDE DEF D
    <3> QED
      BY <1>1, <2>1, GreatestExists
  <2>3. ASSUME x < l, Ahead(x + 1) PROVE FALSE
    <3>1. x + 1 \in 0 .. l /\ 1 .. x + 1 = (1 .. x) \cup {x + 1}
      BY <1>1, <2>3
    <3> HIDE DEF Ahead
    <3>2. x + 1 \in D
      BY <2>3, <3>1
    <3> QED
      BY <1>1, <2>2, <3>2
  <2>4. x \in 0 .. l /\ Fits(x)
    BY <2>2, <2>3
  <2> HIDE DEF Fits
  <2> QED
    BY <2>4
<1>3. Inserted(s, e, k) =
        [i \in 1 .. l + 1 |-> IF i =< c THEN s[i] ELSE IF i = c + 1 THEN e ELSE s[i - 1]]
  BY DEF Inserted
<1> HIDE DEF c
<1>4. \A i \in 1 .. l + 1 :
        (IF i =< c THEN s[i] ELSE IF i = c + 1 THEN e ELSE s[i - 1]) \in S
  BY <1>1, <1>2
<1>5. Inserted(s, e, k) \in [1 .. l + 1 -> S] /\ l + 1 \in Nat
  BY <1>1, <1>3, <1>4
<1> QED
  BY <1>5

LEMMA SortedType ==
  ASSUME NEW S, NEW s \in Seq(S), NEW k
  PROVE  Sorted(s, k) \in Seq(S)
<1> DEFINE n == Len(s)
           Q == Seq(S)
           body(f) == [i \in 0 .. n |-> IF i = 0 THEN << >> ELSE Inserted(f[i - 1], s[i], k)]
           step == [p \in Nat \X Q |->
                      IF p[1] \in 1 .. n THEN Inserted(p[2], s[p[1]], k) ELSE p[2]]
<1>1. n \in Nat /\ \A i \in 1 .. n : s[i] \in S
  OBVIOUS
<1>2. ASSUME NEW i \in 1 .. n, NEW t \in Q PROVE Inserted(t, s[i], k) \in Q
  BY <1>1, InsertedType
<1>a. << >> \in Q
  OBVIOUS
<1> HIDE DEF Q
<1>3. step \in [Nat \X Q -> Q]
  BY <1>2
<1>4. ASSUME NEW i \in 1 .. n, NEW t \in Q PROVE step[<<i, t>>] = Inserted(t, s[i], k)
  BY <1>1
<1> HIDE DEF step
<1>5. PICK f : Iterates(f, n, Q, << >>, step)
  BY <1>1, <1>a, <1>3, IteratesExists
<1>6. /\ f \in [0 .. n -> Q] /\ f[0] = << >>
      /\ \A i \in 1 .. n : f[i] = step[<<i, f[i - 1]>>]
  BY <1>5 DEF Iterates
<1>7. ASSUME NEW i \in 0 .. n PROVE f[i] = IF i = 0 THEN << >> ELSE Inserted(f[i - 1], s[i], k)
  <2>1. CASE i # 0
    <3>1. i \in 1 .. n /\ i - 1 \in 0 .. n
      BY <1>1, <2>1
    <3> QED
      BY <1>4, <1>6, <2>1, <3>1
  <2> QED
    BY <1>6, <2>1
<1>8. f = body(f)
  BY <1>6, <1>7
<1> DEFINE upto == CHOOSE g : g = body(g)
<1>9. upto = body(upto)
  <2> HIDE DEF body
  <2> QED
    BY <1>8
<1>10. Sorted(s, k) = upto[n]
  BY DEF Sorted
<1> HIDE DEF upto
<1>11. ASSUME NEW i \in 0 .. n
       PROVE  upto[i] = IF i = 0 THEN << >> ELSE Inserted(upto[i - 1], s[i], k)
  BY <1>9
<1> DEFINE T == {i \in Nat : i =< n => upto[i] \in Q}
<1>12. 0 \in T
  BY <1>1, <1>a, <1>11
<1>13. ASSUME NEW i \in T PROVE i + 1 \in T
  <2> SUFFICES ASSUME i + 1 =< n PROVE upto[i + 1] \in Q
    OBVIOUS
  <2>1. i + 1 \in 0 .. n /\ i + 1 # 0 /\ (i + 1) - 1 = i /\ i + 1 \in 1 .. n /\ upto[i] \in Q
    BY <1>1
  <2>2. upto[i + 1] = Inserted(upto[i], s[i + 1], k)
    BY <1>11, <2>1
  <2> QED
    BY <1>2, <2>1, <2>2
<1> HIDE DEF T
<1>14. T = Nat
  BY <1>12, <1>13, SetInduction DEF T
<1>15. n \in T /\ n =< n
  BY <1>1, <1>14
<1>16. upto[n] \in Q
  BY <1>15 DEF T
<1> QED
  BY <1>10, <1>16 DEF Q

(* Whatever table a node has, its answer never names the asker.            *)
LEMMA AnswerType ==
  ASSUME NEW asker \in Ids, NEW n \in Ids, NEW ks \in SUBSET Indices, NEW T \in SUBSET Ids
  PROVE  Answers[asker][n][ks][T] \in Seq(Ids \ {asker})
<1> DEFINE bs == [i \in Indices |-> Sequence!SetToSeq(InBucket(n, T, i))]
           c == Collected(n, ks, bs, asker, ALPHA)
<1>1. bs \in [Indices -> Seq(Ids)]
  BY BucketType
<1>2. AnswerTo(asker, n, ks, T) = Sorted(c, asker)
  BY DEF AnswerTo, findNode
<1> HIDE DEF bs
<1>3. c \in Seq(Ids \ {asker})
  BY <1>1, CollectedType DEF Lists
<1> HIDE DEF c
<1>4. Sorted(c, asker) \in Seq(Ids \ {asker})
  BY <1>3, SortedType
<1> QED
  BY <1>2, <1>4, AnswersAssumption

-----------------------------------------------------------------------------
(* Tables.                                                                 *)

LEMMA UpdatedType ==
  ASSUME table \in [Ids -> SUBSET Ids], NEW n \in Ids, NEW ps \in Seq(Ids)
  PROVE  Updated(n, ps) \in SUBSET Ids
<1> DEFINE l == Len(ps)
           P == SUBSET Ids
           entered(i, T) == T \cup {p \in {ps[i]} : ~Full(n, T, p)}
           body(f) == [i \in 0 .. l |-> IF i = 0 THEN table[n] ELSE entered(i, f[i - 1])]
           step == [p \in Nat \X P |-> IF p[1] \in 1 .. l THEN entered(p[1], p[2]) ELSE p[2]]
<1>1. l \in Nat /\ (\A i \in 1 .. l : ps[i] \in Ids) /\ table[n] \in P
  OBVIOUS
<1>2. ASSUME NEW i \in 1 .. l, NEW T \in P PROVE entered(i, T) \in P
  BY <1>1
<1> HIDE DEF P, entered
<1>3. step \in [Nat \X P -> P]
  BY <1>2
<1>4. ASSUME NEW i \in 1 .. l, NEW T \in P PROVE step[<<i, T>>] = entered(i, T)
  BY <1>1
<1> HIDE DEF step
<1>5. PICK f : Iterates(f, l, P, table[n], step)
  BY <1>1, <1>3, IteratesExists
<1>6. /\ f \in [0 .. l -> P] /\ f[0] = table[n]
      /\ \A i \in 1 .. l : f[i] = step[<<i, f[i - 1]>>]
  BY <1>5 DEF Iterates
<1>7. ASSUME NEW i \in 0 .. l PROVE f[i] = IF i = 0 THEN table[n] ELSE entered(i, f[i - 1])
  <2>1. CASE i # 0
    <3>1. i \in 1 .. l /\ i - 1 \in 0 .. l
      BY <1>1, <2>1
    <3> QED
      BY <1>4, <1>6, <2>1, <3>1
  <2> QED
    BY <1>6, <2>1
<1>8. f = body(f)
  BY <1>6, <1>7
<1> DEFINE after == CHOOSE g : g = body(g)
<1>9. after = body(after)
  <2> HIDE DEF body
  <2> QED
    BY <1>8
<1>10. Updated(n, ps) = after[l]
  BY DEF Updated, entered
<1> HIDE DEF after
<1>11. ASSUME NEW i \in 0 .. l
       PROVE  after[i] = IF i = 0 THEN table[n] ELSE entered(i, after[i - 1])
  BY <1>9
<1> DEFINE D == {i \in Nat : i =< l => after[i] \in P}
<1>12. 0 \in D
  BY <1>1, <1>11
<1>13. ASSUME NEW i \in D PROVE i + 1 \in D
  <2> SUFFICES ASSUME i + 1 =< l PROVE after[i + 1] \in P
    OBVIOUS
  <2>1. i + 1 \in 0 .. l /\ i + 1 # 0 /\ (i + 1) - 1 = i /\ i + 1 \in 1 .. l /\ after[i] \in P
    BY <1>1
  <2>2. after[i + 1] = entered(i + 1, after[i])
    BY <1>11, <2>1
  <2> QED
    BY <1>2, <2>1, <2>2
<1> HIDE DEF D
<1>14. D = Nat
  BY <1>12, <1>13, SetInduction DEF D
<1>15. l \in D /\ l =< l
  BY <1>1, <1>14
<1>16. after[l] \in P
  BY <1>15 DEF D
<1> QED
  BY <1>10, <1>16 DEF P

Datagrams == [kind : {"request", "response"}, from : Ids, to : Ids]

Tables ==
  /\ table \in [Ids -> SUBSET Ids]
  /\ keys \in [Ids -> SUBSET Indices]
  /\ net \subseteq Datagrams

(* updateTables leaves a set of ids, and pings some of them.               *)
LEMMA UpdateTablesType ==
  ASSUME Tables, NEW n \in Ids, NEW ps \in Seq(Ids), NEW T \in SUBSET Ids,
         NEW ds \in SUBSET Datagrams, UpdateTables(n, ps, T, ds)
  PROVE  Tables'
<1>1. KeysWith(n, ps) \in SUBSET Indices
  BY IndexType DEF KeysWith, Tables
<1>2. Pings(n, ps, T) \subseteq Datagrams
  BY DEF Pings, Datagram, Datagrams, InBucket
<1>3. /\ table' = [table EXCEPT ![n] = T]
      /\ keys' = [keys EXCEPT ![n] = KeysWith(n, ps)]
      /\ net' = net \cup Pings(n, ps, T) \cup ds
  BY DEF UpdateTables
<1> QED
  BY <1>1, <1>2, <1>3 DEF Tables

-----------------------------------------------------------------------------
(* A round.                                                                *)

Outcomes == {"none", "asked", "answered", "closer", "same", "failed"}

Lookups ==
  [node : Ids, iteration : 0 .. BIT_SIZE - 1, shortlist : Seq(Ids), contacts : Seq(Ids),
   result : [Slots -> Outcomes], reply : [Slots -> Seq(Ids)]]

(* The answers of the level that have arrived.                             *)
Arrived(R) == {s \in Slots : R.result[s] \in {"closer", "same"}}

(* A lookup never lists its own node, and has at least one contact for     *)
(* every level that it has left.                                           *)
Sane(R) ==
  /\ R \in Lookups
  /\ R.shortlist \in Seq(Ids \ {R.node})
  /\ R.contacts \in Seq(Ids \ {R.node})
  /\ \A s \in Slots : R.reply[s] \in Seq(Ids \ {R.node})
  /\ R.iteration =< Len(R.contacts)

Place(R, s) == R.iteration * ALPHA + s

(* A query is to an entry of the shortlist, and to nobody asked on an      *)
(* earlier level: the first answer of a level brings a new contact.        *)
RoundInv(R) ==
  /\ Sane(R)
  /\ Arrived(R) # {} => R.iteration < Len(R.contacts)
  /\ \A s \in Pending(R) : Place(R, s) =< Len(R.shortlist)
  /\ Arrived(R) = {} => \A s \in Pending(R) : Entry(R, s) \notin Elements(R.contacts)

LEMMA PlaceType ==
  ASSUME NEW R, R.iteration \in Nat, NEW s \in Slots
  PROVE  Place(R, s) \in Nat \ {0} /\ Slots \subseteq Nat
<1>1. ALPHA \in Nat /\ s \in Nat \ {0}
  BY AlphaAssumption DEF Slots
<1>2. R.iteration * ALPHA \in Nat
  BY <1>1
<1>3. Slots \subseteq Nat
  BY <1>1 DEF Slots
<1> QED
  BY <1>1, <1>2, <1>3 DEF Place

(* Whom a query is to.                                                     *)
LEMMA EntryType ==
  ASSUME NEW R, RoundInv(R), NEW s \in Pending(R)
  PROVE  /\ s \in Slots
         /\ R.node \in Ids
         /\ Place(R, s) \in 1 .. Len(R.shortlist)
         /\ Entry(R, s) = R.shortlist[Place(R, s)]
         /\ Entry(R, s) \in Ids \ {R.node}
<1>1. s \in Slots /\ R.iteration \in Nat /\ R.node \in Ids /\ R.shortlist \in Seq(Ids \ {R.node})
  BY BitSizeAssumption DEF Pending, RoundInv, Sane, Lookups
<1>2. Place(R, s) \in 1 .. Len(R.shortlist)
  BY <1>1, PlaceType DEF RoundInv
<1>3. Entry(R, s) = R.shortlist[Place(R, s)]
  BY DEF Entry, Place
<1> QED
  BY <1>1, <1>2, <1>3

LEMMA IdleRoundInv ==
  ASSUME NEW n \in Ids, NEW list \in Seq(Ids \ {n})
  PROVE  /\ Sane([IdleRound EXCEPT !.node = n, !.shortlist = list])
         /\ RoundInv(IdleRound)
<1>1. 0 \in 0 .. BIT_SIZE - 1
  BY BitSizeAssumption
<1>2. Unasked \in [Slots -> Outcomes] /\ NoReply \in [Slots -> Seq(Ids)] /\ << >> \in Seq(Ids)
  BY DEF Unasked, NoReply, Outcomes
<1>3. \A S : << >> \in Seq(S)
  OBVIOUS
<1>4. list \in Seq(Ids)
  OBVIOUS
<1>5. /\ IdleRound.node = Bootstrap /\ IdleRound.iteration = 0
      /\ IdleRound.shortlist = << >> /\ IdleRound.contacts = << >>
      /\ IdleRound.result = Unasked /\ IdleRound.reply = NoReply
  BY DEF IdleRound
<1>6. IdleRound \in Lookups
  BY <1>1, <1>2, BootstrapAssumption DEF Lookups, IdleRound
<1> DEFINE R == [IdleRound EXCEPT !.node = n, !.shortlist = list]
<1>7. R \in Lookups
  BY <1>4, <1>6 DEF Lookups
<1>8. /\ R.node = n /\ R.iteration = 0 /\ R.shortlist = list /\ R.contacts = << >>
      /\ R.reply = NoReply
  BY <1>5, <1>6 DEF Lookups
<1> HIDE DEF R
<1>9. Sane(R)
  BY <1>3, <1>7, <1>8 DEF Sane, NoReply
<1>10. Sane(IdleRound)
  BY <1>3, <1>5, <1>6 DEF Sane, NoReply
<1>11. Arrived(IdleRound) = {} /\ Pending(IdleRound) = {}
  BY <1>5 DEF Arrived, Pending, Unasked
<1>12. RoundInv(IdleRound)
  BY <1>10, <1>11 DEF RoundInv
<1> QED
  BY <1>9, <1>12 DEF R

(* The queries of a level are to entries not contacted before.             *)
LEMMA LevelInv ==
  ASSUME NEW R, Sane(R)
  PROVE  RoundInv(Level(R)) /\ Level(R).node = R.node
<1> DEFINE L == Level(R)
           res == [s \in Slots |-> IF s \in Queried(R) THEN "asked" ELSE "none"]
<1>1. R \in Lookups /\ L = [R EXCEPT !.result = res]
  BY DEF Sane, Level
<1>2. res \in [Slots -> Outcomes]
  BY DEF Outcomes
<1>3. /\ L.node = R.node /\ L.iteration = R.iteration /\ L.shortlist = R.shortlist
      /\ L.contacts = R.contacts /\ L.reply = R.reply /\ L.result = res
  BY <1>1 DEF Lookups
<1>4. L \in Lookups
  BY <1>1, <1>2 DEF Lookups
<1>5. Arrived(L) = {} /\ Pending(L) = Queried(R)
  BY <1>3 DEF Arrived, Pending, Queried
<1>6. \A s : Entry(L, s) = Entry(R, s) /\ Place(L, s) = Place(R, s)
  BY <1>3 DEF Entry, Place
<1> HIDE DEF L
<1>7. Sane(L)
  BY <1>3, <1>4 DEF Sane
<1>8. \A s \in Queried(R) : /\ Place(R, s) =< Len(R.shortlist)
                            /\ Entry(R, s) \notin Elements(R.contacts)
  BY DEF Queried, Place
<1>9. RoundInv(L)
  BY <1>3, <1>5, <1>6, <1>7, <1>8 DEF RoundInv
<1> QED
  BY <1>3, <1>9 DEF L

(* A request is answered by a list, or a query fails.                      *)
LEMMA SettledInv ==
  ASSUME NEW R, RoundInv(R), NEW s \in Pending(R), NEW o \in {"answered", "failed"},
         NEW list \in Seq(Ids \ {R.node})
  PROVE  LET A == [R EXCEPT !.result[s] = o, !.reply[s] = list]
         IN  RoundInv(A) /\ A.node = R.node
<1> DEFINE A == [R EXCEPT !.result[s] = o, !.reply[s] = list]
<1>1. s \in Slots /\ R \in Lookups /\ o \in Outcomes /\ o \notin {"closer", "same"}
  BY DEF Pending, RoundInv, Sane, Outcomes
<1>2. list \in Seq(Ids)
  OBVIOUS
<1>3. /\ A.node = R.node /\ A.iteration = R.iteration /\ A.shortlist = R.shortlist
      /\ A.contacts = R.contacts
      /\ A.result = [R.result EXCEPT ![s] = o]
      /\ A.reply = [R.reply EXCEPT ![s] = list]
  BY <1>1 DEF Lookups
<1>4. A \in Lookups
  <2>1. [R.result EXCEPT ![s] = o] \in [Slots -> Outcomes]
    BY <1>1 DEF Lookups
  <2>2. [R.reply EXCEPT ![s] = list] \in [Slots -> Seq(Ids)]
    BY <1>1, <1>2 DEF Lookups
  <2>3. A = [R EXCEPT !.result = [R.result EXCEPT ![s] = o], !.reply = [R.reply EXCEPT ![s] = list]]
    BY <1>1 DEF Lookups
  <2> HIDE DEF A
  <2> QED
    BY <1>1, <2>1, <2>2, <2>3 DEF Lookups
<1> HIDE DEF A
<1>5. R.result \in [Slots -> Outcomes] /\ R.reply \in [Slots -> Seq(Ids)]
  BY <1>1 DEF Lookups
<1>6. /\ \A t \in Slots : A.result[t] = IF t = s THEN o ELSE R.result[t]
      /\ \A t \in Slots : A.reply[t] = IF t = s THEN list ELSE R.reply[t]
  BY <1>1, <1>3, <1>5
<1>7. Arrived(A) = Arrived(R) /\ Pending(A) \subseteq Pending(R)
  BY <1>1, <1>6 DEF Arrived, Pending
<1>8. \A t : Entry(A, t) = Entry(R, t) /\ Place(A, t) = Place(R, t)
  BY <1>3 DEF Entry, Place
<1>9. Sane(A)
  BY <1>3, <1>4, <1>6 DEF Sane, RoundInv
<1>10. RoundInv(A)
  BY <1>3, <1>7, <1>8, <1>9 DEF RoundInv
<1> QED
  BY <1>3, <1>10 DEF A

(* The answer to a query arrives.                                          *)
LEMMA AnsweredInv ==
  ASSUME NEW R, RoundInv(R), NEW s \in Pending(R)
  PROVE  LET A == Answered(R, s, Entry(R, s))
         IN  RoundInv(A) /\ A.node = R.node
<1> DEFINE p == Entry(R, s)
           o == IF HasCloser(R, R.reply[s]) THEN "closer" ELSE "same"
           list == R.shortlist \o R.reply[s]
           con == WithKey(R.contacts, p)
           res == [R.result EXCEPT ![s] = o]
           rep == [R.reply EXCEPT ![s] = << >>]
           S == Ids \ {R.node}
           A == Answered(R, s, p)
<1>1. /\ s \in Slots /\ R \in Lookups /\ p \in S
      /\ R.shortlist \in Seq(S) /\ R.contacts \in Seq(S) /\ (\A t \in Slots : R.reply[t] \in Seq(S))
      /\ R.iteration =< Len(R.contacts)
      /\ R.iteration \in Nat
      /\ R.result \in [Slots -> Outcomes] /\ R.reply \in [Slots -> Seq(Ids)]
  <2>1. s \in Slots /\ p \in S
    BY EntryType
  <2>2. /\ R \in Lookups /\ R.shortlist \in Seq(S) /\ R.contacts \in Seq(S)
        /\ \A t \in Slots : R.reply[t] \in Seq(S)
        /\ R.iteration =< Len(R.contacts)
    BY DEF RoundInv, Sane
  <2>3. /\ R.iteration \in Nat
        /\ R.result \in [Slots -> Outcomes] /\ R.reply \in [Slots -> Seq(Ids)]
    BY <2>2, BitSizeAssumption DEF Lookups
  <2> QED
    BY <2>1, <2>2, <2>3
<1>2. o \in {"closer", "same"}
  OBVIOUS
<1>3. A = [R EXCEPT !.shortlist = list, !.contacts = con, !.result = res, !.reply = rep]
  BY <1>1 DEF Answered, Lookups
<1> HIDE DEF A, p, o, S
<1>4. /\ con \in Seq(S) /\ Elements(con) = Elements(R.contacts) \cup {p}
      /\ Len(con) = IF p \in Elements(R.contacts) THEN Len(R.contacts) ELSE Len(R.contacts) + 1
  BY <1>1, WithKeyProperties
<1>5. list \in Seq(S) /\ (\A i \in 1 .. Len(R.shortlist) : list[i] = R.shortlist[i])
      /\ Len(R.shortlist) =< Len(list)
  <2>1. ASSUME NEW u \in Seq(S), NEW v \in Seq(S)
        PROVE  /\ u \o v \in Seq(S) /\ (\A i \in 1 .. Len(u) : (u \o v)[i] = u[i])
               /\ Len(u) =< Len(u \o v)
    OBVIOUS
  <2> QED
    BY <1>1, <2>1
<1>6. /\ res \in [Slots -> Outcomes] /\ (\A t \in Slots : res[t] = IF t = s THEN o ELSE R.result[t])
      /\ rep \in [Slots -> Seq(Ids)] /\ (\A t \in Slots : rep[t] = IF t = s THEN << >> ELSE R.reply[t])
  <2>1. << >> \in Seq(Ids)
    OBVIOUS
  <2> QED
    BY <1>1, <1>2, <2>1 DEF Outcomes
<1> HIDE DEF list, con, res, rep
<1>7. list \in Seq(Ids) /\ con \in Seq(Ids)
  <2>1. \A u \in Seq(S) : u \in Seq(Ids)
    BY DEF S
  <2> QED
    BY <1>4, <1>5, <2>1
<1>8. /\ A.node = R.node /\ A.iteration = R.iteration /\ A.shortlist = list
      /\ A.contacts = con /\ A.result = res /\ A.reply = rep
  BY <1>1, <1>3 DEF Lookups
<1>9. A \in Lookups
  BY <1>1, <1>3, <1>6, <1>7 DEF Lookups
<1>10. Len(R.contacts) \in Nat /\ Len(con) \in Nat
  BY <1>1, <1>4
<1>11. Sane(A)
  <2>1. << >> \in Seq(S)
    OBVIOUS
  <2>2. A.iteration =< Len(A.contacts)
    BY <1>1, <1>4, <1>8, <1>10
  <2> QED
    BY <1>1, <1>4, <1>5, <1>6, <1>8, <1>9, <2>1, <2>2 DEF Sane, S
<1>12. Pending(A) \subseteq Pending(R) /\ Arrived(A) # {}
  BY <1>1, <1>2, <1>6, <1>8 DEF Pending, Arrived
<1>13. A.iteration < Len(A.contacts)
  <2>1. CASE Arrived(R) = {}
    <3>1. p \notin Elements(R.contacts)
      BY <2>1 DEF RoundInv, p
    <3> QED
      BY <1>1, <1>4, <1>8, <1>10, <3>1
  <2>2. CASE Arrived(R) # {}
    BY <1>1, <1>4, <1>8, <1>10, <2>2 DEF RoundInv
  <2> QED
    BY <2>1, <2>2
<1>14. ASSUME NEW t \in Pending(A) PROVE Place(A, t) =< Len(A.shortlist)
  <2>1. Place(A, t) = Place(R, t) /\ Place(R, t) \in 1 .. Len(R.shortlist)
    BY <1>8, <1>12, EntryType DEF Place
  <2>2. Len(R.shortlist) \in Nat /\ Len(list) \in Nat
    BY <1>1, <1>5
  <2> QED
    BY <1>5, <1>8, <2>1, <2>2
<1>15. RoundInv(A)
  BY <1>11, <1>12, <1>13, <1>14 DEF RoundInv
<1> QED
  BY <1>8, <1>15 DEF A, p

(* A level that brought a closer peer is followed by another one only      *)
(* while there are fewer than BIT_SIZE contacts.                           *)
LEMMA ContinuedInv ==
  ASSUME NEW R, RoundInv(R)
  PROVE  RoundInv(Continued(R))
<1> DEFINE next == [R EXCEPT !.iteration = @ + 1]
<1>1. CASE Pending(R) # {}
  BY <1>1 DEF Continued
<1>2. CASE ~ GoesOn(R) \/ Queried(next) = {}
  <2>1. Continued(R) \in {R, IdleRound}
    BY <1>2 DEF Continued
  <2>2. RoundInv(IdleRound)
    <3>1. << >> \in Seq(Ids \ {Bootstrap})
      OBVIOUS
    <3> QED
      BY <3>1, IdleRoundInv, BootstrapAssumption
  <2> QED
    BY <2>1, <2>2
<1>3. CASE GoesOn(R) /\ Pending(R) = {} /\ Queried(next) # {}
  <2>1. Continued(R) = Level(next)
    BY <1>3 DEF Continued
  <2>2. R \in Lookups /\ Len(R.contacts) \in Nat /\ R.iteration \in 0 .. BIT_SIZE - 1
    BY DEF RoundInv, Sane, Lookups
  <2>3. Arrived(R) # {} /\ Len(R.contacts) < BIT_SIZE
    BY <1>3 DEF GoesOn, Arrived
  <2>4. R.iteration < Len(R.contacts)
    BY <2>3 DEF RoundInv
  <2>5. R.iteration + 1 \in 0 .. BIT_SIZE - 1 /\ R.iteration + 1 =< Len(R.contacts)
    BY <2>2, <2>3, <2>4, BitSizeAssumption
  <2>6. /\ next.node = R.node /\ next.iteration = R.iteration + 1
        /\ next.shortlist = R.shortlist /\ next.contacts = R.contacts
        /\ next.reply = R.reply
        /\ next \in Lookups
    BY <2>2, <2>5 DEF Lookups
  <2> HIDE DEF next
  <2>7. Sane(next)
    BY <2>5, <2>6 DEF Sane, RoundInv
  <2> QED
    BY <2>1, <2>7, LevelInv
<1> QED
  BY <1>1, <1>2, <1>3

-----------------------------------------------------------------------------
(* The inductive invariant: the types, and RoundInv of every round.        *)
SocketCounts == [Ids -> [Ids -> Nat]]

DiscoveryInv ==
  /\ Tables
  /\ round \in [Rounds -> Lookups]
  /\ \A r \in Rounds : RoundInv(round[r])
  /\ links \in [Ids -> SUBSET Ids]
  /\ opening \in SocketCounts
  /\ open \in SocketCounts
  /\ lost \in SocketCounts
  /\ faults \in 0 .. MaxFaults

LEMMA InvImpliesTypeOK == DiscoveryInv => TypeOK
<1> SUFFICES ASSUME DiscoveryInv PROVE TypeOK
  OBVIOUS
<1>1. ASSUME NEW r \in Rounds
      PROVE  /\ round[r].iteration \in 0 .. BIT_SIZE - 1
             /\ Elements(round[r].shortlist) \cup Elements(round[r].contacts) \subseteq Ids \ {round[r].node}
             /\ round[r].result \in [Slots -> Outcomes]
  <2> DEFINE R == round[r]
  <2>1. /\ R \in Lookups /\ R.shortlist \in Seq(Ids \ {R.node})
        /\ R.contacts \in Seq(Ids \ {R.node})
    BY DEF DiscoveryInv, RoundInv, Sane
  <2> HIDE DEF R
  <2>2. \A S, l : l \in Seq(S) => Elements(l) \subseteq S
    BY DEF Elements
  <2>3. Elements(R.shortlist) \cup Elements(R.contacts) \subseteq Ids \ {R.node}
    BY <2>1, <2>2
  <2>4. R.iteration \in 0 .. BIT_SIZE - 1 /\ R.result \in [Slots -> Outcomes]
    BY <2>1 DEF Lookups
  <2> QED
    BY <2>3, <2>4 DEF R
<1> QED
  BY <1>1 DEF DiscoveryInv, SocketCounts, Tables, Datagrams, Outcomes, TypeOK

(* What a step does to the rounds.                                         *)
LEMMA RoundReplaced ==
  ASSUME DiscoveryInv, NEW r \in Rounds, NEW R, RoundInv(R), round' = [round EXCEPT ![r] = R]
  PROVE  /\ round' \in [Rounds -> Lookups]
         /\ \A q \in Rounds : RoundInv(round'[q])
<1>1. R \in Lookups
  BY DEF RoundInv, Sane
<1>2. round \in [Rounds -> Lookups] /\ \A q \in Rounds : RoundInv(round[q])
  BY DEF DiscoveryInv
<1>3. \A q \in Rounds : round'[q] = IF q = r THEN R ELSE round[q]
  BY <1>2
<1>4. round' \in [Rounds -> Lookups]
  BY <1>1, <1>2
<1>5. ASSUME NEW q \in Rounds PROVE RoundInv(round'[q])
  <2>1. CASE q = r
    BY <1>3, <2>1
  <2>2. CASE q # r
    BY <1>2, <1>3, <2>2
  <2> QED
    BY <2>1, <2>2
<1> QED
  BY <1>4, <1>5

LEMMA NoSocketsType == NoSockets \in SocketCounts
BY DEF NoSockets, SocketCounts

LEMMA CountedType ==
  ASSUME NEW f \in SocketCounts
  PROVE  Counted(f) \in SocketCounts
BY NoSocketsType DEF Counted

LEMMA DialType ==
  ASSUME DiscoveryInv, NEW n \in Ids, NEW P \in SUBSET Ids, Dial(n, P)
  PROVE  links' \in [Ids -> SUBSET Ids] /\ opening' \in SocketCounts
<1>1. links \in [Ids -> SUBSET Ids] /\ opening \in SocketCounts
  BY DEF DiscoveryInv
<1>2. links' \in [Ids -> SUBSET Ids]
  BY <1>1 DEF Dial
<1> DEFINE Dials(p) == p \in P \cap Failing /\ opening[n][p] < (IF MayFail THEN MaxDials ELSE 1)
           f == [p \in Ids |-> IF Dials(p) THEN opening[n][p] + 1 ELSE opening[n][p]]
<1>3. opening' = [opening EXCEPT ![n] = f]
  BY <1>1 DEF Dial, SocketCounts
<1>4. f \in [Ids -> Nat]
  <2> HIDE DEF Dials
  <2> QED
    BY <1>1 DEF SocketCounts
<1> HIDE DEF f
<1>5. opening' \in SocketCounts
  BY <1>1, <1>3, <1>4 DEF SocketCounts
<1> QED
  BY <1>2, <1>5

(* A round that gets to R, and perhaps ends.                               *)
LEMMA ProceedType ==
  ASSUME DiscoveryInv, NEW r \in Rounds, NEW R, RoundInv(R),
         NEW ps \in Seq(Ids), NEW ds \in SUBSET Datagrams, Proceed(r, R, ps, ds)
  PROVE  /\ Tables'
         /\ round' \in [Rounds -> Lookups]
         /\ \A q \in Rounds : RoundInv(round'[q])
         /\ links' \in [Ids -> SUBSET Ids]
         /\ opening' \in SocketCounts
<1> DEFINE n == R.node
           C == Continued(R)
<1>1. n \in Ids /\ R.contacts \in Seq(Ids)
  BY DEF RoundInv, Sane, Lookups
<1>2. RoundInv(C)
  BY ContinuedInv
<1>3. /\ Tables /\ table \in [Ids -> SUBSET Ids] /\ links \in [Ids -> SUBSET Ids]
      /\ opening \in SocketCounts
  BY DEF DiscoveryInv, Tables
<1>4. /\ round' = [round EXCEPT ![r] = C]
      /\ IF Pending(C) # {}
           THEN /\ UNCHANGED <<links, opening>>
                /\ UpdateTables(n, ps, Updated(n, ps), ds)
           ELSE /\ UpdateTables(n, ps \o R.contacts, Updated(n, ps \o R.contacts), ds)
                /\ Dial(n, Dialled(n, Updated(n, ps \o R.contacts)))
  BY DEF Proceed
<1> HIDE DEF n, C
<1>5. round' \in [Rounds -> Lookups] /\ \A q \in Rounds : RoundInv(round'[q])
  BY <1>2, <1>4, RoundReplaced
<1>6. CASE Pending(C) # {}
  <2>1. UpdateTables(n, ps, Updated(n, ps), ds) /\ links' = links /\ opening' = opening
    BY <1>4, <1>6
  <2>2. Updated(n, ps) \in SUBSET Ids
    BY <1>1, <1>3, UpdatedType
  <2>3. Tables'
    BY <1>1, <1>3, <2>1, <2>2, UpdateTablesType
  <2> QED
    BY <1>3, <1>5, <2>1, <2>3
<1>7. CASE Pending(C) = {}
  <2> DEFINE qs == ps \o R.contacts
             T == Updated(n, qs)
  <2>1. UpdateTables(n, qs, T, ds) /\ Dial(n, Dialled(n, T))
    BY <1>4, <1>7
  <2>2. qs \in Seq(Ids)
    BY <1>1
  <2> HIDE DEF qs
  <2>3. T \in SUBSET Ids
    BY <1>1, <1>3, <2>2, UpdatedType
  <2> HIDE DEF T
  <2>4. Tables'
    BY <1>1, <1>3, <2>1, <2>2, <2>3, UpdateTablesType
  <2>5. Dialled(n, T) \subseteq Ids
    BY <2>3 DEF Dialled
  <2>6. links' \in [Ids -> SUBSET Ids] /\ opening' \in SocketCounts
    BY <1>1, <2>1, <2>5, DialType
  <2> QED
    BY <1>5, <2>4, <2>6
<1> QED
  BY <1>6, <1>7

LEMMA TickInv ==
  ASSUME DiscoveryInv, NEW r \in Rounds, NEW n \in Ids, Tick(r, n)
  PROVE  DiscoveryInv'
<1>1. keys[n] \in SUBSET Indices /\ table[n] \in SUBSET Ids
  BY DEF DiscoveryInv, Tables
<1> DEFINE list == Answers[n][n][keys[n]][table[n]]
           R == [IdleRound EXCEPT !.node = n, !.shortlist = list]
<1>2. list \in Seq(Ids \ {n})
  BY <1>1, AnswerType
<1>3. Proceed(r, Level(R), << >>, {}) /\ UNCHANGED <<open, lost, faults>>
  BY DEF Tick
<1> HIDE DEF list
<1>4. Sane(R)
  BY <1>2, IdleRoundInv
<1> HIDE DEF R
<1>5. RoundInv(Level(R))
  BY <1>4, LevelInv
<1>6. << >> \in Seq(Ids) /\ {} \in SUBSET Datagrams
  OBVIOUS
<1> DEFINE L == Level(R)
<1> HIDE DEF L
<1>7. RoundInv(L) /\ Proceed(r, L, << >>, {})
  BY <1>3, <1>5 DEF L
<1>8. /\ Tables' /\ round' \in [Rounds -> Lookups] /\ (\A q \in Rounds : RoundInv(round'[q]))
      /\ links' \in [Ids -> SUBSET Ids] /\ opening' \in SocketCounts
  BY <1>6, <1>7, ProceedType
<1> QED
  BY <1>3, <1>8 DEF DiscoveryInv

LEMMA HandleFindNodeInv ==
  ASSUME DiscoveryInv, NEW r \in Rounds, NEW s \in Slots, HandleFindNode(r, s)
  PROVE  DiscoveryInv'
<1> DEFINE R == round[r]
           n == R.node
           p == Entry(R, s)
           T == Heard(p, n)
           ks == KeysWith(p, <<n>>)
           list == Answers[n][p][ks][T]
           A == [R EXCEPT !.result[s] = "answered", !.reply[s] = list]
<1>1. RoundInv(R) /\ s \in Pending(R) /\ R \in Lookups
  BY DEF HandleFindNode, Pending, DiscoveryInv
<1>2. /\ UpdateTables(p, <<n>>, T, {})
      /\ round' = [round EXCEPT ![r].result[s] = "answered", ![r].reply[s] = list]
      /\ UNCHANGED <<links, opening, open, lost, faults>>
  BY DEF HandleFindNode, socketVars
<1>3. round' = [round EXCEPT ![r] = A]
  BY <1>2 DEF DiscoveryInv
<1> HIDE DEF R
<1>4. n \in Ids /\ p \in Ids /\ <<n>> \in Seq(Ids)
  BY <1>1, EntryType
<1> HIDE DEF n, p
<1>5. Tables /\ table \in [Ids -> SUBSET Ids] /\ keys \in [Ids -> SUBSET Indices]
  BY DEF DiscoveryInv, Tables
<1>6. T \in SUBSET Ids
  BY <1>4, <1>5, UpdatedType DEF Heard
<1>7. ks \in SUBSET Indices
  BY <1>4, <1>5, IndexType DEF KeysWith
<1> HIDE DEF T, ks
<1>8. Tables'
  <2>1. {} \in SUBSET Datagrams
    OBVIOUS
  <2> QED
    BY <1>2, <1>4, <1>5, <1>6, <2>1, UpdateTablesType
<1>9. list \in Seq(Ids \ {R.node})
  BY <1>4, <1>6, <1>7, AnswerType DEF n
<1> HIDE DEF list
<1>10. RoundInv(A)
  BY <1>1, <1>9, SettledInv
<1> HIDE DEF A
<1>11. round' \in [Rounds -> Lookups] /\ \A q \in Rounds : RoundInv(round'[q])
  BY <1>3, <1>10, RoundReplaced
<1> QED
  BY <1>2, <1>8, <1>11 DEF DiscoveryInv

LEMMA HandleReplyInv ==
  ASSUME DiscoveryInv, NEW r \in Rounds, NEW s \in Slots, HandleReply(r, s)
  PROVE  DiscoveryInv'
<1> DEFINE R == round[r]
           p == Entry(R, s)
           A == Answered(R, s, p)
<1>1. RoundInv(R) /\ s \in Pending(R)
  BY DEF HandleReply, Pending, DiscoveryInv
<1>2. Proceed(r, A, <<p>>, {}) /\ UNCHANGED <<open, lost, faults>>
  BY DEF HandleReply
<1> HIDE DEF R
<1>3. p \in Ids /\ <<p>> \in Seq(Ids)
  BY <1>1, EntryType
<1>4. RoundInv(A)
  BY <1>1, AnsweredInv
<1> HIDE DEF A, p
<1>5. {} \in SUBSET Datagrams
  OBVIOUS
<1>6. /\ Tables' /\ round' \in [Rounds -> Lookups] /\ (\A q \in Rounds : RoundInv(round'[q]))
      /\ links' \in [Ids -> SUBSET Ids] /\ opening' \in SocketCounts
  BY <1>2, <1>3, <1>4, <1>5, ProceedType
<1> QED
  BY <1>2, <1>6 DEF DiscoveryInv

LEMMA TimeOutInv ==
  ASSUME DiscoveryInv, NEW r \in Rounds, NEW s \in Slots, TimeOut(r, s)
  PROVE  DiscoveryInv'
<1> DEFINE R == round[r]
           A == [R EXCEPT !.result[s] = "failed", !.reply[s] = << >>]
           ds == {Underway(R, s)}
<1>1. RoundInv(R) /\ s \in Pending(R)
  BY DEF TimeOut, DiscoveryInv
<1>2. /\ Proceed(r, A, << >>, ds) /\ open' = Counted(open) /\ lost' = lost
      /\ faults < MaxFaults /\ faults' = faults + 1
  BY DEF TimeOut
<1> HIDE DEF R
<1>3. ds \subseteq Datagrams
  <2>1. R.node \in Ids /\ Entry(R, s) \in Ids
    BY <1>1, EntryType
  <2> QED
    BY <2>1 DEF Underway, Datagram, Datagrams
<1>4. << >> \in Seq(Ids \ {R.node}) /\ << >> \in Seq(Ids)
  OBVIOUS
<1>5. RoundInv(A)
  BY <1>1, <1>4, SettledInv
<1> HIDE DEF A, ds
<1>6. /\ Tables' /\ round' \in [Rounds -> Lookups] /\ (\A q \in Rounds : RoundInv(round'[q]))
      /\ links' \in [Ids -> SUBSET Ids] /\ opening' \in SocketCounts
  BY <1>2, <1>3, <1>4, <1>5, ProceedType
<1>7. faults' \in 0 .. MaxFaults
  BY <1>2, BoundsAssumption DEF DiscoveryInv
<1>8. open' \in SocketCounts /\ lost' \in SocketCounts
  BY <1>2, CountedType DEF DiscoveryInv
<1> QED
  BY <1>6, <1>7, <1>8 DEF DiscoveryInv

LEMMA HandleMessageInv ==
  ASSUME DiscoveryInv, NEW m \in net, HandleMessage(m)
  PROVE  DiscoveryInv'
<1> DEFINE T == Heard(m.to, m.from)
           ds == IF m.kind = "request" THEN {Datagram("response", m.to, m.from)} ELSE {}
<1>1. m.to \in Ids /\ m.from \in Ids /\ <<m.from>> \in Seq(Ids)
  BY DEF DiscoveryInv, Tables, Datagrams
<1>2. Tables /\ table \in [Ids -> SUBSET Ids]
  BY DEF DiscoveryInv, Tables
<1>3. /\ UpdateTables(m.to, <<m.from>>, T, ds)
      /\ UNCHANGED <<round, links, opening, open, lost, faults>>
  BY DEF HandleMessage, socketVars
<1>4. T \in SUBSET Ids
  BY <1>1, <1>2, UpdatedType DEF Heard
<1>5. ds \in SUBSET Datagrams
  BY <1>1 DEF Datagram, Datagrams
<1> HIDE DEF T, ds
<1>6. Tables'
  BY <1>1, <1>2, <1>3, <1>4, <1>5, UpdateTablesType
<1> QED
  BY <1>3, <1>6 DEF DiscoveryInv

LEMMA RestartInv ==
  ASSUME DiscoveryInv, NEW p \in Ids, Restart(p)
  PROVE  DiscoveryInv'
<1>1. Tables'
  BY IndexType, BootstrapAssumption DEF DiscoveryInv, Tables, Restart
<1>2. RoundInv(IdleRound) /\ IdleRound \in Lookups
  <2>1. << >> \in Seq(Ids \ {Bootstrap})
    OBVIOUS
  <2>2. RoundInv(IdleRound)
    BY <2>1, IdleRoundInv, BootstrapAssumption
  <2> QED
    BY <2>2 DEF RoundInv, Sane
<1>3. round' = [r \in Rounds |-> IF round[r].node = p THEN IdleRound ELSE round[r]]
  BY DEF Restart
<1>4. round' \in [Rounds -> Lookups] /\ \A r \in Rounds : RoundInv(round'[r])
  BY <1>2, <1>3 DEF DiscoveryInv
<1>5. links' \in [Ids -> SUBSET Ids]
  BY DEF DiscoveryInv, Restart
<1> DEFINE Kept(f) == [n \in Ids |-> [q \in Ids |-> IF p \in {n, q} THEN 0 ELSE f[n][q]]]
<1>7. ASSUME NEW f \in SocketCounts PROVE Kept(f) \in SocketCounts
  BY DEF SocketCounts
<1>8. opening' \in SocketCounts
  <2>1. opening \in SocketCounts /\ opening' = Kept(opening)
    BY DEF DiscoveryInv, Restart
  <2> HIDE DEF Kept
  <2> QED
    BY <1>7, <2>1
<1>9. open' \in SocketCounts
  <2>1. open \in SocketCounts /\ open' = Counted(Kept(open))
    BY DEF DiscoveryInv, Restart
  <2> HIDE DEF Kept
  <2> QED
    BY <1>7, <2>1, CountedType
<1>10. lost' \in SocketCounts
  BY DEF DiscoveryInv, Restart, SocketCounts
<1>6. faults' \in 0 .. MaxFaults
  BY BoundsAssumption DEF DiscoveryInv, Restart
<1> QED
  BY <1>1, <1>4, <1>5, <1>6, <1>8, <1>9, <1>10 DEF DiscoveryInv

LEMMA OpenInv ==
  ASSUME DiscoveryInv, NEW n \in Ids, NEW p \in Ids, Open(n, p)
  PROVE  DiscoveryInv'
<1>1. Tables' /\ round' = round /\ lost' = lost /\ faults' = faults
  BY DEF DiscoveryInv, Tables, Open
<1>2. links' \in [Ids -> SUBSET Ids]
  BY DEF DiscoveryInv, Open
<1>3. opening' \in SocketCounts
  BY DEF DiscoveryInv, Open, SocketCounts
<1> DEFINE f == [open EXCEPT ![n][p] = @ + 1]
<1>4. f \in SocketCounts
  BY DEF DiscoveryInv, SocketCounts
<1>5. open' = Counted(f)
  BY DEF Open
<1> HIDE DEF f
<1>6. open' \in SocketCounts
  BY <1>4, <1>5, CountedType
<1> QED
  BY <1>1, <1>2, <1>3, <1>6 DEF DiscoveryInv

LEMMA CloseInv ==
  ASSUME DiscoveryInv, NEW n \in Ids, NEW p \in Ids, Close(n, p)
  PROVE  DiscoveryInv'
<1>1. Tables'
  BY IndexType DEF DiscoveryInv, Tables, Close
<1>2. lost' \in SocketCounts
  BY DEF DiscoveryInv, Close, SocketCounts
<1> QED
  BY <1>1, <1>2 DEF DiscoveryInv, Close

(* Whatever rounds overlap, whichever queries time out and nodes restart:  *)
(* every variable keeps its shape, no lookup meets the node that runs it,  *)
(* and none gets beyond BIT_SIZE levels.                                   *)
THEOREM DiscoveryTypeCorrect == Spec => []TypeOK
<1>1. Init => DiscoveryInv
  <2> SUFFICES ASSUME Init PROVE DiscoveryInv
    OBVIOUS
  <2>1. Tables
    BY IndexType, BootstrapAssumption DEF Init, Tables
  <2>2. << >> \in Seq(Ids \ {Bootstrap})
    OBVIOUS
  <2>3. RoundInv(IdleRound)
    BY <2>2, IdleRoundInv, BootstrapAssumption
  <2>4. IdleRound \in Lookups
    BY <2>3 DEF RoundInv, Sane
  <2> QED
    BY <2>1, <2>3, <2>4, NoSocketsType, BoundsAssumption DEF Init, DiscoveryInv
<1>2. DiscoveryInv /\ [Next]_vars => DiscoveryInv'
  <2> SUFFICES ASSUME DiscoveryInv, [Next]_vars PROVE DiscoveryInv'
    OBVIOUS
  <2>1. ASSUME NEW r \in Rounds, NEW n \in Ids, Tick(r, n) PROVE DiscoveryInv'
    BY <2>1, TickInv
  <2>2. ASSUME NEW r \in Rounds, RoundStep(r) PROVE DiscoveryInv'
    BY <2>2, HandleFindNodeInv, HandleReplyInv DEF RoundStep
  <2>3. ASSUME NEW r \in Rounds, NEW s \in Slots, TimeOut(r, s) PROVE DiscoveryInv'
    BY <2>3, TimeOutInv
  <2>4. ASSUME NEW m \in net, HandleMessage(m) PROVE DiscoveryInv'
    BY <2>4, HandleMessageInv
  <2>5. ASSUME NEW p \in Ids, Restart(p) PROVE DiscoveryInv'
    BY <2>5, RestartInv
  <2>6. ASSUME NEW n \in Ids, NEW p \in Ids, Open(n, p) \/ Close(n, p)
       PROVE  DiscoveryInv'
    BY <2>6, OpenInv, CloseInv
  <2>7. CASE UNCHANGED vars
    BY <2>7 DEF vars, socketVars, DiscoveryInv, Tables
  <2> QED
    BY <2>1, <2>2, <2>3, <2>4, <2>5, <2>6, <2>7 DEF Next
<1>3. DiscoveryInv => TypeOK
  BY InvImpliesTypeOK
<1> QED
  BY <1>1, <1>2, <1>3, PTL DEF Spec

=============================================================================
