--------------------------- MODULE KeySpaceProofs ---------------------------
(***************************************************************************)
(* The bucket of an id is the logarithm of its XOR distance, for every     *)
(* number of bits, and the consequence that findNode relies on.            *)
(***************************************************************************)
EXTENDS MCKeySpace, ListsProofs

(* The powers of two.                                                      *)
LEMMA Powers ==
  /\ Pow2[0] = 1
  /\ \A i \in Indices : Pow2[i + 1] = 2 * Pow2[i]
  /\ \A i \in 0 .. BIT_SIZE : Pow2[i] \in Nat \ {0}
<1> DEFINE body(f) == [i \in 0 .. BIT_SIZE |-> IF i = 0 THEN 1 ELSE 2 * f[i - 1]]
           S == Nat \ {0}
           step == [p \in Nat \X S |-> 2 * p[2]]
<1>1. BIT_SIZE \in Nat
  BY BitSizeAssumption
<1>2. step \in [Nat \X S -> S] /\ 1 \in S
  OBVIOUS
<1>3. ASSUME NEW i \in Nat, NEW x \in S PROVE step[<<i, x>>] = 2 * x
  OBVIOUS
<1> HIDE DEF step, S
<1>a. PICK f : Iterates(f, BIT_SIZE, S, 1, step)
  BY <1>1, <1>2, IteratesExists
<1>4. /\ f \in [0 .. BIT_SIZE -> S] /\ f[0] = 1
      /\ \A i \in 1 .. BIT_SIZE : f[i] = step[<<i, f[i - 1]>>]
  BY <1>a DEF Iterates
<1>5. ASSUME NEW i \in 0 .. BIT_SIZE PROVE f[i] = IF i = 0 THEN 1 ELSE 2 * f[i - 1]
  <2>1. CASE i # 0
    <3>1. i \in 1 .. BIT_SIZE /\ i - 1 \in 0 .. BIT_SIZE /\ i \in Nat
      BY <1>1, <2>1
    <3> QED
      BY <1>3, <1>4, <2>1, <3>1
  <2> QED
    BY <1>4, <2>1
<1>6. f = body(f)
  BY <1>4, <1>5
<1>7. Pow2 = body(Pow2)
  <2>1. Pow2 = CHOOSE g : g = body(g)
    BY DEF Pow2
  <2> HIDE DEF body
  <2> QED
    BY <1>6, <2>1
<1>8. ASSUME NEW i \in 0 .. BIT_SIZE PROVE Pow2[i] = IF i = 0 THEN 1 ELSE 2 * Pow2[i - 1]
  BY <1>7
<1>9. Pow2[0] = 1
  BY <1>1, <1>8
<1>10. \A i \in Indices : Pow2[i + 1] = 2 * Pow2[i]
  <2> TAKE i \in Indices
  <2>1. i + 1 \in 0 .. BIT_SIZE /\ i + 1 # 0 /\ (i + 1) - 1 = i
    BY <1>1 DEF Indices
  <2> QED
    BY <1>8, <2>1
<1> DEFINE T == {k \in Nat : k =< BIT_SIZE => Pow2[k] \in Nat \ {0}}
<1>11. T = Nat
  <2>1. 0 \in T
    BY <1>9
  <2>2. ASSUME NEW k \in T PROVE k + 1 \in T
    <3> SUFFICES ASSUME k + 1 =< BIT_SIZE PROVE Pow2[k + 1] \in Nat \ {0}
      OBVIOUS
    <3>1. k \in Indices /\ Pow2[k] \in Nat \ {0}
      BY <1>1 DEF Indices
    <3> QED
      BY <1>10, <3>1
  <2> HIDE DEF T
  <2> QED
    BY <2>1, <2>2, SetInduction DEF T
<1>12. ASSUME NEW k \in 0 .. BIT_SIZE PROVE Pow2[k] \in Nat \ {0}
  BY <1>1, <1>11
<1> QED
  BY <1>9, <1>10, <1>12

LEMMA PowersGrow ==
  ASSUME NEW i \in 0 .. BIT_SIZE, NEW j \in 0 .. BIT_SIZE, i =< j
  PROVE  Pow2[i] =< Pow2[j]
<1> DEFINE T == {d \in Nat : i + d =< BIT_SIZE => Pow2[i] =< Pow2[i + d]}
<1>1. BIT_SIZE \in Nat /\ i \in Nat /\ j \in Nat
  BY BitSizeAssumption
<1>2. 0 \in T
  BY <1>1, Powers
<1>3. ASSUME NEW d \in T PROVE d + 1 \in T
  <2> SUFFICES ASSUME i + (d + 1) =< BIT_SIZE PROVE Pow2[i] =< Pow2[i + (d + 1)]
    OBVIOUS
  <2>1. i + d \in Indices /\ i + d \in 0 .. BIT_SIZE /\ i + (d + 1) = (i + d) + 1
    BY <1>1 DEF Indices
  <2>2. Pow2[i] =< Pow2[i + d]
    BY <2>1
  <2>3. Pow2[i + (d + 1)] = 2 * Pow2[i + d] /\ Pow2[i] \in Nat /\ Pow2[i + d] \in Nat
    BY <2>1, Powers
  <2> QED
    BY <2>2, <2>3
<1>4. T = Nat
  <2> HIDE DEF T
  <2>1. \A d \in T : d + 1 \in T
    BY <1>3
  <2> QED
    BY <1>2, <2>1, SetInduction DEF T
<1> HIDE DEF T
<1>5. j - i \in T /\ i + (j - i) = j
  BY <1>1, <1>4
<1> QED
  BY <1>1, <1>5 DEF T

(* Halving: what is left of n above bit i, and the bit itself.             *)
LEMMA Halves ==
  ASSUME NEW n \in Nat, NEW i \in Indices
  PROVE  /\ Bit(n, i) \in {0, 1}
         /\ n \div Pow2[i + 1] \in Nat
         /\ n \div Pow2[i] = 2 * (n \div Pow2[i + 1]) + Bit(n, i)
<1> DEFINE a == Pow2[i]
           q == n \div a
           r == n % a
           h == q \div 2
           b == q % 2
<1>1. a \in Nat /\ a > 0 /\ Pow2[i + 1] = 2 * a
  <2>1. i \in 0 .. BIT_SIZE
    BY BitSizeAssumption DEF Indices
  <2> QED
    BY <2>1, Powers
<1> HIDE DEF a
<1>2. q \in Nat /\ r \in 0 .. a - 1 /\ n = a * q + r
  BY <1>1
<1> HIDE DEF q, r
<1>3. h \in Nat /\ b \in {0, 1} /\ q = 2 * h + b
  BY <1>2
<1> HIDE DEF h, b
<1>4. a * b \in 0 .. a /\ a * b + r \in 0 .. 2 * a - 1
  BY <1>1, <1>2, <1>3
<1>5. a * q = (2 * a) * h + a * b
  BY <1>1, <1>2, <1>3
<1>6. n = (2 * a) * h + (a * b + r)
  BY <1>1, <1>2, <1>3, <1>4, <1>5
<1>7. n \div (2 * a) = h
  BY <1>1, <1>3, <1>4, <1>6
<1>8. Bit(n, i) = b
  BY DEF Bit, a, b, q
<1> QED
  BY <1>1, <1>3, <1>7, <1>8 DEF a, q

(* Two ids that agree in bit k and all above it agree in what is left of   *)
(* them at bit k.                                                          *)
LEMMA SameAbove ==
  ASSUME NEW a \in 0 .. HASH_SIZE - 1, NEW b \in 0 .. HASH_SIZE - 1, NEW k \in 0 .. BIT_SIZE,
         \A i \in Indices : i >= k => Bit(a, i) = Bit(b, i)
  PROVE  a \div Pow2[k] = b \div Pow2[k]
<1> DEFINE P(j) == a \div Pow2[j] = b \div Pow2[j]
           T == {d \in Nat : d =< BIT_SIZE - k => P(BIT_SIZE - d)}
<1>1. BIT_SIZE \in Nat /\ a \in Nat /\ b \in Nat /\ k \in Nat
  BY BitSizeAssumption, HashSizeAssumption
<1>2. 0 \in T
  <2>1. a \div HASH_SIZE = 0 /\ b \div HASH_SIZE = 0
    BY HashSizeAssumption
  <2>2. BIT_SIZE - 0 = BIT_SIZE
    BY <1>1
  <2> QED
    BY <2>1, <2>2, HashSizeAssumption
<1>3. ASSUME NEW d \in T PROVE d + 1 \in T
  <2> SUFFICES ASSUME d + 1 =< BIT_SIZE - k PROVE P(BIT_SIZE - (d + 1))
    OBVIOUS
  <2> DEFINE i == BIT_SIZE - (d + 1)
  <2>1. i \in Indices /\ i >= k /\ i + 1 = BIT_SIZE - d
    BY <1>1 DEF Indices
  <2>2. P(i + 1)
    BY <1>1, <2>1
  <2> HIDE DEF i
  <2>3. Bit(a, i) = Bit(b, i)
    BY <2>1
  <2>4. /\ a \div Pow2[i] = 2 * (a \div Pow2[i + 1]) + Bit(a, i)
        /\ b \div Pow2[i] = 2 * (b \div Pow2[i + 1]) + Bit(b, i)
    BY <1>1, <2>1, Halves
  <2> QED
    BY <2>2, <2>3, <2>4 DEF i
<1> HIDE DEF T
<1>4. T = Nat
  BY <1>2, <1>3, SetInduction DEF T
<1>5. BIT_SIZE - k \in T /\ BIT_SIZE - (BIT_SIZE - k) = k
  BY <1>1, <1>4
<1> QED
  BY <1>5 DEF T

(* Ids that agree in all bits are equal.                                   *)
LEMMA BitsDetermine ==
  ASSUME NEW a \in 0 .. HASH_SIZE - 1, NEW b \in 0 .. HASH_SIZE - 1, a # b
  PROVE  DifferingBits(a, b) # {}
<1> SUFFICES ASSUME DifferingBits(a, b) = {} PROVE FALSE
  OBVIOUS
<1>1. a \div Pow2[0] = b \div Pow2[0]
  BY SameAbove, BitSizeAssumption DEF DifferingBits
<1> QED
  BY <1>1, Powers, HashSizeAssumption

(* The bucket of another id is the highest bit in which the two differ.    *)
LEMMA IndexIsTopBit ==
  ASSUME NEW a \in 0 .. HASH_SIZE - 1, NEW b \in 0 .. HASH_SIZE - 1, a # b
  PROVE  /\ getBucketIndex(a, b) \in DifferingBits(a, b)
         /\ \A j \in DifferingBits(a, b) : j =< getBucketIndex(a, b)
<1> DEFINE D == DifferingBits(a, b)
<1>1. D # {}
  BY BitsDetermine
<1>2. D \in SUBSET (0 .. BIT_SIZE - 1) /\ BIT_SIZE - 1 \in Nat
  BY BitSizeAssumption DEF DifferingBits, Indices
<1>3. getBucketIndex(a, b) = CHOOSE i \in D : \A j \in D : j =< i
  BY <1>1 DEF getBucketIndex
<1> HIDE DEF D
<1>4. \E i \in D : \A j \in D : j =< i
  BY <1>1, <1>2, GreatestExists
<1> QED
  BY <1>3, <1>4 DEF D

-----------------------------------------------------------------------------
(* XOR.                                                                    *)

(* The sum that XOR(a, b) computes, up to bit i.                           *)
XorUpto(a, b, low) ==
  /\ low \in [0 .. BIT_SIZE -> Nat]
  /\ low[0] = 0
  /\ \A i \in Indices :
       low[i + 1] = low[i] + (IF i \in DifferingBits(a, b) THEN Pow2[i] ELSE 0)

LEMMA XorRecursion ==
  ASSUME NEW a, NEW b
  PROVE  \E low : XorUpto(a, b, low) /\ XOR(a, b) = low[BIT_SIZE]
<1> DEFINE inc(i) == IF Bit(a, i - 1) = Bit(b, i - 1) THEN 0 ELSE Pow2[i - 1]
           body(f) == [i \in 0 .. BIT_SIZE |-> IF i = 0 THEN 0 ELSE f[i - 1] + inc(i)]
           step == [p \in Nat \X Nat |->
                      p[2] + (IF p[1] \in 1 .. BIT_SIZE THEN inc(p[1]) ELSE 0)]
<1>1. BIT_SIZE \in Nat
  BY BitSizeAssumption
<1>2. \A i \in 1 .. BIT_SIZE : inc(i) \in Nat
  <2> TAKE i \in 1 .. BIT_SIZE
  <2>1. i - 1 \in 0 .. BIT_SIZE
    BY <1>1
  <2> QED
    BY <2>1, Powers
<1> HIDE DEF inc
<1>3. step \in [Nat \X Nat -> Nat]
  BY <1>1, <1>2
<1>4. ASSUME NEW i \in 1 .. BIT_SIZE, NEW x \in Nat PROVE step[<<i, x>>] = x + inc(i)
  BY <1>1
<1> HIDE DEF step
<1>5. PICK f : Iterates(f, BIT_SIZE, Nat, 0, step)
  BY <1>1, <1>3, IteratesExists
<1>6. /\ f \in [0 .. BIT_SIZE -> Nat] /\ f[0] = 0
      /\ \A i \in 1 .. BIT_SIZE : f[i] = step[<<i, f[i - 1]>>]
  BY <1>5 DEF Iterates
<1>7. ASSUME NEW i \in 0 .. BIT_SIZE PROVE f[i] = IF i = 0 THEN 0 ELSE f[i - 1] + inc(i)
  <2>1. CASE i # 0
    <3>1. i \in 1 .. BIT_SIZE /\ i - 1 \in 0 .. BIT_SIZE
      BY <1>1, <2>1
    <3> QED
      BY <1>4, <1>6, <2>1, <3>1
  <2> QED
    BY <1>6, <2>1
<1>8. f = body(f)
  BY <1>6, <1>7
<1> DEFINE low == CHOOSE g : g = body(g)
<1>9. low = body(low)
  <2> HIDE DEF body
  <2> QED
    BY <1>8
<1>10. XOR(a, b) = low[BIT_SIZE]
  BY DEF XOR, inc
<1> HIDE DEF low
<1>11. ASSUME NEW i \in 0 .. BIT_SIZE PROVE low[i] = IF i = 0 THEN 0 ELSE low[i - 1] + inc(i)
  BY <1>9
<1>12. low[0] = 0
  BY <1>1, <1>11
<1>13. ASSUME NEW i \in Indices
       PROVE  low[i + 1] = low[i] + (IF i \in DifferingBits(a, b) THEN Pow2[i] ELSE 0)
  <2>1. i + 1 \in 0 .. BIT_SIZE /\ i + 1 # 0 /\ (i + 1) - 1 = i
    BY <1>1 DEF Indices
  <2>2. low[i + 1] = low[i] + inc(i + 1)
    BY <1>11, <2>1
  <2>3. inc(i + 1) = IF i \in DifferingBits(a, b) THEN Pow2[i] ELSE 0
    BY <2>1 DEF inc, DifferingBits
  <2> QED
    BY <2>2, <2>3
<1> DEFINE T == {k \in Nat : k =< BIT_SIZE => low[k] \in Nat}
<1>14. T = Nat
  <2>1. 0 \in T
    BY <1>12
  <2>2. ASSUME NEW k \in T PROVE k + 1 \in T
    <3> SUFFICES ASSUME k + 1 =< BIT_SIZE PROVE low[k + 1] \in Nat
      OBVIOUS
    <3>1. k \in Indices /\ k \in 0 .. BIT_SIZE /\ low[k] \in Nat
      BY <1>1 DEF Indices
    <3> QED
      BY <1>13, <3>1, Powers
  <2> HIDE DEF T
  <2> QED
    BY <2>1, <2>2, SetInduction DEF T
<1>15. low \in [0 .. BIT_SIZE -> Nat]
  <2>1. low = [i \in 0 .. BIT_SIZE |-> low[i]]
    BY <1>9
  <2>2. \A k \in 0 .. BIT_SIZE : low[k] \in Nat
    BY <1>1, <1>14
  <2> QED
    BY <2>1, <2>2
<1> QED
  BY <1>10, <1>12, <1>13, <1>15 DEF XorUpto

(* The bits below bit j add up to less than 2^j.                           *)
LEMMA XorUptoBounded ==
  ASSUME NEW a, NEW b, NEW low, XorUpto(a, b, low), NEW k \in 0 .. BIT_SIZE
  PROVE  low[k] < Pow2[k]
<1>1. BIT_SIZE \in Nat
  BY BitSizeAssumption
<1>2. \A i \in 0 .. BIT_SIZE : Pow2[i] \in Nat /\ Pow2[i] > 0 /\ low[i] \in Nat
  BY Powers DEF XorUpto
<1> DEFINE T == {j \in Nat : j =< BIT_SIZE => low[j] < Pow2[j]}
<1>3. 0 \in T
  <2>1. low[0] = 0 /\ 0 \in 0 .. BIT_SIZE
    BY <1>1 DEF XorUpto
  <2> QED
    BY <1>2, <2>1
<1>4. ASSUME NEW j \in T PROVE j + 1 \in T
  <2> SUFFICES ASSUME j + 1 =< BIT_SIZE PROVE low[j + 1] < Pow2[j + 1]
    OBVIOUS
  <2>1. j \in Indices /\ j \in 0 .. BIT_SIZE /\ low[j] < Pow2[j]
    BY <1>1 DEF Indices
  <2>2. Pow2[j + 1] = 2 * Pow2[j]
    BY <2>1, Powers
  <2>3. low[j + 1] = low[j] + (IF j \in DifferingBits(a, b) THEN Pow2[j] ELSE 0)
    BY <2>1 DEF XorUpto
  <2> QED
    BY <1>2, <2>1, <2>2, <2>3
<1> HIDE DEF T
<1>5. T = Nat
  BY <1>3, <1>4, SetInduction DEF T
<1> QED
  BY <1>1, <1>5 DEF T

(* Ids that differ only below bit k are less than 2^k apart.               *)
LEMMA XorBelow ==
  ASSUME NEW a, NEW b, NEW k \in 0 .. BIT_SIZE, \A i \in DifferingBits(a, b) : i < k
  PROVE  XOR(a, b) \in Nat /\ XOR(a, b) < Pow2[k]
<1>1. PICK low : XorUpto(a, b, low) /\ XOR(a, b) = low[BIT_SIZE]
  BY XorRecursion
<1>2. BIT_SIZE \in Nat
  BY BitSizeAssumption
<1>3. \A i \in 0 .. BIT_SIZE : Pow2[i] \in Nat /\ Pow2[i] > 0 /\ low[i] \in Nat
  BY <1>1, Powers DEF XorUpto
<1> DEFINE T == {j \in Nat : j =< BIT_SIZE /\ j >= k => low[j] < Pow2[k]}
<1>4. 0 \in T
  <2>1. 0 \in 0 .. BIT_SIZE /\ low[0] < Pow2[0]
    BY <1>1, <1>2, XorUptoBounded
  <2> QED
    BY <1>2, <2>1
<1>5. ASSUME NEW j \in T PROVE j + 1 \in T
  <2> SUFFICES ASSUME j + 1 =< BIT_SIZE, j + 1 >= k PROVE low[j + 1] < Pow2[k]
    OBVIOUS
  <2>1. CASE j + 1 = k
    BY <1>1, <2>1, XorUptoBounded
  <2>2. CASE j + 1 # k
    <3>1. j \in Indices /\ j \in 0 .. BIT_SIZE /\ low[j] < Pow2[k]
      BY <1>2, <2>2 DEF Indices
    <3>2. j \notin DifferingBits(a, b)
      BY <1>2, <2>2
    <3>3. low[j + 1] = low[j]
      BY <1>1, <1>3, <3>1, <3>2 DEF XorUpto
    <3> QED
      BY <3>1, <3>3
  <2> QED
    BY <2>1, <2>2
<1> HIDE DEF T
<1>6. T = Nat
  BY <1>4, <1>5, SetInduction DEF T
<1>7. low[BIT_SIZE] < Pow2[k]
  BY <1>2, <1>6 DEF T
<1> QED
  BY <1>1, <1>2, <1>3, <1>7

(* Ids that differ in bit i are at least 2^i apart.                        *)
LEMMA XorAbove ==
  ASSUME NEW a, NEW b, NEW i \in DifferingBits(a, b)
  PROVE  XOR(a, b) \in Nat /\ Pow2[i] =< XOR(a, b)
<1>1. PICK low : XorUpto(a, b, low) /\ XOR(a, b) = low[BIT_SIZE]
  BY XorRecursion
<1>2. BIT_SIZE \in Nat /\ i \in Indices /\ i \in Nat /\ i < BIT_SIZE
  BY BitSizeAssumption DEF DifferingBits, Indices
<1>3. \A j \in 0 .. BIT_SIZE : Pow2[j] \in Nat /\ low[j] \in Nat
  BY <1>1, Powers DEF XorUpto
<1> DEFINE T == {j \in Nat : j =< BIT_SIZE /\ j > i => Pow2[i] =< low[j]}
<1>4. 0 \in T
  BY <1>2
<1>5. ASSUME NEW j \in T PROVE j + 1 \in T
  <2> SUFFICES ASSUME j + 1 =< BIT_SIZE, j + 1 > i PROVE Pow2[i] =< low[j + 1]
    OBVIOUS
  <2>1. j \in Indices /\ j \in 0 .. BIT_SIZE /\ j + 1 \in 0 .. BIT_SIZE /\ i \in 0 .. BIT_SIZE
    BY <1>2 DEF Indices
  <2>2. low[j + 1] = low[j] + (IF j \in DifferingBits(a, b) THEN Pow2[j] ELSE 0)
    BY <1>1, <2>1 DEF XorUpto
  <2>3. CASE j = i
    BY <1>3, <2>1, <2>2, <2>3
  <2>4. CASE j # i
    <3>1. Pow2[i] =< low[j]
      BY <1>2, <2>1, <2>4
    <3> QED
      BY <1>3, <2>1, <2>2, <3>1
  <2> QED
    BY <2>3, <2>4
<1> HIDE DEF T
<1>6. T = Nat
  BY <1>4, <1>5, SetInduction DEF T
<1>7. Pow2[i] =< low[BIT_SIZE]
  BY <1>2, <1>6 DEF T
<1> QED
  BY <1>1, <1>2, <1>3, <1>7

LEMMA XorType == \A a, b : XOR(a, b) \in Nat
<1> TAKE a, b
<1>1. PICK low : XorUpto(a, b, low) /\ XOR(a, b) = low[BIT_SIZE]
  BY XorRecursion
<1> QED
  BY <1>1, BitSizeAssumption DEF XorUpto

(* Bits have two values.                                                   *)
LEMMA BitValues ==
  ASSUME NEW n \in 0 .. HASH_SIZE - 1, NEW i \in Indices
  PROVE  Bit(n, i) \in {0, 1}
<1>1. n \in Nat
  BY HashSizeAssumption
<1> QED
  BY <1>1, Halves

(* No two ids are equally far from a third.                                *)
LEMMA XorInjective ==
  ASSUME NEW a \in 0 .. HASH_SIZE - 1, NEW b \in 0 .. HASH_SIZE - 1,
         NEW k \in 0 .. HASH_SIZE - 1, a # b
  PROVE  XOR(a, k) # XOR(b, k)
<1>1. PICK f : XorUpto(a, k, f) /\ XOR(a, k) = f[BIT_SIZE]
  BY XorRecursion
<1>2. PICK g : XorUpto(b, k, g) /\ XOR(b, k) = g[BIT_SIZE]
  BY XorRecursion
<1>3. BIT_SIZE \in Nat /\ \A i \in 0 .. BIT_SIZE : f[i] \in Nat /\ g[i] \in Nat
  BY <1>1, <1>2, BitSizeAssumption DEF XorUpto
<1> DEFINE i == getBucketIndex(a, b)
<1>4. i \in DifferingBits(a, b) /\ \A j \in DifferingBits(a, b) : j =< i
  BY IndexIsTopBit
<1> HIDE DEF i
<1>5. i \in Indices /\ i \in Nat /\ Bit(a, i) # Bit(b, i)
  BY <1>3, <1>4 DEF DifferingBits, Indices
<1>6. \A j \in Indices : j > i =>
        (j \in DifferingBits(a, k) <=> j \in DifferingBits(b, k))
  BY <1>3, <1>4, <1>5 DEF DifferingBits, Indices
<1>7. i \in DifferingBits(a, k) <=> i \notin DifferingBits(b, k)
  BY <1>5, BitValues DEF DifferingBits
(* The sums part at bit i, for what is below it is less than 2^i.          *)
<1>8. f[i + 1] # g[i + 1]
  <2>1. i \in 0 .. BIT_SIZE
    BY <1>3, <1>5 DEF Indices
  <2>2. f[i] < Pow2[i] /\ g[i] < Pow2[i]
    BY <1>1, <1>2, <2>1, XorUptoBounded
  <2>3. /\ f[i + 1] = f[i] + (IF i \in DifferingBits(a, k) THEN Pow2[i] ELSE 0)
        /\ g[i + 1] = g[i] + (IF i \in DifferingBits(b, k) THEN Pow2[i] ELSE 0)
    BY <1>1, <1>2, <1>5 DEF XorUpto
  <2>4. Pow2[i] \in Nat
    BY <2>1, Powers
  <2> QED
    BY <1>3, <1>7, <2>1, <2>2, <2>3, <2>4
<1> DEFINE T == {j \in Nat : j =< BIT_SIZE /\ j > i => f[j] # g[j]}
<1>9. 0 \in T
  BY <1>5
<1>10. ASSUME NEW j \in T PROVE j + 1 \in T
  <2> SUFFICES ASSUME j + 1 =< BIT_SIZE, j + 1 > i PROVE f[j + 1] # g[j + 1]
    OBVIOUS
  <2>1. CASE j = i
    BY <1>8, <2>1
  <2>2. CASE j # i
    <3>1. j \in Indices /\ j > i /\ j \in 0 .. BIT_SIZE /\ f[j] # g[j]
      BY <1>3, <1>5, <2>2 DEF Indices
    <3>2. j \in DifferingBits(a, k) <=> j \in DifferingBits(b, k)
      BY <1>6, <3>1
    <3>3. /\ f[j + 1] = f[j] + (IF j \in DifferingBits(a, k) THEN Pow2[j] ELSE 0)
          /\ g[j + 1] = g[j] + (IF j \in DifferingBits(b, k) THEN Pow2[j] ELSE 0)
      BY <1>1, <1>2, <3>1 DEF XorUpto
    <3>4. Pow2[j] \in Nat
      BY <3>1, Powers
    <3> QED
      BY <1>3, <3>1, <3>2, <3>3, <3>4
  <2> QED
    BY <2>1, <2>2
<1> HIDE DEF T
<1>11. T = Nat
  BY <1>9, <1>10, SetInduction DEF T
<1>12. f[BIT_SIZE] # g[BIT_SIZE]
  BY <1>3, <1>5, <1>11 DEF T, Indices
<1> QED
  BY <1>1, <1>2, <1>3, <1>12

-----------------------------------------------------------------------------
(* Buckets.                                                                *)

(* The bucket of an id is one of the table's indices, and its bounds are   *)
(* those of the XOR distance.                                              *)
LEMMA IndexBounds ==
  ASSUME NEW a \in 0 .. HASH_SIZE - 1, NEW b \in 0 .. HASH_SIZE - 1, a # b
  PROVE  LET i == getBucketIndex(a, b)
         IN  i \in Indices /\ Pow2[i] =< XOR(a, b) /\ XOR(a, b) < Pow2[i + 1]
<1> DEFINE i == getBucketIndex(a, b)
<1>1. i \in DifferingBits(a, b) /\ \A j \in DifferingBits(a, b) : j =< i
  BY IndexIsTopBit
<1> HIDE DEF i
<1>2. i \in Indices /\ i + 1 \in 0 .. BIT_SIZE
  BY <1>1, BitSizeAssumption DEF DifferingBits, Indices
<1>3. \A j \in DifferingBits(a, b) : j < i + 1
  BY <1>1, <1>2, BitSizeAssumption DEF DifferingBits, Indices
<1> QED
  BY <1>1, <1>2, <1>3, XorAbove, XorBelow DEF i

(* And no other bucket has the distance in its range.                      *)
LEMMA IndexUnique ==
  ASSUME NEW a \in 0 .. HASH_SIZE - 1, NEW b \in 0 .. HASH_SIZE - 1, a # b,
         NEW i \in Indices, Pow2[i] =< XOR(a, b), XOR(a, b) < Pow2[i + 1]
  PROVE  getBucketIndex(a, b) = i
<1> DEFINE j == getBucketIndex(a, b)
           d == XOR(a, b)
<1>1. j \in Indices /\ Pow2[j] =< d /\ d < Pow2[j + 1]
  BY IndexBounds
<1>2. d \in Nat
  BY XorType
<1>3. Pow2[i] =< d /\ d < Pow2[i + 1]
  OBVIOUS
<1> HIDE DEF j, d
<1>4. /\ i \in 0 .. BIT_SIZE /\ i + 1 \in 0 .. BIT_SIZE
      /\ j \in 0 .. BIT_SIZE /\ j + 1 \in 0 .. BIT_SIZE
      /\ i \in Int /\ j \in Int
  BY <1>1, BitSizeAssumption DEF Indices
<1>5. \A k \in 0 .. BIT_SIZE : Pow2[k] \in Nat
  BY Powers
<1>6. CASE i < j
  <2>1. Pow2[i + 1] =< Pow2[j]
    BY <1>4, <1>6, PowersGrow
  <2> QED
    BY <1>1, <1>2, <1>3, <1>4, <1>5, <2>1
<1>7. CASE j < i
  <2>1. Pow2[j + 1] =< Pow2[i]
    BY <1>4, <1>7, PowersGrow
  <2> QED
    BY <1>1, <1>2, <1>3, <1>4, <1>5, <2>1
<1> QED
  BY <1>4, <1>6, <1>7 DEF j

(* Two peers of one bucket differ only below its index, and peers of two   *)
(* buckets differ in the higher of the indices.                            *)
LEMMA BucketsSeparate ==
  ASSUME NEW a \in 0 .. HASH_SIZE - 1, NEW n \in 0 .. HASH_SIZE - 1,
         NEW m \in 0 .. HASH_SIZE - 1, n # a, m # a
  PROVE  LET i == getBucketIndex(a, n)
             j == getBucketIndex(a, m)
         IN  /\ i \in Indices /\ j \in Indices
             /\ i = j => \A l \in DifferingBits(n, m) : l < i
             /\ i < j => j \in DifferingBits(n, m)
             /\ j < i => i \in DifferingBits(n, m)
<1> DEFINE i == getBucketIndex(a, n)
           j == getBucketIndex(a, m)
<1>1. i \in DifferingBits(a, n) /\ \A l \in DifferingBits(a, n) : l =< i
  BY IndexIsTopBit
<1>2. j \in DifferingBits(a, m) /\ \A l \in DifferingBits(a, m) : l =< j
  BY IndexIsTopBit
<1> HIDE DEF i, j
<1>3. BIT_SIZE \in Nat /\ i \in Indices /\ j \in Indices /\ Indices \subseteq Nat
  BY <1>1, <1>2, BitSizeAssumption DEF DifferingBits, Indices
<1>4. ASSUME i = j, NEW l \in DifferingBits(n, m) PROVE l < i
  <2>1. l \in Indices /\ l \in Nat /\ Bit(n, l) # Bit(m, l)
    BY <1>3 DEF DifferingBits
  <2>2. l # i
    BY <1>1, <1>2, <1>4, <2>1, BitValues DEF DifferingBits
  <2>3. ~ (l > i)
    BY <1>1, <1>2, <1>3, <1>4, <2>1 DEF DifferingBits
  <2> QED
    BY <1>3, <2>1, <2>2, <2>3
<1>5. i < j => j \in DifferingBits(n, m)
  BY <1>1, <1>2, <1>3 DEF DifferingBits
<1>6. j < i => i \in DifferingBits(n, m)
  BY <1>1, <1>2, <1>3 DEF DifferingBits
<1> QED
  BY <1>3, <1>4, <1>5, <1>6 DEF i, j

(* A peer of the key's own bucket is nearer to the key than any other.     *)
LEMMA SameBucketNearer ==
  ASSUME NEW a \in 0 .. HASH_SIZE - 1, NEW k \in (0 .. HASH_SIZE - 1) \ {a},
         NEW n \in (0 .. HASH_SIZE - 1) \ {a}, NEW m \in (0 .. HASH_SIZE - 1) \ {a},
         getBucketIndex(a, n) = getBucketIndex(a, k),
         getBucketIndex(a, m) # getBucketIndex(a, k)
  PROVE  XOR(n, k) < XOR(m, k)
<1> DEFINE i == getBucketIndex(a, k)
           j == getBucketIndex(a, m)
<1>1. i \in Indices /\ j \in Indices /\ \A l \in DifferingBits(n, k) : l < i
  BY BucketsSeparate
<1>2. /\ i < j => j \in DifferingBits(m, k)
      /\ j < i => i \in DifferingBits(m, k)
  BY BucketsSeparate
<1>3. i # j
  OBVIOUS
<1> HIDE DEF i, j
<1>4. /\ BIT_SIZE \in Nat /\ i \in Nat /\ j \in Nat /\ i \in 0 .. BIT_SIZE /\ j \in 0 .. BIT_SIZE
      /\ \A l \in DifferingBits(n, k) : l \in Nat
  BY <1>1, BitSizeAssumption DEF Indices, DifferingBits
<1>5. ASSUME NEW h \in 0 .. BIT_SIZE, \A l \in DifferingBits(n, k) : l < h,
             h \in DifferingBits(m, k)
      PROVE  XOR(n, k) < XOR(m, k)
  <2>1. XOR(n, k) \in Nat /\ XOR(n, k) < Pow2[h]
    BY <1>5, XorBelow
  <2>2. XOR(m, k) \in Nat /\ Pow2[h] =< XOR(m, k)
    BY <1>5, XorAbove
  <2>3. Pow2[h] \in Nat
    BY Powers
  <2> QED
    BY <2>1, <2>2, <2>3
<1>6. CASE i < j
  <2>1. \A l \in DifferingBits(n, k) : l < j
    BY <1>1, <1>4, <1>6
  <2> QED
    BY <1>2, <1>4, <1>5, <1>6, <2>1
<1>7. CASE j < i
  BY <1>1, <1>2, <1>4, <1>5, <1>7
<1> QED
  BY <1>3, <1>4, <1>6, <1>7

-----------------------------------------------------------------------------
(* The invariants of the walk through the key space.                       *)

Walk == owner \in 0 .. HASH_SIZE - 1 /\ key \in 0 .. HASH_SIZE - 1

LEMMA WalkInvariant == Spec => []Walk
<1>1. Init => Walk
  <2>1. HASH_SIZE >= 1
    BY Powers, HashSizeAssumption, BitSizeAssumption
  <2> QED
    BY <2>1, HashSizeAssumption, IdsAssumption DEF Init, Walk
<1>2. Walk /\ [NextKey]_vars => Walk'
  BY HashSizeAssumption DEF Walk, NextKey, vars
<1> QED
  BY <1>1, <1>2, PTL DEF Spec

(* The bit that getBucketIndex finds is the logarithm of the XOR distance, *)
(* for every number of bits and every pair of ids.                         *)
THEOREM LogDistance == Spec => []IndexIsLogDistance
<1>1. Walk => IndexIsLogDistance
  BY IndexBounds DEF Walk, IndexIsLogDistance
<1> QED
  BY <1>1, WalkInvariant, PTL

(* findNode starts with the key's own bucket, and whoever is in it is      *)
(* nearer to the key than anybody in another bucket.                       *)
THEOREM OwnBucketFirst == Spec => []OwnBucketIsNearest
<1>1. Walk => OwnBucketIsNearest
  <2> SUFFICES ASSUME Walk, owner # key,
                      NEW n \in Ids \ {owner}, NEW m \in Ids \ {owner},
                      getBucketIndex(owner, n) = getBucketIndex(owner, key),
                      getBucketIndex(owner, m) # getBucketIndex(owner, key)
               PROVE  XOR(n, key) < XOR(m, key)
    BY DEF OwnBucketIsNearest
  <2>1. owner \in 0 .. HASH_SIZE - 1 /\ key \in (0 .. HASH_SIZE - 1) \ {owner}
    BY DEF Walk
  <2>2. n \in (0 .. HASH_SIZE - 1) \ {owner} /\ m \in (0 .. HASH_SIZE - 1) \ {owner}
    BY IdsAssumption
  <2> QED
    BY <2>1, <2>2, SameBucketNearer
<1> QED
  BY <1>1, WalkInvariant, PTL

=============================================================================
