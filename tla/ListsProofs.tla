---------------------------- MODULE ListsProofs -----------------------------
(***************************************************************************)
(* What the list operations of module Lists return, for lists of any       *)
(* length.  The inductions go through SetInduction, which is about a set   *)
(* of numbers and so needs no operator as a parameter.                     *)
(***************************************************************************)
EXTENDS Lists, TLAPS, WellFoundedInduction, FiniteSetTheorems, SequenceTheorems

(* Induction over the naturals, for a set of them.                         *)
LEMMA SetInduction ==
  ASSUME NEW T \in SUBSET Nat, 0 \in T, \A n \in T : n + 1 \in T
  PROVE  T = Nat
<1> SUFFICES ASSUME Nat \ T # {} PROVE FALSE
  OBVIOUS
<1>1. PICK n \in Nat \ T : \A m \in Nat \ T : ~ (<<m, n>> \in OpToRel(<, Nat))
  BY NatLessThanWellFounded, WFMin
<1>2. n # 0 /\ n - 1 \in Nat
  OBVIOUS
<1>3. n - 1 \notin T
  BY <1>2
<1>4. <<n - 1, n>> \in OpToRel(<, Nat)
  BY <1>2 DEF OpToRel
<1> QED
  BY <1>1, <1>2, <1>3, <1>4

(* A nonempty set of numbers below a bound has a greatest element.         *)
LEMMA GreatestExists ==
  ASSUME NEW b \in Nat, NEW D \in SUBSET (0 .. b), D # {}
  PROVE  \E i \in D : \A j \in D : j =< i
<1> DEFINE M == {b - i : i \in D}
<1>1. M \in SUBSET Nat /\ M # {}
  <2>1. \A i \in D : b - i \in Nat
    OBVIOUS
  <2>2. PICK i \in D : TRUE
    OBVIOUS
  <2>3. b - i \in M
    OBVIOUS
  <2> QED
    BY <2>1, <2>3
<1>2. PICK m \in M : \A k \in M : ~ (<<k, m>> \in OpToRel(<, Nat))
  BY <1>1, NatLessThanWellFounded, WFMin
<1>3. \A k \in M : ~ (k < m)
  BY <1>1, <1>2 DEF OpToRel
<1>4. PICK i \in D : m = b - i
  OBVIOUS
<1>5. ASSUME NEW j \in D PROVE j =< i
  <2>1. b - j \in M
    OBVIOUS
  <2>2. ~ (b - j < b - i)
    BY <2>1, <1>3, <1>4
  <2> QED
    BY <2>2
<1> QED
  BY <1>5

(* f[0], ..., f[n] are base and what step makes of it, again and again.    *)
Iterates(f, n, S, base, step) ==
  /\ f \in [0 .. n -> S]
  /\ f[0] = base
  /\ \A i \in 1 .. n : f[i] = step[<<i, f[i - 1]>>]

(* A recursion whose step stays in a set S defines a function.             *)
LEMMA IteratesExists ==
  ASSUME NEW S, NEW base \in S, NEW step \in [Nat \X S -> S], NEW n \in Nat
  PROVE  \E f : Iterates(f, n, S, base, step)
<1> DEFINE Good(f, k) == Iterates(f, k, S, base, step)
           T == {k \in Nat : \E f : Good(f, k)}
<1>1. 0 \in T
  <2>1. Good([i \in 0 .. 0 |-> base], 0)
    BY DEF Iterates
  <2> QED
    BY <2>1
<1>2. ASSUME NEW k \in T PROVE k + 1 \in T
  <2>a. PICK f : Good(f, k)
    OBVIOUS
  <2>1. /\ f \in [0 .. k -> S] /\ f[0] = base
        /\ \A i \in 1 .. k : f[i] = step[<<i, f[i - 1]>>]
    BY <2>a DEF Iterates
  <2> DEFINE e == step[<<k + 1, f[k]>>]
             g == [i \in 0 .. k + 1 |-> IF i = k + 1 THEN e ELSE f[i]]
  <2>2. e \in S
    BY <2>1
  <2>3. \A i \in 0 .. k : g[i] = f[i] /\ g[i] \in S
    BY <2>1
  <2>4. g[k + 1] = e
    OBVIOUS
  <2>5. g \in [0 .. k + 1 -> S]
    BY <2>1, <2>2
  <2> HIDE DEF g
  <2>6. ASSUME NEW i \in 1 .. k + 1 PROVE g[i] = step[<<i, g[i - 1]>>]
    <3>1. CASE i = k + 1
      <4>1. i - 1 = k /\ g[k] = f[k]
        BY <3>1, <2>3
      <4> QED
        BY <3>1, <4>1, <2>4
    <3>2. CASE i # k + 1
      <4>1. i \in 1 .. k /\ i \in 0 .. k /\ i - 1 \in 0 .. k
        BY <3>2
      <4>2. g[i] = f[i] /\ g[i - 1] = f[i - 1]
        BY <4>1, <2>3
      <4> QED
        BY <4>1, <4>2, <2>1
    <3> QED
      BY <3>1, <3>2
  <2>7. g[0] = base
    BY <2>1, <2>3
  <2>8. Good(g, k + 1)
    BY <2>5, <2>6, <2>7 DEF Iterates
  <2> QED
    BY <2>8
<1> HIDE DEF T
<1>3. T = Nat
  BY <1>1, <1>2, SetInduction DEF T
<1> QED
  BY <1>3 DEF T

-----------------------------------------------------------------------------
(* Lists in general.                                                       *)

LEMMA AppendElements ==
  ASSUME NEW S, NEW s \in Seq(S), NEW e \in S
  PROVE  /\ Append(s, e) \in Seq(S)
         /\ Elements(Append(s, e)) = Elements(s) \cup {e}
         /\ (Distinct(s) /\ e \notin Elements(s)) => Distinct(Append(s, e))
<1>1. /\ Append(s, e) \in Seq(S)
      /\ Len(Append(s, e)) = Len(s) + 1
      /\ \A i \in 1 .. Len(s) : Append(s, e)[i] = s[i]
      /\ Append(s, e)[Len(s) + 1] = e
  OBVIOUS
<1>2. 1 .. Len(s) + 1 = (1 .. Len(s)) \cup {Len(s) + 1}
  OBVIOUS
<1>3. Elements(Append(s, e)) = Elements(s) \cup {e}
  BY <1>1, <1>2 DEF Elements
<1>4. ASSUME Distinct(s), e \notin Elements(s) PROVE Distinct(Append(s, e))
  BY <1>1, <1>2, <1>4 DEF Elements, Distinct
<1> QED
  BY <1>1, <1>3, <1>4

(* A list without duplicates has as many entries as elements.              *)
LEMMA DistinctCardinality ==
  ASSUME NEW S, NEW s \in Seq(S), Distinct(s)
  PROVE  IsFiniteSet(Elements(s)) /\ Cardinality(Elements(s)) = Len(s)
<1>1. s \in Bijection(1 .. Len(s), Elements(s))
  <2>1. s \in [1 .. Len(s) -> Elements(s)]
    BY DEF Elements
  <2>2. IsInjective(s)
    BY DEF Distinct, IsInjective
  <2>3. \A x \in Elements(s) : \E i \in 1 .. Len(s) : s[i] = x
    BY DEF Elements
  <2> QED
    BY <2>1, <2>2, <2>3 DEF Bijection, Injection, Surjection
<1>2. ExistsBijection(1 .. Len(s), Elements(s))
  BY <1>1 DEF ExistsBijection
<1>3. IsFiniteSet(1 .. Len(s)) /\ Cardinality(1 .. Len(s)) = Len(s)
  <2>1. Len(s) \in Nat /\ 1 \in Int /\ Len(s) \in Int
    OBVIOUS
  <2>2. /\ IsFiniteSet(1 .. Len(s))
        /\ Cardinality(1 .. Len(s)) = IF 1 > Len(s) THEN 0 ELSE Len(s) - 1 + 1
    BY <2>1, FS_Interval
  <2> QED
    BY <2>1, <2>2
<1> QED
  BY <1>2, <1>3, FS_Bijection

(* Prepending, as moveToFront does.                                        *)
LEMMA PrependElements ==
  ASSUME NEW S, NEW s \in Seq(S), NEW e \in S
  PROVE  /\ <<e>> \o s \in Seq(S)
         /\ Len(<<e>> \o s) = Len(s) + 1
         /\ Elements(<<e>> \o s) = Elements(s) \cup {e}
         /\ (Distinct(s) /\ e \notin Elements(s)) => Distinct(<<e>> \o s)
<1> DEFINE t == <<e>> \o s
<1>1. /\ t \in Seq(S)
      /\ Len(t) = Len(s) + 1
      /\ t[1] = e
      /\ \A i \in 1 .. Len(s) : t[i + 1] = s[i]
  OBVIOUS
<1> HIDE DEF t
<1>2. \A i \in 1 .. Len(t) : i = 1 \/ (i - 1 \in 1 .. Len(s) /\ t[i] = s[i - 1])
  BY <1>1
<1>3. Elements(t) = Elements(s) \cup {e}
  <2>1. ASSUME NEW x \in Elements(t) PROVE x \in Elements(s) \cup {e}
    <3>1. PICK i \in 1 .. Len(t) : x = t[i]
      BY DEF Elements
    <3>2. x = e \/ (i - 1 \in 1 .. Len(s) /\ x = s[i - 1])
      BY <3>1, <1>1, <1>2
    <3> QED
      BY <3>2 DEF Elements
  <2>2. ASSUME NEW x \in Elements(s) PROVE x \in Elements(t)
    <3>1. PICK i \in 1 .. Len(s) : x = s[i]
      BY DEF Elements
    <3>2. i + 1 \in 1 .. Len(t) /\ t[i + 1] = x
      BY <1>1, <3>1
    <3> QED
      BY <3>2 DEF Elements
  <2>3. e \in Elements(t)
    BY <1>1 DEF Elements
  <2> QED
    BY <2>1, <2>2, <2>3
<1>4. ASSUME Distinct(s), e \notin Elements(s) PROVE Distinct(t)
  <2> SUFFICES ASSUME NEW i \in 1 .. Len(t), NEW j \in 1 .. Len(t), t[i] = t[j]
               PROVE  i = j
    BY DEF Distinct
  <2>1. \A k \in 1 .. Len(s) : s[k] # e
    BY <1>4 DEF Elements
  <2>2. CASE i = 1 \/ j = 1
    BY <2>1, <2>2, <1>1, <1>2
  <2>3. CASE i # 1 /\ j # 1
    <3>1. i - 1 \in 1 .. Len(s) /\ j - 1 \in 1 .. Len(s) /\ s[i - 1] = s[j - 1]
      BY <2>3, <1>2
    <3>2. i - 1 = j - 1
      BY <3>1, <1>4 DEF Distinct
    <3> QED
      BY <3>2, <1>1
  <2> QED
    BY <2>2, <2>3
<1> QED
  BY <1>1, <1>3, <1>4 DEF t

LEMMA ReversedElements ==
  ASSUME NEW S, NEW s \in Seq(S)
  PROVE  /\ Reversed(s) \in Seq(S)
         /\ Len(Reversed(s)) = Len(s)
         /\ Elements(Reversed(s)) = Elements(s)
         /\ Distinct(s) => Distinct(Reversed(s))
<1> DEFINE n == Len(s)
           r == Reversed(s)
<1>1. r \in Seq(S) /\ Len(r) = n /\ \A i \in 1 .. n : r[i] = s[n + 1 - i]
  BY DEF Reversed
<1>2. \A i \in 1 .. n : n + 1 - i \in 1 .. n /\ n + 1 - (n + 1 - i) = i
  OBVIOUS
<1> HIDE DEF r
<1>3. Elements(r) = Elements(s)
  <2>1. ASSUME NEW i \in 1 .. n PROVE s[i] \in Elements(r) /\ r[i] \in Elements(s)
    BY <1>1, <1>2 DEF Elements
  <2> QED
    BY <2>1, <1>1 DEF Elements
<1>4. ASSUME Distinct(s) PROVE Distinct(r)
  <2> SUFFICES ASSUME NEW i \in 1 .. n, NEW j \in 1 .. n, r[i] = r[j] PROVE i = j
    BY <1>1 DEF Distinct
  <2>1. n + 1 - i = n + 1 - j
    BY <1>1, <1>2, <1>4 DEF Distinct
  <2> QED
    BY <2>1
<1> QED
  BY <1>1, <1>3, <1>4 DEF r

(* The first m entries of a list.                                          *)
LEMMA PrefixElements ==
  ASSUME NEW S, NEW s \in Seq(S), NEW m \in 0 .. Len(s)
  PROVE  /\ SubSeq(s, 1, m) \in Seq(S)
         /\ Len(SubSeq(s, 1, m)) = m
         /\ Elements(SubSeq(s, 1, m)) \subseteq Elements(s)
         /\ m = Len(s) => Elements(SubSeq(s, 1, m)) = Elements(s)
         /\ Distinct(s) => Distinct(SubSeq(s, 1, m))
<1> DEFINE t == SubSeq(s, 1, m)
<1>1. t \in Seq(S) /\ Len(t) = m /\ \A i \in 1 .. m : t[i] = s[i]
  OBVIOUS
<1> HIDE DEF t
<1>2. m \in Nat /\ \A i \in 1 .. m : i \in 1 .. Len(s)
  OBVIOUS
<1> QED
  BY <1>1, <1>2 DEF Elements, Distinct, t

-----------------------------------------------------------------------------
(* Without.                                                                *)

(* The function that Without computes, up to position n.                   *)
KeptUpto(s, p, f, n) ==
  f = [i \in 0 .. n |->
         IF i = 0 THEN << >>
         ELSE IF s[i] # p THEN Append(f[i - 1], s[i]) ELSE f[i - 1]]

(* The recursion of Without defines a function.                            *)
LEMMA KeptExists ==
  ASSUME NEW s, NEW p, NEW n \in Nat
  PROVE  \E f : KeptUpto(s, p, f, n)
<1> DEFINE T == {k \in Nat : \E f : KeptUpto(s, p, f, k)}
<1>1. 0 \in T
  <2>1. KeptUpto(s, p, [i \in 0 .. 0 |-> << >>], 0)
    BY DEF KeptUpto
  <2> QED
    BY <2>1
<1>2. ASSUME NEW k \in T PROVE k + 1 \in T
  <2>1. PICK f : KeptUpto(s, p, f, k)
    OBVIOUS
  <2> DEFINE step(h, i) == IF i = 0 THEN << >>
                           ELSE IF s[i] # p THEN Append(h[i - 1], s[i]) ELSE h[i - 1]
             g == [i \in 0 .. k + 1 |-> IF i = k + 1 THEN step(f, i) ELSE f[i]]
  <2>a. \A i \in 0 .. k : f[i] = step(f, i)
    BY <2>1 DEF KeptUpto
  <2>b. \A i \in 0 .. k : g[i] = f[i]
    OBVIOUS
  <2>2. \A i \in 0 .. k : g[i] = f[i] /\ f[i] = step(f, i)
    BY <2>a, <2>b
  <2>3. ASSUME NEW i \in 0 .. k + 1 PROVE g[i] = step(g, i)
    <3>1. CASE i = k + 1
      BY <3>1, <2>2
    <3>2. CASE i = 0
      <4>1. 0 \in 0 .. k
        OBVIOUS
      <4>2. g[0] = f[0] /\ f[0] = step(f, 0)
        BY <4>1, <2>2
      <4> HIDE DEF g
      <4> QED
        BY <3>2, <4>2
    <3>3. CASE i \in 1 .. k
      <4>1. i - 1 \in 0 .. k /\ i \in 0 .. k
        BY <3>3
      <4>2. g[i] = f[i] /\ g[i - 1] = f[i - 1] /\ f[i] = step(f, i)
        BY <4>1, <2>2
      <4> HIDE DEF g
      <4> QED
        BY <3>3, <4>2
    <3> QED
      BY <3>1, <3>2, <3>3
  <2>4. g = [i \in 0 .. k + 1 |-> g[i]]
    OBVIOUS
  <2> HIDE DEF g
  <2>5. KeptUpto(s, p, g, k + 1)
    BY <2>3, <2>4 DEF KeptUpto
  <2> QED
    BY <2>5
<1> HIDE DEF T
<1>3. T = Nat
  BY <1>1, <1>2, SetInduction DEF T
<1> QED
  BY <1>3 DEF T

LEMMA WithoutRecursion ==
  ASSUME NEW s, NEW p, Len(s) \in Nat
  PROVE  \E f : KeptUpto(s, p, f, Len(s)) /\ Without(s, p) = f[Len(s)]
<1> DEFINE kept == CHOOSE f : KeptUpto(s, p, f, Len(s))
<1>1. KeptUpto(s, p, kept, Len(s))
  BY KeptExists
<1>2. Without(s, p) = kept[Len(s)]
  BY DEF Without, KeptUpto
<1> QED
  BY <1>1, <1>2

(* Without(s, p) has the other entries of s, and only if s has none equal  *)
(* to p as many as s; it has no duplicates if s has none.                  *)
LEMMA WithoutProperties ==
  ASSUME NEW S, NEW s \in Seq(S), NEW p
  PROVE  /\ Without(s, p) \in Seq(S)
         /\ Elements(Without(s, p)) = Elements(s) \ {p}
         /\ Len(Without(s, p)) =< Len(s)
         /\ p \in Elements(s) => Len(Without(s, p)) < Len(s)
         /\ Distinct(s) => Distinct(Without(s, p))
<1> DEFINE n == Len(s)
<1>1. PICK f : KeptUpto(s, p, f, n) /\ Without(s, p) = f[n]
  BY WithoutRecursion
<1>2. f[0] = << >>
  BY <1>1 DEF KeptUpto
<1>3. \A k \in 0 .. n - 1 :
        f[k + 1] = IF s[k + 1] # p THEN Append(f[k], s[k + 1]) ELSE f[k]
  <2> TAKE k \in 0 .. n - 1
  <2>1. k + 1 \in 0 .. n /\ k + 1 # 0 /\ (k + 1) - 1 = k
    OBVIOUS
  <2> QED
    BY <1>1, <2>1 DEF KeptUpto
<1> DEFINE Good(k) ==
      /\ f[k] \in Seq(S)
      /\ Elements(f[k]) = {s[j] : j \in 1 .. k} \ {p}
      /\ Len(f[k]) =< k
      /\ p \in {s[j] : j \in 1 .. k} => Len(f[k]) < k
      /\ Distinct(s) => Distinct(f[k])
    T == {k \in Nat : k =< n => Good(k)}
<1>4. 0 \in T
  <2>1. Good(0)
    BY <1>2 DEF Elements, Distinct
  <2> QED
    BY <2>1
<1>5. ASSUME NEW k \in T PROVE k + 1 \in T
  <2> SUFFICES ASSUME k + 1 =< n PROVE Good(k + 1)
    OBVIOUS
  <2>1. k \in 0 .. n - 1 /\ k + 1 \in 1 .. n /\ s[k + 1] \in S
    OBVIOUS
  <2>2. Good(k)
    BY <2>1
  <2>3. {s[j] : j \in 1 .. k + 1} = {s[j] : j \in 1 .. k} \cup {s[k + 1]}
    <3>1. 1 .. k + 1 = (1 .. k) \cup {k + 1}
      BY <2>1
    <3> QED
      BY <3>1
  <2>4. CASE s[k + 1] = p
    <3>1. f[k + 1] = f[k]
      BY <2>1, <2>4, <1>3
    <3> QED
      BY <3>1, <2>1, <2>2, <2>3, <2>4
  <2>5. CASE s[k + 1] # p
    <3>1. f[k + 1] = Append(f[k], s[k + 1])
      BY <2>1, <2>5, <1>3
    <3>2. f[k + 1] \in Seq(S) /\ Len(f[k + 1]) = Len(f[k]) + 1
      BY <3>1, <2>1, <2>2
    <3>3. Elements(f[k + 1]) = Elements(f[k]) \cup {s[k + 1]}
      BY <3>1, <2>1, <2>2, AppendElements
    <3>4. ASSUME Distinct(s) PROVE Distinct(f[k + 1])
      <4>1. s[k + 1] \notin {s[j] : j \in 1 .. k}
        BY <3>4, <2>1 DEF Distinct
      <4>2. s[k + 1] \notin Elements(f[k])
        BY <4>1, <2>2
      <4> QED
        BY <3>1, <3>4, <4>2, <2>1, <2>2, AppendElements
    <3> QED
      BY <3>2, <3>3, <3>4, <2>1, <2>2, <2>3, <2>5
  <2> QED
    BY <2>4, <2>5
<1> HIDE DEF T
<1>6. T = Nat
  BY <1>4, <1>5, SetInduction DEF T
<1>7. Good(n)
  <2>1. n \in T /\ n =< n
    BY <1>6
  <2> QED
    BY <2>1 DEF T
<1> QED
  BY <1>1, <1>7 DEF Elements

-----------------------------------------------------------------------------
(* WithKey and Concatenated.                                               *)

LEMMA WithKeyProperties ==
  ASSUME NEW S, NEW keys \in Seq(S), NEW k \in S
  PROVE  /\ WithKey(keys, k) \in Seq(S)
         /\ Elements(WithKey(keys, k)) = Elements(keys) \cup {k}
         /\ Distinct(keys) => Distinct(WithKey(keys, k))
         /\ Len(WithKey(keys, k)) = IF k \in Elements(keys) THEN Len(keys) ELSE Len(keys) + 1
<1>1. CASE k \in Elements(keys)
  BY <1>1 DEF WithKey
<1>2. CASE k \notin Elements(keys)
  <2>1. WithKey(keys, k) = Append(keys, k) /\ Len(Append(keys, k)) = Len(keys) + 1
    BY <1>2 DEF WithKey
  <2> QED
    BY <2>1, <1>2, AppendElements
<1> QED
  BY <1>1, <1>2

LEMMA ConcatElements ==
  ASSUME NEW S, NEW s \in Seq(S), NEW t \in Seq(S)
  PROVE  /\ s \o t \in Seq(S)
         /\ Elements(s \o t) = Elements(s) \cup Elements(t)
         /\ (Distinct(s) /\ Distinct(t) /\ Elements(s) \cap Elements(t) = {})
              => Distinct(s \o t)
<1> DEFINE u == s \o t
<1>1. /\ u \in Seq(S)
      /\ Len(u) = Len(s) + Len(t)
      /\ \A i \in 1 .. Len(s) : u[i] = s[i]
      /\ \A i \in 1 .. Len(t) : u[Len(s) + i] = t[i]
  OBVIOUS
<1> HIDE DEF u
<1>2. \A i \in 1 .. Len(u) :
        \/ i \in 1 .. Len(s) /\ u[i] = s[i]
        \/ i > Len(s) /\ i - Len(s) \in 1 .. Len(t) /\ u[i] = t[i - Len(s)]
  <2> TAKE i \in 1 .. Len(u)
  <2>1. CASE i =< Len(s)
    BY <2>1, <1>1
  <2>2. CASE i > Len(s)
    <3>1. i - Len(s) \in 1 .. Len(t) /\ Len(s) + (i - Len(s)) = i
      BY <2>2, <1>1
    <3>2. u[Len(s) + (i - Len(s))] = t[i - Len(s)]
      BY <3>1, <1>1
    <3> QED
      BY <2>2, <3>1, <3>2
  <2> QED
    BY <2>1, <2>2, <1>1
<1>3. Elements(u) = Elements(s) \cup Elements(t)
  <2>1. ASSUME NEW x \in Elements(u) PROVE x \in Elements(s) \cup Elements(t)
    <3>1. PICK i \in 1 .. Len(u) : x = u[i]
      BY DEF Elements
    <3> QED
      BY <3>1, <1>2 DEF Elements
  <2>2. ASSUME NEW x \in Elements(s) PROVE x \in Elements(u)
    <3>1. PICK i \in 1 .. Len(s) : x = s[i]
      BY DEF Elements
    <3>2. i \in 1 .. Len(u) /\ u[i] = x
      BY <3>1, <1>1
    <3> QED
      BY <3>2 DEF Elements
  <2>3. ASSUME NEW x \in Elements(t) PROVE x \in Elements(u)
    <3>1. PICK i \in 1 .. Len(t) : x = t[i]
      BY DEF Elements
    <3>2. Len(s) + i \in 1 .. Len(u) /\ u[Len(s) + i] = x
      BY <3>1, <1>1
    <3> QED
      BY <3>2 DEF Elements
  <2> QED
    BY <2>1, <2>2, <2>3
<1>4. ASSUME Distinct(s), Distinct(t), Elements(s) \cap Elements(t) = {}
      PROVE  Distinct(u)
  <2> SUFFICES ASSUME NEW i \in 1 .. Len(u), NEW j \in 1 .. Len(u), u[i] = u[j]
               PROVE  i = j
    BY DEF Distinct
  <2>1. \A k \in 1 .. Len(s), l \in 1 .. Len(t) : s[k] # t[l]
    BY <1>4 DEF Elements
  <2>2. CASE i \in 1 .. Len(s) /\ j \in 1 .. Len(s)
    BY <2>2, <1>1, <1>4 DEF Distinct
  <2>3. CASE i > Len(s) /\ j > Len(s)
    <3>1. i - Len(s) \in 1 .. Len(t) /\ j - Len(s) \in 1 .. Len(t)
      BY <2>3, <1>2
    <3>2. t[i - Len(s)] = t[j - Len(s)]
      BY <2>3, <1>2
    <3>3. i - Len(s) = j - Len(s)
      BY <3>1, <3>2, <1>4 DEF Distinct
    <3> QED
      BY <3>3, <1>1
  <2>4. CASE i \in 1 .. Len(s) /\ j > Len(s)
    BY <2>1, <2>4, <1>2
  <2>5. CASE i > Len(s) /\ j \in 1 .. Len(s)
    BY <2>1, <2>5, <1>2
  <2> QED
    BY <2>2, <2>3, <2>4, <2>5, <1>2
<1> QED
  BY <1>1, <1>3, <1>4 DEF u

(* The function that Concatenated computes, up to list n.                  *)
ConcatUpto(ss, f, n) ==
  f = [k \in 0 .. n |-> IF k = 0 THEN << >> ELSE f[k - 1] \o ss[k]]

LEMMA ConcatExists ==
  ASSUME NEW ss, NEW n \in Nat
  PROVE  \E f : ConcatUpto(ss, f, n)
<1> DEFINE T == {k \in Nat : \E f : ConcatUpto(ss, f, k)}
<1>1. 0 \in T
  <2>1. ConcatUpto(ss, [i \in 0 .. 0 |-> << >>], 0)
    BY DEF ConcatUpto
  <2> QED
    BY <2>1
<1>2. ASSUME NEW k \in T PROVE k + 1 \in T
  <2>1. PICK f : ConcatUpto(ss, f, k)
    OBVIOUS
  <2> DEFINE step(h, i) == IF i = 0 THEN << >> ELSE h[i - 1] \o ss[i]
             g == [i \in 0 .. k + 1 |-> IF i = k + 1 THEN step(f, i) ELSE f[i]]
  <2>2. \A i \in 0 .. k : f[i] = step(f, i)
    BY <2>1 DEF ConcatUpto
  <2>3. \A i \in 0 .. k : g[i] = f[i]
    OBVIOUS
  <2>4. ASSUME NEW i \in 0 .. k + 1 PROVE g[i] = step(g, i)
    <3>1. CASE i = k + 1
      <4>1. k \in 0 .. k /\ i # 0 /\ i - 1 = k
        BY <3>1
      <4>2. g[k] = f[k] /\ g[i] = step(f, i)
        BY <4>1, <3>1, <2>3
      <4> HIDE DEF g
      <4> QED
        BY <4>1, <4>2
    <3>2. CASE i = 0
      <4>1. 0 \in 0 .. k
        OBVIOUS
      <4>2. g[0] = f[0] /\ f[0] = step(f, 0)
        BY <4>1, <2>2, <2>3
      <4> HIDE DEF g
      <4> QED
        BY <3>2, <4>2
    <3>3. CASE i \in 1 .. k
      <4>1. i - 1 \in 0 .. k /\ i \in 0 .. k
        BY <3>3
      <4>2. g[i] = f[i] /\ g[i - 1] = f[i - 1] /\ f[i] = step(f, i)
        BY <4>1, <2>2, <2>3
      <4> HIDE DEF g
      <4> QED
        BY <3>3, <4>2
    <3> QED
      BY <3>1, <3>2, <3>3
  <2>5. g = [i \in 0 .. k + 1 |-> g[i]]
    OBVIOUS
  <2> HIDE DEF g
  <2>6. ConcatUpto(ss, g, k + 1)
    BY <2>4, <2>5 DEF ConcatUpto
  <2> QED
    BY <2>6
<1> HIDE DEF T
<1>3. T = Nat
  BY <1>1, <1>2, SetInduction DEF T
<1> QED
  BY <1>3 DEF T

(* The entries of a concatenation are those of the lists, and they are     *)
(* distinct if they are distinct in each list and no two lists share one.  *)
LEMMA ConcatenatedProperties ==
  ASSUME NEW S, NEW ss \in Seq(Seq(S))
  PROVE  /\ Concatenated(ss) \in Seq(S)
         /\ Elements(Concatenated(ss)) = UNION {Elements(ss[k]) : k \in 1 .. Len(ss)}
         /\ (/\ \A k \in 1 .. Len(ss) : Distinct(ss[k])
             /\ \A k, l \in 1 .. Len(ss) : k # l => Elements(ss[k]) \cap Elements(ss[l]) = {})
              => Distinct(Concatenated(ss))
<1> DEFINE n == Len(ss)
           Apart == /\ \A k \in 1 .. n : Distinct(ss[k])
                    /\ \A k, l \in 1 .. n : k # l => Elements(ss[k]) \cap Elements(ss[l]) = {}
<1>0. n \in Nat
  OBVIOUS
<1>1. PICK f : ConcatUpto(ss, f, n) /\ Concatenated(ss) = f[n]
  <2> DEFINE upto == CHOOSE f : ConcatUpto(ss, f, n)
  <2>1. ConcatUpto(ss, upto, n)
    BY <1>0, ConcatExists
  <2>2. Concatenated(ss) = upto[n]
    BY DEF Concatenated, ConcatUpto
  <2> QED
    BY <2>1, <2>2
<1>2. f[0] = << >>
  BY <1>0, <1>1 DEF ConcatUpto
<1>3. \A k \in 0 .. n - 1 : f[k + 1] = f[k] \o ss[k + 1]
  <2> TAKE k \in 0 .. n - 1
  <2>1. k + 1 \in 0 .. n /\ k + 1 # 0 /\ (k + 1) - 1 = k
    BY <1>0
  <2> QED
    BY <1>1, <2>1 DEF ConcatUpto
<1> DEFINE Good(k) == /\ f[k] \in Seq(S)
                      /\ Elements(f[k]) = UNION {Elements(ss[j]) : j \in 1 .. k}
                      /\ Apart => Distinct(f[k])
           T == {k \in Nat : k =< n => Good(k)}
<1>4. 0 \in T
  <2>1. Good(0)
    BY <1>2 DEF Elements, Distinct
  <2> HIDE DEF Good
  <2> QED
    BY <2>1
<1> HIDE DEF Good
<1>5. ASSUME NEW k \in T PROVE k + 1 \in T
  <2> SUFFICES ASSUME k + 1 =< n PROVE Good(k + 1)
    OBVIOUS
  <2>1. k \in 0 .. n - 1 /\ k + 1 \in 1 .. n /\ ss[k + 1] \in Seq(S)
    BY <1>0
  <2>2. Good(k)
    BY <1>0, <2>1
  <2>a. /\ f[k] \in Seq(S)
        /\ Elements(f[k]) = UNION {Elements(ss[j]) : j \in 1 .. k}
        /\ Apart => Distinct(f[k])
    BY <2>2 DEF Good
  <2> DEFINE u == f[k]
             v == ss[k + 1]
  <2>b. u \in Seq(S) /\ v \in Seq(S)
    BY <2>1, <2>a
  <2>3. f[k + 1] = f[k] \o ss[k + 1]
    BY <2>1, <1>3
  <2>4. 1 .. k + 1 = (1 .. k) \cup {k + 1}
    BY <2>1
  <2>5. Elements(f[k + 1]) = UNION {Elements(ss[j]) : j \in 1 .. k + 1}
    <3> HIDE DEF u, v
    <3>1. Elements(u \o v) = Elements(u) \cup Elements(v)
      BY <2>b, ConcatElements
    <3> QED
      BY <3>1, <2>3, <2>a, <2>4 DEF u, v
  <2>6. ASSUME Apart PROVE Distinct(f[k + 1])
    <3>1. \A j \in 1 .. k : Elements(ss[j]) \cap Elements(ss[k + 1]) = {}
      <4> TAKE j \in 1 .. k
      <4>1. j \in 1 .. n /\ k + 1 \in 1 .. n /\ j # k + 1
        BY <1>0, <2>1
      <4> QED
        BY <4>1, <2>6
    <3>2. Elements(f[k]) \cap Elements(ss[k + 1]) = {}
      BY <3>1, <2>a
    <3>3. Distinct(f[k]) /\ Distinct(ss[k + 1])
      BY <2>1, <2>a, <2>6
    <3>4. Distinct(u) /\ Distinct(v) /\ Elements(u) \cap Elements(v) = {}
      BY <3>2, <3>3
    <3> HIDE DEF u, v
    <3>5. Distinct(u \o v)
      BY <2>b, <3>4, ConcatElements
    <3> QED
      BY <2>3, <3>5 DEF u, v
  <2>7. f[k + 1] \in Seq(S)
    BY <2>b, <2>3
  <2> QED
    BY <2>5, <2>6, <2>7 DEF Good
<1> HIDE DEF T
<1>6. T = Nat
  BY <1>4, <1>5, SetInduction DEF T
<1>7. Good(n)
  <2>1. n \in T /\ n =< n
    BY <1>0, <1>6
  <2> QED
    BY <2>1 DEF T
<1> QED
  BY <1>1, <1>7 DEF Good

=============================================================================
