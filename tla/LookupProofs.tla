---------------------------- MODULE LookupProofs ----------------------------
(***************************************************************************)
(* Proofs about Lookup: whatever the other nodes answer, and whether they  *)
(* answer at all, a lookup is at most BIT_SIZE levels deep and contacts at *)
(* most BIT_SIZE - 1 + ALPHA nodes.  LevelInv is the inductive invariant.  *)
(***************************************************************************)
EXTENDS Lookup, ListsProofs

LEMMA PositionType ==
  ASSUME TypeOK, NEW s \in Slots
  PROVE  Position(s) \in Nat /\ Position(s) >= 1
<1>1. iteration \in Nat /\ ALPHA \in Nat /\ s \in Nat /\ s >= 1
  BY AlphaAssumption DEF TypeOK, Slots
<1>2. iteration * ALPHA \in Nat
  BY <1>1
<1> QED
  BY <1>1, <1>2 DEF Position

LEMMA EntryType ==
  ASSUME TypeOK, NEW s \in Slots, Position(s) =< Len(shortlist)
  PROVE  Entry(s) \in Ids
  BY PositionType DEF TypeOK, Entry

(* An answer leaves the entries queried by the level where they are.       *)
LEMMA EntryStable ==
  ASSUME TypeOK, NEW s \in Slots, Position(s) =< Len(shortlist),
         NEW list \in Seq(Ids), shortlist' = shortlist \o list, iteration' = iteration
  PROVE  Entry(s)' = Entry(s) /\ Position(s)' =< Len(shortlist')
<1>1. Position(s)' = Position(s)
  BY DEF Position
<1>2. shortlist \in Seq(Ids) /\ Position(s) \in 1 .. Len(shortlist)
  BY PositionType DEF TypeOK
<1>3. /\ (shortlist \o list)[Position(s)] = shortlist[Position(s)]
      /\ Position(s) =< Len(shortlist \o list)
  BY <1>2
<1> QED
  BY <1>1, <1>3 DEF Entry

(* A level has at most ALPHA queries.                                      *)
LEMMA SlotsFinite ==
  ASSUME NEW Q \in SUBSET Slots
  PROVE  IsFiniteSet(Q) /\ Cardinality(Q) \in Nat /\ Cardinality(Q) =< ALPHA
<1>1. ALPHA \in Nat /\ ALPHA >= 1 /\ ALPHA \in Int /\ 1 \in Int
  BY AlphaAssumption
<1>2. IsFiniteSet(Slots) /\ Cardinality(Slots) = ALPHA
  <2>1. IsFiniteSet(1 .. ALPHA) /\ Cardinality(1 .. ALPHA) = IF 1 > ALPHA THEN 0 ELSE ALPHA - 1 + 1
    BY <1>1, FS_Interval
  <2> QED
    BY <1>1, <2>1 DEF Slots
<1> QED
  BY <1>2, FS_Subset, FS_CardinalityType

LEMMA PendingFinite ==
  /\ IsFiniteSet(Pending)
  /\ Cardinality(Pending) \in Nat
  /\ Cardinality(Pending) =< ALPHA
<1>1. Pending \in SUBSET Slots
  BY DEF Pending
<1> QED
  BY <1>1, SlotsFinite

(* A settled query is pending no more.                                     *)
LEMMA Settled ==
  ASSUME TypeOK, NEW s \in Pending, NEW r \in {"closer", "same", "failed"},
         result' = [result EXCEPT ![s] = r]
  PROVE  /\ Pending' = Pending \ {s}
         /\ Cardinality(Pending') = Cardinality(Pending) - 1
<1>1. Pending' = Pending \ {s}
  BY DEF TypeOK, Pending
<1> QED
  BY <1>1, PendingFinite, FS_RemoveElement

-----------------------------------------------------------------------------

(* The inductive invariant: types, and what a level keeps count of.        *)
THEOREM LevelInvariant == Spec => [](TypeOK /\ LevelInv)
<1> DEFINE Inv == TypeOK /\ LevelInv
<1>0. /\ BIT_SIZE \in Nat /\ BIT_SIZE >= 1
      /\ ALPHA \in Nat /\ ALPHA >= 1
  BY BitSizeAssumption, AlphaAssumption
<1>1. Init => Inv
  <2> SUFFICES ASSUME Init PROVE Inv
    OBVIOUS
  <2>1. TypeOK
    BY DEF Init, TypeOK
  <2>2. LevelInv
    BY <1>0 DEF Init, LevelInv, Distinct
  <2> QED
    BY <2>1, <2>2
<1>2. Inv /\ [Next]_vars => Inv'
  <2> SUFFICES ASSUME TypeOK, LevelInv, [Next]_vars PROVE TypeOK' /\ LevelInv'
    OBVIOUS
  <2>0. contacts \in Seq(Ids) /\ Len(contacts) \in Nat /\ iteration \in Nat
    BY DEF TypeOK
  <2>1. ASSUME NEW list \in Shortlists, Begin(list) PROVE TypeOK' /\ LevelInv'
    <3>1. TypeOK'
      BY <2>1, ShortlistsAssumption DEF Begin, TypeOK
    <3>2. LevelInv'
      BY <2>1, <1>0 DEF Begin, LevelInv, Distinct
    <3> QED
      BY <3>1, <3>2
  <2>2. CASE Search
    <3>1. TypeOK'
      BY <2>2 DEF Search, TypeOK
    <3>2. Pending' = Queried
      BY <2>2 DEF Search, Pending, Queried
    <3>3. Cardinality(Pending') \in Nat /\ Cardinality(Pending') =< ALPHA
      <4>1. Queried \in SUBSET Slots
        BY DEF Queried
      <4> QED
        BY <4>1, <3>2, SlotsFinite
    <3>4. \A s \in Slots : Entry(s)' = Entry(s) /\ Position(s)' = Position(s)
      BY <2>2 DEF Search, Entry, Position
    <3>5. /\ phase = "search" /\ phase' \in {"done", "await"}
          /\ iteration' = iteration /\ contacts' = contacts /\ shortlist' = shortlist
          /\ \A s \in Slots : result'[s] \notin {"closer", "same"}
      BY <2>2 DEF Search
    <3>6. \A s \in Pending' :
            /\ s \in Slots
            /\ Position(s)' =< Len(shortlist')
            /\ Entry(s)' \notin Elements(contacts')
      BY <3>2, <3>4, <3>5 DEF Queried
    <3>7. Len(contacts) + Cardinality(Pending') =< BIT_SIZE - 1 + ALPHA
      BY <1>0, <2>0, <3>3, <3>5 DEF LevelInv
    <3>8. Len(contacts) =< BIT_SIZE - 1 + ALPHA
      BY <1>0, <2>0, <3>5 DEF LevelInv
    <3>9. LevelInv'
      BY <3>5, <3>6, <3>7, <3>8 DEF LevelInv
    <3> QED
      BY <3>1, <3>9
  <2>3. ASSUME NEW s \in Slots, Answered(s) PROVE TypeOK' /\ LevelInv'
    <3>1. s \in Pending /\ phase = "await" /\ phase' = phase /\ iteration' = iteration
      BY <2>3 DEF Answered, Pending
    <3>2. Position(s) =< Len(shortlist)
      BY <3>1 DEF LevelInv
    <3>3. Entry(s) \in Ids
      BY <3>2, EntryType
    <3>4. PICK list \in Answers[Entry(s)], r \in {"closer", "same"} :
            shortlist' = shortlist \o list /\ result' = [result EXCEPT ![s] = r]
      BY <2>3 DEF Answered
    <3>5. list \in Seq(Ids)
      BY <3>3, <3>4, AnswersAssumption
    <3>6. contacts' = WithKey(contacts, Entry(s))
      BY <2>3 DEF Answered, AddContact
    <3>7. /\ contacts' \in Seq(Ids)
          /\ Elements(contacts') = Elements(contacts) \cup {Entry(s)}
          /\ Distinct(contacts')
          /\ Len(contacts') = IF Entry(s) \in Elements(contacts) THEN Len(contacts)
                                                                 ELSE Len(contacts) + 1
      <4>1. Distinct(contacts)
        BY DEF LevelInv
      <4> DEFINE n == Entry(s)
                 w == WithKey(contacts, n)
      <4>2. n \in Ids
        BY <3>3
      <4> HIDE DEF n
      <4>3. /\ w \in Seq(Ids)
            /\ Elements(w) = Elements(contacts) \cup {n}
            /\ Distinct(w)
            /\ Len(w) = IF n \in Elements(contacts) THEN Len(contacts) ELSE Len(contacts) + 1
        BY <2>0, <4>1, <4>2, WithKeyProperties
      <4>4. contacts' = w
        BY <3>6 DEF n
      <4> HIDE DEF w
      <4> QED
        BY <4>3, <4>4 DEF n
    <3>8. TypeOK'
      <4>1. shortlist' \in Seq(Ids)
        BY <3>4, <3>5 DEF TypeOK
      <4> QED
        BY <4>1, <3>1, <3>4, <3>7 DEF TypeOK
    <3>9. /\ Pending' = Pending \ {s}
          /\ Cardinality(Pending') = Cardinality(Pending) - 1
      BY <3>1, <3>4, Settled
    <3>10. Len(contacts') + Cardinality(Pending') =< BIT_SIZE - 1 + ALPHA
      <4>1. Len(contacts) + Cardinality(Pending) =< BIT_SIZE - 1 + ALPHA
        BY <3>1 DEF LevelInv
      <4> QED
        BY <4>1, <1>0, <2>0, <3>7, <3>9, PendingFinite
    <3>11. iteration < Len(contacts')
      <4>1. CASE iteration < Len(contacts)
        BY <4>1, <2>0, <3>7
      <4>2. CASE Entry(s) \notin Elements(contacts)
        BY <4>2, <2>0, <3>1, <3>7 DEF LevelInv
      <4> QED
        BY <4>1, <4>2, <3>1 DEF LevelInv
    <3>12. \A x \in Pending' : Position(x)' =< Len(shortlist')
      <4> SUFFICES ASSUME NEW x \in Pending PROVE Position(x)' =< Len(shortlist')
        BY <3>9
      <4>1. x \in Slots /\ Position(x) =< Len(shortlist)
        BY <3>1 DEF LevelInv, Pending
      <4> QED
        BY <4>1, <3>1, <3>4, <3>5, EntryStable
    <3>13. LevelInv'
      BY <2>0, <3>1, <3>7, <3>10, <3>11, <3>12 DEF LevelInv
    <3> QED
      BY <3>8, <3>13
  <2>4. ASSUME NEW s \in Slots, Rejected(s) PROVE TypeOK' /\ LevelInv'
    <3>1. /\ s \in Pending /\ phase = "await"
          /\ UNCHANGED <<phase, iteration, shortlist, contacts>>
          /\ result' = [result EXCEPT ![s] = "failed"]
      BY <2>4 DEF Rejected, Pending
    <3>2. TypeOK'
      BY <3>1 DEF TypeOK
    <3>3. /\ Pending' = Pending \ {s}
          /\ Cardinality(Pending') = Cardinality(Pending) - 1
      BY <3>1, Settled
    <3>4. Len(contacts') + Cardinality(Pending') =< BIT_SIZE - 1 + ALPHA
      <4>1. Len(contacts) + Cardinality(Pending) =< BIT_SIZE - 1 + ALPHA
        BY <3>1 DEF LevelInv
      <4> QED
        BY <4>1, <1>0, <2>0, <3>1, <3>3, PendingFinite
    <3>5. \A x \in Slots : Entry(x)' = Entry(x) /\ Position(x)' = Position(x)
      BY <3>1 DEF Entry, Position
    <3>6. \A x \in Slots : result'[x] = IF x = s THEN "failed" ELSE result[x]
      BY <3>1 DEF TypeOK
    <3>7. \A x \in Pending' : x \in Slots /\ x \in Pending
      BY <3>3 DEF Pending
    <3>8. LevelInv'
      BY <3>1, <3>4, <3>5, <3>6, <3>7 DEF LevelInv
    <3> QED
      BY <3>2, <3>8
  <2>5. CASE Collect
    <3>1. TypeOK'
      BY <2>5 DEF Collect, TypeOK
    <3>2. /\ phase = "await" /\ Pending = {}
          /\ contacts' = contacts
          /\ iteration =< Len(contacts)
          /\ Len(contacts) + Cardinality(Pending) =< BIT_SIZE - 1 + ALPHA
      BY <2>5 DEF Collect, LevelInv
    <3>3. CASE GoesOn
      <4>1. phase' = "search" /\ iteration' = iteration + 1 /\ Len(contacts) < BIT_SIZE
        BY <2>5, <3>3 DEF Collect, GoesOn
      <4>2. iteration < Len(contacts)
        BY <3>2, <3>3 DEF LevelInv, GoesOn
      <4>3. Distinct(contacts')
        BY <3>2 DEF LevelInv
      <4> QED
        BY <1>0, <2>0, <3>1, <3>2, <4>1, <4>2, <4>3 DEF LevelInv
    <3>4. CASE ~GoesOn
      <4>1. phase' = "done" /\ iteration' = iteration
        BY <2>5, <3>4 DEF Collect
      <4>2. Len(contacts) =< BIT_SIZE - 1 + ALPHA
        BY <1>0, <2>0, <3>2, FS_EmptySet
      <4>3. Distinct(contacts') /\ iteration < BIT_SIZE
        BY <3>2 DEF LevelInv
      <4> QED
        BY <3>1, <3>2, <4>1, <4>2, <4>3 DEF LevelInv
    <3> QED
      BY <3>3, <3>4
  <2>6. CASE UNCHANGED vars
    <3>1. TypeOK'
      BY <2>6 DEF TypeOK, vars
    <3>2. LevelInv'
      BY <2>6 DEF LevelInv, Pending, Entry, Position, vars
    <3> QED
      BY <3>1, <3>2
  <2> QED
    BY <2>1, <2>2, <2>3, <2>4, <2>5, <2>6 DEF Next
<1> QED
  BY <1>1, <1>2, PTL DEF Spec

(* Every variable keeps its type, whatever lists of ids are answered.      *)
THEOREM LookupTypeCorrect == Spec => []TypeOK
  BY LevelInvariant, PTL

(* The recursion is at most BIT_SIZE levels deep.                          *)
THEOREM DepthIsBounded == Spec => []DepthBounded
<1>1. LevelInv => DepthBounded
  BY DEF LevelInv, DepthBounded
<1> QED
  BY <1>1, LevelInvariant, PTL

(* A lookup hands updateTables at most BIT_SIZE - 1 + ALPHA contacts, no   *)
(* two of them equal.                                                      *)
THEOREM ContactsAreBounded == Spec => []ContactsBounded
<1>1. TypeOK /\ LevelInv => ContactsBounded
  <2> SUFFICES ASSUME TypeOK, LevelInv PROVE ContactsBounded
    OBVIOUS
  <2>1. BIT_SIZE \in Nat /\ ALPHA \in Nat /\ ALPHA >= 1 /\ Len(contacts) \in Nat
    BY BitSizeAssumption, AlphaAssumption DEF TypeOK
  <2>2. phase \in {"done", "search", "await"}
    BY DEF TypeOK
  <2> QED
    BY <2>1, <2>2, PendingFinite DEF LevelInv, ContactsBounded
<1> QED
  BY <1>1, LevelInvariant, PTL

=============================================================================
