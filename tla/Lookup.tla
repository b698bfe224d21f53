------------------------------- MODULE Lookup -------------------------------
(***************************************************************************)
(* A node's own lookup: findNodes, findNodeRecursiveSearch and             *)
(* handleFindNodeQuery of node.ts.                                         *)
(*                                                                         *)
(* A level takes the next ALPHA entries of the shortlist and queries, all  *)
(* at once, those not contacted yet.  Answers arrive in any order and each *)
(* appends to the shortlist the others share; a query that gets none is    *)
(* rejected by the timer of UDPTransport.sendMessage.  When all queries of *)
(* the level have settled the search recurses if one of them brought a     *)
(* node in a nearer bucket than the first candidate.                       *)
(*                                                                         *)
(* What the asked nodes know is a parameter: Answers[n] is the set of      *)
(* lists that n may send back.  Query s of a level is the one for entry    *)
(* iteration * ALPHA + s of the shortlist.                                 *)
(***************************************************************************)
EXTENDS KeySpace, Lists

CONSTANTS
  self,        \* the node that looks itself up
  Shortlists,  \* the lists table.findNode(self) may start the lookup with
  Answers      \* node -> the FIND_NODE answers it may give to self

ASSUME SelfAssumption == self \in Ids
ASSUME ShortlistsAssumption == Shortlists \subseteq Seq(Ids)
ASSUME AnswersAssumption == \A n \in Ids : Answers[n] \subseteq Seq(Ids)

VARIABLES
  phase,      \* "done": no lookup runs; "search": a level begins; "await"
  iteration,  \* the level, counted from 0
  shortlist,  \* nodeShortlist, which only grows
  contacts,   \* keys of the Map contacts, in insertion order
  result      \* of each query of the level: "none" if entry s was not queried

vars == <<phase, iteration, shortlist, contacts, result>>

-----------------------------------------------------------------------------

Slots == 1 .. ALPHA

Position(s) == iteration * ALPHA + s

Entry(s) == shortlist[Position(s)]

(* shortlist[0] of the code: later answers are compared with it only.      *)
Candidate == shortlist[1]

(* Mutant of Pending: a query that was rejected is waited for.             *)
PendingOrFailed == {s \in Slots : result[s] \in {"pending", "failed"}}

Pending == {s \in Slots : result[s] = "pending"}

(* Mutant of Queried: forgets which nodes have been contacted.             *)
QueriedAgain == {s \in Slots : Position(s) =< Len(shortlist)}

(* alphaContacts without the nodes that have answered already.             *)
Queried ==
  {s \in Slots :
     /\ Position(s) =< Len(shortlist)
     /\ Entry(s) \notin Elements(contacts)}

(* The loop over closeNodes sets hasCloserThanExist at the first node in a *)
(* nearer bucket than the candidate, and never resets it.                  *)
HasCloser(closeNodes) ==
  \E i \in 1 .. Len(closeNodes) :
    getBucketIndex(self, closeNodes[i]) < getBucketIndex(self, Candidate)

-----------------------------------------------------------------------------

(* findNodes                                                               *)
Begin(list) ==
  /\ phase = "done"
  /\ phase' = "search"
  /\ iteration' = 0
  /\ shortlist' = list
  /\ contacts' = << >>
  /\ result' = [s \in Slots |-> "none"]

(* A level sends its queries; with nothing to send the search returns.     *)
Search ==
  /\ phase = "search"
  /\ phase' = IF Queried = {} THEN "done" ELSE "await"
  /\ result' = [s \in Slots |-> IF s \in Queried THEN "pending" ELSE "none"]
  /\ UNCHANGED <<iteration, shortlist, contacts>>

(* Mutant of AddContact: enters the port instead of the id.                *)
AddContactPort(n) == contacts' = WithKey(contacts, n + 3000)

(* contacts.set(...): a Map keeps one entry per node.                      *)
AddContact(n) == contacts' = WithKey(contacts, n)

(* The answer to query s arrives.                                          *)
Answered(s) ==
  /\ phase = "await"
  /\ result[s] = "pending"
  /\ \E closeNodes \in Answers[Entry(s)] :
       /\ shortlist' = shortlist \o closeNodes
       /\ result' = [result EXCEPT ![s] = IF HasCloser(closeNodes) THEN "closer" ELSE "same"]
  /\ AddContact(Entry(s))
  /\ UNCHANGED <<phase, iteration>>

(* Query s is rejected: the catch block logs it and returns false.         *)
Rejected(s) ==
  /\ phase = "await"
  /\ result[s] = "pending"
  /\ result' = [result EXCEPT ![s] = "failed"]
  /\ UNCHANGED <<phase, iteration, shortlist, contacts>>

(* Mutant of GoesOn: recurses as long as contacts are missing.             *)
GoesOnWithoutProgress == Len(contacts) < BIT_SIZE

(* Mutant of GoesOn: recurses however many contacts there are.             *)
GoesOnWhileCloser == \E s \in Slots : result[s] = "closer"

(* isUpdatedClosest && contacts.size < BIT_SIZE                            *)
GoesOn == (\E s \in Slots : result[s] = "closer") /\ Len(contacts) < BIT_SIZE

(* Promise.all has every result.                                           *)
Collect ==
  /\ phase = "await"
  /\ Pending = {}
  /\ phase' = IF GoesOn THEN "search" ELSE "done"
  /\ iteration' = IF GoesOn THEN iteration + 1 ELSE iteration
  /\ UNCHANGED <<shortlist, contacts, result>>

-----------------------------------------------------------------------------

Init ==
  /\ phase = "done"
  /\ iteration = 0
  /\ shortlist = << >>
  /\ contacts = << >>
  /\ result = [s \in Slots |-> "none"]

Next ==
  \/ \E list \in Shortlists : Begin(list)
  \/ Search
  \/ \E s \in Slots : Answered(s)
  \/ \E s \in Slots : Rejected(s)
  \/ Collect

(* The steps of the search itself are run by the event loop; the timer of  *)
(* 45 s settles a query that nobody answers.                               *)
Fairness ==
  /\ WF_vars(Search)
  /\ WF_vars(Collect)
  /\ \A s \in Slots : WF_vars(Answered(s) \/ Rejected(s))

Spec == Init /\ [][Next]_vars

FairSpec == Spec /\ Fairness

-----------------------------------------------------------------------------
(* Properties.                                                             *)

(* Every variable keeps its shape.                                         *)
TypeOK ==
  /\ phase \in {"done", "search", "await"}
  /\ iteration \in Nat
  /\ shortlist \in Seq(Ids)
  /\ contacts \in Seq(Ids)
  /\ result \in [Slots -> {"none", "pending", "closer", "same", "failed"}]

(* The recursion is at most BIT_SIZE deep, whatever the other nodes send:  *)
(* each level that recurses has contacted somebody new, and contacts stays *)
(* below BIT_SIZE while it does.  Nothing in the code counts levels.       *)
DepthBounded == iteration < BIT_SIZE

(* A lookup hands updateTables at most BIT_SIZE - 1 + ALPHA contacts, all  *)
(* different: the size test is made between levels only, so the last level *)
(* may overshoot it.                                                       *)
ContactsBounded ==
  /\ Len(contacts) =< BIT_SIZE - 1 + ALPHA
  /\ Distinct(contacts)

(* Why both bounds hold.  A level begins with fewer than BIT_SIZE          *)
(* contacts, at least one for every level before it.  During a level each  *)
(* pending query can add one contact; the first answer does add one, since *)
(* the entries queried were not contacts when the level began.             *)
LevelInv ==
  /\ iteration < BIT_SIZE
  /\ Distinct(contacts)
  /\ phase = "search" => iteration =< Len(contacts) /\ Len(contacts) < BIT_SIZE
  /\ phase = "await" =>
       /\ iteration =< Len(contacts)
       /\ Len(contacts) + Cardinality(Pending) =< BIT_SIZE - 1 + ALPHA
       /\ \A s \in Pending : Position(s) =< Len(shortlist)
       /\ \/ iteration < Len(contacts)
          \/ /\ \A s \in Slots : result[s] \notin {"closer", "same"}
             /\ \A s \in Pending : Entry(s) \notin Elements(contacts)
  /\ phase = "done" => Len(contacts) =< BIT_SIZE - 1 + ALPHA

(* Every lookup ends, however many queries time out.                       *)
LookupEnds == (phase # "done") ~> (phase = "done")

=============================================================================
