------------------------------ MODULE PeerSet -------------------------------
(***************************************************************************)
(* What a routing table promises, without its lists: a set of known peers, *)
(* at most K_BUCKET_SIZE of them at each bucket index, that grows by one   *)
(* peer at a time while there is room and shrinks only by forgetting a     *)
(* peer whose connection closed.  A newcomer never displaces anyone.       *)
(***************************************************************************)
EXTENDS KeySpace, FiniteSets

CONSTANT self     \* the table's owner

VARIABLE known    \* the peers in the table

SameBucket(p) == {q \in known : getBucketIndex(self, q) = getBucketIndex(self, p)}

Init == known = {}

Learn(p) ==
  /\ p \notin known
  /\ Cardinality(SameBucket(p)) < K_BUCKET_SIZE
  /\ known' = known \cup {p}

Forget(p) ==
  /\ p \in known
  /\ p # self
  /\ known' = known \ {p}

Next == \E p \in Ids : Learn(p) \/ Forget(p)

Spec == Init /\ [][Next]_known

=============================================================================
