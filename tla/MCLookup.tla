------------------------------ MODULE MCLookup ------------------------------
(***************************************************************************)
(* Model checking of Lookup.  The answers are those findNode computes from *)
(* the tables the asked node can have when it answers.                     *)
(***************************************************************************)
EXTENDS Lookup, FindNode, FiniteSetsExt, TLC

CONSTANT Bootstrap  \* the node that node.start enters

PeersInBucket(n, T, p) == Cardinality(InBucket(n, T, getBucketIndex(n, p)))

(* The sets of peers node n can hold: at most K_BUCKET_SIZE in a bucket,   *)
(* the asker, whose datagram has just entered it, unless its bucket has no *)
(* room, and (bound) the bootstrap node, which nobody has lost.            *)
PossibleTables(n) ==
  {T \in SUBSET Ids :
     /\ \A p \in T : PeersInBucket(n, T, p) =< K_BUCKET_SIZE
     /\ n # self /\ self \notin T => PeersInBucket(n, T, self) = K_BUCKET_SIZE
     /\ Bootstrap \in T}

(* What node n may answer when it knows T.                                 *)
AnswerOf(n, T) == AnswerTo(self, n, {getBucketIndex(n, p) : p \in T}, T)

(* The answers of every node, folded so that TLC computes them once.       *)
AllAnswers ==
  FoldSet(LAMBDA n, f : f @@ (n :> {AnswerOf(n, T) : T \in PossibleTables(n)}),
          << >>, Ids)

MCAnswers == AllAnswers

OwnAnswers == AllAnswers[self]

MCShortlists == OwnAnswers

=============================================================================
