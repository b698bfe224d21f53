---------------------------- MODULE MCDiscovery -----------------------------
(***************************************************************************)
(* Model checking of Discovery, with all answers computed once.            *)
(***************************************************************************)
EXTENDS Discovery, FiniteSetsExt, TLC

(* [x \in S |-> F(x)], every value of which TLC computes at once.          *)
Explicit(F(_), S) == FoldSet(LAMBDA x, f : f @@ (x :> F(x)), << >>, S)

(* A constant of its own, because TLC would compute MCAnswers every time.  *)
Computed ==
  Explicit(LAMBDA asker : Explicit(LAMBDA n : Explicit(LAMBDA ks : Explicit(LAMBDA T :
    AnswerTo(asker, n, ks, T), SUBSET Ids), SUBSET Indices), Ids), Ids)

MCAnswers == Computed

=============================================================================
