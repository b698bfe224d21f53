------------------------------- MODULE Lists --------------------------------
(***************************************************************************)
(* The list operations of the program that SequencesExt has only in forms  *)
(* the prover cannot expand (SelectSeq), with recursion as a function so   *)
(* that their properties can be proved (module ListsProofs).               *)
(***************************************************************************)
EXTENDS Integers, Sequences, FiniteSets

Elements(s) == {s[i] : i \in 1 .. Len(s)}

(* No entry occurs twice.                                                  *)
Distinct(s) == \A i, j \in 1 .. Len(s) : s[i] = s[j] => i = j

(* nodes.filter((n) => n.nodeId !== p)                                     *)
Without(s, p) ==
  LET kept[i \in 0 .. Len(s)] ==
        IF i = 0 THEN << >>
        ELSE IF s[i] # p THEN Append(kept[i - 1], s[i]) ELSE kept[i - 1]
  IN  kept[Len(s)]

(* nodes.reverse()                                                         *)
Reversed(s) == [i \in 1 .. Len(s) |-> s[Len(s) + 1 - i]]

(* [...ss[1], ...ss[2], ...]                                               *)
Concatenated(ss) ==
  LET upto[k \in 0 .. Len(ss)] == IF k = 0 THEN << >> ELSE upto[k - 1] \o ss[k]
  IN  upto[Len(ss)]

(* The keys of a Map after set(k, ...): a key it has keeps its place.      *)
WithKey(keys, k) == IF k \in Elements(keys) THEN keys ELSE Append(keys, k)

=============================================================================
