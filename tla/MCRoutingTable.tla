--------------------------- MODULE MCRoutingTable ---------------------------
(***************************************************************************)
(* Model checking of RoutingTable, with findNode evaluated for every key   *)
(* on every table that a call can meet: findNode is called when no loop of *)
(* updateTables is running.                                                *)
(***************************************************************************)
EXTENDS RoutingTable, FindNode

Answer(key) == findNode(self, Elements(order), buckets, key, ALPHA)

(* A FIND_NODE answer holds known peers only, none of them twice, never    *)
(* the asker, at most BIT_SIZE of them, the most distant first.  (In the   *)
(* run the answer to 4, from one peer of its own bucket, two above and one *)
(* below, is cut.)                                                         *)
FindNodeSound ==
  todo = << >> =>
    \A key \in Ids :
      LET r == Answer(key)
      IN  /\ Elements(r) \subseteq Known \ {key}
          /\ Len(r) =< BIT_SIZE
          /\ \A i, j \in 1 .. Len(r) : i < j => XOR(r[i], key) > XOR(r[j], key)

(* An answer is never short while the table could fill it: it has at least *)
(* ALPHA entries, or every known peer but the asker.  The loop tests       *)
(* `length === count`, so a round that jumps over count goes on, and the   *)
(* alternation must still end having seen every bucket.                    *)
FindNodeEnough ==
  todo = << >> =>
    \A key \in Ids :
      LET r == Answer(key)
      IN  Len(r) >= ALPHA \/ Elements(r) = Known \ {key}

(* README.md:80, "FIND_NODE: Locate a node by its ID. Returns the k        *)
(* closest nodes.": another node that asks gets, among the answer, the     *)
(* ALPHA known peers nearest to it.  Stated for tables that do not hold    *)
(* their owner, which could only blur the picture.                         *)
FindNodeReturnsClosest ==
  self \notin Known =>
    \A key \in Ids \ {self} :
      LET others == Known \ {key}
          closest == {n \in others :
                        Cardinality({m \in others : XOR(m, key) < XOR(n, key)}) < ALPHA}
      IN  closest \subseteq Elements(Answer(key))

=============================================================================
