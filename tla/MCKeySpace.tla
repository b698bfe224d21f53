----------------------------- MODULE MCKeySpace -----------------------------
(***************************************************************************)
(* getBucketIndex against the XOR metric, for every pair of ids of the     *)
(* real key space: owner is a table's id, key walks through all the ids.   *)
(***************************************************************************)
EXTENDS KeySpace

VARIABLES owner, key

vars == <<owner, key>>

Init == owner \in Ids /\ key = 0

NextKey == key < HASH_SIZE - 1 /\ key' = key + 1 /\ UNCHANGED owner

Spec == Init /\ [][NextKey]_vars

(* The bucket of a key other than the owner is the logarithm of its XOR    *)
(* distance: the scan of the bits in getBucketIndex agrees with the metric *)
(* that findNode sorts by.                                                 *)
IndexIsLogDistance ==
  LET i == getBucketIndex(owner, key)
  IN  owner # key => Pow2[i] =< XOR(owner, key) /\ XOR(owner, key) < Pow2[i + 1]

(* Why findNode starts with the key's own bucket: whoever is in it is      *)
(* nearer to the key than anybody in another bucket.                       *)
OwnBucketIsNearest ==
  LET Near == {n \in Ids \ {owner} : getBucketIndex(owner, n) = getBucketIndex(owner, key)}
  IN  owner # key =>
        \A n \in Near, m \in (Ids \ {owner}) \ Near : XOR(n, key) < XOR(m, key)

=============================================================================
