--------------------------- MODULE MCObjectLookup ---------------------------
(* ObjectLookup for TLC: leaves are interchangeable. *)
EXTENDS ObjectLookup

Symmetry == Permutations(Leaves) \union Permutations(Nodes \ {Root})
=============================================================================
