--------------------------- MODULE MCCalTransaction ---------------------------
(* Small instances of CalTransaction. *)
EXTENDS CalTransaction

\* No definition names an item, and every property is about single states or steps.
ItemSymmetry == Permutations(Items)
=============================================================================
