----------------------------- MODULE MCCatalog -----------------------------
(* Values of the constants of Catalog. *)
EXTENDS Catalog, TLC

Same == Permutations(Slots) \cup Permutations(Groups) \cup Permutations(Values)
            \cup Permutations(Variants) \cup Permutations(Codes)
=============================================================================
