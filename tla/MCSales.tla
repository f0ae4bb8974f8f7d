------------------------------ MODULE MCSales ------------------------------
(* Values of the constants of Sales: two orders of two, one customer whose  *)
(* credit is limited to two at first, then withdrawn.                       *)
EXTENDS Sales, TLC

MCFirstTerms == [enabled |-> TRUE, limit |-> 2]
MCTerms      == {[enabled |-> FALSE, limit |-> None]}
Same         == Permutations(Slots) \cup Permutations(Orders)
=============================================================================
