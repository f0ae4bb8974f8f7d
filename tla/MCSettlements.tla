--------------------------- MODULE MCSettlements ---------------------------
(* Values of the constants of Settlements: a payment of two that a provider *)
(* collects, a receipt of one in cash, and a cash payment of before.  The   *)
(* invoice with the higher id has the older receivable.                     *)
EXTENDS Settlements, TLC
CONSTANTS s1, s2, b1, b2, i1, i2, q1, r1, h1

MCLinesOf   == (b1 :> <<1, 1>>) @@ (b2 :> <<1>>)
MCGrossOf   == (b1 :> {1, 2}) @@ (b2 :> {1})
MCTotalOf   == (i1 :> 2) @@ (i2 :> 3)
MCAmountOf  == (q1 :> 2) @@ (r1 :> 1) @@ (h1 :> 2)
MCMethodOf  == (q1 :> "ONLINE_GATEWAY") @@ (r1 :> "CASH") @@ (h1 :> "CASH")
MCIdOf      == (i1 :> 1) @@ (i2 :> 2) @@ (q1 :> 3) @@ (r1 :> 4) @@ (h1 :> 5)
MCAgeOf     == (i1 :> 2) @@ (i2 :> 1)
MCInherited == h1 :> i1
SameSlots   == Permutations(Slots)
=============================================================================
