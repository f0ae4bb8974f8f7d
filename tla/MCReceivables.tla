--------------------------- MODULE MCReceivables ---------------------------
(* Values of the constants of Receivables.                                 *)
EXTENDS Receivables
CONSTANTS i1, i2, o1, c1, p1, p2, k1

MCKindOf == (i1 :> "INVOICE") @@ (i2 :> "INVOICE") @@ (o1 :> "OPENING")
                @@ (c1 :> "CANCELLATION_CHARGE")
MCAmountOf == (i1 :> 2) @@ (i2 :> 1) @@ (o1 :> 1) @@ (c1 :> 1)
MCMethodOf == (p1 :> "CASH") @@ (p2 :> "ONLINE_GATEWAY")
=============================================================================
