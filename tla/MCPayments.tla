----------------------------- MODULE MCPayments -----------------------------
(* Values of the constants of Payments.                                    *)
EXTENDS Payments, TLC
CONSTANTS k1, k2, c1, c2, c3

\* Two executions under one key and one under another, all for the one unit
\* there is.
MCKeyOf    == (c1 :> k1) @@ (c2 :> k1) @@ (c3 :> k2)
MCAmountOf == (c1 :> 1) @@ (c2 :> 1) @@ (c3 :> 1)

\* An event that claims the capture of the first attempt and is not of it.
MCStrays == {<<k1, "CAPTURED">>}
=============================================================================
