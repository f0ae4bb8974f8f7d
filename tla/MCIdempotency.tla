----------------------------- MODULE MCIdempotency -----------------------------
(***************************************************************************)
(* A request, a retry of it, and another request that reuses its key.  *)
(***************************************************************************)
EXTENDS Idempotency

CONSTANTS r1, r2, other

MCRequests == {r1, r2, other}
MCHashOf == [r \in MCRequests |-> IF r = other THEN "b" ELSE "a"]
=============================================================================
