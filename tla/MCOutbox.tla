------------------------------ MODULE MCOutbox ------------------------------
(* Values of Outbox's constants for TLC. *)
EXTENDS Outbox, TLC

CONSTANT t1

\* Every row belongs to one tenant.
OneTenantOf == [r \in Rows |-> t1]
=============================================================================
