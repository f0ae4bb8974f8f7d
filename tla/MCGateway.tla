------------------------------ MODULE MCGateway ------------------------------
(* Values of Gateway's constants for TLC. *)
EXTENDS Gateway, TLC

CONSTANTS everyone, north, public1, public2, branch1, tabs

\* Two tenant-wide events and one of the branch north.
MCTopicOf == [e \in Events |-> IF e = branch1 THEN north ELSE everyone]

\* The clients are tabs that share one login session.
OneSession == [k \in Clients |-> tabs]

ConnSymmetry == Permutations(Conns)
=============================================================================
