----------------------------- MODULE MCPricing -----------------------------
(* Values of the constants of Pricing: pieces are counted, a box            *)
(* holds what its conversion says.                                          *)
EXTENDS Pricing, TLC

MCFamily      == [piece |-> "COUNT", box |-> "EACH"]
MCConversions == {{}, {<<"box", "piece">>}}
Same          == Permutations(Writers)
=============================================================================
