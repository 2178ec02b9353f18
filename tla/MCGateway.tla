------------------------------ MODULE MCGateway ------------------------------
(* Small instances of the LLM gateway for TLC. *)
EXTENDS LLMGatewayProperties, TLC

Symm == Permutations(Calls)
=============================================================================
