----------------------------- MODULE MCConnection -----------------------------
(* Small instances of a store's connection for TLC. *)
EXTENDS ConnectionProperties, TLC

Symm == Permutations(Calls)
=============================================================================
