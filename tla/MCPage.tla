------------------------------- MODULE MCPage -------------------------------
(* Small instances of the chat page for TLC. *)
EXTENDS PageProperties, TLC

Symm == Permutations(People) \cup Permutations(Files)
=============================================================================
