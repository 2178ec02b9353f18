------------------------------ MODULE MCSharing ------------------------------
(* Small instances of accounts and file sharing for TLC. *)
EXTENDS SharingProperties, TLC

CONSTANTS owner, peer, admin, f1

MCRoleOf == (owner :> "analyst") @@ (peer :> "analyst") @@ (admin :> "admin")
MCOwnerOf == f1 :> owner

Symm == Permutations(Requests)
=============================================================================
