---------------------------- MODULE FileCatalog ----------------------------
(***************************************************************************)
(* What the owner of files is promised, with every operation atomic: a     *)
(* shelf of files, one listed version per name, each file moving one way.  *)
(***************************************************************************)
CONSTANTS Files, Keys, NoKey

VARIABLES
    shelf, \* where each file stands
    key    \* the (owner, name) each file was uploaded under

Places == {"none",      \* not uploaded yet
           "listed",    \* the current version of its key
           "hidden",    \* an older version
           "archived",
           "deleted",
           "withdrawn", \* archived, then deleted by an admin
           "purged"}

CatalogTypeOK ==
    /\ shelf \in [Files -> Places]
    /\ key \in [Files -> Keys \cup {NoKey}]

CatalogInit ==
    /\ shelf = [f \in Files |-> "none"]
    /\ key = [f \in Files |-> NoKey]

\* The new version is listed at the moment the old one stops being listed.
Upload(f, k) ==
    /\ shelf[f] = "none"
    /\ key' = [key EXCEPT ![f] = k]
    /\ shelf' = [g \in Files |->
                   IF g = f THEN "listed"
                   ELSE IF key[g] = k /\ shelf[g] = "listed" THEN "hidden"
                   ELSE shelf[g]]

Move(f, from, to) ==
    /\ shelf[f] \in from
    /\ shelf' = [shelf EXCEPT ![f] = to]
    /\ UNCHANGED key

Archive(f)  == Move(f, {"listed", "hidden"}, "archived")
Delete(f)   == Move(f, {"listed", "hidden"}, "deleted")
Withdraw(f) == Move(f, {"archived"}, "withdrawn")
Purge(f)    == Move(f, {"archived", "withdrawn"}, "purged")

CatalogNext ==
    \E f \in Files :
        \/ \E k \in Keys : Upload(f, k)
        \/ Archive(f) \/ Delete(f) \/ Withdraw(f) \/ Purge(f)

CatalogSpec == CatalogInit /\ [][CatalogNext]_<<shelf, key>>
=============================================================================
