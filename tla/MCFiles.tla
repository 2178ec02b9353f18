------------------------------- MODULE MCFiles -------------------------------
(* Small instances of the file feature for TLC. *)
EXTENDS FileProperties, TLC

CONSTANTS csv, pdf, c1, c2, big, bad, blank

\* Every content that appears, by what processing it does.
MCOutcome ==
    [c \in Contents |-> CASE c = big   -> "too_many_rows"
                          [] c = bad   -> "raises"
                          [] c = blank -> "no_text"
                          [] OTHER     -> "ok"]

Symm == Permutations(Files) \cup Permutations(Docs) \cup Permutations(Reqs)
          \cup Permutations(Uploads)
=============================================================================
