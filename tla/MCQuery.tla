------------------------------- MODULE MCQuery -------------------------------
(* Small instances of the chat query route for TLC. *)
EXTENDS QueryProperties, TLC

CONSTANTS u1, u2, o1, s1, k1, f1

MCOrg == (u1 :> o1) @@ (u2 :> o1)
MCOwner == f1 :> u2

Ask(u, f, about) ==
    [user |-> u, session |-> s1, key |-> k1, file |-> f, browse |-> FALSE,
     question |-> [about |-> about, domain |-> TRUE]]

Plain == Ask(u1, NoFile, FALSE)
Reworded == Ask(u1, NoFile, TRUE)
Attach == [Ask(u2, f1, FALSE) EXCEPT !.key = NoKey]
Inherit == Ask(u2, NoFile, TRUE)
Browsing == [Plain EXCEPT !.browse = TRUE, !.key = NoKey]

\* One session and one key for two users of one organization: a question, the
\* same key with another question, a file attached and then inherited, and a
\* look at the history.
MCCarried == << {Plain, Attach}, {Reworded, Browsing}, {Plain, Inherit} >>
=============================================================================
