------------------------------- MODULE MCTasks -------------------------------
(* Small instances of the task queue and its users for TLC. *)
EXTENDS TaskProperties, TLC

Request(api, org, key, size) == [api |-> api, org |-> org, key |-> key, doc |-> "d", size |-> size]

\* Two organizations share a document id and a key; one sends the document
\* long, and then short under no key or empty under the same one.
MCRequests == {Request("v2", "a", "k", 2), Request("v1", "a", NoKey, 1),
               Request("v2", "a", "k", 0), Request("v2", "b", "k", 2)}
MCRagTexts == {[doc |-> "d", size |-> 2, long |-> TRUE], [doc |-> "d", size |-> 1, long |-> FALSE]}
MCSeries == {[trace |-> "t", org |-> "a", valid |-> v] : v \in BOOLEAN}
Symm == Permutations(Calls)
=============================================================================
