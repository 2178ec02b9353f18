------------------------------- MODULE MCPlan -------------------------------
(* Small instances of the orchestrator for TLC. *)
EXTENDS PlanProperties, TLC

\* SQL and a document question, a document question alone, and SQL with an
\* uploaded file.  A chart or a forecast is planned exactly as a document.
\* Replays retry a step; calls that overlap run the default executor.
Asked == {{"data", "rag"}, {"rag"}, {"file_data"}}
MCQuestions ==
    {[asks |-> s, attempts |-> 2, overlaps |-> FALSE] : s \in Asked}
      \cup {[asks |-> {"file_data"}, attempts |-> 3, overlaps |-> FALSE]}
      \cup {[asks |-> s, attempts |-> 1, overlaps |-> TRUE] : s \in Asked}
=============================================================================
