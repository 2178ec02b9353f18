---------------------------- MODULE PlanExecution ----------------------------
(***************************************************************************)
(* SimpleOrchestrator.answer: a question becomes a plan of agent steps,    *)
(* PlanExecutor walks it, and the answer is assembled from what the agents *)
(* returned.  The state store is keyed trace:step:attempt, so that running *)
(* a trace again finds the steps that already succeeded.                   *)
(*                                                                         *)
(* The trace id is the caller's X-Trace-Id header and chat_query is a      *)
(* plain def: FastAPI runs each call in a thread of its pool, and nothing  *)
(* stops two of them from executing one trace at once.  Every access to    *)
(* the store is one dictionary operation, hence one step here.             *)
(***************************************************************************)
EXTENDS Naturals

CONSTANTS
    Traces,      \* client trace ids
    Execs,       \* calls of answer() (bound)
    Questions,   \* what the calls of a trace may be like (bound)
    NoTrace, NoExec

\* The keyword groups of QuestionClassifier that decide the plan.
Signals == {"data", "rag", "chart", "analytics", "file_data"}
Fanouts == {"rag", "chart", "analytics", "file_data"}
Agents == {"sql", "verifier"} \cup Fanouts
Attempts == 1..3

\* _build_runners has no entry for AgentName.FILE_DATA.
Unwired == {"file_data"}

Denials == {"deny_statement", "deny_object", "deny_output"}
Outcomes(a) == {"succeeded", "timed_out", "raised"}
                 \cup (IF a = "sql" THEN Denials ELSE {})

StepStatus == {"none", "succeeded", "failed", "timed_out", "degraded", "skipped"}
Step == [status : StepStatus, by : Execs \cup {NoExec}]
Stages == {"none", "running", "succeeded", "degraded", "failed"}

ASSUME PlanExecutionAssumption ==
    /\ Questions \subseteq [asks : SUBSET Signals, attempts : Attempts, overlaps : BOOLEAN]
    /\ NoTrace \notin Traces /\ NoExec \notin Execs

VARIABLES
    question, \* per trace: the signals its calls ask for, the executor's max_attempts,
              \* and whether the client lets its calls overlap
    steps,    \* InMemoryOrchestrationStateStore._steps
    request,  \* InMemoryOrchestrationStateStore._request_states
    history,  \* query history, keyed by trace id
    pc,       \* per call: where it is
    run       \* per call: the locals of answer() and execute()

storeVars == <<steps, request, history>>
vars == <<question, steps, request, history, pc, run>>

Run == [trace     : Traces \cup {NoTrace},
        left      : SUBSET Agents,             \* plan steps not yet visited
        attempt   : Attempts,
        completed : SUBSET Agents,             \* completed_agents
        output    : [Agents -> Execs \cup {NoExec}], \* whose result outputs[a] is
        ran       : SUBSET (Agents \X Attempts),     \* runners it ran to success
        why       : Outcomes("sql"),           \* last_error, "succeeded" if none
        denied    : BOOLEAN,                   \* a SQL_DENY_STATEMENT warning
        blocked   : BOOLEAN,                   \* a code of denial_codes in the answer
        warned    : BOOLEAN,                   \* answer.warnings is not empty
        sql       : {"none", "approved", "unapproved"}, \* what the database ran
        stage     : Stages]                    \* the stage it reported

Fresh == [trace |-> NoTrace, left |-> {}, attempt |-> 1, completed |-> {},
          output |-> [a \in Agents |-> NoExec], ran |-> {},
          why |-> "succeeded", denied |-> FALSE, blocked |-> FALSE,
          warned |-> FALSE, sql |-> "none", stage |-> "none"]

PCs == {"idle", "draft", "step", "runner", "record", "skip_rest", "assemble",
        "save_history", "finish", "done", "raised"}

Ended(e) == pc[e] \in {"idle", "done", "raised"}

-----------------------------------------------------------------------------
(* The plan of a question.                                                 *)

\* A question needs SQL unless its only signal is a document question.
Classify(signals) ==
    (IF signals \cap {"data", "chart", "analytics"} # {} \/ "rag" \notin signals
     THEN {"sql"} ELSE {}) \cup (signals \cap Fanouts)

\* PlanExecutor clamps it to 1..3.
MaxAttempts(t) == question[t].attempts

\* Calls that do not overlap are made one after the other: replays.
Overlaps(t) == question[t].overlaps

Planned(t) == Classify(question[t].asks) \cup {"verifier"}

DependsOn(t, a) ==
    LET fanout == Planned(t) \cap Fanouts
        sql    == Planned(t) \cap {"sql"}
    IN CASE a = "sql"      -> {}
         [] a = "verifier" -> IF fanout # {} THEN fanout ELSE sql
         [] OTHER          -> sql

Rank == [a \in Agents |->
           CASE a = "sql" -> 1 [] a = "rag" -> 2 [] a = "chart" -> 3
             [] a = "analytics" -> 4 [] a = "file_data" -> 5 [] OTHER -> 6]

\* The loop of execute() has reached step a.
AtStep(e, a) ==
    /\ a \in run[e].left
    /\ \A b \in run[e].left : Rank[a] <= Rank[b]

-----------------------------------------------------------------------------
Init ==
    /\ question \in [Traces -> Questions]
    /\ steps = [t \in Traces |->
                  [k \in Agents \X Attempts |-> [status |-> "none", by |-> NoExec]]]
    /\ request = [t \in Traces |-> "none"]
    /\ history = [t \in Traces |-> "none"]
    /\ pc = [e \in Execs |-> "idle"]
    /\ run = [e \in Execs |-> Fresh]

\* save_step: the record under trace:step:attempt is replaced, whatever it was.
SaveStep(t, a, n, status, by) ==
    steps' = [steps EXCEPT ![t][<<a, n>>] = [status |-> status, by |-> by]]

\* Mutant: the look-up sees the last attempt only.
Cached_LastAttempt(t, a, n) ==
    n = MaxAttempts(t) /\ steps[t][<<a, n>>].status = "succeeded"

\* get_successful_step.
Cached(t, a, n) == steps[t][<<a, n>>].status = "succeeded"

Goto(e, label) == pc' = [pc EXCEPT ![e] = label]

-----------------------------------------------------------------------------
(* answer(): the request is marked running, SQL is drafted, a plan built.  *)

Begin(e, t) ==
    /\ pc[e] = "idle"
    /\ Overlaps(t) \/ \A x \in Execs : run[x].trace = t => Ended(x)
    /\ request' = [request EXCEPT ![t] = "running"]
    /\ run' = [run EXCEPT ![e].trace = t]
    /\ Goto(e, "draft")
    /\ UNCHANGED <<question, steps, history>>

\* The question is not supported, or the SQL generation provider failed.
Refuse(e) ==
    /\ pc[e] = "draft"
    /\ run' = [run EXCEPT ![e] =
                 [run[e] EXCEPT !.denied = TRUE, !.blocked = TRUE, !.warned = TRUE]]
    /\ Goto(e, "save_history")
    /\ UNCHANGED <<question, storeVars>>

Draft(e) ==
    /\ pc[e] = "draft"
    /\ run' = [run EXCEPT ![e].left = Planned(run[e].trace)]
    /\ Goto(e, "step")
    /\ UNCHANGED <<question, storeVars>>

-----------------------------------------------------------------------------
(* execute(): one turn of its loop per plan step.                          *)

Runnable(e, a) ==
    /\ DependsOn(run[e].trace, a) \subseteq run[e].completed
    /\ a \notin Unwired

\* Mutant: a step whose dependency failed is left waiting for it.
SkipStep_Waits(e, a) ==
    /\ pc[e] = "step" /\ AtStep(e, a)
    /\ a \in Unwired
    /\ SaveStep(run[e].trace, a, 1, "skipped", NoExec)
    /\ run' = [run EXCEPT ![e].left = @ \ {a}]
    /\ UNCHANGED <<question, request, history, pc>>

SkipStep(e, a) ==
    /\ pc[e] = "step" /\ AtStep(e, a)
    /\ ~Runnable(e, a)
    /\ SaveStep(run[e].trace, a, 1, "skipped", NoExec)
    /\ run' = [run EXCEPT ![e].left = @ \ {a}]
    /\ UNCHANGED <<question, request, history, pc>>

\* Step a ends well with the result that execution `by` obtained.
Completed(r, a, by) ==
    [r EXCEPT !.output[a] = by, !.completed = @ \cup {a},
              !.left = @ \ {a}, !.attempt = 1, !.why = "succeeded"]

UseCached(e, a) ==
    LET t == run[e].trace
        n == run[e].attempt
    IN
    /\ pc[e] = "step" /\ AtStep(e, a) /\ Runnable(e, a)
    /\ Cached(t, a, n)
    /\ run' = [run EXCEPT ![e] = Completed(run[e], a, steps[t][<<a, n>>].by)]
    /\ UNCHANGED <<question, storeVars, pc>>

StartRunner(e, a) ==
    /\ pc[e] = "step" /\ AtStep(e, a) /\ Runnable(e, a)
    /\ ~Cached(run[e].trace, a, run[e].attempt)
    /\ Goto(e, "runner")
    /\ UNCHANGED <<question, storeVars, run>>

RunnerReturns(e, a) ==
    LET n == run[e].attempt IN
    /\ pc[e] = "runner" /\ AtStep(e, a)
    /\ SaveStep(run[e].trace, a, n, "succeeded", e)
    /\ run' = [run EXCEPT ![e] =
                 [Completed(run[e], a, e) EXCEPT !.ran = run[e].ran \cup {<<a, n>>}]]
    /\ Goto(e, "step")
    /\ UNCHANGED <<question, request, history>>

\* Mutant: one attempt too many.
RunnerFails_OneMore(e, a, why) ==
    LET n == run[e].attempt IN
    /\ pc[e] = "runner" /\ AtStep(e, a)
    /\ why \in Outcomes(a) \ {"succeeded"}
    /\ SaveStep(run[e].trace, a, n, "failed", NoExec)
    /\ IF n <= MaxAttempts(run[e].trace)
       THEN /\ run' = [run EXCEPT ![e] = [run[e] EXCEPT !.attempt = n + 1, !.why = why]]
            /\ Goto(e, "step")
       ELSE /\ run' = [run EXCEPT ![e] = [run[e] EXCEPT !.attempt = 1, !.why = why]]
            /\ Goto(e, "record")
    /\ UNCHANGED <<question, request, history>>

\* The attempt is recorded and the next one made, if there is one.
RunnerFails(e, a, why) ==
    LET n == run[e].attempt IN
    /\ pc[e] = "runner" /\ AtStep(e, a)
    /\ why \in Outcomes(a) \ {"succeeded"}
    /\ SaveStep(run[e].trace, a, n,
                IF why = "timed_out" THEN "timed_out" ELSE "failed", NoExec)
    /\ \/ /\ n < MaxAttempts(run[e].trace)
          /\ run' = [run EXCEPT ![e] = [run[e] EXCEPT !.attempt = n + 1, !.why = why]]
          /\ Goto(e, "step")
       \/ /\ n = MaxAttempts(run[e].trace)
          /\ run' = [run EXCEPT ![e] = [run[e] EXCEPT !.attempt = 1, !.why = why]]
          /\ Goto(e, "record")
    /\ UNCHANGED <<question, request, history>>

\* Mutants: a failed SQL step counts as completed like any other; the failure
\* adds no warning to the answer.
RecordFailure_GoesOn(e, a) ==
    LET why == run[e].why IN
    /\ pc[e] = "record" /\ AtStep(e, a)
    /\ SaveStep(run[e].trace, a, 1, "failed", NoExec)
    /\ run' = [run EXCEPT ![e].left = @ \ {a}, ![e].why = "succeeded",
                          ![e].warned = TRUE, ![e].completed = @ \cup {a}]
    /\ Goto(e, "step")
    /\ UNCHANGED <<question, request, history>>
RecordFailure_Silent(e, a) ==
    LET why == run[e].why IN
    /\ pc[e] = "record" /\ AtStep(e, a)
    /\ SaveStep(run[e].trace, a, 1, "degraded", NoExec)
    /\ run' = [run EXCEPT ![e] = [run[e] EXCEPT
                 !.left = run[e].left \ {a},
                 !.why = "succeeded",
                 !.denied = (why = "deny_statement"),
                 !.blocked = run[e].blocked \/ why \in {"deny_statement", "deny_object"},
                 !.completed = run[e].completed \cup ({a} \ {"sql"})]]
    /\ Goto(e, IF a = "sql" THEN "skip_rest" ELSE "step")
    /\ UNCHANGED <<question, request, history>>

\* The last error is a warning and the step's output, written under attempt 1.
\* A failed SQL step ends the plan; any other counts as completed.
RecordFailure(e, a) ==
    LET why == run[e].why IN
    /\ pc[e] = "record" /\ AtStep(e, a)
    /\ SaveStep(run[e].trace, a, 1,
                CASE why = "timed_out" -> "timed_out"
                  [] why = "raised"    -> "degraded"
                  [] OTHER             -> "failed", NoExec)
    /\ run' = [run EXCEPT ![e] = [run[e] EXCEPT
                 !.left = run[e].left \ {a},
                 !.why = "succeeded",
                 !.warned = TRUE,
                 !.denied = (why = "deny_statement"),
                 !.blocked = run[e].blocked \/ why \in {"deny_statement", "deny_object"},
                 !.completed = run[e].completed \cup ({a} \ {"sql"})]]
    /\ Goto(e, IF a = "sql" THEN "skip_rest" ELSE "step")
    /\ UNCHANGED <<question, request, history>>

\* _skip_remaining_after_failure, one save per remaining step.
SkipRest(e, a) ==
    /\ pc[e] = "skip_rest" /\ AtStep(e, a)
    /\ SaveStep(run[e].trace, a, 1, "skipped", NoExec)
    /\ run' = [run EXCEPT ![e].left = @ \ {a}]
    /\ UNCHANGED <<question, request, history, pc>>

PlanEnds(e) ==
    /\ pc[e] \in {"step", "skip_rest"} /\ run[e].left = {}
    /\ Goto(e, "assemble")
    /\ UNCHANGED <<question, storeVars, run>>

-----------------------------------------------------------------------------
(* The answer.                                                             *)

\* _sql_denial_warning: only SQL_DENY_STATEMENT blocks the answer.
DenyAnswer(e) ==
    /\ pc[e] = "assemble" /\ run[e].denied
    /\ Goto(e, "save_history")
    /\ UNCHANGED <<question, storeVars, run>>

\* _safe_sql_from_execution falls back to the drafted SQL when the SQL step
\* has no output.  The database and the two verifiers may each add a warning.
\* A synthesizer whose provider fails or times out answers with a fallback and
\* a warning that _sql_denial_from_answer counts among the denials.
AssembleAnswer(e) ==
    /\ pc[e] = "assemble" /\ ~run[e].denied
    /\ \E extra, provider \in BOOLEAN :
         run' = [run EXCEPT ![e] = [run[e] EXCEPT
                   !.warned = run[e].warned \/ extra \/ provider,
                   !.blocked = run[e].blocked \/ provider,
                   !.sql = IF "sql" \notin Planned(run[e].trace) THEN "none"
                           ELSE IF run[e].output["sql"] # NoExec THEN "approved"
                           ELSE "unapproved"]]
    /\ Goto(e, "save_history")
    /\ UNCHANGED <<question, storeVars>>

SaveHistory(e) ==
    /\ pc[e] = "save_history"
    /\ history' = [history EXCEPT ![run[e].trace] =
                     IF run[e].denied THEN "blocked" ELSE "answered"]
    /\ Goto(e, "finish")
    /\ UNCHANGED <<question, steps, request, run>>

\* _request_state_from_answer.
Finish(e) ==
    LET stage == IF run[e].blocked THEN "failed"
                 ELSE IF run[e].warned THEN "degraded" ELSE "succeeded"
    IN
    /\ pc[e] = "finish"
    /\ request' = [request EXCEPT ![run[e].trace] = stage]
    /\ run' = [run EXCEPT ![e].stage = stage]
    /\ Goto(e, "done")
    /\ UNCHANGED <<question, steps, history>>

\* The history, the database or the synthesizer raised: answer() marks the
\* request failed and lets the exception pass.
Raise(e) ==
    /\ pc[e] \in {"draft", "assemble", "save_history"}
    /\ request' = [request EXCEPT ![run[e].trace] = "failed"]
    /\ run' = [run EXCEPT ![e].stage = "failed"]
    /\ Goto(e, "raised")
    /\ UNCHANGED <<question, steps, history>>

-----------------------------------------------------------------------------
StepActions(e) ==
    \E a \in Agents :
        \/ SkipStep(e, a) \/ UseCached(e, a) \/ StartRunner(e, a)
        \/ RunnerReturns(e, a) \/ \E why \in Outcomes(a) : RunnerFails(e, a, why)
        \/ RecordFailure(e, a) \/ SkipRest(e, a)

AnswerActions(e) ==
    \/ Refuse(e) \/ Draft(e) \/ PlanEnds(e) \/ DenyAnswer(e)
    \/ AssembleAnswer(e) \/ SaveHistory(e) \/ Finish(e) \/ Raise(e)

Next ==
    \E e \in Execs :
        \/ \E t \in Traces : Begin(e, t)
        \/ AnswerActions(e)
        \/ StepActions(e)

Spec == Init /\ [][Next]_vars

\* A thread that runs a call is scheduled until the call returns.
Fairness == \A e \in Execs : WF_vars(AnswerActions(e) \/ StepActions(e))

FairSpec == Spec /\ Fairness

TypeOK ==
    /\ question \in [Traces -> Questions]
    /\ steps \in [Traces -> [Agents \X Attempts -> Step]]
    /\ request \in [Traces -> Stages]
    /\ history \in [Traces -> {"none", "blocked", "answered"}]
    /\ pc \in [Execs -> PCs]
    /\ run \in [Execs -> Run]
=============================================================================
