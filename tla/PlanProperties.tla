--------------------------- MODULE PlanProperties ---------------------------
(* What the orchestrator promises of its plans, its replays and its answers. *)
EXTENDS PlanExecution

Calls(t) == {e \in Execs : run[e].trace = t}

\* A fanout agent runs only behind a SQL step the guardrail approved, whichever
\* calls share the trace and however often the step was retried.
FanoutAfterSql ==
    \A e \in Execs, a \in Fanouts :
        pc[e] = "runner" /\ AtStep(e, a) /\ "sql" \in Planned(run[e].trace)
            => run[e].output["sql"] # NoExec

\* A request reported as succeeded has a result from every agent of its plan
\* that has a runner, the verifier included unless it waited for one without.
SucceededIsComplete ==
    \A e \in Execs : run[e].stage = "succeeded" =>
        LET plan == Planned(run[e].trace) IN
        \A a \in plan \ Unwired :
            \/ run[e].output[a] # NoExec
            \/ a = "verifier" /\ plan \cap Unwired # {}

\* When no call of a trace is left, its request is in the final state one of
\* its calls reported, failed if that call's answer carries a denial: a refused
\* question, a SQL step the guardrail denied, a synthesizer without provider.
\* A blocked history record goes with a failed request unless calls overlapped.
Reported(t, e) ==
    /\ request[t] = run[e].stage
    /\ run[e].stage \in {"succeeded", "degraded", "failed"}
    /\ run[e].blocked => run[e].stage = "failed"

RequestSettles ==
    \A t \in Traces : Calls(t) # {} /\ (\A e \in Calls(t) : Ended(e)) =>
        /\ \E e \in Calls(t) : Reported(t, e)
        /\ history[t] = "blocked" => Overlaps(t) \/ request[t] = "failed"

\* Calls made one after the other run no agent twice under one key: the later
\* one takes the stored result.
KeyRunsOnce(t) ==
    \A e, x \in Calls(t) : e # x => run[e].ran \cap run[x].ran = {}

\* Replaying a trace neither repeats work nor loses any: calls that do not
\* overlap run nothing twice, and no step of theirs replaces the record of a
\* success, be it a later failure or the skips that follow a failed SQL step.
ReplayKeepsResults ==
    [][\A t \in Traces : ~Overlaps(t)' =>
         /\ KeyRunsOnce(t)'
         /\ \A k \in Agents \X Attempts :
              steps[t][k].status = "succeeded" => steps'[t][k] = steps[t][k]]_vars

\* Every call ends: a plan never waits for a step that cannot run.
CallsEnd == \A e \in Execs : pc[e] = "draft" ~> Ended(e)

\* Every request comes to rest: its calls end, and then its state is final.
RequestsComeToRest == []RequestSettles /\ CallsEnd

-----------------------------------------------------------------------------
\* What the documents say and some run of the code refutes.

\* Whatever the read-only executor runs, the guardrail approved.
OnlyApprovedSqlRuns == \A e \in Execs : run[e].sql # "unapproved"
=============================================================================
