----------------------------- MODULE PlanProofs -----------------------------
(***************************************************************************)
(* Why a fanout agent runs only behind an approved SQL step, and why a     *)
(* request reported as succeeded is complete, for any number of calls that *)
(* overlap as they like.  The argument follows one call: the loop visits   *)
(* the plan in the order of Rank, so whatever a step depends on has been   *)
(* visited (Visited); a call shares only the store, and takes from it only *)
(* records of successes, which name the call that ran (StoreHonest).       *)
(***************************************************************************)
EXTENDS PlanProperties, TLAPS

\* A stored success names the call whose result it is.
StoreHonest ==
    \A t \in Traces, k \in Agents \X Attempts :
        steps[t][k].status = "succeeded" => steps[t][k].by # NoExec

InPlan(e) == pc[e] \in {"step", "runner", "record"}

\* While the loop runs, every wired step it has left behind, other than the
\* verifier, counts as completed, and the SQL step has a result.
Visited(e) ==
    InPlan(e) =>
        /\ \A a \in Planned(run[e].trace) \ (run[e].left \cup Unwired \cup {"verifier"}) :
             a \in run[e].completed
        /\ "sql" \in Planned(run[e].trace) \ run[e].left => run[e].output["sql"] # NoExec

\* As long as nothing warns, what the loop has left behind has a result.
Complete(e) ==
    pc[e] \notin {"idle", "draft", "raised"} /\ ~run[e].warned =>
        /\ pc[e] # "skip_rest"
        /\ \A a \in Planned(run[e].trace) \ (run[e].left \cup Unwired) :
             \/ run[e].output[a] # NoExec
             \/ a = "verifier" /\ Planned(run[e].trace) \cap Unwired # {}

Progress(e) ==
    /\ pc[e] # "idle" => run[e].trace \in Traces
    /\ pc[e] \in {"assemble", "save_history", "finish", "done"} => run[e].left = {}
    /\ pc[e] \in {"idle", "draft"} => run[e].left = {}
    /\ run[e].stage = "succeeded" => pc[e] = "done" /\ ~run[e].warned

CallInv(e) == Progress(e) /\ Visited(e) /\ Complete(e)

Inv == TypeOK /\ StoreHonest /\ \A e \in Execs : CallInv(e)

-----------------------------------------------------------------------------
LEMMA FreshIsRun == Fresh \in Run
BY PlanExecutionAssumption DEF Fresh, Run, Attempts, Outcomes, Stages

LEMMA PlannedAgents ==
    ASSUME NEW t PROVE Planned(t) \subseteq Agents
BY DEF Planned, Classify, Agents

LEMMA InitInv == Init => Inv
<1> SUFFICES ASSUME Init PROVE Inv
  OBVIOUS
<1>1. TypeOK
  BY FreshIsRun, PlanExecutionAssumption DEF Init, TypeOK, Step, StepStatus, Stages, PCs
<1>2. StoreHonest
  BY DEF Init, StoreHonest
<1>3. ASSUME NEW e \in Execs PROVE CallInv(e)
  BY DEF Init, CallInv, Progress, Visited, Complete, InPlan, Fresh
<1>. QED
  BY <1>1, <1>2, <1>3 DEF Inv

\* Saving a step keeps the store's type, and its honesty if the record has it.
LEMMA SaveStepKeeps ==
    ASSUME Inv, NEW t \in Traces, NEW a \in Agents, NEW n \in Attempts,
           NEW status \in StepStatus, NEW by \in Execs \cup {NoExec},
           status = "succeeded" => by # NoExec,
           SaveStep(t, a, n, status, by)
    PROVE  steps' \in [Traces -> [Agents \X Attempts -> Step]] /\ StoreHonest'
<1>1. steps \in [Traces -> [Agents \X Attempts -> Step]]
  BY DEF Inv, TypeOK
<1>2. [status |-> status, by |-> by] \in Step
  BY DEF Step
<1>3. <<a, n>> \in Agents \X Attempts
  OBVIOUS
<1>4. steps' \in [Traces -> [Agents \X Attempts -> Step]]
  BY <1>1, <1>2, <1>3 DEF SaveStep
<1>5. StoreHonest'
  BY <1>1, <1>3 DEF SaveStep, StoreHonest, Inv
<1>. QED
  BY <1>4, <1>5

\* A call whose locals and whose place did not change keeps its part of Inv.
LEMMA OtherCalls ==
    ASSUME Inv, UNCHANGED question, NEW x \in Execs,
           pc'[x] = pc[x], run'[x] = run[x]
    PROVE  CallInv(x)'
BY DEF Inv, CallInv, Progress, Visited, Complete, InPlan, Planned

\* The verifier waits for every fanout of the plan, the others for SQL alone:
\* all of them come earlier.
LEMMA RunnableUnlessUnwired ==
    ASSUME Inv, NEW e \in Execs, NEW a \in Agents, InPlan(e), AtStep(e, a),
           a \notin Unwired, ~Runnable(e, a)
    PROVE  a = "verifier" /\ Planned(run[e].trace) \cap Unwired # {}
<1> DEFINE plan == Planned(run[e].trace)
<1>1. PICK b \in DependsOn(run[e].trace, a) : b \notin run[e].completed
  BY DEF Runnable
<1>2. b \in plan /\ b \in Agents /\ b # "verifier" /\ Rank[b] < Rank[a]
  BY <1>1 DEF DependsOn, Rank, Agents, Fanouts
<1>3. b \notin run[e].left
  BY <1>2 DEF AtStep, Rank, Agents, Fanouts
<1>4. b \in Unwired
  BY <1>1, <1>2, <1>3 DEF Inv, CallInv, Visited
<1>5. a = "verifier"
  BY <1>1, <1>4 DEF DependsOn, Unwired
<1>. QED
  BY <1>2, <1>4, <1>5

LEMMA CallFacts ==
    ASSUME Inv, NEW e \in Execs
    PROVE  /\ run \in [Execs -> Run] /\ run[e] \in Run
           /\ pc \in [Execs -> PCs]
           /\ pc[e] # "idle" => run[e].trace \in Traces
           /\ run[e].attempt \in Attempts /\ 1 \in Attempts
BY PlanExecutionAssumption DEF Inv, TypeOK, CallInv, Progress, Run, Attempts

\* One call moves: what is left to show is the store and that call.
LEMMA OneCallMoves ==
    ASSUME Inv, NEW e \in Execs, NEW label \in PCs, NEW locals \in Run,
           UNCHANGED question,
           pc' = [pc EXCEPT ![e] = label], run' = [run EXCEPT ![e] = locals],
           TypeOK => steps' \in [Traces -> [Agents \X Attempts -> Step]]
                     /\ request' \in [Traces -> Stages]
                     /\ history' \in [Traces -> {"none", "blocked", "answered"}],
           StoreHonest', CallInv(e)'
    PROVE  Inv'
<1>1. TypeOK'
  BY CallFacts DEF Inv, TypeOK
<1>2. \A x \in Execs : CallInv(x)'
  BY OtherCalls, CallFacts
<1>. QED
  BY <1>1, <1>2 DEF Inv

-----------------------------------------------------------------------------
(* Steps of execute().                                                     *)

LEMMA SkipStepInv ==
    ASSUME Inv, NEW e \in Execs, NEW a \in Agents, SkipStep(e, a) PROVE Inv'
<1> DEFINE locals == [run[e] EXCEPT !.left = @ \ {a}]
<1>1. pc[e] = "step" /\ AtStep(e, a) /\ ~Runnable(e, a) /\ InPlan(e)
  BY DEF SkipStep, InPlan
<1>2. \/ a \in Unwired
      \/ a = "verifier" /\ Planned(run[e].trace) \cap Unwired # {}
  BY <1>1, RunnableUnlessUnwired
<1>3. locals \in Run /\ run' = [run EXCEPT ![e] = locals] /\ run'[e] = locals
  BY CallFacts DEF SkipStep, Run
<1>4. Planned(run[e].trace)' = Planned(run[e].trace) /\ a # "sql"
  BY <1>2, <1>3, CallFacts DEF Planned, Run, Unwired, SkipStep
<1>5. StoreHonest' /\ steps' \in [Traces -> [Agents \X Attempts -> Step]]
  BY <1>1, CallFacts, SaveStepKeeps DEF SkipStep, StepStatus
<1>6. CallInv(e)'
  <2>1. Progress(e)'
    BY <1>1, <1>3, CallFacts DEF Inv, CallInv, Progress, Run, SkipStep
  <2>2. Visited(e)'
    BY <1>1, <1>2, <1>3, <1>4, CallFacts DEF Inv, CallInv, Visited, InPlan, Run, SkipStep
  <2>3. Complete(e)'
    BY <1>1, <1>2, <1>3, <1>4, CallFacts DEF Inv, CallInv, Complete, Run, SkipStep
  <2>. QED
    BY <2>1, <2>2, <2>3 DEF CallInv
<1>7. pc' = [pc EXCEPT ![e] = "step"] /\ "step" \in PCs
  BY <1>1, CallFacts DEF SkipStep, PCs
<1>. QED
  BY <1>3, <1>5, <1>6, <1>7, OneCallMoves DEF SkipStep, TypeOK

\* Completing a step with a result.
LEMMA CompletedKeeps ==
    ASSUME Inv, NEW e \in Execs, NEW a \in Agents, NEW by \in Execs,
           InPlan(e), AtStep(e, a), UNCHANGED question, pc'[e] = "step",
           NEW more \in SUBSET (Agents \X Attempts),
           run'[e] = [Completed(run[e], a, by) EXCEPT !.ran = more]
    PROVE  run'[e] \in Run /\ CallInv(e)'
<1>0. by # NoExec
  BY PlanExecutionAssumption
<1>1. /\ run'[e].trace = run[e].trace /\ run'[e].left = run[e].left \ {a}
      /\ run'[e].completed = run[e].completed \cup {a}
      /\ run'[e].output = [run[e].output EXCEPT ![a] = by]
      /\ run'[e].warned = run[e].warned /\ run'[e].stage = run[e].stage
      /\ run[e].output \in [Agents -> Execs \cup {NoExec}]
  BY CallFacts DEF Completed, Run
<1>2. run'[e] \in Run
  <2>1. [run[e].output EXCEPT ![a] = by] \in [Agents -> Execs \cup {NoExec}]
    BY <1>1
  <2>2. run[e].left \ {a} \in SUBSET Agents /\ run[e].completed \cup {a} \in SUBSET Agents
    BY CallFacts DEF Run
  <2>3. "succeeded" \in Outcomes("sql")
    BY DEF Outcomes
  <2>. QED
    BY <2>1, <2>2, <2>3, CallFacts DEF Completed, Run
<1>3. Planned(run[e].trace)' = Planned(run[e].trace)
      /\ Planned(run[e].trace) \subseteq Agents
  BY <1>1, PlannedAgents DEF Planned
<1>4. Progress(e)'
  BY <1>1, CallFacts DEF Inv, CallInv, Progress, InPlan
<1>5. Visited(e)'
  BY <1>0, <1>1, <1>3 DEF Inv, CallInv, Visited, InPlan, Agents
<1>6. Complete(e)'
  BY <1>0, <1>1, <1>3 DEF Inv, CallInv, Complete, InPlan
<1>. QED
  BY <1>2, <1>4, <1>5, <1>6 DEF CallInv

LEMMA UseCachedInv ==
    ASSUME Inv, NEW e \in Execs, NEW a \in Agents, UseCached(e, a) PROVE Inv'
<1> DEFINE by == steps[run[e].trace][<<a, run[e].attempt>>].by
<1>1. InPlan(e) /\ AtStep(e, a) /\ pc'[e] = "step" /\ pc' = [pc EXCEPT ![e] = "step"]
  BY CallFacts DEF UseCached, InPlan
<1>2. by \in Execs
  <2>1. run[e].trace \in Traces /\ <<a, run[e].attempt>> \in Agents \X Attempts
    BY CallFacts, <1>1 DEF InPlan
  <2>2. steps[run[e].trace][<<a, run[e].attempt>>] \in Step
    BY <2>1 DEF Inv, TypeOK
  <2>3. steps[run[e].trace][<<a, run[e].attempt>>].status = "succeeded"
    BY DEF UseCached, Cached
  <2>. QED
    BY <2>1, <2>2, <2>3 DEF Inv, StoreHonest, Step
<1>3. run' = [run EXCEPT ![e] = Completed(run[e], a, by)]
  BY DEF UseCached
<1>4. run'[e] = [Completed(run[e], a, by) EXCEPT !.ran = run[e].ran]
  BY <1>3, CallFacts DEF Completed, Run
<1>5. run[e].ran \in SUBSET (Agents \X Attempts)
  BY CallFacts DEF Run
<1>6. run'[e] \in Run /\ CallInv(e)'
  BY <1>1, <1>2, <1>4, <1>5, CompletedKeeps DEF UseCached
<1>7. run' = [run EXCEPT ![e] = run'[e]]
  BY <1>3, CallFacts
<1>8. StoreHonest'
  BY DEF UseCached, storeVars, Inv, StoreHonest
<1>. QED
  BY <1>1, <1>6, <1>7, <1>8, OneCallMoves DEF UseCached, storeVars, TypeOK, PCs

LEMMA RunnerReturnsInv ==
    ASSUME Inv, NEW e \in Execs, NEW a \in Agents, RunnerReturns(e, a) PROVE Inv'
<1> DEFINE more == run[e].ran \cup {<<a, run[e].attempt>>}
<1>1. InPlan(e) /\ AtStep(e, a) /\ pc'[e] = "step" /\ pc' = [pc EXCEPT ![e] = "step"]
  BY CallFacts DEF RunnerReturns, InPlan, Goto
<1>2. run' = [run EXCEPT ![e] = [Completed(run[e], a, e) EXCEPT !.ran = more]]
      /\ run'[e] = [Completed(run[e], a, e) EXCEPT !.ran = more]
  BY CallFacts DEF RunnerReturns, Completed, Run
<1>3. more \in SUBSET (Agents \X Attempts)
  BY CallFacts DEF Run
<1>4. run'[e] \in Run /\ CallInv(e)'
  BY <1>1, <1>2, <1>3, CompletedKeeps DEF RunnerReturns
<1>5. run' = [run EXCEPT ![e] = run'[e]]
  BY <1>2, CallFacts
<1>6. StoreHonest' /\ steps' \in [Traces -> [Agents \X Attempts -> Step]]
  BY <1>1, CallFacts, SaveStepKeeps, PlanExecutionAssumption DEF RunnerReturns, StepStatus, InPlan
<1>. QED
  BY <1>1, <1>4, <1>5, <1>6, OneCallMoves DEF RunnerReturns, TypeOK, PCs

LEMMA StartRunnerInv ==
    ASSUME Inv, NEW e \in Execs, NEW a \in Agents, StartRunner(e, a) PROVE Inv'
<1>1. pc[e] = "step" /\ pc' = [pc EXCEPT ![e] = "runner"] /\ pc'[e] = "runner"
  BY CallFacts DEF StartRunner, Goto
<1>2. run' = [run EXCEPT ![e] = run[e]] /\ run'[e] = run[e]
  BY CallFacts DEF StartRunner
<1>3. Planned(run[e].trace)' = Planned(run[e].trace)
  BY <1>2 DEF StartRunner, Planned
<1>4. CallInv(e)'
  BY <1>1, <1>2, <1>3 DEF Inv, CallInv, Progress, Visited, Complete, InPlan
<1>5. StoreHonest'
  BY DEF StartRunner, storeVars, Inv, StoreHonest
<1>. QED
  BY <1>1, <1>2, <1>4, <1>5, CallFacts, OneCallMoves
     DEF StartRunner, storeVars, TypeOK, PCs

LEMMA RunnerFailsInv ==
    ASSUME Inv, NEW e \in Execs, NEW a \in Agents, NEW why \in Outcomes(a),
           RunnerFails(e, a, why)
    PROVE  Inv'
<1>1. pc[e] = "runner" /\ run[e].trace \in Traces /\ AtStep(e, a)
  BY CallFacts DEF RunnerFails
<1>2. why \in Outcomes("sql") /\ MaxAttempts(run[e].trace) \in Attempts
  BY <1>1, PlanExecutionAssumption DEF Outcomes, MaxAttempts, Inv, TypeOK
<1>3. PICK label \in {"step", "record"}, n \in Attempts :
        /\ pc' = [pc EXCEPT ![e] = label]
        /\ run' = [run EXCEPT ![e] = [run[e] EXCEPT !.attempt = n, !.why = why]]
  <2>1. CASE run[e].attempt < MaxAttempts(run[e].trace)
    <3>1. run[e].attempt + 1 \in Attempts
      BY <1>2, <2>1, CallFacts DEF Attempts
    <3>2. /\ pc' = [pc EXCEPT ![e] = "step"]
          /\ run' = [run EXCEPT ![e] =
                       [run[e] EXCEPT !.attempt = run[e].attempt + 1, !.why = why]]
      BY <1>2, <2>1, CallFacts DEF RunnerFails, Goto, Attempts
    <3>. QED
      BY <3>1, <3>2, Zenon
  <2>2. CASE run[e].attempt = MaxAttempts(run[e].trace)
    <3>1. /\ pc' = [pc EXCEPT ![e] = "record"]
          /\ run' = [run EXCEPT ![e] = [run[e] EXCEPT !.attempt = 1, !.why = why]]
      BY <1>2, <2>2, CallFacts DEF RunnerFails, Goto, Attempts
    <3>. QED
      BY <3>1, CallFacts, Zenon
  <2>3. run[e].attempt < MaxAttempts(run[e].trace) \/ run[e].attempt = MaxAttempts(run[e].trace)
    BY DEF RunnerFails
  <2>. QED
    BY <2>1, <2>2, <2>3
<1>4. run'[e] = [run[e] EXCEPT !.attempt = n, !.why = why] /\ pc'[e] = label
  BY <1>3, CallFacts
<1>5. run'[e] \in Run
  BY <1>2, <1>4, CallFacts DEF Run
<1>6. /\ run'[e].trace = run[e].trace /\ run'[e].left = run[e].left
      /\ run'[e].completed = run[e].completed /\ run'[e].output = run[e].output
      /\ run'[e].warned = run[e].warned /\ run'[e].stage = run[e].stage
  BY <1>4, CallFacts DEF Run
<1>7. Planned(run[e].trace)' = Planned(run[e].trace)
  BY <1>6 DEF RunnerFails, Planned
<1>8. CallInv(e)'
  BY <1>1, <1>4, <1>6, <1>7 DEF Inv, CallInv, Progress, Visited, Complete, InPlan
<1>9. PICK status \in StepStatus \ {"succeeded"} :
        SaveStep(run[e].trace, a, run[e].attempt, status, NoExec)
  BY DEF RunnerFails, StepStatus
<1>10. StoreHonest' /\ steps' \in [Traces -> [Agents \X Attempts -> Step]]
  BY <1>1, <1>9, CallFacts, SaveStepKeeps
<1>. QED
  BY <1>3, <1>4, <1>5, <1>8, <1>10, OneCallMoves DEF RunnerFails, TypeOK, PCs

LEMMA RecordFailureInv ==
    ASSUME Inv, NEW e \in Execs, NEW a \in Agents, RecordFailure(e, a) PROVE Inv'
<1> DEFINE label == IF a = "sql" THEN "skip_rest" ELSE "step"
<1>1. pc[e] = "record" /\ run[e].trace \in Traces /\ AtStep(e, a)
  BY CallFacts DEF RecordFailure
<1>2. /\ run' = [run EXCEPT ![e] = run'[e]] /\ run'[e].trace = run[e].trace
      /\ run'[e].left = run[e].left \ {a} /\ run'[e].warned = TRUE
      /\ run'[e].completed = run[e].completed \cup ({a} \ {"sql"})
      /\ run'[e].output = run[e].output /\ run'[e].stage = run[e].stage
  BY CallFacts DEF RecordFailure, Run
<1>3. run'[e] \in Run
  <2> DEFINE denied == run[e].why = "deny_statement"
             blocked == run[e].blocked \/ run[e].why \in {"deny_statement", "deny_object"}
  <2>1. run'[e] = [run[e] EXCEPT
                     !.left = run[e].left \ {a}, !.why = "succeeded", !.warned = TRUE,
                     !.denied = denied, !.blocked = blocked,
                     !.completed = run[e].completed \cup ({a} \ {"sql"})]
    BY CallFacts DEF RecordFailure
  <2>2. denied \in BOOLEAN /\ blocked \in BOOLEAN
    OBVIOUS
  <2>3. /\ run[e].left \ {a} \in SUBSET Agents
        /\ run[e].completed \cup ({a} \ {"sql"}) \in SUBSET Agents
    BY CallFacts DEF Run
  <2>4. "succeeded" \in Outcomes("sql")
    BY DEF Outcomes
  <2> HIDE DEF denied, blocked
  <2>. QED
    BY <2>1, <2>2, <2>3, <2>4, CallFacts DEF Run
<1>4. pc' = [pc EXCEPT ![e] = label] /\ pc'[e] = label /\ label \in PCs
  BY CallFacts DEF RecordFailure, Goto, PCs
<1>5. Planned(run[e].trace)' = Planned(run[e].trace)
  BY <1>2 DEF RecordFailure, Planned
<1>6. CallInv(e)'
  BY <1>1, <1>2, <1>4, <1>5 DEF Inv, CallInv, Progress, Visited, Complete, InPlan
<1>7. PICK status \in StepStatus \ {"succeeded"} :
        SaveStep(run[e].trace, a, 1, status, NoExec)
  BY DEF RecordFailure, StepStatus
<1>8. StoreHonest' /\ steps' \in [Traces -> [Agents \X Attempts -> Step]]
  BY <1>1, <1>7, CallFacts, SaveStepKeeps
<1>. QED
  BY <1>2, <1>3, <1>4, <1>6, <1>8, OneCallMoves DEF RecordFailure, TypeOK

LEMMA SkipRestInv ==
    ASSUME Inv, NEW e \in Execs, NEW a \in Agents, SkipRest(e, a) PROVE Inv'
<1> DEFINE locals == [run[e] EXCEPT !.left = @ \ {a}]
<1>1. pc[e] = "skip_rest" /\ run[e].trace \in Traces
  BY CallFacts DEF SkipRest
<1>2. locals \in Run /\ run' = [run EXCEPT ![e] = locals] /\ run'[e] = locals
  BY CallFacts DEF SkipRest, Run
<1>3. pc' = [pc EXCEPT ![e] = "skip_rest"] /\ "skip_rest" \in PCs /\ pc'[e] = "skip_rest"
  BY <1>1, CallFacts DEF SkipRest, PCs
<1>4. CallInv(e)'
  BY <1>1, <1>2, <1>3, CallFacts DEF Inv, CallInv, Progress, Visited, Complete, InPlan, Run
<1>5. StoreHonest' /\ steps' \in [Traces -> [Agents \X Attempts -> Step]]
  BY <1>1, CallFacts, SaveStepKeeps DEF SkipRest, StepStatus
<1>. QED
  BY <1>2, <1>3, <1>4, <1>5, OneCallMoves DEF SkipRest, TypeOK

-----------------------------------------------------------------------------
(* The other steps of answer(): none touches the steps of the store.       *)

LEMMA BeginInv ==
    ASSUME Inv, NEW e \in Execs, NEW t \in Traces, Begin(e, t) PROVE Inv'
<1> DEFINE locals == [run[e] EXCEPT !.trace = t]
<1>1. pc[e] = "idle" /\ pc' = [pc EXCEPT ![e] = "draft"] /\ pc'[e] = "draft"
  BY CallFacts DEF Begin, Goto
<1>2. locals \in Run /\ run' = [run EXCEPT ![e] = locals] /\ run'[e] = locals
  BY CallFacts DEF Begin, Run
<1>3. CallInv(e)'
  BY <1>1, <1>2, CallFacts DEF Inv, CallInv, Progress, Visited, Complete, InPlan, Run
<1>4. StoreHonest'
  BY DEF Begin, Inv, StoreHonest
<1>. QED
  BY <1>1, <1>2, <1>3, <1>4, OneCallMoves DEF Begin, TypeOK, PCs, Stages

LEMMA AnswerInv ==
    ASSUME Inv, NEW e \in Execs, AnswerActions(e) PROVE Inv'
<1> DEFINE Moves(label, locals) ==
        /\ pc' = [pc EXCEPT ![e] = label] /\ pc'[e] = label /\ label \in PCs
        /\ run' = [run EXCEPT ![e] = locals] /\ run'[e] = locals /\ locals \in Run
<1>0. StoreHonest' /\ (TypeOK => steps' \in [Traces -> [Agents \X Attempts -> Step]])
  <2>1. UNCHANGED steps
    BY DEF AnswerActions, Refuse, Draft, PlanEnds, DenyAnswer, AssembleAnswer,
           SaveHistory, Finish, Raise, storeVars
  <2>. QED
    BY <2>1 DEF Inv, StoreHonest, TypeOK
<1>1. CASE Refuse(e)
  <2>1. Moves("save_history",
              [run[e] EXCEPT !.denied = TRUE, !.blocked = TRUE, !.warned = TRUE])
    BY <1>1, CallFacts DEF Refuse, Goto, PCs, Run
  <2>2. CallInv(e)'
    BY <1>1, <2>1, CallFacts
       DEF Refuse, Inv, CallInv, Progress, Visited, Complete, InPlan, Run
  <2>. QED
    BY <1>0, <1>1, <2>1, <2>2, OneCallMoves DEF Refuse, storeVars, TypeOK
<1>2. CASE Draft(e)
  <2>1. Moves("step", [run[e] EXCEPT !.left = Planned(run[e].trace)])
    BY <1>2, CallFacts, PlannedAgents DEF Draft, Goto, PCs, Run
  <2>2. CallInv(e)'
    <3>1. /\ run'[e].trace = run[e].trace /\ run'[e].left = Planned(run[e].trace)
          /\ run'[e].warned = run[e].warned /\ run'[e].stage = run[e].stage
      BY <2>1, CallFacts DEF Run
    <3>2. Planned(run[e].trace)' = Planned(run[e].trace)
      BY <1>2, <3>1 DEF Draft, Planned
    <3>. QED
      BY <1>2, <2>1, <3>1, <3>2, CallFacts
         DEF Draft, Inv, CallInv, Progress, Visited, Complete, InPlan
  <2>. QED
    BY <1>0, <1>2, <2>1, <2>2, OneCallMoves DEF Draft, storeVars, TypeOK
<1>3. CASE PlanEnds(e)
  <2>1. Moves("assemble", run[e])
    BY <1>3, CallFacts DEF PlanEnds, Goto, PCs
  <2>2. CallInv(e)'
    BY <1>3, <2>1, CallFacts
       DEF PlanEnds, Inv, CallInv, Progress, Visited, Complete, InPlan, Planned
  <2>. QED
    BY <1>0, <1>3, <2>1, <2>2, OneCallMoves DEF PlanEnds, storeVars, TypeOK
<1>4. CASE DenyAnswer(e)
  <2>1. Moves("save_history", run[e])
    BY <1>4, CallFacts DEF DenyAnswer, Goto, PCs
  <2>2. CallInv(e)'
    BY <1>4, <2>1, CallFacts
       DEF DenyAnswer, Inv, CallInv, Progress, Visited, Complete, InPlan, Planned
  <2>. QED
    BY <1>0, <1>4, <2>1, <2>2, OneCallMoves DEF DenyAnswer, storeVars, TypeOK
<1>5. CASE AssembleAnswer(e)
  <2>1. PICK warned \in BOOLEAN, blocked \in BOOLEAN, sql \in {"none", "approved", "unapproved"} :
          /\ run' = [run EXCEPT ![e] = [run[e] EXCEPT
                       !.warned = warned, !.blocked = blocked, !.sql = sql]]
          /\ run[e].warned => warned
    <3> DEFINE ran == IF "sql" \notin Planned(run[e].trace) THEN "none"
                      ELSE IF run[e].output["sql"] # NoExec THEN "approved"
                      ELSE "unapproved"
    <3>1. ran \in {"none", "approved", "unapproved"}
      OBVIOUS
    <3>2. PICK extra \in BOOLEAN, provider \in BOOLEAN :
            run' = [run EXCEPT ![e] = [run[e] EXCEPT
                      !.warned = run[e].warned \/ extra \/ provider,
                      !.blocked = run[e].blocked \/ provider, !.sql = ran]]
      BY <1>5, Zenon DEF AssembleAnswer
    <3> HIDE DEF ran
    <3>3. /\ (run[e].warned \/ extra \/ provider) \in BOOLEAN
          /\ (run[e].blocked \/ provider) \in BOOLEAN
      OBVIOUS
    <3>. QED
      BY <3>1, <3>2, <3>3, Zenon
  <2>2. Moves("save_history", [run[e] EXCEPT !.warned = warned, !.blocked = blocked, !.sql = sql])
    <3>1. [run[e] EXCEPT !.warned = warned, !.blocked = blocked, !.sql = sql] \in Run
      BY CallFacts DEF Run
    <3>. QED
      BY <1>5, <2>1, <3>1, CallFacts DEF AssembleAnswer, Goto, PCs
  <2>3. CallInv(e)'
    BY <1>5, <2>1, <2>2, CallFacts
       DEF AssembleAnswer, Inv, CallInv, Progress, Visited, Complete, InPlan, Run, Planned
  <2>. QED
    BY <1>0, <1>5, <2>2, <2>3, OneCallMoves DEF AssembleAnswer, storeVars, TypeOK
<1>6. CASE SaveHistory(e)
  <2>1. Moves("finish", run[e])
    BY <1>6, CallFacts DEF SaveHistory, Goto, PCs
  <2>2. CallInv(e)'
    BY <1>6, <2>1, CallFacts
       DEF SaveHistory, Inv, CallInv, Progress, Visited, Complete, InPlan, Planned
  <2>. QED
    BY <1>0, <1>6, <2>1, <2>2, OneCallMoves DEF SaveHistory, TypeOK
<1>7. CASE Finish(e)
  <2>1. PICK stage \in {"succeeded", "degraded", "failed"} :
          /\ run' = [run EXCEPT ![e].stage = stage]
          /\ request' = [request EXCEPT ![run[e].trace] = stage]
          /\ stage = "succeeded" => ~run[e].warned
    <3> DEFINE final == IF run[e].blocked THEN "failed"
                        ELSE IF run[e].warned THEN "degraded" ELSE "succeeded"
    <3>1. /\ final \in {"succeeded", "degraded", "failed"}
          /\ final = "succeeded" => ~run[e].warned
      OBVIOUS
    <3>2. /\ run' = [run EXCEPT ![e].stage = final]
          /\ request' = [request EXCEPT ![run[e].trace] = final]
      BY <1>7, Zenon DEF Finish
    <3> HIDE DEF final
    <3>. QED
      BY <3>1, <3>2, Zenon
  <2>2. Moves("done", [run[e] EXCEPT !.stage = stage])
    <3>1. [run[e] EXCEPT !.stage = stage] \in Run
      BY <2>1, CallFacts DEF Run, Stages
    <3>. QED
      BY <1>7, <2>1, <3>1, CallFacts DEF Finish, Goto, PCs
  <2>3. CallInv(e)'
    BY <1>7, <2>1, <2>2, CallFacts
       DEF Finish, Inv, CallInv, Progress, Visited, Complete, InPlan, Run, Planned
  <2>4. TypeOK => request' \in [Traces -> Stages]
    BY <2>1 DEF TypeOK, Stages
  <2>. QED
    BY <1>0, <1>7, <2>2, <2>3, <2>4, OneCallMoves DEF Finish, TypeOK
<1>8. CASE Raise(e)
  <2>1. Moves("raised", [run[e] EXCEPT !.stage = "failed"])
    <3>1. [run[e] EXCEPT !.stage = "failed"] \in Run
      BY CallFacts DEF Run, Stages
    <3>. QED
      BY <1>8, <3>1, CallFacts DEF Raise, Goto, PCs
  <2>2. CallInv(e)'
    BY <1>8, <2>1, CallFacts
       DEF Raise, Inv, CallInv, Progress, Visited, Complete, InPlan, Run
  <2>. QED
    BY <1>0, <1>8, <2>1, <2>2, OneCallMoves DEF Raise, TypeOK, Stages
<1>. QED
  BY <1>1, <1>2, <1>3, <1>4, <1>5, <1>6, <1>7, <1>8 DEF AnswerActions

LEMMA NextInv == Inv /\ [Next]_vars => Inv'
<1>1. ASSUME Inv, UNCHANGED vars PROVE Inv'
  <2>1. TypeOK' /\ StoreHonest'
    BY <1>1 DEF vars, Inv, TypeOK, StoreHonest
  <2>2. \A e \in Execs : CallInv(e)'
    BY <1>1, OtherCalls DEF vars
  <2>. QED
    BY <2>1, <2>2 DEF Inv
<1>2. ASSUME Inv, Next PROVE Inv'
  BY <1>2, SkipStepInv, UseCachedInv, StartRunnerInv, RunnerReturnsInv,
     RunnerFailsInv, RecordFailureInv, SkipRestInv, BeginInv, AnswerInv
     DEF Next, StepActions
<1>. QED
  BY <1>1, <1>2

-----------------------------------------------------------------------------
\* The inductive invariant: types, an honest store, and for every call what
\* the loop has left behind it.
THEOREM PlanInv == Spec => []Inv
<1>. QED
  BY InitInv, NextInv, PTL DEF Spec

\* The type invariant of the orchestrator.
THEOREM PlanTypeCorrect == Spec => []TypeOK
<1>1. Inv => TypeOK
  BY DEF Inv
<1>. QED
  BY <1>1, PlanInv, PTL

\* VR-02-002, for any number of calls, attempts and traces, overlapping or not.
THEOREM FanoutIsBehindSql == Spec => []FanoutAfterSql
<1>1. ASSUME Inv PROVE FanoutAfterSql
  <2> SUFFICES ASSUME NEW e \in Execs, NEW a \in Fanouts, pc[e] = "runner",
                      AtStep(e, a), "sql" \in Planned(run[e].trace)
               PROVE  run[e].output["sql"] # NoExec
    BY DEF FanoutAfterSql
  <2>1. "sql" \in run[e].left => Rank[a] <= Rank["sql"]
    BY DEF AtStep
  <2>2. Rank["sql"] = 1 /\ Rank[a] \in 2..5
    BY DEF Rank, Fanouts, Agents
  <2>3. "sql" \notin run[e].left
    BY <2>1, <2>2
  <2>. QED
    BY <1>1, <2>3 DEF Inv, CallInv, Visited, InPlan
<1>. QED
  BY <1>1, PlanInv, PTL

\* A request reported as succeeded has a result from every wired agent.
THEOREM SucceededAreComplete == Spec => []SucceededIsComplete
<1>1. ASSUME Inv PROVE SucceededIsComplete
  BY <1>1 DEF Inv, CallInv, Progress, Complete, SucceededIsComplete
<1>. QED
  BY <1>1, PlanInv, PTL
-----------------------------------------------------------------------------
(***************************************************************************)
(* Replays: calls of a trace that come one after the other.  The one that  *)
(* is under way is alone (Alone), so what it has not found in the store is *)
(* not there (Misses) and what it has found stays (Found).  It records a   *)
(* failure or a skip only where there is no success: a step that cannot    *)
(* run never had one, and no step has one when that of SQL has none        *)
(* (Results).                                                              *)
(***************************************************************************)

Succeeded(t, a, n) == steps[t][<<a, n>>].status = "succeeded"
Succeeds(t, a, n) == steps'[t][<<a, n>>].status = "succeeded"

\* Only steps that can run have results, and others only behind that of SQL.
Results(t) ==
    \A a \in Agents, n \in Attempts : Succeeded(t, a, n) =>
        /\ a \notin Unwired
        /\ a = "verifier" => Planned(t) \cap Unwired = {}
        /\ a # "sql" /\ "sql" \in Planned(t) =>
             \E m \in 1..MaxAttempts(t) : Succeeded(t, "sql", m)

\* Where a call is in its plan: a step is retried only if it can run.
Trying(e) ==
    /\ pc[e] = "idle" => run[e] = Fresh
    /\ pc[e] # "idle" =>
         /\ run[e].left \subseteq Planned(run[e].trace)
         /\ run[e].attempt <= MaxAttempts(run[e].trace)
    /\ run[e].completed \cap Unwired = {}
    /\ pc[e] \in {"draft", "record"} => run[e].attempt = 1
    /\ pc[e] \in {"runner", "record"} \/ (pc[e] = "step" /\ run[e].attempt > 1) =>
         \A a \in Agents : AtStep(e, a) => Runnable(e, a)
    /\ run[e].denied => run[e].blocked

\* What a call has looked for and not found is not in the store.
Misses(e) ==
    LET t == run[e].trace IN
    /\ pc[e] \in {"step", "runner"} =>
         \A a \in Agents, m \in Attempts :
             AtStep(e, a) /\ m < run[e].attempt => ~Succeeded(t, a, m)
    /\ pc[e] = "runner" =>
         \A a \in Agents : AtStep(e, a) => ~Succeeded(t, a, run[e].attempt)
    /\ pc[e] = "record" =>
         \A a \in Agents, m \in 1..MaxAttempts(t) : AtStep(e, a) => ~Succeeded(t, a, m)
    /\ pc[e] = "skip_rest" =>
         /\ "sql" \in Planned(t) /\ "sql" \notin run[e].left
         /\ \A m \in 1..MaxAttempts(t) : ~Succeeded(t, "sql", m)

\* A SQL result it uses and the results it obtained are there.
Found(e) ==
    LET t == run[e].trace IN
    /\ run[e].output["sql"] # NoExec => \E m \in 1..MaxAttempts(t) : Succeeded(t, "sql", m)
    /\ \A k \in run[e].ran : steps[t][k] = [status |-> "succeeded", by |-> e]

\* Its history record is the one its request will go with.
Recorded(e) ==
    pc[e] = "finish" => (history[run[e].trace] = "blocked" => run[e].blocked)

InTurn(e) == run[e].trace \in Traces /\ ~Overlaps(run[e].trace)

Alone ==
    \A e, x \in Execs : InTurn(e) /\ run[x].trace = run[e].trace =>
        e = x \/ Ended(e) \/ Ended(x)

Replaying(e) == Trying(e) /\ (InTurn(e) => Misses(e) /\ Found(e) /\ Recorded(e))

Replays ==
    /\ Alone
    /\ \A t \in Traces : ~Overlaps(t) => Results(t)
    /\ \A e \in Execs : Replaying(e)

ReplayInv == Inv /\ Replays /\ RequestSettles

\* A step replaces no record of a success of the trace.
Keeps(t) ==
    \A k \in Agents \X Attempts :
        steps[t][k].status = "succeeded" => steps'[t][k] = steps[t][k]

-----------------------------------------------------------------------------
(* What a save does to the successes of its trace.                         *)

LEMMA FailureKeeps ==
    ASSUME Inv, NEW t \in Traces, NEW a \in Agents, NEW n \in Attempts,
           NEW status \in StepStatus \ {"succeeded"}, NEW by,
           SaveStep(t, a, n, status, by), ~Succeeded(t, a, n)
    PROVE  /\ Keeps(t)
           /\ \A b \in Agents, m \in Attempts : Succeeds(t, b, m) <=> Succeeded(t, b, m)
           /\ \A u \in Traces \ {t} : steps'[u] = steps[u]
<1>1. steps \in [Traces -> [Agents \X Attempts -> Step]]
  BY DEF Inv, TypeOK
<1>2. /\ steps'[t][<<a, n>>].status = status
      /\ \A k \in Agents \X Attempts : k # <<a, n>> => steps'[t][k] = steps[t][k]
      /\ \A u \in Traces \ {t} : steps'[u] = steps[u]
  BY <1>1 DEF SaveStep
<1>. QED
  BY <1>2 DEF Keeps, Succeeded, Succeeds

LEMMA SuccessKeeps ==
    ASSUME Inv, NEW t \in Traces, NEW a \in Agents, NEW n \in Attempts, NEW by,
           SaveStep(t, a, n, "succeeded", by), ~Succeeded(t, a, n)
    PROVE  /\ Keeps(t)
           /\ \A b \in Agents, m \in Attempts :
                Succeeds(t, b, m) <=> Succeeded(t, b, m) \/ <<b, m>> = <<a, n>>
           /\ steps'[t][<<a, n>>] = [status |-> "succeeded", by |-> by]
           /\ \A u \in Traces \ {t} : steps'[u] = steps[u]
<1>1. steps \in [Traces -> [Agents \X Attempts -> Step]]
  BY DEF Inv, TypeOK
<1>2. /\ steps'[t][<<a, n>>] = [status |-> "succeeded", by |-> by]
      /\ \A k \in Agents \X Attempts : k # <<a, n>> => steps'[t][k] = steps[t][k]
      /\ \A u \in Traces \ {t} : steps'[u] = steps[u]
  BY <1>1 DEF SaveStep
<1>. QED
  BY <1>2 DEF Keeps, Succeeded, Succeeds

LEMMA OneAtStep ==
    ASSUME NEW e \in Execs, NEW a \in Agents, NEW b \in Agents, AtStep(e, a), AtStep(e, b)
    PROVE  a = b
<1>1. Rank[a] <= Rank[b] /\ Rank[b] <= Rank[a]
  BY DEF AtStep
<1>. QED
  BY <1>1 DEF Rank, Agents, Fanouts

LEMMA Bounds ==
    ASSUME Inv
    PROVE  /\ \A t \in Traces : MaxAttempts(t) \in Attempts /\ 1..MaxAttempts(t) \subseteq Attempts
           /\ \A e \in Execs : run[e].attempt \in Attempts /\ run[e].ran \subseteq Agents \X Attempts
           /\ "sql" \in Agents
BY CallFacts, PlanExecutionAssumption DEF Inv, TypeOK, MaxAttempts, Attempts, Agents, Run

-----------------------------------------------------------------------------
(* One call of a trace moves.                                              *)

Still(e) == \A x \in Execs \ {e} : pc'[x] = pc[x] /\ run'[x] = run[x]

\* The others keep what they know: they are at another trace, or have ended.
LEMMA OthersKeep ==
    ASSUME ReplayInv, NEW e \in Execs, ~Ended(e), UNCHANGED question, Still(e),
           \A t \in Traces \ {run[e].trace} :
               steps'[t] = steps[t] /\ history'[t] = history[t],
           InTurn(e) => Keeps(run[e].trace),
           NEW x \in Execs \ {e}
    PROVE  Replaying(x)'
<1>1. pc'[x] = pc[x] /\ run'[x] = run[x]
  BY DEF Still
<1>2. Replaying(x)
  BY DEF ReplayInv, Replays
<1>3. Trying(x)'
  BY <1>1, <1>2 DEF Replaying, Trying, AtStep, Runnable, DependsOn, Planned, MaxAttempts
<1>4. ASSUME InTurn(x)' PROVE Misses(x)' /\ Found(x)' /\ Recorded(x)'
  <2> DEFINE t == run[x].trace
  <2>0. t \in Traces /\ InTurn(x) /\ Misses(x) /\ Found(x) /\ Recorded(x)
    BY <1>1, <1>2, <1>4 DEF InTurn, Overlaps, Replaying
  <2>1. CASE t # run[e].trace
    <3>1. steps'[t] = steps[t] /\ history'[t] = history[t]
      BY <2>0, <2>1
    <3>2. Misses(x)'
      BY <1>1, <2>0, <3>1 DEF Misses, Succeeded, AtStep, Planned, MaxAttempts
    <3>3. Found(x)'
      BY <1>1, <2>0, <3>1 DEF Found, Succeeded, MaxAttempts
    <3>4. Recorded(x)'
      BY <1>1, <2>0, <3>1 DEF Recorded
    <3>. QED
      BY <3>2, <3>3, <3>4
  <2>2. CASE t = run[e].trace
    <3>1. InTurn(e)
      BY <2>0, <2>2 DEF InTurn
    <3>2. Ended(x)
      BY <2>0, <2>2 DEF ReplayInv, Replays, Alone
    <3>3. Misses(x)' /\ Recorded(x)'
      BY <1>1, <3>2 DEF Misses, Recorded, Ended
    <3>4. \A k \in Agents \X Attempts :
            steps[t][k].status = "succeeded" => steps'[t][k] = steps[t][k]
      BY <2>2, <3>1 DEF Keeps
    <3>5. \A m \in 1..MaxAttempts(t) : Succeeded(t, "sql", m) => steps'[t][<<"sql", m>>].status = "succeeded"
      BY <2>0, <3>4, Bounds DEF ReplayInv, Succeeded
    <3>6. \A k \in run[x].ran : steps'[t][k] = [status |-> "succeeded", by |-> x]
      BY <2>0, <3>4, Bounds DEF ReplayInv, Found
    <3>7. Found(x)'
      BY <1>1, <2>0, <3>5, <3>6 DEF Found, Succeeded, MaxAttempts
    <3>. QED
      BY <3>3, <3>7
  <2>. QED
    BY <2>1, <2>2
<1>. QED
  BY <1>3, <1>4 DEF Replaying

\* What is left to show of a step: the successes of its trace, and its call.
LEMMA OneCallReplays ==
    ASSUME ReplayInv, NEW e \in Execs, ~Ended(e), UNCHANGED question, Still(e),
           run[e].trace \in Traces, run'[e].trace = run[e].trace,
           \A t \in Traces \ {run[e].trace} :
               steps'[t] = steps[t] /\ history'[t] = history[t],
           InTurn(e) => Keeps(run[e].trace) /\ Results(run[e].trace)',
           Replaying(e)'
    PROVE  Replays' /\ (\A t \in Traces : ~Overlaps(t) => Keeps(t))
<1>1. \A x \in Execs : Replaying(x)'
  BY OthersKeep
<1>2. Alone'
  <2> SUFFICES ASSUME NEW x \in Execs, NEW y \in Execs, InTurn(x)',
                      run'[y].trace = run'[x].trace, x # y
               PROVE  Ended(x)' \/ Ended(y)'
    BY DEF Alone
  <2>1. run'[x].trace = run[x].trace /\ run'[y].trace = run[y].trace
    BY DEF Still
  <2>2. InTurn(x)
    BY <2>1 DEF InTurn, Overlaps
  <2>3. Ended(x) \/ Ended(y)
    BY <2>1, <2>2 DEF ReplayInv, Replays, Alone
  <2>. QED
    BY <2>3 DEF Still, Ended
<1>3. \A t \in Traces : ~Overlaps(t) => Keeps(t)
  BY DEF InTurn, Keeps
<1>4. \A t \in Traces : ~Overlaps(t)' => Results(t)'
  <2> SUFFICES ASSUME NEW t \in Traces, ~Overlaps(t) PROVE Results(t)'
    BY DEF Overlaps
  <2>1. CASE t = run[e].trace
    BY <2>1 DEF InTurn
  <2>2. CASE t # run[e].trace
    <3>1. Results(t) /\ steps'[t] = steps[t]
      BY <2>2 DEF ReplayInv, Replays
    <3>. QED
      BY <3>1 DEF Results, Succeeded, Planned, MaxAttempts
  <2>. QED
    BY <2>1, <2>2
<1>. QED
  BY <1>1, <1>2, <1>3, <1>4 DEF Replays

\* A request rests once its calls have: the one that ends last sets its state.
LEMMA Settles ==
    ASSUME ReplayInv, NEW e \in Execs, NEW t \in Traces, UNCHANGED question, Still(e),
           run'[e].trace = t, run[e].trace \in {t, NoTrace},
           \A u \in Traces \ {t} : request'[u] = request[u] /\ history'[u] = history[u],
           Ended(e)' =>
               /\ Reported(t, e)'
               /\ history'[t] = "blocked" => Overlaps(t) \/ request'[t] = "failed"
    PROVE  RequestSettles'
<1> SUFFICES ASSUME NEW u \in Traces, Calls(u)' # {}, \A x \in Calls(u)' : Ended(x)'
             PROVE  /\ \E x \in Calls(u)' : Reported(u, x)'
                    /\ history'[u] = "blocked" => Overlaps(u) \/ request'[u] = "failed"
  BY DEF RequestSettles, Overlaps
<1>1. CASE u = t
  <2>1. e \in Calls(u)'
    BY <1>1 DEF Calls
  <2>. QED
    BY <1>1, <2>1
<1>2. CASE u # t
  <2>1. e \notin Calls(u) /\ e \notin Calls(u)'
    BY <1>2, PlanExecutionAssumption DEF Calls
  <2>2. \A x \in Execs : x \in Calls(u)' <=> x \in Calls(u)
    BY <2>1 DEF Calls, Still
  <2>3. Calls(u) # {} /\ \A x \in Calls(u) : Ended(x)
    BY <2>1, <2>2 DEF Calls, Still, Ended
  <2>4. PICK x \in Calls(u) : Reported(u, x)
    BY <2>3 DEF ReplayInv, RequestSettles
  <2>5. x \in Calls(u)' /\ Reported(u, x)'
    BY <1>2, <2>1, <2>2, <2>4 DEF Reported, Calls, Still
  <2>. QED
    BY <1>2, <2>3, <2>5 DEF ReplayInv, RequestSettles
<1>. QED
  BY <1>1, <1>2

-----------------------------------------------------------------------------
(* Steps of execute().                                                     *)

\* A step of the plan leaves the request and its history alone.
LEMMA StepSettles ==
    ASSUME ReplayInv, NEW e \in Execs, ~Ended(e)', ~Ended(e), UNCHANGED <<question, request, history>>,
           Still(e), run'[e].trace = run[e].trace
    PROVE  RequestSettles'
BY Settles, CallFacts DEF Ended, ReplayInv

\* What the successes of a trace are decides what Results says of it.
LEMMA ResultsStay ==
    ASSUME ReplayInv, NEW t \in Traces, ~Overlaps(t), UNCHANGED question,
           \A b \in Agents, m \in Attempts : Succeeds(t, b, m) <=> Succeeded(t, b, m)
    PROVE  Results(t)'
<1>1. Results(t) /\ 1..MaxAttempts(t) \subseteq Attempts /\ "sql" \in Agents
  BY Bounds DEF ReplayInv, Replays
<1>. QED
  BY <1>1 DEF Results, Planned, MaxAttempts, Succeeded, Succeeds

\* Success of SQL and the results of the call are still there.
LEMMA FoundStays ==
    ASSUME ReplayInv, NEW e \in Execs, InTurn(e), UNCHANGED question,
           Keeps(run[e].trace), run'[e].trace = run[e].trace,
           run'[e].output["sql"] = run[e].output["sql"], run'[e].ran = run[e].ran
    PROVE  Found(e)'
<1> DEFINE t == run[e].trace
<1>1. Found(e) /\ 1..MaxAttempts(t) \subseteq Attempts /\ "sql" \in Agents
      /\ run[e].ran \subseteq Agents \X Attempts
  BY Bounds DEF ReplayInv, Replays, Replaying, InTurn
<1>2. \A m \in 1..MaxAttempts(t) : Succeeded(t, "sql", m) => steps'[t][<<"sql", m>>].status = "succeeded"
  BY <1>1 DEF Keeps, Succeeded
<1>3. \A k \in run[e].ran : steps'[t][k] = [status |-> "succeeded", by |-> e]
  BY <1>1 DEF Keeps, Found
<1>. QED
  BY <1>1, <1>2, <1>3 DEF Found, Succeeded, MaxAttempts

\* What every replay lemma starts from.
LEMMA ReplayFacts ==
    ASSUME ReplayInv, NEW e \in Execs, ~Ended(e)
    PROVE  /\ Inv /\ Trying(e) /\ run[e].trace \in Traces
           /\ InTurn(e) => Misses(e) /\ Found(e) /\ Recorded(e) /\ Results(run[e].trace)
           /\ run[e].attempt \in Attempts /\ MaxAttempts(run[e].trace) \in Attempts
           /\ 1 \in Attempts /\ pc[e] \in PCs /\ run[e] \in Run
           /\ pc \in [Execs -> PCs] /\ run \in [Execs -> Run]
BY CallFacts, Bounds DEF ReplayInv, Replays, Replaying, Ended, InTurn

LEMMA SkipStepReplays ==
    ASSUME ReplayInv, NEW e \in Execs, NEW a \in Agents, SkipStep(e, a)
    PROVE  Replays' /\ RequestSettles' /\ (\A t \in Traces : ~Overlaps(t) => Keeps(t))
<1> DEFINE t == run[e].trace
<1>1. pc[e] = "step" /\ ~Ended(e) /\ pc' = pc /\ AtStep(e, a) /\ ~Runnable(e, a)
  BY DEF SkipStep, Ended
<1>2. /\ Still(e) /\ run'[e].trace = t /\ run'[e].left = run[e].left \ {a}
      /\ run'[e].attempt = run[e].attempt /\ run'[e].completed = run[e].completed
      /\ run'[e].denied = run[e].denied /\ run'[e].blocked = run[e].blocked
      /\ run'[e].output = run[e].output /\ run'[e].ran = run[e].ran
  BY <1>1, ReplayFacts DEF SkipStep, Still, Run
<1>3. run[e].attempt = 1
  BY <1>1, ReplayFacts DEF Trying, Attempts
<1>4. InTurn(e) => ~Succeeded(t, a, 1)
  <2>1. a \in Unwired \/ (a = "verifier" /\ Planned(t) \cap Unwired # {})
    BY <1>1, RunnableUnlessUnwired DEF ReplayInv, InPlan
  <2>. QED
    BY <1>1, <2>1, ReplayFacts DEF Results
<1>5. InTurn(e) => /\ Keeps(t)
                   /\ \A b \in Agents, m \in Attempts : Succeeds(t, b, m) <=> Succeeded(t, b, m)
  BY <1>1, <1>4, ReplayFacts, FailureKeeps DEF SkipStep, StepStatus
<1>6. \A u \in Traces \ {t} : steps'[u] = steps[u] /\ history'[u] = history[u]
  BY <1>1, ReplayFacts DEF SkipStep, SaveStep, ReplayInv, Inv, TypeOK
<1>7. Trying(e)'
  BY <1>1, <1>2, <1>3, ReplayFacts DEF Trying, SkipStep, Planned, MaxAttempts
<1>8. InTurn(e)' => InTurn(e)
  BY <1>2 DEF InTurn, Overlaps, SkipStep
<1>9. Misses(e)' /\ Recorded(e)'
  BY <1>1, <1>2, <1>3 DEF Misses, Recorded, Attempts
<1>10. InTurn(e) => Found(e)' /\ Results(t)'
  BY <1>1, <1>2, <1>5, FoundStays, ResultsStay, ReplayFacts DEF SkipStep, InTurn
<1>11. Replaying(e)'
  BY <1>7, <1>8, <1>9, <1>10 DEF Replaying
<1>12. RequestSettles'
  BY <1>1, <1>2, StepSettles DEF SkipStep, Ended
<1>. QED
  BY <1>1, <1>2, <1>5, <1>6, <1>10, <1>11, <1>12, OneCallReplays, ReplayFacts DEF SkipStep

LEMMA UseCachedReplays ==
    ASSUME ReplayInv, NEW e \in Execs, NEW a \in Agents, UseCached(e, a)
    PROVE  Replays' /\ RequestSettles' /\ (\A t \in Traces : ~Overlaps(t) => Keeps(t))
<1> DEFINE t == run[e].trace
           n == run[e].attempt
<1>1. /\ pc[e] = "step" /\ ~Ended(e) /\ pc' = pc /\ AtStep(e, a) /\ Runnable(e, a)
      /\ Succeeded(t, a, n) /\ UNCHANGED <<question, steps, request, history>>
  BY DEF UseCached, Ended, Cached, Succeeded, storeVars
<1>2. /\ Still(e) /\ run'[e].trace = t /\ run'[e].left = run[e].left \ {a}
      /\ run'[e].attempt = 1 /\ run'[e].completed = run[e].completed \cup {a}
      /\ run'[e].denied = run[e].denied /\ run'[e].blocked = run[e].blocked
      /\ run'[e].ran = run[e].ran
      /\ a # "sql" => run'[e].output["sql"] = run[e].output["sql"]
  BY <1>1, ReplayFacts DEF UseCached, Completed, Still, Run, Agents
<1>3. InTurn(e) => Keeps(t) /\ Results(t)'
  BY <1>1, <1>2, ReplayFacts, ResultsStay DEF Keeps, InTurn, Succeeded, Succeeds
<1>4. Trying(e)'
  BY <1>1, <1>2, ReplayFacts DEF Trying, Planned, MaxAttempts, Runnable, Attempts
<1>5. Misses(e)' /\ Recorded(e)'
  BY <1>1, <1>2 DEF Misses, Recorded, Attempts
<1>6. InTurn(e) => Found(e)'
  <2>1. CASE a = "sql"
    <3>1. n \in 1..MaxAttempts(t)
      BY <1>1, ReplayFacts DEF Trying, Attempts
    <3>. QED
      BY <1>1, <1>2, <2>1, <3>1, ReplayFacts DEF Found, Succeeded, MaxAttempts
  <2>2. CASE a # "sql"
    BY <1>1, <1>2, <1>3, <2>2, FoundStays
  <2>. QED
    BY <2>1, <2>2
<1>7. Replaying(e)'
  BY <1>1, <1>2, <1>4, <1>5, <1>6 DEF Replaying, InTurn, Overlaps
<1>8. RequestSettles'
  BY <1>1, <1>2, StepSettles DEF Ended
<1>. QED
  BY <1>1, <1>2, <1>3, <1>7, <1>8, OneCallReplays, ReplayFacts

LEMMA StartRunnerReplays ==
    ASSUME ReplayInv, NEW e \in Execs, NEW a \in Agents, StartRunner(e, a)
    PROVE  Replays' /\ RequestSettles' /\ (\A t \in Traces : ~Overlaps(t) => Keeps(t))
<1> DEFINE t == run[e].trace
<1>1. /\ pc[e] = "step" /\ ~Ended(e) /\ AtStep(e, a) /\ Runnable(e, a)
      /\ ~Succeeded(t, a, run[e].attempt)
      /\ UNCHANGED <<question, steps, request, history, run>>
  BY DEF StartRunner, Ended, Cached, Succeeded, storeVars
<1>2. Still(e) /\ pc'[e] = "runner" /\ ~Ended(e)'
  BY <1>1, ReplayFacts DEF StartRunner, Goto, Still, Ended
<1>3. InTurn(e) => Keeps(t) /\ Results(t)'
  BY <1>1, ReplayFacts, ResultsStay DEF Keeps, InTurn, Succeeded, Succeeds
<1>4. \A b \in Agents : AtStep(e, b) => b = a
  BY <1>1, OneAtStep
<1>5. Trying(e)'
  <2>1. \A b \in Agents : AtStep(e, b)' => Runnable(e, b)'
    BY <1>1, <1>4 DEF AtStep, Runnable, DependsOn, Planned
  <2>. QED
    BY <1>1, <1>2, <2>1, ReplayFacts DEF Trying, Planned, MaxAttempts
<1>6. InTurn(e) => Misses(e)'
  BY <1>1, <1>2, <1>4, ReplayFacts DEF Misses, AtStep, Succeeded
<1>7. InTurn(e) => Found(e)' /\ Recorded(e)'
  BY <1>1, <1>2, <1>3, FoundStays DEF Recorded
<1>8. Replaying(e)'
  BY <1>1, <1>5, <1>6, <1>7 DEF Replaying, InTurn, Overlaps
<1>9. RequestSettles'
  BY <1>1, <1>2, StepSettles
<1>. QED
  BY <1>1, <1>2, <1>3, <1>8, <1>9, OneCallReplays, ReplayFacts

LEMMA RunnerReturnsReplays ==
    ASSUME ReplayInv, NEW e \in Execs, NEW a \in Agents, RunnerReturns(e, a)
    PROVE  Replays' /\ RequestSettles' /\ (\A t \in Traces : ~Overlaps(t) => Keeps(t))
<1> DEFINE t == run[e].trace
           n == run[e].attempt
<1>1. /\ pc[e] = "runner" /\ ~Ended(e) /\ AtStep(e, a)
      /\ SaveStep(t, a, n, "succeeded", e) /\ UNCHANGED <<question, request, history>>
  BY DEF RunnerReturns, Ended
<1>2. /\ Still(e) /\ pc'[e] = "step" /\ ~Ended(e)'
      /\ run'[e].trace = t /\ run'[e].left = run[e].left \ {a}
      /\ run'[e].attempt = 1 /\ run'[e].completed = run[e].completed \cup {a}
      /\ run'[e].denied = run[e].denied /\ run'[e].blocked = run[e].blocked
      /\ run'[e].ran = run[e].ran \cup {<<a, n>>}
      /\ a # "sql" => run'[e].output["sql"] = run[e].output["sql"]
  BY <1>1, ReplayFacts DEF RunnerReturns, Completed, Still, Run, Agents, Goto, Ended
<1>3. Runnable(e, a) /\ n \in 1..MaxAttempts(t)
  BY <1>1, ReplayFacts DEF Trying, Attempts
<1>4. \A u \in Traces \ {t} : steps'[u] = steps[u] /\ history'[u] = history[u]
  BY <1>1, ReplayFacts DEF SaveStep, ReplayInv, Inv, TypeOK
<1>5. InTurn(e) =>
        /\ Keeps(t) /\ steps'[t][<<a, n>>] = [status |-> "succeeded", by |-> e]
        /\ \A b \in Agents, m \in Attempts :
             Succeeds(t, b, m) <=> Succeeded(t, b, m) \/ <<b, m>> = <<a, n>>
  <2>1. InTurn(e) => ~Succeeded(t, a, n)
    BY <1>1, ReplayFacts DEF Misses
  <2>. QED
    BY <1>1, <2>1, ReplayFacts, SuccessKeeps
<1>6. InTurn(e) => Results(t)'
  <2> SUFFICES ASSUME InTurn(e), NEW b \in Agents, NEW m \in Attempts, Succeeds(t, b, m)
               PROVE  /\ b \notin Unwired
                      /\ b = "verifier" => Planned(t) \cap Unwired = {}
                      /\ b # "sql" /\ "sql" \in Planned(t) =>
                           \E i \in 1..MaxAttempts(t) : Succeeds(t, "sql", i)
    BY <1>1, <1>2 DEF Results, Planned, MaxAttempts, Succeeded, Succeeds
  <2>0. 1..MaxAttempts(t) \subseteq Attempts /\ "sql" \in Agents
    BY <1>1, ReplayFacts, Bounds
  <2>1. CASE Succeeded(t, b, m)
    BY <1>1, <1>5, <2>0, <2>1, ReplayFacts DEF Results
  <2>2. CASE b = a
    <3>1. a \notin Unwired
      BY <1>3 DEF Runnable
    <3>2. a = "verifier" => Planned(t) \cap Unwired = {}
      <4>1. run[e].completed \cap Unwired = {}
        BY <1>1, ReplayFacts DEF Trying
      <4>2. a = "verifier" => Planned(t) \cap Fanouts \subseteq run[e].completed
        BY <1>3 DEF Runnable, DependsOn
      <4>. QED
        BY <4>1, <4>2 DEF Unwired, Fanouts
    <3>3. ASSUME a # "sql", "sql" \in Planned(t)
          PROVE  \E i \in 1..MaxAttempts(t) : Succeeds(t, "sql", i)
      <4>1. "sql" \notin run[e].left
        <5>1. "sql" \in run[e].left => Rank[a] <= Rank["sql"]
          BY <1>1 DEF AtStep
        <5>2. Rank["sql"] = 1 /\ Rank[a] \in 2..6
          BY <3>3 DEF Rank, Agents, Fanouts
        <5>. QED
          BY <5>1, <5>2
      <4>2. run[e].output["sql"] # NoExec
        BY <1>1, <3>3, <4>1 DEF ReplayInv, Inv, CallInv, Visited, InPlan
      <4>3. PICK i \in 1..MaxAttempts(t) : Succeeded(t, "sql", i)
        BY <1>1, <4>2, ReplayFacts DEF Found
      <4>. QED
        BY <1>5, <2>0, <4>3
    <3>. QED
      BY <2>2, <3>1, <3>2, <3>3
  <2>. QED
    BY <1>5, <2>1, <2>2
<1>7. Trying(e)'
  BY <1>1, <1>2, <1>3, ReplayFacts DEF Trying, Planned, MaxAttempts, Runnable, Attempts
<1>8. Misses(e)' /\ Recorded(e)'
  BY <1>2 DEF Misses, Recorded, Attempts
<1>9. InTurn(e) => Found(e)'
  <2> SUFFICES ASSUME InTurn(e) PROVE Found(e)'
    OBVIOUS
  <2>0. Found(e) /\ run[e].ran \subseteq Agents \X Attempts /\ "sql" \in Agents
        /\ 1..MaxAttempts(t) \subseteq Attempts
    BY <1>1, ReplayFacts, Bounds
  <2>1. \A k \in run'[e].ran : steps'[t][k] = [status |-> "succeeded", by |-> e]
    BY <1>2, <1>5, <2>0 DEF Keeps, Found
  <2>2. run'[e].output["sql"] # NoExec =>
          \E m \in 1..MaxAttempts(t) : Succeeds(t, "sql", m)
    <3>1. CASE a = "sql"
      BY <1>3, <1>5, <2>0, <3>1
    <3>2. CASE a # "sql"
      BY <1>2, <1>5, <2>0, <3>2 DEF Found
    <3>. QED
      BY <3>1, <3>2
  <2>. QED
    BY <1>1, <1>2, <2>1, <2>2 DEF Found, MaxAttempts, Succeeded, Succeeds
<1>10. Replaying(e)'
  BY <1>1, <1>2, <1>7, <1>8, <1>9 DEF Replaying, InTurn, Overlaps
<1>11. RequestSettles'
  BY <1>1, <1>2, StepSettles
<1>. QED
  BY <1>1, <1>2, <1>4, <1>5, <1>6, <1>10, <1>11, OneCallReplays, ReplayFacts

LEMMA RunnerFailsReplays ==
    ASSUME ReplayInv, NEW e \in Execs, NEW a \in Agents, NEW why \in Outcomes(a),
           RunnerFails(e, a, why)
    PROVE  Replays' /\ RequestSettles' /\ (\A t \in Traces : ~Overlaps(t) => Keeps(t))
<1> DEFINE t == run[e].trace
           n == run[e].attempt
<1>1. /\ pc[e] = "runner" /\ ~Ended(e) /\ AtStep(e, a)
      /\ UNCHANGED <<question, request, history>>
  BY DEF RunnerFails, Ended
<1>2. /\ Still(e) /\ ~Ended(e)' /\ run'[e].trace = t /\ run'[e].left = run[e].left
      /\ run'[e].completed = run[e].completed
      /\ run'[e].denied = run[e].denied /\ run'[e].blocked = run[e].blocked
      /\ run'[e].ran = run[e].ran /\ run'[e].output = run[e].output
      /\ \/ n < MaxAttempts(t) /\ run'[e].attempt = n + 1 /\ pc'[e] = "step"
         \/ n = MaxAttempts(t) /\ run'[e].attempt = 1 /\ pc'[e] = "record"
  <2>1. PICK m, label :
          /\ run' = [run EXCEPT ![e] = [run[e] EXCEPT !.attempt = m, !.why = why]]
          /\ pc' = [pc EXCEPT ![e] = label]
          /\ \/ n < MaxAttempts(t) /\ m = n + 1 /\ label = "step"
             \/ n = MaxAttempts(t) /\ m = 1 /\ label = "record"
    BY DEF RunnerFails, Goto
  <2>2. /\ run'[e].attempt = m /\ pc'[e] = label /\ Still(e) /\ run'[e].trace = t
        /\ run'[e].left = run[e].left /\ run'[e].completed = run[e].completed
        /\ run'[e].denied = run[e].denied /\ run'[e].blocked = run[e].blocked
        /\ run'[e].ran = run[e].ran /\ run'[e].output = run[e].output
    BY <1>1, <2>1, ReplayFacts DEF Still, Run
  <2>. QED
    BY <2>1, <2>2 DEF Ended
<1>3. PICK status \in StepStatus \ {"succeeded"} : SaveStep(t, a, n, status, NoExec)
  BY DEF RunnerFails, StepStatus
<1>4. \A u \in Traces \ {t} : steps'[u] = steps[u] /\ history'[u] = history[u]
  BY <1>1, <1>3, ReplayFacts DEF SaveStep, ReplayInv, Inv, TypeOK
<1>5. InTurn(e) => ~Succeeded(t, a, n)
  BY <1>1, ReplayFacts DEF Misses
<1>6. InTurn(e) => /\ Keeps(t)
                   /\ \A b \in Agents, m \in Attempts : Succeeds(t, b, m) <=> Succeeded(t, b, m)
  BY <1>1, <1>3, <1>5, ReplayFacts, FailureKeeps
<1>7. \A b \in Agents : AtStep(e, b)' => b = a
  <2>1. \A b \in Agents : AtStep(e, b)' => AtStep(e, b)
    BY <1>2 DEF AtStep
  <2>. QED
    BY <1>1, <2>1, OneAtStep
<1>8. Trying(e)'
  <2>1. Runnable(e, a)
    BY <1>1, ReplayFacts DEF Trying
  <2>2. Runnable(e, a)'
    BY <1>1, <1>2, <2>1 DEF Runnable, DependsOn, Planned
  <2>3. run'[e].attempt <= MaxAttempts(t)
    BY <1>1, <1>2, ReplayFacts DEF Attempts
  <2>. QED
    BY <1>1, <1>2, <1>7, <2>2, <2>3, ReplayFacts DEF Trying, Planned, MaxAttempts
<1>9. InTurn(e) => Misses(e)'
  <2> SUFFICES ASSUME InTurn(e) PROVE Misses(e)'
    OBVIOUS
  <2>1. \A m \in Attempts : m <= n => ~Succeeds(t, a, m)
    BY <1>1, <1>5, <1>6, ReplayFacts DEF Misses, Attempts
  <2>2. 1..MaxAttempts(t) \subseteq Attempts
    BY <1>1, ReplayFacts, Bounds
  <2>3. MaxAttempts(t)' = MaxAttempts(t) /\ n \in 1..3 /\ MaxAttempts(t) \in 1..3
    BY <1>1, <1>2, ReplayFacts DEF MaxAttempts, Attempts
  <2>4. CASE pc'[e] = "step" /\ run'[e].attempt = n + 1
    BY <1>2, <1>7, <2>1, <2>3, <2>4 DEF Misses, Attempts, Succeeded, Succeeds
  <2>5. CASE pc'[e] = "record" /\ n = MaxAttempts(t)
    BY <1>1, <1>2, <1>7, <2>1, <2>2, <2>3, <2>5 DEF Misses, MaxAttempts, Succeeded, Succeeds
  <2>. QED
    BY <1>2, <2>4, <2>5
<1>10. InTurn(e) => Found(e)' /\ Results(t)'
  BY <1>1, <1>2, <1>6, FoundStays, ResultsStay, ReplayFacts DEF InTurn
<1>11. Replaying(e)'
  BY <1>1, <1>2, <1>8, <1>9, <1>10 DEF Replaying, InTurn, Overlaps, Recorded
<1>12. RequestSettles'
  BY <1>1, <1>2, StepSettles
<1>. QED
  BY <1>1, <1>2, <1>4, <1>6, <1>10, <1>11, <1>12, OneCallReplays, ReplayFacts

LEMMA RecordFailureReplays ==
    ASSUME ReplayInv, NEW e \in Execs, NEW a \in Agents, RecordFailure(e, a)
    PROVE  Replays' /\ RequestSettles' /\ (\A t \in Traces : ~Overlaps(t) => Keeps(t))
<1> DEFINE t == run[e].trace
<1>1. /\ pc[e] = "record" /\ ~Ended(e) /\ AtStep(e, a)
      /\ UNCHANGED <<question, request, history>>
  BY DEF RecordFailure, Ended
<1>2. /\ Still(e) /\ ~Ended(e)' /\ run'[e].trace = t /\ run'[e].left = run[e].left \ {a}
      /\ run'[e].completed = run[e].completed \cup ({a} \ {"sql"})
      /\ run'[e].ran = run[e].ran /\ run'[e].output = run[e].output
      /\ run'[e].attempt = run[e].attempt
      /\ pc'[e] = IF a = "sql" THEN "skip_rest" ELSE "step"
  BY <1>1, ReplayFacts DEF RecordFailure, Still, Run, Goto, Ended
<1>3. PICK status \in StepStatus \ {"succeeded"} : SaveStep(t, a, 1, status, NoExec)
  BY DEF RecordFailure, StepStatus
<1>4. \A u \in Traces \ {t} : steps'[u] = steps[u] /\ history'[u] = history[u]
  BY <1>1, <1>3, ReplayFacts DEF SaveStep, ReplayInv, Inv, TypeOK
<1>5. InTurn(e) => \A m \in 1..MaxAttempts(t) : ~Succeeded(t, a, m)
  BY <1>1, ReplayFacts DEF Misses
<1>6. InTurn(e) => /\ Keeps(t)
                   /\ \A b \in Agents, m \in Attempts : Succeeds(t, b, m) <=> Succeeded(t, b, m)
  <2>1. 1 \in 1..MaxAttempts(t)
    BY <1>1, ReplayFacts DEF Attempts
  <2>. QED
    BY <1>1, <1>3, <1>5, <2>1, ReplayFacts, FailureKeeps
<1>7. a \in Planned(t) /\ a \notin Unwired /\ run[e].attempt = 1
  <2>1. Runnable(e, a) /\ run[e].attempt = 1 /\ run[e].left \subseteq Planned(t)
    BY <1>1, ReplayFacts DEF Trying
  <2>. QED
    BY <1>1, <2>1 DEF AtStep, Runnable
<1>8. Trying(e)'
  <2>1. run'[e].denied => run'[e].blocked
    BY <1>1, ReplayFacts DEF RecordFailure, Run
  <2>2. run[e].left \subseteq Planned(t) /\ run[e].completed \cap Unwired = {}
    BY <1>1, ReplayFacts DEF Trying
  <2>3. run'[e].completed \cap Unwired = {}
    BY <1>2, <1>7, <2>2
  <2>. QED
    BY <1>1, <1>2, <1>7, <2>1, <2>2, <2>3, ReplayFacts DEF Trying, Planned, MaxAttempts
<1>9. InTurn(e) => Misses(e)'
  <2> SUFFICES ASSUME InTurn(e) PROVE Misses(e)'
    OBVIOUS
  <2>1. CASE a # "sql"
    BY <1>2, <1>7, <2>1 DEF Misses, Attempts
  <2>2. CASE a = "sql"
    <3>1. 1..MaxAttempts(t) \subseteq Attempts
      BY <1>1, ReplayFacts, Bounds
    <3>2. \A m \in 1..MaxAttempts(t) : ~Succeeds(t, "sql", m)
      BY <1>5, <1>6, <2>2, <3>1
    <3>. QED
      BY <1>1, <1>2, <1>7, <2>2, <3>2 DEF Misses, Planned, MaxAttempts, Succeeded, Succeeds
  <2>. QED
    BY <2>1, <2>2
<1>10. InTurn(e) => Found(e)' /\ Results(t)'
  BY <1>1, <1>2, <1>6, FoundStays, ResultsStay, ReplayFacts DEF InTurn
<1>11. Replaying(e)'
  BY <1>1, <1>2, <1>8, <1>9, <1>10 DEF Replaying, InTurn, Overlaps, Recorded
<1>12. RequestSettles'
  BY <1>1, <1>2, StepSettles
<1>. QED
  BY <1>1, <1>2, <1>4, <1>6, <1>10, <1>11, <1>12, OneCallReplays, ReplayFacts

LEMMA SkipRestReplays ==
    ASSUME ReplayInv, NEW e \in Execs, NEW a \in Agents, SkipRest(e, a)
    PROVE  Replays' /\ RequestSettles' /\ (\A t \in Traces : ~Overlaps(t) => Keeps(t))
<1> DEFINE t == run[e].trace
<1>1. pc[e] = "skip_rest" /\ ~Ended(e) /\ pc' = pc /\ AtStep(e, a)
  BY DEF SkipRest, Ended
<1>2. /\ Still(e) /\ run'[e].trace = t /\ run'[e].left = run[e].left \ {a}
      /\ run'[e].attempt = run[e].attempt /\ run'[e].completed = run[e].completed
      /\ run'[e].denied = run[e].denied /\ run'[e].blocked = run[e].blocked
      /\ run'[e].output = run[e].output /\ run'[e].ran = run[e].ran
  BY <1>1, ReplayFacts DEF SkipRest, Still, Run
<1>3. InTurn(e) => ~Succeeded(t, a, 1)
  <2>1. InTurn(e) => /\ a # "sql" /\ "sql" \in Planned(t)
                     /\ \A m \in 1..MaxAttempts(t) : ~Succeeded(t, "sql", m)
    BY <1>1, ReplayFacts DEF Misses, AtStep
  <2>. QED
    BY <1>1, <2>1, ReplayFacts DEF Results
<1>4. InTurn(e) => /\ Keeps(t)
                   /\ \A b \in Agents, m \in Attempts : Succeeds(t, b, m) <=> Succeeded(t, b, m)
  BY <1>1, <1>3, ReplayFacts, FailureKeeps DEF SkipRest, StepStatus
<1>5. \A u \in Traces \ {t} : steps'[u] = steps[u] /\ history'[u] = history[u]
  BY <1>1, ReplayFacts DEF SkipRest, SaveStep, ReplayInv, Inv, TypeOK
<1>6. Trying(e)'
  BY <1>1, <1>2, ReplayFacts DEF Trying, SkipRest, Planned, MaxAttempts
<1>7. InTurn(e) => Misses(e)'
  <2>1. 1..MaxAttempts(t) \subseteq Attempts /\ "sql" \in Agents
    BY <1>1, ReplayFacts, Bounds
  <2>. QED
    BY <1>1, <1>2, <1>4, <2>1, ReplayFacts DEF Misses, SkipRest, Planned, MaxAttempts, Succeeded, Succeeds
<1>8. InTurn(e) => Found(e)' /\ Results(t)'
  BY <1>1, <1>2, <1>4, FoundStays, ResultsStay, ReplayFacts DEF SkipRest, InTurn
<1>9. Replaying(e)'
  BY <1>1, <1>2, <1>6, <1>7, <1>8 DEF Replaying, InTurn, Overlaps, Recorded, SkipRest
<1>10. RequestSettles'
  BY <1>1, <1>2, StepSettles DEF SkipRest, Ended
<1>. QED
  BY <1>1, <1>2, <1>4, <1>5, <1>8, <1>9, <1>10, OneCallReplays, ReplayFacts DEF SkipRest

-----------------------------------------------------------------------------
(* The other steps of answer().                                            *)

LEMMA BeginReplays ==
    ASSUME ReplayInv, NEW e \in Execs, NEW t \in Traces, Begin(e, t)
    PROVE  Replays' /\ RequestSettles' /\ (\A u \in Traces : ~Overlaps(u) => Keeps(u))
<1>0. Inv /\ run \in [Execs -> Run] /\ pc \in [Execs -> PCs] /\ run[e] = Fresh
  BY CallFacts DEF Begin, ReplayInv, Replays, Replaying, Trying
<1>1. /\ pc[e] = "idle" /\ pc'[e] = "draft" /\ Still(e)
      /\ UNCHANGED <<question, steps, history>>
      /\ \A u \in Traces \ {t} : request'[u] = request[u]
  BY <1>0 DEF Begin, Goto, Still, Inv, TypeOK
<1>2. /\ run'[e].trace = t /\ run'[e].left = {} /\ run'[e].attempt = 1
      /\ run'[e].completed = {} /\ ~run'[e].denied /\ run'[e].ran = {}
      /\ run'[e].output["sql"] = NoExec /\ run[e].trace = NoTrace
  BY <1>0, <1>1, Bounds DEF Begin, Fresh
<1>3. Replaying(e)'
  <2>1. MaxAttempts(t)' = MaxAttempts(t) /\ MaxAttempts(t) \in 1..3
    BY <1>0, <1>1, Bounds DEF MaxAttempts, Attempts
  <2>2. Trying(e)'
    BY <1>1, <1>2, <2>1 DEF Trying
  <2>. QED
    BY <1>1, <1>2, <2>2 DEF Replaying, Misses, Found, Recorded
<1>4. \A x \in Execs \ {e} : Replaying(x)'
  <2> SUFFICES ASSUME NEW x \in Execs \ {e} PROVE Replaying(x)'
    OBVIOUS
  <2>1. pc'[x] = pc[x] /\ run'[x] = run[x] /\ Replaying(x)
    BY <1>1 DEF Still, ReplayInv, Replays
  <2>2. Trying(x)'
    BY <1>1, <2>1 DEF Replaying, Trying, AtStep, Runnable, DependsOn, Planned, MaxAttempts
  <2>3. InTurn(x)' => InTurn(x)
    BY <1>1, <2>1 DEF InTurn, Overlaps
  <2>4. Misses(x) => Misses(x)'
    BY <1>1, <2>1 DEF Misses, Succeeded, AtStep, Planned, MaxAttempts
  <2>5. Found(x) => Found(x)'
    BY <1>1, <2>1 DEF Found, Succeeded, MaxAttempts
  <2>6. Recorded(x) => Recorded(x)'
    BY <1>1, <2>1 DEF Recorded
  <2>. QED
    BY <2>1, <2>2, <2>3, <2>4, <2>5, <2>6 DEF Replaying
<1>5. Alone'
  <2> SUFFICES ASSUME NEW x \in Execs, NEW y \in Execs, InTurn(x)',
                      run'[y].trace = run'[x].trace, x # y
               PROVE  Ended(x)' \/ Ended(y)'
    BY DEF Alone
  <2>1. CASE x # e /\ y # e
    <3>1. InTurn(x) /\ run[y].trace = run[x].trace
      BY <1>1, <2>1 DEF Still, InTurn, Overlaps
    <3>2. Ended(x) \/ Ended(y)
      BY <3>1 DEF ReplayInv, Replays, Alone
    <3>. QED
      BY <1>1, <2>1, <3>2 DEF Still, Ended
  <2>2. ASSUME NEW z \in Execs \ {e}, run'[z].trace = t, ~Overlaps(t) PROVE Ended(z)'
    BY <1>1, <2>2 DEF Begin, Still, Ended
  <2>3. run'[x].trace = t => ~Overlaps(t)
    BY <1>1 DEF InTurn, Overlaps
  <2>. QED
    BY <1>2, <2>1, <2>2, <2>3
<1>6. \A u \in Traces : ~Overlaps(u)' => Results(u)'
  <2>1. \A u \in Traces : ~Overlaps(u) => Results(u)
    BY DEF ReplayInv, Replays
  <2>. QED
    BY <1>1, <2>1 DEF Results, Succeeded, Planned, MaxAttempts, Overlaps
<1>7. RequestSettles'
  BY <1>1, <1>2, Settles DEF Ended
<1>. QED
  BY <1>1, <1>3, <1>4, <1>5, <1>6, <1>7 DEF Replays, Keeps

\* A step that leaves the steps of the store alone, and the plan of its call.
LEMMA QuietReplays ==
    ASSUME ReplayInv, NEW e \in Execs, ~Ended(e), Still(e), UNCHANGED <<question, steps>>,
           \A t \in Traces \ {run[e].trace} : history'[t] = history[t],
           run'[e].trace = run[e].trace, run'[e].completed = run[e].completed,
           run'[e].output = run[e].output, run'[e].ran = run[e].ran,
           run'[e].attempt = run[e].attempt,
           run'[e].left \subseteq Planned(run[e].trace),
           run'[e].denied => run'[e].blocked,
           pc'[e] \in {"assemble", "save_history", "finish", "done", "raised"}
             \/ (pc'[e] = "step" /\ run[e].attempt = 1),
           Recorded(e)'
    PROVE  Replays' /\ (\A t \in Traces : ~Overlaps(t) => Keeps(t))
<1> DEFINE t == run[e].trace
<1>1. Trying(e)'
  BY ReplayFacts DEF Trying, Planned, MaxAttempts, Attempts, Ended
<1>2. Misses(e)'
  BY DEF Misses, Attempts
<1>3. Keeps(t) /\ (InTurn(e) => Found(e)' /\ Results(t)')
  BY ReplayFacts, FoundStays, ResultsStay DEF Keeps, InTurn, Succeeded, Succeeds
<1>4. Replaying(e)'
  BY <1>1, <1>2, <1>3 DEF Replaying, InTurn, Overlaps
<1>. QED
  BY <1>3, <1>4, OneCallReplays, ReplayFacts

LEMMA AnswerReplays ==
    ASSUME ReplayInv, NEW e \in Execs, AnswerActions(e)
    PROVE  Replays' /\ RequestSettles' /\ (\A t \in Traces : ~Overlaps(t) => Keeps(t))
<1> DEFINE t == run[e].trace
<1>0. /\ ~Ended(e) /\ Inv /\ Trying(e) /\ t \in Traces
      /\ run \in [Execs -> Run] /\ pc \in [Execs -> PCs] /\ run[e] \in Run
      /\ request \in [Traces -> Stages] /\ history \in [Traces -> {"none", "blocked", "answered"}]
  <2>1. ~Ended(e)
    BY DEF AnswerActions, Ended, Refuse, Draft, PlanEnds, DenyAnswer, AssembleAnswer,
           SaveHistory, Finish, Raise
  <2>. QED
    BY <2>1, ReplayFacts DEF Inv, TypeOK
<1>1. CASE Refuse(e)
  <2>1. /\ pc'[e] = "save_history" /\ Still(e) /\ UNCHANGED <<question, steps, request, history>>
        /\ run'[e].trace = t /\ run'[e].completed = run[e].completed
        /\ run'[e].output = run[e].output /\ run'[e].ran = run[e].ran
        /\ run'[e].attempt = run[e].attempt /\ run'[e].left = run[e].left /\ run'[e].blocked
    BY <1>0, <1>1 DEF Refuse, Goto, Still, Run, storeVars
  <2>2. run[e].left \subseteq Planned(t)
    BY <1>0 DEF Trying, Ended
  <2>3. Recorded(e)' /\ ~Ended(e)'
    BY <2>1 DEF Recorded, Ended
  <2>. QED
    BY <1>0, <2>1, <2>2, <2>3, QuietReplays, StepSettles
<1>2. CASE Draft(e)
  <2>1. /\ pc'[e] = "step" /\ Still(e) /\ UNCHANGED <<question, steps, request, history>>
        /\ run'[e].trace = t /\ run'[e].completed = run[e].completed
        /\ run'[e].output = run[e].output /\ run'[e].ran = run[e].ran
        /\ run'[e].attempt = run[e].attempt /\ run'[e].left = Planned(t)
        /\ run'[e].denied = run[e].denied /\ run'[e].blocked = run[e].blocked
    BY <1>0, <1>2 DEF Draft, Goto, Still, Run, storeVars
  <2>2. run[e].attempt = 1 /\ (run'[e].denied => run'[e].blocked)
    BY <1>0, <1>2, <2>1 DEF Trying, Draft
  <2>3. Recorded(e)' /\ ~Ended(e)'
    BY <2>1 DEF Recorded, Ended
  <2>. QED
    BY <1>0, <2>1, <2>2, <2>3, QuietReplays, StepSettles
<1>3. CASE PlanEnds(e) \/ DenyAnswer(e)
  <2>1. /\ pc'[e] \in {"assemble", "save_history"} /\ Still(e)
        /\ UNCHANGED <<question, steps, request, history, run>>
    BY <1>0, <1>3 DEF PlanEnds, DenyAnswer, Goto, Still, storeVars
  <2>2. run[e].left \subseteq Planned(t) /\ (run[e].denied => run[e].blocked)
    BY <1>0 DEF Trying, Ended
  <2>3. Recorded(e)' /\ ~Ended(e)'
    BY <2>1 DEF Recorded, Ended
  <2>. QED
    BY <1>0, <2>1, <2>2, <2>3, QuietReplays, StepSettles
<1>4. CASE AssembleAnswer(e)
  <2>0. PICK warned, blocked, sql :
          /\ run' = [run EXCEPT ![e] = [run[e] EXCEPT
                       !.warned = warned, !.blocked = blocked, !.sql = sql]]
          /\ run[e].blocked => blocked
    <3>1. PICK extra \in BOOLEAN, provider \in BOOLEAN :
            run' = [run EXCEPT ![e] = [run[e] EXCEPT
                      !.warned = run[e].warned \/ extra \/ provider,
                      !.blocked = run[e].blocked \/ provider,
                      !.sql = IF "sql" \notin Planned(run[e].trace) THEN "none"
                              ELSE IF run[e].output["sql"] # NoExec THEN "approved"
                              ELSE "unapproved"]]
      BY <1>4, Zenon DEF AssembleAnswer
    <3>2. run[e].blocked => run[e].blocked \/ provider
      OBVIOUS
    <3>. QED
      BY <3>1, <3>2, Zenon
  <2>1. /\ pc'[e] = "save_history" /\ Still(e) /\ UNCHANGED <<question, steps, request, history>>
        /\ run'[e].trace = t /\ run'[e].completed = run[e].completed
        /\ run'[e].output = run[e].output /\ run'[e].ran = run[e].ran
        /\ run'[e].attempt = run[e].attempt /\ run'[e].left = run[e].left
        /\ run'[e].denied = run[e].denied /\ (run[e].blocked => run'[e].blocked)
    BY <1>0, <1>4, <2>0 DEF AssembleAnswer, Goto, Still, Run, storeVars
  <2>2. run[e].left \subseteq Planned(t) /\ (run[e].denied => run[e].blocked)
    BY <1>0 DEF Trying, Ended
  <2>3. Recorded(e)' /\ ~Ended(e)'
    BY <2>1 DEF Recorded, Ended
  <2>. QED
    BY <1>0, <2>1, <2>2, <2>3, QuietReplays, StepSettles
<1>5. CASE SaveHistory(e)
  <2>1. /\ pc'[e] = "finish" /\ Still(e) /\ UNCHANGED <<question, steps, request, run>>
        /\ \A u \in Traces \ {t} : history'[u] = history[u]
        /\ history'[t] = IF run[e].denied THEN "blocked" ELSE "answered"
    BY <1>0, <1>5 DEF SaveHistory, Goto, Still
  <2>2. run[e].left \subseteq Planned(t) /\ (run[e].denied => run[e].blocked)
    BY <1>0 DEF Trying, Ended
  <2>3. Recorded(e)' /\ ~Ended(e)'
    BY <2>1, <2>2 DEF Recorded, Ended
  <2>4. RequestSettles'
    BY <1>0, <2>1, <2>3, Settles
  <2>. QED
    BY <1>0, <2>1, <2>2, <2>3, <2>4, QuietReplays
<1>6. CASE Finish(e) \/ Raise(e)
  <2>0. PICK stage \in {"succeeded", "degraded", "failed"} :
          /\ run' = [run EXCEPT ![e] = [run[e] EXCEPT !.stage = stage]]
          /\ request' = [request EXCEPT ![t] = stage]
          /\ (pc[e] = "finish" /\ ~run[e].blocked) \/ stage = "failed"
    <3> DEFINE final == IF run[e].blocked THEN "failed"
                        ELSE IF run[e].warned THEN "degraded" ELSE "succeeded"
    <3>1. final \in {"succeeded", "degraded", "failed"} /\ (run[e].blocked => final = "failed")
      OBVIOUS
    <3>2. CASE Finish(e)
      <4>1. /\ run' = [run EXCEPT ![e].stage = final] /\ pc[e] = "finish"
            /\ request' = [request EXCEPT ![run[e].trace] = final]
        BY <3>2, Zenon DEF Finish
      <4> HIDE DEF final
      <4>. QED
        BY <3>1, <4>1, Zenon
    <3>3. CASE Raise(e)
      BY <3>3, Zenon DEF Raise
    <3>. QED
      BY <1>6, <3>2, <3>3
  <2>1. /\ pc'[e] \in {"done", "raised"} /\ Still(e) /\ UNCHANGED <<question, steps, history>>
        /\ run'[e].trace = t /\ run'[e].completed = run[e].completed
        /\ run'[e].output = run[e].output /\ run'[e].ran = run[e].ran
        /\ run'[e].attempt = run[e].attempt /\ run'[e].left = run[e].left
        /\ run'[e].denied = run[e].denied /\ run'[e].blocked = run[e].blocked
        /\ request'[t] = stage /\ \A u \in Traces \ {t} : request'[u] = request[u]
        /\ run'[e].stage = stage
    BY <1>0, <1>6, <2>0 DEF Finish, Raise, Goto, Still, Run
  <2>2. run[e].left \subseteq Planned(t) /\ (run[e].denied => run[e].blocked)
    BY <1>0 DEF Trying, Ended
  <2>3. Recorded(e)'
    BY <2>1 DEF Recorded
  <2>4. history[t] = "blocked" => Overlaps(t) \/ stage = "failed"
    BY <1>0, <2>0, ReplayFacts DEF Recorded, InTurn
  <2>5. Reported(t, e)'
    BY <2>0, <2>1 DEF Reported
  <2>6. RequestSettles'
    BY <1>0, <2>1, <2>4, <2>5, Settles
  <2>. QED
    BY <1>0, <2>1, <2>2, <2>3, <2>6, QuietReplays
<1>. QED
  BY <1>1, <1>2, <1>3, <1>4, <1>5, <1>6 DEF AnswerActions

LEMMA InitReplayInv == Init => ReplayInv
<1> SUFFICES ASSUME Init PROVE ReplayInv
  OBVIOUS
<1>1. \A e \in Execs : pc[e] = "idle" /\ run[e] = Fresh
  BY DEF Init
<1>2. Alone /\ RequestSettles
  BY <1>1, PlanExecutionAssumption DEF Alone, Ended, RequestSettles, Calls, Fresh
<1>3. \A t \in Traces : Results(t)
  BY DEF Init, Results, Succeeded
<1>4. \A e \in Execs : Replaying(e)
  <2> SUFFICES ASSUME NEW e \in Execs PROVE Replaying(e)
    OBVIOUS
  <2>1. Trying(e)
    <3>1. Fresh.completed = {} /\ Fresh.attempt = 1 /\ ~Fresh.denied
      BY DEF Fresh
    <3>. QED
      BY <1>1, <3>1 DEF Trying
  <2>2. ~InTurn(e)
    BY <1>1, PlanExecutionAssumption DEF InTurn, Fresh
  <2>. QED
    BY <2>1, <2>2 DEF Replaying
<1>. QED
  BY <1>2, <1>3, <1>4, InitInv DEF ReplayInv, Replays

LEMMA NextReplayInv ==
    ReplayInv /\ [Next]_vars =>
        ReplayInv' /\ [\A t \in Traces : ~Overlaps(t) => Keeps(t)]_vars
<1>1. ASSUME ReplayInv, UNCHANGED vars PROVE ReplayInv'
  <2>1. /\ UNCHANGED <<question, steps, history, request>>
        /\ \A e \in Execs : pc'[e] = pc[e] /\ run'[e] = run[e]
    BY <1>1 DEF vars
  <2>2. Inv'
    BY <1>1, NextInv DEF ReplayInv
  <2>3. Alone' /\ RequestSettles'
    BY <1>1 DEF ReplayInv, Replays, Alone, InTurn, Ended, RequestSettles, Reported, Calls, Overlaps, vars
  <2>4. \A t \in Traces : ~Overlaps(t)' => Results(t)'
    <3>1. \A t \in Traces : ~Overlaps(t) => Results(t)
      BY <1>1 DEF ReplayInv, Replays
    <3>. QED
      BY <2>1, <3>1 DEF Results, Succeeded, Planned, MaxAttempts, Overlaps
  <2>5. ASSUME NEW e \in Execs PROVE Replaying(e)'
    <3>1. Replaying(e) /\ pc'[e] = pc[e] /\ run'[e] = run[e]
      BY <1>1, <2>1 DEF ReplayInv, Replays
    <3>2. Trying(e)'
      BY <2>1, <3>1 DEF Replaying, Trying, AtStep, Runnable, DependsOn, Planned, MaxAttempts
    <3>3. InTurn(e)' => InTurn(e)
      BY <2>1, <3>1 DEF InTurn, Overlaps
    <3>4. Misses(e) => Misses(e)'
      BY <2>1, <3>1 DEF Misses, Succeeded, AtStep, Planned, MaxAttempts
    <3>5. Found(e) => Found(e)'
      BY <2>1, <3>1 DEF Found, Succeeded, MaxAttempts
    <3>6. Recorded(e) => Recorded(e)'
      BY <2>1, <3>1 DEF Recorded
    <3>. QED
      BY <3>1, <3>2, <3>3, <3>4, <3>5, <3>6 DEF Replaying
  <2>. QED
    BY <2>2, <2>3, <2>4, <2>5 DEF ReplayInv, Replays
<1>2. ASSUME ReplayInv, Next
      PROVE  ReplayInv' /\ (\A t \in Traces : ~Overlaps(t) => Keeps(t))
  <2>1. Inv'
    BY <1>2, NextInv DEF ReplayInv
  <2>2. Replays' /\ RequestSettles' /\ (\A t \in Traces : ~Overlaps(t) => Keeps(t))
    BY <1>2, SkipStepReplays, UseCachedReplays, StartRunnerReplays, RunnerReturnsReplays,
       RunnerFailsReplays, RecordFailureReplays, SkipRestReplays, BeginReplays, AnswerReplays
       DEF Next, StepActions
  <2>. QED
    BY <2>1, <2>2 DEF ReplayInv
<1>. QED
  BY <1>1, <1>2

LEMMA SameQuestion == [Next]_vars => UNCHANGED question
<1>1. ASSUME NEW e \in Execs, StepActions(e) PROVE UNCHANGED question
  BY <1>1 DEF StepActions, SkipStep, UseCached, StartRunner, RunnerReturns, RunnerFails,
              RecordFailure, SkipRest
<1>2. ASSUME NEW e \in Execs, AnswerActions(e) PROVE UNCHANGED question
  BY <1>2 DEF AnswerActions, Refuse, Draft, PlanEnds, DenyAnswer, AssembleAnswer,
              SaveHistory, Finish, Raise
<1>. QED
  BY <1>1, <1>2 DEF Next, Begin, vars

\* Two calls that ran one key to success would both be its author.
LEMMA AuthorsDiffer ==
    ASSUME ReplayInv, NEW t \in Traces, ~Overlaps(t)
    PROVE  KeyRunsOnce(t)
<1> SUFFICES ASSUME NEW e \in Calls(t), NEW x \in Calls(t), e # x,
                    NEW k \in run[e].ran, k \in run[x].ran
             PROVE  FALSE
  BY DEF KeyRunsOnce
<1>1. e \in Execs /\ x \in Execs /\ run[e].trace = t /\ run[x].trace = t
  BY DEF Calls
<1>2. Found(e) /\ Found(x)
  BY <1>1 DEF ReplayInv, Replays, Replaying, InTurn
<1>3. /\ steps[t][k] = [status |-> "succeeded", by |-> e]
      /\ steps[t][k] = [status |-> "succeeded", by |-> x]
  BY <1>1, <1>2 DEF Found
<1>. QED
  BY <1>3

\* The inductive invariant of the replays.
THEOREM ReplaysInv == Spec => []ReplayInv
<1>. QED
  BY InitReplayInv, NextReplayInv, PTL DEF Spec

\* Once no call of a trace is left, its request is in the final state one of
\* its calls reported, failed if that call's answer carries a denial or, unless
\* calls of the trace overlapped, if its history says blocked.
THEOREM RequestsSettle == Spec => []RequestSettles
<1>1. ReplayInv => RequestSettles
  BY DEF ReplayInv
<1>. QED
  BY <1>1, ReplaysInv, PTL

\* Calls that come one after the other repeat no work of each other and lose
\* none: for any number of them, any plan and any number of attempts.
THEOREM ReplaysKeepResults == Spec => ReplayKeepsResults
<1>1. ReplayInv => \A t \in Traces : ~Overlaps(t) => KeyRunsOnce(t)
  BY AuthorsDiffer
<1>2. (ReplayInv => \A t \in Traces : ~Overlaps(t) => KeyRunsOnce(t))'
  BY <1>1, PTL
<1>3. ASSUME ReplayInv, [Next]_vars
      PROVE  [\A t \in Traces : ~Overlaps(t)' =>
                /\ KeyRunsOnce(t)'
                /\ \A k \in Agents \X Attempts :
                     steps[t][k].status = "succeeded" => steps'[t][k] = steps[t][k]]_vars
  <2>1. ReplayInv' /\ [\A t \in Traces : ~Overlaps(t) => Keeps(t)]_vars
    BY <1>3, NextReplayInv
  <2>2. \A t \in Traces : ~Overlaps(t)' => KeyRunsOnce(t)'
    BY <1>2, <2>1
  <2>3. UNCHANGED question
    BY <1>3, SameQuestion
  <2>. QED
    BY <1>3, <2>1, <2>2, <2>3 DEF Keeps, Overlaps
<1>. QED
  BY <1>3, ReplaysInv, PTL DEF Spec, ReplayKeepsResults
=============================================================================
