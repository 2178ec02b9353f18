---------------------------- MODULE AnalyticsTasks ----------------------------
(***************************************************************************)
(* The analytics endpoints and AnalyticsWorker: a series is analyzed at    *)
(* once, or queued and analyzed by a worker, whose result is saved under   *)
(* the trace id the caller chose.                                          *)
(***************************************************************************)
EXTENDS RagIndexing

CONSTANTS
    Series,  \* what may be analyzed: [trace, org, valid]
    Legacy   \* "org_legacy"

ASSUME AnalyticsTasksAssumption == Legacy # None /\ \A s \in Series : s.org # None

VARIABLES results  \* AnalyticsRepository: the organization, per trace id

Traces == {s.trace : s \in Series}

AnalyticsInit == results = [t \in Traces |-> None]

\* POST /analytics/analyze
AnalyzeNow == \E s \in Series :
    /\ s.valid
    /\ results' = [results EXCEPT ![s.trace] = s.org]
    /\ UNCHANGED <<tasks, call, before>>

\* POST /analytics/tasks
QueueAnalysis == \E s \in Series :
    /\ Enqueue("analytics", s)
    /\ UNCHANGED <<call, before, results>>

TakeAnalysis(c) == \E t \in DOMAIN tasks :
    /\ tasks[t].kind = "analytics" /\ tasks[t].status # "lost"
    /\ Begin(c, [at |-> "analyze", task |-> t, series |-> tasks[t].of, outcome |-> None])
    /\ Mark(t, "running")
    /\ UNCHANGED results

\* _payload_request drops the organization: the result is a legacy one.
Analyze(c) ==
    /\ call[c].at = "analyze"
    /\ IF call[c].series.valid
       THEN results' = [results EXCEPT ![call[c].series.trace] = Legacy] /\ Goto(c, "analyzed")
       ELSE Goto(c, "invalid") /\ UNCHANGED results
    /\ UNCHANGED tasks

MarkAnalysis(c) ==
    /\ \/ call[c].at = "analyzed" /\ Mark(call[c].task, "succeeded")
       \/ call[c].at = "invalid" /\ Mark(call[c].task, "failed")
    /\ End(c, None)
    /\ UNCHANGED results

\* mark_timed_out, at any time.
TimeOut == \E t \in DOMAIN tasks :
    /\ tasks[t].kind = "analytics" /\ tasks[t].status # "lost"
    /\ Mark(t, "timed_out")
    /\ UNCHANGED <<call, before, results>>

AnalyticsStep(c) == TakeAnalysis(c) \/ Analyze(c) \/ MarkAnalysis(c)

-----------------------------------------------------------------------------
(* The three users of the queue together. *)

vars == <<tasks, call, before, indexVars, ragVars, results>>

Init == QueueInit /\ IndexInit /\ RagInit /\ AnalyticsInit

\* The process ends and starts again: the queue is empty, every call is cut off.
Restart ==
    /\ \E c \in Calls : call[c] # Idle
    /\ \A c \in Calls : call[c].at # "lost"
    /\ tasks' = [t \in DOMAIN tasks |-> [tasks[t] EXCEPT !.status = "lost"]]
    /\ call' = [c \in Calls |-> IF call[c] = Idle THEN Idle ELSE [call[c] EXCEPT !.at = "lost"]]
    /\ before' = before
    /\ IndexLost /\ RagRestarts
    /\ results' = [t \in Traces |-> None]

Next ==
    \/ \E c \in Calls :
         \/ IndexStep(c) /\ UNCHANGED <<ragVars, results>>
         \/ RagStep(c) /\ UNCHANGED <<indexVars, results>>
         \/ AnalyticsStep(c) /\ UNCHANGED <<indexVars, ragVars>>
    \/ QueueJob /\ UNCHANGED <<indexVars, results>>
    \/ (AnalyzeNow \/ QueueAnalysis \/ TimeOut) /\ UNCHANGED <<indexVars, ragVars>>
    \/ Restart

Spec == Init /\ [][Next]_vars
=============================================================================
