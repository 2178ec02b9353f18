----------------------------- MODULE RagIndexing -----------------------------
(***************************************************************************)
(* InMemoryRagService over its repository, and RagIndexWorker: short texts *)
(* are indexed at once, long ones by a job a worker runs.  The repository  *)
(* outlives the process; the waiting requests and the evidence store,      *)
(* which hydrate_evidence_store_from_repository rebuilds, do not.          *)
(***************************************************************************)
EXTENDS DocumentIndex

CONSTANTS RagTexts  \* what may be indexed: [doc, size, long]

ASSUME RagIndexingAssumption ==
    /\ Documents \cap Calls = {}
    /\ \A text \in RagTexts : text.doc \in Documents /\ text.size \in Positions \cup {0}

VARIABLES
    jobs,     \* the repository's job rows
    stored,   \* the repository's chunk rows: the call whose text each holds
    waiting,  \* _queued_requests_by_job_id: the call whose request waits, per job
    evidence  \* the chunks of the evidence store, as stored

ragVars == <<jobs, stored, waiting, evidence>>

\* A short text's job is named for its document, a long one's is new.
JobIds == Documents \cup Calls
JobStatuses == {"none", "queued", "running", "succeeded", "failed"}

RagInit ==
    /\ jobs = [j \in JobIds |-> "none"]
    /\ stored = [s \in Slots |-> NoCall]
    /\ waiting = {}
    /\ evidence = [s \in Slots |-> NoCall]

\* Mutant: the chunks of a text that comes again are kept.
Upserted_Once(rows, by) ==
    [s \in Slots |-> IF s[1] = call[by].text.doc /\ s[2] <= call[by].text.size /\ rows[s] = NoCall
                     THEN by ELSE rows[s]]
\* Chunks are written by id, document and position, and never removed.
Upserted(rows, by) ==
    [s \in Slots |-> IF s[1] = call[by].text.doc /\ s[2] <= call[by].text.size
                     THEN by ELSE rows[s]]

\* index_document: a long text waits under a job of its own, ...
QueueText(c) == \E text \in RagTexts :
    /\ text.long
    /\ Begin(c, [at |-> "done", text |-> text, outcome |-> "waits"])
    /\ waiting' = waiting \cup {c}
    /\ jobs' = [jobs EXCEPT ![c] = "queued"]
    /\ UNCHANGED <<tasks, stored, evidence>>

\* ... a short one is cut into chunks, ...
CutText(c) == \E text \in RagTexts :
    /\ ~text.long
    /\ Begin(c, [at |-> "save", text |-> text, outcome |-> None])
    /\ UNCHANGED <<tasks, ragVars>>

\* ... saved, with a job that has succeeded, ...
SaveText(c) ==
    /\ call[c].at = "save"
    /\ jobs' = [jobs EXCEPT ![call[c].text.doc] = "succeeded"]
    /\ stored' = Upserted(stored, c)
    /\ Goto(c, "publish")
    /\ UNCHANGED <<tasks, waiting, evidence>>

\* ... and then made searchable.
PublishText(c) ==
    /\ call[c].at = "publish"
    /\ evidence' = Upserted(evidence, c)
    /\ End(c, "indexed")
    /\ UNCHANGED <<tasks, jobs, stored, waiting>>

\* enqueue_index_job: nothing keeps a job from being queued twice.
QueueJob == \E j \in JobIds :
    /\ jobs[j] # "none"
    /\ Enqueue("indexing", j)
    /\ UNCHANGED <<call, before, ragVars>>

-----------------------------------------------------------------------------
(* RagIndexWorker.process_task and run_index_job *)

\* Tasks of the HTTP handler name no job; the worker fails them.
TakeIndexing(c) == \E t \in DOMAIN tasks :
    /\ tasks[t].kind = "indexing" /\ tasks[t].status # "lost"
    /\ Begin(c, [at |-> "check", task |-> t, job |-> tasks[t].of, outcome |-> None])
    /\ Mark(t, "running")
    /\ UNCHANGED ragVars

\* A job that is not queued is left alone, and its task marked by its status.
CheckJob(c) ==
    /\ call[c].at = "check"
    /\ Goto(c, IF call[c].job = None THEN "fail"
               ELSE CASE jobs[call[c].job] = "queued" -> "run"
                      [] jobs[call[c].job] = "failed" -> "fail"
                      [] OTHER -> "succeed")
    /\ UNCHANGED <<tasks, ragVars>>

\* RUNNING is saved whatever the status is by now; another worker may have
\* taken the request: a KeyError, which leaves the job so.
RunJob(c) ==
    /\ call[c].at = "run"
    /\ jobs' = [jobs EXCEPT ![call[c].job] = "running"]
    /\ Goto(c, IF call[c].job \in waiting THEN "build" ELSE "fail")
    /\ UNCHANGED <<tasks, stored, waiting, evidence>>

\* A ValueError of the build fails the job, and its request stays.
BuildFails(c) ==
    /\ call[c].at = "build"
    /\ jobs' = [jobs EXCEPT ![call[c].job] = "failed"]
    /\ Goto(c, "fail")
    /\ UNCHANGED <<tasks, stored, waiting, evidence>>

SaveJob(c) ==
    /\ call[c].at = "build"
    /\ jobs' = [jobs EXCEPT ![call[c].job] = "succeeded"]
    /\ stored' = Upserted(stored, call[c].job)
    /\ Goto(c, "index")
    /\ UNCHANGED <<tasks, waiting, evidence>>

\* The repository raises: the job stays RUNNING, which no worker runs again.
SaveRaises(c) ==
    /\ call[c].at = "build"
    /\ Goto(c, "fail")
    /\ UNCHANGED <<tasks, ragVars>>

PublishJob(c) ==
    /\ call[c].at = "index"
    /\ waiting' = waiting \ {call[c].job}
    /\ evidence' = Upserted(evidence, call[c].job)
    /\ Goto(c, "succeed")
    /\ UNCHANGED <<tasks, jobs, stored>>

MarkTask(c) ==
    /\ \/ call[c].at = "succeed" /\ Mark(call[c].task, "succeeded")
       \/ call[c].at = "fail" /\ Mark(call[c].task, "failed")
    /\ End(c, None)
    /\ UNCHANGED ragVars

RagStep(c) ==
    \/ QueueText(c) \/ CutText(c) \/ SaveText(c) \/ PublishText(c)
    \/ TakeIndexing(c) \/ CheckJob(c) \/ RunJob(c) \/ BuildFails(c) \/ SaveJob(c)
    \/ SaveRaises(c) \/ PublishJob(c) \/ MarkTask(c)

RagRestarts ==
    /\ waiting' = {}
    /\ evidence' = stored
    /\ UNCHANGED <<jobs, stored>>
=============================================================================
