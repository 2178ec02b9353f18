------------------------------ MODULE TaskQueue ------------------------------
(***************************************************************************)
(* InMemoryWorkerHandoffQueue, which the HTTP handlers and the workers     *)
(* share, and the threads (calls) that use it.  No method looks at the     *)
(* status a task already has: _replace_status rebuilds every field that    *)
(* changes, so its get and its assignment act as one write.                *)
(***************************************************************************)
EXTENDS Naturals, Sequences

CONSTANTS
    Calls,     \* requests and worker threads (bound)
    MaxTasks,  \* tasks ever queued (bound)
    NoCall, None

ASSUME TaskQueueAssumption == MaxTasks \in Nat /\ NoCall \notin Calls

VARIABLES
    tasks,  \* _tasks, in the order they were queued
    call,   \* per call: where its thread is, and its locals
    before  \* per call: the calls that had ended when it began (history)

\* "lost": no longer in _tasks, the process has restarted.
Statuses == {"queued", "running", "succeeded", "failed", "timed_out", "lost"}
Kinds == {"indexing", "analytics"}

\* Mutant: the payload is dropped.
Task_NoPayload(kind, of) == [kind |-> kind, of |-> None, status |-> "queued"]
Task(kind, of) == [kind |-> kind, of |-> of, status |-> "queued"]
Enqueue(kind, of) == Len(tasks) < MaxTasks /\ tasks' = Append(tasks, Task(kind, of))
Mark(t, status) == tasks' = [tasks EXCEPT ![t].status = status]

Idle == [at |-> "idle"]
Ended(c) == call[c].at \in {"idle", "done", "lost"}
Done == {c \in Calls : call[c].at \in {"done", "lost"}}

Begin(c, local) ==
    /\ call[c] = Idle
    /\ call' = [call EXCEPT ![c] = local]
    /\ before' = [before EXCEPT ![c] = Done]
Goto(c, label) == call' = [call EXCEPT ![c].at = label] /\ UNCHANGED before
End(c, outcome) ==
    call' = [call EXCEPT ![c].at = "done", ![c].outcome = outcome] /\ UNCHANGED before

QueueInit ==
    /\ tasks = <<>>
    /\ call = [c \in Calls |-> Idle]
    /\ before = [c \in Calls |-> {}]
=============================================================================
