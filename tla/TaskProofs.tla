------------------------------ MODULE TaskProofs ------------------------------
(***************************************************************************)
(* The task queue and its three users keep their promises for every number *)
(* of requests, workers, documents, texts and series, and every step of    *)
(* theirs in any order, a restart included.  IInv says of each store what  *)
(* a call has written of it as far as it has come: VectorInv, that the     *)
(* chunks it wrote are not older than the call, and that whoever wrote a   *)
(* document's chunk did not begin after the document's writer had ended;   *)
(* KeyInv, that the entries of the cache are the requests answered, and    *)
(* that one on its way to a task is the first of its key; TextInv, that a  *)
(* worker indexes a long text and a job that succeeded is stored, and      *)
(* findable or at a worker who is about to make it so; AnalysisInv, that   *)
(* who is about to mark a task succeeded has saved its result.             *)
(***************************************************************************)
EXTENDS TaskProperties, SequenceTheorems, TLAPS

-----------------------------------------------------------------------------
(* Types.                                                                  *)

\* A call indexes for a request, indexes a text, runs a job or an analysis.
IndexLocal == [at : {"document", "embed", "chunks", "answer", "done", "lost"},
               req : Requests, task : Nat, next : Nat, outcome : Outcomes]
TextLocal == [at : {"save", "publish", "done", "lost"}, text : RagTexts, outcome : Outcomes]
JobLocal == [at : {"check", "run", "build", "index", "succeed", "fail", "done", "lost"},
             task : Nat, job : JobIds \cup {None}, outcome : Outcomes]
AnalysisLocal == [at : {"analyze", "analyzed", "invalid", "done", "lost"},
                  task : Nat, series : Series, outcome : Outcomes]
Local == {Idle} \cup IndexLocal \cup TextLocal \cup JobLocal \cup AnalysisLocal

Asks(c) == call[c] \in IndexLocal
HasText(c) == call[c] \in TextLocal
Works(c) == call[c] \in JobLocal
Analyzes(c) == call[c] \in AnalysisLocal

TaskRecord == [kind : Kinds, of : JobIds \cup {None} \cup Series, status : Statuses]
Keys == {Key(r) : r \in Requests}
Entry == [body : {Body(r) : r \in Requests}, task : Nat \ {0}]
Written == [org : Orgs \cup {None}, by : Calls \cup {NoCall}]

Types ==
    /\ tasks \in Seq(TaskRecord)
    /\ call \in [Calls -> Local]
    /\ before \in [Calls -> SUBSET Calls]
    /\ vectorOn \in BOOLEAN
    /\ documents \in [Documents -> Written]
    /\ chunks \in [Slots -> Written]
    /\ cache \in [Keys -> Entry \cup {Unkeyed}]
    /\ jobs \in [JobIds -> JobStatuses]
    /\ stored \in [Slots -> Calls \cup {NoCall}]
    /\ evidence \in [Slots -> Calls \cup {NoCall}]
    /\ waiting \subseteq Calls
    /\ results \in [Traces -> {s.org : s \in Series} \cup {Legacy, None}]

\* Who is before a call has ended, and stays so.
Ordered == \A c \in Calls : before[c] \subseteq Done /\ c \notin before[c]

\* A call is at a task of its kind.
TasksNamed ==
    /\ \A t \in DOMAIN tasks :
         tasks[t].of \in IF tasks[t].kind = "indexing" THEN JobIds \cup {None} ELSE Series
    /\ \A c \in Calls : Asks(c) \/ Works(c) =>
         call[c].task \in DOMAIN tasks /\ tasks[call[c].task].kind = "indexing"
    /\ \A c \in Calls : Analyzes(c) =>
         /\ call[c].task \in DOMAIN tasks /\ tasks[call[c].task].kind = "analytics"
         /\ tasks[call[c].task].of = call[c].series

-----------------------------------------------------------------------------
(* The vector store.                                                       *)

\* The chunks a call has written, as far as it is, are there, and no older.
Wrote(c, p) ==
    \/ call[c].at = "chunks" /\ p < call[c].next
    \/ call[c].at = "answer" /\ vectorOn
    \/ call[c].at = "done" /\ call[c].outcome = "indexed"
Placed(c) ==
    /\ call[c].at \in {"document", "embed"} => call[c].next = 1
    /\ call[c].at \in {"embed", "chunks"} => call[c].next \in 1..call[c].req.size
    /\ \A p \in 1..call[c].req.size :
         Wrote(c, p) => chunks[<<call[c].req.doc, p>>].by \notin before[c] \cup {NoCall}

\* No call that wrote a chunk, or is about to, began after the one that wrote
\* the document had ended.
Follows(c, d) == documents[d].by \notin before[c]
DocumentsFirst ==
    /\ \A c \in Calls : Asks(c) /\ call[c].at \in {"embed", "chunks"} => Follows(c, call[c].req.doc)
    /\ \A d \in Documents, p \in Positions :
         \/ chunks[<<d, p>>] = Nothing
         \/ LET c == chunks[<<d, p>>].by IN
            /\ c \in Calls /\ Asks(c) /\ chunks[<<d, p>>].org = call[c].req.org
            /\ Follows(c, d)
    /\ \A d \in Documents :
         \/ documents[d] = Nothing
         \/ LET c == documents[d].by IN c \in Calls /\ Asks(c) /\ call[c].req.doc = d

VectorInv ==
    /\ \A c \in Calls : Asks(c) => Placed(c)
    /\ DocumentsFirst

-----------------------------------------------------------------------------
(* Keys.                                                                   *)

Queues(c) == Asks(c) /\ (call[c].at \in {"document", "embed", "chunks", "answer"} \/ Made(c))
SameKey(c, d) == Key(call[c].req) = Key(call[d].req)

\* An entry is that of a call which was answered, and such a call has one.
EntriesAreMade ==
    /\ \A k \in Keys : cache[k] # Unkeyed =>
         \E d \in Calls : /\ Made(d) /\ Keyed(call[d].req) /\ Key(call[d].req) = k
                          /\ cache[k] = [body |-> Body(call[d].req), task |-> call[d].task]
    /\ \A d \in Calls : Made(d) /\ Keyed(call[d].req) => cache[Key(call[d].req)] # Unkeyed
FirstOfKey ==
    \A c \in Calls : Queues(c) /\ Keyed(call[c].req) =>
        \A d \in before[c] : ~(Made(d) /\ SameKey(c, d))
ReplaysMade ==
    \A c \in Calls : Answered(c) /\ call[c].outcome = "replayed" =>
        \E d \in Calls : /\ Made(d) /\ call[d].task = call[c].task /\ SameKey(c, d)
                         /\ Body(call[d].req) = Body(call[c].req)

KeyInv == EntriesAreMade /\ FirstOfKey /\ ReplaysMade

-----------------------------------------------------------------------------
(* Texts and jobs.                                                         *)

LongText(c) == c \in Calls /\ HasText(c) /\ call[c].text.long
JobsAreTexts ==
    /\ \A c \in Calls : Works(c) /\ call[c].at \in {"build", "index"} => LongText(call[c].job)
    /\ \A c \in waiting : LongText(c)
    /\ \A s \in Slots : /\ stored[s] \in Calls => HasText(stored[s])
                        /\ evidence[s] \in Calls => HasText(evidence[s])
TextsAreFound ==
    \A c \in Calls : IndexedText(c) =>
        \A p \in 1..call[c].text.size :
            LET by == evidence[<<call[c].text.doc, p>>]
            IN by # NoCall /\ (call[by].text.long \/ by \notin before[c])
JobsAreFound ==
    \A j \in Calls : jobs[j] = "succeeded" =>
        /\ HasText(j) /\ Covered(stored, call[j].text)
        /\ \/ Covered(evidence, call[j].text)
           \/ \E c \in Calls : Works(c) /\ call[c].at = "index" /\ call[c].job = j

TextInv == JobsAreTexts /\ TextsAreFound /\ JobsAreFound

-----------------------------------------------------------------------------
(* Analyses.                                                               *)

Resulted(s) == results[s.trace] # None
AnalysisInv ==
    /\ \A c \in Calls : Analyzes(c) /\ call[c].at = "analyzed" => Resulted(call[c].series)
    /\ \A t \in DOMAIN tasks : tasks[t].kind = "analytics" /\ tasks[t].status = "succeeded"
         => Resulted(tasks[t].of)

IInv == Types /\ Ordered /\ TasksNamed /\ VectorInv /\ KeyInv /\ TextInv /\ AnalysisInv

-----------------------------------------------------------------------------
(* How a step changes the call that takes it.                              *)

\* What a call holds tells what it is doing.
LEMMA LocalsApart ==
    ASSUME NEW x \in Local
    PROVE  /\ "req" \in DOMAIN x <=> x \in IndexLocal
           /\ "text" \in DOMAIN x <=> x \in TextLocal
           /\ "job" \in DOMAIN x <=> x \in JobLocal
           /\ x = Idle <=> x.at = "idle"
BY DEF Local, Idle, IndexLocal, TextLocal, JobLocal, AnalysisLocal

\* A call is of one kind of work at a time.
LEMMA LocalsDiffer ==
    /\ Idle \notin IndexLocal \cup TextLocal \cup JobLocal \cup AnalysisLocal
    /\ IndexLocal \cap TextLocal = {} /\ IndexLocal \cap JobLocal = {}
    /\ IndexLocal \cap AnalysisLocal = {} /\ TextLocal \cap JobLocal = {}
    /\ TextLocal \cap AnalysisLocal = {} /\ JobLocal \cap AnalysisLocal = {}
BY DEF Idle, IndexLocal, TextLocal, JobLocal, AnalysisLocal

\* A step of call c, of one kind, at a label it does not rest at.
Frame(c, kind) ==
    /\ call' \in [Calls -> Local] /\ before' \in [Calls -> SUBSET Calls]
    /\ \A q \in Calls \ {c} : call'[q] = call[q] /\ before'[q] = before[q]
    /\ call'[c] \in kind /\ call'[c].at \notin {"idle", "lost"}
    /\ \/ call[c] = Idle /\ before'[c] = Done
       \/ call[c] \in kind /\ ~Ended(c) /\ before'[c] = before[c]

\* A call that begins takes its first step, and what had ended is before it.
LEMMA Begins ==
    ASSUME Types, NEW c \in Calls, NEW kind \in SUBSET Local, NEW local \in kind,
           local.at \notin {"idle", "lost"}, Begin(c, local)
    PROVE  Frame(c, kind) /\ call'[c] = local /\ call[c] = Idle
<1>1. call' = [call EXCEPT ![c] = local] /\ before' = [before EXCEPT ![c] = Done]
      /\ call[c] = Idle /\ Done \subseteq Calls
  BY DEF Begin, Done
<1>. QED
  BY <1>1 DEF Types, Frame

\* A call that goes on keeps who was before it.
LEMMA Goes ==
    ASSUME Types, NEW c \in Calls, NEW kind \in SUBSET Local, NEW local \in kind,
           local.at \notin {"idle", "lost"}, call' = [call EXCEPT ![c] = local],
           call[c] \in kind, ~Ended(c), before' = before
    PROVE  Frame(c, kind) /\ call'[c] = local
BY DEF Types, Frame

\* Who has ended is left alone, and nobody is before one who has not.
LEMMA FrameKeepsOrder ==
    ASSUME Types, Ordered, NEW c \in Calls, NEW kind, Frame(c, kind)
    PROVE  /\ Ordered' /\ c \notin Done
           /\ \A q \in Calls : c \notin before[q] /\ c \notin before'[q]
           /\ \A q \in Done : q \in Done' /\ call'[q] = call[q]
<1>1. c \notin Done
  BY DEF Frame, Done, Ended, Idle
<1>2. \A q \in Calls : c \notin before[q]
  BY <1>1 DEF Ordered
<1>3. \A q \in Done : q \in Done' /\ call'[q] = call[q]
  BY <1>1 DEF Done, Frame
<1>4. \A q \in Calls : before'[q] \subseteq Done /\ q \notin before'[q]
  BY <1>1 DEF Ordered, Frame
<1>. QED
  BY <1>1, <1>2, <1>3, <1>4 DEF Ordered

\* What no call of a kind has changed.
Same(kind) ==
    \A q \in Calls :
        /\ call'[q] \in kind <=> call[q] \in kind
        /\ call[q] \in kind => call'[q] = call[q] /\ before'[q] = before[q]

\* The step of one kind of call leaves the calls of another kind alone.
LEMMA OthersSame ==
    ASSUME NEW c \in Calls, NEW kind, Frame(c, kind), NEW other, Idle \notin other,
           kind \cap other = {}
    PROVE  Same(other)
BY DEF Frame, Same

TasksGrow ==
    /\ tasks' \in Seq(TaskRecord)
    /\ \A t \in DOMAIN tasks : /\ t \in DOMAIN tasks'
                               /\ tasks'[t].kind = tasks[t].kind /\ tasks'[t].of = tasks[t].of

\* _replace_status changes the status of one task, and nothing else of it.
LEMMA Marks ==
    ASSUME Types, NEW t \in DOMAIN tasks, NEW status \in Statuses, Mark(t, status)
    PROVE  /\ TasksGrow /\ DOMAIN tasks' = DOMAIN tasks /\ Len(tasks') = Len(tasks)
           /\ tasks'[t].status = status
           /\ \A u \in DOMAIN tasks \ {t} : tasks'[u] = tasks[u]
<1> DEFINE new == [tasks[t] EXCEPT !.status = status]
<1>1. t \in 1..Len(tasks) /\ tasks[t] \in TaskRecord /\ DOMAIN tasks = 1..Len(tasks)
  BY LenProperties, ElementOfSeq DEF Types
<1>2. new \in TaskRecord /\ new.kind = tasks[t].kind /\ new.of = tasks[t].of /\ new.status = status
  BY <1>1 DEF TaskRecord
<1>3. tasks' = [tasks EXCEPT ![t] = new]
  BY DEF Mark
<1> HIDE DEF new
<1>4. /\ tasks' \in Seq(TaskRecord) /\ Len(tasks') = Len(tasks)
      /\ \A u \in 1..Len(tasks) : tasks'[u] = IF u = t THEN new ELSE tasks[u]
  BY <1>1, <1>2, <1>3, ExceptSeq DEF Types
<1>5. DOMAIN tasks' = 1..Len(tasks)
  BY <1>4, LenProperties
<1>. QED
  BY <1>1, <1>2, <1>4, <1>5 DEF TasksGrow

\* A task that is queued is a new one, after those there are.
LEMMA Enqueues ==
    ASSUME Types, NEW kind \in Kinds, NEW of \in JobIds \cup {None} \cup Series, Enqueue(kind, of)
    PROVE  /\ TasksGrow /\ DOMAIN tasks' = DOMAIN tasks \cup {Len(tasks')}
           /\ tasks'[Len(tasks')] = Task(kind, of) /\ Len(tasks') \in Nat \ {0}
           /\ Len(tasks') \notin DOMAIN tasks
           /\ \A t \in DOMAIN tasks : tasks'[t] = tasks[t]
<1>1. Task(kind, of) \in TaskRecord
  BY DEF Task, TaskRecord, Statuses
<1>2. tasks' = Append(tasks, Task(kind, of)) /\ tasks \in Seq(TaskRecord)
  BY DEF Types, Enqueue
<1>3. /\ tasks' \in Seq(TaskRecord) /\ Len(tasks') = Len(tasks) + 1
      /\ \A t \in 1..Len(tasks) : tasks'[t] = tasks[t]
      /\ tasks'[Len(tasks) + 1] = Task(kind, of)
  BY <1>1, <1>2, AppendProperties
<1>4. Len(tasks) \in Nat /\ DOMAIN tasks = 1..Len(tasks) /\ DOMAIN tasks' = 1..Len(tasks) + 1
  BY <1>2, <1>3, LenProperties
<1>. QED
  BY <1>3, <1>4 DEF TasksGrow

\* A queue left alone is one that grew by nothing.
LEMMA TasksStay ==
    ASSUME Types, tasks' = tasks
    PROVE  TasksGrow
BY DEF Types, TasksGrow

-----------------------------------------------------------------------------
(* What a step of another kind leaves alone.                               *)

\* A call is made, or answered, when it is one that asks.
LEMMA MadeAsks ==
    ASSUME Types, NEW c \in Calls
    PROVE  /\ Answered(c) <=> Asks(c) /\ call[c].at = "done"
           /\ Indexed(c) <=> Asks(c) /\ call[c].at = "done" /\ call[c].outcome = "indexed"
           /\ Made(c) <=> /\ Asks(c) /\ call[c].at = "done"
                          /\ call[c].outcome \in {"indexed", "queued"}
           /\ IndexedText(c) <=> HasText(c) /\ call[c].at = "done" /\ call[c].outcome = "indexed"
BY LocalsApart DEF Types, Answered, Indexed, Made, IndexedText, Asks, HasText

\* What is no index request and leaves the vector store alone keeps VectorInv, ...
LEMMA VectorElsewhere ==
    ASSUME Types, VectorInv, Same(IndexLocal), UNCHANGED <<vectorOn, documents, chunks>>
    PROVE  VectorInv'
<1>1. \A c \in Calls : /\ Asks(c)' <=> Asks(c)
                       /\ Asks(c) => call'[c] = call[c] /\ before'[c] = before[c]
  BY DEF Same, Asks
<1>2. \A c \in Calls : Asks(c)' => Placed(c)'
  BY <1>1 DEF VectorInv, Placed, Wrote
<1>3. DocumentsFirst'
  BY <1>1 DEF VectorInv, DocumentsFirst, Follows
<1>. QED
  BY <1>2, <1>3 DEF VectorInv

\* ... KeyInv, when the keys stay, ...
LEMMA KeyElsewhere ==
    ASSUME Types, Types', Ordered, Ordered', KeyInv, Same(IndexLocal), cache' = cache
    PROVE  KeyInv'
<1>1. \A c \in Calls : /\ Asks(c)' <=> Asks(c)
                       /\ Asks(c) => call'[c] = call[c] /\ before'[c] = before[c]
  BY DEF Same, Asks
<1>2. \A c \in Calls : /\ Made(c)' <=> /\ Asks(c)' /\ call'[c].at = "done"
                                       /\ call'[c].outcome \in {"indexed", "queued"}
                       /\ Answered(c)' <=> Asks(c)' /\ call'[c].at = "done"
  BY LocalsApart DEF Types, Made, Answered, Asks
<1>3. \A c \in Calls : (Made(c)' <=> Made(c)) /\ (Answered(c)' <=> Answered(c))
                       /\ (Made(c) \/ Answered(c) => Asks(c))
  BY <1>1, <1>2, MadeAsks
<1>4. EntriesAreMade'
  BY <1>1, <1>3 DEF KeyInv, EntriesAreMade
<1>5. FirstOfKey'
  <2> SUFFICES ASSUME NEW c \in Calls, Queues(c)', Keyed(call[c].req)', NEW d \in before'[c],
                      Made(d)', SameKey(c, d)'
               PROVE  FALSE
    BY DEF FirstOfKey
  <2>1. Queues(c) /\ call'[c] = call[c] /\ d \in before[c]
    BY <1>1, <1>3 DEF Queues
  <2>2. d \in Calls
    BY <2>1 DEF Types
  <2>3. Made(d) /\ call'[d] = call[d]
    BY <1>1, <1>3, <2>2
  <2>. QED
    BY <2>1, <2>3 DEF KeyInv, FirstOfKey, SameKey
<1>6. ReplaysMade'
  BY <1>1, <1>3 DEF KeyInv, ReplaysMade, SameKey
<1>. QED
  BY <1>4, <1>5, <1>6 DEF KeyInv

\* ... TextInv, when neither a text, a worker nor their stores move, ...
LEMMA TextElsewhere ==
    ASSUME Types, Types', TextInv, Same(TextLocal), Same(JobLocal), UNCHANGED ragVars
    PROVE  TextInv'
<1>1. \A c \in Calls : /\ HasText(c)' <=> HasText(c)
                       /\ HasText(c) => call'[c] = call[c] /\ before'[c] = before[c]
                       /\ Works(c)' <=> Works(c)
                       /\ Works(c) => call'[c] = call[c]
  BY DEF Same, HasText, Works
<1>2. UNCHANGED <<jobs, stored, waiting, evidence>>
  BY DEF ragVars
<1>3. JobsAreTexts'
  <2>1. \A x : LongText(x)' <=> LongText(x)
    BY <1>1 DEF LongText
  <2>. QED
    BY <1>1, <1>2, <2>1 DEF TextInv, JobsAreTexts, Types
<1>4. \A c \in Calls : IndexedText(c)' => IndexedText(c)
  <2>1. \A c \in Calls : IndexedText(c)' => HasText(c)'
    BY LocalsApart DEF Types, IndexedText, HasText
  <2>. QED
    BY <1>1, <2>1 DEF IndexedText
<1>5. TextsAreFound'
  <2> SUFFICES ASSUME NEW c \in Calls, IndexedText(c)', NEW p \in 1..call[c].text.size
               PROVE  LET by == evidence[<<call[c].text.doc, p>>]
                      IN by # NoCall /\ (call'[by].text.long \/ by \notin before[c])
    BY <1>1, <1>2, <1>4, MadeAsks DEF TextsAreFound
  <2> DEFINE s == <<call[c].text.doc, p>>
  <2>1. HasText(c) /\ IndexedText(c) /\ call[c] \in TextLocal
    BY <1>4, MadeAsks DEF HasText
  <2>2. evidence[s] # NoCall /\ (call[evidence[s]].text.long \/ evidence[s] \notin before[c])
    BY <2>1 DEF TextInv, TextsAreFound
  <2>3. s \in Slots
    BY <2>1, RagIndexingAssumption DEF TextLocal, Slots, Positions
  <2>4. HasText(evidence[s]) /\ evidence[s] \in Calls
    BY <2>2, <2>3 DEF TextInv, JobsAreTexts, Types
  <2>. QED
    BY <1>1, <2>2, <2>4
<1>6. JobsAreFound'
  BY <1>1, <1>2 DEF TextInv, JobsAreFound, Covered
<1>. QED
  BY <1>3, <1>5, <1>6 DEF TextInv

\* ... and AnalysisInv, when no analytics task succeeds.
LEMMA AnalysisElsewhere ==
    ASSUME Types, AnalysisInv, Same(AnalysisLocal), results' = results,
           \A t \in DOMAIN tasks' :
               tasks'[t].kind = "analytics" /\ tasks'[t].status = "succeeded" =>
                   t \in DOMAIN tasks /\ tasks'[t] = tasks[t]
    PROVE  AnalysisInv'
BY DEF AnalysisInv, Same, Analyzes, Resulted

-----------------------------------------------------------------------------
(* Index requests.                                                         *)

\* The tasks are named when those of the call that moved are.
LEMMA NamesStay ==
    ASSUME Types, TasksNamed, NEW c \in Calls, NEW kind, Frame(c, kind), TasksGrow,
           \A t \in DOMAIN tasks' \ DOMAIN tasks :
               tasks'[t].of \in IF tasks'[t].kind = "indexing" THEN JobIds \cup {None} ELSE Series,
           Asks(c)' \/ Works(c)' =>
               call'[c].task \in DOMAIN tasks' /\ tasks'[call'[c].task].kind = "indexing",
           Analyzes(c)' => /\ call'[c].task \in DOMAIN tasks'
                           /\ tasks'[call'[c].task].kind = "analytics"
                           /\ tasks'[call'[c].task].of = call'[c].series
    PROVE  TasksNamed'
<1>1. \A t \in DOMAIN tasks' :
        tasks'[t].of \in IF tasks'[t].kind = "indexing" THEN JobIds \cup {None} ELSE Series
  BY DEF TasksNamed, TasksGrow
<1>2. \A q \in Calls \ {c} : call'[q] = call[q]
  BY DEF Frame
<1>3. \A q \in Calls : Asks(q)' \/ Works(q)' =>
        call'[q].task \in DOMAIN tasks' /\ tasks'[call'[q].task].kind = "indexing"
  BY <1>2 DEF TasksNamed, TasksGrow, Asks, Works
<1>4. \A q \in Calls : Analyzes(q)' =>
        /\ call'[q].task \in DOMAIN tasks' /\ tasks'[call'[q].task].kind = "analytics"
        /\ tasks'[call'[q].task].of = call'[q].series
  BY <1>2 DEF TasksNamed, TasksGrow, Analyzes
<1>. QED
  BY <1>1, <1>3, <1>4 DEF TasksNamed

\* A step that writes nothing to the vector store.
LEMMA VectorOthers ==
    ASSUME Types, VectorInv, NEW c \in Calls, Frame(c, IndexLocal),
           UNCHANGED <<vectorOn, documents, chunks>>, Placed(c)',
           Asks(c) => call'[c].req = call[c].req /\ before'[c] = before[c],
           call'[c].at \in {"embed", "chunks"} => Asks(c) /\ call[c].at \in {"embed", "chunks"}
    PROVE  VectorInv'
<1>1. \A q \in Calls \ {c} : call'[q] = call[q] /\ before'[q] = before[q]
  BY DEF Frame
<1>2. \A q \in Calls : Asks(q)' => Placed(q)'
  BY <1>1 DEF VectorInv, Asks, Placed, Wrote
<1>3. Asks(c)'
  BY DEF Frame, Asks
<1>4. DocumentsFirst'
  BY <1>1, <1>3 DEF VectorInv, DocumentsFirst, Follows, Asks
<1>. QED
  BY <1>2, <1>4 DEF VectorInv

\* A step after which the call has not made a task, and no entry has changed.
LEMMA KeyOthers ==
    ASSUME Types, Types', Ordered, KeyInv, NEW c \in Calls, Frame(c, IndexLocal), cache' = cache,
           ~Made(c)',
           Queues(c)' /\ Keyed(call'[c].req) => \A d \in before'[c] :
               ~(Made(d) /\ Key(call[d].req) = Key(call'[c].req)),
           call'[c].at = "done" /\ call'[c].outcome = "replayed" =>
               \E d \in Calls : /\ Made(d) /\ call[d].task = call'[c].task
                                /\ Key(call'[c].req) = Key(call[d].req)
                                /\ Body(call[d].req) = Body(call'[c].req)
    PROVE  KeyInv'
<1>1. /\ \A q \in Calls \ {c} : call'[q] = call[q] /\ before'[q] = before[q]
      /\ c \notin Done /\ \A q \in Calls : c \notin before'[q]
  BY FrameKeepsOrder DEF Frame
<1>2. ~Made(c) /\ ~Answered(c)
  BY <1>1 DEF Made, Answered, Done
<1>3. \A d \in Calls \ {c} : /\ Made(d)' <=> Made(d)
                             /\ Answered(d)' <=> Answered(d)
                             /\ Queues(d)' <=> Queues(d)
  BY <1>1 DEF Made, Answered, Queues, Asks
<1>4. EntriesAreMade'
  <2>1. ASSUME NEW k \in Keys, cache'[k] # Unkeyed
        PROVE  \E d \in Calls : /\ Made(d)' /\ Keyed(call'[d].req) /\ Key(call'[d].req) = k
                  /\ cache'[k] = [body |-> Body(call'[d].req), task |-> call'[d].task]
    <3>1. PICK d \in Calls : /\ Made(d) /\ Keyed(call[d].req) /\ Key(call[d].req) = k
                             /\ cache[k] = [body |-> Body(call[d].req), task |-> call[d].task]
      BY <2>1 DEF KeyInv, EntriesAreMade
    <3>2. d # c
      BY <1>2, <3>1
    <3>. QED
      BY <1>1, <1>3, <3>1, <3>2
  <2>2. ASSUME NEW d \in Calls, Made(d)', Keyed(call'[d].req)
        PROVE  cache'[Key(call'[d].req)] # Unkeyed
    BY <1>1, <1>3, <2>2 DEF KeyInv, EntriesAreMade
  <2>. QED
    BY <2>1, <2>2 DEF EntriesAreMade
<1>5. FirstOfKey'
  <2> SUFFICES ASSUME NEW q \in Calls, Queues(q)', Keyed(call[q].req)', NEW d \in before'[q],
                      Made(d)', SameKey(q, d)'
               PROVE  FALSE
    BY DEF FirstOfKey
  <2>1. d \in Calls /\ d # c
    BY <1>1 DEF Types
  <2>2. Made(d) /\ call'[d] = call[d]
    BY <1>1, <1>3, <2>1
  <2>3. CASE q = c
    BY <2>2, <2>3 DEF SameKey
  <2>4. CASE q # c
    BY <1>1, <1>3, <2>2, <2>4 DEF SameKey, KeyInv, FirstOfKey
  <2>. QED
    BY <2>3, <2>4
<1>6. ReplaysMade'
  <2> SUFFICES ASSUME NEW q \in Calls, Answered(q)', call'[q].outcome = "replayed"
               PROVE  \E d \in Calls : /\ Made(d)' /\ call'[d].task = call'[q].task /\ SameKey(q, d)'
                                       /\ Body(call'[d].req) = Body(call'[q].req)
    BY DEF ReplaysMade
  <2>1. CASE q = c
    <3>1. call'[c].at = "done"
      BY <2>1 DEF Answered
    <3>2. PICK d \in Calls : /\ Made(d) /\ call[d].task = call'[c].task
                             /\ Key(call'[c].req) = Key(call[d].req)
                             /\ Body(call[d].req) = Body(call'[c].req)
      BY <2>1, <3>1
    <3>3. d # c
      BY <1>2, <3>2
    <3>. QED
      BY <1>1, <1>3, <2>1, <3>2, <3>3 DEF SameKey
  <2>2. CASE q # c
    <3>1. Answered(q) /\ call'[q] = call[q]
      BY <1>1, <1>3, <2>2
    <3>2. PICK d \in Calls : /\ Made(d) /\ call[d].task = call[q].task /\ SameKey(q, d)
                             /\ Body(call[d].req) = Body(call[q].req)
      BY <3>1 DEF KeyInv, ReplaysMade
    <3>3. d # c
      BY <1>2, <3>2
    <3>. QED
      BY <1>1, <1>3, <3>1, <3>2, <3>3 DEF SameKey
  <2>. QED
    BY <2>1, <2>2
<1>. QED
  BY <1>4, <1>5, <1>6 DEF KeyInv

\* What the steps of index requests have in common.
LEMMA IndexRest ==
    ASSUME IInv, NEW c \in Calls, Frame(c, IndexLocal), Types', UNCHANGED <<ragVars, results>>,
           VectorInv', KeyInv', TasksNamed',
           \A t \in DOMAIN tasks' :
               tasks'[t].kind = "analytics" /\ tasks'[t].status = "succeeded" =>
                   t \in DOMAIN tasks /\ tasks'[t] = tasks[t]
    PROVE  IInv'
<1>1. Same(TextLocal) /\ Same(JobLocal) /\ Same(AnalysisLocal)
  BY LocalsDiffer, OthersSame
<1>2. Ordered'
  BY FrameKeepsOrder DEF IInv
<1>3. TextInv'
  BY <1>1, TextElsewhere DEF IInv
<1>4. AnalysisInv'
  BY <1>1, AnalysisElsewhere DEF IInv
<1>. QED
  BY <1>2, <1>3, <1>4 DEF IInv

\* A request of an unknown key: nobody who ended has been answered with it.
LEMMA QueueTaskKeeps ==
    ASSUME IInv, NEW c \in Calls, QueueTask(c), UNCHANGED <<ragVars, results>>
    PROVE  IInv'
<1>1. PICK r \in Requests :
        /\ Keyed(r) => Cached(r) = {}
        /\ Enqueue("indexing", None)
        /\ Begin(c, Start(r, IF vectorOn THEN "document" ELSE "answer", Len(tasks'), None))
        /\ UNCHANGED indexVars
  BY DEF QueueTask
<1>2. Types /\ Ordered /\ TasksNamed /\ VectorInv /\ KeyInv
  BY DEF IInv
<1>3. /\ TasksGrow /\ DOMAIN tasks' = DOMAIN tasks \cup {Len(tasks')}
      /\ tasks'[Len(tasks')] = Task("indexing", None) /\ Len(tasks') \in Nat \ {0}
      /\ \A t \in DOMAIN tasks : tasks'[t] = tasks[t]
  BY <1>1, <1>2, Enqueues DEF Kinds
<1> PICK n : n = Len(tasks')
  OBVIOUS
<1>4. PICK l \in {"document", "answer"} :
        /\ Begin(c, Start(r, l, n, None))
        /\ l = "answer" => ~vectorOn
  BY <1>1, <1>2 DEF Types
<1>5. Start(r, l, n, None) \in IndexLocal
  BY <1>3 DEF Start, IndexLocal, Outcomes
<1>6. /\ Frame(c, IndexLocal) /\ call'[c] = Start(r, l, n, None) /\ call[c] = Idle
  <2>1. IndexLocal \subseteq Local
    BY DEF Local
  <2>2. Start(r, l, n, None).at = l
    BY DEF Start
  <2>. QED
    BY <1>2, <1>4, <1>5, <2>1, <2>2, Begins
<1>7. /\ call'[c].at = l /\ call'[c].req = r /\ call'[c].task = n
      /\ call'[c].next = 1 /\ before'[c] = Done /\ ~Asks(c)
  BY <1>6, LocalsDiffer DEF Start, Frame, Asks
<1>8. UNCHANGED <<vectorOn, documents, chunks, cache, jobs, stored, waiting, evidence, results>>
  BY <1>1 DEF indexVars, ragVars
<1>9. Types'
  <2>1. /\ tasks' \in Seq(TaskRecord)
        /\ call' \in [Calls -> Local] /\ before' \in [Calls -> SUBSET Calls]
    BY <1>3, <1>6 DEF Frame, TasksGrow
  <2>. QED
    BY <1>2, <1>8, <2>1 DEF Types
<1>10. VectorInv'
  <2>1. Placed(c)'
    BY <1>4, <1>7, <1>8 DEF Placed, Wrote
  <2>. QED
    BY <1>2, <1>6, <1>7, <1>8, <2>1, VectorOthers
<1>11. KeyInv'
  <2>1. ~Made(c)'
    BY <1>7 DEF Made, Answered
  <2>2. Keyed(r) => \A d \in Done : ~(Made(d) /\ Key(call[d].req) = Key(r))
    <3> SUFFICES ASSUME Keyed(r), NEW d \in Done, Made(d), Key(call[d].req) = Key(r)
                 PROVE  FALSE
      OBVIOUS
    <3>1. d \in Calls /\ Keyed(call[d].req)
      BY DEF Done, Keyed, Key
    <3>2. cache[Key(r)] # Unkeyed
      BY <1>2, <3>1 DEF KeyInv, EntriesAreMade
    <3>. QED
      BY <1>1, <3>2 DEF Cached
  <2>. QED
    BY <1>2, <1>6, <1>7, <1>8, <1>9, <2>1, <2>2, KeyOthers
<1>12. TasksNamed'
  <2>1. ~Analyzes(c)' /\ Task("indexing", None).kind = "indexing" /\ Task("indexing", None).of = None
    BY <1>6, LocalsDiffer DEF Analyzes, Frame, Task
  <2>. QED
    BY <1>2, <1>3, <1>6, <1>7, <2>1, NamesStay
<1>13. \A t \in DOMAIN tasks' :
         tasks'[t].kind = "analytics" /\ tasks'[t].status = "succeeded" =>
             t \in DOMAIN tasks /\ tasks'[t] = tasks[t]
  <2>1. tasks'[Len(tasks')].kind # "analytics"
    BY <1>3 DEF Task
  <2>. QED
    BY <1>3, <2>1
<1>. QED
  BY <1>6, <1>9, <1>10, <1>11, <1>12, <1>13, IndexRest

\* A request of a key used before gets the task of the one that was answered.
LEMMA ReplayKeeps ==
    ASSUME IInv, NEW c \in Calls, Replay(c), UNCHANGED <<ragVars, results>>
    PROVE  IInv'
<1>1. PICK r \in Requests : \E entry \in Cached(r) :
        /\ Keyed(r)
        /\ Begin(c, Start(r, "done", entry.task,
                          IF entry.body = Body(r) THEN "replayed" ELSE "mismatch"))
        /\ UNCHANGED <<tasks, indexVars>>
  BY DEF Replay
<1>2. Types /\ Ordered /\ TasksNamed /\ VectorInv /\ KeyInv
  BY DEF IInv
<1>3. PICK entry : /\ entry = cache[Key(r)] /\ entry # Unkeyed
        /\ Begin(c, Start(r, "done", entry.task,
                          IF entry.body = Body(r) THEN "replayed" ELSE "mismatch"))
  BY <1>1 DEF Cached
<1>4. PICK d \in Calls : /\ Made(d) /\ Key(call[d].req) = Key(r)
                         /\ entry = [body |-> Body(call[d].req), task |-> call[d].task]
  BY <1>2, <1>3 DEF KeyInv, EntriesAreMade, Keys
<1>5. /\ entry.task = call[d].task /\ entry.body = Body(call[d].req)
      /\ Asks(d) /\ entry.task \in DOMAIN tasks /\ tasks[entry.task].kind = "indexing"
      /\ entry.task \in Nat
  BY <1>2, <1>4, MadeAsks DEF TasksNamed, Asks, IndexLocal
<1>6. PICK o \in {"replayed", "mismatch"} :
        /\ o = "replayed" => entry.body = Body(r)
        /\ Begin(c, Start(r, "done", entry.task, o))
  BY <1>3
<1>7. Start(r, "done", entry.task, o) \in IndexLocal
  BY <1>5 DEF Start, IndexLocal, Outcomes
<1>8. /\ Frame(c, IndexLocal) /\ call'[c] = Start(r, "done", entry.task, o) /\ call[c] = Idle
  <2>1. IndexLocal \subseteq Local
    BY DEF Local
  <2>2. Start(r, "done", entry.task, o).at = "done"
    BY DEF Start
  <2>. QED
    BY <1>2, <1>6, <1>7, <2>1, <2>2, Begins
<1>9. /\ call'[c].at = "done" /\ call'[c].req = r /\ call'[c].task = entry.task
      /\ call'[c].outcome = o /\ before'[c] = Done /\ ~Asks(c)
  BY <1>8, LocalsDiffer DEF Start, Frame, Asks
<1>10. UNCHANGED <<tasks, vectorOn, documents, chunks, cache, jobs, stored, waiting, evidence, results>>
  BY <1>1 DEF indexVars, ragVars
<1>11. Types'
  BY <1>2, <1>8, <1>10 DEF Types, Frame
<1>12. VectorInv'
  <2>1. Placed(c)'
    BY <1>9 DEF Placed, Wrote
  <2>. QED
    BY <1>2, <1>8, <1>9, <1>10, <2>1, VectorOthers
<1>13. KeyInv'
  <2>1. ~Made(c)' /\ ~Queues(c)'
    BY <1>9 DEF Made, Queues
  <2>. QED
    BY <1>2, <1>4, <1>5, <1>6, <1>8, <1>9, <1>10, <1>11, <2>1, KeyOthers
<1>14. TasksNamed'
  <2>1. ~Analyzes(c)'
    BY <1>8, LocalsDiffer DEF Analyzes, Frame
  <2>. QED
    BY <1>2, <1>5, <1>8, <1>9, <1>10, <2>1, TasksStay, NamesStay
<1>. QED
  BY <1>8, <1>10, <1>11, <1>12, <1>13, <1>14, IndexRest

\* A request goes on, and what it asks and its task stay.
LEMMA IndexGoes ==
    ASSUME IInv, NEW c \in Calls, Asks(c), ~Ended(c), before' = before, NEW new \in IndexLocal,
           new.at \in {"document", "embed", "chunks", "answer", "done"},
           new.req = call[c].req, new.task = call[c].task, call' = [call EXCEPT ![c] = new]
    PROVE  /\ Frame(c, IndexLocal) /\ call'[c] = new
           /\ call'[c].req = call[c].req /\ call'[c].task = call[c].task
           /\ before'[c] = before[c] /\ ~Analyzes(c)'
<1>1. call[c] \in IndexLocal /\ Types /\ IndexLocal \subseteq Local
  BY DEF Asks, IInv, Local
<1>2. Frame(c, IndexLocal) /\ call'[c] = new
  BY <1>1, Goes
<1>3. ~Analyzes(c)'
  BY <1>2, LocalsDiffer DEF Analyzes
<1>. QED
  BY <1>2, <1>3

\* Where a request is tells that it is one.
LEMMA WhoAsks ==
    ASSUME Types, NEW c \in Calls, call[c].at \in {"document", "embed", "chunks", "answer"}
    PROVE  /\ Asks(c) /\ ~Ended(c) /\ call[c].next \in Nat /\ call[c].outcome \in Outcomes
           /\ call[c].req \in Requests /\ call[c].task \in Nat
<1>1. call[c] \in Local
  BY DEF Types
<1>2. Asks(c)
  BY <1>1 DEF Local, Idle, IndexLocal, TextLocal, JobLocal, AnalysisLocal, Asks
<1>. QED
  BY <1>2 DEF Asks, IndexLocal, Ended

\* A request goes to its next step, and keeps the rest.
LEMMA IndexGoto ==
    ASSUME IInv, NEW c \in Calls, call[c].at \in {"document", "embed", "chunks", "answer"},
           NEW at \in {"document", "embed", "chunks", "answer", "done"}, Goto(c, at)
    PROVE  /\ Frame(c, IndexLocal) /\ Asks(c) /\ ~Ended(c)
           /\ call'[c].at = at /\ call'[c].next = call[c].next
           /\ call'[c].outcome = call[c].outcome
           /\ call'[c].req = call[c].req /\ call'[c].task = call[c].task
           /\ before'[c] = before[c] /\ ~Analyzes(c)'
<1>1. Types
  BY DEF IInv
<1>2. Asks(c) /\ ~Ended(c)
  BY <1>1, WhoAsks
<1> PICK x \in IndexLocal : x = call[c]
  BY <1>2 DEF Asks
<1> PICK new : new = [x EXCEPT !.at = at]
  OBVIOUS
<1>3. /\ new \in IndexLocal /\ new.at = at /\ new.next = x.next /\ new.outcome = x.outcome
      /\ new.req = x.req /\ new.task = x.task
  BY DEF IndexLocal
<1>4. call' = [call EXCEPT ![c] = new] /\ before' = before
  BY DEF Goto
<1>. QED
  BY <1>2, <1>3, <1>4, IndexGoes

\* A request ends with an outcome, and keeps the rest.
LEMMA IndexEnds ==
    ASSUME IInv, NEW c \in Calls, call[c].at \in {"document", "embed", "chunks", "answer"},
           NEW outcome \in Outcomes, End(c, outcome)
    PROVE  /\ Frame(c, IndexLocal) /\ Asks(c) /\ ~Ended(c)
           /\ call'[c].at = "done" /\ call'[c].next = call[c].next
           /\ call'[c].outcome = outcome
           /\ call'[c].req = call[c].req /\ call'[c].task = call[c].task
           /\ before'[c] = before[c] /\ ~Analyzes(c)'
<1>1. Types
  BY DEF IInv
<1>2. Asks(c) /\ ~Ended(c)
  BY <1>1, WhoAsks
<1> PICK x \in IndexLocal : x = call[c]
  BY <1>2 DEF Asks
<1> PICK new : new = [x EXCEPT !.at = "done", !.outcome = outcome]
  OBVIOUS
<1>3. /\ new \in IndexLocal /\ new.at = "done" /\ new.next = x.next /\ new.outcome = outcome
      /\ new.req = x.req /\ new.task = x.task
  BY DEF IndexLocal
<1>4. call' = [call EXCEPT ![c] = new] /\ before' = before
  <2>1. call' = [call EXCEPT ![c] = [call[c] EXCEPT !.at = "done", !.outcome = outcome]]
    BY <1>1 DEF End, Types
  <2>. QED
    BY <2>1 DEF End
<1>5. new.at \in {"document", "embed", "chunks", "answer", "done"}
  BY <1>3
<1>6. new.req = call[c].req /\ new.task = call[c].task
  BY <1>3
<1>7. /\ Frame(c, IndexLocal) /\ call'[c] = new
      /\ call'[c].req = call[c].req /\ call'[c].task = call[c].task
      /\ before'[c] = before[c] /\ ~Analyzes(c)'
  BY <1>2, <1>3, <1>4, <1>5, <1>6, IndexGoes
<1>. QED
  BY <1>2, <1>3, <1>7

\* A request that goes on, and has not made its task, is first of its key still.
LEMMA GoingKeepsKeys ==
    ASSUME IInv, NEW c \in Calls, Frame(c, IndexLocal), Types', cache' = cache, Asks(c),
           call[c].at \in {"document", "embed", "chunks", "answer"},
           call'[c].req = call[c].req, before'[c] = before[c],
           call'[c].at = "done" => call'[c].outcome = "error"
    PROVE  KeyInv'
<1>1. Types /\ Ordered /\ KeyInv
  BY DEF IInv
<1>2. ~Made(c)'
  BY DEF Made, Answered
<1>3. Keyed(call[c].req) => \A d \in before[c] :
          ~(Made(d) /\ Key(call[d].req) = Key(call[c].req))
  BY <1>1 DEF KeyInv, FirstOfKey, SameKey, Queues
<1>. QED
  BY <1>1, <1>2, <1>3, KeyOthers

\* The parts of VectorInv in the next state, writer by writer.
LEMMA DocumentsFollow ==
    ASSUME \A q \in Calls : Asks(q)' => Placed(q)',
           \A q \in Calls : Asks(q)' /\ call'[q].at \in {"embed", "chunks"}
                               => Follows(q, call[q].req.doc)',
           ASSUME NEW d \in Documents, NEW p \in Positions, chunks'[<<d, p>>] # Nothing,
                  NEW q, q = chunks'[<<d, p>>].by
           PROVE  /\ q \in Calls /\ Asks(q)' /\ chunks'[<<d, p>>].org = call'[q].req.org
                  /\ Follows(q, d)',
           ASSUME NEW d \in Documents, documents'[d] # Nothing, NEW q, q = documents'[d].by
           PROVE  q \in Calls /\ Asks(q)' /\ call'[q].req.doc = d
    PROVE  VectorInv'
BY DEF VectorInv, DocumentsFirst, Follows, Asks

\* The document is written while its writer has not ended: it is before nobody.
LEMMA UpsertDocumentKeeps ==
    ASSUME IInv, NEW c \in Calls, UpsertDocument(c), UNCHANGED <<ragVars, results>>
    PROVE  IInv'
<1> PICK r : r = call[c].req
  OBVIOUS
<1>1. /\ call[c].at = "document"
      /\ documents' = [documents EXCEPT ![r.doc] = Filed(c)]
      /\ Goto(c, IF r.size = 0 THEN "answer" ELSE "embed")
      /\ UNCHANGED <<tasks, vectorOn, chunks, cache, jobs, stored, waiting, evidence, results>>
  BY DEF UpsertDocument, ragVars
<1>2. Types /\ Ordered /\ TasksNamed /\ VectorInv /\ KeyInv
  BY DEF IInv
<1>3. PICK l \in {"answer", "embed"} : Goto(c, l) /\ (l = "answer" <=> r.size = 0)
  BY <1>1
<1>4. /\ Frame(c, IndexLocal) /\ Asks(c) /\ ~Ended(c)
      /\ call'[c].at = l /\ call'[c].next = call[c].next
      /\ call'[c].req = r /\ call'[c].task = call[c].task
      /\ before'[c] = before[c] /\ ~Analyzes(c)'
  BY <1>1, <1>3, IndexGoto
<1>5. r \in Requests /\ r.doc \in Documents /\ r.size \in {0, 1, 2} /\ call[c].next = 1
  BY <1>1, <1>2, <1>4, DocumentIndexAssumption
     DEF Asks, IndexLocal, VectorInv, Placed, Positions
<1>6. /\ documents'[r.doc].by = c /\ documents'[r.doc].org = r.org
      /\ documents'[r.doc] \in Written
      /\ \A d \in Documents \ {r.doc} : documents'[d] = documents[d]
      /\ documents' \in [Documents -> Written]
  BY <1>1, <1>2, <1>5 DEF Types, Filed, Written, Orgs
<1>7. Types'
  BY <1>1, <1>2, <1>4, <1>6 DEF Types, Frame
<1>8. /\ \A q \in Calls \ {c} : call'[q] = call[q] /\ before'[q] = before[q]
      /\ \A q \in Calls : c \notin before'[q]
  BY <1>2, <1>4, FrameKeepsOrder DEF Frame
<1>9. VectorInv'
  <2>1. Placed(c)'
    <3>1. \A p \in 1..r.size : ~Wrote(c, p)' \/ r.size = 0
      BY <1>3, <1>4 DEF Wrote
    <3>2. l = "embed" => 1 \in 1..r.size
      BY <1>3, <1>5
    <3>3. r.size = 0 => \A p \in 1..r.size : FALSE
      OBVIOUS
    <3>. QED
      BY <1>3, <1>4, <1>5, <3>1, <3>2, <3>3 DEF Placed
  <2>2. \A q \in Calls : Asks(q)' => Placed(q)'
    BY <1>1, <1>2, <1>8, <2>1 DEF VectorInv, Asks, Placed, Wrote
  <2>3. \A q \in Calls, d \in Documents : Follows(q, d) => Follows(q, d)'
    BY <1>4, <1>6, <1>8 DEF Follows
  <2>4. \A q \in Calls : Asks(q)' /\ call'[q].at \in {"embed", "chunks"}
                           => Follows(q, call[q].req.doc)'
    <3>1. Follows(c, call[c].req.doc)'
      BY <1>4, <1>6, <1>8 DEF Follows
    <3>2. \A q \in Calls \ {c} : Asks(q)' => Asks(q) /\ call[q].req.doc \in Documents
      BY <1>8, DocumentIndexAssumption DEF Asks, IndexLocal
    <3>. QED
      BY <1>2, <1>4, <1>8, <2>3, <3>1, <3>2 DEF VectorInv, DocumentsFirst
  <2>5. \A q \in Calls : Asks(q) => Asks(q)' /\ call'[q].req = call[q].req
    BY <1>4, <1>8 DEF Asks, Frame
  <2>6. ASSUME NEW d \in Documents, NEW p \in Positions, chunks'[<<d, p>>] # Nothing,
               NEW q, q = chunks'[<<d, p>>].by
        PROVE  q \in Calls /\ Asks(q)' /\ chunks'[<<d, p>>].org = call'[q].req.org /\ Follows(q, d)'
    BY <1>1, <1>2, <2>3, <2>5, <2>6 DEF VectorInv, DocumentsFirst
  <2>7. ASSUME NEW d \in Documents, documents'[d] # Nothing, NEW q, q = documents'[d].by
        PROVE  q \in Calls /\ Asks(q)' /\ call'[q].req.doc = d
    BY <1>2, <1>4, <1>6, <2>5, <2>7 DEF VectorInv, DocumentsFirst, Frame, Asks
  <2>. QED
    BY <2>2, <2>4, <2>6, <2>7, DocumentsFollow
<1>10. KeyInv'
  BY <1>1, <1>4, <1>7, GoingKeepsKeys
<1>11. TasksNamed'
  BY <1>1, <1>2, <1>4, TasksStay, NamesStay DEF TasksNamed
<1>. QED
  BY <1>1, <1>4, <1>7, <1>9, <1>10, <1>11, IndexRest DEF ragVars

\* Embedding writes nothing; it goes on to the first chunk, or fails.
LEMMA EmbedKeeps ==
    ASSUME IInv, NEW c \in Calls, Embed(c), UNCHANGED <<ragVars, results>>
    PROVE  IInv'
<1>1. /\ call[c].at = "embed"
      /\ Goto(c, "chunks") \/ End(c, "error")
      /\ UNCHANGED <<tasks, vectorOn, documents, chunks, cache>>
      /\ UNCHANGED <<jobs, stored, waiting, evidence, results>>
  BY DEF Embed, indexVars, ragVars
<1>2. Types /\ Ordered /\ TasksNamed /\ VectorInv /\ KeyInv
  BY DEF IInv
<1>3. /\ Frame(c, IndexLocal) /\ Asks(c) /\ ~Ended(c)
      /\ \/ call'[c].at = "chunks"
         \/ call'[c].at = "done" /\ call'[c].outcome = "error"
      /\ call'[c].next = call[c].next
      /\ call'[c].req = call[c].req /\ call'[c].task = call[c].task
      /\ before'[c] = before[c] /\ ~Analyzes(c)'
  BY <1>1, IndexGoto, IndexEnds DEF Outcomes
<1>4. Types'
  BY <1>1, <1>2, <1>3 DEF Types, Frame
<1>5. VectorInv'
  <2>1. call[c].next = 1 /\ call[c].next \in 1..call[c].req.size
    BY <1>1, <1>2, <1>3 DEF VectorInv, Placed
  <2>2. \A p \in 1..call[c].req.size : ~Wrote(c, p)'
    BY <1>1, <1>3, <2>1 DEF Wrote
  <2>3. Placed(c)'
    BY <1>1, <1>3, <2>1, <2>2 DEF Placed
  <2>. QED
    BY <1>1, <1>2, <1>3, <2>3, VectorOthers
<1>6. KeyInv'
  BY <1>1, <1>3, <1>4, GoingKeepsKeys
<1>7. TasksNamed'
  BY <1>1, <1>2, <1>3, TasksStay, NamesStay DEF TasksNamed
<1>. QED
  BY <1>1, <1>3, <1>4, <1>5, <1>6, <1>7, IndexRest DEF ragVars

\* One chunk more is the request's own; one of another request is overwritten by
\* a call that is before nobody.
LEMMA UpsertChunkKeeps ==
    ASSUME IInv, NEW c \in Calls, UpsertChunk(c), UNCHANGED <<ragVars, results>>
    PROVE  IInv'
<1> PICK r, p : r = call[c].req /\ p = call[c].next
  OBVIOUS
<1>1. /\ call[c].at = "chunks"
      /\ IF documents[r.doc].org # r.org
         THEN End(c, "error") /\ UNCHANGED chunks
         ELSE /\ chunks' = [chunks EXCEPT ![<<r.doc, p>>] = [org |-> r.org, by |-> c]]
              /\ call' = [call EXCEPT ![c].at = IF p = r.size THEN "answer" ELSE "chunks",
                                      ![c].next = p + 1]
              /\ UNCHANGED before
      /\ UNCHANGED <<tasks, vectorOn, documents, cache, jobs, stored, waiting, evidence, results>>
  BY DEF UpsertChunk, ragVars
<1>2. Types /\ Ordered /\ TasksNamed /\ VectorInv /\ KeyInv
  BY DEF IInv
<1>3. /\ Asks(c) /\ ~Ended(c) /\ p \in Nat
      /\ r \in Requests /\ r.doc \in Documents /\ r.size \in {0, 1, 2} /\ p \in 1..r.size
      /\ Follows(c, r.doc)
  BY <1>1, <1>2, WhoAsks, DocumentIndexAssumption
     DEF VectorInv, DocumentsFirst, Placed, Positions
<1>4. ASSUME Frame(c, IndexLocal), call'[c].req = r, call'[c].task = call[c].task,
             before'[c] = before[c], ~Analyzes(c)', Types', VectorInv',
             call'[c].at = "done" => call'[c].outcome = "error"
      PROVE  IInv'
  <2>1. KeyInv'
    BY <1>1, <1>3, <1>4, GoingKeepsKeys
  <2>2. TasksNamed'
    BY <1>1, <1>2, <1>3, <1>4, TasksStay, NamesStay DEF TasksNamed
  <2>. QED
    BY <1>1, <1>4, <2>1, <2>2, IndexRest DEF ragVars
<1>5. CASE documents[r.doc].org # r.org
  <2>1. End(c, "error") /\ UNCHANGED chunks
    BY <1>1, <1>5
  <2>2. /\ Frame(c, IndexLocal) /\ call'[c].at = "done" /\ call'[c].outcome = "error"
        /\ call'[c].req = r /\ call'[c].task = call[c].task
        /\ before'[c] = before[c] /\ ~Analyzes(c)'
    BY <1>1, <2>1, IndexEnds DEF Outcomes
  <2>3. Types'
    BY <1>1, <1>2, <2>1, <2>2 DEF Types, Frame
  <2>4. Placed(c)'
    BY <2>2 DEF Placed, Wrote
  <2>5. VectorInv'
    BY <1>1, <1>2, <2>1, <2>2, <2>4, VectorOthers
  <2>. QED
    BY <1>4, <2>2, <2>3, <2>5
<1>6. CASE documents[r.doc].org = r.org
  <2> PICK l \in {"answer", "chunks"} : l = IF p = r.size THEN "answer" ELSE "chunks"
    OBVIOUS
  <2>1. /\ chunks' = [chunks EXCEPT ![<<r.doc, p>>] = [org |-> r.org, by |-> c]]
        /\ call' = [call EXCEPT ![c] = [call[c] EXCEPT !.at = l, !.next = p + 1]]
        /\ before' = before
    BY <1>1, <1>2, <1>6 DEF Types
  <2> PICK x \in IndexLocal : x = call[c]
    BY <1>3 DEF Asks
  <2> PICK m \in Nat : m = p + 1
    BY <1>3
  <2> PICK new : new = [x EXCEPT !.at = l, !.next = m]
    OBVIOUS
  <2>2. /\ new \in IndexLocal /\ new.at = l /\ new.next = m
        /\ new.req = x.req /\ new.task = x.task
    BY DEF IndexLocal
  <2>3. /\ new.at \in {"document", "embed", "chunks", "answer", "done"}
        /\ new.req = call[c].req /\ new.task = call[c].task
        /\ call' = [call EXCEPT ![c] = new]
    BY <2>1, <2>2
  <2>4. /\ Frame(c, IndexLocal) /\ call'[c] = new
        /\ call'[c].req = r /\ call'[c].task = call[c].task
        /\ before'[c] = before[c] /\ ~Analyzes(c)'
    BY <1>3, <2>1, <2>2, <2>3, IndexGoes
  <2>5. /\ <<r.doc, p>> \in Slots
        /\ chunks'[<<r.doc, p>>].by = c /\ chunks'[<<r.doc, p>>].org = r.org
        /\ \A s \in Slots : s # <<r.doc, p>> => chunks'[s] = chunks[s]
        /\ chunks' \in [Slots -> Written]
    <3>1. <<r.doc, p>> \in Slots /\ [org |-> r.org, by |-> c] \in Written
      BY <1>3 DEF Slots, Positions, Written, Orgs
    <3>. QED
      BY <1>2, <2>1, <3>1 DEF Types
  <2>6. Types'
    BY <1>1, <1>2, <2>4, <2>5 DEF Types, Frame
  <2>7. /\ \A q \in Calls \ {c} : call'[q] = call[q] /\ before'[q] = before[q]
        /\ \A q \in Calls : c \notin before[q] /\ c \notin before'[q]
    BY <1>2, <2>4, FrameKeepsOrder DEF Frame
  <2>8. ASSUME NEW q \in Calls, Asks(q)
        PROVE  call[q].req.doc \in Documents /\ call[q].req.size \in {0, 1, 2}
    BY <2>8, DocumentIndexAssumption DEF Asks, IndexLocal, Positions
  <2>9. Placed(c)'
    <3>1. ASSUME NEW p2 \in 1..r.size, Wrote(c, p2)'
          PROVE  chunks'[<<r.doc, p2>>].by \notin before[c] \cup {NoCall}
      <4>1. p2 <= p
        BY <1>3, <2>2, <2>4, <3>1 DEF Wrote
      <4>2. CASE p2 = p
        BY <2>5, <2>7, <4>2, TaskQueueAssumption
      <4>3. CASE p2 # p
        <5>1. p2 < p /\ p2 \in Positions
          BY <1>3, <4>1, <4>3 DEF Positions
        <5>2. <<r.doc, p2>> \in Slots /\ <<r.doc, p2>> # <<r.doc, p>> /\ Wrote(c, p2)
          BY <1>1, <1>3, <4>3, <5>1 DEF Slots, Wrote
        <5>. QED
          BY <1>2, <1>3, <2>5, <5>2 DEF VectorInv, Placed
      <4>. QED
        BY <4>2, <4>3
    <3>2. l = "chunks" => p + 1 \in 1..r.size
      BY <1>3
    <3>. QED
      BY <2>2, <2>4, <3>1, <3>2 DEF Placed
  <2>10. ASSUME NEW q \in Calls \ {c}, Asks(q)'
         PROVE  Placed(q)'
    <3>1. Asks(q) /\ call'[q] = call[q] /\ before'[q] = before[q]
      BY <2>7, <2>10 DEF Asks
    <3>2. ASSUME NEW p2 \in 1..call[q].req.size, Wrote(q, p2)'
          PROVE  chunks'[<<call[q].req.doc, p2>>].by \notin before[q] \cup {NoCall}
      <4>1. Wrote(q, p2)
        BY <1>1, <3>1, <3>2 DEF Wrote
      <4>2. <<call[q].req.doc, p2>> \in Slots
        BY <2>8, <3>1 DEF Slots, Positions
      <4>3. chunks[<<call[q].req.doc, p2>>].by \notin before[q] \cup {NoCall}
        BY <1>2, <3>1, <4>1 DEF VectorInv, Placed
      <4>. QED
        BY <2>5, <2>7, <4>2, <4>3, TaskQueueAssumption
    <3>. QED
      BY <1>2, <3>1, <3>2 DEF VectorInv, Placed
  <2>11. \A q \in Calls : Asks(q)' => Placed(q)'
    BY <2>9, <2>10
  <2>12. /\ \A q \in Calls, d \in Documents : Follows(q, d)' <=> Follows(q, d)
         /\ \A q \in Calls : Asks(q) => Asks(q)' /\ call'[q].req = call[q].req
    BY <1>1, <2>4, <2>7 DEF Follows, Asks, Frame
  <2>13. ASSUME NEW q \in Calls, Asks(q)', call'[q].at \in {"embed", "chunks"}
         PROVE  Follows(q, call[q].req.doc)'
    BY <1>2, <1>3, <2>4, <2>7, <2>8, <2>12, <2>13 DEF VectorInv, DocumentsFirst, Asks, Follows
  <2>14. ASSUME NEW d \in Documents, NEW p2 \in Positions, chunks'[<<d, p2>>] # Nothing,
                NEW q, q = chunks'[<<d, p2>>].by
         PROVE  q \in Calls /\ Asks(q)' /\ chunks'[<<d, p2>>].org = call'[q].req.org /\ Follows(q, d)'
    <3>1. CASE <<d, p2>> = <<r.doc, p>>
      BY <1>3, <2>4, <2>5, <2>12, <2>14, <3>1
    <3>2. CASE <<d, p2>> # <<r.doc, p>>
      <4>1. chunks'[<<d, p2>>] = chunks[<<d, p2>>]
        BY <2>5, <3>2 DEF Slots
      <4>. QED
        BY <1>2, <2>12, <2>14, <4>1 DEF VectorInv, DocumentsFirst
    <3>. QED
      BY <3>1, <3>2
  <2>15. ASSUME NEW d \in Documents, documents'[d] # Nothing, NEW q, q = documents'[d].by
         PROVE  q \in Calls /\ Asks(q)' /\ call'[q].req.doc = d
    BY <1>1, <1>2, <2>12, <2>15 DEF VectorInv, DocumentsFirst
  <2>16. VectorInv'
    BY <2>11, <2>13, <2>14, <2>15, DocumentsFollow
  <2>. QED
    BY <1>4, <2>2, <2>4, <2>6, <2>16
<1>. QED
  BY <1>5, <1>6

\* The answer enters the key, and the request is the first made with it.
LEMMA AnswerKeeps ==
    ASSUME IInv, NEW c \in Calls, Answer(c), UNCHANGED <<ragVars, results>>
    PROVE  IInv'
<1> PICK r, n : r = call[c].req /\ n = call[c].task
  OBVIOUS
<1>1. /\ call[c].at = "answer"
      /\ IF vectorOn THEN Mark(n, "succeeded") ELSE UNCHANGED tasks
      /\ cache' = IF Keyed(r) THEN [cache EXCEPT ![Key(r)] = [body |-> Body(r), task |-> n]]
                  ELSE cache
      /\ End(c, IF vectorOn THEN "indexed" ELSE "queued")
      /\ UNCHANGED <<vectorOn, documents, chunks, jobs, stored, waiting, evidence, results>>
  BY DEF Answer, ragVars
<1>2. Types /\ Ordered /\ TasksNamed /\ VectorInv /\ KeyInv
  BY DEF IInv
<1> PICK o \in {"indexed", "queued"} : o = IF vectorOn THEN "indexed" ELSE "queued"
  OBVIOUS
<1>3. /\ Frame(c, IndexLocal) /\ Asks(c) /\ ~Ended(c)
      /\ call'[c].at = "done" /\ call'[c].outcome = o
      /\ call'[c].req = r /\ call'[c].task = n
      /\ before'[c] = before[c] /\ ~Analyzes(c)'
  <2>1. End(c, o) /\ o \in Outcomes
    BY <1>1 DEF Outcomes
  <2>. QED
    BY <1>1, <2>1, IndexEnds
<1>4. r \in Requests /\ n \in DOMAIN tasks /\ tasks[n].kind = "indexing" /\ n \in Nat \ {0}
  <2>1. DOMAIN tasks = 1..Len(tasks)
    BY <1>2, LenProperties DEF Types
  <2>. QED
    BY <1>1, <1>2, <1>3, <2>1, WhoAsks DEF TasksNamed
<1>5. /\ TasksGrow /\ DOMAIN tasks' = DOMAIN tasks
      /\ \A t \in DOMAIN tasks \ {n} : tasks'[t] = tasks[t]
  BY <1>1, <1>2, <1>4, Marks, TasksStay DEF Statuses
<1>6. /\ Key(r) \in Keys
      /\ cache' \in [Keys -> Entry \cup {Unkeyed}]
      /\ Keyed(r) => cache'[Key(r)] = [body |-> Body(r), task |-> n] /\ cache'[Key(r)] # Unkeyed
      /\ \A k \in Keys : k # Key(r) \/ ~Keyed(r) => cache'[k] = cache[k]
  <2>1. Key(r) \in Keys /\ [body |-> Body(r), task |-> n] \in Entry
    BY <1>4 DEF Keys, Entry
  <2>2. [body |-> Body(r), task |-> n] # Unkeyed
    BY <1>4 DEF Unkeyed
  <2>. QED
    BY <1>1, <1>2, <2>1, <2>2 DEF Types
<1>7. Types'
  BY <1>1, <1>2, <1>3, <1>5, <1>6 DEF Types, Frame, TasksGrow
<1>8. VectorInv'
  <2>1. \A p \in 1..r.size : Wrote(c, p)' => Wrote(c, p)
    BY <1>1, <1>3 DEF Wrote
  <2>2. Placed(c)'
    BY <1>1, <1>2, <1>3, <2>1 DEF VectorInv, Placed
  <2>. QED
    BY <1>1, <1>2, <1>3, <2>2, VectorOthers
<1>9. /\ \A q \in Calls \ {c} : call'[q] = call[q] /\ before'[q] = before[q]
      /\ c \notin Done /\ \A q \in Calls : c \notin before[q] /\ c \notin before'[q]
  BY <1>2, <1>3, FrameKeepsOrder DEF Frame
<1>10. Made(c)' /\ ~Made(c) /\ ~Answered(c)
  <2>1. Asks(c)' /\ call'[c].at = "done" /\ call'[c].outcome \in {"indexed", "queued"}
    BY <1>3 DEF Frame, Asks
  <2>2. Answered(c)'
    BY <2>1, <1>7, LocalsApart DEF Types, Answered, Asks
  <2>. QED
    BY <1>1, <2>1, <2>2 DEF Made, Answered
<1>11. \A d \in Calls \ {c} : /\ Made(d)' <=> Made(d)
                              /\ Answered(d)' <=> Answered(d)
                              /\ Queues(d)' <=> Queues(d)
  BY <1>9 DEF Made, Answered, Queues, Asks
<1>12. EntriesAreMade'
  <2>1. ASSUME NEW k \in Keys, cache'[k] # Unkeyed
        PROVE  \E d \in Calls : /\ Made(d)' /\ Keyed(call'[d].req) /\ Key(call'[d].req) = k
                  /\ cache'[k] = [body |-> Body(call'[d].req), task |-> call'[d].task]
    <3>1. CASE Keyed(r) /\ k = Key(r)
      BY <1>3, <1>6, <1>10, <3>1
    <3>2. CASE ~(Keyed(r) /\ k = Key(r))
      <4>1. PICK d \in Calls : /\ Made(d) /\ Keyed(call[d].req) /\ Key(call[d].req) = k
                               /\ cache[k] = [body |-> Body(call[d].req), task |-> call[d].task]
        BY <1>2, <1>6, <2>1, <3>2 DEF KeyInv, EntriesAreMade
      <4>2. d # c
        BY <1>10, <4>1
      <4>. QED
        BY <1>6, <1>9, <1>11, <3>2, <4>1, <4>2
    <3>. QED
      BY <3>1, <3>2
  <2>2. ASSUME NEW d \in Calls, Made(d)', Keyed(call'[d].req)
        PROVE  cache'[Key(call'[d].req)] # Unkeyed
    <3>1. CASE d = c
      BY <1>3, <1>6, <2>2, <3>1
    <3>2. CASE d # c
      <4>1. Made(d) /\ call'[d] = call[d]
        BY <1>9, <1>11, <2>2, <3>2
      <4>2. Key(call[d].req) \in Keys
        BY <1>2, <4>1, MadeAsks DEF Asks, IndexLocal, Keys
      <4>3. cache[Key(call[d].req)] # Unkeyed
        BY <1>2, <2>2, <4>1 DEF KeyInv, EntriesAreMade
      <4>. QED
        BY <1>6, <4>1, <4>2, <4>3
    <3>. QED
      BY <3>1, <3>2
  <2>. QED
    BY <2>1, <2>2 DEF EntriesAreMade
<1>13. FirstOfKey'
  <2> SUFFICES ASSUME NEW q \in Calls, Queues(q)', Keyed(call[q].req)', NEW d \in before'[q],
                      Made(d)', SameKey(q, d)'
               PROVE  FALSE
    BY DEF FirstOfKey
  <2>1. d \in Calls /\ d # c
    BY <1>7, <1>9 DEF Types
  <2>2. Made(d) /\ call'[d] = call[d]
    BY <1>9, <1>11, <2>1
  <2>3. CASE q = c
    <3>1. Queues(c) /\ Keyed(call[c].req) /\ d \in before[c] /\ SameKey(c, d)
      BY <1>1, <1>3, <2>2, <2>3 DEF SameKey, Queues
    <3>. QED
      BY <1>2, <2>2, <3>1 DEF KeyInv, FirstOfKey
  <2>4. CASE q # c
    BY <1>2, <1>9, <1>11, <2>2, <2>4 DEF SameKey, KeyInv, FirstOfKey
  <2>. QED
    BY <2>3, <2>4
<1>14. ReplaysMade'
  <2> SUFFICES ASSUME NEW q \in Calls, Answered(q)', call'[q].outcome = "replayed"
               PROVE  \E d \in Calls : /\ Made(d)' /\ call'[d].task = call'[q].task /\ SameKey(q, d)'
                                       /\ Body(call'[d].req) = Body(call'[q].req)
    BY DEF ReplaysMade
  <2>1. q # c
    BY <1>3
  <2>2. Answered(q) /\ call'[q] = call[q]
    BY <1>9, <1>11, <2>1
  <2>3. PICK d \in Calls : /\ Made(d) /\ call[d].task = call[q].task /\ SameKey(q, d)
                           /\ Body(call[d].req) = Body(call[q].req)
    BY <1>2, <2>2 DEF KeyInv, ReplaysMade
  <2>4. d # c
    BY <1>10, <2>3
  <2>. QED
    BY <1>9, <1>11, <2>2, <2>3, <2>4 DEF SameKey
<1>15. KeyInv'
  BY <1>12, <1>13, <1>14 DEF KeyInv
<1>16. TasksNamed'
  BY <1>2, <1>3, <1>4, <1>5, NamesStay DEF TasksGrow
<1>17. \A t \in DOMAIN tasks' :
         tasks'[t].kind = "analytics" /\ tasks'[t].status = "succeeded" =>
             t \in DOMAIN tasks /\ tasks'[t] = tasks[t]
  <2>1. tasks'[n].kind # "analytics"
    BY <1>4, <1>5 DEF TasksGrow
  <2>. QED
    BY <1>5, <2>1
<1>. QED
  BY <1>1, <1>3, <1>7, <1>8, <1>15, <1>16, <1>17, IndexRest DEF ragVars

\* Whatever an index request does keeps the invariant.
LEMMA IndexStepKeeps ==
    ASSUME IInv, NEW c \in Calls, IndexStep(c), UNCHANGED <<ragVars, results>>
    PROVE  IInv'
BY QueueTaskKeeps, ReplayKeeps, UpsertDocumentKeeps, EmbedKeeps, UpsertChunkKeeps, AnswerKeeps
   DEF IndexStep

-----------------------------------------------------------------------------
(* Texts and the jobs that index them.                                     *)

\* What the steps of texts and jobs have in common.
LEMMA RagRest ==
    ASSUME IInv, NEW c \in Calls, NEW kind \in {TextLocal, JobLocal}, Frame(c, kind), Types',
           UNCHANGED <<indexVars, results>>, TextInv', TasksNamed',
           \A t \in DOMAIN tasks' :
               tasks'[t].kind = "analytics" /\ tasks'[t].status = "succeeded" =>
                   t \in DOMAIN tasks /\ tasks'[t] = tasks[t]
    PROVE  IInv'
<1>1. Same(IndexLocal) /\ Same(AnalysisLocal)
  BY LocalsDiffer, OthersSame
<1>2. Types /\ Ordered /\ VectorInv /\ KeyInv /\ AnalysisInv
      /\ UNCHANGED <<vectorOn, documents, chunks, cache, results>>
  BY DEF IInv, indexVars
<1>3. Ordered'
  BY <1>2, FrameKeepsOrder
<1>4. VectorInv'
  BY <1>1, <1>2, VectorElsewhere
<1>5. KeyInv'
  BY <1>1, <1>2, <1>3, KeyElsewhere
<1>6. AnalysisInv'
  BY <1>1, <1>2, AnalysisElsewhere
<1>. QED
  BY <1>3, <1>4, <1>5, <1>6 DEF IInv

\* A text's chunks have slots.
LEMMA TextSlots ==
    ASSUME NEW text \in RagTexts, NEW p \in 1..text.size
    PROVE  <<text.doc, p>> \in Slots
<1>1. text.doc \in Documents /\ text.size \in {0, 1, 2}
  BY RagIndexingAssumption DEF Positions
<1>. QED
  BY <1>1 DEF Slots, Positions

\* A row of the evidence store that a step wrote, and may be found in.
NewRow(s) ==
    /\ evidence'[s] \in Calls /\ HasText(evidence'[s])
    /\ call[evidence'[s]].text.long \/ \A q \in Calls : evidence'[s] \notin before'[q]

\* A step keeps TextInv when texts stay what they are, workers index long texts,
\* rows are written by texts, and a job succeeds only with its chunks stored by a
\* worker that publishes them next.
LEMMA TextKeeps ==
    ASSUME Types, Types', TextInv,
           \A q \in Calls : HasText(q) => HasText(q)' /\ call'[q].text = call[q].text,
           \A q \in Calls : Works(q)' /\ call'[q].at \in {"build", "index"}
                                => LongText(call'[q].job),
           \A q \in waiting' : q \in waiting \/ LongText(q)',
           \A s \in Slots : \/ stored'[s] = stored[s]
                            \/ stored'[s] \in Calls /\ HasText(stored'[s]),
           \A s \in Slots : evidence'[s] = evidence[s] \/ NewRow(s),
           \A q \in Calls : IndexedText(q)' =>
               \/ IndexedText(q) /\ call'[q] = call[q] /\ before'[q] = before[q]
               \/ \A p \in 1..call'[q].text.size : NewRow(<<call'[q].text.doc, p>>),
           \A j \in Calls : jobs'[j] = "succeeded" =>
               \/ jobs[j] = "succeeded"
               \/ /\ HasText(j)
                  /\ \A p \in 1..call[j].text.size : stored'[<<call[j].text.doc, p>>] # NoCall
                  /\ \E q \in Calls : Works(q)' /\ call'[q].at = "index" /\ call'[q].job = j,
           \A q \in Calls : Works(q) /\ call[q].at = "index" =>
               \/ Works(q)' /\ call'[q].at = "index" /\ call'[q].job = call[q].job
               \/ LET text == call[call[q].job].text IN
                  \A p \in 1..text.size : evidence'[<<text.doc, p>>] # NoCall
    PROVE  TextInv'
<1>1. \A x : LongText(x) => LongText(x)'
  BY DEF LongText
<1>2. JobsAreTexts'
  <2>1. \A q \in Calls : Works(q)' /\ call'[q].at \in {"build", "index"}
                             => LongText(call[q].job)'
    BY <1>1 DEF LongText
  <2>2. \A q \in waiting' : LongText(q)'
    BY <1>1 DEF TextInv, JobsAreTexts
  <2>3. ASSUME NEW s \in Slots, NEW x \in Calls, x = stored'[s]
        PROVE  HasText(x)'
    BY <2>3 DEF TextInv, JobsAreTexts
  <2>4. ASSUME NEW s \in Slots, NEW x \in Calls, x = evidence'[s]
        PROVE  HasText(x)'
    BY <2>4 DEF TextInv, JobsAreTexts, NewRow
  <2>. QED
    BY <2>1, <2>2, <2>3, <2>4 DEF JobsAreTexts, HasText
<1>3. \A q \in Calls : HasText(q)' => call'[q].text \in RagTexts
  BY DEF HasText, TextLocal
<1>4. TextsAreFound'
  <2> SUFFICES ASSUME NEW q \in Calls, IndexedText(q)', NEW p \in 1..call'[q].text.size
               PROVE  LET by == evidence'[<<call'[q].text.doc, p>>]
                      IN by # NoCall /\ (call'[by].text.long \/ by \notin before'[q])
    BY DEF TextsAreFound
  <2>1. HasText(q)'
    BY LocalsApart DEF Types, IndexedText, HasText
  <2> PICK s \in Slots : s = <<call'[q].text.doc, p>>
    BY <1>3, <2>1, TextSlots
  <2>2. CASE NewRow(s)
    BY <2>2, TaskQueueAssumption DEF NewRow
  <2>3. CASE /\ IndexedText(q) /\ call'[q] = call[q] /\ before'[q] = before[q]
             /\ evidence'[s] = evidence[s]
    <3>1. evidence[s] # NoCall /\ (call[evidence[s]].text.long \/ evidence[s] \notin before[q])
      BY <2>3 DEF TextInv, TextsAreFound
    <3>2. evidence[s] \in Calls /\ HasText(evidence[s])
      BY <3>1 DEF Types, TextInv, JobsAreTexts
    <3>. QED
      BY <2>3, <3>1, <3>2
  <2>. QED
    BY <2>2, <2>3
<1>5. JobsAreFound'
  <2> SUFFICES ASSUME NEW j \in Calls, jobs'[j] = "succeeded"
               PROVE  /\ HasText(j)' /\ Covered(stored', call'[j].text)
                      /\ \/ Covered(evidence', call'[j].text)
                         \/ \E q \in Calls : Works(q)' /\ call'[q].at = "index" /\ call'[q].job = j
    BY DEF JobsAreFound
  <2>1. CASE jobs[j] # "succeeded"
    BY <2>1 DEF Covered
  <2>2. CASE jobs[j] = "succeeded"
    <3>1. HasText(j) /\ HasText(j)' /\ call'[j].text = call[j].text
          /\ Covered(stored, call[j].text)
      BY <2>2 DEF TextInv, JobsAreFound
    <3> PICK text \in RagTexts : text = call[j].text
      BY <3>1 DEF HasText, TextLocal
    <3>2. Covered(stored', text)
      BY <3>1, TextSlots, TaskQueueAssumption DEF Covered
    <3>3. CASE Covered(evidence, text)
      <4>1. Covered(evidence', text)
        BY <3>3, TextSlots, TaskQueueAssumption DEF Covered, NewRow
      <4>. QED
        BY <3>1, <3>2, <4>1
    <3>4. CASE \E q \in Calls : Works(q) /\ call[q].at = "index" /\ call[q].job = j
      <4>1. PICK q \in Calls : Works(q) /\ call[q].at = "index" /\ call[q].job = j
        BY <3>4
      <4>2. \/ Works(q)' /\ call'[q].at = "index" /\ call'[q].job = j
            \/ Covered(evidence', text)
        BY <4>1 DEF Covered
      <4>. QED
        BY <3>1, <3>2, <4>2
    <3>. QED
      BY <2>2, <3>3, <3>4 DEF TextInv, JobsAreFound
  <2>. QED
    BY <2>1, <2>2
<1>. QED
  BY <1>2, <1>4, <1>5 DEF TextInv

\* A step that moves no text, or the one it begins or goes on with.
LEMMA TextsKept ==
    ASSUME Types, NEW c \in Calls, NEW kind, Frame(c, kind),
           HasText(c) => call'[c] \in TextLocal /\ call'[c].text = call[c].text
    PROVE  \A q \in Calls : HasText(q) => HasText(q)' /\ call'[q].text = call[q].text
BY DEF Frame, HasText

\* Where a call is tells that it indexes a text, or is a worker's.
LEMMA WhoIsAtText ==
    ASSUME Types, NEW c \in Calls, call[c].at \in {"save", "publish"}
    PROVE  HasText(c) /\ ~Ended(c)
BY DEF Types, Local, Idle, IndexLocal, TextLocal, JobLocal, AnalysisLocal, HasText, Ended

\* Where a call is tells that it is an indexing worker's.
LEMMA WhoWorks ==
    ASSUME Types, NEW c \in Calls,
           call[c].at \in {"check", "run", "build", "index", "succeed", "fail"}
    PROVE  Works(c) /\ ~Ended(c)
<1> PICK x \in Local : x = call[c]
  BY DEF Types
<1>1. x \notin {Idle} \cup IndexLocal \cup TextLocal
  BY DEF Idle, IndexLocal, TextLocal
<1>2. x \notin AnalysisLocal
  BY DEF AnalysisLocal
<1>. QED
  BY <1>1, <1>2 DEF Local, Works, Ended

\* The tasks are named still when a text moves, ...
LEMMA TextNames ==
    ASSUME Types, TasksNamed, NEW c \in Calls, Frame(c, TextLocal), tasks' = tasks
    PROVE  TasksNamed'
<1>1. ~Asks(c)' /\ ~Works(c)' /\ ~Analyzes(c)'
  BY LocalsDiffer DEF Frame, Asks, Works, Analyzes
<1>. QED
  BY <1>1, TasksStay, NamesStay

\* ... and when a worker goes on with its task.
LEMMA JobNames ==
    ASSUME Types, TasksNamed, NEW c \in Calls, Frame(c, JobLocal), tasks' = tasks,
           Works(c), call'[c].task = call[c].task
    PROVE  TasksNamed'
<1>1. ~Analyzes(c)' /\ call[c].task \in DOMAIN tasks /\ tasks[call[c].task].kind = "indexing"
  BY LocalsDiffer DEF Frame, Analyzes, TasksNamed
<1>. QED
  BY <1>1, TasksStay, NamesStay

\* A long text waits under a job of its own.
LEMMA QueueTextKeeps ==
    ASSUME IInv, NEW c \in Calls, QueueText(c), UNCHANGED <<indexVars, results>>
    PROVE  IInv'
<1>1. PICK text \in RagTexts :
        /\ text.long
        /\ Begin(c, [at |-> "done", text |-> text, outcome |-> "waits"])
        /\ waiting' = waiting \cup {c}
        /\ jobs' = [jobs EXCEPT ![c] = "queued"]
        /\ UNCHANGED <<tasks, stored, evidence>>
  BY DEF QueueText
<1>2. Types /\ Ordered /\ TasksNamed /\ TextInv
      /\ UNCHANGED <<vectorOn, documents, chunks, cache, results>>
  BY DEF IInv, indexVars
<1> PICK new : new = [at |-> "done", text |-> text, outcome |-> "waits"]
  OBVIOUS
<1>3. new \in TextLocal /\ new.at = "done" /\ new.text = text /\ new.outcome = "waits"
  BY DEF TextLocal, Outcomes
<1>4. Frame(c, TextLocal) /\ call'[c] = new /\ call[c] = Idle
  BY <1>1, <1>2, <1>3, Begins DEF Local
<1>5. /\ c \in JobIds /\ jobs'[c] = "queued" /\ jobs' \in [JobIds -> JobStatuses]
      /\ \A j \in JobIds \ {c} : jobs'[j] = jobs[j]
  BY <1>1, <1>2 DEF JobIds, JobStatuses, Types
<1>6. Types'
  BY <1>1, <1>2, <1>4, <1>5 DEF Types, Frame
<1>7. /\ \A q \in Calls \ {c} : call'[q] = call[q] /\ before'[q] = before[q]
      /\ ~HasText(c) /\ ~Works(c) /\ ~Works(c)'
  BY <1>3, <1>4, LocalsDiffer DEF Frame, HasText, Works
<1>8. TextInv'
  <2>1. \A q \in Calls : HasText(q) => HasText(q)' /\ call'[q].text = call[q].text
    BY <1>2, <1>4, <1>7, TextsKept
  <2>2. \A q \in Calls : Works(q)' => Works(q) /\ call'[q] = call[q]
    BY <1>7 DEF Works
  <2>3. \A q \in Calls : Works(q)' /\ call'[q].at \in {"build", "index"} => LongText(call'[q].job)
    BY <1>2, <2>2 DEF TextInv, JobsAreTexts
  <2>4. \A q \in waiting' : q \in waiting \/ LongText(q)'
    BY <1>1, <1>3, <1>4 DEF LongText, HasText
  <2>5. \A q \in Calls : IndexedText(q)' =>
          IndexedText(q) /\ call'[q] = call[q] /\ before'[q] = before[q]
    BY <1>3, <1>4, <1>7 DEF IndexedText
  <2>6. \A j \in Calls : jobs'[j] = "succeeded" => jobs[j] = "succeeded"
    BY <1>5 DEF JobIds
  <2>7. \A q \in Calls : Works(q) => Works(q)' /\ call'[q] = call[q]
    BY <1>7 DEF Works
  <2>. QED
    BY <1>1, <1>2, <1>6, <2>1, <2>3, <2>4, <2>5, <2>6, <2>7, TextKeeps
<1>9. TasksNamed'
  BY <1>1, <1>2, <1>4, TextNames
<1>. QED
  BY <1>1, <1>2, <1>4, <1>6, <1>8, <1>9, RagRest DEF indexVars

\* A short text is cut.
LEMMA CutTextKeeps ==
    ASSUME IInv, NEW c \in Calls, CutText(c), UNCHANGED <<indexVars, results>>
    PROVE  IInv'
<1>1. PICK text \in RagTexts :
        /\ Begin(c, [at |-> "save", text |-> text, outcome |-> None])
        /\ UNCHANGED <<tasks, jobs, stored, waiting, evidence>>
  BY DEF CutText, ragVars
<1>2. Types /\ Ordered /\ TasksNamed /\ TextInv
      /\ UNCHANGED <<vectorOn, documents, chunks, cache, results>>
  BY DEF IInv, indexVars
<1> PICK new : new = [at |-> "save", text |-> text, outcome |-> None]
  OBVIOUS
<1>3. new \in TextLocal /\ new.at = "save" /\ new.text = text
  BY DEF TextLocal, Outcomes
<1>4. Frame(c, TextLocal) /\ call'[c] = new /\ call[c] = Idle
  BY <1>1, <1>2, <1>3, Begins DEF Local
<1>6. Types'
  BY <1>1, <1>2, <1>4 DEF Types, Frame
<1>7. /\ \A q \in Calls \ {c} : call'[q] = call[q] /\ before'[q] = before[q]
      /\ ~HasText(c) /\ ~Works(c) /\ ~Works(c)'
  BY <1>3, <1>4, LocalsDiffer DEF Frame, HasText, Works
<1>8. TextInv'
  <2>1. \A q \in Calls : HasText(q) => HasText(q)' /\ call'[q].text = call[q].text
    BY <1>2, <1>4, <1>7, TextsKept
  <2>2. \A q \in Calls : Works(q)' => Works(q) /\ call'[q] = call[q]
    BY <1>7 DEF Works
  <2>3. \A q \in Calls : Works(q)' /\ call'[q].at \in {"build", "index"} => LongText(call'[q].job)
    BY <1>2, <2>2 DEF TextInv, JobsAreTexts
  <2>5. \A q \in Calls : IndexedText(q)' =>
          IndexedText(q) /\ call'[q] = call[q] /\ before'[q] = before[q]
    BY <1>3, <1>4, <1>7 DEF IndexedText
  <2>7. \A q \in Calls : Works(q) => Works(q)' /\ call'[q] = call[q]
    BY <1>7 DEF Works
  <2>. QED
    BY <1>1, <1>2, <1>6, <2>1, <2>3, <2>5, <2>7, TextKeeps
<1>9. TasksNamed'
  BY <1>1, <1>2, <1>4, TextNames
<1>. QED
  BY <1>1, <1>2, <1>4, <1>6, <1>8, <1>9, RagRest DEF indexVars

\* What a row holds once a text has been written.
LEMMA UpsertedRows ==
    ASSUME NEW rows, NEW x, NEW s \in Slots
    PROVE  Upserted(rows, x)[s] =
               IF s[1] = call[x].text.doc /\ s[2] <= call[x].text.size THEN x ELSE rows[s]
BY DEF Upserted

\* A text that is written takes its document's rows, and leaves the others.
LEMMA UpsertedText ==
    ASSUME NEW rows, NEW x \in Calls, HasText(x)
    PROVE  /\ Upserted(rows, x) \in [Slots -> {x} \cup {rows[s] : s \in Slots}]
           /\ \A s \in Slots : Upserted(rows, x)[s] \in {x, rows[s]}
           /\ \A p \in 1..call[x].text.size : Upserted(rows, x)[<<call[x].text.doc, p>>] = x
<1>1. call[x].text \in RagTexts /\ call[x].text.size \in {0, 1, 2}
  BY RagIndexingAssumption DEF HasText, TextLocal, Positions
<1>2. \A p \in 1..call[x].text.size :
        <<call[x].text.doc, p>> \in Slots /\ p <= call[x].text.size
  BY <1>1, TextSlots
<1>3. \A p \in 1..call[x].text.size :
        Upserted(rows, x)[<<call[x].text.doc, p>>] = x
  BY <1>2, UpsertedRows
<1>4. \A s \in Slots : Upserted(rows, x)[s] \in {x, rows[s]}
  BY UpsertedRows
<1>5. Upserted(rows, x) \in [Slots -> {x} \cup {rows[s] : s \in Slots}]
  BY DEF Upserted
<1>. QED
  BY <1>3, <1>4, <1>5

\* A short text's job is named for its document, and no call's.
LEMMA SaveTextKeeps ==
    ASSUME IInv, NEW c \in Calls, SaveText(c), UNCHANGED <<indexVars, results>>
    PROVE  IInv'
<1>1. /\ call[c].at = "save"
      /\ jobs' = [jobs EXCEPT ![call[c].text.doc] = "succeeded"]
      /\ stored' = Upserted(stored, c)
      /\ Goto(c, "publish")
      /\ UNCHANGED <<tasks, waiting, evidence>>
  BY DEF SaveText
<1>2. Types /\ Ordered /\ TasksNamed /\ TextInv
      /\ UNCHANGED <<vectorOn, documents, chunks, cache, results>>
  BY DEF IInv, indexVars
<1>3. HasText(c) /\ ~Ended(c) /\ ~Works(c)
  BY <1>1, <1>2, WhoIsAtText, LocalsDiffer DEF HasText, Works
<1> PICK x \in TextLocal : x = call[c]
  BY <1>3 DEF HasText
<1> PICK new : new = [x EXCEPT !.at = "publish"]
  OBVIOUS
<1>4. new \in TextLocal /\ new.at = "publish" /\ new.text = x.text
  BY DEF TextLocal
<1>5. call' = [call EXCEPT ![c] = new] /\ before' = before
  BY <1>1 DEF Goto
<1>6. Frame(c, TextLocal) /\ call'[c] = new
  BY <1>2, <1>3, <1>4, <1>5, Goes DEF Local
<1>7. /\ x.text.doc \in Documents /\ x.text.doc \in JobIds /\ x.text.doc \notin Calls
      /\ jobs' \in [JobIds -> JobStatuses]
      /\ \A j \in Calls : jobs'[j] = jobs[j]
  <2>1. x.text.doc \in Documents
    BY RagIndexingAssumption DEF TextLocal
  <2>2. x.text.doc \in JobIds /\ x.text.doc \notin Calls
    BY <2>1, RagIndexingAssumption DEF JobIds
  <2>. QED
    BY <1>1, <1>2, <2>1, <2>2 DEF JobIds, JobStatuses, Types
<1>8. /\ stored' \in [Slots -> Calls \cup {NoCall}]
      /\ \A s \in Slots : stored'[s] \in {c, stored[s]}
  BY <1>1, <1>2, <1>3, UpsertedText DEF Types
<1>9. Types'
  BY <1>1, <1>2, <1>6, <1>7, <1>8 DEF Types, Frame
<1>10. /\ \A q \in Calls \ {c} : call'[q] = call[q] /\ before'[q] = before[q]
       /\ ~Works(c)'
  BY <1>4, <1>6, LocalsDiffer DEF Frame, Works
<1>11. TextInv'
  <2>1. \A q \in Calls : HasText(q) => HasText(q)' /\ call'[q].text = call[q].text
    BY <1>2, <1>4, <1>6, TextsKept
  <2>2. \A q \in Calls : (Works(q)' <=> Works(q)) /\ (Works(q) => call'[q] = call[q])
    BY <1>3, <1>10 DEF Works
  <2>3. \A q \in Calls : Works(q)' /\ call'[q].at \in {"build", "index"} => LongText(call'[q].job)
    BY <1>2, <2>2 DEF TextInv, JobsAreTexts
  <2>4. \A s \in Slots : \/ stored'[s] = stored[s]
                         \/ stored'[s] \in Calls /\ HasText(stored'[s])
    BY <1>3, <1>8
  <2>5. \A q \in Calls : IndexedText(q)' =>
          IndexedText(q) /\ call'[q] = call[q] /\ before'[q] = before[q]
    BY <1>4, <1>6, <1>10 DEF IndexedText
  <2>. QED
    BY <1>1, <1>2, <1>7, <1>9, <2>1, <2>2, <2>3, <2>4, <2>5, TextKeeps
<1>12. TasksNamed'
  BY <1>1, <1>2, <1>6, TextNames
<1>. QED
  BY <1>1, <1>2, <1>6, <1>9, <1>11, <1>12, RagRest DEF indexVars

\* A short text is found from here on: its rows are those of a call that is before
\* nobody.
LEMMA PublishTextKeeps ==
    ASSUME IInv, NEW c \in Calls, PublishText(c), UNCHANGED <<indexVars, results>>
    PROVE  IInv'
<1>1. /\ call[c].at = "publish"
      /\ evidence' = Upserted(evidence, c)
      /\ End(c, "indexed")
      /\ UNCHANGED <<tasks, jobs, stored, waiting>>
  BY DEF PublishText
<1>2. Types /\ Ordered /\ TasksNamed /\ TextInv
      /\ UNCHANGED <<vectorOn, documents, chunks, cache, results>>
  BY DEF IInv, indexVars
<1>3. HasText(c) /\ ~Ended(c) /\ ~Works(c)
  BY <1>1, <1>2, WhoIsAtText, LocalsDiffer DEF HasText, Works
<1> PICK x \in TextLocal : x = call[c]
  BY <1>3 DEF HasText
<1> PICK new : new = [x EXCEPT !.at = "done", !.outcome = "indexed"]
  OBVIOUS
<1>4. new \in TextLocal /\ new.at = "done" /\ new.text = x.text
  BY DEF TextLocal, Outcomes
<1>5. call' = [call EXCEPT ![c] = new] /\ before' = before
  <2>1. call' = [call EXCEPT ![c] = [call[c] EXCEPT !.at = "done", !.outcome = "indexed"]]
    BY <1>1, <1>2 DEF End, Types
  <2>. QED
    BY <1>1, <2>1 DEF End
<1>6. Frame(c, TextLocal) /\ call'[c] = new
  BY <1>2, <1>3, <1>4, <1>5, Goes DEF Local
<1>7. /\ evidence' \in [Slots -> Calls \cup {NoCall}]
      /\ \A s \in Slots : evidence'[s] \in {c, evidence[s]}
      /\ \A p \in 1..x.text.size : evidence'[<<x.text.doc, p>>] = c
  BY <1>1, <1>2, <1>3, UpsertedText DEF Types
<1>8. Types'
  BY <1>1, <1>2, <1>6, <1>7 DEF Types, Frame
<1>9. /\ \A q \in Calls \ {c} : call'[q] = call[q] /\ before'[q] = before[q]
      /\ \A q \in Calls : c \notin before'[q]
      /\ ~Works(c)'
  BY <1>2, <1>4, <1>6, LocalsDiffer, FrameKeepsOrder DEF Frame, Works
<1>10. TextInv'
  <2>1. \A q \in Calls : HasText(q) => HasText(q)' /\ call'[q].text = call[q].text
    BY <1>2, <1>4, <1>6, TextsKept
  <2>2. \A q \in Calls : (Works(q)' <=> Works(q)) /\ (Works(q) => call'[q] = call[q])
    BY <1>3, <1>9 DEF Works
  <2>3. \A q \in Calls : Works(q)' /\ call'[q].at \in {"build", "index"} => LongText(call'[q].job)
    BY <1>2, <2>2 DEF TextInv, JobsAreTexts
  <2>4. \A s \in Slots : evidence'[s] = c => NewRow(s)
    BY <1>3, <1>9 DEF NewRow
  <2>5. ASSUME NEW q \in Calls, IndexedText(q)'
        PROVE  \/ IndexedText(q) /\ call'[q] = call[q] /\ before'[q] = before[q]
               \/ \A p \in 1..call'[q].text.size : NewRow(<<call'[q].text.doc, p>>)
    <3>1. CASE q = c
      <4>1. call'[q].text = x.text /\ x.text \in RagTexts
        BY <1>4, <1>6, <3>1 DEF TextLocal
      <4>2. \A p \in 1..x.text.size : NewRow(<<x.text.doc, p>>)
        BY <1>7, <2>4, <4>1, TextSlots
      <4>. QED
        BY <4>1, <4>2
    <3>2. CASE q # c
      BY <1>9, <2>5, <3>2 DEF IndexedText
    <3>. QED
      BY <3>1, <3>2
  <2>6. \A s \in Slots : evidence'[s] = evidence[s] \/ NewRow(s)
    BY <1>7, <2>4
  <2>. QED
    BY <1>1, <1>2, <1>8, <2>1, <2>2, <2>3, <2>5, <2>6, TextKeeps
<1>11. TasksNamed'
  BY <1>1, <1>2, <1>6, TextNames
<1>. QED
  BY <1>1, <1>2, <1>6, <1>8, <1>10, <1>11, RagRest DEF indexVars

\* A job queued once more is a task of its own.
LEMMA QueueJobKeeps ==
    ASSUME IInv, QueueJob, UNCHANGED <<indexVars, results>>
    PROVE  IInv'
<1>1. PICK j \in JobIds :
        Enqueue("indexing", j) /\ UNCHANGED <<call, before, jobs, stored, waiting, evidence>>
  BY DEF QueueJob, ragVars
<1>2. Types /\ Ordered /\ TasksNamed /\ VectorInv /\ KeyInv /\ TextInv /\ AnalysisInv
      /\ UNCHANGED <<vectorOn, documents, chunks, cache, results>>
  BY DEF IInv, indexVars
<1>3. /\ TasksGrow /\ DOMAIN tasks' = DOMAIN tasks \cup {Len(tasks')}
      /\ tasks'[Len(tasks')] = Task("indexing", j)
      /\ \A t \in DOMAIN tasks : tasks'[t] = tasks[t]
  BY <1>1, <1>2, Enqueues DEF Kinds
<1>4. Types'
  BY <1>1, <1>2, <1>3 DEF Types, TasksGrow
<1>5. Same(IndexLocal) /\ Same(TextLocal) /\ Same(JobLocal) /\ Same(AnalysisLocal)
  BY <1>1 DEF Same
<1>6. Ordered'
  BY <1>1, <1>2 DEF Ordered, Done
<1>7. TasksNamed'
  <2>1. Task("indexing", j).kind = "indexing" /\ Task("indexing", j).of = j
    BY DEF Task
  <2>2. \A t \in DOMAIN tasks' :
          tasks'[t].of \in IF tasks'[t].kind = "indexing" THEN JobIds \cup {None} ELSE Series
    BY <1>2, <1>3, <2>1 DEF TasksNamed
  <2>. QED
    BY <1>1, <1>2, <1>3, <2>2 DEF TasksNamed, TasksGrow, Asks, Works, Analyzes
<1>8. VectorInv' /\ KeyInv' /\ TextInv'
  BY <1>1, <1>2, <1>4, <1>5, <1>6, VectorElsewhere, KeyElsewhere, TextElsewhere DEF ragVars
<1>9. AnalysisInv'
  <2>1. tasks'[Len(tasks')].kind # "analytics"
    BY <1>3 DEF Task
  <2>2. \A t \in DOMAIN tasks' :
          tasks'[t].kind = "analytics" /\ tasks'[t].status = "succeeded" =>
              t \in DOMAIN tasks /\ tasks'[t] = tasks[t]
    BY <1>3, <2>1
  <2>. QED
    BY <1>2, <1>5, <2>2, AnalysisElsewhere
<1>. QED
  BY <1>4, <1>6, <1>7, <1>8, <1>9 DEF IInv

\* A worker goes to its next step, and keeps the rest.
LEMMA JobGoto ==
    ASSUME IInv, NEW c \in Calls, call[c].at \in {"check", "run", "build", "index"},
           NEW at \in {"run", "build", "index", "succeed", "fail"}, Goto(c, at)
    PROVE  /\ Frame(c, JobLocal) /\ Works(c) /\ Works(c)' /\ call'[c].at = at
           /\ call'[c].job = call[c].job /\ call'[c].task = call[c].task
           /\ before' = before
           /\ \A q \in Calls \ {c} : call'[q] = call[q]
<1>1. Types
  BY DEF IInv
<1>2. Works(c) /\ ~Ended(c)
  BY <1>1, WhoWorks
<1> PICK x \in JobLocal : x = call[c]
  BY <1>2 DEF Works
<1> PICK new : new = [x EXCEPT !.at = at]
  OBVIOUS
<1>3. new \in JobLocal /\ new.at = at /\ new.job = x.job /\ new.task = x.task
  BY DEF JobLocal
<1>4. call' = [call EXCEPT ![c] = new] /\ before' = before
  BY DEF Goto
<1>5. Frame(c, JobLocal) /\ call'[c] = new
  BY <1>1, <1>2, <1>3, <1>4, Goes DEF Local, Works
<1>. QED
  BY <1>2, <1>3, <1>4, <1>5 DEF Frame, Works

\* A worker that goes on, when it and the stores are as the job's texts need.
LEMMA JobKeeps ==
    ASSUME IInv, NEW c \in Calls, UNCHANGED <<tasks, indexVars, results>>,
           call[c].at \in {"check", "run", "build", "index"},
           NEW at \in {"run", "build", "index", "succeed", "fail"}, Goto(c, at),
           jobs' \in [JobIds -> JobStatuses],
           stored' \in [Slots -> Calls \cup {NoCall}],
           evidence' \in [Slots -> Calls \cup {NoCall}],
           waiting' \subseteq waiting,
           at \in {"build", "index"} => LongText(call[c].job),
           \A s \in Slots : \/ stored'[s] = stored[s]
                            \/ stored'[s] \in Calls /\ HasText(stored'[s]),
           \A s \in Slots : evidence'[s] = evidence[s] \/ NewRow(s),
           \A j \in Calls : jobs'[j] = "succeeded" =>
               \/ jobs[j] = "succeeded"
               \/ /\ at = "index" /\ j = call[c].job
                  /\ \A p \in 1..call[j].text.size : stored'[<<call[j].text.doc, p>>] # NoCall,
           call[c].at = "index" =>
               LET text == call[call[c].job].text IN
               \A p \in 1..text.size : evidence'[<<text.doc, p>>] # NoCall
    PROVE  IInv'
<1>1. /\ Frame(c, JobLocal) /\ Works(c) /\ Works(c)' /\ call'[c].at = at
      /\ call'[c].job = call[c].job /\ call'[c].task = call[c].task
      /\ before' = before
      /\ \A q \in Calls \ {c} : call'[q] = call[q]
  BY JobGoto
<1>2. Types /\ Ordered /\ TasksNamed /\ TextInv
      /\ UNCHANGED <<vectorOn, documents, chunks, cache, results>>
  BY DEF IInv, indexVars
<1>3. Types'
  BY <1>1, <1>2 DEF Types, Frame
<1>4. ~HasText(c) /\ ~HasText(c)'
  BY <1>1, LocalsDiffer DEF HasText, Works
<1>5. TextInv'
  <2>1. \A q \in Calls : HasText(q) => HasText(q)' /\ call'[q].text = call[q].text
    BY <1>1, <1>2, <1>4, TextsKept
  <2>2. \A q \in Calls : Works(q)' /\ call'[q].at \in {"build", "index"} => LongText(call'[q].job)
    <3> SUFFICES ASSUME NEW q \in Calls, Works(q)', call'[q].at \in {"build", "index"}
                 PROVE  LongText(call'[q].job)
      OBVIOUS
    <3>1. CASE q = c
      BY <1>1, <3>1
    <3>2. CASE q # c
      BY <1>1, <1>2, <3>2 DEF TextInv, JobsAreTexts, Works
    <3>. QED
      BY <3>1, <3>2
  <2>3. \A q \in Calls : IndexedText(q)' =>
          IndexedText(q) /\ call'[q] = call[q] /\ before'[q] = before[q]
    <3>1. ~IndexedText(c)'
      BY <1>3, <1>4, LocalsApart DEF Types, IndexedText, HasText
    <3>. QED
      BY <1>1, <3>1 DEF IndexedText
  <2>4. \A j \in Calls : jobs'[j] = "succeeded" =>
          \/ jobs[j] = "succeeded"
          \/ /\ HasText(j)
             /\ \A p \in 1..call[j].text.size : stored'[<<call[j].text.doc, p>>] # NoCall
             /\ \E q \in Calls : Works(q)' /\ call'[q].at = "index" /\ call'[q].job = j
    BY <1>1 DEF LongText
  <2>5. \A q \in Calls : Works(q) /\ call[q].at = "index" =>
          \/ Works(q)' /\ call'[q].at = "index" /\ call'[q].job = call[q].job
          \/ LET text == call[call[q].job].text IN
             \A p \in 1..text.size : evidence'[<<text.doc, p>>] # NoCall
    <3> SUFFICES ASSUME NEW q \in Calls, Works(q), call[q].at = "index"
                 PROVE  \/ Works(q)' /\ call'[q].at = "index" /\ call'[q].job = call[q].job
                        \/ LET text == call[call[q].job].text IN
                           \A p \in 1..text.size : evidence'[<<text.doc, p>>] # NoCall
      OBVIOUS
    <3>1. CASE q = c
      BY <3>1
    <3>2. CASE q # c
      BY <1>1, <3>2 DEF Works
    <3>. QED
      BY <3>1, <3>2
  <2>. QED
    BY <1>2, <1>3, <2>1, <2>2, <2>3, <2>4, <2>5, TextKeeps
<1>6. TasksNamed'
  BY <1>1, <1>2, JobNames
<1>. QED
  BY <1>1, <1>2, <1>3, <1>5, <1>6, RagRest DEF indexVars

\* The status of the job decides where the worker goes.
LEMMA CheckJobKeeps ==
    ASSUME IInv, NEW c \in Calls, CheckJob(c), UNCHANGED <<indexVars, results>>
    PROVE  IInv'
<1>1. PICK at \in {"run", "succeed", "fail"} :
        /\ call[c].at = "check" /\ Goto(c, at)
        /\ UNCHANGED <<tasks, jobs, stored, waiting, evidence>>
  BY DEF CheckJob, ragVars
<1>2. Types
  BY DEF IInv
<1>. QED
  BY <1>1, <1>2, JobKeeps DEF Types

\* A worker builds only a job whose request waits, which is a long text.
LEMMA RunJobKeeps ==
    ASSUME IInv, NEW c \in Calls, RunJob(c), UNCHANGED <<indexVars, results>>
    PROVE  IInv'
<1>1. PICK at \in {"build", "fail"} :
        /\ call[c].at = "run" /\ Goto(c, at)
        /\ jobs' = [jobs EXCEPT ![call[c].job] = "running"]
        /\ at = "build" => call[c].job \in waiting
        /\ UNCHANGED <<tasks, stored, waiting, evidence>>
  BY DEF RunJob
<1>2. Types /\ TextInv
  BY DEF IInv
<1>3. at = "build" => LongText(call[c].job)
  BY <1>1, <1>2 DEF TextInv, JobsAreTexts
<1>4. /\ jobs' \in [JobIds -> JobStatuses]
      /\ \A j \in Calls : jobs'[j] = "succeeded" => jobs[j] = "succeeded"
  BY <1>1, <1>2 DEF Types, JobStatuses, JobIds
<1>. QED
  BY <1>1, <1>2, <1>3, <1>4, JobKeeps DEF Types

\* A build that fails fails the job.
LEMMA BuildFailsKeeps ==
    ASSUME IInv, NEW c \in Calls, BuildFails(c), UNCHANGED <<indexVars, results>>
    PROVE  IInv'
<1>1. /\ call[c].at = "build" /\ Goto(c, "fail")
      /\ jobs' = [jobs EXCEPT ![call[c].job] = "failed"]
      /\ UNCHANGED <<tasks, stored, waiting, evidence>>
  BY DEF BuildFails
<1>2. Types
  BY DEF IInv
<1>3. /\ jobs' \in [JobIds -> JobStatuses]
      /\ \A j \in Calls : jobs'[j] = "succeeded" => jobs[j] = "succeeded"
  BY <1>1, <1>2 DEF Types, JobStatuses, JobIds
<1>. QED
  BY <1>1, <1>2, <1>3, JobKeeps DEF Types

\* A repository that raises leaves the job as it is.
LEMMA SaveRaisesKeeps ==
    ASSUME IInv, NEW c \in Calls, SaveRaises(c), UNCHANGED <<indexVars, results>>
    PROVE  IInv'
<1>1. /\ call[c].at = "build" /\ Goto(c, "fail")
      /\ UNCHANGED <<tasks, jobs, stored, waiting, evidence>>
  BY DEF SaveRaises, ragVars
<1>2. Types
  BY DEF IInv
<1>. QED
  BY <1>1, <1>2, JobKeeps DEF Types

\* The job succeeds with its chunks stored and its worker about to publish them.
LEMMA SaveJobKeeps ==
    ASSUME IInv, NEW c \in Calls, SaveJob(c), UNCHANGED <<indexVars, results>>
    PROVE  IInv'
<1> PICK j : j = call[c].job
  OBVIOUS
<1>1. /\ call[c].at = "build" /\ Goto(c, "index")
      /\ jobs' = [jobs EXCEPT ![j] = "succeeded"]
      /\ stored' = Upserted(stored, j)
      /\ UNCHANGED <<tasks, waiting, evidence>>
  BY DEF SaveJob
<1>2. Types /\ TextInv
  BY DEF IInv
<1>3. LongText(j) /\ j \in Calls /\ HasText(j) /\ j # NoCall
  BY <1>1, <1>2, WhoWorks, TaskQueueAssumption DEF TextInv, JobsAreTexts, LongText
<1>4. /\ jobs' \in [JobIds -> JobStatuses]
      /\ \A k \in Calls \ {j} : jobs'[k] = jobs[k]
  BY <1>1, <1>2, <1>3 DEF Types, JobStatuses, JobIds
<1>5. /\ stored' \in [Slots -> Calls \cup {NoCall}]
      /\ \A s \in Slots : stored'[s] \in {j, stored[s]}
      /\ \A p \in 1..call[j].text.size : stored'[<<call[j].text.doc, p>>] = j
  BY <1>1, <1>2, <1>3, UpsertedText DEF Types
<1>6. \A s \in Slots : \/ stored'[s] = stored[s]
                       \/ stored'[s] \in Calls /\ HasText(stored'[s])
  BY <1>3, <1>5
<1>7. \A k \in Calls : jobs'[k] = "succeeded" =>
        \/ jobs[k] = "succeeded"
        \/ /\ k = call[c].job
           /\ \A p \in 1..call[k].text.size : stored'[<<call[k].text.doc, p>>] # NoCall
  BY <1>3, <1>4, <1>5
<1>. QED
  BY <1>1, <1>2, <1>3, <1>4, <1>5, <1>6, <1>7, JobKeeps DEF Types

\* The job's chunks are found; the rows they replace are a long text's now.
LEMMA PublishJobKeeps ==
    ASSUME IInv, NEW c \in Calls, PublishJob(c), UNCHANGED <<indexVars, results>>
    PROVE  IInv'
<1> PICK j : j = call[c].job
  OBVIOUS
<1>1. /\ call[c].at = "index" /\ Goto(c, "succeed")
      /\ waiting' = waiting \ {j}
      /\ evidence' = Upserted(evidence, j)
      /\ UNCHANGED <<tasks, jobs, stored>>
  BY DEF PublishJob
<1>2. Types /\ TextInv
  BY DEF IInv
<1>3. LongText(j) /\ j \in Calls /\ HasText(j) /\ j # NoCall
  BY <1>1, <1>2, WhoWorks, TaskQueueAssumption DEF TextInv, JobsAreTexts, LongText
<1>4. /\ evidence' \in [Slots -> Calls \cup {NoCall}]
      /\ \A s \in Slots : evidence'[s] \in {j, evidence[s]}
      /\ \A p \in 1..call[j].text.size : evidence'[<<call[j].text.doc, p>>] = j
  BY <1>1, <1>2, <1>3, UpsertedText DEF Types
<1>5. \A s \in Slots : evidence'[s] = evidence[s] \/ NewRow(s)
  BY <1>3, <1>4 DEF NewRow, LongText
<1>6. LET text == call[call[c].job].text IN
      \A p \in 1..text.size : evidence'[<<text.doc, p>>] # NoCall
  BY <1>3, <1>4
<1>. QED
  BY <1>1, <1>2, <1>3, <1>4, <1>5, <1>6, JobKeeps DEF Types

\* A task of another kind of work is marked, or one that is not done.
LEMMA MarkedElsewhere ==
    ASSUME Types, NEW t \in DOMAIN tasks, NEW status \in Statuses, Mark(t, status),
           tasks[t].kind # "analytics" \/ status # "succeeded"
    PROVE  \A u \in DOMAIN tasks' :
               tasks'[u].kind = "analytics" /\ tasks'[u].status = "succeeded" =>
                   u \in DOMAIN tasks /\ tasks'[u] = tasks[u]
<1>1. /\ DOMAIN tasks' = DOMAIN tasks /\ tasks'[t].status = status
      /\ tasks'[t].kind = tasks[t].kind
      /\ \A u \in DOMAIN tasks \ {t} : tasks'[u] = tasks[u]
  BY Marks DEF TasksGrow
<1>. QED
  BY <1>1

\* A worker that begins or ends with a task changes nothing of the texts.
LEMMA JobEdges ==
    ASSUME IInv, NEW c \in Calls, Frame(c, JobLocal), UNCHANGED <<indexVars, ragVars, results>>,
           Works(c) => call[c].at # "index",
           call'[c].at \notin {"build", "index"}, TasksGrow,
           DOMAIN tasks' = DOMAIN tasks,
           call'[c].task \in DOMAIN tasks, tasks[call'[c].task].kind = "indexing",
           \A t \in DOMAIN tasks' :
               tasks'[t].kind = "analytics" /\ tasks'[t].status = "succeeded" =>
                   t \in DOMAIN tasks /\ tasks'[t] = tasks[t]
    PROVE  IInv'
<1>1. Types /\ Ordered /\ TasksNamed /\ TextInv
      /\ UNCHANGED <<vectorOn, documents, chunks, cache, jobs, stored, waiting, evidence, results>>
  BY DEF IInv, indexVars, ragVars
<1>2. Types'
  BY <1>1 DEF Types, Frame, TasksGrow
<1>3. /\ ~HasText(c) /\ ~HasText(c)' /\ ~Asks(c)' /\ ~Analyzes(c)'
      /\ \A q \in Calls \ {c} : call'[q] = call[q] /\ before'[q] = before[q]
  BY LocalsDiffer DEF Frame, HasText, Asks, Analyzes
<1>4. TextInv'
  <2>1. \A q \in Calls : HasText(q) => HasText(q)' /\ call'[q].text = call[q].text
    BY <1>1, <1>3, TextsKept
  <2>2. \A q \in Calls : Works(q)' /\ call'[q].at \in {"build", "index"} => LongText(call'[q].job)
    <3> SUFFICES ASSUME NEW q \in Calls, Works(q)', call'[q].at \in {"build", "index"}
                 PROVE  LongText(call'[q].job)
      OBVIOUS
    <3>1. q # c
      OBVIOUS
    <3>. QED
      BY <1>1, <1>3, <3>1 DEF TextInv, JobsAreTexts, Works
  <2>3. \A q \in Calls : IndexedText(q)' =>
          IndexedText(q) /\ call'[q] = call[q] /\ before'[q] = before[q]
    <3>1. ~IndexedText(c)'
      BY <1>2, <1>3, LocalsApart DEF Types, IndexedText, HasText
    <3>. QED
      BY <1>3, <3>1 DEF IndexedText
  <2>4. \A q \in Calls : Works(q) /\ call[q].at = "index" =>
          Works(q)' /\ call'[q].at = "index" /\ call'[q].job = call[q].job
    BY <1>3 DEF Works
  <2>. QED
    BY <1>1, <1>2, <2>1, <2>2, <2>3, <2>4, TextKeeps
<1>5. TasksNamed'
  BY <1>1, <1>3, NamesStay DEF TasksGrow
<1>. QED
  BY <1>1, <1>2, <1>4, <1>5, RagRest DEF indexVars

\* A worker takes an indexing task.
LEMMA TakeIndexingKeeps ==
    ASSUME IInv, NEW c \in Calls, TakeIndexing(c), UNCHANGED <<indexVars, results>>
    PROVE  IInv'
<1>1. PICK t \in DOMAIN tasks :
        /\ tasks[t].kind = "indexing"
        /\ Begin(c, [at |-> "check", task |-> t, job |-> tasks[t].of, outcome |-> None])
        /\ Mark(t, "running")
        /\ UNCHANGED ragVars
  BY DEF TakeIndexing
<1>2. Types /\ TasksNamed
  BY DEF IInv
<1>3. t \in Nat /\ tasks[t].of \in JobIds \cup {None}
  <2>1. DOMAIN tasks = 1..Len(tasks)
    BY <1>2, LenProperties DEF Types
  <2>. QED
    BY <1>1, <1>2, <2>1 DEF TasksNamed
<1> PICK new : new = [at |-> "check", task |-> t, job |-> tasks[t].of, outcome |-> None]
  OBVIOUS
<1>4. new \in JobLocal /\ new.at = "check" /\ new.task = t
  BY <1>3 DEF JobLocal, Outcomes
<1>5. Frame(c, JobLocal) /\ call'[c] = new /\ call[c] = Idle /\ ~Works(c)
  BY <1>1, <1>2, <1>4, Begins, LocalsDiffer DEF Local, Works
<1>6. TasksGrow /\ DOMAIN tasks' = DOMAIN tasks
  BY <1>1, <1>2, Marks DEF Statuses
<1>7. \A u \in DOMAIN tasks' :
        tasks'[u].kind = "analytics" /\ tasks'[u].status = "succeeded" =>
            u \in DOMAIN tasks /\ tasks'[u] = tasks[u]
  BY <1>1, <1>2, MarkedElsewhere DEF Statuses
<1>. QED
  BY <1>1, <1>4, <1>5, <1>6, <1>7, JobEdges

\* A worker marks its task, which is an indexing one.
LEMMA MarkTaskKeeps ==
    ASSUME IInv, NEW c \in Calls, MarkTask(c), UNCHANGED <<indexVars, results>>
    PROVE  IInv'
<1> PICK t : t = call[c].task
  OBVIOUS
<1>1. PICK status \in {"succeeded", "failed"} :
        /\ call[c].at \in {"succeed", "fail"}
        /\ Mark(t, status) /\ End(c, None) /\ UNCHANGED ragVars
  BY DEF MarkTask
<1>2. Types /\ TasksNamed
  BY DEF IInv
<1>3. Works(c) /\ ~Ended(c)
  BY <1>1, <1>2, WhoWorks
<1>4. t \in DOMAIN tasks /\ tasks[t].kind = "indexing"
  BY <1>2, <1>3 DEF TasksNamed
<1> PICK x \in JobLocal : x = call[c]
  BY <1>3 DEF Works
<1> PICK new : new = [x EXCEPT !.at = "done", !.outcome = None]
  OBVIOUS
<1>5. new \in JobLocal /\ new.at = "done" /\ new.task = x.task
  BY DEF JobLocal, Outcomes
<1>6. call' = [call EXCEPT ![c] = new] /\ before' = before
  <2>1. call' = [call EXCEPT ![c] = [call[c] EXCEPT !.at = "done", !.outcome = None]]
    BY <1>1, <1>2 DEF End, Types
  <2>. QED
    BY <1>1, <2>1 DEF End
<1>7. Frame(c, JobLocal) /\ call'[c] = new
  BY <1>2, <1>3, <1>5, <1>6, Goes DEF Local
<1>8. TasksGrow /\ DOMAIN tasks' = DOMAIN tasks
  BY <1>1, <1>2, <1>4, Marks DEF Statuses
<1>9. \A u \in DOMAIN tasks' :
        tasks'[u].kind = "analytics" /\ tasks'[u].status = "succeeded" =>
            u \in DOMAIN tasks /\ tasks'[u] = tasks[u]
  BY <1>1, <1>2, <1>4, MarkedElsewhere DEF Statuses
<1>10. /\ call[c].at # "index" /\ call'[c].at \notin {"build", "index"}
       /\ call'[c].task \in DOMAIN tasks /\ tasks[call'[c].task].kind = "indexing"
       /\ UNCHANGED ragVars
  BY <1>1, <1>4, <1>5, <1>7
<1>. QED
  BY <1>7, <1>8, <1>9, <1>10, JobEdges

\* Whatever is done with a text or a job keeps the invariant.
LEMMA RagStepKeeps ==
    ASSUME IInv, NEW c \in Calls, RagStep(c), UNCHANGED <<indexVars, results>>
    PROVE  IInv'
BY QueueTextKeeps, CutTextKeeps, SaveTextKeeps, PublishTextKeeps, TakeIndexingKeeps,
   CheckJobKeeps, RunJobKeeps, BuildFailsKeeps, SaveJobKeeps, SaveRaisesKeeps,
   PublishJobKeeps, MarkTaskKeeps
   DEF RagStep

-----------------------------------------------------------------------------
(* Analyses, and a process that restarts.                                  *)

\* What the steps of analyses have in common.
LEMMA AnalysisRest ==
    ASSUME IInv, Same(IndexLocal), Same(TextLocal), Same(JobLocal), Ordered', Types',
           UNCHANGED <<indexVars, ragVars>>, TasksNamed', AnalysisInv'
    PROVE  IInv'
<1>1. Types /\ Ordered /\ VectorInv /\ KeyInv /\ TextInv
      /\ UNCHANGED <<vectorOn, documents, chunks, cache, ragVars>>
  BY DEF IInv, indexVars
<1>2. VectorInv'
  BY <1>1, VectorElsewhere
<1>3. KeyInv'
  BY <1>1, KeyElsewhere
<1>4. TextInv'
  BY <1>1, TextElsewhere
<1>. QED
  BY <1>2, <1>3, <1>4 DEF IInv

\* Results are replaced, never taken away.
LEMMA AnalysisKeeps ==
    ASSUME Types, TasksNamed, AnalysisInv,
           \A trace \in Traces : results[trace] # None => results'[trace] # None,
           \A c \in Calls : Analyzes(c)' /\ call'[c].at = "analyzed" =>
               \/ Analyzes(c) /\ call'[c] = call[c]
               \/ results'[call'[c].series.trace] # None,
           \A t \in DOMAIN tasks' :
               tasks'[t].kind = "analytics" /\ tasks'[t].status = "succeeded" =>
                   \/ t \in DOMAIN tasks /\ tasks'[t] = tasks[t]
                   \/ results'[tasks'[t].of.trace] # None
    PROVE  AnalysisInv'
<1>1. ASSUME NEW c \in Calls, Analyzes(c)', call'[c].at = "analyzed"
      PROVE  results'[call'[c].series.trace] # None
  <2> SUFFICES ASSUME Analyzes(c), call'[c] = call[c]
               PROVE  results'[call[c].series.trace] # None
    BY <1>1
  <2>1. results[call[c].series.trace] # None
    BY <1>1 DEF AnalysisInv, Resulted
  <2>2. call[c].series.trace \in Traces
    BY DEF Analyzes, AnalysisLocal, Traces
  <2>. QED
    BY <2>1, <2>2
<1>2. ASSUME NEW t \in DOMAIN tasks', tasks'[t].kind = "analytics", tasks'[t].status = "succeeded"
      PROVE  results'[tasks'[t].of.trace] # None
  <2> SUFFICES ASSUME t \in DOMAIN tasks, tasks'[t] = tasks[t]
               PROVE  results'[tasks[t].of.trace] # None
    BY <1>2
  <2>1. results[tasks[t].of.trace] # None
    BY <1>2 DEF AnalysisInv, Resulted
  <2>2. tasks[t].of.trace \in Traces
    BY <1>2 DEF TasksNamed, Traces
  <2>. QED
    BY <2>1, <2>2
<1>. QED
  BY <1>1, <1>2 DEF AnalysisInv, Resulted

\* Nobody moves.
LEMMA Stands ==
    ASSUME IInv, UNCHANGED <<call, before>>
    PROVE  /\ Same(IndexLocal) /\ Same(TextLocal) /\ Same(JobLocal) /\ Same(AnalysisLocal)
           /\ Ordered'
BY DEF IInv, Same, Ordered, Done

\* A series analyzed at once is saved.
LEMMA AnalyzeNowKeeps ==
    ASSUME IInv, AnalyzeNow, UNCHANGED <<indexVars, ragVars>>
    PROVE  IInv'
<1>1. PICK s \in Series :
        /\ results' = [results EXCEPT ![s.trace] = s.org]
        /\ UNCHANGED <<tasks, call, before>>
  BY DEF AnalyzeNow
<1>2. Types /\ TasksNamed /\ AnalysisInv /\ UNCHANGED <<vectorOn, documents, chunks, cache>>
      /\ UNCHANGED <<jobs, stored, waiting, evidence>>
  BY DEF IInv, indexVars, ragVars
<1>3. /\ s.trace \in Traces /\ s.org # None
      /\ results' \in [Traces -> {s1.org : s1 \in Series} \cup {Legacy, None}]
      /\ \A trace \in Traces : results'[trace] = IF trace = s.trace THEN s.org ELSE results[trace]
  <2>1. s.trace \in Traces /\ s.org # None /\ s.org \in {s1.org : s1 \in Series}
    BY AnalyticsTasksAssumption DEF Traces
  <2>. QED
    BY <1>1, <1>2, <2>1 DEF Types
<1>4. Types'
  BY <1>1, <1>2, <1>3 DEF Types
<1>5. TasksNamed'
  BY <1>1, <1>2 DEF TasksNamed, Asks, Works, Analyzes
<1>6. AnalysisInv'
  BY <1>1, <1>2, <1>3, AnalysisKeeps DEF Analyzes
<1>. QED
  BY <1>1, <1>4, <1>5, <1>6, Stands, AnalysisRest

\* An analytics task is queued, and names its series.
LEMMA QueueAnalysisKeeps ==
    ASSUME IInv, QueueAnalysis, UNCHANGED <<indexVars, ragVars>>
    PROVE  IInv'
<1>1. PICK s \in Series : Enqueue("analytics", s) /\ UNCHANGED <<call, before, results>>
  BY DEF QueueAnalysis
<1>2. Types /\ TasksNamed /\ AnalysisInv /\ UNCHANGED <<vectorOn, documents, chunks, cache>>
      /\ UNCHANGED <<jobs, stored, waiting, evidence>>
  BY DEF IInv, indexVars, ragVars
<1>3. /\ TasksGrow /\ DOMAIN tasks' = DOMAIN tasks \cup {Len(tasks')}
      /\ tasks'[Len(tasks')] = Task("analytics", s)
      /\ \A t \in DOMAIN tasks : tasks'[t] = tasks[t]
  BY <1>1, <1>2, Enqueues DEF Kinds
<1>4. /\ tasks'[Len(tasks')].kind = "analytics" /\ tasks'[Len(tasks')].of = s
      /\ tasks'[Len(tasks')].status = "queued"
  BY <1>3 DEF Task
<1>5. Types'
  BY <1>1, <1>2, <1>3 DEF Types, TasksGrow
<1>6. TasksNamed'
  <2>1. \A t \in DOMAIN tasks' :
          tasks'[t].of \in IF tasks'[t].kind = "indexing" THEN JobIds \cup {None} ELSE Series
    BY <1>2, <1>3, <1>4 DEF TasksNamed
  <2>. QED
    BY <1>1, <1>2, <1>3, <2>1 DEF TasksNamed, TasksGrow, Asks, Works, Analyzes
<1>7. AnalysisInv'
  BY <1>1, <1>2, <1>3, <1>4, AnalysisKeeps DEF Analyzes
<1>. QED
  BY <1>1, <1>5, <1>6, <1>7, Stands, AnalysisRest

\* A task timed out has not succeeded.
LEMMA TimeOutKeeps ==
    ASSUME IInv, TimeOut, UNCHANGED <<indexVars, ragVars>>
    PROVE  IInv'
<1>1. PICK t \in DOMAIN tasks : Mark(t, "timed_out") /\ UNCHANGED <<call, before, results>>
  BY DEF TimeOut
<1>2. Types /\ TasksNamed /\ AnalysisInv /\ UNCHANGED <<vectorOn, documents, chunks, cache>>
      /\ UNCHANGED <<jobs, stored, waiting, evidence>>
  BY DEF IInv, indexVars, ragVars
<1>3. TasksGrow /\ DOMAIN tasks' = DOMAIN tasks
  BY <1>1, <1>2, Marks DEF Statuses
<1>4. Types'
  BY <1>1, <1>2, <1>3 DEF Types, TasksGrow
<1>5. TasksNamed'
  BY <1>1, <1>2, <1>3 DEF TasksNamed, TasksGrow, Asks, Works, Analyzes
<1>6. AnalysisInv'
  <2>1. \A u \in DOMAIN tasks' :
          tasks'[u].kind = "analytics" /\ tasks'[u].status = "succeeded" =>
              u \in DOMAIN tasks /\ tasks'[u] = tasks[u]
    BY <1>1, <1>2, MarkedElsewhere DEF Statuses
  <2>. QED
    BY <1>1, <1>2, <2>1, Stands, AnalysisElsewhere
<1>. QED
  BY <1>1, <1>4, <1>5, <1>6, Stands, AnalysisRest

\* The steps of an analytics worker.
LEMMA AnalysisGoes ==
    ASSUME IInv, NEW c \in Calls, Frame(c, AnalysisLocal), UNCHANGED <<indexVars, ragVars>>,
           results' \in [Traces -> {s.org : s \in Series} \cup {Legacy, None}],
           TasksGrow, DOMAIN tasks' = DOMAIN tasks,
           call'[c].task \in DOMAIN tasks, tasks[call'[c].task].kind = "analytics",
           tasks[call'[c].task].of = call'[c].series, AnalysisInv'
    PROVE  IInv'
<1>1. Types /\ Ordered /\ TasksNamed /\ UNCHANGED <<vectorOn, documents, chunks, cache>>
      /\ UNCHANGED <<jobs, stored, waiting, evidence>>
  BY DEF IInv, indexVars, ragVars
<1>2. Same(IndexLocal) /\ Same(TextLocal) /\ Same(JobLocal)
  BY LocalsDiffer, OthersSame
<1>3. Types'
  BY <1>1 DEF Types, Frame, TasksGrow
<1>4. Ordered'
  BY <1>1, FrameKeepsOrder
<1>5. TasksNamed'
  <2>1. ~Asks(c)' /\ ~Works(c)'
    BY LocalsDiffer DEF Frame, Asks, Works
  <2>. QED
    BY <1>1, <2>1, NamesStay DEF TasksGrow
<1>. QED
  BY <1>2, <1>3, <1>4, <1>5, AnalysisRest

\* A worker takes an analytics task, and its series.
LEMMA TakeAnalysisKeeps ==
    ASSUME IInv, NEW c \in Calls, TakeAnalysis(c), UNCHANGED <<indexVars, ragVars>>
    PROVE  IInv'
<1>1. PICK t \in DOMAIN tasks :
        /\ tasks[t].kind = "analytics"
        /\ Begin(c, [at |-> "analyze", task |-> t, series |-> tasks[t].of, outcome |-> None])
        /\ Mark(t, "running")
        /\ UNCHANGED results
  BY DEF TakeAnalysis
<1>2. Types /\ TasksNamed /\ AnalysisInv
  BY DEF IInv
<1>3. t \in Nat /\ tasks[t].of \in Series
  <2>1. DOMAIN tasks = 1..Len(tasks)
    BY <1>2, LenProperties DEF Types
  <2>. QED
    BY <1>1, <1>2, <2>1 DEF TasksNamed
<1> PICK new : new = [at |-> "analyze", task |-> t, series |-> tasks[t].of, outcome |-> None]
  OBVIOUS
<1>4. new \in AnalysisLocal /\ new.at = "analyze" /\ new.task = t /\ new.series = tasks[t].of
  BY <1>3 DEF AnalysisLocal, Outcomes
<1>5. Frame(c, AnalysisLocal) /\ call'[c] = new
  BY <1>1, <1>2, <1>4, Begins DEF Local
<1>6. TasksGrow /\ DOMAIN tasks' = DOMAIN tasks
  BY <1>1, <1>2, Marks DEF Statuses
<1>7. AnalysisInv'
  <2>1. \A u \in DOMAIN tasks' :
          tasks'[u].kind = "analytics" /\ tasks'[u].status = "succeeded" =>
              u \in DOMAIN tasks /\ tasks'[u] = tasks[u]
    BY <1>1, <1>2, MarkedElsewhere DEF Statuses
  <2>2. \A q \in Calls : Analyzes(q)' /\ call'[q].at = "analyzed" => Analyzes(q) /\ call'[q] = call[q]
    BY <1>4, <1>5 DEF Frame, Analyzes
  <2>. QED
    BY <1>1, <1>2, <2>1, <2>2, AnalysisKeeps
<1>. QED
  BY <1>1, <1>2, <1>4, <1>5, <1>6, <1>7, AnalysisGoes DEF Types

\* Where a call is tells that it analyzes.
LEMMA WhoAnalyzes ==
    ASSUME Types, NEW c \in Calls, call[c].at \in {"analyze", "analyzed", "invalid"}
    PROVE  Analyzes(c) /\ ~Ended(c)
<1> PICK x \in Local : x = call[c]
  BY DEF Types
<1>1. x \notin {Idle} \cup IndexLocal \cup TextLocal
  BY DEF Idle, IndexLocal, TextLocal
<1>2. x \notin JobLocal
  BY DEF JobLocal
<1>. QED
  BY <1>1, <1>2 DEF Local, Analyzes, Ended

\* A worker has analyzed its series when it has saved a result for it.
LEMMA AnalyzeKeeps ==
    ASSUME IInv, NEW c \in Calls, Analyze(c), UNCHANGED <<indexVars, ragVars>>
    PROVE  IInv'
<1>1. PICK at \in {"analyzed", "invalid"} :
        /\ call[c].at = "analyze"
        /\ \/ /\ at = "analyzed"
              /\ results' = [results EXCEPT ![call[c].series.trace] = Legacy]
           \/ at = "invalid" /\ results' = results
        /\ Goto(c, at)
        /\ UNCHANGED tasks
  BY DEF Analyze
<1>2. Types /\ TasksNamed /\ AnalysisInv
  BY DEF IInv
<1>3. Analyzes(c) /\ ~Ended(c)
  BY <1>1, <1>2, WhoAnalyzes
<1> PICK x \in AnalysisLocal : x = call[c]
  BY <1>3 DEF Analyzes
<1> PICK new : new = [x EXCEPT !.at = at]
  OBVIOUS
<1>4. new \in AnalysisLocal /\ new.at = at /\ new.task = x.task /\ new.series = x.series
  BY DEF AnalysisLocal
<1>5. call' = [call EXCEPT ![c] = new] /\ before' = before
  BY <1>1 DEF Goto
<1>6. Frame(c, AnalysisLocal) /\ call'[c] = new
  BY <1>2, <1>3, <1>4, <1>5, Goes DEF Local
<1>7. /\ x.series.trace \in Traces
      /\ results' \in [Traces -> {s.org : s \in Series} \cup {Legacy, None}]
      /\ \A trace \in Traces : results'[trace] \in {Legacy, results[trace]}
      /\ at = "analyzed" => results'[x.series.trace] = Legacy
  <2>1. x.series.trace \in Traces
    BY DEF AnalysisLocal, Traces
  <2>. QED
    BY <1>1, <1>2, <2>1 DEF Types
<1>8. AnalysisInv'
  <2>1. ASSUME NEW q \in Calls, Analyzes(q)', call'[q].at = "analyzed"
        PROVE  \/ Analyzes(q) /\ call'[q] = call[q]
               \/ results'[call'[q].series.trace] # None
    <3>1. CASE q = c
      BY <1>4, <1>6, <1>7, <2>1, <3>1, AnalyticsTasksAssumption
    <3>2. CASE q # c
      BY <1>6, <2>1, <3>2 DEF Frame, Analyzes
    <3>. QED
      BY <3>1, <3>2
  <2>2. \A trace \in Traces : results[trace] # None => results'[trace] # None
    BY <1>7, AnalyticsTasksAssumption
  <2>. QED
    BY <1>1, <1>2, <2>1, <2>2, AnalysisKeeps
<1>9. /\ x.task \in DOMAIN tasks /\ tasks[x.task].kind = "analytics"
      /\ tasks[x.task].of = x.series
  BY <1>2, <1>3 DEF TasksNamed
<1>10. TasksGrow
  BY <1>1, <1>2, TasksStay
<1>11. /\ DOMAIN tasks' = DOMAIN tasks
       /\ call'[c].task \in DOMAIN tasks /\ tasks[call'[c].task].kind = "analytics"
       /\ tasks[call'[c].task].of = call'[c].series
  BY <1>1, <1>4, <1>6, <1>9
<1>. QED
  BY <1>6, <1>7, <1>8, <1>10, <1>11, AnalysisGoes

\* A task is marked succeeded by a worker that has saved its result.
LEMMA MarkAnalysisKeeps ==
    ASSUME IInv, NEW c \in Calls, MarkAnalysis(c), UNCHANGED <<indexVars, ragVars>>
    PROVE  IInv'
<1> PICK t : t = call[c].task
  OBVIOUS
<1>1. PICK status \in {"succeeded", "failed"} :
        /\ call[c].at \in {"analyzed", "invalid"}
        /\ status = "succeeded" => call[c].at = "analyzed"
        /\ Mark(t, status) /\ End(c, None) /\ UNCHANGED results
  BY DEF MarkAnalysis
<1>2. Types /\ TasksNamed /\ AnalysisInv
  BY DEF IInv
<1>3. Analyzes(c) /\ ~Ended(c)
  BY <1>1, <1>2, WhoAnalyzes
<1> PICK x \in AnalysisLocal : x = call[c]
  BY <1>3 DEF Analyzes
<1>4. t \in DOMAIN tasks /\ tasks[t].kind = "analytics" /\ tasks[t].of = x.series
  BY <1>2, <1>3 DEF TasksNamed
<1> PICK new : new = [x EXCEPT !.at = "done", !.outcome = None]
  OBVIOUS
<1>5. new \in AnalysisLocal /\ new.at = "done" /\ new.task = x.task /\ new.series = x.series
  BY DEF AnalysisLocal, Outcomes
<1>6. call' = [call EXCEPT ![c] = new] /\ before' = before
  <2>1. call' = [call EXCEPT ![c] = [call[c] EXCEPT !.at = "done", !.outcome = None]]
    BY <1>1, <1>2 DEF End, Types
  <2>. QED
    BY <1>1, <2>1 DEF End
<1>7. Frame(c, AnalysisLocal) /\ call'[c] = new
  BY <1>2, <1>3, <1>5, <1>6, Goes DEF Local
<1>8. /\ TasksGrow /\ DOMAIN tasks' = DOMAIN tasks /\ tasks'[t].status = status
      /\ \A u \in DOMAIN tasks \ {t} : tasks'[u] = tasks[u]
  BY <1>1, <1>2, <1>4, Marks DEF Statuses
<1>9. AnalysisInv'
  <2>1. ASSUME NEW u \in DOMAIN tasks', tasks'[u].kind = "analytics", tasks'[u].status = "succeeded"
        PROVE  \/ u \in DOMAIN tasks /\ tasks'[u] = tasks[u]
               \/ results'[tasks'[u].of.trace] # None
    <3>1. CASE u = t
      <4>1. tasks'[t].of = x.series /\ x.at = "analyzed"
        BY <1>1, <1>4, <1>8, <2>1, <3>1 DEF TasksGrow
      <4>2. results[x.series.trace] # None
        BY <1>2, <1>3, <4>1 DEF AnalysisInv, Resulted
      <4>. QED
        BY <1>1, <3>1, <4>1, <4>2
    <3>2. CASE u # t
      BY <1>8, <3>2
    <3>. QED
      BY <3>1, <3>2
  <2>2. \A q \in Calls : Analyzes(q)' /\ call'[q].at = "analyzed" => Analyzes(q) /\ call'[q] = call[q]
    BY <1>5, <1>7 DEF Frame, Analyzes
  <2>. QED
    BY <1>1, <1>2, <2>1, <2>2, AnalysisKeeps
<1>10. /\ call'[c].task \in DOMAIN tasks /\ tasks[call'[c].task].kind = "analytics"
       /\ tasks[call'[c].task].of = call'[c].series
       /\ results' \in [Traces -> {s.org : s \in Series} \cup {Legacy, None}]
  BY <1>1, <1>2, <1>4, <1>5, <1>7 DEF Types
<1>. QED
  BY <1>7, <1>8, <1>9, <1>10, AnalysisGoes

\* Whatever an analytics worker does keeps the invariant.
LEMMA AnalyticsStepKeeps ==
    ASSUME IInv, NEW c \in Calls, AnalyticsStep(c), UNCHANGED <<indexVars, ragVars>>
    PROVE  IInv'
BY TakeAnalysisKeeps, AnalyzeKeeps, MarkAnalysisKeeps DEF AnalyticsStep

\* A process that starts again: no call goes on, the queue and the stores are
\* empty, but for the chunks the repository holds.
LEMMA RestartKeeps ==
    ASSUME IInv, Restart
    PROVE  IInv'
<1>1. /\ tasks' = [t \in DOMAIN tasks |-> [tasks[t] EXCEPT !.status = "lost"]]
      /\ call' = [c \in Calls |-> IF call[c] = Idle THEN Idle ELSE [call[c] EXCEPT !.at = "lost"]]
      /\ before' = before
      /\ documents' = [d \in Documents |-> Nothing]
      /\ chunks' = [s \in Slots |-> Nothing]
      /\ cache' = [k \in DOMAIN cache |-> Unkeyed]
      /\ vectorOn' = vectorOn
      /\ waiting' = {} /\ evidence' = stored /\ UNCHANGED <<jobs, stored>>
      /\ results' = [t \in Traces |-> None]
  BY DEF Restart, IndexLost, RagRestarts
<1>2. Types /\ Ordered /\ TasksNamed /\ TextInv
  BY DEF IInv
<1>3. /\ tasks' \in Seq(TaskRecord) /\ DOMAIN tasks' = DOMAIN tasks
      /\ \A t \in DOMAIN tasks : /\ tasks'[t].status = "lost"
                                 /\ tasks'[t].kind = tasks[t].kind /\ tasks'[t].of = tasks[t].of
  <2>1. DOMAIN tasks = 1..Len(tasks) /\ Len(tasks) \in Nat
        /\ \A t \in DOMAIN tasks : tasks[t] \in TaskRecord
    BY <1>2, LenProperties, ElementOfSeq DEF Types
  <2>2. \A x \in TaskRecord : LET new == [x EXCEPT !.status = "lost"] IN
          new \in TaskRecord /\ new.status = "lost" /\ new.kind = x.kind /\ new.of = x.of
    BY DEF TaskRecord, Statuses
  <2>3. /\ tasks' \in [1..Len(tasks) -> TaskRecord] /\ DOMAIN tasks' = DOMAIN tasks
        /\ \A t \in DOMAIN tasks : /\ tasks'[t].status = "lost"
                                   /\ tasks'[t].kind = tasks[t].kind /\ tasks'[t].of = tasks[t].of
    BY <1>1, <2>1, <2>2
  <2>4. tasks' \in Seq(TaskRecord)
    BY <2>1, <2>3, SeqDef
  <2>. QED
    BY <2>3, <2>4
<1>4. ASSUME NEW c \in Calls
      PROVE  /\ call'[c] \in Local
             /\ call[c] = Idle => call'[c] = Idle
             /\ call[c] # Idle => call'[c].at = "lost"
             /\ (Asks(c)' <=> Asks(c)) /\ (Asks(c) => call'[c].task = call[c].task)
             /\ (HasText(c)' <=> HasText(c)) /\ (HasText(c) => call'[c].text = call[c].text)
             /\ (Works(c)' <=> Works(c)) /\ (Works(c) => call'[c].task = call[c].task)
             /\ (Analyzes(c)' <=> Analyzes(c))
                /\ (Analyzes(c) => call'[c].task = call[c].task /\ call'[c].series = call[c].series)
  <2> PICK x \in Local : x = call[c]
    BY <1>2 DEF Types
  <2> PICK y : y = [x EXCEPT !.at = "lost"]
    OBVIOUS
  <2>1. call'[c] = IF x = Idle THEN Idle ELSE y
    BY <1>1
  <2>2. CASE x = Idle
    BY <2>1, <2>2, LocalsDiffer DEF Local, Asks, HasText, Works, Analyzes
  <2>3. CASE x \in IndexLocal
    <3>1. y \in IndexLocal /\ y.at = "lost" /\ y.task = x.task
      BY <2>3 DEF IndexLocal
    <3>. QED
      BY <2>1, <2>3, <3>1, LocalsDiffer DEF Local, Asks, HasText, Works, Analyzes
  <2>4. CASE x \in TextLocal
    <3>1. y \in TextLocal /\ y.at = "lost" /\ y.text = x.text
      BY <2>4 DEF TextLocal
    <3>. QED
      BY <2>1, <2>4, <3>1, LocalsDiffer DEF Local, Asks, HasText, Works, Analyzes
  <2>5. CASE x \in JobLocal
    <3>1. y \in JobLocal /\ y.at = "lost" /\ y.task = x.task
      BY <2>5 DEF JobLocal
    <3>. QED
      BY <2>1, <2>5, <3>1, LocalsDiffer DEF Local, Asks, HasText, Works, Analyzes
  <2>6. CASE x \in AnalysisLocal
    <3>1. y \in AnalysisLocal /\ y.at = "lost" /\ y.task = x.task /\ y.series = x.series
      BY <2>6 DEF AnalysisLocal
    <3>. QED
      BY <2>1, <2>6, <3>1, LocalsDiffer DEF Local, Asks, HasText, Works, Analyzes
  <2>. QED
    BY <2>2, <2>3, <2>4, <2>5, <2>6 DEF Local
<1>5. Types'
  <2>1. call' \in [Calls -> Local]
    BY <1>1, <1>4
  <2>2. /\ documents' \in [Documents -> Written] /\ chunks' \in [Slots -> Written]
        /\ cache' \in [Keys -> Entry \cup {Unkeyed}]
    BY <1>1, <1>2 DEF Types, Written, Nothing
  <2>3. results' \in [Traces -> {s.org : s \in Series} \cup {Legacy, None}]
    BY <1>1
  <2>. QED
    BY <1>1, <1>2, <1>3, <2>1, <2>2, <2>3 DEF Types
<1>6. Ordered'
  <2>1. \A c \in Done : c \in Done'
    BY <1>4 DEF Done, Idle
  <2>. QED
    BY <1>1, <1>2, <2>1 DEF Ordered
<1>7. TasksNamed'
  BY <1>2, <1>3, <1>4 DEF TasksNamed
<1>8. \A c \in Calls : call'[c].at \in {"idle", "lost"}
  BY <1>4 DEF Idle
<1>9. VectorInv'
  <2>1. \A c \in Calls : Placed(c)'
    BY <1>8 DEF Placed, Wrote
  <2>2. /\ \A d \in Documents : documents'[d] = Nothing
        /\ \A d \in Documents, p \in Positions : chunks'[<<d, p>>] = Nothing
    BY <1>1 DEF Slots
  <2>. QED
    BY <1>8, <2>1, <2>2 DEF VectorInv, DocumentsFirst
<1>10. KeyInv'
  <2>1. \A c \in Calls : ~Made(c)' /\ ~Queues(c)' /\ ~Answered(c)'
    BY <1>8 DEF Made, Queues, Answered
  <2>2. \A k \in Keys : cache'[k] = Unkeyed
    BY <1>1, <1>2 DEF Types
  <2>. QED
    BY <2>1, <2>2 DEF KeyInv, EntriesAreMade, FirstOfKey, ReplaysMade
<1>11. TextInv'
  <2>1. \A c \in Calls : call'[c].at \notin {"build", "index"} /\ ~IndexedText(c)'
    BY <1>8 DEF IndexedText
  <2>2. JobsAreTexts'
    <3>1. ASSUME NEW s \in Slots, NEW x \in Calls, x = stored[s]
          PROVE  HasText(x)'
      BY <1>2, <1>4, <3>1 DEF TextInv, JobsAreTexts
    <3>2. stored' = stored /\ evidence' = stored /\ waiting' = {}
      BY <1>1
    <3>. QED
      BY <2>1, <3>1, <3>2 DEF JobsAreTexts, HasText
  <2>3. TextsAreFound'
    BY <2>1 DEF TextsAreFound
  <2>4. JobsAreFound'
    <3>1. ASSUME NEW j \in Calls, jobs[j] = "succeeded"
          PROVE  HasText(j)' /\ Covered(stored, call'[j].text)
      BY <1>2, <1>4, <3>1 DEF TextInv, JobsAreFound
    <3>2. evidence' = stored /\ UNCHANGED <<jobs, stored>>
      BY <1>1
    <3>. QED
      BY <3>1, <3>2 DEF JobsAreFound, Covered
  <2>. QED
    BY <2>2, <2>3, <2>4 DEF TextInv
<1>12. AnalysisInv'
  BY <1>3, <1>8 DEF AnalysisInv
<1>. QED
  BY <1>5, <1>6, <1>7, <1>9, <1>10, <1>11, <1>12 DEF IInv

\* Nothing happens.
LEMMA StutterKeeps ==
    ASSUME IInv, UNCHANGED vars
    PROVE  IInv'
<1>1. UNCHANGED <<tasks, call, before, results>> /\ UNCHANGED <<indexVars, ragVars>>
      /\ UNCHANGED <<vectorOn, documents, chunks, cache, jobs, stored, waiting, evidence>>
  BY DEF vars, indexVars, ragVars
<1>2. Types /\ TasksNamed /\ AnalysisInv
  BY DEF IInv
<1>3. Types'
  BY <1>1, <1>2 DEF Types
<1>4. TasksNamed'
  BY <1>1, <1>2 DEF TasksNamed, Asks, Works, Analyzes
<1>5. AnalysisInv'
  BY <1>1, <1>2, Stands, AnalysisElsewhere
<1>. QED
  BY <1>1, <1>3, <1>4, <1>5, Stands, AnalysisRest

\* Every step keeps the invariant.
LEMMA NextKeeps ==
    ASSUME IInv, [Next]_vars
    PROVE  IInv'
<1>1. ASSUME NEW c \in Calls, IndexStep(c), UNCHANGED <<ragVars, results>>
      PROVE  IInv'
  BY <1>1, IndexStepKeeps
<1>2. ASSUME NEW c \in Calls, RagStep(c), UNCHANGED <<indexVars, results>>
      PROVE  IInv'
  BY <1>2, RagStepKeeps
<1>3. ASSUME NEW c \in Calls, AnalyticsStep(c), UNCHANGED <<indexVars, ragVars>>
      PROVE  IInv'
  BY <1>3, AnalyticsStepKeeps
<1>4. CASE QueueJob /\ UNCHANGED <<indexVars, results>>
  BY <1>4, QueueJobKeeps
<1>5. CASE (AnalyzeNow \/ QueueAnalysis \/ TimeOut) /\ UNCHANGED <<indexVars, ragVars>>
  BY <1>5, AnalyzeNowKeeps, QueueAnalysisKeeps, TimeOutKeeps
<1>6. CASE Restart
  BY <1>6, RestartKeeps
<1>7. CASE UNCHANGED vars
  BY <1>7, StutterKeeps
<1>. QED
  BY <1>1, <1>2, <1>3, <1>4, <1>5, <1>6, <1>7 DEF Next

\* The invariant holds at first: nobody has begun, and nothing is stored.
LEMMA InitInv == Init => IInv
<1> SUFFICES ASSUME Init
             PROVE  IInv
  OBVIOUS
<1>1. /\ tasks = <<>> /\ call = [c \in Calls |-> Idle] /\ before = [c \in Calls |-> {}]
      /\ vectorOn \in BOOLEAN
      /\ documents = [d \in Documents |-> Nothing] /\ chunks = [s \in Slots |-> Nothing]
      /\ cache = [k \in Keys |-> Unkeyed]
      /\ jobs = [j \in JobIds |-> "none"]
      /\ stored = [s \in Slots |-> NoCall] /\ evidence = [s \in Slots |-> NoCall]
      /\ waiting = {} /\ results = [t \in Traces |-> None]
  BY DEF Init, QueueInit, IndexInit, RagInit, AnalyticsInit, Keys
<1>2. tasks \in Seq(TaskRecord) /\ DOMAIN tasks = {}
  BY <1>1
<1>3. \A c \in Calls : /\ call[c].at = "idle"
                       /\ ~Asks(c) /\ ~HasText(c) /\ ~Works(c) /\ ~Analyzes(c)
  BY <1>1, LocalsDiffer DEF Asks, HasText, Works, Analyzes, Idle
<1>4. Types
  BY <1>1, <1>2 DEF Types, Local, Written, Nothing, JobStatuses
<1>5. Ordered
  BY <1>1 DEF Ordered
<1>6. TasksNamed
  BY <1>2, <1>3 DEF TasksNamed
<1>7. VectorInv
  BY <1>1, <1>3 DEF VectorInv, DocumentsFirst, Slots
<1>8. KeyInv
  <2>1. \A c \in Calls : ~Made(c) /\ ~Queues(c) /\ ~Answered(c)
    BY <1>3 DEF Made, Queues, Answered
  <2>. QED
    BY <1>1, <2>1 DEF KeyInv, EntriesAreMade, FirstOfKey, ReplaysMade
<1>9. TextInv
  <2>1. \A c \in Calls : ~IndexedText(c)
    BY <1>3 DEF IndexedText
  <2>2. \A j \in Calls : jobs[j] = "none"
    BY <1>1 DEF JobIds
  <2>. QED
    BY <1>1, <1>3, <2>1, <2>2, TaskQueueAssumption
       DEF TextInv, JobsAreTexts, TextsAreFound, JobsAreFound
<1>10. AnalysisInv
  BY <1>2, <1>3 DEF AnalysisInv
<1>. QED
  BY <1>4, <1>5, <1>6, <1>7, <1>8, <1>9, <1>10 DEF IInv

-----------------------------------------------------------------------------
(* What the invariant gives.                                               *)

\* The invariant holds of every behaviour of the queue and its users.
THEOREM Inductive == Spec => []IInv
<1>1. Init => IInv
  BY InitInv
<1>2. IInv /\ [Next]_vars => IInv'
  BY NextKeeps
<1>. QED
  BY <1>1, <1>2, PTL DEF Spec

\* The types follow from the invariant.
LEMMA InvTyped == IInv => TypeOK
<1> SUFFICES ASSUME IInv
             PROVE  TypeOK
  OBVIOUS
<1>1. Types /\ TasksNamed /\ KeyInv
  BY DEF IInv
<1>2. DOMAIN tasks = 1..Len(tasks) /\ Len(tasks) \in Nat
      /\ \A t \in DOMAIN tasks : tasks[t] \in TaskRecord
  BY <1>1, LenProperties, ElementOfSeq DEF Types
<1>3. \A t \in DOMAIN tasks :
        /\ tasks[t].status \in Statuses
        /\ tasks[t].of \in IF tasks[t].kind = "indexing" THEN JobIds \cup {None} ELSE Series
  BY <1>1, <1>2 DEF TasksNamed, TaskRecord
<1>4. \A c \in Calls : /\ call[c].at \in Locals
                       /\ call[c] # Idle => call[c].outcome \in Outcomes
                       /\ before[c] \subseteq Calls
  <2>1. \A x \in Local : x.at \in Locals /\ (x # Idle => x.outcome \in Outcomes)
    BY DEF Local, Idle, IndexLocal, TextLocal, JobLocal, AnalysisLocal, Locals
  <2>. QED
    BY <1>1, <2>1 DEF Types
<1>5. \A k \in DOMAIN cache : cache[k].task \in 0..Len(tasks)
  <2> SUFFICES ASSUME NEW k \in Keys
               PROVE  cache[k].task \in 0..Len(tasks)
    BY <1>1 DEF Types
  <2>1. CASE cache[k] = Unkeyed
    BY <1>2, <2>1 DEF Unkeyed
  <2>2. CASE cache[k] # Unkeyed
    <3>1. PICK d \in Calls : Made(d) /\ cache[k] = [body |-> Body(call[d].req), task |-> call[d].task]
      BY <1>1, <2>2 DEF KeyInv, EntriesAreMade
    <3>2. call[d].task \in DOMAIN tasks
      BY <1>1, <3>1, MadeAsks DEF TasksNamed
    <3>. QED
      BY <1>2, <3>1, <3>2
  <2>. QED
    BY <2>1, <2>2
<1>. QED
  BY <1>1, <1>3, <1>4, <1>5 DEF TypeOK, Types, Written

\* The queue, the calls and the stores hold what their code may put there, and a
\* key names a task that was queued.
THEOREM Typed == Spec => []TypeOK
BY Inductive, InvTyped, PTL

\* What is told done can be found, by what the invariant says of each store.
LEMMA InvFound == IInv => SucceededIsFound
<1> SUFFICES ASSUME IInv
             PROVE  SucceededIsFound
  OBVIOUS
<1>1. Types /\ TasksNamed /\ VectorInv /\ TextInv /\ AnalysisInv
  BY DEF IInv
<1>2. ASSUME NEW c \in Calls, Indexed(c), NEW p \in 1..call[c].req.size
      PROVE  chunks[<<call[c].req.doc, p>>].by \notin before[c] \cup {NoCall}
  <2>1. Asks(c) /\ Wrote(c, p)
    BY <1>1, <1>2, MadeAsks DEF Wrote
  <2>. QED
    BY <1>1, <2>1 DEF VectorInv, Placed
<1>3. ASSUME NEW j \in Calls, jobs[j] = "succeeded", ~AtWork(j)
      PROVE  Covered(evidence, call[j].text)
  <2>1. \A c \in Calls : ~(Works(c) /\ call[c].at = "index" /\ call[c].job = j)
    <3> SUFFICES ASSUME NEW c \in Calls, Works(c), call[c].at = "index", call[c].job = j
                 PROVE  FALSE
      OBVIOUS
    <3>1. ~Ended(c) /\ At(c, j)
      BY <1>1, LocalsApart DEF Types, Ended, At, Works
    <3>. QED
      BY <1>3, <3>1 DEF AtWork
  <2>. QED
    BY <1>1, <1>3, <2>1 DEF TextInv, JobsAreFound
<1>. QED
  BY <1>1, <1>2, <1>3 DEF SucceededIsFound, TextInv, TextsAreFound, AnalysisInv, Resulted

\* What a caller is told is done can be found: the chunks of an answered index
\* request, of a text indexed at once, of a job that succeeded and nobody is at,
\* and the result of an analytics task, whatever overlaps and after a restart.
THEOREM SucceededIsFoundAlways == Spec => []SucceededIsFound
BY Inductive, InvFound, PTL

\* A chunk older than the version cited is one its writer did not reach: it lies
\* behind that version's end.
LEMMA InvCites == IInv => CitesItsVersion
<1> SUFFICES ASSUME IInv, NEW org \in Orgs, NEW s \in Found(org),
                    NEW cited, cited = documents[s[1]].by, NEW text, text = chunks[s].by,
                    text # cited, Indexed(cited),
                    text \in before[cited] \/ cited \in before[text]
             PROVE  call[cited].req.size < s[2] /\ call[text].req.org = org
  BY DEF CitesItsVersion
<1>1. Types /\ VectorInv
  BY DEF IInv
<1> PICK d \in Documents, p \in Positions : s = <<d, p>>
  BY DEF Found, Slots
<1>2. documents[d].org = org /\ chunks[<<d, p>>].org = org /\ org # None
  BY DocumentIndexAssumption DEF Found, Orgs
<1>3. documents[d] # Nothing /\ chunks[<<d, p>>] # Nothing
  BY <1>2 DEF Nothing
<1>4. /\ text \in Calls /\ Asks(text) /\ call[text].req.org = org /\ Follows(text, d)
      /\ cited \in Calls /\ Asks(cited) /\ call[cited].req.doc = d
  BY <1>1, <1>2, <1>3 DEF VectorInv, DocumentsFirst
<1>5. text \in before[cited]
  BY <1>4 DEF Follows
<1>6. p \notin 1..call[cited].req.size
  <2> SUFFICES ASSUME p \in 1..call[cited].req.size
               PROVE  FALSE
    OBVIOUS
  <2>1. Wrote(cited, p)
    BY <1>1, <1>4, MadeAsks DEF Wrote
  <2>. QED
    BY <1>1, <1>4, <1>5, <2>1 DEF VectorInv, Placed
<1>7. call[cited].req.size \in {0, 1, 2} /\ p \in {1, 2}
  BY <1>4, DocumentIndexAssumption DEF Asks, IndexLocal, Positions
<1>. QED
  BY <1>4, <1>6, <1>7

\* search cites the version its text was cut from, or one that is unfinished,
\* overlapped the writer of the chunk, or is a shorter one.
THEOREM CitesItsVersionAlways == Spec => []CitesItsVersion
BY Inductive, InvCites, PTL

\* A key is one request, by what the cache and the calls say of each other.
LEMMA InvKeys == IInv => KeysNameOneTask
<1> SUFFICES ASSUME IInv, NEW c \in Calls
             PROVE  /\ Answered(c) /\ call[c].outcome = "replayed" =>
                         \E d \in Calls : /\ Made(d) /\ call[d].task = call[c].task
                                          /\ Key(call[d].req) = Key(call[c].req)
                                          /\ Body(call[d].req) = Body(call[c].req)
                    /\ Made(c) /\ Keyed(call[c].req) =>
                         ~\E d \in before[c] : Made(d) /\ Key(call[d].req) = Key(call[c].req)
  BY DEF KeysNameOneTask
<1>1. Types /\ KeyInv
  BY DEF IInv
<1>2. Made(c) => Queues(c)
  BY <1>1, MadeAsks DEF Queues
<1>. QED
  BY <1>1, <1>2 DEF KeyInv, FirstOfKey, ReplaysMade, SameKey

\* A key is one request: a replay answers with the task of a request of its key
\* and body, and a request that begins after another of its key has been answered
\* queues nothing.
THEOREM KeysNameOneTaskAlways == Spec => []KeysNameOneTask
BY Inductive, InvKeys, PTL
=============================================================================
