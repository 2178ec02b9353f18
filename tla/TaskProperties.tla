---------------------------- MODULE TaskProperties ----------------------------
(* What the task queue and its three users promise. *)
EXTENDS AnalyticsTasks

Locals == {"idle", "document", "embed", "chunks", "answer", "save",
           "publish", "check", "run", "build", "index", "succeed", "fail",
           "analyze", "analyzed", "invalid", "done", "lost"}
Outcomes == {None, "replayed", "mismatch", "error", "indexed", "queued", "waits"}

\* Types, and: a task is indexing a job, or for an HTTP request, or analytics.
TypeOK ==
    /\ \A t \in DOMAIN tasks :
         /\ tasks[t].status \in Statuses
         /\ tasks[t].of \in IF tasks[t].kind = "indexing" THEN JobIds \cup {None} ELSE Series
    /\ \A c \in Calls : /\ call[c].at \in Locals
                        /\ call[c] # Idle => call[c].outcome \in Outcomes
                        /\ before[c] \subseteq Calls
    /\ vectorOn \in BOOLEAN
    /\ documents \in [Documents -> [org : Orgs \cup {None}, by : Calls \cup {NoCall}]]
    /\ chunks \in [Slots -> [org : Orgs \cup {None}, by : Calls \cup {NoCall}]]
    /\ \A k \in DOMAIN cache : cache[k].task \in 0..Len(tasks)
    /\ jobs \in [JobIds -> JobStatuses]
    /\ stored \in [Slots -> Calls \cup {NoCall}] /\ evidence \in [Slots -> Calls \cup {NoCall}]
    /\ waiting \subseteq Calls
    /\ results \in [Traces -> {s.org : s \in Series} \cup {Legacy, None}]

Answered(c) == call[c].at = "done" /\ "req" \in DOMAIN call[c]
Indexed(c) == Answered(c) /\ call[c].outcome = "indexed"
\* A call that indexes the job, or another text of its document.
At(c, j) ==
    \/ c = j
    \/ "job" \in DOMAIN call[c] /\ call[c].job = j
    \/ "text" \in DOMAIN call[c] /\ call[c].text.doc = j
AtWork(j) == \E c \in Calls : ~Ended(c) /\ At(c, j)
Covered(rows, text) == \A p \in 1..text.size : rows[<<text.doc, p>>] # NoCall

IndexedText(c) ==
    call[c].at = "done" /\ "text" \in DOMAIN call[c] /\ call[c].outcome = "indexed"

\* What a caller is told is done can be found: an answered index request has
\* every chunk in the vector store, written by no request that ended before it
\* began; so has a text indexed at once in the evidence store, but that a job
\* queued for an older text of the document may still write over it; a job that
\* succeeded and nobody is at has every chunk there, after a restart too; a
\* succeeded analytics task has a result.
SucceededIsFound ==
    /\ \A c \in Calls : Indexed(c) =>
         \A p \in 1..call[c].req.size :
            chunks[<<call[c].req.doc, p>>].by \notin before[c] \cup {NoCall}
    /\ \A c \in Calls : IndexedText(c) =>
         \A p \in 1..call[c].text.size :
            LET by == evidence[<<call[c].text.doc, p>>]
            IN by # NoCall /\ (call[by].text.long \/ by \notin before[c])
    /\ \A j \in Calls : jobs[j] = "succeeded" /\ ~AtWork(j) => Covered(evidence, call[j].text)
    /\ \A t \in DOMAIN tasks :
         tasks[t].kind = "analytics" /\ tasks[t].status = "succeeded"
            => results[tasks[t].of.trace] # None

\* search cites the version its text was cut from, unless that version was
\* still being indexed or was given up, overlapped the one that wrote the
\* chunk, or is a shorter one, whose predecessor's tail is never removed.
CitesItsVersion == \A org \in Orgs : \A s \in Found(org) :
    LET cited == documents[s[1]].by
        text == chunks[s].by
    IN \/ text = cited
       \/ ~Indexed(cited)
       \/ text \notin before[cited] /\ cited \notin before[text]
       \/ call[cited].req.size < s[2] /\ call[text].req.org = org

\* A key is one request: what is replayed was queued for the same key and
\* body, and a request that begins after another of its key has been answered
\* queues nothing.
Made(c) == Answered(c) /\ call[c].outcome \in {"indexed", "queued"}
KeysNameOneTask == \A c \in Calls :
    /\ Answered(c) /\ call[c].outcome = "replayed" =>
         \E d \in Calls : /\ Made(d) /\ call[d].task = call[c].task
                          /\ Key(call[d].req) = Key(call[c].req)
                          /\ Body(call[d].req) = Body(call[c].req)
    /\ Made(c) /\ Keyed(call[c].req) =>
         ~\E d \in before[c] : Made(d) /\ Key(call[d].req) = Key(call[c].req)
=============================================================================
