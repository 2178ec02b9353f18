---------------------------- MODULE DocumentIndex ----------------------------
(***************************************************************************)
(* POST /api/v1 and /api/v2 documents/index: the idempotency key, the task *)
(* it queues, and ingest_document into the in-memory vector store, where a *)
(* document and its chunks are known by their ids alone, whatever their    *)
(* organization.  A document's text is its number of chunks.               *)
(***************************************************************************)
EXTENDS TaskQueue

CONSTANTS
    Documents,  \* document ids
    Requests,   \* what an index request may carry: [api, org, key, doc, size]
    NoKey

Orgs == {r.org : r \in Requests}
Positions == 1..2
Slots == Documents \X Positions

ASSUME DocumentIndexAssumption ==
    \A r \in Requests : /\ r.doc \in Documents /\ r.size \in Positions \cup {0}
                        /\ r.org # None

VARIABLES
    vectorOn,  \* whether a vector store is configured
    documents, \* _documents_by_id: whose it is, and the call that wrote it
    chunks,    \* _chunks_by_id: the same, per document and position
    cache      \* document_index_idempotency_cache

indexVars == <<vectorOn, documents, chunks, cache>>

Nothing == [org |-> None, by |-> NoCall]
Key(r) == <<r.api, r.org, r.key>>
Keyed(r) == r.key # NoKey
Unkeyed == [body |-> None, task |-> 0]

IndexInit ==
    /\ vectorOn \in BOOLEAN
    /\ documents = [d \in Documents |-> Nothing]
    /\ chunks = [s \in Slots |-> Nothing]
    /\ cache = [k \in {Key(r) : r \in Requests} |-> Unkeyed]

\* idempotency_fingerprint: all of the body, none of its caller.
Body(r) == <<r.doc, r.size>>

Start(r, label, task, outcome) ==
    [at |-> label, req |-> r, task |-> task, next |-> 1, outcome |-> outcome]

\* Mutant: a key is one for all organizations.
Cached_AnyOrg(r) ==
    {cache[k] : k \in {l \in DOMAIN cache : l[1] = r.api /\ l[3] = r.key}} \ {Unkeyed}
Cached(r) == {cache[Key(r)]} \ {Unkeyed}

\* A key that is unknown queues a task of its own, ...
QueueTask(c) == \E r \in Requests :
    /\ Keyed(r) => Cached(r) = {}
    /\ Enqueue("indexing", None)
    /\ Begin(c, Start(r, IF vectorOn THEN "document" ELSE "answer", Len(tasks'), None))
    /\ UNCHANGED indexVars

\* ... a key used before answers with its task, or refuses another body.
Replay(c) == \E r \in Requests : \E entry \in Cached(r) :
    /\ Keyed(r)
    /\ Begin(c, Start(r, "done", entry.task,
                      IF entry.body = Body(r) THEN "replayed" ELSE "mismatch"))
    /\ UNCHANGED <<tasks, indexVars>>

\* Mutant: a document that is known keeps its record.
Filed_Once(c) == IF documents[call[c].req.doc] = Nothing
                 THEN [org |-> call[c].req.org, by |-> c] ELSE documents[call[c].req.doc]
Filed(c) == [org |-> call[c].req.org, by |-> c]

\* upsert_document; a text without words has no chunks to embed.
UpsertDocument(c) ==
    /\ call[c].at = "document"
    /\ documents' = [documents EXCEPT ![call[c].req.doc] = Filed(c)]
    /\ Goto(c, IF call[c].req.size = 0 THEN "answer" ELSE "embed")
    /\ UNCHANGED <<tasks, vectorOn, chunks, cache>>

\* The embedding provider raises: the task stays queued, the key unstored.
Embed(c) ==
    /\ call[c].at = "embed"
    /\ Goto(c, "chunks") \/ End(c, "error")
    /\ UNCHANGED <<tasks, indexVars>>

\* One turn of upsert_chunks; it raises once another organization has taken
\* the document id.
UpsertChunk(c) ==
    LET r == call[c].req
        p == call[c].next
    IN /\ call[c].at = "chunks"
       /\ IF documents[r.doc].org # r.org
          THEN End(c, "error") /\ UNCHANGED chunks
          ELSE /\ chunks' = [chunks EXCEPT ![<<r.doc, p>>] = [org |-> r.org, by |-> c]]
               /\ call' = [call EXCEPT ![c].at = IF p = r.size THEN "answer" ELSE "chunks",
                                       ![c].next = p + 1]
               /\ UNCHANGED before
       /\ UNCHANGED <<tasks, vectorOn, documents, cache>>

\* mark_succeeded, and the key.
Answer(c) ==
    LET r == call[c].req IN
    /\ call[c].at = "answer"
    /\ IF vectorOn THEN Mark(call[c].task, "succeeded") ELSE UNCHANGED tasks
    /\ cache' = IF Keyed(r)
                THEN [cache EXCEPT ![Key(r)] = [body |-> Body(r), task |-> call[c].task]]
                ELSE cache
    /\ End(c, IF vectorOn THEN "indexed" ELSE "queued")
    /\ UNCHANGED <<vectorOn, documents, chunks>>

IndexStep(c) ==
    \/ QueueTask(c) \/ Replay(c)
    \/ UpsertDocument(c) \/ Embed(c) \/ UpsertChunk(c) \/ Answer(c)

\* search: the chunks an organization may be answered with.
Found(org) == {s \in Slots : documents[s[1]].org = org /\ chunks[s].org = org}

\* The process restarts: the store and the keys are gone.
IndexLost ==
    /\ documents' = [d \in Documents |-> Nothing]
    /\ chunks' = [s \in Slots |-> Nothing]
    /\ cache' = [k \in DOMAIN cache |-> Unkeyed]
    /\ UNCHANGED vectorOn
=============================================================================
