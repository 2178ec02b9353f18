---------------------------- MODULE FileLifecycle ----------------------------
(***************************************************************************)
(* Everything that writes a user_uploaded_files row, running together:     *)
(*                                                                         *)
(*   upload_file_v2             async def: runs on the event loop          *)
(*   _run_retention_sweep_loop  a task of the event loop                   *)
(*   init / complete (chunked), delete, promote, demote                    *)
(*                              def: each in a thread of the pool          *)
(*   FileProcessingWorker       a background task, in a thread of the pool *)
(*                                                                         *)
(* A handler reads a row, works, and writes the whole row back: between    *)
(* the two it holds a copy (ctx[r].snap, taskRow[f], sweepRow[f]) that the *)
(* other handlers may have made stale.  Nothing locks a row.  The event    *)
(* loop is the one lock there is: uploads and the sweep never overlap each *)
(* other, because neither awaits between its first and last store call.    *)
(***************************************************************************)
EXTENDS FileStore

CONSTANTS
    Reqs,         \* request slots: handlers that may run at once (bound)
    Uploads,      \* chunked upload ids that can ever be minted (bound)
    Quota,        \* the owner's cumulative limit, in files of one unit
    Overlap,      \* FALSE: the next call starts when all work has ended
    StorageFails, \* put_object may raise
    MayRestart,   \* the process may stop and start again
    Free, Sweeper, NoUpload, NoInput, NoSession

Payload == [owner : Owners, name : Names, content : Contents, scope : Scopes]

Ctx == [input  : Payload \cup {NoInput},   \* the bytes and form fields held
        upload : Uploads \cup {NoUpload},  \* the chunked session, if any
        file   : Files \cup {NoFile},      \* the file written
        old    : Files \cup {NoFile},      \* the duplicate, then the superseded
        snap   : Row \cup {NoRow},         \* the row this handler read
        doc    : Docs \cup {NoDoc}]

Blank == [input |-> NoInput, upload |-> NoUpload, file |-> NoFile,
          old |-> NoFile, snap |-> NoRow, doc |-> NoDoc]

PCs == {"idle", "read_chunks", "find_dup", "purge_bytes", "purge_row",
        "find_latest", "supersede", "put", "close_session", "save_new",
        "delete_bytes", "soft_delete",
        "publish", "save_promoted", "unpublish", "save_demoted"}

TaskPCs == {"none", "queued", "fetched", "indexing", "derived", "done"}

ASSUME FileLifecycleAssumption ==
    /\ Quota \in Nat
    /\ {Overlap, StorageFails, MayRestart} \subseteq BOOLEAN
    /\ Free \notin Reqs /\ Sweeper \notin Reqs /\ Free # Sweeper
    /\ NoUpload \notin Uploads
    /\ NoInput \notin Payload /\ NoSession \notin Payload

VARIABLES
    pc,       \* per request slot: the next call of its handler
    ctx,      \* per request slot: what its handler holds
    loop,     \* who is running on the event loop
    sessions, \* ChunkUploadSessionStore
    chunks,   \* the staged chunk objects of each session
    task,     \* per file: the next step of its processing task
    taskRow,  \* per file: the row that task read
    sweepRow, \* rows of the running sweep still to be archived
    sweepDoc, \* the file whose document the sweep has just removed
    aged      \* files past their scope's retention window

ctlVars == <<pc, ctx, loop, sessions, chunks, task, taskRow, sweepRow, sweepDoc, aged>>
vars == <<storeVars, ctlVars>>

TypeOK ==
    /\ StoreTypeOK
    /\ pc \in [Reqs -> PCs]
    /\ ctx \in [Reqs -> Ctx]
    /\ loop \in Reqs \cup {Free, Sweeper}
    /\ sessions \in [Uploads -> Payload \cup {NoSession}]
    /\ chunks \in [Uploads -> {"none", "staged", "removed"}]
    /\ task \in [Files -> TaskPCs]
    /\ taskRow \in [Files -> Row \cup {NoRow}]
    /\ sweepRow \in [Files -> Row \cup {NoRow}]
    /\ sweepDoc \in Files \cup {NoFile}
    /\ aged \in SUBSET Files

Init ==
    /\ StoreInit
    /\ pc = [r \in Reqs |-> "idle"]
    /\ ctx = [r \in Reqs |-> Blank]
    /\ loop = Free
    /\ sessions = [u \in Uploads |-> NoSession]
    /\ chunks = [u \in Uploads |-> "none"]
    /\ task = [f \in Files |-> "none"]
    /\ taskRow = [f \in Files |-> NoRow]
    /\ sweepRow = [f \in Files |-> NoRow]
    /\ sweepDoc = NoFile
    /\ aged = {}

Quiet ==
    /\ \A r \in Reqs : pc[r] = "idle"
    /\ \A f \in Files : task[f] \in {"none", "done"}
    /\ loop = Free

MayStart(r) == pc[r] = "idle" /\ (Overlap \/ Quiet)

\* uuid4: an id nobody has.
FreshFiles == {f \in Files : info[f] = NoInfo /\ \A r \in Reqs : ctx[r].file # f}
FreshDocs  == {d \in Docs : docSource[d] = NoFile /\ \A r \in Reqs : ctx[r].doc # d}

\* Mutant: the quota may be passed by one file.
WithinQuota_OffByOne(o) == Cardinality(ListByOwner(o)) <= Quota

\* _current_file_storage_usage and StorageQuotaEnforcer, for one more file.
WithinQuota(o) == Cardinality(ListByOwner(o)) < Quota

Goto(r, to) == pc' = [pc EXCEPT ![r] = to]

Finish(r) ==
    /\ pc' = [pc EXCEPT ![r] = "idle"]
    /\ ctx' = [ctx EXCEPT ![r] = Blank]
    /\ loop' = IF loop = r THEN Free ELSE loop

taskVars == <<task, taskRow>>
sweepVars == <<sweepRow, sweepDoc>>
chunkVars == <<sessions, chunks>>
docVars == <<docSource, kb, live>>

-----------------------------------------------------------------------------
(* Chunked upload: init and the client's presigned PUTs.                   *)

InitUpload(u, p) ==
    /\ Overlap \/ Quiet
    /\ sessions[u] = NoSession /\ chunks[u] = "none"
    /\ WithinQuota(p.owner)
    /\ sessions' = [sessions EXCEPT ![u] = p]
    /\ UNCHANGED <<storeVars, pc, ctx, loop, chunks, taskVars, sweepVars, aged>>

PutChunks(u) ==
    /\ sessions[u] # NoSession /\ chunks[u] = "none"
    /\ chunks' = [chunks EXCEPT ![u] = "staged"]
    /\ UNCHANGED <<storeVars, pc, ctx, loop, sessions, taskVars, sweepVars, aged>>

(* Upload and complete: one handler body from the duplicate check on.      *)

UploadStart(r, p, f) ==
    /\ MayStart(r) /\ loop = Free
    /\ WithinQuota(p.owner)
    /\ f \in FreshFiles
    /\ loop' = r
    /\ ctx' = [ctx EXCEPT ![r] = [Blank EXCEPT !.input = p, !.file = f]]
    /\ Goto(r, "find_dup")
    /\ UNCHANGED <<storeVars, chunkVars, taskVars, sweepVars, aged>>

\* No quota check here: only init has one, on the declared size.
CompleteStart(r, u, f) ==
    /\ MayStart(r)
    /\ sessions[u] # NoSession
    /\ f \in FreshFiles
    /\ ctx' = [ctx EXCEPT ![r] =
                 [Blank EXCEPT !.input = sessions[u], !.upload = u, !.file = f]]
    /\ Goto(r, "read_chunks")
    /\ UNCHANGED <<storeVars, loop, chunkVars, taskVars, sweepVars, aged>>

\* 422 when a chunk object is missing.
ReadChunks(r) ==
    /\ pc[r] = "read_chunks"
    /\ IF chunks[ctx[r].upload] = "staged"
         THEN Goto(r, "find_dup") /\ UNCHANGED <<ctx, loop>>
         ELSE Finish(r)
    /\ UNCHANGED <<storeVars, chunkVars, taskVars, sweepVars, aged>>

FindDuplicate(r) ==
    LET found == ArchivedWithHash(ctx[r].input.owner, ctx[r].input.content)
    IN  /\ pc[r] = "find_dup"
        /\ \/ \E f \in found : /\ ctx' = [ctx EXCEPT ![r].old = f]
                               /\ Goto(r, "purge_bytes")
           \/ found = {} /\ Goto(r, "find_latest") /\ UNCHANGED ctx
        /\ UNCHANGED <<storeVars, loop, chunkVars, taskVars, sweepVars, aged>>

PurgeBytes(r) ==
    /\ pc[r] = "purge_bytes"
    /\ DeleteObjects(ctx[r].old)
    /\ Goto(r, "purge_row")
    /\ UNCHANGED <<rows, info, vectors, docVars, ctx, loop, chunkVars,
                   taskVars, sweepVars, aged>>

PurgeRow(r) ==
    /\ pc[r] = "purge_row"
    /\ HardDelete(ctx[r].old)
    /\ ctx' = [ctx EXCEPT ![r].old = NoFile]
    /\ Goto(r, "find_latest")
    /\ UNCHANGED <<info, objects, vectors, docVars, loop, chunkVars,
                   taskVars, sweepVars, aged>>

FindLatest(r) ==
    LET found == PreviousLatest(ctx[r].input.owner, ctx[r].input.name)
    IN  /\ pc[r] = "find_latest"
        /\ \/ \E f \in found :
                /\ ctx' = [ctx EXCEPT ![r].old = f, ![r].snap = rows[f]]
                /\ Goto(r, "supersede")
           \/ found = {} /\ Goto(r, "put") /\ UNCHANGED ctx
        /\ UNCHANGED <<storeVars, loop, chunkVars, taskVars, sweepVars, aged>>

\* Mutant: the previous version is not written back.
Supersede_NotSaved(r) ==
    /\ pc[r] = "supersede"
    /\ Goto(r, "put")
    /\ UNCHANGED <<storeVars, ctx, loop, chunkVars, taskVars, sweepVars, aged>>

Supersede(r) ==
    /\ pc[r] = "supersede"
    /\ Save(ctx[r].old, [ctx[r].snap EXCEPT !.latest = FALSE])
    /\ Goto(r, "put")
    /\ UNCHANGED <<info, objects, vectors, docVars, ctx, loop, chunkVars,
                   taskVars, sweepVars, aged>>

PutOriginal(r) ==
    /\ pc[r] = "put"
    /\ PutObject(ctx[r].file, "original")
    /\ Goto(r, IF ctx[r].upload = NoUpload THEN "save_new" ELSE "close_session")
    /\ UNCHANGED <<rows, info, vectors, docVars, ctx, loop, chunkVars,
                   taskVars, sweepVars, aged>>

\* The exception leaves the handler; what it has saved stays saved.
PutFails(r) ==
    /\ StorageFails
    /\ pc[r] = "put"
    /\ Finish(r)
    /\ UNCHANGED <<storeVars, chunkVars, taskVars, sweepVars, aged>>

CloseSession(r) ==
    /\ pc[r] = "close_session"
    /\ chunks' = [chunks EXCEPT ![ctx[r].upload] = "removed"]
    /\ sessions' = [sessions EXCEPT ![ctx[r].upload] = NoSession]
    /\ Goto(r, "save_new")
    /\ UNCHANGED <<storeVars, ctx, loop, taskVars, sweepVars, aged>>

\* Mutants of on_upload: versions count from zero, the group is not inherited.
NewInfo_FromZero(r) ==
    [owner |-> ctx[r].input.owner, name |-> ctx[r].input.name,
     content |-> ctx[r].input.content, scope |-> ctx[r].input.scope,
     group |-> ctx[r].file, version |-> 0, created |-> 0]

NewInfo_NewGroup(r) ==
    LET old == ctx[r].old
    IN  [owner |-> ctx[r].input.owner, name |-> ctx[r].input.name,
         content |-> ctx[r].input.content, scope |-> ctx[r].input.scope,
         group |-> ctx[r].file,
         version |-> IF old = NoFile THEN 1 ELSE info[old].version + 1,
         created |-> Cardinality({f \in Files : info[f] # NoInfo})]

\* on_upload's group and version for the file this request creates.
NewInfo(r) ==
    LET in == ctx[r].input
        old == ctx[r].old
    IN  [owner |-> in.owner, name |-> in.name, content |-> in.content,
         scope |-> in.scope,
         group |-> IF old = NoFile THEN ctx[r].file ELSE info[old].group,
         version |-> IF old = NoFile THEN 1 ELSE info[old].version + 1,
         created |-> Cardinality({f \in Files : info[f] # NoInfo})]

NewRow == [latest |-> TRUE, status |-> "processing", deleted |-> FALSE,
           archived |-> FALSE, doc |-> NoDoc]

SaveNew(r) ==
    /\ pc[r] = "save_new"
    /\ info' = [info EXCEPT ![ctx[r].file] = NewInfo(r)]
    /\ Save(ctx[r].file, NewRow)
    /\ task' = [task EXCEPT ![ctx[r].file] = "queued"]
    /\ Finish(r)
    /\ UNCHANGED <<objects, vectors, docVars, chunkVars, taskRow, sweepVars, aged>>

-----------------------------------------------------------------------------
(* FileProcessingWorker.process, one background task per uploaded file.    *)

result(f) == Outcome[info[f].content]

\* An unknown file or a missing object ends the task with an exception.
WorkerFetch(f) ==
    /\ task[f] = "queued"
    /\ IF Exists(f) /\ objects[f]["original"] = "stored"
         THEN /\ task' = [task EXCEPT ![f] = "fetched"]
              /\ taskRow' = [taskRow EXCEPT ![f] = rows[f]]
         ELSE /\ task' = [task EXCEPT ![f] = "done"]
              /\ UNCHANGED taskRow
    /\ UNCHANGED <<storeVars, pc, ctx, loop, chunkVars, sweepVars, aged>>

WorkerEnd(f) ==
    /\ task' = [task EXCEPT ![f] = "done"]
    /\ taskRow' = [taskRow EXCEPT ![f] = NoRow]

WorkerRejectRows(f) ==
    /\ task[f] = "fetched" /\ Structured(f) /\ result(f) = "too_many_rows"
    /\ Save(f, [taskRow[f] EXCEPT !.status = "failed"])
    /\ WorkerEnd(f)
    /\ UNCHANGED <<info, objects, vectors, docVars, pc, ctx, loop, chunkVars,
                   sweepVars, aged>>

\* Mutant: the snapshot is not put.
WorkerWriteParquet_Skipped(f) ==
    /\ task[f] = "fetched" /\ Structured(f)
    /\ result(f) \in {"ok", "no_text"}
    /\ task' = [task EXCEPT ![f] = "derived"]
    /\ UNCHANGED <<storeVars, pc, ctx, loop, chunkVars, taskRow, sweepVars, aged>>

WorkerWriteParquet(f) ==
    /\ task[f] = "fetched" /\ Structured(f)
    /\ result(f) \in {"ok", "no_text"}
    /\ PutObject(f, "parquet")
    /\ task' = [task EXCEPT ![f] = "derived"]
    /\ UNCHANGED <<rows, info, vectors, docVars, pc, ctx, loop, chunkVars,
                   taskRow, sweepVars, aged>>

\* Mutant: the row says "ready" before the chunks are in the sink.
WorkerMarkIndexing_Ready(f) ==
    /\ task[f] = "fetched" /\ ~Structured(f)
    /\ taskRow' = [taskRow EXCEPT ![f].status = "ready"]
    /\ Save(f, taskRow'[f])
    /\ task' = [task EXCEPT ![f] = "indexing"]
    /\ UNCHANGED <<info, objects, vectors, docVars, pc, ctx, loop, chunkVars,
                   sweepVars, aged>>

WorkerMarkIndexing(f) ==
    /\ task[f] = "fetched" /\ ~Structured(f)
    /\ taskRow' = [taskRow EXCEPT ![f].status = "indexing"]
    /\ Save(f, taskRow'[f])
    /\ task' = [task EXCEPT ![f] = "indexing"]
    /\ UNCHANGED <<info, objects, vectors, docVars, pc, ctx, loop, chunkVars,
                   sweepVars, aged>>

\* Mutant: a text without chunks is not finished.
WorkerUpsertChunks_NeedsText(f) ==
    /\ task[f] = "indexing" /\ result(f) = "ok"
    /\ vectors' = vectors \cup {f}
    /\ task' = [task EXCEPT ![f] = "derived"]
    /\ UNCHANGED <<rows, info, objects, docVars, pc, ctx, loop, chunkVars,
                   taskRow, sweepVars, aged>>

\* A text without chunks skips the embedding and the sink.
WorkerUpsertChunks(f) ==
    /\ task[f] = "indexing" /\ result(f) # "raises"
    /\ vectors' = IF result(f) = "no_text" THEN vectors ELSE vectors \cup {f}
    /\ task' = [task EXCEPT ![f] = "derived"]
    /\ UNCHANGED <<rows, info, objects, docVars, pc, ctx, loop, chunkVars,
                   taskRow, sweepVars, aged>>

\* Any exception but RowLimitExceeded escapes: the row keeps its status.
WorkerRaises(f) ==
    /\ task[f] = "indexing" \/ (task[f] = "fetched" /\ Structured(f))
    /\ result(f) = "raises"
    /\ WorkerEnd(f)
    /\ UNCHANGED <<storeVars, pc, ctx, loop, chunkVars, sweepVars, aged>>

WorkerSaveReady(f) ==
    /\ task[f] = "derived"
    /\ Save(f, [taskRow[f] EXCEPT !.status = "ready"])
    /\ WorkerEnd(f)
    /\ UNCHANGED <<info, objects, vectors, docVars, pc, ctx, loop, chunkVars,
                   sweepVars, aged>>

-----------------------------------------------------------------------------
(* Delete.  The owner may not see an archived file but an admin may delete *)
(* it, so archiving is no guard here.                                      *)

DeleteStart(r, f) ==
    /\ MayStart(r)
    /\ Exists(f) /\ ~rows[f].deleted
    /\ ctx' = [ctx EXCEPT ![r] = [Blank EXCEPT !.file = f]]
    /\ Goto(r, "delete_bytes")
    /\ UNCHANGED <<storeVars, loop, chunkVars, taskVars, sweepVars, aged>>

DeleteBytes(r) ==
    /\ pc[r] = "delete_bytes"
    /\ DeleteObjects(ctx[r].file)
    /\ Goto(r, "soft_delete")
    /\ UNCHANGED <<rows, info, vectors, docVars, ctx, loop, chunkVars,
                   taskVars, sweepVars, aged>>

DeleteRow(r) ==
    /\ pc[r] = "soft_delete"
    /\ SoftDelete(ctx[r].file)
    /\ Finish(r)
    /\ UNCHANGED <<info, objects, vectors, docVars, chunkVars, taskVars,
                   sweepVars, aged>>

-----------------------------------------------------------------------------
(* KnowledgePromotionService, called by an admin of the file's org.        *)

\* Neither deleted_at, archived_at nor promoted_to_doc_id is consulted.
PromoteStart(r, f, d) ==
    /\ MayStart(r)
    /\ Exists(f) /\ ~Structured(f) /\ rows[f].status = "ready"
    /\ f \in vectors
    /\ d \in FreshDocs
    /\ ctx' = [ctx EXCEPT ![r] =
                 [Blank EXCEPT !.file = f, !.snap = rows[f], !.doc = d]]
    /\ Goto(r, "publish")
    /\ UNCHANGED <<storeVars, loop, chunkVars, taskVars, sweepVars, aged>>

Publish(r) ==
    /\ pc[r] = "publish"
    /\ PublishDoc(ctx[r].doc, ctx[r].file)
    /\ Goto(r, "save_promoted")
    /\ UNCHANGED <<rows, info, objects, vectors, ctx, loop, chunkVars,
                   taskVars, sweepVars, aged>>

SavePromoted(r) ==
    /\ pc[r] = "save_promoted"
    /\ Save(ctx[r].file, [ctx[r].snap EXCEPT !.doc = ctx[r].doc])
    /\ Finish(r)
    /\ UNCHANGED <<info, objects, vectors, docVars, chunkVars, taskVars,
                   sweepVars, aged>>

\* _find_source_file searches list_active for the row that names the document.
DemoteStart(r, d) ==
    /\ MayStart(r)
    /\ \E f \in ListActive :
         /\ rows[f].doc = d
         /\ ctx' = [ctx EXCEPT ![r] =
                      [Blank EXCEPT !.file = f, !.snap = rows[f], !.doc = d]]
    /\ Goto(r, "unpublish")
    /\ UNCHANGED <<storeVars, loop, chunkVars, taskVars, sweepVars, aged>>

Unpublish(r) ==
    LET d == ctx[r].doc
    IN  /\ pc[r] = "unpublish"
        /\ kb' = [kb EXCEPT ![d] = IF @ = "none" THEN @ ELSE "disabled"]
        /\ RemoveFromLiveRag(d)
        /\ Goto(r, "save_demoted")
        /\ UNCHANGED <<rows, info, objects, vectors, docSource, ctx, loop,
                       chunkVars, taskVars, sweepVars, aged>>

SaveDemoted(r) ==
    /\ pc[r] = "save_demoted"
    /\ Save(ctx[r].file, [ctx[r].snap EXCEPT !.doc = NoDoc])
    /\ Finish(r)
    /\ UNCHANGED <<info, objects, vectors, docVars, chunkVars, taskVars,
                   sweepVars, aged>>

-----------------------------------------------------------------------------
(* RetentionWorker.run, from one list_active snapshot.                     *)

\* Time passes one file's retention window.  "org" has no window.
Age(f) ==
    /\ Exists(f) /\ info[f].scope # "org" /\ f \notin aged
    /\ aged' = aged \cup {f}
    /\ UNCHANGED <<storeVars, pc, ctx, loop, chunkVars, taskVars, sweepVars>>

Expired == {f \in ListActive : ~rows[f].archived /\ f \in aged}

\* A sweep that finds nothing expired changes nothing.
SweepStart ==
    /\ Overlap \/ Quiet
    /\ loop = Free
    /\ Expired # {}
    /\ loop' = Sweeper
    /\ sweepRow' = [f \in Files |-> IF f \in Expired THEN rows[f] ELSE NoRow]
    /\ UNCHANGED <<storeVars, pc, ctx, chunkVars, taskVars, sweepDoc, aged>>

\* Mutant: the knowledge base keeps the document.
SweepUnpublish_KeepsServing(f) ==
    /\ sweepRow[f] # NoRow /\ sweepRow[f].doc # NoDoc
    /\ sweepDoc = NoFile
    /\ sweepDoc' = f
    /\ UNCHANGED <<storeVars, pc, ctx, loop, chunkVars, taskVars, sweepRow, aged>>

SweepUnpublish(f) ==
    /\ sweepRow[f] # NoRow /\ sweepRow[f].doc # NoDoc
    /\ sweepDoc = NoFile
    /\ RemoveFromLiveRag(sweepRow[f].doc)
    /\ sweepDoc' = f
    /\ UNCHANGED <<rows, info, objects, vectors, docSource, kb, pc, ctx, loop,
                   chunkVars, taskVars, sweepRow, aged>>

\* Mutant: promoted_to_doc_id is not cleared.
SweepArchive_KeepsDoc(f) ==
    /\ sweepRow[f] # NoRow
    /\ IF sweepRow[f].doc = NoDoc THEN sweepDoc = NoFile ELSE sweepDoc = f
    /\ Save(f, [sweepRow[f] EXCEPT !.archived = TRUE])
    /\ sweepRow' = [sweepRow EXCEPT ![f] = NoRow]
    /\ sweepDoc' = NoFile
    /\ loop' = IF \A g \in Files \ {f} : sweepRow[g] = NoRow THEN Free ELSE loop
    /\ UNCHANGED <<info, objects, vectors, docVars, pc, ctx, chunkVars,
                   taskVars, aged>>

SweepArchive(f) ==
    /\ sweepRow[f] # NoRow
    /\ IF sweepRow[f].doc = NoDoc THEN sweepDoc = NoFile ELSE sweepDoc = f
    /\ Save(f, [sweepRow[f] EXCEPT !.archived = TRUE, !.doc = NoDoc])
    /\ sweepRow' = [sweepRow EXCEPT ![f] = NoRow]
    /\ sweepDoc' = NoFile
    /\ loop' = IF \A g \in Files \ {f} : sweepRow[g] = NoRow THEN Free ELSE loop
    /\ UNCHANGED <<info, objects, vectors, docVars, pc, ctx, chunkVars,
                   taskVars, aged>>

-----------------------------------------------------------------------------
(* The process stops and a new one starts on the same Postgres and disk.   *)
(* Background tasks, the vector sink, the VectorStore and the chunk        *)
(* sessions were in memory; knowledge.* is loaded back.                    *)
Restart ==
    /\ MayRestart
    /\ pc' = [r \in Reqs |-> "idle"]
    /\ ctx' = [r \in Reqs |-> Blank]
    /\ loop' = Free
    /\ sessions' = [u \in Uploads |-> NoSession]
    /\ task' = [f \in Files |-> IF task[f] = "none" THEN "none" ELSE "done"]
    /\ taskRow' = [f \in Files |-> NoRow]
    /\ sweepRow' = [f \in Files |-> NoRow]
    /\ sweepDoc' = NoFile
    /\ vectors' = {}
    /\ kb' = [d \in Docs |-> "none"]
    /\ UNCHANGED <<rows, info, objects, docSource, live, chunks, aged>>

-----------------------------------------------------------------------------
CreateStep(r) ==
    \/ ReadChunks(r) \/ FindDuplicate(r) \/ PurgeBytes(r) \/ PurgeRow(r)
    \/ FindLatest(r) \/ Supersede(r) \/ PutOriginal(r) \/ PutFails(r)
    \/ CloseSession(r) \/ SaveNew(r)

DeleteStep(r) == DeleteBytes(r) \/ DeleteRow(r)

KnowledgeStep(r) ==
    Publish(r) \/ SavePromoted(r) \/ Unpublish(r) \/ SaveDemoted(r)

HandlerStep(r) == CreateStep(r) \/ DeleteStep(r) \/ KnowledgeStep(r)

WorkerStep(f) ==
    \/ WorkerFetch(f) \/ WorkerRejectRows(f) \/ WorkerWriteParquet(f)
    \/ WorkerMarkIndexing(f) \/ WorkerUpsertChunks(f) \/ WorkerRaises(f)
    \/ WorkerSaveReady(f)

SweepStep == \E f \in Files : SweepUnpublish(f) \/ SweepArchive(f)

Call ==
    \/ \E u \in Uploads : PutChunks(u) \/ \E p \in Payload : InitUpload(u, p)
    \/ \E r \in Reqs, f \in Files :
         \/ \E p \in Payload : UploadStart(r, p, f)
         \/ \E u \in Uploads : CompleteStart(r, u, f)
         \/ DeleteStart(r, f)
         \/ \E d \in Docs : PromoteStart(r, f, d)
    \/ \E r \in Reqs, d \in Docs : DemoteStart(r, d)

Next ==
    \/ Call
    \/ \E r \in Reqs : HandlerStep(r)
    \/ \E f \in Files : WorkerStep(f) \/ Age(f)
    \/ SweepStart \/ SweepStep
    \/ Restart

Spec == Init /\ [][Next]_vars

\* A thread or the loop, once in a handler, runs it to its end; the sweep
\* comes round again for as long as the process lives.
Fairness ==
    /\ \A r \in Reqs : WF_vars(HandlerStep(r))
    /\ \A f \in Files : WF_vars(WorkerStep(f))
    /\ WF_vars(SweepStep)
    /\ WF_vars(SweepStart)

FairSpec == Spec /\ Fairness

=============================================================================
