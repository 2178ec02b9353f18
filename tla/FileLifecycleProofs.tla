------------------------- MODULE FileLifecycleProofs -------------------------
(***************************************************************************)
(* Proofs about FileLifecycle, for every set of files, requests, contents  *)
(* and storage outcomes.  They are in four layers, each an invariant that  *)
(* the next one uses:                                                      *)
(*                                                                         *)
(*   Shape     what each program point holds in its slot (TypeCorrect)     *)
(*   Backing   no copy of a row promises more than the store has           *)
(*   Chaining  no copy of a row hides a version without its successor      *)
(*   Serial    when calls do not overlap, a copy of a row is the row       *)
(*                                                                         *)
(* The first three hold for every interleaving; from the last one follow   *)
(* what an owner lists and the refinement of FileCatalog.  Beside them,    *)
(* Withdrawn says what is no longer served when the sweep archives, and    *)
(* Named which row names what is served.                                   *)
(***************************************************************************)
EXTENDS FileProperties, FiniteSetTheorems, TLAPS

-----------------------------------------------------------------------------
(* Types.  TypeOK is not inductive: a handler writes back the row and      *)
(* builds the version it holds in its slot, so its slot must be filled at  *)
(* the program points that use it.  Shape says so.                         *)

CreatePCs == {"read_chunks", "find_dup", "purge_bytes", "purge_row",
              "find_latest", "supersede", "put", "close_session", "save_new"}
DeletePCs == {"delete_bytes", "soft_delete"}
KnowledgePCs == {"publish", "save_promoted", "unpublish", "save_demoted"}

\* What a handler holds at each of its program points.
HandlerShape(r) ==
    /\ pc[r] \in CreatePCs => ctx[r].input # NoInput /\ ctx[r].file # NoFile
    /\ pc[r] \in {"read_chunks", "close_session"} => ctx[r].upload # NoUpload
    /\ pc[r] \in {"purge_bytes", "purge_row", "supersede"} => ctx[r].old # NoFile
    /\ ctx[r].old # NoFile => info[ctx[r].old] # NoInfo
    /\ pc[r] \in {"supersede"} \cup KnowledgePCs => ctx[r].snap # NoRow
    /\ pc[r] \in DeletePCs \cup KnowledgePCs =>
         ctx[r].file # NoFile /\ info[ctx[r].file] # NoInfo
    /\ pc[r] \in KnowledgePCs => ctx[r].doc # NoDoc

HandlersShaped == \A r \in Reqs : HandlerShape(r)

\* Whatever mentions a file comes after its row was first written.
FileShape(f) ==
    /\ Exists(f) \/ task[f] # "none" \/ sweepRow[f] # NoRow => info[f] # NoInfo
    /\ task[f] \in {"fetched", "indexing", "derived"} => taskRow[f] # NoRow

FilesShaped == \A f \in Files : FileShape(f)

Shape == TypeOK /\ HandlersShaped /\ FilesShaped

-----------------------------------------------------------------------------
(* The record types are closed under the updates the actions make.         *)

LEMMA RowEdits ==
    ASSUME NEW row \in Row
    PROVE  /\ [row EXCEPT !.latest = FALSE] \in Row
           /\ [row EXCEPT !.deleted = TRUE] \in Row
           /\ \A s \in Statuses : [row EXCEPT !.status = s] \in Row
           /\ \A d \in Docs \cup {NoDoc} : [row EXCEPT !.doc = d] \in Row
           /\ [row EXCEPT !.archived = TRUE, !.doc = NoDoc] \in Row
BY DEF Row

LEMMA BlankIsCtx == Blank \in Ctx
BY DEF Ctx, Blank

LEMMA CtxEdits ==
    ASSUME NEW c \in Ctx
    PROVE  \A f \in Files \cup {NoFile}, row \in Row \cup {NoRow} :
               /\ [c EXCEPT !.old = f] \in Ctx
               /\ [c EXCEPT !.old = f, !.snap = row] \in Ctx
BY DEF Ctx

LEMMA CtxFields ==
    ASSUME NEW c \in Ctx
    PROVE  /\ c.input \in Payload \cup {NoInput}
           /\ c.upload \in Uploads \cup {NoUpload}
           /\ c.file \in Files \cup {NoFile}
           /\ c.old \in Files \cup {NoFile}
           /\ c.snap \in Row \cup {NoRow}
           /\ c.doc \in Docs \cup {NoDoc}
BY DEF Ctx

\* A new row, and the version on_upload computes for it.
LEMMA NewRowIsRow == NewRow \in Row
BY DEF NewRow, Row, Statuses

LEMMA NewInfoIsInfo ==
    ASSUME Shape, NEW r \in Reqs, pc[r] \in CreatePCs
    PROVE  NewInfo(r) \in Info
<1>1. ctx[r] \in Ctx /\ ctx[r].input \in Payload /\ ctx[r].file \in Files
  BY CtxFields DEF Shape, TypeOK, HandlersShaped, HandlerShape
<1>2. ctx[r].old # NoFile => info[ctx[r].old] \in Info
  BY <1>1, CtxFields DEF Shape, TypeOK, StoreTypeOK, HandlersShaped, HandlerShape
<1>3. ctx[r].old # NoFile =>
        info[ctx[r].old].group \in Files /\ info[ctx[r].old].version + 1 \in Nat \ {0}
  BY <1>2 DEF Info
<1>4. Cardinality({f \in Files : info[f] # NoInfo}) \in Nat
  BY FileStoreAssumption, FS_Subset, FS_CardinalityType
<1>5. /\ ctx[r].input.owner \in Owners /\ ctx[r].input.name \in Names
      /\ ctx[r].input.content \in Contents /\ ctx[r].input.scope \in Scopes
  BY <1>1 DEF Payload
<1>. QED
  BY <1>1, <1>3, <1>4, <1>5 DEF NewInfo, Info

-----------------------------------------------------------------------------
LEMMA ShapeInit == Init => Shape
BY FileStoreAssumption, FileLifecycleAssumption
   DEF Init, StoreInit, Shape, TypeOK, StoreTypeOK, HandlersShaped, HandlerShape,
       FilesShaped, FileShape, Exists, PCs, TaskPCs, Ctx, Blank, Kinds, Blob,
       CreatePCs, DeletePCs, KnowledgePCs

(* The disjuncts of Next, in three groups.                                 *)

UploadActions ==
    \/ \E u \in Uploads : PutChunks(u) \/ \E p \in Payload : InitUpload(u, p)
    \/ \E r \in Reqs, f \in Files :
         \/ \E p \in Payload : UploadStart(r, p, f)
         \/ \E u \in Uploads : CompleteStart(r, u, f)
    \/ \E r \in Reqs : CreateStep(r)

WorkerActions == \E f \in Files : WorkerStep(f)

OtherActions ==
    \/ \E r \in Reqs, f \in Files :
         DeleteStart(r, f) \/ \E d \in Docs : PromoteStart(r, f, d)
    \/ \E r \in Reqs, d \in Docs : DemoteStart(r, d)
    \/ \E r \in Reqs : DeleteStep(r) \/ KnowledgeStep(r)
    \/ \E f \in Files : Age(f)
    \/ SweepStart \/ SweepStep
    \/ Restart

LEMMA NextInGroups ==
    ASSUME Next PROVE UploadActions \/ WorkerActions \/ OtherActions
BY DEF Next, Call, HandlerStep, UploadActions, WorkerActions, OtherActions

\* Uploads and chunked uploads.
LEMMA ShapeUpload ==
    ASSUME Shape, UploadActions PROVE Shape'
<1> USE DEF Shape, TypeOK, StoreTypeOK, HandlersShaped, HandlerShape,
           FilesShaped, FileShape, Exists, CreatePCs, DeletePCs, KnowledgePCs,
           storeVars, chunkVars, taskVars, sweepVars, docVars, Goto
<1>1. ASSUME NEW u \in Uploads, NEW p \in Payload,
            InitUpload(u, p)
     PROVE  Shape'
  <2>1. TypeOK'
    BY <1>1, FileLifecycleAssumption DEF PCs, TaskPCs, InitUpload
  <2>2. HandlersShaped'
    BY <1>1, FileStoreAssumption, FileLifecycleAssumption DEF InitUpload
  <2>3. FilesShaped'
    BY <1>1, FileStoreAssumption DEF InitUpload
  <2>. QED
    BY <2>1, <2>2, <2>3
<1>2. ASSUME NEW u \in Uploads, PutChunks(u) PROVE Shape'
  <2>1. TypeOK'
    BY <1>2, FileLifecycleAssumption DEF PCs, TaskPCs, PutChunks
  <2>2. HandlersShaped'
    BY <1>2, FileStoreAssumption, FileLifecycleAssumption DEF PutChunks
  <2>3. FilesShaped'
    BY <1>2, FileStoreAssumption DEF PutChunks
  <2>. QED
    BY <2>1, <2>2, <2>3
<1>3. ASSUME NEW r \in Reqs, NEW p \in Payload, NEW f \in Files,
            UploadStart(r, p, f)
     PROVE  Shape'
  <2>1. ctx' \in [Reqs -> Ctx]
    BY <1>3 DEF Ctx, Blank, MayStart, FreshFiles, UploadStart
  <2>2. TypeOK'
    BY <1>3, <2>1, CtxFields, FileLifecycleAssumption
       DEF Blank, PCs, TaskPCs, MayStart, FreshFiles, UploadStart
  <2>3. HandlersShaped'
    BY <1>3, <2>1, CtxFields, FileStoreAssumption, FileLifecycleAssumption
       DEF Blank, MayStart, FreshFiles, UploadStart
  <2>4. FilesShaped'
    BY <1>3, <2>1, CtxFields, FileStoreAssumption
       DEF Blank, MayStart, FreshFiles, UploadStart
  <2>. QED
    BY <2>2, <2>3, <2>4
<1>4. ASSUME NEW r \in Reqs, NEW u \in Uploads, NEW f \in Files,
            CompleteStart(r, u, f)
     PROVE  Shape'
  <2>1. ctx' \in [Reqs -> Ctx]
    BY <1>4 DEF Ctx, Blank, MayStart, FreshFiles, CompleteStart
  <2>2. TypeOK'
    BY <1>4, <2>1, CtxFields, FileLifecycleAssumption
       DEF Blank, PCs, TaskPCs, MayStart, FreshFiles, CompleteStart
  <2>3. HandlersShaped'
    BY <1>4, <2>1, CtxFields, FileStoreAssumption, FileLifecycleAssumption
       DEF Blank, MayStart, FreshFiles, CompleteStart
  <2>4. FilesShaped'
    BY <1>4, <2>1, CtxFields, FileStoreAssumption
       DEF Blank, MayStart, FreshFiles, CompleteStart
  <2>. QED
    BY <2>2, <2>3, <2>4
<1>5. ASSUME NEW r \in Reqs, ReadChunks(r) PROVE Shape'
  <2>1. ctx' \in [Reqs -> Ctx]
    BY <1>5, BlankIsCtx, CtxEdits DEF Blank, Finish, ReadChunks
  <2>2. TypeOK'
    BY <1>5, <2>1, CtxFields, FileLifecycleAssumption
       DEF Blank, PCs, TaskPCs, Finish, ReadChunks
  <2>3. HandlersShaped'
    BY <1>5, <2>1, CtxFields, FileStoreAssumption, FileLifecycleAssumption
       DEF Blank, Finish, ReadChunks
  <2>4. FilesShaped'
    BY <1>5, <2>1, CtxFields, FileStoreAssumption DEF Blank, Finish,
           ReadChunks
  <2>. QED
    BY <2>2, <2>3, <2>4
<1>6. ASSUME NEW r \in Reqs, FindDuplicate(r) PROVE Shape'
  <2>1. UNCHANGED <<storeVars, loop, chunkVars, taskVars, sweepVars, aged>>
    BY <1>6 DEF FindDuplicate
  <2>2. CASE Goto(r, "find_latest") /\ UNCHANGED ctx
    BY <1>6, <2>1, <2>2 DEF PCs, FindDuplicate
  <2>3. CASE \E f \in Files : /\ Exists(f)
                              /\ ctx' = [ctx EXCEPT ![r].old = f]
                              /\ Goto(r, "purge_bytes")
    <3>1. PICK f \in Files : /\ Exists(f)
                             /\ ctx' = [ctx EXCEPT ![r].old = f]
                             /\ Goto(r, "purge_bytes")
      BY <2>3
    <3>2. ctx' \in [Reqs -> Ctx]
      BY <3>1, CtxEdits DEF Shape, TypeOK
    <3>3. TypeOK'
      BY <2>1, <3>1, <3>2 DEF PCs, TaskPCs
    <3>4. HandlersShaped'
      BY <1>6, <2>1, <3>1, FileStoreAssumption, CtxFields DEF FindDuplicate
    <3>5. FilesShaped'
      BY <2>1, <3>1
    <3>. QED
      BY <3>3, <3>4, <3>5 DEF Shape
  <2>. QED
    BY <1>6, <2>2, <2>3 DEF FindDuplicate, ArchivedWithHash
<1>7. ASSUME NEW r \in Reqs, PurgeBytes(r) PROVE Shape'
  <2>1. TypeOK'
    BY <1>7, CtxFields, FileLifecycleAssumption
       DEF Blob, Kinds, Structured, Erase, DeleteObjects, PCs, TaskPCs,
           PurgeBytes
  <2>2. HandlersShaped'
    BY <1>7, CtxFields, FileStoreAssumption, FileLifecycleAssumption
       DEF Structured, Erase, DeleteObjects, PurgeBytes
  <2>3. FilesShaped'
    BY <1>7, CtxFields, FileStoreAssumption
       DEF Structured, Erase, DeleteObjects, PurgeBytes
  <2>. QED
    BY <2>1, <2>2, <2>3
<1>8. ASSUME NEW r \in Reqs, PurgeRow(r) PROVE Shape'
  <2>1. ctx' \in [Reqs -> Ctx]
    BY <1>8, BlankIsCtx, CtxEdits DEF HardDelete, PurgeRow
  <2>2. TypeOK'
    BY <1>8, <2>1, CtxFields, FileLifecycleAssumption
       DEF HardDelete, PCs, TaskPCs, PurgeRow
  <2>3. HandlersShaped'
    BY <1>8, <2>1, CtxFields, FileStoreAssumption, FileLifecycleAssumption
       DEF HardDelete, Blank, PurgeRow
  <2>4. FilesShaped'
    BY <1>8, <2>1, CtxFields, FileStoreAssumption DEF HardDelete, PurgeRow
  <2>. QED
    BY <2>2, <2>3, <2>4
<1>9. ASSUME NEW r \in Reqs, FindLatest(r) PROVE Shape'
  <2>1. UNCHANGED <<storeVars, loop, chunkVars, taskVars, sweepVars, aged>>
    BY <1>9 DEF FindLatest
  <2>2. CASE Goto(r, "put") /\ UNCHANGED ctx
    BY <1>9, <2>1, <2>2 DEF PCs, FindLatest
  <2>3. CASE \E f \in Files : /\ Exists(f)
                              /\ ctx' = [ctx EXCEPT ![r].old = f, ![r].snap = rows[f]]
                              /\ Goto(r, "supersede")
    <3>1. PICK f \in Files : /\ Exists(f)
                             /\ ctx' = [ctx EXCEPT ![r].old = f, ![r].snap = rows[f]]
                             /\ Goto(r, "supersede")
      BY <2>3
    <3>2. ctx' \in [Reqs -> Ctx]
      <4>1. rows[f] \in Row \cup {NoRow} /\ ctx[r] \in Ctx
        BY DEF Shape, TypeOK, StoreTypeOK
      <4>2. [ctx[r] EXCEPT !.old = f, !.snap = rows[f]] \in Ctx
        BY <4>1, CtxEdits
      <4>. QED
        BY <3>1, <4>2 DEF Shape, TypeOK
    <3>3. TypeOK'
      BY <2>1, <3>1, <3>2 DEF PCs, TaskPCs
    <3>4. /\ ctx'[r].old = f /\ ctx'[r].snap = rows[f]
          /\ ctx'[r].input = ctx[r].input /\ ctx'[r].file = ctx[r].file
          /\ \A s \in Reqs \ {r} : ctx'[s] = ctx[s]
      BY <3>1, <3>2 DEF Shape, TypeOK, Ctx
    <3>5. HandlersShaped'
      <4>1. HandlerShape(r)'
        <5>1. pc[r] = "find_latest" /\ pc'[r] = "supersede"
          BY <1>9, <3>1 DEF FindLatest, Goto, Shape, TypeOK
        <5>2. f # NoFile /\ info'[f] # NoInfo /\ rows[f] # NoRow
          BY <2>1, <3>1, FileStoreAssumption
             DEF Shape, FilesShaped, FileShape, Exists, storeVars
        <5>3. ctx[r].input # NoInput /\ ctx[r].file # NoFile
          BY <5>1 DEF Shape, HandlersShaped, HandlerShape, CreatePCs
        <5>. QED
          BY <3>4, <5>1, <5>2, <5>3
             DEF HandlerShape, CreatePCs, DeletePCs, KnowledgePCs
      <4>2. ASSUME NEW s \in Reqs \ {r} PROVE HandlerShape(s)'
        BY <2>1, <3>1, <3>4
      <4>. QED
        BY <4>1, <4>2 DEF HandlersShaped
    <3>6. FilesShaped'
      BY <2>1, <3>1
    <3>. QED
      BY <3>3, <3>5, <3>6 DEF Shape
  <2>. QED
    BY <1>9, <2>2, <2>3
       DEF FindLatest, PreviousLatest, ListLatestByOwner, ListByOwner
<1>10. ASSUME NEW r \in Reqs, Supersede(r) PROVE Shape'
  <2>1. ctx[r].snap \in Row
    BY <1>10, CtxFields DEF Supersede
  <2>2. [ctx[r].snap EXCEPT !.latest = FALSE] \in Row
    BY <2>1, RowEdits
  <2>3. TypeOK'
    BY <1>10, <2>2, CtxFields, FileLifecycleAssumption
       DEF Save, PCs, TaskPCs, Supersede
  <2>4. HandlersShaped'
    BY <1>10, <2>2, CtxFields, FileStoreAssumption, FileLifecycleAssumption
       DEF Save, Supersede
  <2>5. FilesShaped'
    BY <1>10, <2>2, CtxFields, FileStoreAssumption DEF Save, Supersede
  <2>. QED
    BY <2>3, <2>4, <2>5
<1>11. ASSUME NEW r \in Reqs, PutOriginal(r) PROVE Shape'
  <2>1. TypeOK'
    BY <1>11, CtxFields, FileLifecycleAssumption
       DEF Blob, Kinds, PutObject, PCs, TaskPCs, PutOriginal
  <2>2. HandlersShaped'
    BY <1>11, CtxFields, FileStoreAssumption, FileLifecycleAssumption
       DEF PutObject, PutOriginal
  <2>3. FilesShaped'
    BY <1>11, CtxFields, FileStoreAssumption DEF PutObject, PutOriginal
  <2>. QED
    BY <2>1, <2>2, <2>3
<1>12. ASSUME NEW r \in Reqs, PutFails(r) PROVE Shape'
  <2>1. ctx' \in [Reqs -> Ctx]
    BY <1>12, BlankIsCtx, CtxEdits DEF Blank, Finish, PutFails
  <2>2. TypeOK'
    BY <1>12, <2>1, FileLifecycleAssumption
       DEF Blank, PCs, TaskPCs, Finish, PutFails
  <2>3. HandlersShaped'
    BY <1>12, <2>1, FileStoreAssumption, FileLifecycleAssumption
       DEF Blank, Finish, PutFails
  <2>4. FilesShaped'
    BY <1>12, <2>1, FileStoreAssumption DEF Blank, Finish, PutFails
  <2>. QED
    BY <2>2, <2>3, <2>4
<1>13. ASSUME NEW r \in Reqs, CloseSession(r) PROVE Shape'
  <2>1. TypeOK'
    BY <1>13, CtxFields, FileLifecycleAssumption DEF PCs, TaskPCs,
           CloseSession
  <2>2. HandlersShaped'
    BY <1>13, CtxFields, FileStoreAssumption, FileLifecycleAssumption
       DEF CloseSession
  <2>3. FilesShaped'
    BY <1>13, CtxFields, FileStoreAssumption DEF CloseSession
  <2>. QED
    BY <2>1, <2>2, <2>3
<1>14. ASSUME NEW r \in Reqs, SaveNew(r) PROVE Shape'
  <2>1. NewRow \in Row /\ NewInfo(r) \in Info
    BY <1>14, NewRowIsRow, NewInfoIsInfo DEF SaveNew, CreatePCs
  <2>2. ctx' \in [Reqs -> Ctx]
    BY <1>14, BlankIsCtx, CtxEdits
       DEF Save, Blank, Finish, NewInfo, NewRow, SaveNew
  <2>3. TypeOK'
    BY <1>14, <2>1, <2>2, CtxFields, FileLifecycleAssumption
       DEF Save, Blank, PCs, TaskPCs, Finish, SaveNew
  <2>4. HandlersShaped'
    BY <1>14, <2>1, <2>2, CtxFields, FileStoreAssumption, FileLifecycleAssumption
       DEF Save, Blank, Finish, SaveNew
  <2>5. FilesShaped'
    BY <1>14, <2>1, <2>2, CtxFields, FileStoreAssumption
       DEF Save, Blank, Finish, SaveNew
  <2>. QED
    BY <2>3, <2>4, <2>5
<1>. QED
  BY <1>1, <1>2, <1>3, <1>4, <1>5, <1>6, <1>7, <1>8, <1>9, <1>10, <1>11,
     <1>12, <1>13, <1>14
     DEF UploadActions, CreateStep

\* The processing task.
LEMMA ShapeWorker ==
    ASSUME Shape, WorkerActions PROVE Shape'
<1> USE DEF Shape, TypeOK, StoreTypeOK, HandlersShaped, HandlerShape,
           FilesShaped, FileShape, Exists, CreatePCs, DeletePCs, KnowledgePCs,
           storeVars, chunkVars, taskVars, sweepVars, docVars, Goto
<1>1. ASSUME NEW f \in Files, WorkerFetch(f) PROVE Shape'
  <2>1. UNCHANGED <<storeVars, pc, ctx, loop, chunkVars, sweepVars, aged>>
    BY <1>1 DEF WorkerFetch
  <2>2. CASE /\ Exists(f) /\ taskRow' = [taskRow EXCEPT ![f] = rows[f]]
             /\ task' = [task EXCEPT ![f] = "fetched"]
    <3>1. TypeOK'
      BY <2>1, <2>2 DEF PCs, TaskPCs
    <3>2. HandlersShaped'
      BY <2>1
    <3>3. FilesShaped'
      BY <2>1, <2>2
    <3>. QED
      BY <3>1, <3>2, <3>3 DEF Shape
  <2>3. CASE task' = [task EXCEPT ![f] = "done"] /\ UNCHANGED taskRow
    <3>1. TypeOK'
      BY <2>1, <2>3 DEF PCs, TaskPCs
    <3>2. HandlersShaped'
      BY <2>1
    <3>3. FilesShaped'
      BY <1>1, <2>1, <2>3 DEF WorkerFetch
    <3>. QED
      BY <3>1, <3>2, <3>3 DEF Shape
  <2>. QED
    BY <1>1, <2>2, <2>3 DEF WorkerFetch
<1>2. ASSUME NEW f \in Files, WorkerRejectRows(f) PROVE Shape'
  <2>1. taskRow[f] \in Row
    BY <1>2 DEF WorkerRejectRows
  <2>2. [taskRow[f] EXCEPT !.status = "failed"] \in Row
    BY <2>1, RowEdits DEF Statuses
  <2>3. TypeOK'
    BY <1>2, <2>2, FileLifecycleAssumption
       DEF Structured, Save, PCs, TaskPCs, WorkerEnd, WorkerRejectRows
  <2>4. HandlersShaped'
    BY <1>2, <2>2, FileStoreAssumption, FileLifecycleAssumption
       DEF Structured, Save, WorkerEnd, WorkerRejectRows
  <2>5. FilesShaped'
    BY <1>2, <2>2, FileStoreAssumption
       DEF Structured, Save, WorkerEnd, WorkerRejectRows
  <2>. QED
    BY <2>3, <2>4, <2>5
<1>3. ASSUME NEW f \in Files, WorkerWriteParquet(f) PROVE Shape'
  <2>1. TypeOK'
    BY <1>3, FileLifecycleAssumption
       DEF Blob, Kinds, Structured, PutObject, PCs, TaskPCs,
           WorkerWriteParquet
  <2>2. HandlersShaped'
    BY <1>3, FileStoreAssumption, FileLifecycleAssumption
       DEF Structured, PutObject, WorkerWriteParquet
  <2>3. FilesShaped'
    BY <1>3, FileStoreAssumption DEF Structured, PutObject, WorkerWriteParquet
  <2>. QED
    BY <2>1, <2>2, <2>3
<1>4. ASSUME NEW f \in Files, WorkerMarkIndexing(f) PROVE Shape'
  <2>1. taskRow[f] \in Row
    BY <1>4 DEF WorkerMarkIndexing
  <2>2. [taskRow[f] EXCEPT !.status = "indexing"] \in Row
    BY <2>1, RowEdits DEF Statuses
  <2>3. TypeOK'
    BY <1>4, <2>2, FileLifecycleAssumption
       DEF Structured, Save, PCs, TaskPCs, WorkerMarkIndexing
  <2>4. HandlersShaped'
    BY <1>4, <2>2, FileStoreAssumption, FileLifecycleAssumption
       DEF Structured, Save, WorkerMarkIndexing
  <2>5. FilesShaped'
    BY <1>4, <2>2, FileStoreAssumption DEF Structured, Save,
           WorkerMarkIndexing
  <2>. QED
    BY <2>3, <2>4, <2>5
<1>5. ASSUME NEW f \in Files, WorkerUpsertChunks(f) PROVE Shape'
  <2>1. TypeOK'
    BY <1>5, FileLifecycleAssumption DEF PCs, TaskPCs, WorkerUpsertChunks
  <2>2. HandlersShaped'
    BY <1>5, FileStoreAssumption, FileLifecycleAssumption
       DEF WorkerUpsertChunks
  <2>3. FilesShaped'
    BY <1>5, FileStoreAssumption DEF WorkerUpsertChunks
  <2>. QED
    BY <2>1, <2>2, <2>3
<1>6. ASSUME NEW f \in Files, WorkerRaises(f) PROVE Shape'
  <2>1. TypeOK'
    BY <1>6, FileLifecycleAssumption
       DEF Structured, PCs, TaskPCs, WorkerEnd, WorkerRaises
  <2>2. HandlersShaped'
    BY <1>6, FileStoreAssumption, FileLifecycleAssumption
       DEF Structured, WorkerEnd, WorkerRaises
  <2>3. FilesShaped'
    BY <1>6, FileStoreAssumption DEF Structured, WorkerEnd, WorkerRaises
  <2>. QED
    BY <2>1, <2>2, <2>3
<1>7. ASSUME NEW f \in Files, WorkerSaveReady(f) PROVE Shape'
  <2>1. taskRow[f] \in Row
    BY <1>7 DEF WorkerSaveReady
  <2>2. [taskRow[f] EXCEPT !.status = "ready"] \in Row
    BY <2>1, RowEdits DEF Statuses
  <2>3. TypeOK'
    BY <1>7, <2>2, FileLifecycleAssumption
       DEF Save, PCs, TaskPCs, WorkerEnd, WorkerSaveReady
  <2>4. HandlersShaped'
    BY <1>7, <2>2, FileStoreAssumption, FileLifecycleAssumption
       DEF Save, WorkerEnd, WorkerSaveReady
  <2>5. FilesShaped'
    BY <1>7, <2>2, FileStoreAssumption DEF Save, WorkerEnd, WorkerSaveReady
  <2>. QED
    BY <2>3, <2>4, <2>5
<1>. QED
  BY <1>1, <1>2, <1>3, <1>4, <1>5, <1>6, <1>7
     DEF WorkerActions, WorkerStep

\* Delete, promotion, the sweep, restart.
LEMMA ShapeOther ==
    ASSUME Shape, OtherActions PROVE Shape'
<1> USE DEF Shape, TypeOK, StoreTypeOK, HandlersShaped, HandlerShape,
           FilesShaped, FileShape, Exists, CreatePCs, DeletePCs, KnowledgePCs,
           storeVars, chunkVars, taskVars, sweepVars, docVars, Goto
<1>1. ASSUME NEW r \in Reqs, NEW f \in Files, DeleteStart(r, f) PROVE Shape'
  <2>1. ctx' \in [Reqs -> Ctx]
    BY <1>1 DEF Ctx, Blank, MayStart, DeleteStart
  <2>2. TypeOK'
    BY <1>1, <2>1, FileLifecycleAssumption
       DEF Blank, PCs, TaskPCs, MayStart, DeleteStart
  <2>3. HandlersShaped'
    BY <1>1, <2>1, FileStoreAssumption, FileLifecycleAssumption
       DEF Blank, MayStart, DeleteStart
  <2>4. FilesShaped'
    BY <1>1, <2>1, FileStoreAssumption DEF Blank, MayStart, DeleteStart
  <2>. QED
    BY <2>2, <2>3, <2>4
<1>2. ASSUME NEW r \in Reqs, DeleteBytes(r) PROVE Shape'
  <2>1. TypeOK'
    BY <1>2, CtxFields, FileLifecycleAssumption
       DEF Blob, Kinds, Structured, Erase, DeleteObjects, PCs, TaskPCs,
           DeleteBytes
  <2>2. HandlersShaped'
    BY <1>2, CtxFields, FileStoreAssumption, FileLifecycleAssumption
       DEF Structured, Erase, DeleteObjects, DeleteBytes
  <2>3. FilesShaped'
    BY <1>2, CtxFields, FileStoreAssumption
       DEF Structured, Erase, DeleteObjects, DeleteBytes
  <2>. QED
    BY <2>1, <2>2, <2>3
<1>3. ASSUME NEW r \in Reqs, DeleteRow(r) PROVE Shape'
  <2>1. Exists(ctx[r].file) => [rows[ctx[r].file] EXCEPT !.deleted = TRUE] \in Row
    <3>1. SUFFICES ASSUME Exists(ctx[r].file)
                   PROVE  [rows[ctx[r].file] EXCEPT !.deleted = TRUE] \in Row
      OBVIOUS
    <3>2. ctx[r].file \in Files
      BY <1>3, CtxFields DEF DeleteRow
    <3>3. rows[ctx[r].file] \in Row
      BY <3>1, <3>2
    <3>. QED
      BY <3>3, RowEdits
  <2>2. ctx' \in [Reqs -> Ctx]
    BY <1>3, BlankIsCtx, CtxEdits DEF SoftDelete, Blank, Finish, DeleteRow
  <2>3. TypeOK'
    BY <1>3, <2>1, <2>2, CtxFields, FileLifecycleAssumption
       DEF SoftDelete, Blank, PCs, TaskPCs, Finish, DeleteRow
  <2>4. HandlersShaped'
    BY <1>3, <2>1, <2>2, CtxFields, FileStoreAssumption, FileLifecycleAssumption
       DEF SoftDelete, Blank, Finish, DeleteRow
  <2>5. FilesShaped'
    BY <1>3, <2>1, <2>2, CtxFields, FileStoreAssumption
       DEF SoftDelete, Blank, Finish, DeleteRow
  <2>. QED
    BY <2>3, <2>4, <2>5
<1>4. ASSUME NEW r \in Reqs, NEW f \in Files, NEW d \in Docs,
            PromoteStart(r, f, d)
     PROVE  Shape'
  <2>1. ctx' \in [Reqs -> Ctx]
    BY <1>4 DEF Structured, Ctx, Blank, MayStart, FreshDocs, PromoteStart
  <2>2. TypeOK'
    BY <1>4, <2>1, CtxFields, FileLifecycleAssumption
       DEF Structured, Blank, PCs, TaskPCs, MayStart, FreshDocs, PromoteStart
  <2>3. HandlersShaped'
    BY <1>4, <2>1, CtxFields, FileStoreAssumption, FileLifecycleAssumption
       DEF Structured, Blank, MayStart, FreshDocs, PromoteStart
  <2>4. FilesShaped'
    BY <1>4, <2>1, CtxFields, FileStoreAssumption
       DEF Structured, Blank, MayStart, FreshDocs, PromoteStart
  <2>. QED
    BY <2>2, <2>3, <2>4
<1>5. ASSUME NEW r \in Reqs, Publish(r) PROVE Shape'
  <2>1. TypeOK'
    BY <1>5, CtxFields, FileLifecycleAssumption
       DEF PublishDoc, PCs, TaskPCs, Publish
  <2>2. HandlersShaped'
    BY <1>5, CtxFields, FileStoreAssumption, FileLifecycleAssumption
       DEF PublishDoc, Publish
  <2>3. FilesShaped'
    BY <1>5, CtxFields, FileStoreAssumption DEF PublishDoc, Publish
  <2>. QED
    BY <2>1, <2>2, <2>3
<1>6. ASSUME NEW r \in Reqs, SavePromoted(r) PROVE Shape'
  <2>1. ctx[r].snap \in Row
    BY <1>6, CtxFields DEF SavePromoted
  <2>2. [ctx[r].snap EXCEPT !.doc = ctx[r].doc] \in Row
    BY <1>6, <2>1, RowEdits, CtxFields DEF SavePromoted
  <2>3. ctx' \in [Reqs -> Ctx]
    BY <1>6, BlankIsCtx, CtxEdits DEF Save, Blank, Finish, SavePromoted
  <2>4. TypeOK'
    BY <1>6, <2>2, <2>3, CtxFields, FileLifecycleAssumption
       DEF Save, Blank, PCs, TaskPCs, Finish, SavePromoted
  <2>5. HandlersShaped'
    BY <1>6, <2>2, <2>3, CtxFields, FileStoreAssumption, FileLifecycleAssumption
       DEF Save, Blank, Finish, SavePromoted
  <2>6. FilesShaped'
    BY <1>6, <2>2, <2>3, CtxFields, FileStoreAssumption
       DEF Save, Blank, Finish, SavePromoted
  <2>. QED
    BY <2>4, <2>5, <2>6
<1>7. ASSUME NEW r \in Reqs, NEW d \in Docs, DemoteStart(r, d) PROVE Shape'
  <2>1. PICK f \in Files : /\ Exists(f)
                           /\ ctx' = [ctx EXCEPT ![r] =
                                [Blank EXCEPT !.file = f, !.snap = rows[f], !.doc = d]]
    BY <1>7 DEF DemoteStart, ListActive
  <2>2. /\ UNCHANGED <<storeVars, loop, chunkVars, taskVars, sweepVars, aged>>
        /\ Goto(r, "unpublish")
    BY <1>7 DEF DemoteStart
  <2>3. ctx' \in [Reqs -> Ctx]
    BY <2>1 DEF Shape, TypeOK, StoreTypeOK, Ctx, Blank
  <2>4. TypeOK'
    BY <2>2, <2>3 DEF PCs, TaskPCs
  <2>5. HandlersShaped'
    BY <2>1, <2>2, FileStoreAssumption DEF Blank
  <2>6. FilesShaped'
    BY <2>2
  <2>. QED
    BY <2>4, <2>5, <2>6 DEF Shape
<1>8. ASSUME NEW r \in Reqs, Unpublish(r) PROVE Shape'
  <2>1. TypeOK'
    BY <1>8, CtxFields, FileLifecycleAssumption
       DEF RemoveFromLiveRag, PCs, TaskPCs, Unpublish
  <2>2. HandlersShaped'
    BY <1>8, CtxFields, FileStoreAssumption, FileLifecycleAssumption
       DEF RemoveFromLiveRag, Unpublish
  <2>3. FilesShaped'
    BY <1>8, CtxFields, FileStoreAssumption DEF RemoveFromLiveRag, Unpublish
  <2>. QED
    BY <2>1, <2>2, <2>3
<1>9. ASSUME NEW r \in Reqs, SaveDemoted(r) PROVE Shape'
  <2>1. ctx[r].snap \in Row
    BY <1>9, CtxFields DEF SaveDemoted
  <2>2. [ctx[r].snap EXCEPT !.doc = NoDoc] \in Row
    BY <2>1, RowEdits
  <2>3. ctx' \in [Reqs -> Ctx]
    BY <1>9, BlankIsCtx, CtxEdits DEF Save, Blank, Finish, SaveDemoted
  <2>4. TypeOK'
    BY <1>9, <2>2, <2>3, CtxFields, FileLifecycleAssumption
       DEF Save, Blank, PCs, TaskPCs, Finish, SaveDemoted
  <2>5. HandlersShaped'
    BY <1>9, <2>2, <2>3, CtxFields, FileStoreAssumption, FileLifecycleAssumption
       DEF Save, Blank, Finish, SaveDemoted
  <2>6. FilesShaped'
    BY <1>9, <2>2, <2>3, CtxFields, FileStoreAssumption
       DEF Save, Blank, Finish, SaveDemoted
  <2>. QED
    BY <2>4, <2>5, <2>6
<1>10. ASSUME NEW f \in Files, Age(f) PROVE Shape'
  <2>1. TypeOK'
    BY <1>10, FileLifecycleAssumption DEF PCs, TaskPCs, Age
  <2>2. HandlersShaped'
    BY <1>10, FileStoreAssumption, FileLifecycleAssumption DEF Age
  <2>3. FilesShaped'
    BY <1>10, FileStoreAssumption DEF Age
  <2>. QED
    BY <2>1, <2>2, <2>3
<1>11. ASSUME SweepStart PROVE Shape'
  <2>1. TypeOK'
    BY <1>11, FileLifecycleAssumption
       DEF ListActive, PCs, TaskPCs, Expired, SweepStart
  <2>2. HandlersShaped'
    BY <1>11, FileStoreAssumption, FileLifecycleAssumption
       DEF ListActive, Expired, SweepStart
  <2>3. FilesShaped'
    BY <1>11, FileStoreAssumption DEF ListActive, Expired, SweepStart
  <2>. QED
    BY <2>1, <2>2, <2>3
<1>12. ASSUME NEW f \in Files, SweepUnpublish(f) PROVE Shape'
  <2>1. TypeOK'
    BY <1>12, FileLifecycleAssumption
       DEF RemoveFromLiveRag, PCs, TaskPCs, SweepUnpublish
  <2>2. HandlersShaped'
    BY <1>12, FileStoreAssumption, FileLifecycleAssumption
       DEF RemoveFromLiveRag, SweepUnpublish
  <2>3. FilesShaped'
    BY <1>12, FileStoreAssumption DEF RemoveFromLiveRag, SweepUnpublish
  <2>. QED
    BY <2>1, <2>2, <2>3
<1>13. ASSUME NEW f \in Files, SweepArchive(f) PROVE Shape'
  <2>1. sweepRow[f] \in Row
    BY <1>13 DEF SweepArchive
  <2>2. [sweepRow[f] EXCEPT !.archived = TRUE, !.doc = NoDoc] \in Row
    BY <2>1, RowEdits
  <2>3. TypeOK'
    BY <1>13, <2>2, FileLifecycleAssumption
       DEF Save, PCs, TaskPCs, SweepArchive
  <2>4. HandlersShaped'
    BY <1>13, <2>2, FileStoreAssumption, FileLifecycleAssumption
       DEF Save, SweepArchive
  <2>5. FilesShaped'
    BY <1>13, <2>2, FileStoreAssumption DEF Save, SweepArchive
  <2>. QED
    BY <2>3, <2>4, <2>5
<1>14. ASSUME Restart PROVE Shape'
  <2>1. ctx' \in [Reqs -> Ctx]
    BY <1>14, BlankIsCtx, CtxEdits DEF Blank, Restart
  <2>2. TypeOK'
    BY <1>14, <2>1, FileLifecycleAssumption DEF Blank, PCs, TaskPCs, Restart
  <2>3. HandlersShaped'
    BY <1>14, <2>1, FileStoreAssumption, FileLifecycleAssumption
       DEF Blank, Restart
  <2>4. FilesShaped'
    BY <1>14, <2>1, FileStoreAssumption DEF Blank, Restart
  <2>. QED
    BY <2>2, <2>3, <2>4
<1>. QED
  BY <1>1, <1>2, <1>3, <1>4, <1>5, <1>6, <1>7, <1>8, <1>9, <1>10, <1>11,
     <1>12, <1>13, <1>14
     DEF OtherActions, DeleteStep, KnowledgeStep, SweepStep

LEMMA ShapeStutter == Shape /\ UNCHANGED vars => Shape'
BY DEF Shape, TypeOK, StoreTypeOK, HandlersShaped, HandlerShape, FilesShaped,
       FileShape, Exists, vars, storeVars, ctlVars

LEMMA ShapeInvariant == Spec => []Shape
<1>1. Init => Shape
  BY ShapeInit
<1>2. Shape /\ [Next]_vars => Shape'
  BY NextInGroups, ShapeUpload, ShapeWorker, ShapeOther, ShapeStutter
<1>. QED
  BY <1>1, <1>2, PTL DEF Spec

\* Every variable keeps its type: in particular no handler ever writes back a
\* row it does not hold, and on_upload always has a version to count from.
THEOREM TypeCorrect == Spec => []TypeOK
<1>1. Shape => TypeOK
  BY DEF Shape
<1>. QED
  BY <1>1, ShapeInvariant, PTL

-----------------------------------------------------------------------------
(* Copies of rows.  Every handler writes back a copy of a row that may     *)
(* have gone stale, so what holds of the rows must hold of the copies:     *)
(* those in the request slots, in the processing tasks and in the sweep.   *)
(* Backing says that no copy promises more than the store has.  A copy     *)
(* stays backed because the store only grows in the ways that matter       *)
(* (StoreGrows): a key once written is never "absent" again, a document    *)
(* keeps its source, and the sink loses vectors only at a restart.         *)
(* BytesKept, DocNamesItsSource and RowsAreBacked follow for every         *)
(* interleaving.                                                           *)

\* The store has what this copy of file f's row says it has.
Backed(f, row) ==
    /\ objects[f]["original"] # "absent"
    /\ Structured(f) /\ row.status = "ready" => objects[f]["parquet"] # "absent"
    /\ ~Structured(f) /\ row.status = "ready" /\ result(f) # "no_text" =>
         MayRestart \/ f \in vectors
    /\ row.doc # NoDoc => docSource[row.doc] = f

FileBacked(f) ==
    /\ Exists(f) => Backed(f, rows[f])
    /\ sweepRow[f] # NoRow => Backed(f, sweepRow[f])
    /\ task[f] \in {"fetched", "indexing", "derived"} => Backed(f, taskRow[f])
    /\ task[f] = "indexing" => ~Structured(f)
    /\ task[f] = "derived" =>
         \/ Structured(f) /\ objects[f]["parquet"] # "absent"
         \/ ~Structured(f) /\ (result(f) = "no_text" \/ MayRestart \/ f \in vectors)

HandlerBacked(r) ==
    /\ pc[r] = "supersede" => Backed(ctx[r].old, ctx[r].snap)
    /\ pc[r] \in KnowledgePCs => Backed(ctx[r].file, ctx[r].snap)
    /\ pc[r] \in CreatePCs => info[ctx[r].file] = NoInfo
    /\ pc[r] \in {"close_session", "save_new"} =>
         objects[ctx[r].file]["original"] # "absent"
    /\ pc[r] = "publish" => docSource[ctx[r].doc] = NoFile
    /\ pc[r] = "save_promoted" => docSource[ctx[r].doc] = ctx[r].file

\* Two requests never hold the same new file id, or the same new document id.
HandlersApart ==
    \A r, s \in Reqs : r # s =>
        /\ pc[r] \in CreatePCs /\ pc[s] \in CreatePCs => ctx[r].file # ctx[s].file
        /\ pc[r] = "publish" /\ pc[s] = "publish" => ctx[r].doc # ctx[s].doc

HandlersBacked == \A r \in Reqs : HandlerBacked(r)
FilesBacked == \A f \in Files : FileBacked(f)

Backing == HandlersBacked /\ FilesBacked /\ HandlersApart

-----------------------------------------------------------------------------
(* What no step takes back.                                                *)

StoreGrows ==
    /\ \A f \in Files : info[f] # NoInfo => info'[f] = info[f]
    /\ \A f \in Files, k \in Kinds :
         objects[f][k] # "absent" => objects'[f][k] # "absent"
    /\ MayRestart \/ vectors \subseteq vectors'
    /\ \A d \in Docs : docSource[d] # NoFile => docSource'[d] = docSource[d]

LEMMA UploadGrows ==
    ASSUME Shape, Backing, UploadActions PROVE StoreGrows
<1> USE DEF Shape, TypeOK, StoreTypeOK, StoreGrows, storeVars, docVars, Kinds
<1>1. ASSUME NEW r \in Reqs, PurgeBytes(r) PROVE StoreGrows
  BY <1>1, CtxFields DEF PurgeBytes, DeleteObjects, Erase, Blob
<1>2. ASSUME NEW r \in Reqs, PutOriginal(r) PROVE StoreGrows
  BY <1>2 DEF PutOriginal, PutObject
<1>3. ASSUME NEW r \in Reqs, SaveNew(r) PROVE StoreGrows
  BY <1>3 DEF SaveNew, Backing, HandlersBacked, HandlerBacked, CreatePCs
<1>. QED
  BY <1>1, <1>2, <1>3
     DEF UploadActions, CreateStep, PutChunks, InitUpload, UploadStart,
         CompleteStart, ReadChunks, FindDuplicate, PurgeRow, FindLatest,
         Supersede, PutFails, CloseSession

LEMMA WorkerGrows ==
    ASSUME Shape, WorkerActions PROVE StoreGrows
<1> USE DEF Shape, TypeOK, StoreTypeOK, StoreGrows, storeVars, docVars, Kinds
<1>1. ASSUME NEW f \in Files, WorkerWriteParquet(f) PROVE StoreGrows
  BY <1>1 DEF WorkerWriteParquet, PutObject
<1>2. ASSUME NEW f \in Files, WorkerUpsertChunks(f) PROVE StoreGrows
  BY <1>2 DEF WorkerUpsertChunks
<1>. QED
  BY <1>1, <1>2
     DEF WorkerActions, WorkerStep, WorkerFetch, WorkerRejectRows,
         WorkerMarkIndexing, WorkerRaises, WorkerSaveReady

LEMMA OtherGrows ==
    ASSUME Shape, Backing, OtherActions PROVE StoreGrows
<1> USE DEF Shape, TypeOK, StoreTypeOK, StoreGrows, storeVars, docVars, Kinds
<1>1. ASSUME NEW r \in Reqs, DeleteBytes(r) PROVE StoreGrows
  BY <1>1, CtxFields DEF DeleteBytes, DeleteObjects, Erase, Blob
<1>2. ASSUME NEW r \in Reqs, Publish(r) PROVE StoreGrows
  BY <1>2 DEF Publish, PublishDoc, Backing, HandlersBacked, HandlerBacked
<1>3. ASSUME Restart PROVE StoreGrows
  BY <1>3 DEF Restart
<1>. QED
  BY <1>1, <1>2, <1>3
     DEF OtherActions, DeleteStart, PromoteStart, DemoteStart, DeleteStep,
         KnowledgeStep, Age, SweepStart, SweepStep, DeleteRow, SavePromoted,
         Unpublish, SaveDemoted, SweepUnpublish, SweepArchive

\* A copy of a row is as good after a step as before it.
LEMMA StaysBacked ==
    ASSUME StoreGrows, Shape
    PROVE  \A f \in Files, row \in Row :
             info[f] # NoInfo /\ Backed(f, row) => Backed(f, row)'
<1> SUFFICES ASSUME NEW f \in Files, NEW row \in Row, info[f] # NoInfo, Backed(f, row)
             PROVE  Backed(f, row)'
  OBVIOUS
<1>1. Structured(f)' = Structured(f) /\ result(f)' = result(f)
  BY DEF StoreGrows, Structured, result
<1>2. row.doc \in Docs \cup {NoDoc}
  BY DEF Row
<1>. QED
  BY <1>1, <1>2, FileStoreAssumption DEF StoreGrows, Backed, Kinds

LEMMA BackingInit == Init => Backing
BY DEF Init, StoreInit, Backing, HandlersBacked, HandlerBacked, FilesBacked,
       FileBacked, HandlersApart, CreatePCs, KnowledgePCs, Exists

\* Uploads and chunked uploads.
LEMMA BackedUpload ==
    ASSUME Shape, Shape', Backing, UploadActions PROVE Backing'
<1> USE DEF Backing, Goto, storeVars, chunkVars, taskVars, sweepVars, docVars
<1>a. StoreGrows
  BY UploadGrows
<1>1. ASSUME NEW u \in Uploads, NEW p \in Payload,
            InitUpload(u, p)
     PROVE  Backing'
  <2>1. HandlersBacked'
    BY <1>1, <1>a, StaysBacked, FileStoreAssumption, CtxFields, SMTT(30)
       DEF StoreTypeOK, Structured, TypeOK, InitUpload, result, CreatePCs,
           DeletePCs, KnowledgePCs, HandlerShape, HandlersShaped, Shape,
           Backed, HandlerBacked, HandlersBacked
  <2>2. FilesBacked'
    BY <1>1, <1>a, StaysBacked, FileStoreAssumption, CtxFields, SMTT(30)
       DEF StoreTypeOK, Exists, Structured, TypeOK, InitUpload, result,
           FileShape, FilesShaped, Shape, Backed, FileBacked, FilesBacked
  <2>3. HandlersApart'
    BY <1>1, CtxFields DEF TypeOK, InitUpload, CreatePCs, Shape, HandlersApart
  <2>. QED
    BY <2>1, <2>2, <2>3
<1>2. ASSUME NEW u \in Uploads, PutChunks(u) PROVE Backing'
  <2>1. HandlersBacked'
    BY <1>2, <1>a, StaysBacked, FileStoreAssumption, CtxFields, SMTT(30)
       DEF StoreTypeOK, Structured, TypeOK, PutChunks, result, CreatePCs,
           DeletePCs, KnowledgePCs, HandlerShape, HandlersShaped, Shape,
           Backed, HandlerBacked, HandlersBacked
  <2>2. FilesBacked'
    BY <1>2, <1>a, StaysBacked, FileStoreAssumption, CtxFields, SMTT(30)
       DEF StoreTypeOK, Exists, Structured, TypeOK, PutChunks, result,
           FileShape, FilesShaped, Shape, Backed, FileBacked, FilesBacked
  <2>3. HandlersApart'
    BY <1>2, CtxFields DEF TypeOK, PutChunks, CreatePCs, Shape, HandlersApart
  <2>. QED
    BY <2>1, <2>2, <2>3
<1>3. ASSUME NEW r \in Reqs, NEW p \in Payload, NEW f \in Files,
            UploadStart(r, p, f)
     PROVE  Backing'
  <2>1. HandlersBacked'
    BY <1>3, <1>a, StaysBacked, FileStoreAssumption, CtxFields, SMTT(30)
       DEF StoreTypeOK, Structured, Blank, TypeOK, MayStart, FreshFiles,
           UploadStart, result, CreatePCs, DeletePCs, KnowledgePCs,
           HandlerShape, HandlersShaped, Shape, Backed, HandlerBacked,
           HandlersBacked
  <2>2. FilesBacked'
    BY <1>3, <1>a, StaysBacked, FileStoreAssumption, CtxFields, SMTT(30)
       DEF StoreTypeOK, Exists, Structured, Blank, TypeOK, MayStart,
           FreshFiles, UploadStart, result, FileShape, FilesShaped, Shape,
           Backed, FileBacked, FilesBacked
  <2>3. HandlersApart'
    BY <1>3, CtxFields
       DEF StoreTypeOK, Blank, TypeOK, MayStart, FreshFiles, UploadStart,
           CreatePCs, DeletePCs, KnowledgePCs, HandlerShape, HandlersShaped,
           Shape, HandlerBacked, HandlersApart, HandlersBacked
  <2>. QED
    BY <2>1, <2>2, <2>3
<1>4. ASSUME NEW r \in Reqs, NEW u \in Uploads, NEW f \in Files,
            CompleteStart(r, u, f)
     PROVE  Backing'
  <2>1. HandlersBacked'
    BY <1>4, <1>a, StaysBacked, FileStoreAssumption, CtxFields, SMTT(30)
       DEF StoreTypeOK, Structured, Blank, TypeOK, MayStart, FreshFiles,
           CompleteStart, result, CreatePCs, DeletePCs, KnowledgePCs,
           HandlerShape, HandlersShaped, Shape, Backed, HandlerBacked,
           HandlersBacked
  <2>2. FilesBacked'
    BY <1>4, <1>a, StaysBacked, FileStoreAssumption, CtxFields, SMTT(30)
       DEF StoreTypeOK, Exists, Structured, Blank, TypeOK, MayStart,
           FreshFiles, CompleteStart, result, FileShape, FilesShaped, Shape,
           Backed, FileBacked, FilesBacked
  <2>3. HandlersApart'
    BY <1>4, CtxFields
       DEF StoreTypeOK, Blank, TypeOK, MayStart, FreshFiles, CompleteStart,
           CreatePCs, DeletePCs, KnowledgePCs, HandlerShape, HandlersShaped,
           Shape, HandlerBacked, HandlersApart, HandlersBacked
  <2>. QED
    BY <2>1, <2>2, <2>3
<1>5. ASSUME NEW r \in Reqs, ReadChunks(r) PROVE Backing'
  <2>1. UNCHANGED <<storeVars, chunkVars, taskVars, sweepVars, aged>>
    BY <1>5 DEF ReadChunks
  <2>2. CASE Goto(r, "find_dup") /\ UNCHANGED <<ctx, loop>>
    <3>1. HandlersBacked'
      BY <1>5, <2>1, <2>2
         DEF StoreTypeOK, Structured, TypeOK, ReadChunks, result, CreatePCs,
             DeletePCs, KnowledgePCs, HandlerShape, HandlersShaped, Shape,
             Backed, HandlerBacked, HandlersBacked
    <3>2. FilesBacked'
      BY <2>1
         DEF StoreTypeOK, Exists, Structured, TypeOK, result, FileShape,
             FilesShaped, Shape, Backed, FileBacked, FilesBacked
    <3>3. HandlersApart'
      BY <1>5, <2>2 DEF ReadChunks, HandlersApart, Shape, TypeOK, CreatePCs
    <3>. QED
      BY <3>1, <3>2, <3>3
  <2>3. CASE Finish(r)
    <3>1. HandlersBacked'
      BY <2>1, <2>3
         DEF StoreTypeOK, Structured, TypeOK, Finish, result, CreatePCs,
             DeletePCs, KnowledgePCs, HandlerShape, HandlersShaped, Shape,
             Backed, HandlerBacked, HandlersBacked
    <3>2. FilesBacked'
      BY <2>1
         DEF StoreTypeOK, Exists, Structured, TypeOK, result, FileShape,
             FilesShaped, Shape, Backed, FileBacked, FilesBacked
    <3>3. HandlersApart'
      BY <2>3 DEF Finish, HandlersApart, Shape, TypeOK, CreatePCs
    <3>. QED
      BY <3>1, <3>2, <3>3
  <2>. QED
    BY <1>5, <2>2, <2>3 DEF ReadChunks
<1>6. ASSUME NEW r \in Reqs, FindDuplicate(r) PROVE Backing'
  <2>1. /\ UNCHANGED <<storeVars, loop, chunkVars, taskVars, sweepVars, aged>>
        /\ pc[r] = "find_dup"
    BY <1>6 DEF FindDuplicate
  <2>2. PICK to \in {"find_latest", "purge_bytes"} : Goto(r, to)
    BY <1>6 DEF FindDuplicate
  <2>3. \A s \in Reqs : /\ ctx'[s].file = ctx[s].file /\ ctx'[s].doc = ctx[s].doc
                        /\ s # r => ctx'[s] = ctx[s]
    BY <1>6, CtxFields DEF FindDuplicate, Ctx, Shape, TypeOK
  <2>4. HandlersBacked'
    BY <2>1, <2>2, <2>3
       DEF StoreTypeOK, Structured, TypeOK, result, CreatePCs, DeletePCs,
           KnowledgePCs, HandlerShape, HandlersShaped, Shape, Backed,
           HandlerBacked, HandlersBacked
  <2>5. FilesBacked'
    BY <2>1
       DEF StoreTypeOK, Exists, Structured, TypeOK, result, FileShape,
           FilesShaped, Shape, Backed, FileBacked, FilesBacked
  <2>6. HandlersApart'
    BY <2>1, <2>2, <2>3 DEF HandlersApart, Shape, TypeOK, CreatePCs
  <2>. QED
    BY <2>4, <2>5, <2>6
<1>7. ASSUME NEW r \in Reqs, PurgeBytes(r) PROVE Backing'
  <2>1. /\ UNCHANGED <<rows, info, vectors, docVars, ctx, taskVars, sweepVars>>
        /\ Goto(r, "purge_row")
    BY <1>7 DEF PurgeBytes
  <2>2. HandlersBacked'
    BY <1>7, <1>a, <2>1, CtxFields
       DEF Kinds, StoreTypeOK, Structured, TypeOK, PurgeBytes, result,
           CreatePCs, DeletePCs, KnowledgePCs, HandlerShape, HandlersShaped,
           Shape, Backed, HandlerBacked, HandlersBacked, StoreGrows
  <2>3. FilesBacked'
    BY <1>a, <2>1
       DEF Kinds, StoreTypeOK, Exists, Structured, TypeOK, result, FileShape,
           FilesShaped, Shape, Backed, FileBacked, FilesBacked, StoreGrows
  <2>4. HandlersApart'
    BY <1>7, <2>1 DEF PurgeBytes, HandlersApart, Shape, TypeOK, CreatePCs
  <2>. QED
    BY <2>2, <2>3, <2>4
<1>8. ASSUME NEW r \in Reqs, PurgeRow(r) PROVE Backing'
  <2>1. HandlersBacked'
    BY <1>8, <1>a, StaysBacked, FileStoreAssumption, CtxFields, SMTT(30)
       DEF StoreTypeOK, Structured, HardDelete, TypeOK, PurgeRow, result,
           CreatePCs, DeletePCs, KnowledgePCs, HandlerShape, HandlersShaped,
           Shape, Backed, HandlerBacked, HandlersBacked
  <2>2. FilesBacked'
    BY <1>8, <1>a, StaysBacked, FileStoreAssumption, CtxFields, SMTT(30)
       DEF StoreTypeOK, Exists, Structured, HardDelete, TypeOK, PurgeRow,
           result, FileShape, FilesShaped, Shape, Backed, FileBacked,
           FilesBacked
  <2>3. HandlersApart'
    BY <1>8, CtxFields
       DEF HardDelete, TypeOK, PurgeRow, CreatePCs, Shape, HandlersApart
  <2>. QED
    BY <2>1, <2>2, <2>3
<1>9. ASSUME NEW r \in Reqs, FindLatest(r) PROVE Backing'
  <2>1. /\ UNCHANGED <<storeVars, loop, chunkVars, taskVars, sweepVars, aged>>
        /\ pc[r] = "find_latest"
    BY <1>9 DEF FindLatest
  <2>2. CASE Goto(r, "put") /\ UNCHANGED ctx
    <3>1. HandlersBacked'
      BY <2>1, <2>2
         DEF StoreTypeOK, Structured, TypeOK, result, CreatePCs, DeletePCs,
             KnowledgePCs, HandlerShape, HandlersShaped, Shape, Backed,
             HandlerBacked, HandlersBacked
    <3>2. FilesBacked'
      BY <2>1
         DEF StoreTypeOK, Exists, Structured, TypeOK, result, FileShape,
             FilesShaped, Shape, Backed, FileBacked, FilesBacked
    <3>3. HandlersApart'
      BY <2>1, <2>2 DEF HandlersApart, Shape, TypeOK, CreatePCs
    <3>. QED
      BY <3>1, <3>2, <3>3
  <2>3. CASE \E f \in Files : /\ Exists(f)
                              /\ ctx' = [ctx EXCEPT ![r].old = f, ![r].snap = rows[f]]
                              /\ Goto(r, "supersede")
    <3>1. PICK f \in Files : /\ Exists(f)
                             /\ ctx' = [ctx EXCEPT ![r].old = f, ![r].snap = rows[f]]
                             /\ Goto(r, "supersede")
      BY <2>3
    <3>2. /\ ctx'[r].old = f /\ ctx'[r].snap = rows[f]
          /\ \A s \in Reqs : /\ ctx'[s].file = ctx[s].file /\ ctx'[s].doc = ctx[s].doc
                             /\ s # r => ctx'[s] = ctx[s]
      BY <3>1 DEF Ctx, Shape, TypeOK
    <3>3. HandlersBacked'
      <4>1. ASSUME NEW s \in Reqs, s # r PROVE HandlerBacked(s)'
        BY <2>1, <3>1, <3>2, <4>1
           DEF StoreTypeOK, Structured, TypeOK, result, CreatePCs, DeletePCs,
               KnowledgePCs, Shape, Backed, HandlerBacked, HandlersBacked
      <4>2. Backed(f, rows[f])
        BY <3>1 DEF FileBacked, FilesBacked, Exists
      <4>3. Backed(ctx[r].old, ctx[r].snap)'
        BY <2>1, <3>1, <3>2, <4>2 DEF Structured, result, Backed
      <4>4. HandlerBacked(r)'
        BY <2>1, <3>1, <3>2, <4>3
           DEF TypeOK, CreatePCs, DeletePCs, KnowledgePCs, Shape,
               HandlerBacked, HandlersBacked
      <4>. QED
        BY <4>1, <4>4 DEF HandlersBacked
    <3>4. FilesBacked'
      BY <2>1
         DEF StoreTypeOK, Exists, Structured, TypeOK, result, FileShape,
             FilesShaped, Shape, Backed, FileBacked, FilesBacked
    <3>5. HandlersApart'
      BY <2>1, <3>1, <3>2 DEF HandlersApart, Shape, TypeOK, CreatePCs
    <3>. QED
      BY <3>3, <3>4, <3>5
  <2>. QED
    BY <1>9, <2>2, <2>3
       DEF FindLatest, PreviousLatest, ListLatestByOwner, ListByOwner
<1>10. ASSUME NEW r \in Reqs, Supersede(r) PROVE Backing'
  <2>1. HandlersBacked'
    BY <1>10, <1>a, StaysBacked, FileStoreAssumption, CtxFields, SMTT(30)
       DEF StoreTypeOK, Structured, Save, TypeOK, Supersede, result,
           CreatePCs, DeletePCs, KnowledgePCs, HandlerShape, HandlersShaped,
           Shape, Backed, HandlerBacked, HandlersBacked
  <2>2. FilesBacked'
    BY <1>10, <1>a, StaysBacked, FileStoreAssumption, CtxFields, SMTT(30)
       DEF StoreTypeOK, Exists, Structured, Save, TypeOK, Supersede, result,
           CreatePCs, DeletePCs, KnowledgePCs, HandlerShape, HandlersShaped,
           FileShape, FilesShaped, Shape, Backed, FileBacked, HandlerBacked,
           HandlersBacked, FilesBacked
  <2>3. HandlersApart'
    BY <1>10, CtxFields
       DEF Save, TypeOK, Supersede, CreatePCs, Shape, HandlersApart
  <2>. QED
    BY <2>1, <2>2, <2>3
<1>11. ASSUME NEW r \in Reqs, PutOriginal(r) PROVE Backing'
  <2>1. HandlersBacked'
    BY <1>11, <1>a, StaysBacked, FileStoreAssumption, CtxFields, SMTT(30)
       DEF StoreTypeOK, Structured, PutObject, TypeOK, PutOriginal, result,
           CreatePCs, DeletePCs, KnowledgePCs, HandlerShape, HandlersShaped,
           Shape, Backed, HandlerBacked, HandlersBacked
  <2>2. FilesBacked'
    BY <1>11, <1>a, StaysBacked, FileStoreAssumption, CtxFields, SMTT(30)
       DEF StoreTypeOK, Exists, Structured, PutObject, TypeOK, PutOriginal,
           result, FileShape, FilesShaped, Shape, Backed, FileBacked,
           FilesBacked
  <2>3. HandlersApart'
    BY <1>11, CtxFields
       DEF PutObject, TypeOK, PutOriginal, CreatePCs, Shape, HandlersApart
  <2>. QED
    BY <2>1, <2>2, <2>3
<1>12. ASSUME NEW r \in Reqs, PutFails(r) PROVE Backing'
  <2>1. HandlersBacked'
    BY <1>12, <1>a, StaysBacked, FileStoreAssumption, CtxFields, SMTT(30)
       DEF StoreTypeOK, Structured, Blank, TypeOK, Finish, PutFails, result,
           CreatePCs, DeletePCs, KnowledgePCs, HandlerShape, HandlersShaped,
           Shape, Backed, HandlerBacked, HandlersBacked
  <2>2. FilesBacked'
    BY <1>12, <1>a, StaysBacked, FileStoreAssumption, CtxFields, SMTT(30)
       DEF StoreTypeOK, Exists, Structured, Blank, TypeOK, Finish, PutFails,
           result, FileShape, FilesShaped, Shape, Backed, FileBacked,
           FilesBacked
  <2>3. HandlersApart'
    BY <1>12, CtxFields
       DEF Blank, TypeOK, Finish, PutFails, CreatePCs, Shape, HandlersApart
  <2>. QED
    BY <2>1, <2>2, <2>3
<1>13. ASSUME NEW r \in Reqs, CloseSession(r) PROVE Backing'
  <2>1. HandlersBacked'
    BY <1>13, <1>a, StaysBacked, FileStoreAssumption, CtxFields, SMTT(30)
       DEF StoreTypeOK, Structured, TypeOK, CloseSession, result, CreatePCs,
           DeletePCs, KnowledgePCs, HandlerShape, HandlersShaped, Shape,
           Backed, HandlerBacked, HandlersBacked
  <2>2. FilesBacked'
    BY <1>13, <1>a, StaysBacked, FileStoreAssumption, CtxFields, SMTT(30)
       DEF StoreTypeOK, Exists, Structured, TypeOK, CloseSession, result,
           FileShape, FilesShaped, Shape, Backed, FileBacked, FilesBacked
  <2>3. HandlersApart'
    BY <1>13, CtxFields
       DEF TypeOK, CloseSession, CreatePCs, Shape, HandlersApart
  <2>. QED
    BY <2>1, <2>2, <2>3
<1>14. ASSUME NEW r \in Reqs, SaveNew(r) PROVE Backing'
  <2>1. PICK new \in Files : /\ new = ctx[r].file /\ info[new] = NoInfo
                             /\ objects[new]["original"] # "absent"
    BY <1>14, CtxFields
       DEF StoreTypeOK, TypeOK, SaveNew, CreatePCs, DeletePCs, KnowledgePCs,
           HandlerShape, HandlersShaped, Shape, HandlerBacked, HandlersBacked
  <2>2. /\ UNCHANGED <<objects, vectors, docVars, taskRow, sweepVars>>
        /\ pc' = [pc EXCEPT ![r] = "idle"] /\ ctx' = [ctx EXCEPT ![r] = Blank]
        /\ \A f \in Files \ {new} : info'[f] = info[f] /\ rows'[f] = rows[f]
                                    /\ task'[f] = task[f]
        /\ task'[new] = "queued" /\ rows'[new] = NewRow
    BY <1>14, <2>1 DEF SaveNew, Finish, Save, Shape, TypeOK, StoreTypeOK
  <2>3. NewRow.status = "processing" /\ NewRow.doc = NoDoc
    BY DEF NewRow
  <2>4. HandlersBacked'
    <3>1. ASSUME NEW s \in Reqs \ {r} PROVE HandlerBacked(s)'
      <4>1. /\ pc'[s] = pc[s] /\ ctx'[s] = ctx[s]
            /\ ctx[s].old # NoFile => ctx[s].old # new
            /\ info[ctx[s].file] # NoInfo => ctx[s].file # new
            /\ pc[s] \in CreatePCs => ctx[s].file # new
        BY <1>14, <2>1, <2>2
           DEF StoreTypeOK, TypeOK, SaveNew, CreatePCs, DeletePCs,
               KnowledgePCs, HandlerShape, HandlersShaped, Shape,
               HandlerBacked, HandlersApart, HandlersBacked
      <4>. QED
        BY <2>2, <4>1, CtxFields
           DEF StoreTypeOK, Structured, TypeOK, result, CreatePCs, DeletePCs,
               KnowledgePCs, HandlerShape, HandlersShaped, Shape, Backed,
               HandlerBacked, HandlersBacked
    <3>2. HandlerBacked(r)'
      BY <2>2 DEF HandlerBacked, CreatePCs, KnowledgePCs, Shape, TypeOK
    <3>. QED
      BY <3>1, <3>2 DEF HandlersBacked
  <2>5. FilesBacked'
    <3>1. ASSUME NEW f \in Files \ {new} PROVE FileBacked(f)'
      BY <2>2
         DEF StoreTypeOK, Exists, Structured, TypeOK, result, FileShape,
             FilesShaped, Shape, Backed, FileBacked, FilesBacked
    <3>2. FileBacked(new)'
      <4>1. Backed(new, rows[new])'
        BY <2>1, <2>2, <2>3
           DEF Structured, result, Backed
      <4>2. sweepRow'[new] = NoRow /\ task'[new] = "queued"
        BY <2>1, <2>2
           DEF StoreTypeOK, Exists, TypeOK, FileShape, FilesShaped, Shape,
               FileBacked, FilesBacked
      <4>. QED
        BY <4>1, <4>2 DEF FileBacked
    <3>. QED
      BY <3>1, <3>2 DEF FilesBacked
  <2>6. HandlersApart'
    BY <2>2 DEF HandlersApart, CreatePCs, Shape, TypeOK
  <2>. QED
    BY <2>4, <2>5, <2>6
<1>. QED
  BY <1>1, <1>2, <1>3, <1>4, <1>5, <1>6, <1>7, <1>8, <1>9, <1>10, <1>11,
     <1>12, <1>13, <1>14
     DEF UploadActions, CreateStep

\* The processing task.
LEMMA BackedWorker ==
    ASSUME Shape, Shape', Backing, WorkerActions PROVE Backing'
<1> USE DEF Backing, Goto, storeVars, chunkVars, taskVars, sweepVars, docVars
<1>a. StoreGrows
  BY WorkerGrows
<1>1. ASSUME NEW f \in Files, WorkerFetch(f) PROVE Backing'
  <2>1. HandlersBacked'
    BY <1>1, <1>a, StaysBacked, FileStoreAssumption, CtxFields, SMTT(30)
       DEF StoreTypeOK, Exists, Structured, TypeOK, result, WorkerFetch,
           CreatePCs, DeletePCs, KnowledgePCs, HandlerShape, HandlersShaped,
           Shape, Backed, HandlerBacked, HandlersBacked
  <2>2. FilesBacked'
    BY <1>1, <1>a, StaysBacked, FileStoreAssumption, CtxFields, SMTT(30)
       DEF StoreTypeOK, Exists, Structured, TypeOK, result, WorkerFetch,
           FileShape, FilesShaped, Shape, Backed, FileBacked, FilesBacked
  <2>3. HandlersApart'
    BY <1>1, CtxFields
       DEF Exists, TypeOK, WorkerFetch, CreatePCs, Shape, HandlersApart
  <2>. QED
    BY <2>1, <2>2, <2>3
<1>2. ASSUME NEW f \in Files, WorkerRejectRows(f) PROVE Backing'
  <2>1. HandlersBacked'
    BY <1>2, <1>a, StaysBacked, FileStoreAssumption, CtxFields, SMTT(30)
       DEF StoreTypeOK, Structured, Save, TypeOK, result, WorkerEnd,
           WorkerRejectRows, CreatePCs, DeletePCs, KnowledgePCs, HandlerShape,
           HandlersShaped, Shape, Backed, HandlerBacked, HandlersBacked
  <2>2. FilesBacked'
    BY <1>2, <1>a, StaysBacked, FileStoreAssumption, CtxFields, SMTT(30)
       DEF StoreTypeOK, Exists, Structured, Save, TypeOK, result, WorkerEnd,
           WorkerRejectRows, FileShape, FilesShaped, Shape, Backed,
           FileBacked, FilesBacked
  <2>3. HandlersApart'
    BY <1>2, CtxFields
       DEF Structured, Save, TypeOK, WorkerEnd, WorkerRejectRows, CreatePCs,
           Shape, HandlersApart
  <2>. QED
    BY <2>1, <2>2, <2>3
<1>3. ASSUME NEW f \in Files, WorkerWriteParquet(f) PROVE Backing'
  <2>1. HandlersBacked'
    BY <1>3, <1>a, StaysBacked, FileStoreAssumption, CtxFields, SMTT(30)
       DEF StoreTypeOK, Structured, PutObject, TypeOK, result,
           WorkerWriteParquet, CreatePCs, DeletePCs, KnowledgePCs,
           HandlerShape, HandlersShaped, Shape, Backed, HandlerBacked,
           HandlersBacked
  <2>2. FilesBacked'
    BY <1>3, <1>a, StaysBacked, FileStoreAssumption, CtxFields, SMTT(30)
       DEF StoreTypeOK, Exists, Structured, PutObject, TypeOK, result,
           WorkerWriteParquet, FileShape, FilesShaped, Shape, Backed,
           FileBacked, FilesBacked
  <2>3. HandlersApart'
    BY <1>3, CtxFields
       DEF Structured, PutObject, TypeOK, WorkerWriteParquet, CreatePCs,
           Shape, HandlersApart
  <2>. QED
    BY <2>1, <2>2, <2>3
<1>4. ASSUME NEW f \in Files, WorkerMarkIndexing(f) PROVE Backing'
  <2>1. HandlersBacked'
    BY <1>4, <1>a, StaysBacked, FileStoreAssumption, CtxFields, SMTT(30)
       DEF StoreTypeOK, Structured, Save, TypeOK, result, WorkerMarkIndexing,
           CreatePCs, DeletePCs, KnowledgePCs, HandlerShape, HandlersShaped,
           Shape, Backed, HandlerBacked, HandlersBacked
  <2>2. FilesBacked'
    BY <1>4, <1>a, StaysBacked, FileStoreAssumption, CtxFields, SMTT(30)
       DEF StoreTypeOK, Exists, Structured, Save, TypeOK, result,
           WorkerMarkIndexing, FileShape, FilesShaped, Shape, Backed,
           FileBacked, FilesBacked
  <2>3. HandlersApart'
    BY <1>4, CtxFields
       DEF Structured, Save, TypeOK, WorkerMarkIndexing, CreatePCs, Shape,
           HandlersApart
  <2>. QED
    BY <2>1, <2>2, <2>3
<1>5. ASSUME NEW f \in Files, WorkerUpsertChunks(f) PROVE Backing'
  <2>1. HandlersBacked'
    BY <1>5, <1>a, StaysBacked, FileStoreAssumption, CtxFields, SMTT(30)
       DEF StoreTypeOK, Structured, TypeOK, result, WorkerUpsertChunks,
           CreatePCs, DeletePCs, KnowledgePCs, HandlerShape, HandlersShaped,
           Shape, Backed, HandlerBacked, HandlersBacked
  <2>2. FilesBacked'
    BY <1>5, <1>a, StaysBacked, FileStoreAssumption, CtxFields, SMTT(30)
       DEF StoreTypeOK, Exists, Structured, TypeOK, result,
           WorkerUpsertChunks, FileShape, FilesShaped, Shape, Backed,
           FileBacked, FilesBacked
  <2>3. HandlersApart'
    BY <1>5, CtxFields
       DEF TypeOK, WorkerUpsertChunks, CreatePCs, Shape, HandlersApart
  <2>. QED
    BY <2>1, <2>2, <2>3
<1>6. ASSUME NEW f \in Files, WorkerRaises(f) PROVE Backing'
  <2>1. HandlersBacked'
    BY <1>6, <1>a, StaysBacked, FileStoreAssumption, CtxFields, SMTT(30)
       DEF StoreTypeOK, Structured, TypeOK, result, WorkerEnd, WorkerRaises,
           CreatePCs, DeletePCs, KnowledgePCs, HandlerShape, HandlersShaped,
           Shape, Backed, HandlerBacked, HandlersBacked
  <2>2. FilesBacked'
    BY <1>6, <1>a, StaysBacked, FileStoreAssumption, CtxFields, SMTT(30)
       DEF StoreTypeOK, Exists, Structured, TypeOK, result, WorkerEnd,
           WorkerRaises, FileShape, FilesShaped, Shape, Backed, FileBacked,
           FilesBacked
  <2>3. HandlersApart'
    BY <1>6, CtxFields
       DEF Structured, TypeOK, WorkerEnd, WorkerRaises, CreatePCs, Shape,
           HandlersApart
  <2>. QED
    BY <2>1, <2>2, <2>3
<1>7. ASSUME NEW f \in Files, WorkerSaveReady(f) PROVE Backing'
  <2>1. HandlersBacked'
    BY <1>7, <1>a, StaysBacked, FileStoreAssumption, CtxFields, SMTT(30)
       DEF StoreTypeOK, Structured, Save, TypeOK, result, WorkerEnd,
           WorkerSaveReady, CreatePCs, DeletePCs, KnowledgePCs, HandlerShape,
           HandlersShaped, Shape, Backed, HandlerBacked, HandlersBacked
  <2>2. FilesBacked'
    BY <1>7, <1>a, StaysBacked, FileStoreAssumption, CtxFields, SMTT(30)
       DEF StoreTypeOK, Exists, Structured, Save, TypeOK, result, WorkerEnd,
           WorkerSaveReady, FileShape, FilesShaped, Shape, Backed, FileBacked,
           FilesBacked
  <2>3. HandlersApart'
    BY <1>7, CtxFields
       DEF Save, TypeOK, WorkerEnd, WorkerSaveReady, CreatePCs, Shape,
           HandlersApart
  <2>. QED
    BY <2>1, <2>2, <2>3
<1>. QED
  BY <1>1, <1>2, <1>3, <1>4, <1>5, <1>6, <1>7
     DEF WorkerActions, WorkerStep

\* Delete, promotion, the sweep, restart.
LEMMA BackedOther ==
    ASSUME Shape, Shape', Backing, OtherActions PROVE Backing'
<1> USE DEF Backing, Goto, storeVars, chunkVars, taskVars, sweepVars, docVars
<1>a. StoreGrows
  BY OtherGrows
<1>1. ASSUME NEW r \in Reqs, NEW f \in Files, DeleteStart(r, f) PROVE Backing'
  <2>1. HandlersBacked'
    BY <1>1, <1>a, StaysBacked, FileStoreAssumption, CtxFields, SMTT(30)
       DEF StoreTypeOK, Exists, Structured, Blank, TypeOK, MayStart, result,
           DeleteStart, CreatePCs, DeletePCs, KnowledgePCs, HandlerShape,
           HandlersShaped, Shape, Backed, HandlerBacked, HandlersBacked
  <2>2. FilesBacked'
    BY <1>1, <1>a, StaysBacked, FileStoreAssumption, CtxFields, SMTT(30)
       DEF StoreTypeOK, Exists, Structured, Blank, TypeOK, MayStart, result,
           DeleteStart, FileShape, FilesShaped, Shape, Backed, FileBacked,
           FilesBacked
  <2>3. HandlersApart'
    BY <1>1, CtxFields
       DEF Exists, Blank, TypeOK, MayStart, DeleteStart, CreatePCs, Shape,
           HandlersApart
  <2>. QED
    BY <2>1, <2>2, <2>3
<1>2. ASSUME NEW r \in Reqs, DeleteBytes(r) PROVE Backing'
  <2>1. /\ UNCHANGED <<rows, info, vectors, docVars, ctx, taskVars, sweepVars>>
        /\ Goto(r, "soft_delete")
    BY <1>2 DEF DeleteBytes
  <2>2. HandlersBacked'
    BY <1>2, <1>a, <2>1, CtxFields
       DEF Kinds, StoreTypeOK, Structured, TypeOK, result, DeleteBytes,
           CreatePCs, DeletePCs, KnowledgePCs, HandlerShape, HandlersShaped,
           Shape, Backed, HandlerBacked, HandlersBacked, StoreGrows
  <2>3. FilesBacked'
    BY <1>a, <2>1
       DEF Kinds, StoreTypeOK, Exists, Structured, TypeOK, result, FileShape,
           FilesShaped, Shape, Backed, FileBacked, FilesBacked, StoreGrows
  <2>4. HandlersApart'
    BY <2>1 DEF HandlersApart, Shape, TypeOK, CreatePCs
  <2>. QED
    BY <2>2, <2>3, <2>4
<1>3. ASSUME NEW r \in Reqs, DeleteRow(r) PROVE Backing'
  <2>1. HandlersBacked'
    BY <1>3, <1>a, StaysBacked, FileStoreAssumption, CtxFields, SMTT(30)
       DEF StoreTypeOK, Exists, Structured, SoftDelete, Blank, TypeOK, Finish,
           result, DeleteRow, CreatePCs, DeletePCs, KnowledgePCs,
           HandlerShape, HandlersShaped, Shape, Backed, HandlerBacked,
           HandlersBacked
  <2>2. FilesBacked'
    BY <1>3, <1>a, StaysBacked, FileStoreAssumption, CtxFields, SMTT(30)
       DEF StoreTypeOK, Exists, Structured, SoftDelete, Blank, TypeOK, Finish,
           result, DeleteRow, CreatePCs, DeletePCs, KnowledgePCs,
           HandlerShape, HandlersShaped, FileShape, FilesShaped, Shape,
           Backed, FileBacked, HandlerBacked, HandlersBacked, FilesBacked
  <2>3. HandlersApart'
    BY <1>3, CtxFields
       DEF Exists, SoftDelete, Blank, TypeOK, Finish, DeleteRow, CreatePCs,
           Shape, HandlersApart
  <2>. QED
    BY <2>1, <2>2, <2>3
<1>4. ASSUME NEW r \in Reqs, NEW f \in Files, NEW d \in Docs,
            PromoteStart(r, f, d)
     PROVE  Backing'
  <2>1. HandlersBacked'
    BY <1>4, <1>a, StaysBacked, FileStoreAssumption, CtxFields, SMTT(30)
       DEF StoreTypeOK, Exists, Structured, Blank, TypeOK, MayStart,
           FreshDocs, result, PromoteStart, CreatePCs, DeletePCs,
           KnowledgePCs, HandlerShape, HandlersShaped, FileShape, FilesShaped,
           Shape, Backed, FileBacked, HandlerBacked, HandlersBacked,
           FilesBacked
  <2>2. FilesBacked'
    BY <1>4, <1>a, StaysBacked, FileStoreAssumption, CtxFields, SMTT(30)
       DEF StoreTypeOK, Exists, Structured, Blank, TypeOK, MayStart,
           FreshDocs, result, PromoteStart, FileShape, FilesShaped, Shape,
           Backed, FileBacked, FilesBacked
  <2>3. HandlersApart'
    BY <1>4, CtxFields
       DEF Exists, Structured, Blank, TypeOK, MayStart, FreshDocs,
           PromoteStart, CreatePCs, Shape, HandlersApart
  <2>. QED
    BY <2>1, <2>2, <2>3
<1>5. ASSUME NEW r \in Reqs, Publish(r) PROVE Backing'
  <2>1. HandlersBacked'
    BY <1>5, <1>a, StaysBacked, FileStoreAssumption, CtxFields, SMTT(30)
       DEF StoreTypeOK, Structured, PublishDoc, TypeOK, result, Publish,
           CreatePCs, DeletePCs, KnowledgePCs, HandlerShape, HandlersShaped,
           Shape, Backed, HandlerBacked, HandlersApart, HandlersBacked
  <2>2. FilesBacked'
    BY <1>5, <1>a, StaysBacked, FileStoreAssumption, CtxFields, SMTT(30)
       DEF StoreTypeOK, Exists, Structured, PublishDoc, TypeOK, result,
           Publish, FileShape, FilesShaped, Shape, Backed, FileBacked,
           FilesBacked
  <2>3. HandlersApart'
    BY <1>5, CtxFields
       DEF PublishDoc, TypeOK, Publish, CreatePCs, Shape, HandlersApart
  <2>. QED
    BY <2>1, <2>2, <2>3
<1>6. ASSUME NEW r \in Reqs, SavePromoted(r) PROVE Backing'
  <2>1. HandlersBacked'
    BY <1>6, <1>a, StaysBacked, FileStoreAssumption, CtxFields, SMTT(30)
       DEF StoreTypeOK, Structured, Save, Blank, TypeOK, Finish, result,
           SavePromoted, CreatePCs, DeletePCs, KnowledgePCs, HandlerShape,
           HandlersShaped, Shape, Backed, HandlerBacked, HandlersBacked
  <2>2. FilesBacked'
    BY <1>6, <1>a, StaysBacked, FileStoreAssumption, CtxFields, SMTT(30)
       DEF StoreTypeOK, Exists, Structured, Save, Blank, TypeOK, Finish,
           result, SavePromoted, CreatePCs, DeletePCs, KnowledgePCs,
           HandlerShape, HandlersShaped, FileShape, FilesShaped, Shape,
           Backed, FileBacked, HandlerBacked, HandlersBacked, FilesBacked
  <2>3. HandlersApart'
    BY <1>6, CtxFields
       DEF Save, Blank, TypeOK, Finish, SavePromoted, CreatePCs, Shape,
           HandlersApart
  <2>. QED
    BY <2>1, <2>2, <2>3
<1>7. ASSUME NEW r \in Reqs, NEW d \in Docs, DemoteStart(r, d) PROVE Backing'
  <2>1. HandlersBacked'
    BY <1>7, <1>a, StaysBacked, FileStoreAssumption, CtxFields, SMTT(30)
       DEF StoreTypeOK, Exists, Structured, ListActive, Blank, TypeOK,
           MayStart, result, DemoteStart, CreatePCs, DeletePCs, KnowledgePCs,
           HandlerShape, HandlersShaped, FileShape, FilesShaped, Shape,
           Backed, FileBacked, HandlerBacked, HandlersBacked, FilesBacked
  <2>2. FilesBacked'
    BY <1>7, <1>a, StaysBacked, FileStoreAssumption, CtxFields, SMTT(30)
       DEF StoreTypeOK, Exists, Structured, ListActive, Blank, TypeOK,
           MayStart, result, DemoteStart, FileShape, FilesShaped, Shape,
           Backed, FileBacked, FilesBacked
  <2>3. HandlersApart'
    BY <1>7, CtxFields
       DEF Exists, ListActive, Blank, TypeOK, MayStart, DemoteStart,
           CreatePCs, Shape, HandlersApart
  <2>. QED
    BY <2>1, <2>2, <2>3
<1>8. ASSUME NEW r \in Reqs, Unpublish(r) PROVE Backing'
  <2>1. HandlersBacked'
    BY <1>8, <1>a, StaysBacked, FileStoreAssumption, CtxFields, SMTT(30)
       DEF StoreTypeOK, Structured, RemoveFromLiveRag, TypeOK, result,
           Unpublish, CreatePCs, DeletePCs, KnowledgePCs, HandlerShape,
           HandlersShaped, Shape, Backed, HandlerBacked, HandlersBacked
  <2>2. FilesBacked'
    BY <1>8, <1>a, StaysBacked, FileStoreAssumption, CtxFields, SMTT(30)
       DEF StoreTypeOK, Exists, Structured, RemoveFromLiveRag, TypeOK, result,
           Unpublish, FileShape, FilesShaped, Shape, Backed, FileBacked,
           FilesBacked
  <2>3. HandlersApart'
    BY <1>8, CtxFields
       DEF RemoveFromLiveRag, TypeOK, Unpublish, CreatePCs, Shape,
           HandlersApart
  <2>. QED
    BY <2>1, <2>2, <2>3
<1>9. ASSUME NEW r \in Reqs, SaveDemoted(r) PROVE Backing'
  <2>1. HandlersBacked'
    BY <1>9, <1>a, StaysBacked, FileStoreAssumption, CtxFields, SMTT(30)
       DEF StoreTypeOK, Structured, Save, Blank, TypeOK, Finish, result,
           SaveDemoted, CreatePCs, DeletePCs, KnowledgePCs, HandlerShape,
           HandlersShaped, Shape, Backed, HandlerBacked, HandlersBacked
  <2>2. FilesBacked'
    BY <1>9, <1>a, StaysBacked, FileStoreAssumption, CtxFields, SMTT(30)
       DEF StoreTypeOK, Exists, Structured, Save, Blank, TypeOK, Finish,
           result, SaveDemoted, CreatePCs, DeletePCs, KnowledgePCs,
           HandlerShape, HandlersShaped, FileShape, FilesShaped, Shape,
           Backed, FileBacked, HandlerBacked, HandlersBacked, FilesBacked
  <2>3. HandlersApart'
    BY <1>9, CtxFields
       DEF Save, Blank, TypeOK, Finish, SaveDemoted, CreatePCs, Shape,
           HandlersApart
  <2>. QED
    BY <2>1, <2>2, <2>3
<1>10. ASSUME NEW f \in Files, Age(f) PROVE Backing'
  <2>1. HandlersBacked'
    <3>1. UNCHANGED <<pc, ctx, info, objects, vectors, docSource>>
      BY <1>10 DEF Age, storeVars, RemoveFromLiveRag, Save
    <3>. QED
      BY <3>1 DEF Backing, HandlersBacked, HandlerBacked, Backed, Structured, result
  <2>2. FilesBacked'
    BY <1>10, <1>a, StaysBacked, FileStoreAssumption, CtxFields, SMTT(30)
       DEF StoreTypeOK, Exists, Structured, TypeOK, result, Age, FileShape,
           FilesShaped, Shape, Backed, FileBacked, FilesBacked
  <2>3. HandlersApart'
    BY <1>10, CtxFields
       DEF Exists, TypeOK, Age, CreatePCs, Shape, HandlersApart
  <2>. QED
    BY <2>1, <2>2, <2>3
<1>11. ASSUME SweepStart PROVE Backing'
  <2>1. HandlersBacked'
    <3>1. UNCHANGED <<pc, ctx, info, objects, vectors, docSource>>
      BY <1>11 DEF SweepStart, storeVars, RemoveFromLiveRag, Save
    <3>. QED
      BY <3>1 DEF Backing, HandlersBacked, HandlerBacked, Backed, Structured, result
  <2>2. FilesBacked'
    BY <1>11, <1>a, StaysBacked, FileStoreAssumption, CtxFields, SMTT(30)
       DEF StoreTypeOK, Exists, Structured, ListActive, TypeOK, result,
           Expired, SweepStart, FileShape, FilesShaped, Shape, Backed,
           FileBacked, FilesBacked
  <2>3. HandlersApart'
    BY <1>11, CtxFields
       DEF Exists, ListActive, TypeOK, Expired, SweepStart, CreatePCs, Shape,
           HandlersApart
  <2>. QED
    BY <2>1, <2>2, <2>3
<1>12. ASSUME NEW f \in Files, SweepUnpublish(f) PROVE Backing'
  <2>1. HandlersBacked'
    <3>1. UNCHANGED <<pc, ctx, info, objects, vectors, docSource>>
      BY <1>12 DEF SweepUnpublish, storeVars, RemoveFromLiveRag, Save
    <3>. QED
      BY <3>1 DEF Backing, HandlersBacked, HandlerBacked, Backed, Structured, result
  <2>2. FilesBacked'
    BY <1>12, <1>a, StaysBacked, FileStoreAssumption, CtxFields, SMTT(30)
       DEF StoreTypeOK, Exists, Structured, RemoveFromLiveRag, TypeOK, result,
           SweepUnpublish, FileShape, FilesShaped, Shape, Backed, FileBacked,
           FilesBacked
  <2>3. HandlersApart'
    BY <1>12, CtxFields
       DEF RemoveFromLiveRag, TypeOK, SweepUnpublish, CreatePCs, Shape,
           HandlersApart
  <2>. QED
    BY <2>1, <2>2, <2>3
<1>13. ASSUME NEW f \in Files, SweepArchive(f) PROVE Backing'
  <2>1. HandlersBacked'
    <3>1. UNCHANGED <<pc, ctx, info, objects, vectors, docSource>>
      BY <1>13 DEF SweepArchive, storeVars, RemoveFromLiveRag, Save
    <3>. QED
      BY <3>1 DEF Backing, HandlersBacked, HandlerBacked, Backed, Structured, result
  <2>2. FilesBacked'
    BY <1>13, <1>a, StaysBacked, FileStoreAssumption, CtxFields, SMTT(30)
       DEF StoreTypeOK, Exists, Structured, Save, TypeOK, result,
           SweepArchive, FileShape, FilesShaped, Shape, Backed, FileBacked,
           FilesBacked
  <2>3. HandlersApart'
    BY <1>13, CtxFields
       DEF Save, TypeOK, SweepArchive, CreatePCs, Shape, HandlersApart
  <2>. QED
    BY <2>1, <2>2, <2>3
<1>14. ASSUME Restart PROVE Backing'
  <2>1. HandlersBacked'
    BY <1>14, <1>a, StaysBacked, FileStoreAssumption, CtxFields, SMTT(30)
       DEF StoreTypeOK, Structured, Blank, TypeOK, result, Restart, CreatePCs,
           DeletePCs, KnowledgePCs, HandlerShape, HandlersShaped, Shape,
           Backed, HandlerBacked, HandlersBacked
  <2>2. FilesBacked'
    BY <1>14, <1>a, StaysBacked, FileStoreAssumption, CtxFields, SMTT(30)
       DEF StoreTypeOK, Exists, Structured, Blank, TypeOK, result, Restart,
           FileShape, FilesShaped, Shape, Backed, FileBacked, FilesBacked
  <2>3. HandlersApart'
    BY <1>14, CtxFields
       DEF Blank, TypeOK, Restart, CreatePCs, Shape, HandlersApart
  <2>. QED
    BY <2>1, <2>2, <2>3
<1>. QED
  BY <1>1, <1>2, <1>3, <1>4, <1>5, <1>6, <1>7, <1>8, <1>9, <1>10, <1>11,
     <1>12, <1>13, <1>14
     DEF OtherActions, DeleteStep, KnowledgeStep, SweepStep

LEMMA BackingStutter == Shape /\ Backing /\ UNCHANGED vars => Backing'
BY DEF Backing, HandlersBacked, HandlerBacked, FilesBacked, FileBacked, HandlersApart,
       Backed, Structured, result, Exists, vars, storeVars, ctlVars

LEMMA BackingInvariant == Spec => [](Shape /\ Backing)
<1>1. Init => Shape /\ Backing
  BY ShapeInit, BackingInit
<1>2. (Shape /\ Backing) /\ [Next]_vars => (Shape /\ Backing)'
  <2>1. ASSUME Shape, Backing, [Next]_vars PROVE Shape'
    BY <2>1, NextInGroups, ShapeUpload, ShapeWorker, ShapeOther, ShapeStutter
  <2>2. ASSUME Shape, Backing, [Next]_vars PROVE Backing'
    BY <2>1, <2>2, NextInGroups, BackedUpload, BackedWorker, BackedOther,
       BackingStutter
  <2>. QED
    BY <2>1, <2>2
<1>. QED
  BY <1>1, <1>2, PTL DEF Spec

\* A row never outruns its bytes, whatever handlers, tasks, sweeps, storage
\* failures and restarts interleave.
THEOREM BytesAreKept == Spec => []BytesKept
<1>1. Shape /\ Backing => BytesKept
  BY DEF Backing, FilesBacked, FileBacked, Backed, BytesKept
<1>. QED
  BY <1>1, BackingInvariant, PTL

\* promoted_to_doc_id never names a document copied from another file.
THEOREM DocsNameTheirSource == Spec => []DocNamesItsSource
<1>1. Shape /\ Backing => DocNamesItsSource
  BY DEF Backing, FilesBacked, FileBacked, Backed, DocNamesItsSource
<1>. QED
  BY <1>1, BackingInvariant, PTL

\* As long as the process lives, a ready unstructured row has its chunks in
\* the sink as well.  The sink is in memory, so a restart is excluded.
THEOREM RowsBacked == ASSUME ~MayRestart PROVE Spec => []RowsAreBacked
<1>1. Shape /\ Backing => ReadyIsIndexed
  BY DEF Backing, FilesBacked, FileBacked, Backed, ReadyIsIndexed
<1>. QED
  BY <1>1, BackingInvariant, DocsNameTheirSource, PTL DEF RowsAreBacked

-----------------------------------------------------------------------------
(* The chain of versions.  A row, or a copy of one, says that it is not the *)
(* latest only if its successor is in the table or in the hands of a        *)
(* request that has passed its last read, and that it is archived only if   *)
(* its window has passed; a request supersedes, or purges, only what its    *)
(* own input names.                                                         *)

\* File f has a successor, or is about to get one.  A failing put and a
\* restart break the promise.
Followed(f) ==
    \/ StorageFails \/ MayRestart
    \/ \E r \in Reqs : ctx[r].old = f /\ pc[r] \in {"put", "close_session", "save_new"}
    \/ \E g \in Files : /\ info[g] # NoInfo
                        /\ info[g].group = info[f].group
                        /\ info[g].version = info[f].version + 1

\* What a row, or a copy of one, says of file f's place in the table.
Kept(f, row) ==
    /\ ~row.latest => Followed(f)
    /\ row.archived => f \in aged

HandlerChained(r) ==
    /\ pc[r] \in {"read_chunks", "find_dup", "find_latest"} => ctx[r].old = NoFile
    /\ pc[r] \in {"purge_bytes", "purge_row"} =>
         /\ info[ctx[r].old].owner = ctx[r].input.owner
         /\ info[ctx[r].old].content = ctx[r].input.content
    /\ pc[r] = "supersede" => ~ctx[r].snap.archived
    /\ pc[r] \in {"supersede", "put", "close_session", "save_new"} /\ ctx[r].old # NoFile
         => /\ info[ctx[r].old].owner = ctx[r].input.owner
            /\ info[ctx[r].old].name = ctx[r].input.name
    /\ pc[r] \in KnowledgePCs => Kept(ctx[r].file, ctx[r].snap)

FileChained(f) ==
    /\ Exists(f) => Kept(f, rows[f])
    /\ sweepRow[f] # NoRow => f \in aged /\ Kept(f, sweepRow[f])
    /\ task[f] \in {"fetched", "indexing", "derived"} => Kept(f, taskRow[f])
    /\ f \in aged => info[f] # NoInfo /\ info[f].scope # "org"

HandlersChained == \A r \in Reqs : HandlerChained(r)
FilesChained == \A f \in Files : FileChained(f)

\* created_at is older than the number of rows ever written.
Minted == {f \in Files : info[f] # NoInfo}
Dated == \A f \in Files : info[f] # NoInfo => info[f].created < Cardinality(Minted)

Chaining == HandlersChained /\ FilesChained /\ ChainHasNoGaps /\ Dated

\* The points of a handler that has read all it will read of the old version.
PutPCs == {"put", "close_session", "save_new"}

\* What keeps a predecessor followed: no request in its last steps lets go of
\* the version it succeeds.
HandsKept ==
    \A r \in Reqs : pc[r] \in PutPCs =>
        \/ StorageFails \/ MayRestart
        \/ pc'[r] \in PutPCs /\ ctx'[r].old = ctx[r].old

FollowGrows ==
    \A f \in Files : info[f] # NoInfo /\ Followed(f) => Followed(f)'

\* While nothing is minted, whoever was followed still is.
LEMMA FollowedStays ==
    ASSUME info' = info, HandsKept PROVE FollowGrows
BY DEF HandsKept, FollowGrows, Followed, PutPCs

\* While nothing is minted, the chain and the dates are what they were.
LEMMA GroupsStay ==
    ASSUME ChainHasNoGaps, Dated, info' = info PROVE ChainHasNoGaps' /\ Dated'
<1>1. Minted' = Minted
  BY DEF Minted
<1>. QED
  BY <1>1 DEF ChainHasNoGaps, Dated

\* What each write changes of the row it holds, and what it leaves.
LEMMA EditsKeep ==
    ASSUME NEW row \in Row
    PROVE  /\ LET new == [row EXCEPT !.latest = FALSE]
              IN  /\ ~new.latest /\ new.deleted = row.deleted
                  /\ new.archived = row.archived /\ new.doc = row.doc
           /\ LET new == [row EXCEPT !.deleted = TRUE]
              IN  /\ new.latest = row.latest /\ new.deleted
                  /\ new.archived = row.archived /\ new.doc = row.doc
           /\ \A s \in Statuses : LET new == [row EXCEPT !.status = s]
              IN  /\ new.latest = row.latest /\ new.deleted = row.deleted
                  /\ new.archived = row.archived /\ new.doc = row.doc
           /\ \A d \in Docs \cup {NoDoc} : LET new == [row EXCEPT !.doc = d]
              IN  /\ new.latest = row.latest /\ new.deleted = row.deleted
                  /\ new.archived = row.archived /\ new.doc = d
           /\ LET new == [row EXCEPT !.archived = TRUE, !.doc = NoDoc]
              IN  /\ new.latest = row.latest /\ new.deleted = row.deleted
                  /\ new.archived /\ new.doc = NoDoc
           /\ row.doc \in Docs \cup {NoDoc}
BY DEF Row

LEMMA ChainingInit == Init => Chaining
BY DEF Init, StoreInit, Chaining, HandlersChained, HandlerChained, FilesChained,
       FileChained, ChainHasNoGaps, Dated, Exists, KnowledgePCs

\* Uploads and chunked uploads.
LEMMA ChainedUpload ==
    ASSUME Shape, Shape', Backing, Chaining, UploadActions PROVE Chaining'
<1> USE DEF Chaining, Goto, storeVars, chunkVars, taskVars, sweepVars, docVars
<1>1. ASSUME NEW u \in Uploads, NEW p \in Payload,
            InitUpload(u, p)
     PROVE  Chaining'
  <2>1. info' = info /\ HandsKept /\ aged \subseteq aged'
    BY <1>1, FileLifecycleAssumption DEF HandsKept, InitUpload, PutPCs, Shape,
                                         TypeOK
  <2>2. FollowGrows
    BY <2>1, FollowedStays
  <2>3. HandlersChained'
    BY <1>1, <2>1, <2>2, CtxFields, FileStoreAssumption
       DEF CreatePCs, DeletePCs, FileChained, FilesChained, FollowGrows,
           HandlerChained, HandlerShape, HandlersChained, HandlersShaped,
           InitUpload, Kept, KnowledgePCs, Shape, StoreTypeOK, TypeOK
  <2>4. FilesChained'
    BY <1>1, <2>1, <2>2, CtxFields, EditsKeep, FileStoreAssumption
       DEF Exists, FileChained, FileShape, FilesChained, FilesShaped,
           FollowGrows, InitUpload, Kept, Shape, StoreTypeOK, TypeOK
  <2>. QED
    BY <2>1, <2>3, <2>4, GroupsStay
<1>2. ASSUME NEW u \in Uploads, PutChunks(u) PROVE Chaining'
  <2>1. info' = info /\ HandsKept /\ aged \subseteq aged'
    BY <1>2, FileLifecycleAssumption DEF HandsKept, PutChunks, PutPCs, Shape,
                                         TypeOK
  <2>2. FollowGrows
    BY <2>1, FollowedStays
  <2>3. HandlersChained'
    BY <1>2, <2>1, <2>2, CtxFields, FileStoreAssumption
       DEF CreatePCs, DeletePCs, FileChained, FilesChained, FollowGrows,
           HandlerChained, HandlerShape, HandlersChained, HandlersShaped, Kept,
           KnowledgePCs, PutChunks, Shape, StoreTypeOK, TypeOK
  <2>4. FilesChained'
    BY <1>2, <2>1, <2>2, CtxFields, EditsKeep, FileStoreAssumption
       DEF Exists, FileChained, FileShape, FilesChained, FilesShaped,
           FollowGrows, Kept, PutChunks, Shape, StoreTypeOK, TypeOK
  <2>. QED
    BY <2>1, <2>3, <2>4, GroupsStay
<1>3. ASSUME NEW r \in Reqs, NEW p \in Payload, NEW f \in Files,
            UploadStart(r, p, f)
     PROVE  Chaining'
  <2>1. info' = info /\ HandsKept /\ aged \subseteq aged'
    BY <1>3, FileLifecycleAssumption DEF Blank, FreshFiles, HandsKept,
                                         MayStart, PutPCs, Shape, TypeOK,
                                         UploadStart
  <2>2. FollowGrows
    BY <2>1, FollowedStays
  <2>3. HandlersChained'
    BY <1>3, <2>1, <2>2, CtxFields, FileStoreAssumption
       DEF Blank, CreatePCs, DeletePCs, FileChained, FilesChained, FollowGrows,
           FreshFiles, HandlerChained, HandlerShape, HandlersChained,
           HandlersShaped, Kept, KnowledgePCs, MayStart, Shape, StoreTypeOK,
           TypeOK, UploadStart
  <2>4. FilesChained'
    BY <1>3, <2>1, <2>2, CtxFields, EditsKeep, FileStoreAssumption
       DEF Blank, Exists, FileChained, FileShape, FilesChained, FilesShaped,
           FollowGrows, FreshFiles, Kept, MayStart, Shape, StoreTypeOK, TypeOK,
           UploadStart
  <2>. QED
    BY <2>1, <2>3, <2>4, GroupsStay
<1>4. ASSUME NEW r \in Reqs, NEW u \in Uploads, NEW f \in Files,
            CompleteStart(r, u, f)
     PROVE  Chaining'
  <2>1. info' = info /\ HandsKept /\ aged \subseteq aged'
    BY <1>4, FileLifecycleAssumption DEF Blank, CompleteStart, FreshFiles,
                                         HandsKept, MayStart, PutPCs, Shape,
                                         TypeOK
  <2>2. FollowGrows
    BY <2>1, FollowedStays
  <2>3. HandlersChained'
    BY <1>4, <2>1, <2>2, CtxFields, FileStoreAssumption
       DEF Blank, CompleteStart, CreatePCs, DeletePCs, FileChained,
           FilesChained, FollowGrows, FreshFiles, HandlerChained, HandlerShape,
           HandlersChained, HandlersShaped, Kept, KnowledgePCs, MayStart,
           Shape, StoreTypeOK, TypeOK
  <2>4. FilesChained'
    BY <1>4, <2>1, <2>2, CtxFields, EditsKeep, FileStoreAssumption
       DEF Blank, CompleteStart, Exists, FileChained, FileShape, FilesChained,
           FilesShaped, FollowGrows, FreshFiles, Kept, MayStart, Shape,
           StoreTypeOK, TypeOK
  <2>. QED
    BY <2>1, <2>3, <2>4, GroupsStay
<1>5. ASSUME NEW r \in Reqs, ReadChunks(r) PROVE Chaining'
  <2>1. info' = info /\ HandsKept /\ aged \subseteq aged'
    BY <1>5, FileLifecycleAssumption DEF Blank, Finish, HandsKept, PutPCs,
                                         ReadChunks, Shape, TypeOK
  <2>2. FollowGrows
    BY <2>1, FollowedStays
  <2>3. HandlersChained'
    BY <1>5, <2>1, <2>2, CtxFields, FileStoreAssumption
       DEF Blank, CreatePCs, DeletePCs, FileChained, FilesChained, Finish,
           FollowGrows, HandlerChained, HandlerShape, HandlersChained,
           HandlersShaped, Kept, KnowledgePCs, ReadChunks, Shape, StoreTypeOK,
           TypeOK
  <2>4. FilesChained'
    BY <1>5, <2>1, <2>2, CtxFields, EditsKeep, FileStoreAssumption
       DEF Blank, Exists, FileChained, FileShape, FilesChained, FilesShaped,
           Finish, FollowGrows, Kept, ReadChunks, Shape, StoreTypeOK, TypeOK
  <2>. QED
    BY <2>1, <2>3, <2>4, GroupsStay
<1>6. ASSUME NEW r \in Reqs, FindDuplicate(r) PROVE Chaining'
  <2>1. /\ UNCHANGED <<storeVars, loop, chunkVars, taskVars, sweepVars, aged>>
        /\ pc[r] = "find_dup"
    BY <1>6 DEF FindDuplicate
  <2>2. PICK to \in {"find_latest", "purge_bytes"} :
          /\ Goto(r, to)
          /\ to = "find_latest" => UNCHANGED ctx
          /\ to = "purge_bytes" =>
               /\ info[ctx'[r].old].owner = ctx[r].input.owner
               /\ info[ctx'[r].old].content = ctx[r].input.content
               /\ ctx'[r].input = ctx[r].input
    <3>1. CASE Goto(r, "find_latest") /\ UNCHANGED ctx
      BY <3>1
    <3>2. ASSUME NEW f \in Files,
                 info[f].owner = ctx[r].input.owner,
                 info[f].content = ctx[r].input.content,
                 ctx' = [ctx EXCEPT ![r].old = f], Goto(r, "purge_bytes")
          PROVE  /\ info[ctx'[r].old].owner = ctx[r].input.owner
                 /\ info[ctx'[r].old].content = ctx[r].input.content
                 /\ ctx'[r].input = ctx[r].input
      BY <3>2 DEF Ctx, Shape, TypeOK
    <3>. QED
      BY <1>6, <3>1, <3>2 DEF FindDuplicate, ArchivedWithHash
  <2>3. \A s \in Reqs : s # r => ctx'[s] = ctx[s]
    BY <1>6 DEF FindDuplicate, Shape, TypeOK
  <2>4. HandsKept
    BY <2>1, <2>2, <2>3 DEF HandsKept, PutPCs, Shape, TypeOK
  <2>5. FollowGrows
    BY <2>1, <2>4, FollowedStays
  <2>6. HandlersChained'
    BY <2>1, <2>2, <2>3, <2>5, CtxFields
       DEF Shape, TypeOK, HandlersShaped, HandlerShape, HandlersChained,
           HandlerChained, Kept, FollowGrows, CreatePCs, KnowledgePCs
  <2>7. FilesChained'
    BY <2>1, <2>5 
       DEF FilesChained, FileChained, Kept, FollowGrows, Exists, Shape, TypeOK,
           StoreTypeOK, FilesShaped, FileShape
  <2>. QED
    BY <2>1, <2>6, <2>7, GroupsStay
<1>7. ASSUME NEW r \in Reqs, PurgeBytes(r) PROVE Chaining'
  <2>1. info' = info /\ HandsKept /\ aged \subseteq aged'
    BY <1>7, FileLifecycleAssumption DEF DeleteObjects, HandsKept, PurgeBytes,
                                         PutPCs, Shape, TypeOK
  <2>2. FollowGrows
    BY <2>1, FollowedStays
  <2>3. HandlersChained'
    BY <1>7, <2>1, <2>2, CtxFields, FileStoreAssumption
       DEF CreatePCs, DeleteObjects, DeletePCs, FileChained, FilesChained,
           FollowGrows, HandlerChained, HandlerShape, HandlersChained,
           HandlersShaped, Kept, KnowledgePCs, PurgeBytes, Shape, StoreTypeOK,
           TypeOK
  <2>4. FilesChained'
    BY <1>7, <2>1, <2>2, CtxFields, EditsKeep, FileStoreAssumption
       DEF DeleteObjects, Exists, FileChained, FileShape, FilesChained,
           FilesShaped, FollowGrows, Kept, PurgeBytes, Shape, StoreTypeOK,
           TypeOK
  <2>. QED
    BY <2>1, <2>3, <2>4, GroupsStay
<1>8. ASSUME NEW r \in Reqs, PurgeRow(r) PROVE Chaining'
  <2>1. info' = info /\ HandsKept /\ aged \subseteq aged'
    BY <1>8, FileLifecycleAssumption DEF Exists, HandsKept, HardDelete,
                                         PurgeRow, PutPCs, Shape, TypeOK
  <2>2. FollowGrows
    BY <2>1, FollowedStays
  <2>3. HandlersChained'
    BY <1>8, <2>1, <2>2, CtxFields, FileStoreAssumption
       DEF CreatePCs, DeletePCs, Exists, FileChained, FilesChained,
           FollowGrows, HandlerChained, HandlerShape, HandlersChained,
           HandlersShaped, HardDelete, Kept, KnowledgePCs, PurgeRow, Shape,
           StoreTypeOK, TypeOK
  <2>4. FilesChained'
    BY <1>8, <2>1, <2>2, CtxFields, EditsKeep, FileStoreAssumption
       DEF Exists, FileChained, FileShape, FilesChained, FilesShaped,
           FollowGrows, HardDelete, Kept, PurgeRow, Shape, StoreTypeOK, TypeOK
  <2>. QED
    BY <2>1, <2>3, <2>4, GroupsStay
<1>9. ASSUME NEW r \in Reqs, FindLatest(r) PROVE Chaining'
  <2>1. /\ UNCHANGED <<storeVars, loop, chunkVars, taskVars, sweepVars, aged>>
        /\ pc[r] = "find_latest"
    BY <1>9 DEF FindLatest
  <2>2. PICK to \in {"put", "supersede"} :
          /\ Goto(r, to)
          /\ to = "put" => UNCHANGED ctx
          /\ to = "supersede" =>
               /\ info[ctx'[r].old].owner = ctx[r].input.owner
               /\ info[ctx'[r].old].name = ctx[r].input.name
               /\ ctx'[r].input = ctx[r].input
               /\ ~ctx'[r].snap.archived
    <3>1. CASE Goto(r, "put") /\ UNCHANGED ctx
      BY <3>1
    <3>2. ASSUME NEW f \in Files,
                 info[f].owner = ctx[r].input.owner, info[f].name = ctx[r].input.name,
                 ~rows[f].archived,
                 ctx' = [ctx EXCEPT ![r].old = f, ![r].snap = rows[f]],
                 Goto(r, "supersede")
          PROVE  /\ info[ctx'[r].old].owner = ctx[r].input.owner
                 /\ info[ctx'[r].old].name = ctx[r].input.name
                 /\ ctx'[r].input = ctx[r].input
                 /\ ~ctx'[r].snap.archived
      BY <3>2 DEF Ctx, Shape, TypeOK
    <3>. QED
      BY <1>9, <3>1, <3>2
         DEF FindLatest, PreviousLatest, ListLatestByOwner, ListByOwner
  <2>3. \A s \in Reqs : s # r => ctx'[s] = ctx[s]
    BY <1>9 DEF FindLatest, Shape, TypeOK
  <2>4. HandsKept
    BY <2>1, <2>2, <2>3 DEF HandsKept, PutPCs, Shape, TypeOK
  <2>5. FollowGrows
    BY <2>1, <2>4, FollowedStays
  <2>6. HandlersChained'
    BY <2>1, <2>2, <2>3, <2>5, CtxFields
       DEF Shape, TypeOK, HandlersShaped, HandlerShape, HandlersChained,
           HandlerChained, Kept, FollowGrows, CreatePCs, KnowledgePCs
  <2>7. FilesChained'
    BY <2>1, <2>5 
       DEF FilesChained, FileChained, Kept, FollowGrows, Exists, Shape, TypeOK,
           StoreTypeOK, FilesShaped, FileShape
  <2>. QED
    BY <2>1, <2>6, <2>7, GroupsStay
<1>10. ASSUME NEW r \in Reqs, Supersede(r) PROVE Chaining'
  <2>1. PICK old \in Files : /\ old = ctx[r].old /\ info[old] # NoInfo
                             /\ ctx[r].snap \in Row
    BY <1>10, CtxFields
       DEF Supersede, Shape, TypeOK, HandlersShaped, HandlerShape
  <2>2. /\ info' = info /\ ctx' = ctx /\ Goto(r, "put") /\ pc[r] = "supersede"
        /\ UNCHANGED <<taskVars, sweepVars, aged>>
        /\ \A f \in Files \ {old} : rows'[f] = rows[f]
        /\ rows'[old] = [ctx[r].snap EXCEPT !.latest = FALSE]
        /\ ~rows'[old].archived
    BY <1>10, <2>1, EditsKeep
       DEF Supersede, Save, Shape, TypeOK, StoreTypeOK, HandlersChained, HandlerChained
  <2>3. HandsKept
    BY <2>2 DEF HandsKept, PutPCs, Shape, TypeOK
  <2>4. FollowGrows
    BY <2>2, <2>3, FollowedStays
  <2>5. HandlersChained'
    BY <2>2, <2>4, CtxFields
       DEF Shape, TypeOK, HandlersShaped, HandlerShape, HandlersChained,
           HandlerChained, Kept, FollowGrows, DeletePCs, KnowledgePCs
  <2>6. Followed(old)'
    BY <2>1, <2>2 DEF Followed, Shape, TypeOK
  <2>7. FilesChained'
    BY <2>1, <2>2, <2>4, <2>6
       DEF FilesChained, FileChained, Kept, FollowGrows, Exists, Shape, TypeOK,
           StoreTypeOK, FilesShaped, FileShape
  <2>. QED
    BY <2>2, <2>5, <2>7, GroupsStay
<1>11. ASSUME NEW r \in Reqs, PutOriginal(r) PROVE Chaining'
  <2>1. info' = info /\ HandsKept /\ aged \subseteq aged'
    BY <1>11, FileLifecycleAssumption DEF HandsKept, PutOriginal, PutPCs,
                                          Shape, TypeOK
  <2>2. FollowGrows
    BY <2>1, FollowedStays
  <2>3. HandlersChained'
    BY <1>11, <2>1, <2>2, CtxFields, FileStoreAssumption
       DEF CreatePCs, DeletePCs, FileChained, FilesChained, FollowGrows,
           HandlerChained, HandlerShape, HandlersChained, HandlersShaped, Kept,
           KnowledgePCs, PutOriginal, Shape, StoreTypeOK, TypeOK
  <2>4. FilesChained'
    BY <1>11, <2>1, <2>2, CtxFields, EditsKeep, FileStoreAssumption
       DEF Exists, FileChained, FileShape, FilesChained, FilesShaped,
           FollowGrows, Kept, PutOriginal, Shape, StoreTypeOK, TypeOK
  <2>. QED
    BY <2>1, <2>3, <2>4, GroupsStay
<1>12. ASSUME NEW r \in Reqs, PutFails(r) PROVE Chaining'
  <2>1. info' = info /\ HandsKept /\ aged \subseteq aged'
    BY <1>12, FileLifecycleAssumption DEF Blank, Finish, HandsKept, PutFails,
                                          PutPCs, Shape, TypeOK
  <2>2. FollowGrows
    BY <2>1, FollowedStays
  <2>3. HandlersChained'
    BY <1>12, <2>1, <2>2, CtxFields, FileStoreAssumption
       DEF Blank, CreatePCs, DeletePCs, FileChained, FilesChained, Finish,
           FollowGrows, HandlerChained, HandlerShape, HandlersChained,
           HandlersShaped, Kept, KnowledgePCs, PutFails, Shape, StoreTypeOK,
           TypeOK
  <2>4. FilesChained'
    BY <1>12, <2>1, <2>2, CtxFields, EditsKeep, FileStoreAssumption
       DEF Blank, Exists, FileChained, FileShape, FilesChained, FilesShaped,
           Finish, FollowGrows, Kept, PutFails, Shape, StoreTypeOK, TypeOK
  <2>. QED
    BY <2>1, <2>3, <2>4, GroupsStay
<1>13. ASSUME NEW r \in Reqs, CloseSession(r) PROVE Chaining'
  <2>1. info' = info /\ HandsKept /\ aged \subseteq aged'
    BY <1>13, FileLifecycleAssumption DEF CloseSession, HandsKept, PutPCs,
                                          Shape, TypeOK
  <2>2. FollowGrows
    BY <2>1, FollowedStays
  <2>3. HandlersChained'
    BY <1>13, <2>1, <2>2, CtxFields, FileStoreAssumption
       DEF CloseSession, CreatePCs, DeletePCs, FileChained, FilesChained,
           FollowGrows, HandlerChained, HandlerShape, HandlersChained,
           HandlersShaped, Kept, KnowledgePCs, Shape, StoreTypeOK, TypeOK
  <2>4. FilesChained'
    BY <1>13, <2>1, <2>2, CtxFields, EditsKeep, FileStoreAssumption
       DEF CloseSession, Exists, FileChained, FileShape, FilesChained,
           FilesShaped, FollowGrows, Kept, Shape, StoreTypeOK, TypeOK
  <2>. QED
    BY <2>1, <2>3, <2>4, GroupsStay
<1>14. ASSUME NEW r \in Reqs, SaveNew(r) PROVE Chaining'
  <2>1. PICK new \in Files : new = ctx[r].file /\ info[new] = NoInfo
    BY <1>14, CtxFields
       DEF SaveNew, CreatePCs, Shape, TypeOK, HandlersShaped, HandlerShape,
           Backing, HandlersBacked, HandlerBacked
  <2>2. PICK it \in Info : it = NewInfo(r)
    BY <1>14, NewInfoIsInfo DEF SaveNew, CreatePCs
  <2>3. /\ UNCHANGED <<taskRow, sweepVars, aged>>
        /\ pc[r] = "save_new"
        /\ pc' = [pc EXCEPT ![r] = "idle"] /\ ctx' = [ctx EXCEPT ![r] = Blank]
        /\ \A f \in Files \ {new} : info'[f] = info[f] /\ rows'[f] = rows[f]
                                    /\ task'[f] = task[f]
        /\ info'[new] = it
        /\ task'[new] = "queued" /\ rows'[new] = NewRow
    BY <1>14, <2>1, <2>2 DEF SaveNew, Finish, Save, Shape, TypeOK, StoreTypeOK
  <2>4. it # NoInfo /\ NewRow.latest /\ ~NewRow.archived
    BY <2>2, FileStoreAssumption DEF NewRow
  <2>5. ASSUME ctx[r].old # NoFile
        PROVE  /\ ctx[r].old \in Files \ {new} /\ info[ctx[r].old] \in Info
               /\ info[ctx[r].old] # NoInfo
               /\ it.owner = info[ctx[r].old].owner /\ it.name = info[ctx[r].old].name
               /\ it.group = info[ctx[r].old].group
               /\ it.version = info[ctx[r].old].version + 1
    <3>1. /\ ctx[r].old \in Files \ {new} /\ info[ctx[r].old] \in Info
          /\ info[ctx[r].old] # NoInfo
      BY <2>1, <2>5, CtxFields
         DEF Shape, TypeOK, StoreTypeOK, HandlersShaped, HandlerShape
    <3>2. /\ info[ctx[r].old].owner = ctx[r].input.owner
          /\ info[ctx[r].old].name = ctx[r].input.name
      BY <2>3, <2>5 DEF HandlersChained, HandlerChained
    <3>. QED
      BY <2>2, <2>5, <3>1, <3>2 DEF NewInfo
  <2>6. FollowGrows
    <3>1. SUFFICES ASSUME NEW f \in Files, info[f] # NoInfo, Followed(f),
                          ~StorageFails, ~MayRestart
                   PROVE  Followed(f)'
      BY DEF FollowGrows, Followed
    <3>2. f # new /\ info'[f] = info[f]
      BY <2>1, <2>3, <3>1
    <3>3. CASE ctx[r].old = f
      <4>1. /\ info'[new].group = info'[f].group
            /\ info'[new].version = info'[f].version + 1
        BY <2>3, <2>5, <3>2, <3>3, FileStoreAssumption
      <4>. QED
        BY <2>3, <2>4, <4>1 DEF Followed
    <3>4. CASE \E s \in Reqs : ctx[s].old = f /\ pc[s] \in PutPCs /\ s # r
      BY <2>3, <3>4 DEF Followed, PutPCs, Shape, TypeOK
    <3>5. CASE \E g \in Files : /\ info[g] # NoInfo
                               /\ info[g].group = info[f].group
                               /\ info[g].version = info[f].version + 1
      BY <2>1, <2>3, <3>2, <3>5 DEF Followed
    <3>. QED
      BY <3>1, <3>3, <3>4, <3>5 DEF Followed, PutPCs
  <2>7. HandlersChained'
    <3>1. ASSUME NEW s \in Reqs \ {r} PROVE HandlerChained(s)'
      <4>1. /\ pc'[s] = pc[s] /\ ctx'[s] = ctx[s]
            /\ ctx[s].old # NoFile =>
                 ctx[s].old \in Files \ {new} /\ info'[ctx[s].old] = info[ctx[s].old]
            /\ pc[s] \in {"purge_bytes", "purge_row"} => ctx[s].old # NoFile
            /\ pc[s] \in KnowledgePCs =>
                 ctx[s].file \in Files /\ info[ctx[s].file] # NoInfo
        BY <2>1, <2>3, CtxFields
           DEF Shape, TypeOK, HandlersShaped, HandlerShape
      <4>2. pc[s] \in KnowledgePCs => Kept(ctx[s].file, ctx[s].snap)'
        BY <2>3, <2>6, <4>1 DEF HandlersChained, HandlerChained, Kept, FollowGrows
      <4>. QED
        BY <4>1, <4>2 DEF HandlersChained, HandlerChained, KnowledgePCs
    <3>2. HandlerChained(r)'
      BY <2>3 DEF HandlerChained, KnowledgePCs, Shape, TypeOK
    <3>. QED
      BY <3>1, <3>2 DEF HandlersChained
  <2>8. FilesChained'
    <3>1. ASSUME NEW f \in Files \ {new} PROVE FileChained(f)'
      BY <2>3, <2>6
         DEF FilesChained, FileChained, Kept, FollowGrows, Exists, Shape, FilesShaped,
             FileShape
    <3>2. FileChained(new)'
      BY <2>1, <2>3, <2>4
         DEF FilesChained, FileChained, Kept, Exists, Shape, FilesShaped, FileShape
    <3>. QED
      BY <3>1, <3>2 DEF FilesChained
  <2>9. ChainHasNoGaps'
    <3>1. ASSUME NEW f \in Files \ {new}, info[f] # NoInfo, info[f].version > 1
          PROVE  \E g \in Files :
                   /\ info'[g] # NoInfo
                   /\ info'[g].group = info[f].group
                   /\ info'[g].version = info[f].version - 1
                   /\ info'[g].owner = info[f].owner
                   /\ info'[g].name = info[f].name
                   /\ info'[g].created < info[f].created
      BY <2>1, <2>3, <3>1 DEF ChainHasNoGaps
    <3>2. it.created = Cardinality(Minted)
      BY <2>2 DEF NewInfo, Minted
    <3>3. ASSUME it.version > 1
          PROVE  \E g \in Files :
                   /\ info'[g] # NoInfo
                   /\ info'[g].group = it.group
                   /\ info'[g].version = it.version - 1
                   /\ info'[g].owner = it.owner
                   /\ info'[g].name = it.name
                   /\ info'[g].created < it.created
      <4>1. ctx[r].old # NoFile
        BY <2>2, <3>3 DEF NewInfo
      <4>2. /\ info'[ctx[r].old] = info[ctx[r].old]
            /\ info[ctx[r].old].version \in Nat
            /\ info[ctx[r].old].created < it.created
        BY <2>3, <2>5, <3>2, <4>1 DEF Info, Dated
      <4>. QED
        BY <2>5, <4>1, <4>2
    <3>. QED
      BY <2>3, <3>1, <3>3 DEF ChainHasNoGaps
  <2>10. Dated'
    <3>1. Minted' = Minted \cup {new} /\ new \notin Minted
      BY <2>1, <2>3, <2>4 DEF Minted
    <3>2. /\ Cardinality(Minted) \in Nat
          /\ Cardinality(Minted') = Cardinality(Minted) + 1
      BY <3>1, FileStoreAssumption, FS_Subset, FS_CardinalityType, FS_AddElement
         DEF Minted
    <3>3. it.created = Cardinality(Minted)
      BY <2>2 DEF NewInfo, Minted
    <3>4. ASSUME NEW f \in Files \ {new}, info[f] # NoInfo
          PROVE  info[f].created < Cardinality(Minted')
      BY <3>2, <3>4 DEF Dated, Shape, TypeOK, StoreTypeOK, Info
    <3>. QED
      BY <2>3, <3>2, <3>3, <3>4 DEF Dated
  <2>. QED
    BY <2>7, <2>8, <2>9, <2>10
<1>. QED
  BY <1>1, <1>2, <1>3, <1>4, <1>5, <1>6, <1>7, <1>8, <1>9, <1>10, <1>11, <1>12,
     <1>13, <1>14
     DEF UploadActions, CreateStep

\* The processing task.
LEMMA ChainedWorker ==
    ASSUME Shape, Shape', Backing, Chaining, WorkerActions PROVE Chaining'
<1> USE DEF Chaining, Goto, storeVars, chunkVars, taskVars, sweepVars, docVars
<1>1. ASSUME NEW f \in Files, WorkerFetch(f) PROVE Chaining'
  <2>1. info' = info /\ HandsKept /\ aged \subseteq aged'
    BY <1>1, FileLifecycleAssumption DEF Exists, HandsKept, PutPCs, Shape,
                                         TypeOK, WorkerFetch
  <2>2. FollowGrows
    BY <2>1, FollowedStays
  <2>3. HandlersChained'
    BY <1>1, <2>1, <2>2, CtxFields, FileStoreAssumption
       DEF CreatePCs, DeletePCs, Exists, FileChained, FilesChained,
           FollowGrows, HandlerChained, HandlerShape, HandlersChained,
           HandlersShaped, Kept, KnowledgePCs, Shape, StoreTypeOK, TypeOK,
           WorkerFetch
  <2>4. FilesChained'
    BY <1>1, <2>1, <2>2, FileStoreAssumption
       DEF Exists, FileChained, FileShape, FilesChained, FilesShaped,
           FollowGrows, Kept, Shape, StoreTypeOK, TypeOK, WorkerFetch
  <2>. QED
    BY <2>1, <2>3, <2>4, GroupsStay
<1>2. ASSUME NEW f \in Files, WorkerRejectRows(f) PROVE Chaining'
  <2>1. info' = info /\ HandsKept /\ aged \subseteq aged'
    BY <1>2, FileLifecycleAssumption DEF Exists, HandsKept, PutPCs, Save,
                                         Shape, Statuses, TypeOK, WorkerEnd,
                                         WorkerRejectRows
  <2>2. FollowGrows
    BY <2>1, FollowedStays
  <2>3. HandlersChained'
    BY <1>2, <2>1, <2>2, CtxFields, FileStoreAssumption
       DEF CreatePCs, DeletePCs, Exists, FileChained, FilesChained,
           FollowGrows, HandlerChained, HandlerShape, HandlersChained,
           HandlersShaped, Kept, KnowledgePCs, Save, Shape, Statuses,
           StoreTypeOK, TypeOK, WorkerEnd, WorkerRejectRows
  <2>4. FilesChained'
    BY <1>2, <2>1, <2>2, CtxFields, EditsKeep, FileStoreAssumption
       DEF CreatePCs, DeletePCs, Exists, FileChained, FileShape, FilesChained,
           FilesShaped, FollowGrows, HandlerChained, HandlerShape,
           HandlersChained, HandlersShaped, Kept, KnowledgePCs, Save, Shape,
           Statuses, StoreTypeOK, TypeOK, WorkerEnd, WorkerRejectRows
  <2>. QED
    BY <2>1, <2>3, <2>4, GroupsStay
<1>3. ASSUME NEW f \in Files, WorkerWriteParquet(f) PROVE Chaining'
  <2>1. info' = info /\ HandsKept /\ aged \subseteq aged'
    BY <1>3, FileLifecycleAssumption DEF HandsKept, PutPCs, Shape, TypeOK,
                                         WorkerWriteParquet
  <2>2. FollowGrows
    BY <2>1, FollowedStays
  <2>3. HandlersChained'
    BY <1>3, <2>1, <2>2, CtxFields, FileStoreAssumption
       DEF CreatePCs, DeletePCs, FileChained, FilesChained, FollowGrows,
           HandlerChained, HandlerShape, HandlersChained, HandlersShaped, Kept,
           KnowledgePCs, Shape, StoreTypeOK, TypeOK, WorkerWriteParquet
  <2>4. FilesChained'
    BY <1>3, <2>1, <2>2, CtxFields, EditsKeep, FileStoreAssumption
       DEF Exists, FileChained, FileShape, FilesChained, FilesShaped,
           FollowGrows, Kept, Shape, StoreTypeOK, TypeOK, WorkerWriteParquet
  <2>. QED
    BY <2>1, <2>3, <2>4, GroupsStay
<1>4. ASSUME NEW f \in Files, WorkerMarkIndexing(f) PROVE Chaining'
  <2>1. info' = info /\ HandsKept /\ aged \subseteq aged'
    BY <1>4, FileLifecycleAssumption DEF Exists, HandsKept, PutPCs, Save,
                                         Shape, Statuses, TypeOK,
                                         WorkerMarkIndexing
  <2>2. FollowGrows
    BY <2>1, FollowedStays
  <2>3. HandlersChained'
    BY <1>4, <2>1, <2>2, CtxFields, FileStoreAssumption
       DEF CreatePCs, DeletePCs, Exists, FileChained, FilesChained,
           FollowGrows, HandlerChained, HandlerShape, HandlersChained,
           HandlersShaped, Kept, KnowledgePCs, Save, Shape, Statuses,
           StoreTypeOK, TypeOK, WorkerMarkIndexing
  <2>4. FilesChained'
    BY <1>4, <2>1, <2>2, CtxFields, EditsKeep, FileStoreAssumption
       DEF CreatePCs, DeletePCs, Exists, FileChained, FileShape, FilesChained,
           FilesShaped, FollowGrows, HandlerChained, HandlerShape,
           HandlersChained, HandlersShaped, Kept, KnowledgePCs, Save, Shape,
           Statuses, StoreTypeOK, TypeOK, WorkerMarkIndexing
  <2>. QED
    BY <2>1, <2>3, <2>4, GroupsStay
<1>5. ASSUME NEW f \in Files, WorkerUpsertChunks(f) PROVE Chaining'
  <2>1. info' = info /\ HandsKept /\ aged \subseteq aged'
    BY <1>5, FileLifecycleAssumption DEF HandsKept, PutPCs, Shape, TypeOK,
                                         WorkerUpsertChunks
  <2>2. FollowGrows
    BY <2>1, FollowedStays
  <2>3. HandlersChained'
    BY <1>5, <2>1, <2>2, CtxFields, FileStoreAssumption
       DEF CreatePCs, DeletePCs, FileChained, FilesChained, FollowGrows,
           HandlerChained, HandlerShape, HandlersChained, HandlersShaped, Kept,
           KnowledgePCs, Shape, StoreTypeOK, TypeOK, WorkerUpsertChunks
  <2>4. FilesChained'
    BY <1>5, <2>1, <2>2, CtxFields, EditsKeep, FileStoreAssumption
       DEF Exists, FileChained, FileShape, FilesChained, FilesShaped,
           FollowGrows, Kept, Shape, StoreTypeOK, TypeOK, WorkerUpsertChunks
  <2>. QED
    BY <2>1, <2>3, <2>4, GroupsStay
<1>6. ASSUME NEW f \in Files, WorkerRaises(f) PROVE Chaining'
  <2>1. info' = info /\ HandsKept /\ aged \subseteq aged'
    BY <1>6, FileLifecycleAssumption DEF HandsKept, PutPCs, Shape, TypeOK,
                                         WorkerEnd, WorkerRaises
  <2>2. FollowGrows
    BY <2>1, FollowedStays
  <2>3. HandlersChained'
    BY <1>6, <2>1, <2>2, CtxFields, FileStoreAssumption
       DEF CreatePCs, DeletePCs, FileChained, FilesChained, FollowGrows,
           HandlerChained, HandlerShape, HandlersChained, HandlersShaped, Kept,
           KnowledgePCs, Shape, StoreTypeOK, TypeOK, WorkerEnd, WorkerRaises
  <2>4. FilesChained'
    BY <1>6, <2>1, <2>2, CtxFields, EditsKeep, FileStoreAssumption
       DEF Exists, FileChained, FileShape, FilesChained, FilesShaped,
           FollowGrows, Kept, Shape, StoreTypeOK, TypeOK, WorkerEnd,
           WorkerRaises
  <2>. QED
    BY <2>1, <2>3, <2>4, GroupsStay
<1>7. ASSUME NEW f \in Files, WorkerSaveReady(f) PROVE Chaining'
  <2>1. info' = info /\ HandsKept /\ aged \subseteq aged'
    BY <1>7, FileLifecycleAssumption DEF Exists, HandsKept, PutPCs, Save,
                                         Shape, Statuses, TypeOK, WorkerEnd,
                                         WorkerSaveReady
  <2>2. FollowGrows
    BY <2>1, FollowedStays
  <2>3. HandlersChained'
    BY <1>7, <2>1, <2>2, CtxFields, FileStoreAssumption
       DEF CreatePCs, DeletePCs, Exists, FileChained, FilesChained,
           FollowGrows, HandlerChained, HandlerShape, HandlersChained,
           HandlersShaped, Kept, KnowledgePCs, Save, Shape, Statuses,
           StoreTypeOK, TypeOK, WorkerEnd, WorkerSaveReady
  <2>4. FilesChained'
    BY <1>7, <2>1, <2>2, CtxFields, EditsKeep, FileStoreAssumption
       DEF CreatePCs, DeletePCs, Exists, FileChained, FileShape, FilesChained,
           FilesShaped, FollowGrows, HandlerChained, HandlerShape,
           HandlersChained, HandlersShaped, Kept, KnowledgePCs, Save, Shape,
           Statuses, StoreTypeOK, TypeOK, WorkerEnd, WorkerSaveReady
  <2>. QED
    BY <2>1, <2>3, <2>4, GroupsStay
<1>. QED
  BY <1>1, <1>2, <1>3, <1>4, <1>5, <1>6, <1>7
     DEF WorkerActions, WorkerStep

\* Delete, promotion, the sweep, restart.
LEMMA ChainedOther ==
    ASSUME Shape, Shape', Backing, Chaining, OtherActions PROVE Chaining'
<1> USE DEF Chaining, Goto, storeVars, chunkVars, taskVars, sweepVars, docVars
<1>1. ASSUME NEW r \in Reqs, NEW f \in Files, DeleteStart(r, f) PROVE Chaining'
  <2>1. info' = info /\ HandsKept /\ aged \subseteq aged'
    BY <1>1, FileLifecycleAssumption DEF Blank, DeleteStart, HandsKept,
                                         MayStart, PutPCs, Shape, TypeOK
  <2>2. FollowGrows
    BY <2>1, FollowedStays
  <2>3. HandlersChained'
    BY <1>1, <2>1, <2>2, CtxFields, FileStoreAssumption
       DEF Blank, CreatePCs, DeletePCs, DeleteStart, FileChained, FilesChained,
           FollowGrows, HandlerChained, HandlerShape, HandlersChained,
           HandlersShaped, Kept, KnowledgePCs, MayStart, Shape, StoreTypeOK,
           TypeOK
  <2>4. FilesChained'
    BY <1>1, <2>1, <2>2, CtxFields, EditsKeep, FileStoreAssumption
       DEF Blank, DeleteStart, Exists, FileChained, FileShape, FilesChained,
           FilesShaped, FollowGrows, Kept, MayStart, Shape, StoreTypeOK, TypeOK
  <2>. QED
    BY <2>1, <2>3, <2>4, GroupsStay
<1>2. ASSUME NEW r \in Reqs, DeleteBytes(r) PROVE Chaining'
  <2>1. info' = info /\ HandsKept /\ aged \subseteq aged'
    BY <1>2, FileLifecycleAssumption DEF DeleteBytes, HandsKept, PutPCs, Shape,
                                         TypeOK
  <2>2. FollowGrows
    BY <2>1, FollowedStays
  <2>3. HandlersChained'
    BY <1>2, <2>1, <2>2, CtxFields, FileStoreAssumption
       DEF CreatePCs, DeleteBytes, DeletePCs, FileChained, FilesChained,
           FollowGrows, HandlerChained, HandlerShape, HandlersChained,
           HandlersShaped, Kept, KnowledgePCs, Shape, StoreTypeOK, TypeOK
  <2>4. FilesChained'
    BY <1>2, <2>1, <2>2, CtxFields, EditsKeep, FileStoreAssumption
       DEF DeleteBytes, Exists, FileChained, FileShape, FilesChained,
           FilesShaped, FollowGrows, Kept, Shape, StoreTypeOK, TypeOK
  <2>. QED
    BY <2>1, <2>3, <2>4, GroupsStay
<1>3. ASSUME NEW r \in Reqs, DeleteRow(r) PROVE Chaining'
  <2>1. info' = info /\ HandsKept /\ aged \subseteq aged'
    BY <1>3, FileLifecycleAssumption DEF Blank, DeleteRow, Exists, Finish,
                                         HandsKept, PutPCs, Shape, SoftDelete,
                                         TypeOK
  <2>2. FollowGrows
    BY <2>1, FollowedStays
  <2>3. HandlersChained'
    BY <1>3, <2>1, <2>2, CtxFields, FileStoreAssumption
       DEF Blank, CreatePCs, DeletePCs, DeleteRow, Exists, FileChained,
           FilesChained, Finish, FollowGrows, HandlerChained, HandlerShape,
           HandlersChained, HandlersShaped, Kept, KnowledgePCs, Shape,
           SoftDelete, StoreTypeOK, TypeOK
  <2>4. FilesChained'
    BY <1>3, <2>1, <2>2, CtxFields, EditsKeep, FileStoreAssumption
       DEF Blank, CreatePCs, DeletePCs, DeleteRow, Exists, FileChained,
           FileShape, FilesChained, FilesShaped, Finish, FollowGrows,
           HandlerChained, HandlerShape, HandlersChained, HandlersShaped, Kept,
           KnowledgePCs, Shape, SoftDelete, StoreTypeOK, TypeOK
  <2>. QED
    BY <2>1, <2>3, <2>4, GroupsStay
<1>4. ASSUME NEW r \in Reqs, NEW f \in Files, NEW d \in Docs,
            PromoteStart(r, f, d)
     PROVE  Chaining'
  <2>1. info' = info /\ HandsKept /\ aged \subseteq aged'
    BY <1>4, FileLifecycleAssumption DEF Blank, Exists, HandsKept, MayStart,
                                         PromoteStart, PutPCs, Shape, TypeOK
  <2>2. FollowGrows
    BY <2>1, FollowedStays
  <2>3. HandlersChained'
    BY <1>4, <2>1, <2>2, CtxFields, FileStoreAssumption
       DEF Blank, CreatePCs, DeletePCs, Exists, FileChained, FilesChained,
           FollowGrows, HandlerChained, HandlerShape, HandlersChained,
           HandlersShaped, Kept, KnowledgePCs, MayStart, PromoteStart, Shape,
           StoreTypeOK, TypeOK
  <2>4. FilesChained'
    BY <1>4, <2>1, <2>2, CtxFields, EditsKeep, FileStoreAssumption
       DEF Blank, Exists, FileChained, FileShape, FilesChained, FilesShaped,
           FollowGrows, Kept, MayStart, PromoteStart, Shape, StoreTypeOK,
           TypeOK
  <2>. QED
    BY <2>1, <2>3, <2>4, GroupsStay
<1>5. ASSUME NEW r \in Reqs, Publish(r) PROVE Chaining'
  <2>1. info' = info /\ HandsKept /\ aged \subseteq aged'
    BY <1>5, FileLifecycleAssumption DEF HandsKept, Publish, PutPCs, Shape,
                                         TypeOK
  <2>2. FollowGrows
    BY <2>1, FollowedStays
  <2>3. HandlersChained'
    BY <1>5, <2>1, <2>2, CtxFields, FileStoreAssumption
       DEF CreatePCs, DeletePCs, FileChained, FilesChained, FollowGrows,
           HandlerChained, HandlerShape, HandlersChained, HandlersShaped, Kept,
           KnowledgePCs, Publish, Shape, StoreTypeOK, TypeOK
  <2>4. FilesChained'
    BY <1>5, <2>1, <2>2, CtxFields, EditsKeep, FileStoreAssumption
       DEF Exists, FileChained, FileShape, FilesChained, FilesShaped,
           FollowGrows, Kept, Publish, Shape, StoreTypeOK, TypeOK
  <2>. QED
    BY <2>1, <2>3, <2>4, GroupsStay
<1>6. ASSUME NEW r \in Reqs, SavePromoted(r) PROVE Chaining'
  <2>1. info' = info /\ HandsKept /\ aged \subseteq aged'
    BY <1>6, FileLifecycleAssumption DEF Blank, Exists, Finish, HandsKept,
                                         PutPCs, Save, SavePromoted, Shape,
                                         TypeOK
  <2>2. FollowGrows
    BY <2>1, FollowedStays
  <2>3. HandlersChained'
    BY <1>6, <2>1, <2>2, CtxFields, FileStoreAssumption
       DEF Blank, CreatePCs, DeletePCs, Exists, FileChained, FilesChained,
           Finish, FollowGrows, HandlerChained, HandlerShape, HandlersChained,
           HandlersShaped, Kept, KnowledgePCs, Save, SavePromoted, Shape,
           StoreTypeOK, TypeOK
  <2>4. FilesChained'
    BY <1>6, <2>1, <2>2, CtxFields, EditsKeep, FileStoreAssumption
       DEF Blank, CreatePCs, DeletePCs, Exists, FileChained, FileShape,
           FilesChained, FilesShaped, Finish, FollowGrows, HandlerChained,
           HandlerShape, HandlersChained, HandlersShaped, Kept, KnowledgePCs,
           Save, SavePromoted, Shape, StoreTypeOK, TypeOK
  <2>. QED
    BY <2>1, <2>3, <2>4, GroupsStay
<1>7. ASSUME NEW r \in Reqs, NEW d \in Docs, DemoteStart(r, d) PROVE Chaining'
  <2>1. info' = info /\ HandsKept /\ aged \subseteq aged'
    BY <1>7, FileLifecycleAssumption DEF Blank, DemoteStart, Exists, HandsKept,
                                         ListActive, MayStart, PutPCs, Shape,
                                         TypeOK
  <2>2. FollowGrows
    BY <2>1, FollowedStays
  <2>3. HandlersChained'
    BY <1>7, <2>1, <2>2, CtxFields, FileStoreAssumption
       DEF Blank, CreatePCs, DeletePCs, DemoteStart, Exists, FileChained,
           FilesChained, FollowGrows, HandlerChained, HandlerShape,
           HandlersChained, HandlersShaped, Kept, KnowledgePCs, ListActive,
           MayStart, Shape, StoreTypeOK, TypeOK
  <2>4. FilesChained'
    BY <1>7, <2>1, <2>2, CtxFields, EditsKeep, FileStoreAssumption
       DEF Blank, DemoteStart, Exists, FileChained, FileShape, FilesChained,
           FilesShaped, FollowGrows, Kept, ListActive, MayStart, Shape,
           StoreTypeOK, TypeOK
  <2>. QED
    BY <2>1, <2>3, <2>4, GroupsStay
<1>8. ASSUME NEW r \in Reqs, Unpublish(r) PROVE Chaining'
  <2>1. info' = info /\ HandsKept /\ aged \subseteq aged'
    BY <1>8, FileLifecycleAssumption DEF HandsKept, PutPCs, Shape, TypeOK,
                                         Unpublish
  <2>2. FollowGrows
    BY <2>1, FollowedStays
  <2>3. HandlersChained'
    BY <1>8, <2>1, <2>2, CtxFields, FileStoreAssumption
       DEF CreatePCs, DeletePCs, FileChained, FilesChained, FollowGrows,
           HandlerChained, HandlerShape, HandlersChained, HandlersShaped, Kept,
           KnowledgePCs, Shape, StoreTypeOK, TypeOK, Unpublish
  <2>4. FilesChained'
    BY <1>8, <2>1, <2>2, CtxFields, EditsKeep, FileStoreAssumption
       DEF Exists, FileChained, FileShape, FilesChained, FilesShaped,
           FollowGrows, Kept, Shape, StoreTypeOK, TypeOK, Unpublish
  <2>. QED
    BY <2>1, <2>3, <2>4, GroupsStay
<1>9. ASSUME NEW r \in Reqs, SaveDemoted(r) PROVE Chaining'
  <2>1. info' = info /\ HandsKept /\ aged \subseteq aged'
    BY <1>9, FileLifecycleAssumption DEF Blank, Exists, Finish, HandsKept,
                                         PutPCs, Save, SaveDemoted, Shape,
                                         TypeOK
  <2>2. FollowGrows
    BY <2>1, FollowedStays
  <2>3. HandlersChained'
    BY <1>9, <2>1, <2>2, CtxFields, FileStoreAssumption
       DEF Blank, CreatePCs, DeletePCs, Exists, FileChained, FilesChained,
           Finish, FollowGrows, HandlerChained, HandlerShape, HandlersChained,
           HandlersShaped, Kept, KnowledgePCs, Save, SaveDemoted, Shape,
           StoreTypeOK, TypeOK
  <2>4. FilesChained'
    BY <1>9, <2>1, <2>2, CtxFields, EditsKeep, FileStoreAssumption
       DEF Blank, CreatePCs, DeletePCs, Exists, FileChained, FileShape,
           FilesChained, FilesShaped, Finish, FollowGrows, HandlerChained,
           HandlerShape, HandlersChained, HandlersShaped, Kept, KnowledgePCs,
           Save, SaveDemoted, Shape, StoreTypeOK, TypeOK
  <2>. QED
    BY <2>1, <2>3, <2>4, GroupsStay
<1>10. ASSUME NEW f \in Files, Age(f) PROVE Chaining'
  <2>1. info' = info /\ HandsKept /\ aged \subseteq aged'
    BY <1>10, FileLifecycleAssumption DEF Age, HandsKept, PutPCs, Shape, TypeOK
  <2>2. FollowGrows
    BY <2>1, FollowedStays
  <2>3. HandlersChained'
    BY <1>10, <2>1, <2>2, CtxFields, FileStoreAssumption
       DEF Age, CreatePCs, DeletePCs, FileChained, FilesChained, FollowGrows,
           HandlerChained, HandlerShape, HandlersChained, HandlersShaped, Kept,
           KnowledgePCs, Shape, StoreTypeOK, TypeOK
  <2>4. FilesChained'
    BY <1>10, <2>1, <2>2, CtxFields, EditsKeep, FileStoreAssumption
       DEF Age, Exists, FileChained, FileShape, FilesChained, FilesShaped,
           FollowGrows, Kept, Shape, StoreTypeOK, TypeOK
  <2>. QED
    BY <2>1, <2>3, <2>4, GroupsStay
<1>11. ASSUME SweepStart PROVE Chaining'
  <2>1. info' = info /\ HandsKept /\ aged \subseteq aged'
    BY <1>11, FileLifecycleAssumption DEF Exists, Expired, HandsKept,
                                          ListActive, PutPCs, Shape,
                                          SweepStart, TypeOK
  <2>2. FollowGrows
    BY <2>1, FollowedStays
  <2>3. HandlersChained'
    BY <1>11, <2>1, <2>2, CtxFields, FileStoreAssumption
       DEF CreatePCs, DeletePCs, Exists, Expired, FileChained, FilesChained,
           FollowGrows, HandlerChained, HandlerShape, HandlersChained,
           HandlersShaped, Kept, KnowledgePCs, ListActive, Shape, StoreTypeOK,
           SweepStart, TypeOK
  <2>4. FilesChained'
    BY <1>11, <2>1, <2>2, CtxFields, EditsKeep, FileStoreAssumption
       DEF Exists, Expired, FileChained, FileShape, FilesChained, FilesShaped,
           FollowGrows, Kept, ListActive, Shape, StoreTypeOK, SweepStart,
           TypeOK
  <2>. QED
    BY <2>1, <2>3, <2>4, GroupsStay
<1>12. ASSUME NEW f \in Files, SweepUnpublish(f) PROVE Chaining'
  <2>1. info' = info /\ HandsKept /\ aged \subseteq aged'
    BY <1>12, FileLifecycleAssumption DEF HandsKept, PutPCs, Shape,
                                          SweepUnpublish, TypeOK
  <2>2. FollowGrows
    BY <2>1, FollowedStays
  <2>3. HandlersChained'
    BY <1>12, <2>1, <2>2, CtxFields, FileStoreAssumption
       DEF CreatePCs, DeletePCs, FileChained, FilesChained, FollowGrows,
           HandlerChained, HandlerShape, HandlersChained, HandlersShaped, Kept,
           KnowledgePCs, Shape, StoreTypeOK, SweepUnpublish, TypeOK
  <2>4. FilesChained'
    BY <1>12, <2>1, <2>2, CtxFields, EditsKeep, FileStoreAssumption
       DEF Exists, FileChained, FileShape, FilesChained, FilesShaped,
           FollowGrows, Kept, Shape, StoreTypeOK, SweepUnpublish, TypeOK
  <2>. QED
    BY <2>1, <2>3, <2>4, GroupsStay
<1>13. ASSUME NEW f \in Files, SweepArchive(f) PROVE Chaining'
  <2>1. info' = info /\ HandsKept /\ aged \subseteq aged'
    BY <1>13, FileLifecycleAssumption DEF Exists, HandsKept, PutPCs, Save,
                                          Shape, SweepArchive, TypeOK
  <2>2. FollowGrows
    BY <2>1, FollowedStays
  <2>3. HandlersChained'
    BY <1>13, <2>1, <2>2, CtxFields, FileStoreAssumption
       DEF CreatePCs, DeletePCs, Exists, FileChained, FilesChained,
           FollowGrows, HandlerChained, HandlerShape, HandlersChained,
           HandlersShaped, Kept, KnowledgePCs, Save, Shape, StoreTypeOK,
           SweepArchive, TypeOK
  <2>4. FilesChained'
    BY <1>13, <2>1, <2>2, CtxFields, EditsKeep, FileStoreAssumption
       DEF CreatePCs, DeletePCs, Exists, FileChained, FileShape, FilesChained,
           FilesShaped, FollowGrows, HandlerChained, HandlerShape,
           HandlersChained, HandlersShaped, Kept, KnowledgePCs, Save, Shape,
           StoreTypeOK, SweepArchive, TypeOK
  <2>. QED
    BY <2>1, <2>3, <2>4, GroupsStay
<1>14. ASSUME Restart PROVE Chaining'
  <2>1. info' = info /\ HandsKept /\ aged \subseteq aged'
    BY <1>14, FileLifecycleAssumption DEF Blank, HandsKept, PutPCs, Restart,
                                          Shape, TypeOK
  <2>2. FollowGrows
    BY <2>1, FollowedStays
  <2>3. HandlersChained'
    BY <1>14, <2>1, <2>2, CtxFields, FileStoreAssumption
       DEF Blank, CreatePCs, DeletePCs, FileChained, FilesChained, FollowGrows,
           HandlerChained, HandlerShape, HandlersChained, HandlersShaped, Kept,
           KnowledgePCs, Restart, Shape, StoreTypeOK, TypeOK
  <2>4. FilesChained'
    BY <1>14, <2>1, <2>2, CtxFields, EditsKeep, FileStoreAssumption
       DEF Blank, Exists, FileChained, FileShape, FilesChained, FilesShaped,
           FollowGrows, Kept, Restart, Shape, StoreTypeOK, TypeOK
  <2>. QED
    BY <2>1, <2>3, <2>4, GroupsStay
<1>. QED
  BY <1>1, <1>2, <1>3, <1>4, <1>5, <1>6, <1>7, <1>8, <1>9, <1>10, <1>11, <1>12,
     <1>13, <1>14
     DEF OtherActions, DeleteStep, KnowledgeStep, SweepStep

LEMMA ChainingStutter == Chaining /\ UNCHANGED vars => Chaining'
BY GroupsStay
   DEF Chaining, HandlersChained, HandlerChained, FilesChained, FileChained,
       Kept, Followed, Exists, vars, storeVars, ctlVars

LEMMA ChainingInvariant == Spec => [](Shape /\ Backing /\ Chaining)
<1>1. Init => Chaining
  BY ChainingInit
<1>2. Shape /\ Backing /\ Chaining /\ Shape' /\ [Next]_vars => Chaining'
  BY NextInGroups, ChainedUpload, ChainedWorker, ChainedOther, ChainingStutter
<1>. QED
  BY <1>1, <1>2, BackingInvariant, PTL DEF Spec

\* Whatever interleaves, fails or restarts, a version above 1 has its
\* predecessor in its group: same owner, same name, created earlier.
THEOREM VersionsNeverSkip == Spec => []ChainHasNoGaps
<1>1. Chaining => ChainHasNoGaps
  BY DEF Chaining
<1>. QED
  BY <1>1, ChainingInvariant, PTL

\* While storage answers and the process lives, the versions of a file form
\* one unbroken chain whose end is the one listed.  A put that raises after
\* the old version was written back leaves a chain without a latest version,
\* so both are excluded.
THEOREM ChainsAreUnbroken ==
    ASSUME ~StorageFails, ~MayRestart PROVE Spec => []VersionChains
<1>1. Chaining => VersionChains
  BY DEF Chaining, FilesChained, FileChained, Kept, Followed, VersionChains,
         SupersededHasSuccessor
<1>. QED
  BY <1>1, ChainingInvariant, PTL

\* A file is archived only past its own window, an org-scoped one never,
\* whatever stale copies are written back.
THEOREM ArchivedAreExpired == Spec => []ArchivedOnlyExpired
<1>1. Chaining => ArchivedOnlyExpired
  BY DEF Chaining, FilesChained, FileChained, Kept, ArchivedOnlyExpired
<1>. QED
  BY <1>1, ChainingInvariant, PTL

\* A save puts a row in the table and takes none out.
LEMMA SaveKeeps ==
    ASSUME Shape, NEW f \in Files, NEW row \in Row, Save(f, row)
    PROVE  \A g \in Files : Exists(g) => Exists(g)'
BY FileStoreAssumption DEF Save, Exists, Shape, TypeOK, StoreTypeOK

\* Only the purge of a duplicate takes a row out of the table.
LEMMA RowsStay ==
    ASSUME Shape, [Next]_vars, ~\E r \in Reqs : PurgeRow(r)
    PROVE  \A f \in Files : Exists(f) => Exists(f)'
<1> DEFINE Stays == \A f \in Files : Exists(f) => Exists(f)'
<1>a. rows' = rows => Stays
  BY DEF Exists
<1>b. \A f \in Files : rows[f] # NoRow => rows[f] \in Row
  BY DEF Shape, TypeOK, StoreTypeOK
<1>1. ASSUME NEW r \in Reqs, CreateStep(r) PROVE Stays
  <2>1. ASSUME Supersede(r) PROVE Stays
    <3>1. ctx[r].snap \in Row /\ ctx[r].old \in Files
      BY <2>1, CtxFields DEF Supersede, Shape, TypeOK, HandlersShaped, HandlerShape
    <3>2. [ctx[r].snap EXCEPT !.latest = FALSE] \in Row
      BY <3>1 DEF Row
    <3>. QED
      BY <2>1, <3>1, <3>2, SaveKeeps DEF Supersede
  <2>2. ASSUME SaveNew(r) PROVE Stays
    <3>1. ctx[r].file \in Files
      BY <2>2, CtxFields
         DEF SaveNew, CreatePCs, Shape, TypeOK, HandlersShaped, HandlerShape
    <3>. QED
      BY <2>2, <3>1, NewRowIsRow, SaveKeeps DEF SaveNew
  <2>. QED
    BY <1>1, <1>a, <2>1, <2>2
       DEF CreateStep, ReadChunks, FindDuplicate, PurgeBytes, FindLatest,
           PutOriginal, PutFails, CloseSession, storeVars
<1>2. ASSUME NEW g \in Files, WorkerStep(g) PROVE Stays
  <2>1. task[g] \in {"fetched", "indexing", "derived"} => taskRow[g] \in Row
    BY DEF Shape, TypeOK, FilesShaped, FileShape
  <2>2. task[g] \in {"fetched", "indexing", "derived"} =>
          \A s \in Statuses : [taskRow[g] EXCEPT !.status = s] \in Row
    BY <2>1 DEF Row
  <2>3. ASSUME WorkerMarkIndexing(g) PROVE Stays
    <3>1. taskRow'[g] = [taskRow[g] EXCEPT !.status = "indexing"]
      BY <2>3 DEF WorkerMarkIndexing, Shape, TypeOK
    <3>. QED
      BY <2>2, <2>3, <3>1, SaveKeeps DEF WorkerMarkIndexing, Statuses
  <2>4. ASSUME WorkerRejectRows(g) \/ WorkerSaveReady(g) PROVE Stays
    BY <2>2, <2>4, SaveKeeps DEF WorkerRejectRows, WorkerSaveReady, Statuses
  <2>. QED
    BY <1>2, <1>a, <2>3, <2>4
       DEF WorkerStep, WorkerFetch, WorkerWriteParquet, WorkerUpsertChunks,
           WorkerRaises, storeVars
<1>3. ASSUME NEW r \in Reqs, DeleteStep(r) \/ KnowledgeStep(r) PROVE Stays
  <2>1. ASSUME DeleteRow(r) PROVE Stays
    <3>1. CASE Exists(ctx[r].file)
      <4>1. rows[ctx[r].file] \in Row /\ ctx[r].file \in Files
        BY <1>b, <2>1, <3>1, CtxFields
           DEF DeleteRow, DeletePCs, Exists, Shape, TypeOK, HandlersShaped, HandlerShape
      <4>2. [rows[ctx[r].file] EXCEPT !.deleted = TRUE] \in Row
        BY <4>1 DEF Row
      <4>3. Save(ctx[r].file, [rows[ctx[r].file] EXCEPT !.deleted = TRUE])
        BY <2>1, <3>1, <4>1 DEF DeleteRow, SoftDelete, Save, Shape, TypeOK, StoreTypeOK
      <4>. QED
        BY <4>1, <4>2, <4>3, SaveKeeps
    <3>. QED
      BY <1>a, <2>1, <3>1 DEF DeleteRow, SoftDelete
  <2>2. pc[r] \in KnowledgePCs =>
          /\ ctx[r].snap \in Row /\ ctx[r].doc \in Docs /\ ctx[r].file \in Files
    BY CtxFields DEF Shape, TypeOK, HandlersShaped, HandlerShape
  <2>3. pc[r] \in KnowledgePCs =>
          \A d \in Docs \cup {NoDoc} : [ctx[r].snap EXCEPT !.doc = d] \in Row
    BY <2>2 DEF Row
  <2>4. ASSUME SavePromoted(r) \/ SaveDemoted(r) PROVE Stays
    BY <2>2, <2>3, <2>4, SaveKeeps DEF SavePromoted, SaveDemoted, KnowledgePCs
  <2>. QED
    BY <1>3, <1>a, <2>1, <2>4
       DEF DeleteStep, KnowledgeStep, DeleteBytes, Publish, Unpublish
<1>4. ASSUME NEW g \in Files, SweepArchive(g) PROVE Stays
  <2>1. sweepRow[g] \in Row
    BY <1>4 DEF SweepArchive, Shape, TypeOK
  <2>2. [sweepRow[g] EXCEPT !.archived = TRUE, !.doc = NoDoc] \in Row
    BY <2>1 DEF Row
  <2>. QED
    BY <1>4, <2>2, SaveKeeps DEF SweepArchive
<1>5. CASE Call \/ (\E f \in Files : Age(f) \/ SweepUnpublish(f)) \/ SweepStart \/ Restart
  <2>1. CASE Call
    <3>1. rows' = rows
      <4>1. ASSUME NEW u \in Uploads, NEW p \in Payload,
                   InitUpload(u, p)
            PROVE  rows' = rows
        BY <4>1 DEF InitUpload, storeVars
      <4>2. ASSUME NEW u \in Uploads,
                   PutChunks(u)
            PROVE  rows' = rows
        BY <4>2 DEF PutChunks, storeVars
      <4>3. ASSUME NEW r \in Reqs, NEW p \in Payload, NEW f \in Files,
                   UploadStart(r, p, f)
            PROVE  rows' = rows
        BY <4>3 DEF UploadStart, storeVars
      <4>4. ASSUME NEW r \in Reqs, NEW u \in Uploads, NEW f \in Files,
                   CompleteStart(r, u, f)
            PROVE  rows' = rows
        BY <4>4 DEF CompleteStart, storeVars
      <4>5. ASSUME NEW r \in Reqs, NEW f \in Files,
                   DeleteStart(r, f)
            PROVE  rows' = rows
        BY <4>5 DEF DeleteStart, storeVars
      <4>6. ASSUME NEW r \in Reqs, NEW f \in Files, NEW d \in Docs,
                   PromoteStart(r, f, d)
            PROVE  rows' = rows
        BY <4>6 DEF PromoteStart, storeVars
      <4>7. ASSUME NEW r \in Reqs, NEW d \in Docs,
                   DemoteStart(r, d)
            PROVE  rows' = rows
        BY <4>7 DEF DemoteStart, storeVars
      <4>. QED
        BY <2>1, <4>1, <4>2, <4>3, <4>4, <4>5, <4>6, <4>7 DEF Call
    <3>. QED
      BY <1>a, <3>1
  <2>2. CASE \E f \in Files : Age(f) \/ SweepUnpublish(f)
    BY <1>a, <2>2 DEF Age, SweepUnpublish, storeVars
  <2>3. CASE SweepStart \/ Restart
    BY <1>a, <2>3 DEF SweepStart, Restart, storeVars
  <2>. QED
    BY <1>5, <2>1, <2>2, <2>3
<1>6. CASE UNCHANGED vars
  BY <1>6, <1>a DEF vars, storeVars
<1>. QED
  BY <1>1, <1>2, <1>3, <1>4, <1>5, <1>6 DEF Next, HandlerStep, SweepStep

\* The one purge there is takes a row only of the owner who is uploading the
\* same bytes again, in every interleaving.
THEOREM PurgesAreReuploads == Spec => PurgedOnlyWhenReuploaded
<1> DEFINE Purges == \A f \in Files : Exists(f) /\ ~Exists(f)' =>
                       \E r \in Reqs : /\ pc[r] = "purge_row"
                                       /\ ctx[r].input.owner = info[f].owner
                                       /\ ctx[r].input.content = info[f].content
<1>1. ASSUME Shape, Chaining, [Next]_vars PROVE Purges
  <2>1. SUFFICES ASSUME NEW f \in Files, Exists(f), ~Exists(f)'
                 PROVE  \E r \in Reqs : /\ pc[r] = "purge_row"
                                        /\ ctx[r].input.owner = info[f].owner
                                        /\ ctx[r].input.content = info[f].content
    OBVIOUS
  <2>2. \E r \in Reqs : PurgeRow(r)
    BY <1>1, <2>1, RowsStay
  <2>3. PICK r \in Reqs : PurgeRow(r)
    BY <2>2
  <2>4. pc[r] = "purge_row" /\ ctx[r].old = f
    BY <2>1, <2>3 DEF PurgeRow, HardDelete, Exists, Shape, TypeOK, StoreTypeOK
  <2>. QED
    BY <1>1, <2>3, <2>4 DEF Chaining, HandlersChained, HandlerChained
<1>. QED
  BY <1>1, ChainingInvariant, PTL DEF Spec, PurgedOnlyWhenReuploaded

-----------------------------------------------------------------------------
(* What archiving leaves behind.  The sweep clears the pointer of a row it  *)
(* read earlier; that no document stays served behind it rests on document  *)
(* ids never being minted twice: what was taken out of the live knowledge   *)
(* base does not come back.                                                 *)

\* What a sweep or a demotion has removed, and is about to unname, is gone.
Withdrawn ==
    /\ \A f \in Files : sweepRow[f] # NoRow => loop = Sweeper
    /\ sweepDoc # NoFile =>
         /\ sweepRow[sweepDoc] # NoRow
         /\ sweepRow[sweepDoc].doc # NoDoc /\ sweepRow[sweepDoc].doc \notin live
    /\ \A r \in Reqs : pc[r] \in {"unpublish", "save_demoted"} =>
         ctx[r].snap.doc = ctx[r].doc
    /\ \A r \in Reqs : pc[r] = "save_demoted" => ctx[r].doc \notin live

\* A document that is published had no source, so no row names it yet.
LEMMA PublishedIsNew ==
    ASSUME Shape, Backing, NEW r \in Reqs, pc[r] = "publish"
    PROVE  /\ \A f \in Files : sweepRow[f] # NoRow => sweepRow[f].doc # ctx[r].doc
           /\ \A s \in Reqs : pc[s] \in KnowledgePCs => ctx[s].snap.doc # ctx[r].doc
<1>1. docSource[ctx[r].doc] = NoFile /\ ctx[r].doc # NoDoc /\ NoFile \notin Files
  BY FileStoreAssumption
     DEF Backing, HandlersBacked, HandlerBacked, KnowledgePCs, Shape, HandlersShaped,
         HandlerShape
<1>2. \A f \in Files : sweepRow[f] # NoRow => sweepRow[f].doc # ctx[r].doc
  BY <1>1 DEF Backing, FilesBacked, FileBacked, Backed
<1>3. ASSUME NEW s \in Reqs, pc[s] \in KnowledgePCs PROVE ctx[s].snap.doc # ctx[r].doc
  <2>1. ctx[s].file \in Files
    BY <1>3, CtxFields DEF Shape, TypeOK, HandlersShaped, HandlerShape
  <2>. QED
    BY <1>1, <1>3, <2>1 DEF Backing, HandlersBacked, HandlerBacked, Backed
<1>. QED
  BY <1>2, <1>3

\* A call that starts reads rows and documents, and leaves them.
LEMMA CallsRead ==
    ASSUME Call
    PROVE  /\ rows' = rows /\ docSource' = docSource /\ live' = live
           /\ sweepRow' = sweepRow /\ sweepDoc' = sweepDoc
<1> DEFINE Same == /\ rows' = rows /\ docSource' = docSource /\ live' = live
                   /\ sweepRow' = sweepRow /\ sweepDoc' = sweepDoc
<1> USE DEF storeVars, sweepVars
<1>1. ASSUME NEW u \in Uploads, PutChunks(u) \/ \E p \in Payload : InitUpload(u, p)
      PROVE  Same
  BY <1>1 DEF PutChunks, InitUpload
<1>2. ASSUME NEW r \in Reqs, NEW f \in Files, NEW p \in Payload, UploadStart(r, p, f)
      PROVE  Same
  BY <1>2 DEF UploadStart
<1>3. ASSUME NEW r \in Reqs, NEW f \in Files, NEW u \in Uploads, CompleteStart(r, u, f)
      PROVE  Same
  BY <1>3 DEF CompleteStart
<1>4. ASSUME NEW r \in Reqs, NEW f \in Files, DeleteStart(r, f) PROVE Same
  BY <1>4 DEF DeleteStart
<1>5. ASSUME NEW r \in Reqs, NEW f \in Files, NEW d \in Docs, PromoteStart(r, f, d)
      PROVE  Same
  BY <1>5 DEF PromoteStart
<1>6. ASSUME NEW r \in Reqs, NEW d \in Docs, DemoteStart(r, d) PROVE Same
  BY <1>6 DEF DemoteStart
<1>. QED
  BY <1>1, <1>2, <1>3, <1>4, <1>5, <1>6 DEF Call

\* Nor has any step of an upload or of a processing task to do with documents.
LEMMA StepsRead ==
    ASSUME (\E r \in Reqs : CreateStep(r)) \/ (\E f \in Files : WorkerStep(f) \/ Age(f))
    PROVE  /\ docSource' = docSource /\ live' = live
           /\ sweepRow' = sweepRow /\ sweepDoc' = sweepDoc
<1> USE DEF storeVars, sweepVars, docVars
<1>1. ASSUME NEW r \in Reqs, CreateStep(r)
      PROVE  /\ docSource' = docSource /\ live' = live
             /\ sweepRow' = sweepRow /\ sweepDoc' = sweepDoc
  BY <1>1
     DEF CreateStep, ReadChunks, FindDuplicate, PurgeBytes, PurgeRow, FindLatest,
         Supersede, PutOriginal, PutFails, CloseSession, SaveNew
<1>2. ASSUME NEW f \in Files, WorkerStep(f) \/ Age(f)
      PROVE  /\ docSource' = docSource /\ live' = live
             /\ sweepRow' = sweepRow /\ sweepDoc' = sweepDoc
  BY <1>2
     DEF WorkerStep, WorkerFetch, WorkerRejectRows, WorkerWriteParquet, Age,
         WorkerMarkIndexing, WorkerUpsertChunks, WorkerRaises, WorkerSaveReady
<1>. QED
  BY <1>1, <1>2

\* Nothing but a promotion adds to the live knowledge base.
LEMMA LiveShrinks ==
    ASSUME [Next]_vars, ~\E r \in Reqs : Publish(r)
    PROVE  live' \subseteq live /\ docSource' = docSource
<1> USE DEF storeVars, docVars
<1>1. ASSUME NEW r \in Reqs, DeleteStep(r) \/ KnowledgeStep(r)
      PROVE  live' \subseteq live /\ docSource' = docSource
  BY <1>1
     DEF DeleteStep, DeleteBytes, DeleteRow, KnowledgeStep, SavePromoted, Unpublish,
         SaveDemoted, RemoveFromLiveRag
<1>2. ASSUME NEW f \in Files, SweepUnpublish(f) \/ SweepArchive(f)
      PROVE  live' \subseteq live /\ docSource' = docSource
  BY <1>2 DEF SweepUnpublish, SweepArchive, RemoveFromLiveRag
<1>3. CASE SweepStart \/ Restart
  BY <1>3 DEF SweepStart, Restart
<1>. QED
  BY <1>1, <1>2, <1>3, CallsRead, StepsRead DEF Next, HandlerStep, SweepStep, vars

\* A step that starts a demotion at most.
LEMMA WithdrawnStays ==
    ASSUME Withdrawn, sweepDoc' = sweepDoc, sweepRow' = sweepRow, live' = live,
           loop = Sweeper => loop' = Sweeper,
           \A r \in Reqs : pc'[r] \in {"unpublish", "save_demoted"} =>
              \/ pc'[r] = pc[r] /\ ctx'[r] = ctx[r]
              \/ pc'[r] = "unpublish" /\ ctx'[r].snap.doc = ctx'[r].doc
    PROVE  Withdrawn'
BY DEF Withdrawn

LEMMA WithdrawnStep ==
    ASSUME Shape, Backing, Withdrawn, [Next]_vars PROVE Withdrawn'
<1> DEFINE Others(r) == \A s \in Reqs : s # r => pc'[s] = pc[s] /\ ctx'[s] = ctx[s]
<1>1. CASE Call
  <2>1. /\ loop = Sweeper => loop' = Sweeper
        /\ \A r \in Reqs : pc'[r] \in {"unpublish", "save_demoted"} =>
              \/ pc'[r] = pc[r] /\ ctx'[r] = ctx[r]
              \/ pc'[r] = "unpublish" /\ ctx'[r].snap.doc = ctx'[r].doc
    <3> DEFINE Fits == /\ loop = Sweeper => loop' = Sweeper
                       /\ \A r \in Reqs : pc'[r] \in {"unpublish", "save_demoted"} =>
                             \/ pc'[r] = pc[r] /\ ctx'[r] = ctx[r]
                             \/ pc'[r] = "unpublish" /\ ctx'[r].snap.doc = ctx'[r].doc
    <3> USE DEF Goto, Shape, TypeOK
    <3>1. ASSUME NEW u \in Uploads, PutChunks(u) \/ \E p \in Payload : InitUpload(u, p)
          PROVE  Fits
      BY <3>1 DEF PutChunks, InitUpload
    <3>2. ASSUME NEW r \in Reqs, NEW f \in Files, NEW p \in Payload, UploadStart(r, p, f)
          PROVE  Fits
      BY <3>2, FileLifecycleAssumption DEF UploadStart
    <3>3. ASSUME NEW r \in Reqs, NEW f \in Files, NEW u \in Uploads, CompleteStart(r, u, f)
          PROVE  Fits
      BY <3>3 DEF CompleteStart
    <3>4. ASSUME NEW r \in Reqs, NEW f \in Files, DeleteStart(r, f) PROVE Fits
      BY <3>4 DEF DeleteStart
    <3>5. ASSUME NEW r \in Reqs, NEW f \in Files, NEW d \in Docs, PromoteStart(r, f, d)
          PROVE  Fits
      BY <3>5 DEF PromoteStart
    <3>6. ASSUME NEW r \in Reqs, NEW d \in Docs, DemoteStart(r, d) PROVE Fits
      <4>1. PICK f \in Files :
              /\ rows[f].doc = d
              /\ ctx' = [ctx EXCEPT ![r] =
                           [Blank EXCEPT !.file = f, !.snap = rows[f], !.doc = d]]
        BY <3>6, Zenon DEF DemoteStart, ListActive
      <4>2. ctx'[r].snap.doc = ctx'[r].doc
        BY <4>1 DEF Blank
      <4>. QED
        BY <3>6, <4>1, <4>2 DEF DemoteStart
    <3>. QED
      BY <1>1, <3>1, <3>2, <3>3, <3>4, <3>5, <3>6 DEF Call
  <2>. QED
    BY <1>1, <2>1, CallsRead, WithdrawnStays
<1>2. ASSUME NEW r \in Reqs, CreateStep(r) PROVE Withdrawn'
  <2> DEFINE Fits == /\ loop = Sweeper => loop' = Sweeper
                     /\ pc'[r] \notin {"unpublish", "save_demoted"} /\ Others(r)
  <2> USE DEF Finish, Goto, Shape, TypeOK
  <2>1. ASSUME ReadChunks(r) \/ PutFails(r) \/ SaveNew(r) PROVE Fits
    BY <1>2, <2>1, FileLifecycleAssumption DEF ReadChunks, PutFails, SaveNew
  <2>2. ASSUME FindDuplicate(r) \/ FindLatest(r) PROVE Fits
    BY <1>2, <2>2 DEF FindDuplicate, FindLatest
  <2>3. ASSUME PurgeBytes(r) \/ PurgeRow(r) \/ Supersede(r) PROVE Fits
    BY <1>2, <2>3 DEF PurgeBytes, PurgeRow, Supersede
  <2>4. ASSUME PutOriginal(r) \/ CloseSession(r) PROVE Fits
    BY <1>2, <2>4 DEF PutOriginal, CloseSession
  <2>5. Fits
    BY <1>2, <2>1, <2>2, <2>3, <2>4 DEF CreateStep
  <2>. QED
    BY <1>2, <2>5, StepsRead, WithdrawnStays
<1>3. ASSUME NEW f \in Files, WorkerStep(f) \/ Age(f) PROVE Withdrawn'
  <2>1. pc' = pc /\ ctx' = ctx /\ loop' = loop
    BY <1>3
       DEF WorkerStep, WorkerFetch, WorkerRejectRows, WorkerWriteParquet, Age,
           WorkerMarkIndexing, WorkerUpsertChunks, WorkerRaises, WorkerSaveReady
  <2>. QED
    BY <1>3, <2>1, StepsRead, WithdrawnStays
<1>4. ASSUME NEW r \in Reqs, DeleteStep(r) \/ SavePromoted(r) \/ SaveDemoted(r)
      PROVE  Withdrawn'
  <2>1. /\ loop = Sweeper => loop' = Sweeper
        /\ pc'[r] \notin {"unpublish", "save_demoted"} /\ Others(r)
        /\ live' = live /\ sweepRow' = sweepRow /\ sweepDoc' = sweepDoc
    BY <1>4, FileLifecycleAssumption
       DEF DeleteStep, DeleteBytes, DeleteRow, SavePromoted, SaveDemoted, Finish, Goto,
           docVars, sweepVars, Shape, TypeOK
  <2>. QED
    BY <2>1, WithdrawnStays
<1>5. ASSUME NEW r \in Reqs, Publish(r) PROVE Withdrawn'
  <2>1. /\ pc[r] = "publish" /\ live' = live \cup {ctx[r].doc}
        /\ sweepDoc' = sweepDoc /\ sweepRow' = sweepRow /\ loop' = loop /\ ctx' = ctx
        /\ pc' = [pc EXCEPT ![r] = "save_promoted"]
    BY <1>5 DEF Publish, PublishDoc, Goto, sweepVars
  <2>2. sweepDoc # NoFile => sweepDoc \in Files
    BY DEF Shape, TypeOK
  <2>. QED
    BY <2>1, <2>2, PublishedIsNew DEF Withdrawn, KnowledgePCs, Shape, TypeOK
<1>6. ASSUME NEW r \in Reqs, Unpublish(r) PROVE Withdrawn'
  BY <1>6 DEF Unpublish, RemoveFromLiveRag, Goto, sweepVars, Withdrawn, Shape, TypeOK
<1>7. CASE SweepStart
  BY <1>7, FileLifecycleAssumption DEF SweepStart, storeVars, Withdrawn, Shape, TypeOK
<1>8. ASSUME NEW f \in Files, SweepUnpublish(f) PROVE Withdrawn'
  <2>1. /\ sweepDoc = NoFile /\ sweepDoc' = f /\ live' = live \ {sweepRow[f].doc}
        /\ sweepRow[f] # NoRow /\ sweepRow[f].doc # NoDoc /\ sweepRow' = sweepRow
        /\ pc' = pc /\ ctx' = ctx /\ loop' = loop
    BY <1>8 DEF SweepUnpublish, RemoveFromLiveRag
  <2>2. loop = Sweeper
    BY <2>1 DEF Withdrawn
  <2>. QED
    BY <2>1, <2>2 DEF Withdrawn
<1>9. ASSUME NEW f \in Files, SweepArchive(f) PROVE Withdrawn'
  <2>1. /\ sweepDoc' = NoFile /\ pc' = pc /\ ctx' = ctx /\ live' = live
        /\ sweepRow' = [sweepRow EXCEPT ![f] = NoRow]
        /\ loop' = IF \A g \in Files \ {f} : sweepRow[g] = NoRow THEN Free ELSE loop
    BY <1>9 DEF SweepArchive, docVars
  <2>2. \A g \in Files : sweepRow'[g] # NoRow => loop' = Sweeper
    BY <2>1 DEF Withdrawn, Shape, TypeOK
  <2>. QED
    BY <2>1, <2>2 DEF Withdrawn
<1>10. CASE Restart
  BY <1>10 DEF Restart, Withdrawn
<1>11. CASE UNCHANGED vars
  BY <1>11 DEF vars, storeVars, ctlVars, Withdrawn
<1>. QED
  BY <1>1, <1>2, <1>3, <1>4, <1>5, <1>6, <1>7, <1>8, <1>9, <1>10, <1>11
     DEF Next, HandlerStep, KnowledgeStep, SweepStep

LEMMA WithdrawnInvariant == Spec => [](Shape /\ Backing /\ Chaining /\ Withdrawn)
<1>1. Init => Withdrawn
  BY DEF Init, Withdrawn
<1>2. Shape /\ Backing /\ Withdrawn /\ [Next]_vars => Withdrawn'
  BY WithdrawnStep
<1>. QED
  BY <1>1, <1>2, ChainingInvariant, PTL DEF Spec

\* The rows of a sweep are dropped one by one, as they are archived.
LEMMA OnlySweepClears ==
    ASSUME Shape, [Next]_vars, NEW f \in Files, sweepRow[f] # NoRow, sweepRow'[f] = NoRow,
           rows' # rows
    PROVE  SweepArchive(f)
<1>1. ASSUME NEW r \in Reqs, DeleteStep(r) \/ KnowledgeStep(r) PROVE sweepRow' = sweepRow
  BY <1>1
     DEF DeleteStep, DeleteBytes, DeleteRow, KnowledgeStep, Publish, SavePromoted,
         Unpublish, SaveDemoted, sweepVars
<1>2. ASSUME NEW g \in Files, SweepArchive(g) PROVE g = f
  BY <1>2 DEF SweepArchive, Shape, TypeOK
<1>3. ~SweepStart /\ ~Restart /\ \A g \in Files : ~SweepUnpublish(g)
  BY DEF SweepStart, Restart, SweepUnpublish, storeVars
<1>. QED
  BY <1>1, <1>2, <1>3, CallsRead, StepsRead DEF Next, HandlerStep, SweepStep, vars, storeVars

\* What the sweep archives had outlived its window, and the document its row
\* names is served no longer, in every interleaving and across restarts.
THEOREM ArchivesAreSound == Spec => ArchivingIsSound
<1> DEFINE Sound == \A f \in Files : Archives(f) =>
                      /\ f \in aged /\ info[f].scope # "org"
                      /\ Exists(f) /\ rows[f].doc = sweepRow[f].doc => rows[f].doc \notin live
<1>1. ASSUME Shape, Chaining, Withdrawn, [Next]_vars PROVE Sound
  <2>1. SUFFICES ASSUME NEW f \in Files, Archives(f)
                 PROVE  /\ f \in aged /\ info[f].scope # "org"
                        /\ Exists(f) /\ rows[f].doc = sweepRow[f].doc =>
                             rows[f].doc \notin live
    OBVIOUS
  <2>2. SweepArchive(f)
    BY <1>1, <2>1, OnlySweepClears DEF Archives
  <2>3. f \in aged /\ info[f].scope # "org"
    BY <1>1, <2>1 DEF Archives, Chaining, FilesChained, FileChained
  <2>4. sweepRow[f].doc = NoDoc \/ sweepRow[f].doc \notin live
    BY <1>1, <2>2, FileStoreAssumption DEF SweepArchive, Withdrawn
  <2>5. NoDoc \notin live
    BY <1>1, FileStoreAssumption DEF Shape, TypeOK, StoreTypeOK
  <2>. QED
    BY <2>3, <2>4, <2>5
<1>. QED
  BY <1>1, WithdrawnInvariant, PTL DEF Spec, ArchivingIsSound

-----------------------------------------------------------------------------
(* Calls that do not overlap.  When Overlap is FALSE the file feature      *)
(* implements the atomic catalog.  The argument has three layers:          *)
(*                                                                         *)
(*   Alone      one activity runs at a time: a request, the processing     *)
(*              task of one file, or the sweep                             *)
(*   Fresh      so whoever holds a copy of a row holds the row             *)
(*   Standing   so a step leaves every row where it stands, but for the    *)
(*              five calls the catalog is about (see Stood)                *)
(*                                                                         *)
(* What the owner lists, what the documents' pointers say and the          *)
(* refinement of FileCatalog follow.                                       *)

Working(f) == task[f] \notin {"none", "done"}

Alone ==
    /\ \A r, s \in Reqs : pc[r] # "idle" /\ pc[s] # "idle" => r = s
    /\ \A f, g \in Files : Working(f) /\ Working(g) => f = g
    /\ \A r \in Reqs : pc[r] # "idle" =>
         loop \in {Free, r} /\ \A f \in Files : ~Working(f)
    /\ \A f \in Files : Working(f) => loop = Free
    /\ \A r \in Reqs : loop = r => pc[r] # "idle"
    /\ \A f \in Files : sweepRow[f] # NoRow => loop = Sweeper
    /\ sweepDoc # NoFile => sweepRow[sweepDoc] # NoRow

\* A row that list_by_owner(all_versions=False) shows.
Listed(f) ==
    Exists(f) /\ rows[f].latest /\ ~rows[f].deleted /\ ~rows[f].archived

SameName(f, owner, name) ==
    info[f] # NoInfo /\ info[f].owner = owner /\ info[f].name = name

HandlerFresh(r) ==
    /\ pc[r] \in {"purge_bytes", "purge_row"} =>
         Exists(ctx[r].old) /\ rows[ctx[r].old].archived
    /\ pc[r] = "supersede" => rows[ctx[r].old] = ctx[r].snap /\ Listed(ctx[r].old)
    /\ pc[r] \in PutPCs =>
         /\ \A f \in Files :
              SameName(f, ctx[r].input.owner, ctx[r].input.name) => ~Listed(f)
         /\ ctx[r].old # NoFile =>
              /\ Exists(ctx[r].old)
              /\ ~rows[ctx[r].old].deleted /\ ~rows[ctx[r].old].archived
    /\ pc[r] \in DeletePCs => Exists(ctx[r].file) /\ ~rows[ctx[r].file].deleted
    /\ pc[r] \in KnowledgePCs => rows[ctx[r].file] = ctx[r].snap
    /\ pc[r] = "save_promoted" => ctx[r].doc \in live
    /\ pc[r] \in {"unpublish", "save_demoted"} => ctx[r].snap.doc = ctx[r].doc

FileFresh(f) ==
    /\ task[f] \in {"fetched", "indexing", "derived"} => taskRow[f] = rows[f]
    /\ sweepRow[f] # NoRow =>
         /\ sweepRow[f] = rows[f]
         /\ ~rows[f].deleted /\ ~rows[f].archived

OneListed ==
    \A f, g \in Files : Listed(f) /\ Listed(g) /\
        info[f].owner = info[g].owner /\ info[f].name = info[g].name => f = g

HandlersFresh == \A r \in Reqs : HandlerFresh(r)
FilesFresh == \A f \in Files : FileFresh(f)

Fresh == HandlersFresh /\ FilesFresh /\ OneListed

\* A document that a row names is live, or the request that removed it is at
\* work on that row.
Pointed ==
    MayRestart \/ \A f \in Files : Exists(f) /\ rows[f].doc # NoDoc =>
        \/ rows[f].doc \in live
        \/ \E r \in Reqs : pc[r] = "save_demoted" /\ ctx[r].file = f
        \/ sweepDoc = f

\* A chunked upload meets the quota at init only, so it is excluded here.
CreatorsRoomy ==
    \A r \in Reqs : pc[r] \in CreatePCs => WithinQuota(ctx[r].input.owner)

Roomy == Uploads = {} => QuotaRespected /\ CreatorsRoomy

Serial == Alone /\ Fresh /\ Pointed /\ Roomy

-----------------------------------------------------------------------------
(* Who is not running.                                                     *)

NoSweep == (\A f \in Files : sweepRow[f] = NoRow) /\ sweepDoc = NoFile
NoTask  == \A f \in Files : ~Working(f)

OnlyRequest(r) ==
    /\ \A s \in Reqs : s # r => pc[s] = "idle"
    /\ NoTask /\ NoSweep
    /\ loop \in {Free, r}

OnlyTask(f) ==
    /\ \A r \in Reqs : pc[r] = "idle"
    /\ \A g \in Files : g # f => ~Working(g)
    /\ NoSweep
    /\ loop = Free

OnlySweep ==
    /\ \A r \in Reqs : pc[r] = "idle"
    /\ NoTask
    /\ loop = Sweeper

Nobody == (\A r \in Reqs : pc[r] = "idle") /\ NoTask /\ NoSweep /\ loop = Free

LEMMA AloneInRequest ==
    ASSUME Shape, Serial, NEW r \in Reqs, pc[r] # "idle" PROVE OnlyRequest(r)
BY FileLifecycleAssumption
   DEF Serial, Alone, OnlyRequest, NoTask, NoSweep, Shape, TypeOK

LEMMA AloneInTask ==
    ASSUME Shape, Serial, NEW f \in Files, Working(f) PROVE OnlyTask(f)
BY FileLifecycleAssumption
   DEF Serial, Alone, OnlyTask, NoSweep, Shape, TypeOK

LEMMA AloneInSweep ==
    ASSUME Shape, Serial, NEW f \in Files, sweepRow[f] # NoRow PROVE OnlySweep
BY FileLifecycleAssumption DEF Serial, Alone, OnlySweep, NoTask

LEMMA AloneAtStart ==
    ASSUME Shape, Serial, ~Overlap, Overlap \/ Quiet PROVE Quiet /\ Nobody
BY FileLifecycleAssumption
   DEF Serial, Alone, Quiet, Nobody, NoTask, NoSweep, Working, Shape, TypeOK

-----------------------------------------------------------------------------
(* A step that leaves every row standing where it stands.                  *)

SameStanding ==
    /\ info' = info
    /\ \A f \in Files :
         /\ Exists(f)' = Exists(f)
         /\ Exists(f) => /\ rows'[f].latest = rows[f].latest
                         /\ rows'[f].deleted = rows[f].deleted
                         /\ rows'[f].archived = rows[f].archived

\* A step after which the same files are between two versions.
SameHands ==
    StorageFails \/ MayRestart \/ \A f \in Files : Superseding(f)' = Superseding(f)

\* The calls the catalog is about.
CatalogCall ==
    \/ \E r \in Reqs : PurgeRow(r) \/ Supersede(r) \/ SaveNew(r) \/ DeleteRow(r)
    \/ \E f \in Files : SweepArchive(f)

Stood == CatalogCall \/ (SameStanding /\ SameHands)

\* A step that adds nothing to anybody's list.
Shrinks ==
    /\ info' = info
    /\ \A f \in Files :
         Exists(f)' /\ ~rows'[f].deleted /\ ~rows'[f].archived =>
           /\ Exists(f) /\ ~rows[f].deleted /\ ~rows[f].archived
           /\ rows'[f].latest => rows[f].latest

LEMMA StandingShrinks == SameStanding => Shrinks
BY DEF SameStanding, Shrinks

\* The list of an owner is finite.
LEMMA ListIsFinite ==
    ASSUME NEW o \in Owners
    PROVE  IsFiniteSet(ListByOwner(o)) /\ Cardinality(ListByOwner(o)) \in Nat
BY FileStoreAssumption, FS_Subset, FS_CardinalityType DEF ListByOwner

\* Where nothing is added, one version per name and the quota are kept.
LEMMA ShrinkKeeps ==
    ASSUME Shrinks
    PROVE  /\ \A f \in Files : Listed(f)' => Listed(f)
           /\ \A o \in Owners : WithinQuota(o) => WithinQuota(o)'
           /\ OneListed => OneListed'
           /\ QuotaRespected => QuotaRespected'
<1>1. \A f \in Files : Listed(f)' => Listed(f)
  BY DEF Shrinks, Listed
<1>2. ASSUME NEW o \in Owners
      PROVE  /\ Cardinality(ListByOwner(o)) \in Nat
             /\ Cardinality(ListByOwner(o)') \in Nat
             /\ Cardinality(ListByOwner(o)') <= Cardinality(ListByOwner(o))
  <2>1. ListByOwner(o)' \subseteq ListByOwner(o)
    BY DEF Shrinks, ListByOwner
  <2>. QED
    BY <2>1, ListIsFinite, FS_Subset, FS_CardinalityType
<1>3. \A o \in Owners : WithinQuota(o) => WithinQuota(o)'
  BY <1>2, FileLifecycleAssumption DEF WithinQuota
<1>4. QuotaRespected => QuotaRespected'
  BY <1>2, FileLifecycleAssumption DEF QuotaRespected
<1>. QED
  BY <1>1, <1>3, <1>4 DEF Shrinks, OneListed

\* A save that changes no flag of a row that is there.
LEMMA SaveStands ==
    ASSUME Shape, NEW f \in Files, NEW row \in Row, Save(f, row), info' = info,
           Exists(f), row.latest = rows[f].latest, row.deleted = rows[f].deleted,
           row.archived = rows[f].archived
    PROVE  SameStanding
BY FileStoreAssumption DEF SameStanding, Save, Exists, Shape, TypeOK, StoreTypeOK

\* Two rows never name one document.
LEMMA DocsDiffer ==
    ASSUME Backing, NEW f \in Files, NEW g \in Files, Exists(f), Exists(g),
           rows[f].doc # NoDoc, rows[f].doc = rows[g].doc
    PROVE  f = g
BY DEF Backing, FilesBacked, FileBacked, Backed

\* No request starts to create a file.
CreatorsStand ==
    \A r \in Reqs : pc'[r] \in CreatePCs =>
        pc[r] \in CreatePCs /\ ctx'[r].input = ctx[r].input

LEMMA CreatorsStay ==
    ASSUME Shape, Roomy, Shrinks, CreatorsStand
    PROVE  Uploads = {} => CreatorsRoomy'
<1>1. \A r \in Reqs : pc[r] \in CreatePCs => ctx[r].input.owner \in Owners
  BY CtxFields DEF Shape, TypeOK, HandlersShaped, HandlerShape, Payload
<1>. QED
  BY <1>1, ShrinkKeeps DEF Roomy, CreatorsRoomy, CreatorsStand

LEMMA SerialInit == Init => Serial
<1>1. ASSUME Init PROVE QuotaRespected
  <2>1. \A o \in Owners : ListByOwner(o) = {}
    BY <1>1 DEF Init, StoreInit, ListByOwner, Exists
  <2>. QED
    BY <2>1, FS_EmptySet, FileLifecycleAssumption DEF QuotaRespected
<1>. QED
  BY <1>1, FileLifecycleAssumption
     DEF Init, StoreInit, Serial, Alone, Working, Fresh, HandlersFresh,
         HandlerFresh, FilesFresh, FileFresh, OneListed, Listed, Pointed, Roomy,
         CreatorsRoomy, Exists, PutPCs, CreatePCs, DeletePCs, KnowledgePCs

\* Uploads and chunked uploads.
LEMMA SerialUpload ==
    ASSUME Shape, Shape', Backing, Chaining, Serial, UploadActions, ~Overlap PROVE Serial' /\ Stood
<1> USE DEF Goto, storeVars, chunkVars, taskVars, sweepVars, docVars, Serial, Fresh, Roomy
<1>1. ASSUME NEW u \in Uploads, NEW p \in Payload,
            InitUpload(u, p)
     PROVE  Serial' /\ Stood
  <2>1. Quiet /\ Nobody
    BY <1>1, AloneAtStart DEF InitUpload
  <2>2. Alone'
    BY <1>1, <2>1, FileLifecycleAssumption
       DEF Alone, InitUpload, Nobody, NoSweep, NoTask, Quiet, Shape, TypeOK,
           Working
  <2>3. HandlersFresh'
    BY <1>1, <2>1, CtxFields, EditsKeep
       DEF CreatePCs, DeletePCs, Exists, HandlerFresh, HandlersFresh,
           HandlerShape, HandlersShaped, InitUpload, KnowledgePCs, Listed,
           Nobody, NoSweep, NoTask, PutPCs, Quiet, SameName, Shape,
           StoreTypeOK, TypeOK, Working
  <2>4. FilesFresh'
    BY <1>1, <2>1, EditsKeep
       DEF Exists, FileFresh, FilesFresh, FileShape, FilesShaped, InitUpload,
           Nobody, NoSweep, NoTask, Quiet, Shape, StoreTypeOK, TypeOK, Working
  <2>5. SameStanding
    BY <1>1, <2>1, EditsKeep, FileStoreAssumption, CtxFields
       DEF CreatePCs, DeletePCs, Exists, FileFresh, FilesFresh, FileShape,
           FilesShaped, HandlerFresh, HandlersFresh, HandlerShape,
           HandlersShaped, InitUpload, KnowledgePCs, Nobody, NoSweep, NoTask,
           PutPCs, Quiet, SameStanding, Shape, StoreTypeOK, TypeOK, Working
  <2>6. Pointed'
    BY <1>1, <2>1, EditsKeep, CtxFields
       DEF CreatePCs, DeletePCs, Exists, FileFresh, FilesFresh, HandlerFresh,
           HandlersFresh, HandlerShape, HandlersShaped, InitUpload,
           KnowledgePCs, Nobody, NoSweep, NoTask, Pointed, PutPCs, Quiet,
           Shape, StoreTypeOK, TypeOK, Working
  <2>7. Uploads = {} => CreatorsRoomy'
    BY <1>1, <2>1, <2>5, StandingShrinks, CreatorsStay
       DEF CreatePCs, CreatorsStand, InitUpload, Nobody, NoSweep, NoTask,
           Quiet, Shape, TypeOK, Working
  <2>8. SameHands
    BY <1>1, <2>1, CtxFields
       DEF InitUpload, Nobody, NoSweep, NoTask, Quiet, SameHands, Shape,
           Superseding, TypeOK, Working
  <2>. QED
    BY <2>2, <2>3, <2>4, <2>5, <2>6, <2>7, <2>8, StandingShrinks, ShrinkKeeps
       DEF Stood
<1>2. ASSUME NEW u \in Uploads, PutChunks(u) PROVE Serial' /\ Stood
  <2>2. Alone'
    BY <1>2, FileLifecycleAssumption
       DEF Alone, PutChunks, Shape, TypeOK, Working
  <2>3. HandlersFresh'
    BY <1>2, CtxFields, EditsKeep
       DEF CreatePCs, DeletePCs, Exists, HandlerFresh, HandlersFresh,
           HandlerShape, HandlersShaped, KnowledgePCs, Listed, PutChunks,
           PutPCs, SameName, Shape, StoreTypeOK, TypeOK, Working
  <2>4. FilesFresh'
    BY <1>2, EditsKeep
       DEF Exists, FileFresh, FilesFresh, FileShape, FilesShaped, PutChunks,
           Shape, StoreTypeOK, TypeOK, Working
  <2>5. SameStanding
    BY <1>2, EditsKeep, FileStoreAssumption, CtxFields
       DEF CreatePCs, DeletePCs, Exists, FileFresh, FilesFresh, FileShape,
           FilesShaped, HandlerFresh, HandlersFresh, HandlerShape,
           HandlersShaped, KnowledgePCs, PutChunks, PutPCs, SameStanding,
           Shape, StoreTypeOK, TypeOK, Working
  <2>6. Pointed'
    BY <1>2, EditsKeep, CtxFields
       DEF CreatePCs, DeletePCs, Exists, FileFresh, FilesFresh, HandlerFresh,
           HandlersFresh, HandlerShape, HandlersShaped, KnowledgePCs, Pointed,
           PutChunks, PutPCs, Shape, StoreTypeOK, TypeOK, Working
  <2>7. Uploads = {} => CreatorsRoomy'
    BY <1>2, <2>5, StandingShrinks, CreatorsStay
       DEF CreatePCs, CreatorsStand, PutChunks, Shape, TypeOK, Working
  <2>8. SameHands
    BY <1>2, CtxFields
       DEF PutChunks, SameHands, Shape, Superseding, TypeOK, Working
  <2>. QED
    BY <2>2, <2>3, <2>4, <2>5, <2>6, <2>7, <2>8, StandingShrinks, ShrinkKeeps
       DEF Stood
<1>3. ASSUME NEW r \in Reqs, NEW p \in Payload, NEW f \in Files,
            UploadStart(r, p, f)
     PROVE  Serial' /\ Stood
  <2>1. Quiet /\ Nobody
    BY <1>3, AloneAtStart DEF MayStart, UploadStart
  <2>2. Alone'
    BY <1>3, <2>1, FileLifecycleAssumption
       DEF Alone, Blank, FreshFiles, MayStart, Nobody, NoSweep, NoTask, Quiet,
           Shape, TypeOK, UploadStart, Working
  <2>3. HandlersFresh'
    BY <1>3, <2>1, CtxFields, EditsKeep
       DEF Blank, CreatePCs, DeletePCs, Exists, FreshFiles, HandlerFresh,
           HandlersFresh, HandlerShape, HandlersShaped, KnowledgePCs, Listed,
           MayStart, Nobody, NoSweep, NoTask, PutPCs, Quiet, SameName, Shape,
           StoreTypeOK, TypeOK, UploadStart, Working
  <2>4. FilesFresh'
    BY <1>3, <2>1, EditsKeep
       DEF Blank, Exists, FileFresh, FilesFresh, FileShape, FilesShaped,
           FreshFiles, MayStart, Nobody, NoSweep, NoTask, Quiet, Shape,
           StoreTypeOK, TypeOK, UploadStart, Working
  <2>5. SameStanding
    BY <1>3, <2>1, EditsKeep, FileStoreAssumption, CtxFields
       DEF Blank, CreatePCs, DeletePCs, Exists, FileFresh, FilesFresh,
           FileShape, FilesShaped, FreshFiles, HandlerFresh, HandlersFresh,
           HandlerShape, HandlersShaped, KnowledgePCs, MayStart, Nobody,
           NoSweep, NoTask, PutPCs, Quiet, SameStanding, Shape, StoreTypeOK,
           TypeOK, UploadStart, Working
  <2>6. Pointed'
    BY <1>3, <2>1, EditsKeep, CtxFields
       DEF Blank, CreatePCs, DeletePCs, Exists, FileFresh, FilesFresh,
           FreshFiles, HandlerFresh, HandlersFresh, HandlerShape,
           HandlersShaped, KnowledgePCs, MayStart, Nobody, NoSweep, NoTask,
           Pointed, PutPCs, Quiet, Shape, StoreTypeOK, TypeOK, UploadStart,
           Working
  <2>7. Uploads = {} => CreatorsRoomy'
    BY <1>3, <2>1, <2>5, StandingShrinks, ShrinkKeeps, CtxFields
       DEF Blank, CreatePCs, CreatorsRoomy, DeletePCs, FreshFiles,
           HandlerShape, HandlersShaped, KnowledgePCs, MayStart, Nobody,
           NoSweep, NoTask, Payload, PutPCs, Quiet, Shape, StoreTypeOK, TypeOK,
           UploadStart, Working
  <2>8. SameHands
    BY <1>3, <2>1, CtxFields
       DEF Blank, MayStart, Nobody, NoSweep, NoTask, Quiet, SameHands, Shape,
           Superseding, TypeOK, UploadStart, Working
  <2>. QED
    BY <2>2, <2>3, <2>4, <2>5, <2>6, <2>7, <2>8, StandingShrinks, ShrinkKeeps
       DEF Stood
<1>4. ASSUME NEW r \in Reqs, NEW u \in Uploads, NEW f \in Files,
            CompleteStart(r, u, f)
     PROVE  Serial' /\ Stood
  <2>1. Quiet /\ Nobody
    BY <1>4, AloneAtStart DEF CompleteStart, MayStart
  <2>2. Alone'
    BY <1>4, <2>1, FileLifecycleAssumption
       DEF Alone, Blank, CompleteStart, FreshFiles, MayStart, Nobody, NoSweep,
           NoTask, Quiet, Shape, TypeOK, Working
  <2>3. HandlersFresh'
    BY <1>4, <2>1, CtxFields, EditsKeep
       DEF Blank, CompleteStart, CreatePCs, DeletePCs, Exists, FreshFiles,
           HandlerFresh, HandlersFresh, HandlerShape, HandlersShaped,
           KnowledgePCs, Listed, MayStart, Nobody, NoSweep, NoTask, PutPCs,
           Quiet, SameName, Shape, StoreTypeOK, TypeOK, Working
  <2>4. FilesFresh'
    BY <1>4, <2>1, EditsKeep
       DEF Blank, CompleteStart, Exists, FileFresh, FilesFresh, FileShape,
           FilesShaped, FreshFiles, MayStart, Nobody, NoSweep, NoTask, Quiet,
           Shape, StoreTypeOK, TypeOK, Working
  <2>5. SameStanding
    BY <1>4, <2>1, EditsKeep, FileStoreAssumption, CtxFields
       DEF Blank, CompleteStart, CreatePCs, DeletePCs, Exists, FileFresh,
           FilesFresh, FileShape, FilesShaped, FreshFiles, HandlerFresh,
           HandlersFresh, HandlerShape, HandlersShaped, KnowledgePCs, MayStart,
           Nobody, NoSweep, NoTask, PutPCs, Quiet, SameStanding, Shape,
           StoreTypeOK, TypeOK, Working
  <2>6. Pointed'
    BY <1>4, <2>1, EditsKeep, CtxFields
       DEF Blank, CompleteStart, CreatePCs, DeletePCs, Exists, FileFresh,
           FilesFresh, FreshFiles, HandlerFresh, HandlersFresh, HandlerShape,
           HandlersShaped, KnowledgePCs, MayStart, Nobody, NoSweep, NoTask,
           Pointed, PutPCs, Quiet, Shape, StoreTypeOK, TypeOK, Working
  <2>7. Uploads = {} => CreatorsRoomy'
    OBVIOUS
  <2>8. SameHands
    BY <1>4, <2>1, CtxFields
       DEF Blank, CompleteStart, MayStart, Nobody, NoSweep, NoTask, Quiet,
           SameHands, Shape, Superseding, TypeOK, Working
  <2>. QED
    BY <2>2, <2>3, <2>4, <2>5, <2>6, <2>7, <2>8, StandingShrinks, ShrinkKeeps
       DEF Stood
<1>5. ASSUME NEW r \in Reqs, ReadChunks(r) PROVE Serial' /\ Stood
  <2>1. pc[r] # "idle" /\ OnlyRequest(r)
    BY <1>5, AloneInRequest DEF ReadChunks
  <2>2. Alone'
    BY <1>5, <2>1, FileLifecycleAssumption
       DEF Alone, Blank, Finish, NoSweep, NoTask, OnlyRequest, ReadChunks,
           Shape, TypeOK, Working
  <2>3. HandlersFresh'
    BY <1>5, <2>1, CtxFields, EditsKeep
       DEF Blank, CreatePCs, DeletePCs, Exists, Finish, HandlerFresh,
           HandlersFresh, HandlerShape, HandlersShaped, KnowledgePCs, Listed,
           NoSweep, NoTask, OnlyRequest, PutPCs, ReadChunks, SameName, Shape,
           StoreTypeOK, TypeOK, Working
  <2>4. FilesFresh'
    BY <1>5, <2>1, EditsKeep
       DEF Blank, Exists, FileFresh, FilesFresh, FileShape, FilesShaped,
           Finish, NoSweep, NoTask, OnlyRequest, ReadChunks, Shape,
           StoreTypeOK, TypeOK, Working
  <2>5. SameStanding
    BY <1>5, <2>1, EditsKeep, FileStoreAssumption, CtxFields
       DEF Blank, CreatePCs, DeletePCs, Exists, FileFresh, FilesFresh,
           FileShape, FilesShaped, Finish, HandlerFresh, HandlersFresh,
           HandlerShape, HandlersShaped, KnowledgePCs, NoSweep, NoTask,
           OnlyRequest, PutPCs, ReadChunks, SameStanding, Shape, StoreTypeOK,
           TypeOK, Working
  <2>6. Pointed'
    BY <1>5, <2>1, EditsKeep, CtxFields
       DEF Blank, CreatePCs, DeletePCs, Exists, FileFresh, FilesFresh, Finish,
           HandlerFresh, HandlersFresh, HandlerShape, HandlersShaped,
           KnowledgePCs, NoSweep, NoTask, OnlyRequest, Pointed, PutPCs,
           ReadChunks, Shape, StoreTypeOK, TypeOK, Working
  <2>7. Uploads = {} => CreatorsRoomy'
    BY <1>5, <2>1, <2>5, StandingShrinks, CreatorsStay
       DEF Blank, CreatePCs, CreatorsStand, Finish, NoSweep, NoTask,
           OnlyRequest, ReadChunks, Shape, TypeOK, Working
  <2>8. SameHands
    BY <1>5, <2>1, CtxFields
       DEF Blank, Finish, NoSweep, NoTask, OnlyRequest, ReadChunks, SameHands,
           Shape, Superseding, TypeOK, Working
  <2>. QED
    BY <2>2, <2>3, <2>4, <2>5, <2>6, <2>7, <2>8, StandingShrinks, ShrinkKeeps
       DEF Stood
<1>6. ASSUME NEW r \in Reqs, FindDuplicate(r) PROVE Serial' /\ Stood
  <2>1. pc[r] # "idle" /\ OnlyRequest(r)
    BY <1>6, AloneInRequest DEF FindDuplicate
  <2>a. PICK to \in {"find_latest", "purge_bytes"} :
          /\ Goto(r, to)
          /\ \A s \in Reqs : s # r => ctx'[s] = ctx[s]
          /\ ctx'[r].input = ctx[r].input
          /\ to = "purge_bytes" =>
               Exists(ctx'[r].old) /\ rows[ctx'[r].old].archived
    <3>1. CASE Goto(r, "find_latest") /\ UNCHANGED ctx
      BY <3>1
    <3>2. ASSUME NEW f \in Files, Exists(f), rows[f].archived,
                 ctx' = [ctx EXCEPT ![r].old = f], Goto(r, "purge_bytes")
          PROVE  /\ \A s \in Reqs : s # r => ctx'[s] = ctx[s]
                 /\ ctx'[r].input = ctx[r].input
                 /\ Exists(ctx'[r].old) /\ rows[ctx'[r].old].archived
      BY <3>2 DEF Ctx, Shape, TypeOK
    <3>. QED
      BY <1>6, <3>1, <3>2 DEF FindDuplicate, ArchivedWithHash
  <2>2. Alone'
    BY <1>6, <2>1, FileLifecycleAssumption
       DEF Alone, FindDuplicate, NoSweep, NoTask, OnlyRequest, Shape, TypeOK,
           Working
  <2>3. HandlersFresh'
    BY <1>6, <2>1, <2>a
       DEF FindDuplicate, OnlyRequest, HandlersFresh, HandlerFresh, Exists,
           PutPCs, DeletePCs, KnowledgePCs, Shape, TypeOK
  <2>4. FilesFresh'
    BY <1>6, <2>1, EditsKeep
       DEF Exists, FileFresh, FilesFresh, FileShape, FilesShaped,
           FindDuplicate, NoSweep, NoTask, OnlyRequest, Shape, StoreTypeOK,
           TypeOK, Working
  <2>5. SameStanding
    BY <1>6, <2>1, EditsKeep, FileStoreAssumption, CtxFields
       DEF CreatePCs, DeletePCs, Exists, FileFresh, FilesFresh, FileShape,
           FilesShaped, FindDuplicate, HandlerFresh, HandlersFresh,
           HandlerShape, HandlersShaped, KnowledgePCs, NoSweep, NoTask,
           OnlyRequest, PutPCs, SameStanding, Shape, StoreTypeOK, TypeOK,
           Working
  <2>6. Pointed'
    BY <1>6, <2>1, EditsKeep, CtxFields
       DEF CreatePCs, DeletePCs, Exists, FileFresh, FilesFresh, FindDuplicate,
           HandlerFresh, HandlersFresh, HandlerShape, HandlersShaped,
           KnowledgePCs, NoSweep, NoTask, OnlyRequest, Pointed, PutPCs, Shape,
           StoreTypeOK, TypeOK, Working
  <2>7. Uploads = {} => CreatorsRoomy'
    BY <1>6, <2>1, <2>5, <2>a, StandingShrinks, CreatorsStay
       DEF FindDuplicate, OnlyRequest, CreatePCs, CreatorsStand, Shape, TypeOK
  <2>8. SameHands
    BY <1>6, <2>1, <2>a
       DEF FindDuplicate, OnlyRequest, SameHands, Superseding, Shape, TypeOK
  <2>. QED
    BY <2>2, <2>3, <2>4, <2>5, <2>6, <2>7, <2>8, StandingShrinks, ShrinkKeeps
       DEF Stood
<1>7. ASSUME NEW r \in Reqs, PurgeBytes(r) PROVE Serial' /\ Stood
  <2>1. pc[r] # "idle" /\ OnlyRequest(r)
    BY <1>7, AloneInRequest DEF PurgeBytes
  <2>2. Alone'
    BY <1>7, <2>1, FileLifecycleAssumption
       DEF Alone, DeleteObjects, NoSweep, NoTask, OnlyRequest, PurgeBytes,
           Shape, TypeOK, Working
  <2>3. HandlersFresh'
    BY <1>7, <2>1, CtxFields, EditsKeep
       DEF CreatePCs, DeleteObjects, DeletePCs, Exists, HandlerFresh,
           HandlersFresh, HandlerShape, HandlersShaped, KnowledgePCs, Listed,
           NoSweep, NoTask, OnlyRequest, PurgeBytes, PutPCs, SameName, Shape,
           StoreTypeOK, TypeOK, Working
  <2>4. FilesFresh'
    BY <1>7, <2>1, EditsKeep
       DEF DeleteObjects, Exists, FileFresh, FilesFresh, FileShape,
           FilesShaped, NoSweep, NoTask, OnlyRequest, PurgeBytes, Shape,
           StoreTypeOK, TypeOK, Working
  <2>5. SameStanding
    BY <1>7, <2>1, EditsKeep, FileStoreAssumption, CtxFields
       DEF CreatePCs, DeleteObjects, DeletePCs, Exists, FileFresh, FilesFresh,
           FileShape, FilesShaped, HandlerFresh, HandlersFresh, HandlerShape,
           HandlersShaped, KnowledgePCs, NoSweep, NoTask, OnlyRequest,
           PurgeBytes, PutPCs, SameStanding, Shape, StoreTypeOK, TypeOK,
           Working
  <2>6. Pointed'
    BY <1>7, <2>1, EditsKeep, CtxFields
       DEF CreatePCs, DeleteObjects, DeletePCs, Exists, FileFresh, FilesFresh,
           HandlerFresh, HandlersFresh, HandlerShape, HandlersShaped,
           KnowledgePCs, NoSweep, NoTask, OnlyRequest, Pointed, PurgeBytes,
           PutPCs, Shape, StoreTypeOK, TypeOK, Working
  <2>7. Uploads = {} => CreatorsRoomy'
    BY <1>7, <2>1, <2>5, StandingShrinks, CreatorsStay
       DEF CreatePCs, CreatorsStand, DeleteObjects, NoSweep, NoTask,
           OnlyRequest, PurgeBytes, Shape, TypeOK, Working
  <2>8. SameHands
    BY <1>7, <2>1, CtxFields
       DEF NoSweep, NoTask, OnlyRequest, PurgeBytes, SameHands, Shape,
           Superseding, TypeOK, Working
  <2>. QED
    BY <2>2, <2>3, <2>4, <2>5, <2>6, <2>7, <2>8, StandingShrinks, ShrinkKeeps
       DEF Stood
<1>8. ASSUME NEW r \in Reqs, PurgeRow(r) PROVE Serial' /\ Stood
  <2>1. pc[r] # "idle" /\ OnlyRequest(r)
    BY <1>8, AloneInRequest DEF PurgeRow
  <2>2. Alone'
    BY <1>8, <2>1, FileLifecycleAssumption
       DEF Alone, Exists, HardDelete, NoSweep, NoTask, OnlyRequest, PurgeRow,
           Shape, TypeOK, Working
  <2>3. HandlersFresh'
    BY <1>8, <2>1, CtxFields, EditsKeep
       DEF CreatePCs, DeletePCs, Exists, HandlerFresh, HandlersFresh,
           HandlerShape, HandlersShaped, HardDelete, KnowledgePCs, Listed,
           NoSweep, NoTask, OnlyRequest, PurgeRow, PutPCs, SameName, Shape,
           StoreTypeOK, TypeOK, Working
  <2>4. FilesFresh'
    BY <1>8, <2>1, EditsKeep
       DEF Exists, FileFresh, FilesFresh, FileShape, FilesShaped, HardDelete,
           NoSweep, NoTask, OnlyRequest, PurgeRow, Shape, StoreTypeOK, TypeOK,
           Working
  <2>5. Shrinks
    BY <1>8, <2>1 DEF PurgeRow, HardDelete, Shrinks, Exists, Shape, TypeOK, StoreTypeOK
  <2>6. Pointed'
    BY <1>8, <2>1, EditsKeep, CtxFields
       DEF CreatePCs, DeletePCs, Exists, FileFresh, FilesFresh, HandlerFresh,
           HandlersFresh, HandlerShape, HandlersShaped, HardDelete,
           KnowledgePCs, NoSweep, NoTask, OnlyRequest, Pointed, PurgeRow,
           PutPCs, Shape, StoreTypeOK, TypeOK, Working
  <2>7. Uploads = {} => CreatorsRoomy'
    BY <1>8, <2>1, <2>5, CreatorsStay
       DEF CreatePCs, CreatorsStand, Exists, HardDelete, NoSweep, NoTask,
           OnlyRequest, PurgeRow, Shape, TypeOK, Working
  <2>8. CatalogCall
    BY <1>8 DEF CatalogCall
  <2>. QED
    BY <2>2, <2>3, <2>4, <2>5, <2>6, <2>7, <2>8, ShrinkKeeps
       DEF Stood
<1>9. ASSUME NEW r \in Reqs, FindLatest(r) PROVE Serial' /\ Stood
  <2>1. pc[r] # "idle" /\ OnlyRequest(r)
    BY <1>9, AloneInRequest DEF FindLatest
  <2>a. PICK to \in {"put", "supersede"} :
          /\ Goto(r, to)
          /\ \A s \in Reqs : s # r => ctx'[s] = ctx[s]
          /\ ctx'[r].input = ctx[r].input
          /\ to = "put" =>
               /\ ctx'[r].old = NoFile
               /\ \A f \in Files :
                    SameName(f, ctx[r].input.owner, ctx[r].input.name) => ~Listed(f)
          /\ to = "supersede" =>
               Listed(ctx'[r].old) /\ ctx'[r].snap = rows[ctx'[r].old]
    <3>1. CASE /\ Goto(r, "put") /\ UNCHANGED ctx
               /\ PreviousLatest(ctx[r].input.owner, ctx[r].input.name) = {}
      <4>1. ASSUME NEW f \in Files, Listed(f),
                   SameName(f, ctx[r].input.owner, ctx[r].input.name)
            PROVE  f \in PreviousLatest(ctx[r].input.owner, ctx[r].input.name)
        <5>1. info[f].created \in Nat
          BY <4>1 DEF SameName, Shape, TypeOK, StoreTypeOK, Info
        <5>2. \A g \in Files : Listed(g) /\ info[g].owner = ctx[r].input.owner
                               /\ info[g].name = ctx[r].input.name => g = f
          BY <4>1 DEF OneListed, SameName
        <5>. QED
          BY <4>1, <5>1, <5>2
             DEF PreviousLatest, ListLatestByOwner, ListByOwner, Listed, SameName
      <4>2. ctx[r].old = NoFile
        BY <1>9 DEF FindLatest, Chaining, HandlersChained, HandlerChained
      <4>. QED
        BY <3>1, <4>1, <4>2
    <3>2. ASSUME NEW f \in Files, Listed(f),
                 ctx' = [ctx EXCEPT ![r].old = f, ![r].snap = rows[f]],
                 Goto(r, "supersede")
          PROVE  /\ \A s \in Reqs : s # r => ctx'[s] = ctx[s]
                 /\ ctx'[r].input = ctx[r].input
                 /\ Listed(ctx'[r].old) /\ ctx'[r].snap = rows[ctx'[r].old]
      BY <3>2 DEF Ctx, Shape, TypeOK
    <3>3. PreviousLatest(ctx[r].input.owner, ctx[r].input.name)
            \subseteq {f \in Files : Listed(f)}
      BY DEF PreviousLatest, ListLatestByOwner, ListByOwner, Listed
    <3>. QED
      BY <1>9, <3>1, <3>2, <3>3 DEF FindLatest
  <2>2. Alone'
    BY <1>9, <2>1, <2>a, FileLifecycleAssumption
       DEF FindLatest, OnlyRequest, NoTask, NoSweep, Working, Alone, Shape, TypeOK
  <2>3. HandlersFresh'
    BY <1>9, <2>1, <2>a
       DEF FindLatest, OnlyRequest, HandlersFresh, HandlerFresh, Listed, SameName,
           Exists, PutPCs, DeletePCs, KnowledgePCs, Shape, TypeOK
  <2>4. FilesFresh'
    BY <1>9, <2>1, EditsKeep
       DEF Exists, FileFresh, FilesFresh, FileShape, FilesShaped, FindLatest,
           NoSweep, NoTask, OnlyRequest, Shape, StoreTypeOK, TypeOK, Working
  <2>5. SameStanding
    BY <1>9, <2>1, EditsKeep, FileStoreAssumption, CtxFields
       DEF CreatePCs, DeletePCs, Exists, FileFresh, FilesFresh, FileShape,
           FilesShaped, FindLatest, HandlerFresh, HandlersFresh, HandlerShape,
           HandlersShaped, KnowledgePCs, NoSweep, NoTask, OnlyRequest, PutPCs,
           SameStanding, Shape, StoreTypeOK, TypeOK, Working
  <2>6. Pointed'
    BY <1>9, <2>1, EditsKeep, CtxFields
       DEF CreatePCs, DeletePCs, Exists, FileFresh, FilesFresh, FindLatest,
           HandlerFresh, HandlersFresh, HandlerShape, HandlersShaped,
           KnowledgePCs, NoSweep, NoTask, OnlyRequest, Pointed, PutPCs, Shape,
           StoreTypeOK, TypeOK, Working
  <2>7. Uploads = {} => CreatorsRoomy'
    BY <1>9, <2>1, <2>5, <2>a, StandingShrinks, CreatorsStay
       DEF FindLatest, OnlyRequest, CreatePCs, CreatorsStand, Shape, TypeOK
  <2>8. SameHands
    BY <1>9, <2>1, <2>a, FileStoreAssumption
       DEF FindLatest, OnlyRequest, SameHands, Superseding, Shape, TypeOK
  <2>. QED
    BY <2>2, <2>3, <2>4, <2>5, <2>6, <2>7, <2>8, StandingShrinks, ShrinkKeeps
       DEF Stood
<1>10. ASSUME NEW r \in Reqs, Supersede(r) PROVE Serial' /\ Stood
  <2>1. pc[r] # "idle" /\ OnlyRequest(r)
    BY <1>10, AloneInRequest DEF Supersede
  <2>a. PICK old \in Files : /\ old = ctx[r].old /\ Listed(old)
                             /\ rows[old] \in Row /\ rows[old] = ctx[r].snap
    BY <1>10, CtxFields
       DEF Supersede, Listed, Exists, Shape, TypeOK, StoreTypeOK, HandlersShaped,
           HandlerShape, HandlersFresh, HandlerFresh
  <2>b. PICK row \in Row : /\ Save(old, row) /\ ~row.latest
                           /\ row.deleted = rows[old].deleted
                           /\ row.archived = rows[old].archived
                           /\ row.doc = rows[old].doc
    <3>1. [rows[old] EXCEPT !.latest = FALSE] \in Row
      BY <2>a DEF Row
    <3>2. Save(old, [rows[old] EXCEPT !.latest = FALSE])
      BY <1>10, <2>a DEF Supersede, Save
    <3>. QED
      BY <2>a, <3>1, <3>2, EditsKeep
  <2>c. /\ rows'[old] = row /\ \A f \in Files : f # old => rows'[f] = rows[f]
        /\ UNCHANGED <<info, ctx, sweepVars, live>> /\ Goto(r, "put")
        /\ pc[r] = "supersede"
    BY <1>10, <2>b DEF Supersede, Save, Shape, TypeOK, StoreTypeOK
  <2>2. Alone'
    BY <1>10, <2>1, FileLifecycleAssumption
       DEF Alone, NoSweep, NoTask, OnlyRequest, Shape, Supersede, TypeOK,
           Working
  <2>3. HandlersFresh'
    <3>1. \A f \in Files :
            SameName(f, ctx[r].input.owner, ctx[r].input.name) /\ Listed(f) => f = old
      BY <1>10, <2>a, <2>c, FileStoreAssumption
         DEF OneListed, SameName, Chaining, HandlersChained, HandlerChained
    <3>2. \A f \in Files :
            SameName(f, ctx[r].input.owner, ctx[r].input.name)' => ~Listed(f)'
      BY <2>b, <2>c, <3>1 DEF SameName, Listed, Exists
    <3>3. Exists(old)' /\ ~rows'[old].deleted /\ ~rows'[old].archived
      BY <2>a, <2>b, <2>c, FileStoreAssumption DEF Listed, Exists
    <3>. QED
      BY <2>1, <2>a, <2>c, <3>2, <3>3
         DEF OnlyRequest, HandlersFresh, HandlerFresh, PutPCs, DeletePCs,
             KnowledgePCs, Shape, TypeOK
  <2>4. FilesFresh'
    BY <1>10, <2>1, EditsKeep
       DEF Exists, FileFresh, FilesFresh, FileShape, FilesShaped, NoSweep,
           NoTask, OnlyRequest, Shape, StoreTypeOK, Supersede, TypeOK, Working
  <2>5. Shrinks
    BY <2>a, <2>b, <2>c DEF Shrinks, Listed, Exists
  <2>6. Pointed'
    BY <2>a, <2>b, <2>c DEF Pointed, Listed, Exists, Shape, TypeOK
  <2>7. Uploads = {} => CreatorsRoomy'
    BY <1>10, <2>1, <2>5, CreatorsStay
       DEF CreatePCs, CreatorsStand, NoSweep, NoTask, OnlyRequest, Shape,
           Supersede, TypeOK, Working
  <2>8. CatalogCall
    BY <1>10 DEF CatalogCall
  <2>. QED
    BY <2>2, <2>3, <2>4, <2>5, <2>6, <2>7, <2>8, ShrinkKeeps
       DEF Stood
<1>11. ASSUME NEW r \in Reqs, PutOriginal(r) PROVE Serial' /\ Stood
  <2>1. pc[r] # "idle" /\ OnlyRequest(r)
    BY <1>11, AloneInRequest DEF PutOriginal
  <2>2. Alone'
    BY <1>11, <2>1, FileLifecycleAssumption
       DEF Alone, NoSweep, NoTask, OnlyRequest, PutOriginal, Shape, TypeOK,
           Working
  <2>3. HandlersFresh'
    BY <1>11, <2>1, CtxFields, EditsKeep
       DEF CreatePCs, DeletePCs, Exists, HandlerFresh, HandlersFresh,
           HandlerShape, HandlersShaped, KnowledgePCs, Listed, NoSweep, NoTask,
           OnlyRequest, PutOriginal, PutPCs, SameName, Shape, StoreTypeOK,
           TypeOK, Working
  <2>4. FilesFresh'
    BY <1>11, <2>1, EditsKeep
       DEF Exists, FileFresh, FilesFresh, FileShape, FilesShaped, NoSweep,
           NoTask, OnlyRequest, PutOriginal, Shape, StoreTypeOK, TypeOK,
           Working
  <2>5. SameStanding
    BY <1>11, <2>1, EditsKeep, FileStoreAssumption, CtxFields
       DEF CreatePCs, DeletePCs, Exists, FileFresh, FilesFresh, FileShape,
           FilesShaped, HandlerFresh, HandlersFresh, HandlerShape,
           HandlersShaped, KnowledgePCs, NoSweep, NoTask, OnlyRequest,
           PutOriginal, PutPCs, SameStanding, Shape, StoreTypeOK, TypeOK,
           Working
  <2>6. Pointed'
    BY <1>11, <2>1, EditsKeep, CtxFields
       DEF CreatePCs, DeletePCs, Exists, FileFresh, FilesFresh, HandlerFresh,
           HandlersFresh, HandlerShape, HandlersShaped, KnowledgePCs, NoSweep,
           NoTask, OnlyRequest, Pointed, PutOriginal, PutPCs, Shape,
           StoreTypeOK, TypeOK, Working
  <2>7. Uploads = {} => CreatorsRoomy'
    BY <1>11, <2>1, <2>5, StandingShrinks, CreatorsStay
       DEF CreatePCs, CreatorsStand, NoSweep, NoTask, OnlyRequest, PutOriginal,
           Shape, TypeOK, Working
  <2>8. SameHands
    BY <1>11, <2>1, CtxFields
       DEF NoSweep, NoTask, OnlyRequest, PutOriginal, SameHands, Shape,
           Superseding, TypeOK, Working
  <2>. QED
    BY <2>2, <2>3, <2>4, <2>5, <2>6, <2>7, <2>8, StandingShrinks, ShrinkKeeps
       DEF Stood
<1>12. ASSUME NEW r \in Reqs, PutFails(r) PROVE Serial' /\ Stood
  <2>1. pc[r] # "idle" /\ OnlyRequest(r)
    BY <1>12, AloneInRequest DEF PutFails
  <2>2. Alone'
    BY <1>12, <2>1, FileLifecycleAssumption
       DEF Alone, Blank, Finish, NoSweep, NoTask, OnlyRequest, PutFails, Shape,
           TypeOK, Working
  <2>3. HandlersFresh'
    BY <1>12, <2>1, CtxFields, EditsKeep
       DEF Blank, CreatePCs, DeletePCs, Exists, Finish, HandlerFresh,
           HandlersFresh, HandlerShape, HandlersShaped, KnowledgePCs, Listed,
           NoSweep, NoTask, OnlyRequest, PutFails, PutPCs, SameName, Shape,
           StoreTypeOK, TypeOK, Working
  <2>4. FilesFresh'
    BY <1>12, <2>1, EditsKeep
       DEF Blank, Exists, FileFresh, FilesFresh, FileShape, FilesShaped,
           Finish, NoSweep, NoTask, OnlyRequest, PutFails, Shape, StoreTypeOK,
           TypeOK, Working
  <2>5. SameStanding
    BY <1>12, <2>1, EditsKeep, FileStoreAssumption, CtxFields
       DEF Blank, CreatePCs, DeletePCs, Exists, FileFresh, FilesFresh,
           FileShape, FilesShaped, Finish, HandlerFresh, HandlersFresh,
           HandlerShape, HandlersShaped, KnowledgePCs, NoSweep, NoTask,
           OnlyRequest, PutFails, PutPCs, SameStanding, Shape, StoreTypeOK,
           TypeOK, Working
  <2>6. Pointed'
    BY <1>12, <2>1, EditsKeep, CtxFields
       DEF Blank, CreatePCs, DeletePCs, Exists, FileFresh, FilesFresh, Finish,
           HandlerFresh, HandlersFresh, HandlerShape, HandlersShaped,
           KnowledgePCs, NoSweep, NoTask, OnlyRequest, Pointed, PutFails,
           PutPCs, Shape, StoreTypeOK, TypeOK, Working
  <2>7. Uploads = {} => CreatorsRoomy'
    BY <1>12, <2>1, <2>5, StandingShrinks, CreatorsStay
       DEF Blank, CreatePCs, CreatorsStand, Finish, NoSweep, NoTask,
           OnlyRequest, PutFails, Shape, TypeOK, Working
  <2>8. SameHands
    BY <1>12, <2>1, CtxFields
       DEF Blank, Finish, NoSweep, NoTask, OnlyRequest, PutFails, SameHands,
           Shape, Superseding, TypeOK, Working
  <2>. QED
    BY <2>2, <2>3, <2>4, <2>5, <2>6, <2>7, <2>8, StandingShrinks, ShrinkKeeps
       DEF Stood
<1>13. ASSUME NEW r \in Reqs, CloseSession(r) PROVE Serial' /\ Stood
  <2>1. pc[r] # "idle" /\ OnlyRequest(r)
    BY <1>13, AloneInRequest DEF CloseSession
  <2>2. Alone'
    BY <1>13, <2>1, FileLifecycleAssumption
       DEF Alone, CloseSession, NoSweep, NoTask, OnlyRequest, Shape, TypeOK,
           Working
  <2>3. HandlersFresh'
    BY <1>13, <2>1, CtxFields, EditsKeep
       DEF CloseSession, CreatePCs, DeletePCs, Exists, HandlerFresh,
           HandlersFresh, HandlerShape, HandlersShaped, KnowledgePCs, Listed,
           NoSweep, NoTask, OnlyRequest, PutPCs, SameName, Shape, StoreTypeOK,
           TypeOK, Working
  <2>4. FilesFresh'
    BY <1>13, <2>1, EditsKeep
       DEF CloseSession, Exists, FileFresh, FilesFresh, FileShape, FilesShaped,
           NoSweep, NoTask, OnlyRequest, Shape, StoreTypeOK, TypeOK, Working
  <2>5. SameStanding
    BY <1>13, <2>1, EditsKeep, FileStoreAssumption, CtxFields
       DEF CloseSession, CreatePCs, DeletePCs, Exists, FileFresh, FilesFresh,
           FileShape, FilesShaped, HandlerFresh, HandlersFresh, HandlerShape,
           HandlersShaped, KnowledgePCs, NoSweep, NoTask, OnlyRequest, PutPCs,
           SameStanding, Shape, StoreTypeOK, TypeOK, Working
  <2>6. Pointed'
    BY <1>13, <2>1, EditsKeep, CtxFields
       DEF CloseSession, CreatePCs, DeletePCs, Exists, FileFresh, FilesFresh,
           HandlerFresh, HandlersFresh, HandlerShape, HandlersShaped,
           KnowledgePCs, NoSweep, NoTask, OnlyRequest, Pointed, PutPCs, Shape,
           StoreTypeOK, TypeOK, Working
  <2>7. Uploads = {} => CreatorsRoomy'
    BY <1>13, <2>1, <2>5, StandingShrinks, CreatorsStay
       DEF CloseSession, CreatePCs, CreatorsStand, NoSweep, NoTask,
           OnlyRequest, Shape, TypeOK, Working
  <2>8. SameHands
    BY <1>13, <2>1, CtxFields
       DEF CloseSession, NoSweep, NoTask, OnlyRequest, SameHands, Shape,
           Superseding, TypeOK, Working
  <2>. QED
    BY <2>2, <2>3, <2>4, <2>5, <2>6, <2>7, <2>8, StandingShrinks, ShrinkKeeps
       DEF Stood
<1>14. ASSUME NEW r \in Reqs, SaveNew(r) PROVE Serial' /\ Stood
  <2>1. pc[r] # "idle" /\ OnlyRequest(r)
    BY <1>14, AloneInRequest DEF SaveNew
  <2>2. PICK new \in Files : new = ctx[r].file /\ info[new] = NoInfo
    BY <1>14, CtxFields
       DEF SaveNew, CreatePCs, Shape, TypeOK, HandlersShaped, HandlerShape,
           Backing, HandlersBacked, HandlerBacked
  <2>3. PICK it \in Info : it = NewInfo(r)
    BY <1>14, NewInfoIsInfo DEF SaveNew, CreatePCs
  <2>4. /\ UNCHANGED <<live, sweepVars>>
        /\ pc[r] = "save_new" /\ \A s \in Reqs : pc'[s] = "idle"
        /\ \A f \in Files : f # new => info'[f] = info[f] /\ rows'[f] = rows[f]
                                       /\ task'[f] = task[f]
        /\ info'[new] = it /\ task'[new] = "queued" /\ rows'[new] = NewRow
        /\ loop' = Free
    BY <1>14, <2>1, <2>2, <2>3
       DEF SaveNew, Finish, Save, OnlyRequest, Shape, TypeOK, StoreTypeOK
  <2>5. /\ it.owner = ctx[r].input.owner /\ it.name = ctx[r].input.name
        /\ ctx[r].input.owner \in Owners /\ ~Exists(new)
    BY <1>14, <2>2, <2>3, CtxFields
       DEF SaveNew, NewInfo, CreatePCs, Shape, TypeOK, HandlersShaped,
           HandlerShape, Payload, FilesShaped, FileShape
  <2>6. Alone'
    BY <2>1, <2>4, FileLifecycleAssumption
       DEF Alone, Working, OnlyRequest, NoTask, NoSweep
  <2>7. HandlersFresh'
    BY <2>4
       DEF HandlersFresh, HandlerFresh, PutPCs, DeletePCs, KnowledgePCs
  <2>8. FilesFresh'
    BY <2>1, <2>4 DEF FilesFresh, FileFresh, OnlyRequest, NoTask, NoSweep, Working
  <2>9. OneListed'
    <3>1. \A f \in Files : SameName(f, it.owner, it.name) => ~Listed(f)
      BY <2>4, <2>5 DEF HandlersFresh, HandlerFresh, PutPCs
    <3>2. \A f \in Files : f # new /\ Listed(f)' => Listed(f) /\ info[f] # NoInfo
      BY <2>4 DEF Listed, Exists, Shape, FilesShaped, FileShape
    <3>. QED
      BY <2>4, <3>1, <3>2 DEF OneListed, SameName
  <2>10. Pointed'
    BY <2>1, <2>4 DEF Pointed, Exists, OnlyRequest, NewRow
  <2>11. Uploads = {} => QuotaRespected'
    <3>1. SUFFICES ASSUME Uploads = {}, NEW o \in Owners
                   PROVE  Cardinality(ListByOwner(o)') <= Quota
      BY DEF QuotaRespected
    <3>2. CASE o # ctx[r].input.owner
      <4>1. ListByOwner(o)' \subseteq ListByOwner(o)
        BY <2>4, <2>5, <3>2 DEF ListByOwner, Exists
      <4>2. Cardinality(ListByOwner(o)) <= Quota
        BY <3>1 DEF QuotaRespected
      <4>. QED
        BY <4>1, <4>2, ListIsFinite, FS_Subset, FS_CardinalityType,
           FileLifecycleAssumption
    <3>3. CASE o = ctx[r].input.owner
      <4>1. ListByOwner(o)' \subseteq ListByOwner(o) \cup {new}
        BY <2>4 DEF ListByOwner, Exists
      <4>2. Cardinality(ListByOwner(o)) < Quota
        BY <2>4, <3>1, <3>3 DEF CreatorsRoomy, CreatePCs, WithinQuota
      <4>3. /\ IsFiniteSet(ListByOwner(o) \cup {new})
            /\ Cardinality(ListByOwner(o) \cup {new}) <= Cardinality(ListByOwner(o)) + 1
        <5>1. IsFiniteSet(ListByOwner(o)) /\ Cardinality(ListByOwner(o)) \in Nat
          BY ListIsFinite
        <5>2. new \notin ListByOwner(o)
          BY <2>5 DEF ListByOwner
        <5>3. /\ IsFiniteSet(ListByOwner(o) \cup {new})
              /\ Cardinality(ListByOwner(o) \cup {new}) = Cardinality(ListByOwner(o)) + 1
          BY <5>1, <5>2, FS_AddElement, Zenon
        <5>. QED
          BY <5>1, <5>3
      <4>. QED
        BY <4>1, <4>2, <4>3, ListIsFinite, FS_Subset, FS_CardinalityType,
           FileLifecycleAssumption
    <3>. QED
      BY <3>2, <3>3
  <2>12. CreatorsRoomy'
    BY <2>4 DEF CreatorsRoomy, CreatePCs
  <2>13. CatalogCall
    BY <1>14 DEF CatalogCall
  <2>. QED
    BY <2>6, <2>7, <2>8, <2>9, <2>10, <2>11, <2>12, <2>13 DEF Stood
<1>. QED
  BY <1>1, <1>2, <1>3, <1>4, <1>5, <1>6, <1>7, <1>8, <1>9, <1>10, <1>11, <1>12,
     <1>13, <1>14
     DEF UploadActions, CreateStep

\* The processing task.
LEMMA SerialWorker ==
    ASSUME Shape, Shape', Backing, Chaining, Serial, WorkerActions, ~Overlap PROVE Serial' /\ Stood
<1> USE DEF Goto, storeVars, chunkVars, taskVars, sweepVars, docVars, Serial, Fresh, Roomy
<1>1. ASSUME NEW f \in Files, WorkerFetch(f) PROVE Serial' /\ Stood
  <2>1. Working(f) /\ OnlyTask(f)
    BY <1>1, AloneInTask DEF WorkerFetch, Working
  <2>2. Alone'
    BY <1>1, <2>1, FileLifecycleAssumption
       DEF Alone, Exists, NoSweep, OnlyTask, Shape, TypeOK, WorkerFetch,
           Working
  <2>3. HandlersFresh'
    BY <1>1, <2>1, CtxFields, EditsKeep
       DEF CreatePCs, DeletePCs, Exists, HandlerFresh, HandlersFresh,
           HandlerShape, HandlersShaped, KnowledgePCs, Listed, NoSweep,
           OnlyTask, PutPCs, SameName, Shape, StoreTypeOK, TypeOK, WorkerFetch,
           Working
  <2>4. FilesFresh'
    BY <1>1, <2>1, EditsKeep
       DEF Exists, FileFresh, FilesFresh, FileShape, FilesShaped, NoSweep,
           OnlyTask, Shape, StoreTypeOK, TypeOK, WorkerFetch, Working
  <2>5. SameStanding
    BY <1>1, <2>1, EditsKeep, FileStoreAssumption, CtxFields
       DEF CreatePCs, DeletePCs, Exists, FileFresh, FilesFresh, FileShape,
           FilesShaped, HandlerFresh, HandlersFresh, HandlerShape,
           HandlersShaped, KnowledgePCs, NoSweep, OnlyTask, PutPCs,
           SameStanding, Shape, StoreTypeOK, TypeOK, WorkerFetch, Working
  <2>6. Pointed'
    BY <1>1, <2>1, EditsKeep, CtxFields
       DEF CreatePCs, DeletePCs, Exists, FileFresh, FilesFresh, HandlerFresh,
           HandlersFresh, HandlerShape, HandlersShaped, KnowledgePCs, NoSweep,
           OnlyTask, Pointed, PutPCs, Shape, StoreTypeOK, TypeOK, WorkerFetch,
           Working
  <2>7. Uploads = {} => CreatorsRoomy'
    BY <1>1, <2>1, <2>5, StandingShrinks, CreatorsStay
       DEF CreatePCs, CreatorsStand, Exists, NoSweep, OnlyTask, Shape, TypeOK,
           WorkerFetch, Working
  <2>8. SameHands
    BY <1>1, <2>1, CtxFields
       DEF NoSweep, OnlyTask, SameHands, Shape, Superseding, TypeOK,
           WorkerFetch, Working
  <2>. QED
    BY <2>2, <2>3, <2>4, <2>5, <2>6, <2>7, <2>8, StandingShrinks, ShrinkKeeps
       DEF Stood
<1>2. ASSUME NEW f \in Files, WorkerRejectRows(f) PROVE Serial' /\ Stood
  <2>1. Working(f) /\ OnlyTask(f)
    BY <1>2, AloneInTask DEF WorkerRejectRows, Working
  <2>a. rows[f] \in Row /\ taskRow[f] = rows[f]
    BY <1>2 DEF WorkerRejectRows, Shape, TypeOK, FilesShaped, FileShape, FilesFresh, FileFresh
  <2>b. PICK row \in Row : /\ Save(f, row) /\ info' = info
                           /\ row.latest = rows[f].latest
                           /\ row.deleted = rows[f].deleted
                           /\ row.archived = rows[f].archived
                           /\ row.doc = rows[f].doc
    <3>1. [rows[f] EXCEPT !.status = "failed"] \in Row
      BY <2>a DEF Row, Statuses
    <3>2. Save(f, [rows[f] EXCEPT !.status = "failed"]) /\ info' = info
      BY <1>2, <2>a DEF WorkerRejectRows, Save, Shape, TypeOK
    <3>. QED
      BY <2>a, <3>1, <3>2, EditsKeep DEF Statuses
  <2>2. Alone'
    BY <1>2, <2>1, FileLifecycleAssumption
       DEF Alone, Exists, NoSweep, OnlyTask, Save, Shape, Statuses, TypeOK,
           WorkerEnd, WorkerRejectRows, Working
  <2>3. HandlersFresh'
    BY <1>2, <2>1, CtxFields, EditsKeep
       DEF CreatePCs, DeletePCs, Exists, HandlerFresh, HandlersFresh,
           HandlerShape, HandlersShaped, KnowledgePCs, Listed, NoSweep,
           OnlyTask, PutPCs, SameName, Save, Shape, Statuses, StoreTypeOK,
           TypeOK, WorkerEnd, WorkerRejectRows, Working
  <2>4. FilesFresh'
    BY <1>2, <2>1, EditsKeep
       DEF Exists, FileFresh, FilesFresh, FileShape, FilesShaped, NoSweep,
           OnlyTask, Save, Shape, Statuses, StoreTypeOK, TypeOK, WorkerEnd,
           WorkerRejectRows, Working
  <2>5. SameStanding
    BY <2>a, <2>b, SaveStands, FileStoreAssumption DEF Exists
  <2>6. Pointed'
    BY <1>2, <2>1, <2>a, <2>b, FileStoreAssumption
       DEF WorkerRejectRows, WorkerEnd, OnlyTask, Pointed, Save, Exists, Shape, TypeOK, StoreTypeOK
  <2>7. Uploads = {} => CreatorsRoomy'
    BY <1>2, <2>1, <2>5, StandingShrinks, CreatorsStay
       DEF CreatePCs, CreatorsStand, Exists, NoSweep, OnlyTask, Save, Shape,
           Statuses, TypeOK, WorkerEnd, WorkerRejectRows, Working
  <2>8. SameHands
    BY <1>2, <2>1, CtxFields
       DEF NoSweep, OnlyTask, SameHands, Shape, Superseding, TypeOK,
           WorkerRejectRows, Working
  <2>. QED
    BY <2>2, <2>3, <2>4, <2>5, <2>6, <2>7, <2>8, StandingShrinks, ShrinkKeeps
       DEF Stood
<1>3. ASSUME NEW f \in Files, WorkerWriteParquet(f) PROVE Serial' /\ Stood
  <2>1. Working(f) /\ OnlyTask(f)
    BY <1>3, AloneInTask DEF WorkerWriteParquet, Working
  <2>2. Alone'
    BY <1>3, <2>1, FileLifecycleAssumption
       DEF Alone, NoSweep, OnlyTask, Shape, TypeOK, WorkerWriteParquet, Working
  <2>3. HandlersFresh'
    BY <1>3, <2>1, CtxFields, EditsKeep
       DEF CreatePCs, DeletePCs, Exists, HandlerFresh, HandlersFresh,
           HandlerShape, HandlersShaped, KnowledgePCs, Listed, NoSweep,
           OnlyTask, PutPCs, SameName, Shape, StoreTypeOK, TypeOK,
           WorkerWriteParquet, Working
  <2>4. FilesFresh'
    BY <1>3, <2>1, EditsKeep
       DEF Exists, FileFresh, FilesFresh, FileShape, FilesShaped, NoSweep,
           OnlyTask, Shape, StoreTypeOK, TypeOK, WorkerWriteParquet, Working
  <2>5. SameStanding
    BY <1>3, <2>1, EditsKeep, FileStoreAssumption, CtxFields
       DEF CreatePCs, DeletePCs, Exists, FileFresh, FilesFresh, FileShape,
           FilesShaped, HandlerFresh, HandlersFresh, HandlerShape,
           HandlersShaped, KnowledgePCs, NoSweep, OnlyTask, PutPCs,
           SameStanding, Shape, StoreTypeOK, TypeOK, WorkerWriteParquet,
           Working
  <2>6. Pointed'
    BY <1>3, <2>1, EditsKeep, CtxFields
       DEF CreatePCs, DeletePCs, Exists, FileFresh, FilesFresh, HandlerFresh,
           HandlersFresh, HandlerShape, HandlersShaped, KnowledgePCs, NoSweep,
           OnlyTask, Pointed, PutPCs, Shape, StoreTypeOK, TypeOK,
           WorkerWriteParquet, Working
  <2>7. Uploads = {} => CreatorsRoomy'
    BY <1>3, <2>1, <2>5, StandingShrinks, CreatorsStay
       DEF CreatePCs, CreatorsStand, NoSweep, OnlyTask, Shape, TypeOK,
           WorkerWriteParquet, Working
  <2>8. SameHands
    BY <1>3, <2>1, CtxFields
       DEF NoSweep, OnlyTask, SameHands, Shape, Superseding, TypeOK,
           WorkerWriteParquet, Working
  <2>. QED
    BY <2>2, <2>3, <2>4, <2>5, <2>6, <2>7, <2>8, StandingShrinks, ShrinkKeeps
       DEF Stood
<1>4. ASSUME NEW f \in Files, WorkerMarkIndexing(f) PROVE Serial' /\ Stood
  <2>1. Working(f) /\ OnlyTask(f)
    BY <1>4, AloneInTask DEF WorkerMarkIndexing, Working
  <2>a. rows[f] \in Row /\ taskRow[f] = rows[f]
    BY <1>4 DEF WorkerMarkIndexing, Shape, TypeOK, FilesShaped, FileShape, FilesFresh, FileFresh
  <2>b. PICK row \in Row : /\ Save(f, row) /\ info' = info
                           /\ row.latest = rows[f].latest
                           /\ row.deleted = rows[f].deleted
                           /\ row.archived = rows[f].archived
                           /\ row.doc = rows[f].doc
    <3>1. [rows[f] EXCEPT !.status = "indexing"] \in Row
      BY <2>a DEF Row, Statuses
    <3>2. Save(f, [rows[f] EXCEPT !.status = "indexing"]) /\ info' = info
      BY <1>4, <2>a DEF WorkerMarkIndexing, Save, Shape, TypeOK
    <3>. QED
      BY <2>a, <3>1, <3>2, EditsKeep DEF Statuses
  <2>2. Alone'
    BY <1>4, <2>1, FileLifecycleAssumption
       DEF Alone, Exists, NoSweep, OnlyTask, Save, Shape, Statuses, TypeOK,
           WorkerMarkIndexing, Working
  <2>3. HandlersFresh'
    BY <1>4, <2>1, CtxFields, EditsKeep
       DEF CreatePCs, DeletePCs, Exists, HandlerFresh, HandlersFresh,
           HandlerShape, HandlersShaped, KnowledgePCs, Listed, NoSweep,
           OnlyTask, PutPCs, SameName, Save, Shape, Statuses, StoreTypeOK,
           TypeOK, WorkerMarkIndexing, Working
  <2>4. FilesFresh'
    BY <1>4, <2>1, EditsKeep
       DEF Exists, FileFresh, FilesFresh, FileShape, FilesShaped, NoSweep,
           OnlyTask, Save, Shape, Statuses, StoreTypeOK, TypeOK,
           WorkerMarkIndexing, Working
  <2>5. SameStanding
    BY <2>a, <2>b, SaveStands, FileStoreAssumption DEF Exists
  <2>6. Pointed'
    BY <1>4, <2>1, <2>a, <2>b, FileStoreAssumption
       DEF WorkerMarkIndexing, OnlyTask, Pointed, Save, Exists, Shape, TypeOK, StoreTypeOK
  <2>7. Uploads = {} => CreatorsRoomy'
    BY <1>4, <2>1, <2>5, StandingShrinks, CreatorsStay
       DEF CreatePCs, CreatorsStand, Exists, NoSweep, OnlyTask, Save, Shape,
           Statuses, TypeOK, WorkerMarkIndexing, Working
  <2>8. SameHands
    BY <1>4, <2>1, CtxFields
       DEF NoSweep, OnlyTask, SameHands, Shape, Superseding, TypeOK,
           WorkerMarkIndexing, Working
  <2>. QED
    BY <2>2, <2>3, <2>4, <2>5, <2>6, <2>7, <2>8, StandingShrinks, ShrinkKeeps
       DEF Stood
<1>5. ASSUME NEW f \in Files, WorkerUpsertChunks(f) PROVE Serial' /\ Stood
  <2>1. Working(f) /\ OnlyTask(f)
    BY <1>5, AloneInTask DEF WorkerUpsertChunks, Working
  <2>2. Alone'
    BY <1>5, <2>1, FileLifecycleAssumption
       DEF Alone, NoSweep, OnlyTask, Shape, TypeOK, WorkerUpsertChunks, Working
  <2>3. HandlersFresh'
    BY <1>5, <2>1, CtxFields, EditsKeep
       DEF CreatePCs, DeletePCs, Exists, HandlerFresh, HandlersFresh,
           HandlerShape, HandlersShaped, KnowledgePCs, Listed, NoSweep,
           OnlyTask, PutPCs, SameName, Shape, StoreTypeOK, TypeOK,
           WorkerUpsertChunks, Working
  <2>4. FilesFresh'
    BY <1>5, <2>1, EditsKeep
       DEF Exists, FileFresh, FilesFresh, FileShape, FilesShaped, NoSweep,
           OnlyTask, Shape, StoreTypeOK, TypeOK, WorkerUpsertChunks, Working
  <2>5. SameStanding
    BY <1>5, <2>1, EditsKeep, FileStoreAssumption, CtxFields
       DEF CreatePCs, DeletePCs, Exists, FileFresh, FilesFresh, FileShape,
           FilesShaped, HandlerFresh, HandlersFresh, HandlerShape,
           HandlersShaped, KnowledgePCs, NoSweep, OnlyTask, PutPCs,
           SameStanding, Shape, StoreTypeOK, TypeOK, WorkerUpsertChunks,
           Working
  <2>6. Pointed'
    BY <1>5, <2>1, EditsKeep, CtxFields
       DEF CreatePCs, DeletePCs, Exists, FileFresh, FilesFresh, HandlerFresh,
           HandlersFresh, HandlerShape, HandlersShaped, KnowledgePCs, NoSweep,
           OnlyTask, Pointed, PutPCs, Shape, StoreTypeOK, TypeOK,
           WorkerUpsertChunks, Working
  <2>7. Uploads = {} => CreatorsRoomy'
    BY <1>5, <2>1, <2>5, StandingShrinks, CreatorsStay
       DEF CreatePCs, CreatorsStand, NoSweep, OnlyTask, Shape, TypeOK,
           WorkerUpsertChunks, Working
  <2>8. SameHands
    BY <1>5, <2>1, CtxFields
       DEF NoSweep, OnlyTask, SameHands, Shape, Superseding, TypeOK,
           WorkerUpsertChunks, Working
  <2>. QED
    BY <2>2, <2>3, <2>4, <2>5, <2>6, <2>7, <2>8, StandingShrinks, ShrinkKeeps
       DEF Stood
<1>6. ASSUME NEW f \in Files, WorkerRaises(f) PROVE Serial' /\ Stood
  <2>1. Working(f) /\ OnlyTask(f)
    BY <1>6, AloneInTask DEF WorkerRaises, Working
  <2>2. Alone'
    BY <1>6, <2>1, FileLifecycleAssumption
       DEF Alone, NoSweep, OnlyTask, Shape, TypeOK, WorkerEnd, WorkerRaises,
           Working
  <2>3. HandlersFresh'
    BY <1>6, <2>1, CtxFields, EditsKeep
       DEF CreatePCs, DeletePCs, Exists, HandlerFresh, HandlersFresh,
           HandlerShape, HandlersShaped, KnowledgePCs, Listed, NoSweep,
           OnlyTask, PutPCs, SameName, Shape, StoreTypeOK, TypeOK, WorkerEnd,
           WorkerRaises, Working
  <2>4. FilesFresh'
    BY <1>6, <2>1, EditsKeep
       DEF Exists, FileFresh, FilesFresh, FileShape, FilesShaped, NoSweep,
           OnlyTask, Shape, StoreTypeOK, TypeOK, WorkerEnd, WorkerRaises,
           Working
  <2>5. SameStanding
    BY <1>6, <2>1, EditsKeep, FileStoreAssumption, CtxFields
       DEF CreatePCs, DeletePCs, Exists, FileFresh, FilesFresh, FileShape,
           FilesShaped, HandlerFresh, HandlersFresh, HandlerShape,
           HandlersShaped, KnowledgePCs, NoSweep, OnlyTask, PutPCs,
           SameStanding, Shape, StoreTypeOK, TypeOK, WorkerEnd, WorkerRaises,
           Working
  <2>6. Pointed'
    BY <1>6, <2>1, EditsKeep, CtxFields
       DEF CreatePCs, DeletePCs, Exists, FileFresh, FilesFresh, HandlerFresh,
           HandlersFresh, HandlerShape, HandlersShaped, KnowledgePCs, NoSweep,
           OnlyTask, Pointed, PutPCs, Shape, StoreTypeOK, TypeOK, WorkerEnd,
           WorkerRaises, Working
  <2>7. Uploads = {} => CreatorsRoomy'
    BY <1>6, <2>1, <2>5, StandingShrinks, CreatorsStay
       DEF CreatePCs, CreatorsStand, NoSweep, OnlyTask, Shape, TypeOK,
           WorkerEnd, WorkerRaises, Working
  <2>8. SameHands
    BY <1>6, <2>1, CtxFields
       DEF NoSweep, OnlyTask, SameHands, Shape, Superseding, TypeOK,
           WorkerRaises, Working
  <2>. QED
    BY <2>2, <2>3, <2>4, <2>5, <2>6, <2>7, <2>8, StandingShrinks, ShrinkKeeps
       DEF Stood
<1>7. ASSUME NEW f \in Files, WorkerSaveReady(f) PROVE Serial' /\ Stood
  <2>1. Working(f) /\ OnlyTask(f)
    BY <1>7, AloneInTask DEF WorkerSaveReady, Working
  <2>a. rows[f] \in Row /\ taskRow[f] = rows[f]
    BY <1>7 DEF WorkerSaveReady, Shape, TypeOK, FilesShaped, FileShape, FilesFresh, FileFresh
  <2>b. PICK row \in Row : /\ Save(f, row) /\ info' = info
                           /\ row.latest = rows[f].latest
                           /\ row.deleted = rows[f].deleted
                           /\ row.archived = rows[f].archived
                           /\ row.doc = rows[f].doc
    <3>1. [rows[f] EXCEPT !.status = "ready"] \in Row
      BY <2>a DEF Row, Statuses
    <3>2. Save(f, [rows[f] EXCEPT !.status = "ready"]) /\ info' = info
      BY <1>7, <2>a DEF WorkerSaveReady, Save, Shape, TypeOK
    <3>. QED
      BY <2>a, <3>1, <3>2, EditsKeep DEF Statuses
  <2>2. Alone'
    BY <1>7, <2>1, FileLifecycleAssumption
       DEF Alone, Exists, NoSweep, OnlyTask, Save, Shape, Statuses, TypeOK,
           WorkerEnd, WorkerSaveReady, Working
  <2>3. HandlersFresh'
    BY <1>7, <2>1, CtxFields, EditsKeep
       DEF CreatePCs, DeletePCs, Exists, HandlerFresh, HandlersFresh,
           HandlerShape, HandlersShaped, KnowledgePCs, Listed, NoSweep,
           OnlyTask, PutPCs, SameName, Save, Shape, Statuses, StoreTypeOK,
           TypeOK, WorkerEnd, WorkerSaveReady, Working
  <2>4. FilesFresh'
    BY <1>7, <2>1, EditsKeep
       DEF Exists, FileFresh, FilesFresh, FileShape, FilesShaped, NoSweep,
           OnlyTask, Save, Shape, Statuses, StoreTypeOK, TypeOK, WorkerEnd,
           WorkerSaveReady, Working
  <2>5. SameStanding
    BY <2>a, <2>b, SaveStands, FileStoreAssumption DEF Exists
  <2>6. Pointed'
    BY <1>7, <2>1, <2>a, <2>b, FileStoreAssumption
       DEF WorkerSaveReady, WorkerEnd, OnlyTask, Pointed, Save, Exists, Shape, TypeOK, StoreTypeOK
  <2>7. Uploads = {} => CreatorsRoomy'
    BY <1>7, <2>1, <2>5, StandingShrinks, CreatorsStay
       DEF CreatePCs, CreatorsStand, Exists, NoSweep, OnlyTask, Save, Shape,
           Statuses, TypeOK, WorkerEnd, WorkerSaveReady, Working
  <2>8. SameHands
    BY <1>7, <2>1, CtxFields
       DEF NoSweep, OnlyTask, SameHands, Shape, Superseding, TypeOK,
           WorkerSaveReady, Working
  <2>. QED
    BY <2>2, <2>3, <2>4, <2>5, <2>6, <2>7, <2>8, StandingShrinks, ShrinkKeeps
       DEF Stood
<1>. QED
  BY <1>1, <1>2, <1>3, <1>4, <1>5, <1>6, <1>7
     DEF WorkerActions, WorkerStep

\* Delete, promotion, the sweep, restart.
LEMMA SerialOther ==
    ASSUME Shape, Shape', Backing, Chaining, Serial, OtherActions, ~Overlap PROVE Serial' /\ Stood
<1> USE DEF Goto, storeVars, chunkVars, taskVars, sweepVars, docVars, Serial, Fresh, Roomy
<1>1. ASSUME NEW r \in Reqs, NEW f \in Files,
            DeleteStart(r, f)
     PROVE  Serial' /\ Stood
  <2>1. Quiet /\ Nobody
    BY <1>1, AloneAtStart DEF DeleteStart, MayStart
  <2>2. Alone'
    BY <1>1, <2>1, FileLifecycleAssumption
       DEF Alone, Blank, DeleteStart, MayStart, Nobody, NoSweep, NoTask, Quiet,
           Shape, TypeOK, Working
  <2>3. HandlersFresh'
    BY <1>1, <2>1, CtxFields, EditsKeep
       DEF Blank, CreatePCs, DeletePCs, DeleteStart, Exists, HandlerFresh,
           HandlersFresh, HandlerShape, HandlersShaped, KnowledgePCs, Listed,
           MayStart, Nobody, NoSweep, NoTask, PutPCs, Quiet, SameName, Shape,
           StoreTypeOK, TypeOK, Working
  <2>4. FilesFresh'
    BY <1>1, <2>1, EditsKeep
       DEF Blank, DeleteStart, Exists, FileFresh, FilesFresh, FileShape,
           FilesShaped, MayStart, Nobody, NoSweep, NoTask, Quiet, Shape,
           StoreTypeOK, TypeOK, Working
  <2>5. SameStanding
    BY <1>1, <2>1, EditsKeep, FileStoreAssumption, CtxFields
       DEF Blank, CreatePCs, DeletePCs, DeleteStart, Exists, FileFresh,
           FilesFresh, FileShape, FilesShaped, HandlerFresh, HandlersFresh,
           HandlerShape, HandlersShaped, KnowledgePCs, MayStart, Nobody,
           NoSweep, NoTask, PutPCs, Quiet, SameStanding, Shape, StoreTypeOK,
           TypeOK, Working
  <2>6. Pointed'
    BY <1>1, <2>1, EditsKeep, CtxFields
       DEF Blank, CreatePCs, DeletePCs, DeleteStart, Exists, FileFresh,
           FilesFresh, HandlerFresh, HandlersFresh, HandlerShape,
           HandlersShaped, KnowledgePCs, MayStart, Nobody, NoSweep, NoTask,
           Pointed, PutPCs, Quiet, Shape, StoreTypeOK, TypeOK, Working
  <2>7. Uploads = {} => CreatorsRoomy'
    BY <1>1, <2>1, <2>5, StandingShrinks, CreatorsStay
       DEF Blank, CreatePCs, CreatorsStand, DeleteStart, MayStart, Nobody,
           NoSweep, NoTask, Quiet, Shape, TypeOK, Working
  <2>8. SameHands
    BY <1>1, <2>1, CtxFields
       DEF Blank, DeleteStart, MayStart, Nobody, NoSweep, NoTask, Quiet,
           SameHands, Shape, Superseding, TypeOK, Working
  <2>. QED
    BY <2>2, <2>3, <2>4, <2>5, <2>6, <2>7, <2>8, StandingShrinks, ShrinkKeeps
       DEF Stood
<1>2. ASSUME NEW r \in Reqs, DeleteBytes(r) PROVE Serial' /\ Stood
  <2>1. pc[r] # "idle" /\ OnlyRequest(r)
    BY <1>2, AloneInRequest DEF DeleteBytes
  <2>2. Alone'
    BY <1>2, <2>1, FileLifecycleAssumption
       DEF Alone, DeleteBytes, NoSweep, NoTask, OnlyRequest, Shape, TypeOK,
           Working
  <2>3. HandlersFresh'
    BY <1>2, <2>1, CtxFields, EditsKeep
       DEF CreatePCs, DeleteBytes, DeletePCs, Exists, HandlerFresh,
           HandlersFresh, HandlerShape, HandlersShaped, KnowledgePCs, Listed,
           NoSweep, NoTask, OnlyRequest, PutPCs, SameName, Shape, StoreTypeOK,
           TypeOK, Working
  <2>4. FilesFresh'
    BY <1>2, <2>1, EditsKeep
       DEF DeleteBytes, Exists, FileFresh, FilesFresh, FileShape, FilesShaped,
           NoSweep, NoTask, OnlyRequest, Shape, StoreTypeOK, TypeOK, Working
  <2>5. SameStanding
    BY <1>2, <2>1, EditsKeep, FileStoreAssumption, CtxFields
       DEF CreatePCs, DeleteBytes, DeletePCs, Exists, FileFresh, FilesFresh,
           FileShape, FilesShaped, HandlerFresh, HandlersFresh, HandlerShape,
           HandlersShaped, KnowledgePCs, NoSweep, NoTask, OnlyRequest, PutPCs,
           SameStanding, Shape, StoreTypeOK, TypeOK, Working
  <2>6. Pointed'
    BY <1>2, <2>1, EditsKeep, CtxFields
       DEF CreatePCs, DeleteBytes, DeletePCs, Exists, FileFresh, FilesFresh,
           HandlerFresh, HandlersFresh, HandlerShape, HandlersShaped,
           KnowledgePCs, NoSweep, NoTask, OnlyRequest, Pointed, PutPCs, Shape,
           StoreTypeOK, TypeOK, Working
  <2>7. Uploads = {} => CreatorsRoomy'
    BY <1>2, <2>1, <2>5, StandingShrinks, CreatorsStay
       DEF CreatePCs, CreatorsStand, DeleteBytes, NoSweep, NoTask, OnlyRequest,
           Shape, TypeOK, Working
  <2>8. SameHands
    BY <1>2, <2>1, CtxFields
       DEF DeleteBytes, NoSweep, NoTask, OnlyRequest, SameHands, Shape,
           Superseding, TypeOK, Working
  <2>. QED
    BY <2>2, <2>3, <2>4, <2>5, <2>6, <2>7, <2>8, StandingShrinks, ShrinkKeeps
       DEF Stood
<1>3. ASSUME NEW r \in Reqs, DeleteRow(r) PROVE Serial' /\ Stood
  <2>1. pc[r] # "idle" /\ OnlyRequest(r)
    BY <1>3, AloneInRequest DEF DeleteRow
  <2>a. PICK f \in Files : f = ctx[r].file /\ Exists(f) /\ rows[f] \in Row
    BY <1>3, CtxFields
       DEF DeleteRow, DeletePCs, Exists, Shape, TypeOK, StoreTypeOK, HandlersShaped,
           HandlerShape, HandlersFresh, HandlerFresh
  <2>b. PICK row \in Row : /\ Save(f, row) /\ info' = info /\ row.deleted
                           /\ row.doc = rows[f].doc
    <3>1. [rows[f] EXCEPT !.deleted = TRUE] \in Row
      BY <2>a DEF Row
    <3>2. Save(f, [rows[f] EXCEPT !.deleted = TRUE]) /\ info' = info
      BY <1>3, <2>a DEF DeleteRow, SoftDelete, Save, Shape, TypeOK, StoreTypeOK
    <3>. QED
      BY <2>a, <3>1, <3>2, EditsKeep
  <2>2. Alone'
    BY <1>3, <2>1, FileLifecycleAssumption
       DEF Alone, Blank, DeleteRow, Exists, Finish, NoSweep, NoTask,
           OnlyRequest, Shape, SoftDelete, TypeOK, Working
  <2>3. HandlersFresh'
    BY <1>3, <2>1, CtxFields, EditsKeep
       DEF Blank, CreatePCs, DeletePCs, DeleteRow, Exists, Finish,
           HandlerFresh, HandlersFresh, HandlerShape, HandlersShaped,
           KnowledgePCs, Listed, NoSweep, NoTask, OnlyRequest, PutPCs,
           SameName, Shape, SoftDelete, StoreTypeOK, TypeOK, Working
  <2>4. FilesFresh'
    BY <1>3, <2>1, EditsKeep
       DEF Blank, DeleteRow, Exists, FileFresh, FilesFresh, FileShape,
           FilesShaped, Finish, NoSweep, NoTask, OnlyRequest, Shape,
           SoftDelete, StoreTypeOK, TypeOK, Working
  <2>5. Shrinks
    BY <2>a, <2>b DEF Shrinks, Save, Exists, Shape, TypeOK, StoreTypeOK
  <2>6. Pointed'
    BY <1>3, <2>1, EditsKeep, CtxFields
       DEF Blank, CreatePCs, DeletePCs, DeleteRow, Exists, FileFresh,
           FilesFresh, Finish, HandlerFresh, HandlersFresh, HandlerShape,
           HandlersShaped, KnowledgePCs, NoSweep, NoTask, OnlyRequest, Pointed,
           PutPCs, Shape, SoftDelete, StoreTypeOK, TypeOK, Working
  <2>7. Uploads = {} => CreatorsRoomy'
    BY <1>3, <2>1, <2>5, CreatorsStay
       DEF Blank, CreatePCs, CreatorsStand, DeleteRow, Exists, Finish, NoSweep,
           NoTask, OnlyRequest, Shape, SoftDelete, TypeOK, Working
  <2>8. CatalogCall
    BY <1>3 DEF CatalogCall
  <2>. QED
    BY <2>2, <2>3, <2>4, <2>5, <2>6, <2>7, <2>8, ShrinkKeeps
       DEF Stood
<1>4. ASSUME NEW r \in Reqs, NEW f \in Files, NEW d \in Docs,
            PromoteStart(r, f, d)
     PROVE  Serial' /\ Stood
  <2>1. Quiet /\ Nobody
    BY <1>4, AloneAtStart DEF MayStart, PromoteStart
  <2>2. Alone'
    BY <1>4, <2>1, FileLifecycleAssumption
       DEF Alone, Blank, Exists, MayStart, Nobody, NoSweep, NoTask,
           PromoteStart, Quiet, Shape, TypeOK, Working
  <2>3. HandlersFresh'
    BY <1>4, <2>1, CtxFields, EditsKeep
       DEF Blank, CreatePCs, DeletePCs, Exists, HandlerFresh, HandlersFresh,
           HandlerShape, HandlersShaped, KnowledgePCs, Listed, MayStart,
           Nobody, NoSweep, NoTask, PromoteStart, PutPCs, Quiet, SameName,
           Shape, StoreTypeOK, TypeOK, Working
  <2>4. FilesFresh'
    BY <1>4, <2>1, EditsKeep
       DEF Blank, Exists, FileFresh, FilesFresh, FileShape, FilesShaped,
           MayStart, Nobody, NoSweep, NoTask, PromoteStart, Quiet, Shape,
           StoreTypeOK, TypeOK, Working
  <2>5. SameStanding
    BY <1>4, <2>1, EditsKeep, FileStoreAssumption, CtxFields
       DEF Blank, CreatePCs, DeletePCs, Exists, FileFresh, FilesFresh,
           FileShape, FilesShaped, HandlerFresh, HandlersFresh, HandlerShape,
           HandlersShaped, KnowledgePCs, MayStart, Nobody, NoSweep, NoTask,
           PromoteStart, PutPCs, Quiet, SameStanding, Shape, StoreTypeOK,
           TypeOK, Working
  <2>6. Pointed'
    BY <1>4, <2>1, EditsKeep, CtxFields
       DEF Blank, CreatePCs, DeletePCs, Exists, FileFresh, FilesFresh,
           HandlerFresh, HandlersFresh, HandlerShape, HandlersShaped,
           KnowledgePCs, MayStart, Nobody, NoSweep, NoTask, Pointed,
           PromoteStart, PutPCs, Quiet, Shape, StoreTypeOK, TypeOK, Working
  <2>7. Uploads = {} => CreatorsRoomy'
    BY <1>4, <2>1, <2>5, StandingShrinks, CreatorsStay
       DEF Blank, CreatePCs, CreatorsStand, Exists, MayStart, Nobody, NoSweep,
           NoTask, PromoteStart, Quiet, Shape, TypeOK, Working
  <2>8. SameHands
    BY <1>4, <2>1, CtxFields
       DEF Blank, MayStart, Nobody, NoSweep, NoTask, PromoteStart, Quiet,
           SameHands, Shape, Superseding, TypeOK, Working
  <2>. QED
    BY <2>2, <2>3, <2>4, <2>5, <2>6, <2>7, <2>8, StandingShrinks, ShrinkKeeps
       DEF Stood
<1>5. ASSUME NEW r \in Reqs, Publish(r) PROVE Serial' /\ Stood
  <2>1. pc[r] # "idle" /\ OnlyRequest(r)
    BY <1>5, AloneInRequest DEF Publish
  <2>2. Alone'
    BY <1>5, <2>1, FileLifecycleAssumption
       DEF Alone, NoSweep, NoTask, OnlyRequest, Publish, PublishDoc, Shape,
           TypeOK, Working
  <2>3. HandlersFresh'
    BY <1>5, <2>1, CtxFields, EditsKeep
       DEF CreatePCs, DeletePCs, Exists, HandlerFresh, HandlersFresh,
           HandlerShape, HandlersShaped, KnowledgePCs, Listed, NoSweep, NoTask,
           OnlyRequest, Publish, PublishDoc, PutPCs, SameName, Shape,
           StoreTypeOK, TypeOK, Working
  <2>4. FilesFresh'
    BY <1>5, <2>1, EditsKeep
       DEF Exists, FileFresh, FilesFresh, FileShape, FilesShaped, NoSweep,
           NoTask, OnlyRequest, Publish, PublishDoc, Shape, StoreTypeOK,
           TypeOK, Working
  <2>5. SameStanding
    BY <1>5, <2>1, EditsKeep, FileStoreAssumption, CtxFields
       DEF CreatePCs, DeletePCs, Exists, FileFresh, FilesFresh, FileShape,
           FilesShaped, HandlerFresh, HandlersFresh, HandlerShape,
           HandlersShaped, KnowledgePCs, NoSweep, NoTask, OnlyRequest, Publish,
           PublishDoc, PutPCs, SameStanding, Shape, StoreTypeOK, TypeOK,
           Working
  <2>6. Pointed'
    BY <1>5, <2>1, EditsKeep, CtxFields
       DEF CreatePCs, DeletePCs, Exists, FileFresh, FilesFresh, HandlerFresh,
           HandlersFresh, HandlerShape, HandlersShaped, KnowledgePCs, NoSweep,
           NoTask, OnlyRequest, Pointed, Publish, PublishDoc, PutPCs, Shape,
           StoreTypeOK, TypeOK, Working
  <2>7. Uploads = {} => CreatorsRoomy'
    BY <1>5, <2>1, <2>5, StandingShrinks, CreatorsStay
       DEF CreatePCs, CreatorsStand, NoSweep, NoTask, OnlyRequest, Publish,
           PublishDoc, Shape, TypeOK, Working
  <2>8. SameHands
    BY <1>5, <2>1, CtxFields
       DEF NoSweep, NoTask, OnlyRequest, Publish, SameHands, Shape,
           Superseding, TypeOK, Working
  <2>. QED
    BY <2>2, <2>3, <2>4, <2>5, <2>6, <2>7, <2>8, StandingShrinks, ShrinkKeeps
       DEF Stood
<1>6. ASSUME NEW r \in Reqs, SavePromoted(r) PROVE Serial' /\ Stood
  <2>1. pc[r] # "idle" /\ OnlyRequest(r)
    BY <1>6, AloneInRequest DEF SavePromoted
  <2>a. PICK f \in Files : /\ f = ctx[r].file /\ rows[f] \in Row
                           /\ ctx[r].snap = rows[f]
                           /\ ctx[r].doc \in Docs
    BY <1>6, CtxFields
       DEF SavePromoted, KnowledgePCs, Shape, TypeOK, HandlersShaped, HandlerShape,
           HandlersFresh, HandlerFresh
  <2>b. PICK row \in Row : /\ Save(f, row) /\ info' = info
                           /\ row.latest = rows[f].latest
                           /\ row.deleted = rows[f].deleted
                           /\ row.archived = rows[f].archived
    <3>1. [rows[f] EXCEPT !.doc = ctx[r].doc] \in Row
      BY <2>a DEF Row
    <3>2. Save(f, [rows[f] EXCEPT !.doc = ctx[r].doc]) /\ info' = info
      BY <1>6, <2>a DEF SavePromoted, Save
    <3>3. LET new == [rows[f] EXCEPT !.doc = ctx[r].doc]
          IN  /\ new.latest = rows[f].latest /\ new.deleted = rows[f].deleted
              /\ new.archived = rows[f].archived
      BY <2>a DEF Row
    <3>. QED
      BY <3>1, <3>2, <3>3
  <2>2. Alone'
    BY <1>6, <2>1, FileLifecycleAssumption
       DEF Alone, Blank, Exists, Finish, NoSweep, NoTask, OnlyRequest, Save,
           SavePromoted, Shape, TypeOK, Working
  <2>3. HandlersFresh'
    BY <1>6, <2>1, CtxFields, EditsKeep
       DEF Blank, CreatePCs, DeletePCs, Exists, Finish, HandlerFresh,
           HandlersFresh, HandlerShape, HandlersShaped, KnowledgePCs, Listed,
           NoSweep, NoTask, OnlyRequest, PutPCs, SameName, Save, SavePromoted,
           Shape, StoreTypeOK, TypeOK, Working
  <2>4. FilesFresh'
    BY <1>6, <2>1, EditsKeep, SMTT(30)
       DEF Blank, Exists, FileFresh, FilesFresh, FileShape, FilesShaped,
           Finish, NoSweep, NoTask, OnlyRequest, Save, SavePromoted, Shape,
           StoreTypeOK, TypeOK, Working
  <2>5. SameStanding
    BY <2>a, <2>b, SaveStands, FileStoreAssumption DEF Exists
  <2>6. Pointed'
    BY <1>6, <2>1, EditsKeep, CtxFields
       DEF Blank, CreatePCs, DeletePCs, Exists, FileFresh, FilesFresh, Finish,
           HandlerFresh, HandlersFresh, HandlerShape, HandlersShaped,
           KnowledgePCs, NoSweep, NoTask, OnlyRequest, Pointed, PutPCs, Save,
           SavePromoted, Shape, StoreTypeOK, TypeOK, Working
  <2>7. Uploads = {} => CreatorsRoomy'
    BY <1>6, <2>1, <2>5, StandingShrinks, CreatorsStay
       DEF Blank, CreatePCs, CreatorsStand, Exists, Finish, NoSweep, NoTask,
           OnlyRequest, Save, SavePromoted, Shape, TypeOK, Working
  <2>8. SameHands
    BY <1>6, <2>1, CtxFields
       DEF Blank, Finish, NoSweep, NoTask, OnlyRequest, SameHands,
           SavePromoted, Shape, Superseding, TypeOK, Working
  <2>. QED
    BY <2>2, <2>3, <2>4, <2>5, <2>6, <2>7, <2>8, StandingShrinks, ShrinkKeeps
       DEF Stood
<1>7. ASSUME NEW r \in Reqs, NEW d \in Docs,
            DemoteStart(r, d)
     PROVE  Serial' /\ Stood
  <2>1. Quiet /\ Nobody
    BY <1>7, AloneAtStart DEF DemoteStart, MayStart
  <2>2. Alone'
    BY <1>7, <2>1, FileLifecycleAssumption
       DEF Alone, Blank, DemoteStart, Exists, ListActive, MayStart, Nobody,
           NoSweep, NoTask, Quiet, Shape, TypeOK, Working
  <2>3. HandlersFresh'
    BY <1>7, <2>1, CtxFields, EditsKeep
       DEF Blank, CreatePCs, DeletePCs, DemoteStart, Exists, HandlerFresh,
           HandlersFresh, HandlerShape, HandlersShaped, KnowledgePCs,
           ListActive, Listed, MayStart, Nobody, NoSweep, NoTask, PutPCs,
           Quiet, SameName, Shape, StoreTypeOK, TypeOK, Working
  <2>4. FilesFresh'
    BY <1>7, <2>1, EditsKeep
       DEF Blank, DemoteStart, Exists, FileFresh, FilesFresh, FileShape,
           FilesShaped, ListActive, MayStart, Nobody, NoSweep, NoTask, Quiet,
           Shape, StoreTypeOK, TypeOK, Working
  <2>5. SameStanding
    BY <1>7, <2>1, EditsKeep, FileStoreAssumption, CtxFields
       DEF Blank, CreatePCs, DeletePCs, DemoteStart, Exists, FileFresh,
           FilesFresh, FileShape, FilesShaped, HandlerFresh, HandlersFresh,
           HandlerShape, HandlersShaped, KnowledgePCs, ListActive, MayStart,
           Nobody, NoSweep, NoTask, PutPCs, Quiet, SameStanding, Shape,
           StoreTypeOK, TypeOK, Working
  <2>6. Pointed'
    BY <1>7, <2>1, EditsKeep, CtxFields
       DEF Blank, CreatePCs, DeletePCs, DemoteStart, Exists, FileFresh,
           FilesFresh, HandlerFresh, HandlersFresh, HandlerShape,
           HandlersShaped, KnowledgePCs, ListActive, MayStart, Nobody, NoSweep,
           NoTask, Pointed, PutPCs, Quiet, Shape, StoreTypeOK, TypeOK, Working
  <2>7. Uploads = {} => CreatorsRoomy'
    BY <1>7, <2>1, <2>5, StandingShrinks, CreatorsStay
       DEF Blank, CreatePCs, CreatorsStand, DemoteStart, Exists, ListActive,
           MayStart, Nobody, NoSweep, NoTask, Quiet, Shape, TypeOK, Working
  <2>8. SameHands
    BY <1>7, <2>1, CtxFields
       DEF Blank, DemoteStart, MayStart, Nobody, NoSweep, NoTask, Quiet,
           SameHands, Shape, Superseding, TypeOK, Working
  <2>. QED
    BY <2>2, <2>3, <2>4, <2>5, <2>6, <2>7, <2>8, StandingShrinks, ShrinkKeeps
       DEF Stood
<1>8. ASSUME NEW r \in Reqs, Unpublish(r) PROVE Serial' /\ Stood
  <2>1. pc[r] # "idle" /\ OnlyRequest(r)
    BY <1>8, AloneInRequest DEF Unpublish
  <2>2. Alone'
    BY <1>8, <2>1, FileLifecycleAssumption
       DEF Alone, NoSweep, NoTask, OnlyRequest, RemoveFromLiveRag, Shape,
           TypeOK, Unpublish, Working
  <2>3. HandlersFresh'
    BY <1>8, <2>1, CtxFields, EditsKeep
       DEF CreatePCs, DeletePCs, Exists, HandlerFresh, HandlersFresh,
           HandlerShape, HandlersShaped, KnowledgePCs, Listed, NoSweep, NoTask,
           OnlyRequest, PutPCs, RemoveFromLiveRag, SameName, Shape,
           StoreTypeOK, TypeOK, Unpublish, Working
  <2>4. FilesFresh'
    BY <1>8, <2>1, EditsKeep
       DEF Exists, FileFresh, FilesFresh, FileShape, FilesShaped, NoSweep,
           NoTask, OnlyRequest, RemoveFromLiveRag, Shape, StoreTypeOK, TypeOK,
           Unpublish, Working
  <2>5. SameStanding
    BY <1>8, <2>1, EditsKeep, FileStoreAssumption, CtxFields
       DEF CreatePCs, DeletePCs, Exists, FileFresh, FilesFresh, FileShape,
           FilesShaped, HandlerFresh, HandlersFresh, HandlerShape,
           HandlersShaped, KnowledgePCs, NoSweep, NoTask, OnlyRequest, PutPCs,
           RemoveFromLiveRag, SameStanding, Shape, StoreTypeOK, TypeOK,
           Unpublish, Working
  <2>6. Pointed'
    <3>1. PICK f \in Files : /\ f = ctx[r].file /\ Exists(f)
                             /\ rows[f].doc = ctx[r].doc /\ ctx[r].doc # NoDoc
      BY <1>8, CtxFields
         DEF Unpublish, KnowledgePCs, Shape, TypeOK, HandlersShaped, HandlerShape,
             HandlersFresh, HandlerFresh, Exists
    <3>2. \A g \in Files : Exists(g) /\ rows[g].doc = ctx[r].doc => g = f
      BY <3>1, DocsDiffer
    <3>. QED
      BY <1>8, <2>1, <3>1, <3>2
         DEF Unpublish, RemoveFromLiveRag, OnlyRequest, Pointed, Exists, Shape, TypeOK
  <2>7. Uploads = {} => CreatorsRoomy'
    BY <1>8, <2>1, <2>5, StandingShrinks, CreatorsStay
       DEF CreatePCs, CreatorsStand, NoSweep, NoTask, OnlyRequest,
           RemoveFromLiveRag, Shape, TypeOK, Unpublish, Working
  <2>8. SameHands
    BY <1>8, <2>1, CtxFields
       DEF NoSweep, NoTask, OnlyRequest, SameHands, Shape, Superseding, TypeOK,
           Unpublish, Working
  <2>. QED
    BY <2>2, <2>3, <2>4, <2>5, <2>6, <2>7, <2>8, StandingShrinks, ShrinkKeeps
       DEF Stood
<1>9. ASSUME NEW r \in Reqs, SaveDemoted(r) PROVE Serial' /\ Stood
  <2>1. pc[r] # "idle" /\ OnlyRequest(r)
    BY <1>9, AloneInRequest DEF SaveDemoted
  <2>a. PICK f \in Files : /\ f = ctx[r].file /\ rows[f] \in Row
                           /\ ctx[r].snap = rows[f]
                           /\ ctx[r].doc \in Docs
    BY <1>9, CtxFields
       DEF SaveDemoted, KnowledgePCs, Shape, TypeOK, HandlersShaped, HandlerShape,
           HandlersFresh, HandlerFresh
  <2>b. PICK row \in Row : /\ Save(f, row) /\ info' = info
                           /\ row.latest = rows[f].latest
                           /\ row.deleted = rows[f].deleted
                           /\ row.archived = rows[f].archived
    <3>1. [rows[f] EXCEPT !.doc = NoDoc] \in Row
      BY <2>a DEF Row
    <3>2. Save(f, [rows[f] EXCEPT !.doc = NoDoc]) /\ info' = info
      BY <1>9, <2>a DEF SaveDemoted, Save
    <3>3. LET new == [rows[f] EXCEPT !.doc = NoDoc]
          IN  /\ new.latest = rows[f].latest /\ new.deleted = rows[f].deleted
              /\ new.archived = rows[f].archived
      BY <2>a DEF Row
    <3>. QED
      BY <3>1, <3>2, <3>3
  <2>2. Alone'
    BY <1>9, <2>1, FileLifecycleAssumption
       DEF Alone, Blank, Exists, Finish, NoSweep, NoTask, OnlyRequest, Save,
           SaveDemoted, Shape, TypeOK, Working
  <2>3. HandlersFresh'
    BY <1>9, <2>1, CtxFields, EditsKeep
       DEF Blank, CreatePCs, DeletePCs, Exists, Finish, HandlerFresh,
           HandlersFresh, HandlerShape, HandlersShaped, KnowledgePCs, Listed,
           NoSweep, NoTask, OnlyRequest, PutPCs, SameName, Save, SaveDemoted,
           Shape, StoreTypeOK, TypeOK, Working
  <2>4. FilesFresh'
    BY <1>9, <2>1, EditsKeep, SMTT(30)
       DEF Blank, Exists, FileFresh, FilesFresh, FileShape, FilesShaped,
           Finish, NoSweep, NoTask, OnlyRequest, Save, SaveDemoted, Shape,
           StoreTypeOK, TypeOK, Working
  <2>5. SameStanding
    BY <2>a, <2>b, SaveStands, FileStoreAssumption DEF Exists
  <2>6. Pointed'
    BY <1>9, <2>1, EditsKeep, CtxFields
       DEF Blank, CreatePCs, DeletePCs, Exists, FileFresh, FilesFresh, Finish,
           HandlerFresh, HandlersFresh, HandlerShape, HandlersShaped,
           KnowledgePCs, NoSweep, NoTask, OnlyRequest, Pointed, PutPCs, Save,
           SaveDemoted, Shape, StoreTypeOK, TypeOK, Working
  <2>7. Uploads = {} => CreatorsRoomy'
    BY <1>9, <2>1, <2>5, StandingShrinks, CreatorsStay
       DEF Blank, CreatePCs, CreatorsStand, Exists, Finish, NoSweep, NoTask,
           OnlyRequest, Save, SaveDemoted, Shape, TypeOK, Working
  <2>8. SameHands
    BY <1>9, <2>1, CtxFields
       DEF Blank, Finish, NoSweep, NoTask, OnlyRequest, SameHands, SaveDemoted,
           Shape, Superseding, TypeOK, Working
  <2>. QED
    BY <2>2, <2>3, <2>4, <2>5, <2>6, <2>7, <2>8, StandingShrinks, ShrinkKeeps
       DEF Stood
<1>10. ASSUME NEW f \in Files, Age(f) PROVE Serial' /\ Stood
  <2>2. Alone'
    BY <1>10, FileLifecycleAssumption DEF Age, Alone, Shape, TypeOK, Working
  <2>3. HandlersFresh'
    BY <1>10, CtxFields, EditsKeep
       DEF Age, CreatePCs, DeletePCs, Exists, HandlerFresh, HandlersFresh,
           HandlerShape, HandlersShaped, KnowledgePCs, Listed, PutPCs,
           SameName, Shape, StoreTypeOK, TypeOK, Working
  <2>4. FilesFresh'
    BY <1>10, EditsKeep
       DEF Age, Exists, FileFresh, FilesFresh, FileShape, FilesShaped, Shape,
           StoreTypeOK, TypeOK, Working
  <2>5. SameStanding
    BY <1>10, EditsKeep, FileStoreAssumption, CtxFields
       DEF Age, CreatePCs, DeletePCs, Exists, FileFresh, FilesFresh, FileShape,
           FilesShaped, HandlerFresh, HandlersFresh, HandlerShape,
           HandlersShaped, KnowledgePCs, PutPCs, SameStanding, Shape,
           StoreTypeOK, TypeOK, Working
  <2>6. Pointed'
    BY <1>10, EditsKeep, CtxFields
       DEF Age, CreatePCs, DeletePCs, Exists, FileFresh, FilesFresh,
           HandlerFresh, HandlersFresh, HandlerShape, HandlersShaped,
           KnowledgePCs, Pointed, PutPCs, Shape, StoreTypeOK, TypeOK, Working
  <2>7. Uploads = {} => CreatorsRoomy'
    BY <1>10, <2>5, StandingShrinks, CreatorsStay
       DEF Age, CreatePCs, CreatorsStand, Shape, TypeOK, Working
  <2>8. SameHands
    BY <1>10, CtxFields DEF Age, SameHands, Shape, Superseding, TypeOK, Working
  <2>. QED
    BY <2>2, <2>3, <2>4, <2>5, <2>6, <2>7, <2>8, StandingShrinks, ShrinkKeeps
       DEF Stood
<1>11. ASSUME SweepStart PROVE Serial' /\ Stood
  <2>1. Quiet /\ Nobody
    BY <1>11, AloneAtStart DEF SweepStart
  <2>2. Alone'
    BY <1>11, <2>1, FileLifecycleAssumption
       DEF Alone, Exists, Expired, ListActive, Nobody, NoSweep, NoTask, Quiet,
           Shape, SweepStart, TypeOK, Working
  <2>3. HandlersFresh'
    BY <1>11, <2>1, CtxFields, EditsKeep
       DEF CreatePCs, DeletePCs, Exists, Expired, HandlerFresh, HandlersFresh,
           HandlerShape, HandlersShaped, KnowledgePCs, ListActive, Listed,
           Nobody, NoSweep, NoTask, PutPCs, Quiet, SameName, Shape,
           StoreTypeOK, SweepStart, TypeOK, Working
  <2>4. FilesFresh'
    BY <1>11, <2>1, EditsKeep
       DEF Exists, Expired, FileFresh, FilesFresh, FileShape, FilesShaped,
           ListActive, Nobody, NoSweep, NoTask, Quiet, Shape, StoreTypeOK,
           SweepStart, TypeOK, Working
  <2>5. SameStanding
    BY <1>11, <2>1, EditsKeep, FileStoreAssumption, CtxFields
       DEF CreatePCs, DeletePCs, Exists, Expired, FileFresh, FilesFresh,
           FileShape, FilesShaped, HandlerFresh, HandlersFresh, HandlerShape,
           HandlersShaped, KnowledgePCs, ListActive, Nobody, NoSweep, NoTask,
           PutPCs, Quiet, SameStanding, Shape, StoreTypeOK, SweepStart, TypeOK,
           Working
  <2>6. Pointed'
    BY <1>11, <2>1, EditsKeep, CtxFields
       DEF CreatePCs, DeletePCs, Exists, Expired, FileFresh, FilesFresh,
           HandlerFresh, HandlersFresh, HandlerShape, HandlersShaped,
           KnowledgePCs, ListActive, Nobody, NoSweep, NoTask, Pointed, PutPCs,
           Quiet, Shape, StoreTypeOK, SweepStart, TypeOK, Working
  <2>7. Uploads = {} => CreatorsRoomy'
    BY <1>11, <2>1, <2>5, StandingShrinks, CreatorsStay
       DEF CreatePCs, CreatorsStand, Exists, Expired, ListActive, Nobody,
           NoSweep, NoTask, Quiet, Shape, SweepStart, TypeOK, Working
  <2>8. SameHands
    BY <1>11, <2>1, CtxFields
       DEF Nobody, NoSweep, NoTask, Quiet, SameHands, Shape, Superseding,
           SweepStart, TypeOK, Working
  <2>. QED
    BY <2>2, <2>3, <2>4, <2>5, <2>6, <2>7, <2>8, StandingShrinks, ShrinkKeeps
       DEF Stood
<1>12. ASSUME NEW f \in Files, SweepUnpublish(f) PROVE Serial' /\ Stood
  <2>1. sweepRow[f] # NoRow /\ OnlySweep
    BY <1>12, AloneInSweep DEF SweepUnpublish
  <2>2. Alone'
    BY <1>12, <2>1, FileLifecycleAssumption
       DEF Alone, NoTask, OnlySweep, RemoveFromLiveRag, Shape, SweepUnpublish,
           TypeOK, Working
  <2>3. HandlersFresh'
    BY <1>12, <2>1, CtxFields, EditsKeep
       DEF CreatePCs, DeletePCs, Exists, HandlerFresh, HandlersFresh,
           HandlerShape, HandlersShaped, KnowledgePCs, Listed, NoTask,
           OnlySweep, PutPCs, RemoveFromLiveRag, SameName, Shape, StoreTypeOK,
           SweepUnpublish, TypeOK, Working
  <2>4. FilesFresh'
    BY <1>12, <2>1, EditsKeep
       DEF Exists, FileFresh, FilesFresh, FileShape, FilesShaped, NoTask,
           OnlySweep, RemoveFromLiveRag, Shape, StoreTypeOK, SweepUnpublish,
           TypeOK, Working
  <2>5. SameStanding
    BY <1>12, <2>1, EditsKeep, FileStoreAssumption, CtxFields
       DEF CreatePCs, DeletePCs, Exists, FileFresh, FilesFresh, FileShape,
           FilesShaped, HandlerFresh, HandlersFresh, HandlerShape,
           HandlersShaped, KnowledgePCs, NoTask, OnlySweep, PutPCs,
           RemoveFromLiveRag, SameStanding, Shape, StoreTypeOK, SweepUnpublish,
           TypeOK, Working
  <2>6. Pointed'
    <3>1. Exists(f) /\ rows[f].doc = sweepRow[f].doc /\ rows[f].doc # NoDoc
      BY <1>12, <2>1 DEF SweepUnpublish, FilesFresh, FileFresh, Exists
    <3>2. \A g \in Files : Exists(g) /\ rows[g].doc = rows[f].doc => g = f
      BY <3>1, DocsDiffer
    <3>. QED
      BY <1>12, <2>1, <3>1, <3>2, FileStoreAssumption
         DEF SweepUnpublish, RemoveFromLiveRag, OnlySweep, Pointed, Exists
  <2>7. Uploads = {} => CreatorsRoomy'
    BY <1>12, <2>1, <2>5, StandingShrinks, CreatorsStay
       DEF CreatePCs, CreatorsStand, NoTask, OnlySweep, RemoveFromLiveRag,
           Shape, SweepUnpublish, TypeOK, Working
  <2>8. SameHands
    BY <1>12, <2>1, CtxFields
       DEF NoTask, OnlySweep, SameHands, Shape, Superseding, SweepUnpublish,
           TypeOK, Working
  <2>. QED
    BY <2>2, <2>3, <2>4, <2>5, <2>6, <2>7, <2>8, StandingShrinks, ShrinkKeeps
       DEF Stood
<1>13. ASSUME NEW f \in Files, SweepArchive(f) PROVE Serial' /\ Stood
  <2>1. sweepRow[f] # NoRow /\ OnlySweep
    BY <1>13, AloneInSweep DEF SweepArchive
  <2>a. rows[f] \in Row /\ sweepRow[f] = rows[f]
    BY <2>1 DEF Shape, TypeOK, FilesFresh, FileFresh
  <2>b. PICK row \in Row : Save(f, row) /\ info' = info /\ row.archived
    <3>1. [rows[f] EXCEPT !.archived = TRUE, !.doc = NoDoc] \in Row
      BY <2>a DEF Row
    <3>2. Save(f, [rows[f] EXCEPT !.archived = TRUE, !.doc = NoDoc]) /\ info' = info
      BY <1>13, <2>a DEF SweepArchive, Save
    <3>. QED
      BY <2>a, <3>1, <3>2, EditsKeep
  <2>2. Alone'
    BY <1>13, <2>1, FileLifecycleAssumption
       DEF Alone, Exists, NoTask, OnlySweep, Save, Shape, SweepArchive, TypeOK,
           Working
  <2>3. HandlersFresh'
    BY <1>13, <2>1, CtxFields, EditsKeep
       DEF CreatePCs, DeletePCs, Exists, HandlerFresh, HandlersFresh,
           HandlerShape, HandlersShaped, KnowledgePCs, Listed, NoTask,
           OnlySweep, PutPCs, SameName, Save, Shape, StoreTypeOK, SweepArchive,
           TypeOK, Working
  <2>4. FilesFresh'
    BY <1>13, <2>1, EditsKeep
       DEF Exists, FileFresh, FilesFresh, FileShape, FilesShaped, NoTask,
           OnlySweep, Save, Shape, StoreTypeOK, SweepArchive, TypeOK, Working
  <2>5. Shrinks
    BY <2>b DEF Shrinks, Save, Exists, Shape, TypeOK, StoreTypeOK
  <2>6. Pointed'
    BY <1>13, <2>1, EditsKeep, CtxFields
       DEF CreatePCs, DeletePCs, Exists, FileFresh, FilesFresh, HandlerFresh,
           HandlersFresh, HandlerShape, HandlersShaped, KnowledgePCs, NoTask,
           OnlySweep, Pointed, PutPCs, Save, Shape, StoreTypeOK, SweepArchive,
           TypeOK, Working
  <2>7. Uploads = {} => CreatorsRoomy'
    BY <1>13, <2>1, <2>5, CreatorsStay
       DEF CreatePCs, CreatorsStand, Exists, NoTask, OnlySweep, Save, Shape,
           SweepArchive, TypeOK, Working
  <2>8. CatalogCall
    BY <1>13 DEF CatalogCall
  <2>. QED
    BY <2>2, <2>3, <2>4, <2>5, <2>6, <2>7, <2>8, ShrinkKeeps
       DEF Stood
<1>14. ASSUME Restart PROVE Serial' /\ Stood
  <2>2. Alone'
    BY <1>14, FileLifecycleAssumption
       DEF Alone, Blank, Restart, Shape, TypeOK, Working
  <2>3. HandlersFresh'
    BY <1>14, CtxFields, EditsKeep
       DEF Blank, CreatePCs, DeletePCs, Exists, HandlerFresh, HandlersFresh,
           HandlerShape, HandlersShaped, KnowledgePCs, Listed, PutPCs, Restart,
           SameName, Shape, StoreTypeOK, TypeOK, Working
  <2>4. FilesFresh'
    BY <1>14, EditsKeep
       DEF Blank, Exists, FileFresh, FilesFresh, FileShape, FilesShaped,
           Restart, Shape, StoreTypeOK, TypeOK, Working
  <2>5. SameStanding
    BY <1>14, EditsKeep, FileStoreAssumption, CtxFields
       DEF Blank, CreatePCs, DeletePCs, Exists, FileFresh, FilesFresh,
           FileShape, FilesShaped, HandlerFresh, HandlersFresh, HandlerShape,
           HandlersShaped, KnowledgePCs, PutPCs, Restart, SameStanding, Shape,
           StoreTypeOK, TypeOK, Working
  <2>6. Pointed'
    BY <1>14, EditsKeep, CtxFields
       DEF Blank, CreatePCs, DeletePCs, Exists, FileFresh, FilesFresh,
           HandlerFresh, HandlersFresh, HandlerShape, HandlersShaped,
           KnowledgePCs, Pointed, PutPCs, Restart, Shape, StoreTypeOK, TypeOK,
           Working
  <2>7. Uploads = {} => CreatorsRoomy'
    BY <1>14, <2>5, StandingShrinks, CreatorsStay
       DEF Blank, CreatePCs, CreatorsStand, Restart, Shape, TypeOK, Working
  <2>8. SameHands
    BY <1>14, CtxFields
       DEF Blank, Restart, SameHands, Shape, Superseding, TypeOK, Working
  <2>. QED
    BY <2>2, <2>3, <2>4, <2>5, <2>6, <2>7, <2>8, StandingShrinks, ShrinkKeeps
       DEF Stood
<1>. QED
  BY <1>1, <1>2, <1>3, <1>4, <1>5, <1>6, <1>7, <1>8, <1>9, <1>10, <1>11, <1>12,
     <1>13, <1>14
     DEF OtherActions, DeleteStep, KnowledgeStep, SweepStep

LEMMA SerialStutter == Serial /\ UNCHANGED vars => Serial' /\ SameStanding /\ SameHands
BY DEF Serial, Alone, Working, Fresh, HandlersFresh, HandlerFresh, FilesFresh,
       FileFresh, OneListed, Listed, SameName, Pointed, Roomy, QuotaRespected,
       CreatorsRoomy, WithinQuota, ListByOwner, Exists, SameStanding, SameHands,
       Superseding, vars, storeVars, ctlVars

LEMMA SerialStep ==
    ASSUME Shape, Shape', Backing, Chaining, Serial, ~Overlap, [Next]_vars
    PROVE  Serial' /\ Stood
BY NextInGroups, SerialUpload, SerialWorker, SerialOther, SerialStutter DEF Stood

LEMMA SerialInvariant ==
    ASSUME ~Overlap PROVE Spec => [](Shape /\ Backing /\ Chaining /\ Serial)
<1>1. Init => Serial
  BY SerialInit
<1>2. Shape /\ Backing /\ Chaining /\ Serial /\ Shape' /\ [Next]_vars => Serial'
  BY SerialStep
<1>. QED
  BY <1>1, <1>2, ChainingInvariant, PTL DEF Spec

\* When calls do not overlap, an owner lists one version per name, through
\* failing puts, restarts and chunked uploads.
THEOREM OneVersionListed == ASSUME ~Overlap PROVE Spec => []OneLatest
<1>1. Serial => OneLatest
  BY DEF Serial, Fresh, OneListed, Listed, OneLatest, ListLatestByOwner, ListByOwner
<1>. QED
  BY <1>1, SerialInvariant, PTL

\* And what the owner lists stays within the quota, as long as nobody uploads
\* in chunks: a chunked upload meets the quota at init alone (app.py,
\* init_file_upload), so two of them may both pass it.
THEOREM ListsAreSound ==
    ASSUME ~Overlap, Uploads = {} PROVE Spec => []ListingIsSound
<1>1. Serial => ListingIsSound
  BY DEF Serial, Fresh, OneListed, Listed, Roomy, ListingIsSound, OneLatest,
         ListLatestByOwner, ListByOwner
<1>. QED
  BY <1>1, SerialInvariant, PTL

-----------------------------------------------------------------------------
(* Rows and the knowledge base.  Pointed says that what a row names is      *)
(* served; Named is the other direction.                                    *)

\* A document has a file as its source, and that file was uploaded.
Sourced ==
    \A d \in Docs : docSource[d] # NoFile => info[docSource[d]] # NoInfo

\* Document d is named by the row of file f, or is about to be; or f has
\* another document, or no row.
NamedBy(d, f) ==
    \/ ~Exists(f) \/ rows[f].doc = d
    \/ \E r \in Reqs : pc[r] = "save_promoted" /\ ctx[r].doc = d
    \/ \E e \in Docs \ {d} : docSource[e] = f

Named ==
    \A d \in live : docSource[d] # NoFile /\ NamedBy(d, docSource[d])

\* A step after which a row that was written before is gone, or names what it
\* named.
NamesStay ==
    \A f \in Files : info[f] # NoInfo /\ Exists(f)' =>
        Exists(f) /\ rows'[f].doc = rows[f].doc

\* So does a save of an edited copy, when the copy is the row.
LEMMA SaveKeepsName ==
    ASSUME Shape, NEW f \in Files, NEW row, rows' = [rows EXCEPT ![f] = row], Exists(f),
           row.doc = rows[f].doc
    PROVE  NamesStay
BY DEF NamesStay, Exists, Shape, TypeOK, StoreTypeOK

LEMMA CreateNames ==
    ASSUME Shape, Backing, Serial, NEW r \in Reqs, CreateStep(r) PROVE NamesStay
<1>a. rows' = rows => NamesStay
  BY DEF NamesStay, Exists
<1>1. ASSUME Supersede(r) PROVE NamesStay
  <2>1. ctx[r].old \in Files /\ Exists(ctx[r].old) /\ rows[ctx[r].old] = ctx[r].snap
    BY <1>1, CtxFields
       DEF Supersede, Shape, TypeOK, HandlersShaped, HandlerShape, Serial, Fresh,
           HandlersFresh, HandlerFresh, Listed
  <2>2. ctx[r].snap \in Row
    BY <2>1 DEF Exists, Shape, TypeOK, StoreTypeOK
  <2>3. [ctx[r].snap EXCEPT !.latest = FALSE].doc = ctx[r].snap.doc
    BY <2>2 DEF Row
  <2>. QED
    BY <1>1, <2>1, <2>3, SaveKeepsName DEF Supersede, Save
<1>2. ASSUME SaveNew(r) PROVE NamesStay
  <2>1. ctx[r].file \in Files /\ info[ctx[r].file] = NoInfo
    BY <1>2, CtxFields
       DEF SaveNew, Shape, TypeOK, HandlersShaped, HandlerShape, Backing, HandlersBacked,
           HandlerBacked, CreatePCs
  <2>2. \A f \in Files : f # ctx[r].file => rows'[f] = rows[f]
    BY <1>2, <2>1 DEF SaveNew, Save, Shape, TypeOK, StoreTypeOK
  <2>. QED
    BY <2>1, <2>2 DEF NamesStay, Exists
<1>3. ASSUME PurgeRow(r) PROVE NamesStay
  BY <1>3 DEF PurgeRow, HardDelete, NamesStay, Exists, Shape, TypeOK, StoreTypeOK
<1>. QED
  BY <1>a, <1>1, <1>2, <1>3
     DEF CreateStep, ReadChunks, FindDuplicate, PurgeBytes, FindLatest, PutOriginal,
         PutFails, CloseSession, storeVars

LEMMA WorkerNames ==
    ASSUME Shape, Serial, NEW f \in Files, WorkerStep(f) PROVE NamesStay
<1>a. rows' = rows => NamesStay
  BY DEF NamesStay, Exists
<1>1. ASSUME task[f] \in {"fetched", "indexing", "derived"}
      PROVE  /\ Exists(f)
             /\ \A s \in Statuses : [taskRow[f] EXCEPT !.status = s].doc = rows[f].doc
  <2>1. taskRow[f] = rows[f] /\ taskRow[f] \in Row
    BY <1>1 DEF Serial, Fresh, FilesFresh, FileFresh, Shape, TypeOK, FilesShaped, FileShape
  <2>. QED
    BY <2>1, FileStoreAssumption DEF Row, Exists
<1>2. ASSUME NEW s \in Statuses, task[f] \in {"fetched", "indexing", "derived"},
             Save(f, [taskRow[f] EXCEPT !.status = s])
      PROVE  NamesStay
  BY <1>1, <1>2, SaveKeepsName DEF Save
<1>3. ASSUME WorkerMarkIndexing(f) PROVE NamesStay
  <2>1. taskRow'[f] = [taskRow[f] EXCEPT !.status = "indexing"]
    BY <1>3 DEF WorkerMarkIndexing, Shape, TypeOK
  <2>. QED
    BY <1>2, <1>3, <2>1 DEF WorkerMarkIndexing, Statuses
<1>4. ASSUME WorkerRejectRows(f) PROVE NamesStay
  BY <1>2, <1>4 DEF WorkerRejectRows, Statuses
<1>5. ASSUME WorkerSaveReady(f) PROVE NamesStay
  BY <1>2, <1>5 DEF WorkerSaveReady, Statuses
<1>. QED
  BY <1>a, <1>3, <1>4, <1>5
     DEF WorkerStep, WorkerFetch, WorkerWriteParquet, WorkerUpsertChunks, WorkerRaises,
         storeVars

\* Of the others, only a promotion, a demotion and the sweep write a pointer.
LEMMA DeleteNames ==
    ASSUME Shape, NEW r \in Reqs, DeleteStep(r) \/ Publish(r) \/ Unpublish(r)
    PROVE  NamesStay
<1>a. rows' = rows => NamesStay
  BY DEF NamesStay, Exists
<1>1. ASSUME DeleteRow(r) PROVE NamesStay
  <2>1. CASE Exists(ctx[r].file)
    <3>1. rows[ctx[r].file] \in Row /\ ctx[r].file \in Files
      BY <1>1, <2>1, CtxFields
         DEF DeleteRow, DeletePCs, Exists, Shape, TypeOK, StoreTypeOK, HandlersShaped,
             HandlerShape
    <3>2. rows' = [rows EXCEPT ![ctx[r].file] = [rows[ctx[r].file] EXCEPT !.deleted = TRUE]]
      BY <1>1, <2>1, <3>1 DEF DeleteRow, SoftDelete, Shape, TypeOK, StoreTypeOK
    <3>3. [rows[ctx[r].file] EXCEPT !.deleted = TRUE].doc = rows[ctx[r].file].doc
      BY <3>1 DEF Row
    <3>. QED
      BY <2>1, <3>1, <3>2, <3>3, SaveKeepsName
  <2>. QED
    BY <1>a, <1>1, <2>1 DEF DeleteRow, SoftDelete
<1>. QED
  BY <1>a, <1>1 DEF DeleteStep, DeleteBytes, Publish, Unpublish

LEMMA StepNames ==
    ASSUME Shape, Backing, Serial, [Next]_vars,
           ~\E r \in Reqs : SavePromoted(r) \/ SaveDemoted(r),
           ~\E f \in Files : SweepArchive(f)
    PROVE  NamesStay
<1>a. rows' = rows => NamesStay
  BY DEF NamesStay, Exists
<1>1. CASE Call
  BY <1>a, <1>1, CallsRead
<1>2. ASSUME NEW r \in Reqs, HandlerStep(r) PROVE NamesStay
  BY <1>2, CreateNames, DeleteNames DEF HandlerStep, KnowledgeStep, DeleteStep
<1>3. ASSUME NEW f \in Files, Age(f) \/ SweepUnpublish(f) PROVE NamesStay
  BY <1>a, <1>3 DEF Age, SweepUnpublish, storeVars
<1>4. CASE SweepStart \/ Restart
  BY <1>a, <1>4 DEF SweepStart, Restart, storeVars
<1>5. CASE UNCHANGED vars
  BY <1>a, <1>5 DEF vars, storeVars
<1>. QED
  BY <1>1, <1>2, <1>3, <1>4, <1>5, WorkerNames DEF Next, SweepStep

\* A request on its way to write a pointer stays so until it does.
LEMMA PromotionsStay ==
    ASSUME Shape, ~MayRestart, [Next]_vars, NEW r \in Reqs, pc[r] = "save_promoted",
           ~SavePromoted(r)
    PROVE  pc'[r] = "save_promoted" /\ ctx'[r] = ctx[r]
<1> DEFINE Same == pc'[r] = pc[r] /\ ctx'[r] = ctx[r]
<1> USE DEF Goto, Finish, Shape, TypeOK
<1>1. ASSUME NEW s \in Reqs, CreateStep(s) PROVE Same
  <2>1. ASSUME ReadChunks(s) \/ PutFails(s) \/ SaveNew(s) PROVE Same
    BY <2>1 DEF ReadChunks, PutFails, SaveNew
  <2>2. ASSUME FindDuplicate(s) \/ FindLatest(s) PROVE Same
    BY <2>2 DEF FindDuplicate, FindLatest
  <2>3. ASSUME PurgeBytes(s) \/ PurgeRow(s) \/ Supersede(s) PROVE Same
    BY <2>3 DEF PurgeBytes, PurgeRow, Supersede
  <2>4. ASSUME PutOriginal(s) \/ CloseSession(s) PROVE Same
    BY <2>4 DEF PutOriginal, CloseSession
  <2>. QED
    BY <1>1, <2>1, <2>2, <2>3, <2>4 DEF CreateStep
<1>2. ASSUME NEW s \in Reqs, DeleteStep(s) PROVE Same
  BY <1>2 DEF DeleteStep, DeleteBytes, DeleteRow
<1>3. ASSUME NEW s \in Reqs, KnowledgeStep(s) PROVE Same
  BY <1>3 DEF KnowledgeStep, Publish, Unpublish, SavePromoted, SaveDemoted
<1>4. CASE Call
  <2>1. ASSUME NEW u \in Uploads, PutChunks(u) \/ \E p \in Payload : InitUpload(u, p)
        PROVE  Same
    BY <2>1 DEF PutChunks, InitUpload
  <2>2. ASSUME NEW s \in Reqs, NEW f \in Files, NEW p \in Payload, UploadStart(s, p, f)
        PROVE  Same
    BY <2>2 DEF UploadStart, MayStart
  <2>3. ASSUME NEW s \in Reqs, NEW f \in Files, NEW u \in Uploads, CompleteStart(s, u, f)
        PROVE  Same
    BY <2>3 DEF CompleteStart, MayStart
  <2>4. ASSUME NEW s \in Reqs, NEW f \in Files, DeleteStart(s, f) PROVE Same
    BY <2>4 DEF DeleteStart, MayStart
  <2>5. ASSUME NEW s \in Reqs, NEW f \in Files, NEW d \in Docs, PromoteStart(s, f, d)
        PROVE  Same
    BY <2>5 DEF PromoteStart, MayStart
  <2>6. ASSUME NEW s \in Reqs, NEW d \in Docs, DemoteStart(s, d) PROVE Same
    <3>1. s # r /\ \E c : ctx' = [ctx EXCEPT ![s] = c]
      BY <2>6, Zenon DEF DemoteStart, MayStart
    <3>. QED
      BY <2>6, <3>1 DEF DemoteStart
  <2>. QED
    BY <1>4, <2>1, <2>2, <2>3, <2>4, <2>5, <2>6 DEF Call
<1>5. ASSUME NEW f \in Files, WorkerStep(f) \/ Age(f) PROVE Same
  BY <1>5
     DEF WorkerStep, WorkerFetch, WorkerRejectRows, WorkerWriteParquet, WorkerMarkIndexing,
         WorkerUpsertChunks, WorkerRaises, WorkerSaveReady, Age
<1>6. ASSUME NEW f \in Files, SweepUnpublish(f) \/ SweepArchive(f) PROVE Same
  BY <1>6 DEF SweepUnpublish, SweepArchive
<1>7. CASE SweepStart \/ UNCHANGED vars
  BY <1>7 DEF SweepStart, vars, ctlVars
<1>8. ~Restart
  BY DEF Restart
<1>9. Same
  BY <1>1, <1>2, <1>3, <1>4, <1>5, <1>6, <1>7, <1>8
     DEF Next, HandlerStep, SweepStep
<1>. QED
  BY <1>9

LEMMA NamedStep ==
    ASSUME Shape, Backing, Withdrawn, Serial, Sourced, Named, ~MayRestart, [Next]_vars
    PROVE  Sourced' /\ Named'
<1>1. StoreGrows
  BY UploadGrows, WorkerGrows, OtherGrows, NextInGroups
     DEF StoreGrows, vars, storeVars
<1>2. \A d \in Docs : docSource[d] \in Files \cup {NoFile} /\ NoFile \notin Files
  BY FileStoreAssumption DEF Shape, TypeOK, StoreTypeOK
<1>3. Sourced'
  <2>1. CASE \E r \in Reqs : Publish(r)
    <3>1. PICK r \in Reqs : Publish(r)
      BY <2>1
    <3>2. ctx[r].file \in Files /\ info[ctx[r].file] # NoInfo /\ info' = info
      BY <3>1, CtxFields
         DEF Publish, KnowledgePCs, Shape, TypeOK, HandlersShaped, HandlerShape
    <3>3. \A d \in Docs : docSource'[d] \in {docSource[d], ctx[r].file}
      BY <3>1 DEF Publish, PublishDoc, Shape, TypeOK, StoreTypeOK
    <3>. QED
      BY <3>2, <3>3 DEF Sourced
  <2>2. CASE ~\E r \in Reqs : Publish(r)
    BY <1>1, <1>2, <2>2, LiveShrinks DEF Sourced, StoreGrows
  <2>. QED
    BY <2>1, <2>2
<1>4. ASSUME NEW d \in live, d \in live'
      PROVE  docSource'[d] # NoFile /\ NamedBy(d, docSource[d])'
  <2>1. PICK f \in Files : /\ d \in Docs /\ docSource[d] = f /\ docSource'[d] = f
                           /\ info[f] # NoInfo /\ NamedBy(d, f)
    BY <1>1, <1>2 DEF Named, Sourced, StoreGrows, Shape, TypeOK, StoreTypeOK
  <2>2. (\E e \in Docs \ {d} : docSource[e] = f) => NamedBy(d, f)'
    BY <1>1, <1>2, <2>1 DEF StoreGrows, NamedBy
  <2>3. NamedBy(d, f)'
    <3>1. CASE \E r \in Reqs : SavePromoted(r)
      <4>1. PICK r \in Reqs : SavePromoted(r)
        BY <3>1
      <4>2. /\ ctx[r].file \in Files /\ ctx[r].doc \in Docs
            /\ docSource[ctx[r].doc] = ctx[r].file
            /\ ctx[r].snap = rows[ctx[r].file] /\ ctx[r].snap \in Row
        BY <4>1, CtxFields
           DEF SavePromoted, KnowledgePCs, Shape, TypeOK, HandlersShaped, HandlerShape,
               Backing, HandlersBacked, HandlerBacked, Serial, Fresh, HandlersFresh,
               HandlerFresh
      <4>3. /\ rows'[ctx[r].file].doc = ctx[r].doc
            /\ \A g \in Files : g # ctx[r].file => rows'[g] = rows[g]
        <5>1. [ctx[r].snap EXCEPT !.doc = ctx[r].doc].doc = ctx[r].doc
          BY <4>2 DEF Row
        <5>. QED
          BY <4>1, <4>2, <5>1 DEF SavePromoted, Save, Shape, TypeOK, StoreTypeOK
      <4>4. CASE f = ctx[r].file
        BY <2>2, <4>2, <4>3, <4>4 DEF NamedBy
      <4>5. CASE f # ctx[r].file
        <5>1. \A s \in Reqs : pc[s] = "save_promoted" => s = r
          BY <4>1 DEF SavePromoted, Serial, Alone
        <5>2. ctx[r].doc # d
          BY <2>1, <4>2, <4>5
        <5>. QED
          BY <2>1, <2>2, <4>3, <4>5, <5>1, <5>2 DEF NamedBy, Exists
      <4>. QED
        BY <4>4, <4>5
    <3>2. CASE \E r \in Reqs : SaveDemoted(r)
      <4>1. PICK r \in Reqs : SaveDemoted(r)
        BY <3>2
      <4>2. /\ ctx[r].file \in Files /\ ctx[r].snap = rows[ctx[r].file]
            /\ ctx[r].snap.doc = ctx[r].doc /\ ctx[r].doc \notin live
        BY <4>1, CtxFields
           DEF SaveDemoted, KnowledgePCs, Shape, TypeOK, HandlersShaped, HandlerShape,
               Serial, Fresh, HandlersFresh, HandlerFresh, Withdrawn
      <4>3. \A g \in Files : g # ctx[r].file => rows'[g] = rows[g]
        BY <4>1, <4>2 DEF SaveDemoted, Save, Shape, TypeOK, StoreTypeOK
      <4>4. \A s \in Reqs : pc[s] # "save_promoted"
        BY <4>1 DEF SaveDemoted, Serial, Alone
      <4>5. CASE f = ctx[r].file
        <5>1. rows[f].doc # d
          BY <4>2, <4>5
        <5>2. Exists(f)
          BY <4>1, <4>2, <4>5
             DEF SaveDemoted, KnowledgePCs, Shape, HandlersShaped, HandlerShape, Exists
        <5>. QED
          BY <2>1, <2>2, <4>4, <5>1, <5>2 DEF NamedBy
      <4>6. CASE f # ctx[r].file
        BY <2>1, <2>2, <4>3, <4>4, <4>6 DEF NamedBy, Exists
      <4>. QED
        BY <4>5, <4>6
    <3>3. CASE \E g \in Files : SweepArchive(g)
      <4>1. PICK g \in Files : SweepArchive(g)
        BY <3>3
      <4>2. sweepRow[g] = rows[g] /\ Exists(g)
        BY <4>1, FileStoreAssumption
           DEF SweepArchive, Serial, Fresh, FilesFresh, FileFresh, Exists
      <4>3. rows[g].doc # d
        <5>1. sweepRow[g].doc = NoDoc \/ sweepRow[g].doc \notin live
          BY <4>1, FileStoreAssumption DEF SweepArchive, Withdrawn
        <5>. QED
          BY <2>1, <4>2, <5>1, FileStoreAssumption
      <4>4. \A h \in Files : h # g => rows'[h] = rows[h]
        BY <4>1 DEF SweepArchive, Save, Shape, TypeOK, StoreTypeOK
      <4>5. pc' = pc /\ ctx' = ctx
        BY <4>1 DEF SweepArchive
      <4>. QED
        BY <2>1, <2>2, <4>2, <4>3, <4>4, <4>5 DEF NamedBy, Exists
    <3>4. CASE /\ ~\E r \in Reqs : SavePromoted(r) \/ SaveDemoted(r)
               /\ ~\E g \in Files : SweepArchive(g)
      <4>1. NamesStay
        BY <3>4, StepNames
      <4>2. (\E r \in Reqs : pc[r] = "save_promoted" /\ ctx[r].doc = d) =>
               \E r \in Reqs : pc'[r] = "save_promoted" /\ ctx'[r].doc = d
        BY <3>4, PromotionsStay
      <4>3. ~Exists(f) \/ rows[f].doc = d => ~Exists(f)' \/ rows'[f].doc = d
        BY <2>1, <4>1 DEF NamesStay
      <4>. QED
        BY <2>1, <2>2, <4>2, <4>3 DEF NamedBy
    <3>. QED
      BY <3>1, <3>2, <3>3, <3>4
  <2>. QED
    BY <1>2, <2>1, <2>3
<1>5. ASSUME NEW d \in live', d \notin live
      PROVE  docSource'[d] # NoFile /\ NamedBy(d, docSource[d])'
  <2>1. PICK r \in Reqs : Publish(r)
    BY <1>5, LiveShrinks
  <2>2. ctx[r].file \in Files /\ ctx[r].doc \in Docs
    BY <2>1, CtxFields
       DEF Publish, KnowledgePCs, Shape, TypeOK, HandlersShaped, HandlerShape
  <2>3. d = ctx[r].doc /\ docSource'[d] = ctx[r].file
    BY <1>5, <2>1, <2>2 DEF Publish, PublishDoc, Shape, TypeOK, StoreTypeOK
  <2>4. pc'[r] = "save_promoted" /\ ctx'[r].doc = d
    BY <2>1, <2>3 DEF Publish, Goto, Shape, TypeOK
  <2>. QED
    BY <1>2, <2>2, <2>3, <2>4 DEF NamedBy
<1>. QED
  BY <1>3, <1>4, <1>5 DEF Named

\* When calls do not overlap and the process lives, rows and knowledge base
\* agree whenever nothing runs, whatever was promoted, demoted, deleted,
\* archived and uploaded again before.
THEOREM RowsMatchKnowledge ==
    ASSUME ~Overlap, ~MayRestart PROVE Spec => []KnowledgeMatchesRows
<1>1. Init => Withdrawn /\ Sourced /\ Named
  BY DEF Init, StoreInit, Withdrawn, Sourced, Named
<1>2. Shape /\ Backing /\ Withdrawn /\ Serial /\ Sourced /\ Named /\ [Next]_vars
        => Withdrawn' /\ Sourced' /\ Named'
  BY WithdrawnStep, NamedStep
<1>3. Shape /\ Chaining /\ Serial /\ Named => KnowledgeMatchesRows
  <2>1. SUFFICES ASSUME Shape, Serial, Named, Quiet PROVE KnowledgeMatchesRows
    BY DEF KnowledgeMatchesRows
  <2>2. Nobody
    BY <2>1, AloneAtStart
  <2>3. ASSUME NEW f \in Files, Exists(f), rows[f].doc # NoDoc
        PROVE  rows[f].doc \in live
    BY <2>1, <2>2, <2>3, FileStoreAssumption DEF Serial, Pointed, Nobody, NoSweep
  <2>4. \A d \in live :
          \/ ~Exists(docSource[d]) \/ rows[docSource[d]].doc = d
          \/ \E e \in Docs \ {d} : docSource[e] = docSource[d]
    BY <2>1, <2>2 DEF Named, NamedBy, Nobody
  <2>. QED
    BY <2>3, <2>4 DEF KnowledgeMatchesRows
<1>. QED
  BY <1>1, <1>2, <1>3, SerialInvariant, PTL DEF Spec

-----------------------------------------------------------------------------
(* The refinement.  Place maps a file to its shelf in the catalog.         *)

\* A file with a row was uploaded: its place is one of the catalog's.
Uploaded == \A f \in Files : Exists(f) => info[f] # NoInfo

LEMMA PlaceOf ==
    ASSUME Uploaded, NEW f \in Files
    PROVE  /\ info[f] = NoInfo => Place(f) = "none"
           /\ info[f] # NoInfo /\ ~Exists(f) => Place(f) = "purged"
           /\ info[f] # NoInfo /\ Exists(f) =>
                /\ rows[f].archived /\ rows[f].deleted => Place(f) = "withdrawn"
                /\ rows[f].archived /\ ~rows[f].deleted => Place(f) = "archived"
                /\ ~rows[f].archived /\ rows[f].deleted => Place(f) = "deleted"
                /\ ~rows[f].archived /\ ~rows[f].deleted =>
                     Place(f) = IF rows[f].latest \/ Superseding(f)
                                THEN "listed" ELSE "hidden"
BY DEF Place, Uploaded

LEMMA PlaceNext ==
    ASSUME Uploaded', NEW f \in Files
    PROVE  /\ info'[f] = NoInfo => Place(f)' = "none"
           /\ info'[f] # NoInfo /\ ~Exists(f)' => Place(f)' = "purged"
           /\ info'[f] # NoInfo /\ Exists(f)' =>
                /\ rows'[f].archived /\ rows'[f].deleted => Place(f)' = "withdrawn"
                /\ rows'[f].archived /\ ~rows'[f].deleted => Place(f)' = "archived"
                /\ ~rows'[f].archived /\ rows'[f].deleted => Place(f)' = "deleted"
                /\ ~rows'[f].archived /\ ~rows'[f].deleted =>
                     Place(f)' = IF rows'[f].latest \/ Superseding(f)'
                                 THEN "listed" ELSE "hidden"
BY DEF Place, Uploaded

\* A file whose row and hands are the same stays in its place.
LEMMA PlaceStays ==
    ASSUME Uploaded, Uploaded', NEW f \in Files, info'[f] = info[f],
           Superseding(f)' = Superseding(f), Exists(f)' = Exists(f),
           Exists(f) => /\ rows'[f].latest = rows[f].latest
                        /\ rows'[f].deleted = rows[f].deleted
                        /\ rows'[f].archived = rows[f].archived
    PROVE  Place(f)' = Place(f)
BY PlaceOf, PlaceNext

Shelf == [f \in Files |-> Place(f)]
KeyOf == [f \in Files |-> IF info[f] = NoInfo THEN NoInfo
                          ELSE <<info[f].owner, info[f].name>>]

\* One file moves, the others stay.
LEMMA MoveOf ==
    ASSUME NEW f \in Files, NEW from, NEW to, info' = info,
           Place(f) \in from, Place(f)' = to,
           \A g \in Files : g # f => Place(g)' = Place(g)
    PROVE  Catalog!Move(f, from, to)
BY DEF Catalog!Move

LEMMA CatalogInits == Init => Catalog!CatalogInit
<1>1. ASSUME Init, NEW f \in Files PROVE info[f] = NoInfo /\ Place(f) = "none"
  BY <1>1, PlaceOf DEF Init, StoreInit, Uploaded, Exists
<1>. QED
  BY <1>1 DEF Catalog!CatalogInit

\* Every step is a step of the catalog, or none.
LEMMA CatalogSteps ==
    ASSUME Shape, Shape', Backing, Chaining, Serial, Stood, ~StorageFails, ~MayRestart
    PROVE  Catalog!CatalogNext \/ UNCHANGED <<Shelf, KeyOf>>
<1> USE DEF Shape, TypeOK, StoreTypeOK
<1>0. Uploaded /\ Uploaded'
  BY DEF Uploaded, FilesShaped, FileShape
<1>1. CASE SameStanding /\ SameHands
  <2>1. \A f \in Files : Place(f)' = Place(f)
    BY <1>0, <1>1, PlaceStays DEF SameStanding, SameHands
  <2>. QED
    BY <1>1, <2>1 DEF Shelf, KeyOf, SameStanding
<1>2. ASSUME NEW r \in Reqs, PurgeRow(r) PROVE Catalog!CatalogNext
  <2>1. OnlyRequest(r)
    BY <1>2, AloneInRequest DEF PurgeRow
  <2>2. PICK f \in Files : /\ f = ctx[r].old /\ Exists(f) /\ rows[f].archived
                           /\ info[f] # NoInfo
    BY <1>2, CtxFields
       DEF PurgeRow, HandlersShaped, HandlerShape, Serial, Fresh, HandlersFresh,
           HandlerFresh
  <2>3. /\ info' = info /\ ~Exists(f)'
        /\ \A g \in Files : g # f => rows'[g] = rows[g]
    BY <1>2, <2>2 DEF PurgeRow, HardDelete, Exists
  <2>4. \A g \in Files : Superseding(g)' = Superseding(g)
    BY <1>2, <2>1 DEF PurgeRow, Goto, OnlyRequest, Superseding
  <2>5. \A g \in Files : g # f => Place(g)' = Place(g)
    BY <1>0, <2>3, <2>4, PlaceStays DEF Exists
  <2>6. Place(f) \in {"archived", "withdrawn"} /\ Place(f)' = "purged"
    BY <1>0, <2>2, <2>3, PlaceOf, PlaceNext
  <2>. QED
    BY <2>3, <2>5, <2>6, MoveOf DEF Catalog!CatalogNext, Catalog!Purge
<1>3. ASSUME NEW r \in Reqs, Supersede(r) PROVE UNCHANGED <<Shelf, KeyOf>>
  <2>1. OnlyRequest(r)
    BY <1>3, AloneInRequest DEF Supersede
  <2>2. PICK f \in Files : /\ f = ctx[r].old /\ Listed(f) /\ info[f] # NoInfo
                           /\ ctx[r].snap = rows[f] /\ rows[f] \in Row
    BY <1>3, CtxFields
       DEF Supersede, HandlersShaped, HandlerShape, Serial, Fresh, HandlersFresh,
           HandlerFresh, Listed, Exists
  <2>3. PICK row \in Row : /\ rows' = [rows EXCEPT ![f] = row]
                           /\ row.deleted = rows[f].deleted
                           /\ row.archived = rows[f].archived
    <3>1. [rows[f] EXCEPT !.latest = FALSE] \in Row
      BY <2>2 DEF Row
    <3>2. rows' = [rows EXCEPT ![f] = [rows[f] EXCEPT !.latest = FALSE]]
      BY <1>3, <2>2 DEF Supersede, Save
    <3>. QED
      BY <2>2, <3>1, <3>2, EditsKeep
  <2>4. /\ info' = info /\ Superseding(f)'
        /\ \A g \in Files : g # f => Superseding(g)' = Superseding(g)
    BY <1>3, <2>1, <2>2 DEF Supersede, Goto, OnlyRequest, Superseding
  <2>5. \A g \in Files : g # f => Place(g)' = Place(g)
    BY <1>0, <2>3, <2>4, PlaceStays DEF Exists
  <2>6. Place(f) = "listed" /\ Place(f)' = "listed"
    <3>1. Exists(f)' /\ ~rows'[f].deleted /\ ~rows'[f].archived
      BY <2>2, <2>3, FileStoreAssumption DEF Listed, Exists
    <3>. QED
      BY <1>0, <2>2, <2>4, <3>1, PlaceOf, PlaceNext DEF Listed
  <2>. QED
    BY <2>4, <2>5, <2>6 DEF Shelf, KeyOf
<1>4. ASSUME NEW r \in Reqs, SaveNew(r) PROVE Catalog!CatalogNext
  <2>1. OnlyRequest(r)
    BY <1>4, AloneInRequest DEF SaveNew
  <2>2. PICK new \in Files : new = ctx[r].file /\ info[new] = NoInfo
    BY <1>4, CtxFields
       DEF SaveNew, CreatePCs, HandlersShaped, HandlerShape, Backing,
           HandlersBacked, HandlerBacked
  <2>3. PICK it \in Info : it = NewInfo(r)
    BY <1>4, NewInfoIsInfo DEF SaveNew, CreatePCs
  <2>4. PICK o \in Owners, n \in Names :
          /\ o = it.owner /\ n = it.name
          /\ o = ctx[r].input.owner /\ n = ctx[r].input.name
    BY <2>3 DEF NewInfo, Info
  <2>5. /\ pc[r] = "save_new" /\ \A s \in Reqs : pc'[s] = "idle"
        /\ \A f \in Files : f # new => info'[f] = info[f] /\ rows'[f] = rows[f]
        /\ info'[new] = it /\ rows'[new] = NewRow
    BY <1>4, <2>1, <2>2, <2>3 DEF SaveNew, Finish, Save, OnlyRequest
  <2>6. it # NoInfo /\ Place(new) = "none" /\ Place(new)' = "listed"
    <3>1. /\ NewRow # NoRow /\ NewRow.latest /\ ~NewRow.deleted
          /\ ~NewRow.archived
      BY NewRowIsRow, FileStoreAssumption DEF NewRow
    <3>2. it # NoInfo
      BY <2>3, FileStoreAssumption
    <3>3. Exists(new)'
      BY <2>5, <3>1 DEF Exists
    <3>. QED
      BY <1>0, <2>2, <2>5, <3>1, <3>2, <3>3, PlaceOf, PlaceNext
  <2>7. \A g \in Files : /\ ~Superseding(g)'
                         /\ Superseding(g) => SameName(g, o, n) /\ g = ctx[r].old
    <3>1. \A g \in Files : ~Superseding(g)'
      BY <2>5 DEF Superseding
    <3>2. ASSUME NEW g \in Files, Superseding(g) PROVE g = ctx[r].old
      BY <2>1, <3>2 DEF Superseding, OnlyRequest
    <3>3. ASSUME NEW g \in Files, g = ctx[r].old PROVE SameName(g, o, n)
      BY <2>4, <2>5, <3>3, FileStoreAssumption
         DEF SameName, HandlersShaped, HandlerShape, Chaining, HandlersChained,
             HandlerChained
    <3>. QED
      BY <3>1, <3>2, <3>3
  <2>8. \A g \in Files : SameName(g, o, n) => ~Listed(g)
    BY <2>4, <2>5 DEF Serial, Fresh, HandlersFresh, HandlerFresh, PutPCs
  <2>9. ASSUME NEW g \in Files, g # new
        PROVE  Place(g)' = IF SameName(g, o, n) /\ Place(g) = "listed"
                           THEN "hidden" ELSE Place(g)
    <3>1. info'[g] = info[g] /\ rows'[g] = rows[g] /\ Exists(g)' = Exists(g)
      BY <2>5, <2>9 DEF Exists
    <3>2. CASE Superseding(g)
      BY <1>0, <2>7, <2>8, <2>9, <3>1, <3>2, PlaceOf, PlaceNext DEF Listed
    <3>3. CASE ~Superseding(g)
      <4>1. Place(g)' = Place(g)
        <5>1. Superseding(g)' = Superseding(g)
          BY <2>7, <3>3 DEF Superseding
        <5>. QED
          BY <1>0, <3>1, <5>1, PlaceStays
      <4>2. SameName(g, o, n) => Place(g) # "listed"
        BY <1>0, <2>8, <3>3, PlaceOf DEF Listed, SameName
      <4>. QED
        BY <4>1, <4>2
    <3>. QED
      BY <3>2, <3>3
  <2>10. Catalog!Upload(new, <<o, n>>)
    <3>1. KeyOf' = [KeyOf EXCEPT ![new] = <<o, n>>]
      <4>1. ASSUME NEW f \in Files
            PROVE  KeyOf'[f] = IF f = new THEN <<o, n>> ELSE KeyOf[f]
        BY <2>2, <2>4, <2>5, <2>6 DEF KeyOf
      <4>. QED
        BY <2>2, <4>1 DEF KeyOf
    <3>2. ASSUME NEW g \in Files, Place(g) = "listed"
          PROVE  SameName(g, o, n) <=> KeyOf[g] = <<o, n>>
      BY <1>0, <3>2, PlaceOf DEF SameName, KeyOf
    <3>3. Shelf' = [g \in Files |->
                      IF g = new THEN "listed"
                      ELSE IF KeyOf[g] = <<o, n>> /\ Shelf[g] = "listed" THEN "hidden"
                      ELSE Shelf[g]]
      BY <2>6, <2>9, <3>2 DEF Shelf
    <3>. QED
      BY <2>6, <3>1, <3>3 DEF Catalog!Upload, Shelf, KeyOf
  <2>. QED
    BY <2>10 DEF Catalog!CatalogNext
<1>5. ASSUME NEW r \in Reqs, DeleteRow(r) PROVE Catalog!CatalogNext
  <2>1. OnlyRequest(r)
    BY <1>5, AloneInRequest DEF DeleteRow
  <2>2. PICK f \in Files : /\ f = ctx[r].file /\ Exists(f) /\ ~rows[f].deleted
                           /\ info[f] # NoInfo /\ rows[f] \in Row
    BY <1>5, CtxFields
       DEF DeleteRow, DeletePCs, HandlersShaped, HandlerShape, Serial, Fresh,
           HandlersFresh, HandlerFresh, Exists
  <2>3. PICK row \in Row : /\ rows' = [rows EXCEPT ![f] = row]
                           /\ row.deleted /\ row.archived = rows[f].archived
    <3>1. /\ [rows[f] EXCEPT !.deleted = TRUE] \in Row
          /\ [rows[f] EXCEPT !.deleted = TRUE].deleted
          /\ [rows[f] EXCEPT !.deleted = TRUE].archived = rows[f].archived
      BY <2>2 DEF Row
    <3>2. rows' = [rows EXCEPT ![f] = [rows[f] EXCEPT !.deleted = TRUE]]
      BY <1>5, <2>2 DEF DeleteRow, SoftDelete
    <3>. QED
      BY <3>1, <3>2
  <2>4. info' = info /\ \A g \in Files : Superseding(g)' = Superseding(g)
    BY <1>5, <2>1 DEF DeleteRow, Finish, OnlyRequest, Superseding
  <2>5. \A g \in Files : g # f => Place(g)' = Place(g)
    BY <1>0, <2>3, <2>4, PlaceStays DEF Exists
  <2>6. Exists(f)' /\ rows'[f] = row
    BY <2>2, <2>3, FileStoreAssumption DEF Exists
  <2>7. CASE rows[f].archived
    <3>1. Place(f) \in {"archived"} /\ Place(f)' = "withdrawn"
      BY <1>0, <2>2, <2>3, <2>4, <2>6, <2>7, PlaceOf, PlaceNext
    <3>. QED
      BY <2>4, <2>5, <3>1, MoveOf DEF Catalog!CatalogNext, Catalog!Withdraw
  <2>8. CASE ~rows[f].archived
    <3>1. Place(f) \in {"listed", "hidden"} /\ Place(f)' = "deleted"
      BY <1>0, <2>2, <2>3, <2>4, <2>6, <2>8, PlaceOf, PlaceNext
    <3>. QED
      BY <2>4, <2>5, <3>1, MoveOf DEF Catalog!CatalogNext, Catalog!Delete
  <2>. QED
    BY <2>7, <2>8
<1>6. ASSUME NEW f \in Files, SweepArchive(f) PROVE Catalog!CatalogNext
  <2>1. OnlySweep
    BY <1>6, AloneInSweep DEF SweepArchive
  <2>2. /\ sweepRow[f] = rows[f] /\ rows[f] \in Row /\ Exists(f)
        /\ ~rows[f].deleted /\ ~rows[f].archived /\ info[f] # NoInfo
    BY <1>6
       DEF SweepArchive, FilesShaped, FileShape, Serial, Fresh, FilesFresh,
           FileFresh, Exists
  <2>3. PICK row \in Row : /\ rows' = [rows EXCEPT ![f] = row]
                           /\ row.archived /\ row.deleted = rows[f].deleted
    <3>1. [rows[f] EXCEPT !.archived = TRUE, !.doc = NoDoc] \in Row
      BY <2>2 DEF Row
    <3>2. rows' = [rows EXCEPT ![f] = [rows[f] EXCEPT !.archived = TRUE, !.doc = NoDoc]]
      BY <1>6, <2>2 DEF SweepArchive, Save
    <3>. QED
      BY <2>2, <3>1, <3>2, EditsKeep
  <2>4. info' = info /\ \A g \in Files : Superseding(g)' = Superseding(g)
    BY <1>6 DEF SweepArchive, Superseding
  <2>5. \A g \in Files : g # f => Place(g)' = Place(g)
    BY <1>0, <2>3, <2>4, PlaceStays DEF Exists
  <2>6. Exists(f)' /\ rows'[f] = row
    BY <2>3, FileStoreAssumption DEF Exists
  <2>7. Place(f) \in {"listed", "hidden"} /\ Place(f)' = "archived"
    BY <1>0, <2>2, <2>3, <2>4, <2>6, PlaceOf, PlaceNext
  <2>. QED
    BY <2>4, <2>5, <2>7, MoveOf DEF Catalog!CatalogNext, Catalog!Archive
<1>. QED
  BY <1>1, <1>2, <1>3, <1>4, <1>5, <1>6 DEF Stood, CatalogCall

\* When calls do not overlap, storage answers and the process lives, the file
\* handlers, the worker and the sweep implement the atomic catalog: whatever
\* they save, in whatever order, an owner sees an upload, an archiving, a
\* deletion or a purge happen at once.
THEOREM FilesImplementCatalog ==
    ASSUME ~Overlap, ~StorageFails, ~MayRestart PROVE Spec => ImplementsCatalog
<1>1. Init => Catalog!CatalogInit
  BY CatalogInits
<1>2. Shape /\ Shape' /\ Backing /\ Chaining /\ Serial /\ [Next]_vars =>
        Catalog!CatalogNext \/ UNCHANGED <<Shelf, KeyOf>>
  BY SerialStep, CatalogSteps
<1>3. Shape /\ Shape' /\ Backing /\ Chaining /\ Serial /\ [Next]_vars =>
        [Catalog!CatalogNext]_<<[f \in Files |-> Place(f)],
                                [f \in Files |-> IF info[f] = NoInfo THEN NoInfo
                                   ELSE <<info[f].owner, info[f].name>>]>>
  BY <1>2 DEF Shelf, KeyOf
<1>. QED
  BY <1>1, <1>3, SerialInvariant, PTL DEF Spec, ImplementsCatalog, Catalog!CatalogSpec

=============================================================================
