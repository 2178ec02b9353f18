------------------------------ MODULE FileStore ------------------------------
(***************************************************************************)
(* The shared state of the file feature and the calls that read and write  *)
(* it: the user_uploaded_files table behind FileRepository, the object     *)
(* store, the vector sink of the processing worker, and the knowledge base *)
(* that promotion publishes to.  Every operator below is one call on one   *)
(* of those stores, which is the grain at which handlers interleave.       *)
(*                                                                         *)
(* A row is split in two.  `rows' holds the columns some code overwrites;  *)
(* `info' holds the columns fixed when the row is first written, which     *)
(* every dataclasses.replace() in the code copies unchanged.               *)
(***************************************************************************)
EXTENDS Integers, FiniteSets

CONSTANTS
    Files,            \* file ids that can ever be minted (bound)
    Docs,             \* promoted document ids that can ever be minted (bound)
    Owners,           \* (org, user) pairs
    Names,            \* original_name values
    StructuredNames,  \* the names whose extension makes file_type "structured"
    Contents,         \* byte contents, identified with their SHA-256
    Scopes,           \* the scope values uploads use
    Outcome,          \* what the parser or extractor does with each content
    NoFile, NoDoc, NoRow, NoInfo

Statuses == {"processing", "indexing", "ready", "failed"}
ScopeValues == {"session", "user", "team", "org"}

\* What processing a content does: it parses, it has more than the row limit,
\* it raises, or (unstructured) it yields no chunk at all.
Outcomes == {"ok", "too_many_rows", "raises", "no_text"}

Row == [latest   : BOOLEAN,           \* is_latest
        status   : Statuses,
        deleted  : BOOLEAN,           \* deleted_at IS NOT NULL
        archived : BOOLEAN,           \* archived_at IS NOT NULL
        doc      : Docs \cup {NoDoc}] \* promoted_to_doc_id

Info == [owner   : Owners,
         name    : Names,
         content : Contents,          \* content_hash
         scope   : Scopes,
         group   : Files,             \* file_group_id, named by its first file
         version : Nat \ {0},         \* version_number
         created : Nat]               \* created_at, as an order

\* An object key holds nothing yet, holds bytes, or was deleted.
Blob == {"absent", "stored", "erased"}
Kinds == {"original", "parquet"}

ASSUME FileStoreAssumption ==
    /\ StructuredNames \subseteq Names
    /\ Scopes \subseteq ScopeValues
    /\ Outcome \in [Contents -> Outcomes]
    /\ NoFile \notin Files
    /\ NoDoc \notin Docs
    /\ NoRow \notin Row
    /\ NoInfo \notin Info
    /\ IsFiniteSet(Files)

VARIABLES
    rows,      \* user_uploaded_files, the overwritten columns
    info,      \* user_uploaded_files, the fixed columns (kept after a purge)
    objects,   \* object storage, per file and kind
    vectors,   \* files whose chunks are in the FileVectorSink
    docSource, \* the file each minted document id was copied from
    kb,        \* status of each document in the VectorStore
    live       \* documents in the live knowledge store and knowledge.* tables

storeVars == <<rows, info, objects, vectors, docSource, kb, live>>

StoreTypeOK ==
    /\ rows \in [Files -> Row \cup {NoRow}]
    /\ info \in [Files -> Info \cup {NoInfo}]
    /\ objects \in [Files -> [Kinds -> Blob]]
    /\ vectors \in SUBSET Files
    /\ docSource \in [Docs -> Files \cup {NoFile}]
    /\ kb \in [Docs -> {"none", "active", "disabled"}]
    /\ live \in SUBSET Docs

StoreInit ==
    /\ rows = [f \in Files |-> NoRow]
    /\ info = [f \in Files |-> NoInfo]
    /\ objects = [f \in Files |-> [k \in Kinds |-> "absent"]]
    /\ vectors = {}
    /\ docSource = [d \in Docs |-> NoFile]
    /\ kb = [d \in Docs |-> "none"]
    /\ live = {}

-----------------------------------------------------------------------------
(* FileRepository: queries.                                                *)

Exists(f) == rows[f] # NoRow

Structured(f) == info[f].name \in StructuredNames

\* list_by_owner(all_versions=True)
ListByOwner(o) ==
    {f \in Files : /\ Exists(f)
                   /\ info[f].owner = o
                   /\ ~rows[f].deleted
                   /\ ~rows[f].archived}

\* list_by_owner(all_versions=False)
ListLatestByOwner(o) == {f \in ListByOwner(o) : rows[f].latest}

\* Mutant: the match is on the hash alone.
ArchivedWithHash_AnyOwner(o, c) ==
    {f \in Files : Exists(f) /\ info[f].content = c /\ rows[f].archived}

\* find_archived_by_content_hash: any one of these; deleted_at is not consulted.
ArchivedWithHash(o, c) ==
    {f \in Files : /\ Exists(f)
                   /\ info[f].owner = o
                   /\ info[f].content = c
                   /\ rows[f].archived}

\* list_active: archived rows stay in it.
ListActive == {f \in Files : Exists(f) /\ ~rows[f].deleted}

\* The first of list_by_owner, newest created_at first, with that name.
PreviousLatest(o, n) ==
    LET named == {f \in ListLatestByOwner(o) : info[f].name = n}
    IN  {f \in named : \A g \in named : info[g].created <= info[f].created}

(* FileRepository: writes.  save() upserts every column of the row.        *)

Save(f, row) == rows' = [rows EXCEPT ![f] = row]

SoftDelete(f) ==
    rows' = IF Exists(f) THEN [rows EXCEPT ![f].deleted = TRUE] ELSE rows

HardDelete(f) == rows' = [rows EXCEPT ![f] = NoRow]

(* Object storage: a put overwrites, a delete of an absent key is a no-op. *)

PutObject(f, k) == objects' = [objects EXCEPT ![f][k] = "stored"]

Erase(blob) == IF blob = "stored" THEN "erased" ELSE blob

\* The original and, for a structured file, the Parquet snapshot.
DeleteObjects(f) ==
    objects' = [objects EXCEPT
        ![f] = [k \in Kinds |->
                  IF k = "original" \/ Structured(f) THEN Erase(@[k]) ELSE @[k]]]

(* Knowledge base.                                                         *)

\* upsert_document, upsert_chunks and _index_into_live_rag of one promotion.
PublishDoc(d, f) ==
    /\ docSource' = [docSource EXCEPT ![d] = f]
    /\ kb' = [kb EXCEPT ![d] = "active"]
    /\ live' = live \cup {d}

RemoveFromLiveRag(d) == live' = live \ {d}

=============================================================================
