--------------------------- MODULE FileProperties ---------------------------
(***************************************************************************)
(* What the file feature promises.  The first group holds of every         *)
(* interleaving; the second of calls that do not overlap.                  *)
(***************************************************************************)
EXTENDS FileLifecycle

(***************************************************************************)
(* Whatever interleaves.                                                   *)
(***************************************************************************)

\* A row never outruns its bytes: while a row exists its original was stored,
\* and a "ready" structured row had its Parquet snapshot stored.  Only a
\* delete or a purge can have taken them away.  Every saved row, fresh or
\* stale, carries its status from a row for which this held.
BytesKept ==
    \A f \in Files : Exists(f) =>
        /\ objects[f]["original"] # "absent"
        /\ Structured(f) /\ rows[f].status = "ready"
             => objects[f]["parquet"] # "absent"

\* An unstructured row says "ready" only once its chunks are in the sink, so
\* retrieval and promotion never miss them.
ReadyIsIndexed ==
    \A f \in Files :
        Exists(f) /\ ~Structured(f) /\ rows[f].status = "ready"
            /\ result(f) # "no_text" => f \in vectors

\* promoted_to_doc_id never names a document copied from another file, so the
\* linear search of demote_document finds the right source.
DocNamesItsSource ==
    \A f \in Files :
        Exists(f) /\ rows[f].doc # NoDoc => docSource[rows[f].doc] = f

\* Whatever a row points to in the other stores is there and is its own.
RowsAreBacked == ReadyIsIndexed /\ DocNamesItsSource

\* A version above 1 has its predecessor in its group: same owner, same name,
\* created earlier.
ChainHasNoGaps ==
    \A f \in Files : info[f] # NoInfo /\ info[f].version > 1 =>
        \E g \in Files :
            /\ info[g] # NoInfo
            /\ info[g].group = info[f].group
            /\ info[g].version = info[f].version - 1
            /\ info[g].owner = info[f].owner
            /\ info[g].name = info[f].name
            /\ info[g].created < info[f].created

\* A version loses is_latest only to a successor that is saved, or about to be.
SupersededHasSuccessor ==
    \A f \in Files : Exists(f) /\ ~rows[f].latest =>
        \/ \E r \in Reqs : ctx[r].old = f /\ pc[r] \in {"put", "close_session", "save_new"}
        \/ \E g \in Files : /\ info[g] # NoInfo
                            /\ info[g].group = info[f].group
                            /\ info[g].version = info[f].version + 1

\* The versions of a file form one unbroken chain whose end is the one listed.
VersionChains == ChainHasNoGaps /\ SupersededHasSuccessor

\* A file is archived only after its own retention window, and an org-scoped
\* file never.
ArchivedOnlyExpired ==
    \A f \in Files : Exists(f) /\ rows[f].archived =>
        f \in aged /\ info[f].scope # "org"

\* The sweep archives only what outlived its own window, and by then it has
\* taken the document that the row names out of the knowledge base.  Only a
\* pointer written since the sweep read the row (a promotion or demotion of
\* the file meanwhile) is overwritten unseen (RetentionWorker.run).
Archives(f) == sweepRow[f] # NoRow /\ sweepRow'[f] = NoRow /\ rows' # rows

ArchivingIsSound ==
    [][\A f \in Files : Archives(f) =>
         /\ f \in aged /\ info[f].scope # "org"
         /\ Exists(f) /\ rows[f].doc = sweepRow[f].doc => rows[f].doc \notin live]_vars

\* The one purge there is takes a row only of the owner who is uploading the
\* same bytes again.
PurgedOnlyWhenReuploaded ==
    [][\A f \in Files : Exists(f) /\ ~Exists(f)' =>
         \E r \in Reqs : /\ pc[r] = "purge_row"
                         /\ ctx[r].input.owner = info[f].owner
                         /\ ctx[r].input.content = info[f].content]_vars

(***************************************************************************)
(* When calls do not overlap.                                              *)
(***************************************************************************)

\* At most one latest version of a name is listed.
OneLatest ==
    \A f, g \in Files :
        /\ info[f] # NoInfo /\ info[g] # NoInfo
        /\ info[f].owner = info[g].owner /\ info[f].name = info[g].name
        /\ f \in ListLatestByOwner(info[f].owner)
        /\ g \in ListLatestByOwner(info[g].owner)
        => f = g

\* Once nothing runs, rows and knowledge base agree: a row names only a
\* document that is served, and a served document is named by the row of its
\* file, through every promotion, demotion, deletion and archiving.  But a
\* file promoted twice keeps the name of one of its documents only, and a
\* purged file that of none (promote_file looks at neither promoted_to_doc_id
\* nor archived_at).
KnowledgeMatchesRows ==
    Quiet =>
        /\ \A f \in Files : Exists(f) /\ rows[f].doc # NoDoc => rows[f].doc \in live
        /\ \A d \in live : LET f == docSource[d] IN
             \/ ~Exists(f) \/ rows[f].doc = d
             \/ \E e \in Docs \ {d} : docSource[e] = f

\* Listed files stay within the owner's quota.
QuotaRespected == \A o \in Owners : Cardinality(ListByOwner(o)) <= Quota

\* What an owner lists is one version per name, within the quota.
ListingIsSound == OneLatest /\ QuotaRespected

\* Calls that do not overlap implement the atomic catalog.  An upload takes
\* effect when its row is saved: until then the version it supersedes, though
\* already written back, counts as listed.
Superseding(f) ==
    \E r \in Reqs : ctx[r].old = f /\ pc[r] \in {"put", "close_session", "save_new"}

Place(f) ==
    CASE info[f] = NoInfo -> "none"
      [] info[f] # NoInfo /\ ~Exists(f) -> "purged"
      [] Exists(f) /\ rows[f].archived /\ rows[f].deleted -> "withdrawn"
      [] Exists(f) /\ rows[f].archived /\ ~rows[f].deleted -> "archived"
      [] Exists(f) /\ ~rows[f].archived /\ rows[f].deleted -> "deleted"
      [] OTHER -> IF rows[f].latest \/ Superseding(f) THEN "listed" ELSE "hidden"

Catalog == INSTANCE FileCatalog WITH
    Keys <- Owners \X Names,
    NoKey <- NoInfo,
    shelf <- [f \in Files |-> Place(f)],
    key <- [f \in Files |-> IF info[f] = NoInfo THEN NoInfo
                            ELSE <<info[f].owner, info[f].name>>]

ImplementsCatalog == Catalog!CatalogSpec

\* What was accepted is processed: a file whose bytes can be processed ends
\* "ready" or "failed".
UploadsFinish ==
    \A f \in Files :
        task[f] = "queued" /\ result(f) # "raises"
            ~> (Exists(f) /\ rows[f].status \in {"ready", "failed"})

\* A file past its window is archived, unless it is deleted or purged first.
ExpiredIsArchived ==
    \A f \in Files :
        f \in aged ~> (Exists(f) => rows[f].archived \/ rows[f].deleted)

\* What runs behind the answers, the task of an upload and the daily sweep,
\* gets done.
BackgroundWorkEnds == UploadsFinish /\ ExpiredIsArchived
=============================================================================
