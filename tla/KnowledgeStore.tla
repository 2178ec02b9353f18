--------------------------- MODULE KnowledgeStore ---------------------------
(***************************************************************************)
(* InMemoryKnowledgeStore, the documents chat answers cite: files an       *)
(* administrator promoted, private to the uploader until a share says      *)
(* otherwise.  Promotion and demotion write it one dictionary entry at a   *)
(* time while questions read it; nothing locks it.                         *)
(*                                                                         *)
(* Files are unstructured and ready.  A chunk stands for its embedding     *)
(* too: a missing one is recomputed.  Scores only drop or merge chunks, so *)
(* an answer stands for all it may cite.  Seeded documents, open to all,   *)
(* and the vector store beside this one (DocumentIndex) are left out.      *)
(***************************************************************************)
EXTENDS FileSharing

CONSTANTS
    Parts,    \* the chunks of a document (bound)
    Promoted  \* files promoted already, to documents named after them

\* Other documents are named after the request that promotes them.
Docs == Files \cup Requests
Chunks == Docs \X Parts

ASSUME KnowledgeAssumption ==
    /\ Parts \subseteq Nat /\ IsFiniteSet(Parts) /\ Parts # {}
    /\ Promoted \subseteq Files

VARIABLES
    docs,     \* _documents_by_source_id
    chunks,   \* _chunks_by_chunk_id
    source,   \* the file each document was copied from, and so its owner
    pointer,  \* promoted_to_doc_id of each file
    work,     \* per request: the locals of promotion, demotion and retrieval
    cited     \* <<user, document>> of the evidence answers cite (history)

knowledge == <<docs, chunks, source, pointer, work, cited>>
knowledgeVars == <<vars, knowledge>>

\* file: the row it read, live as it was then.  left: chunks still to visit.
NoWork == [doc |-> Nobody, file |-> Nobody, live |-> FALSE, left |-> {}, found |-> {}]

KnowledgeInit ==
    /\ SharingInit
    /\ docs = Promoted
    /\ chunks = Promoted \X Parts
    /\ pointer = [f \in Files |-> IF f \in Promoted THEN f ELSE Nobody]
    /\ source = [d \in Docs |-> IF d \in Promoted THEN d ELSE Nobody]
    /\ work = [p \in Requests |-> NoWork]
    /\ cited = {}

\* A request returns; a 500 counts as refused.
Leave(p, label) == End(p, label) /\ work' = [work EXCEPT ![p] = NoWork]

-----------------------------------------------------------------------------
(* promote_file: document, chunks, then the row it read at first.          *)

Promote(p, t, f) ==
    /\ Authorize(p, t, {"admin"}, [Blank EXCEPT !.op = "promote", !.about = f], "promote")
    /\ UNCHANGED <<accountStores, sharingStores, knowledge>>

\* The row counts whether it is deleted or promoted already or not.
ReadPromotable(p) ==
    LET f == req[p].about IN
    /\ pc[p] = "promote"
    /\ work' = [work EXCEPT ![p] = [NoWork EXCEPT !.doc = p, !.file = f, !.live = f \in live,
                                                  !.left = {p} \X Parts]]
    /\ Goto(p, "save_document")
    /\ UNCHANGED <<accountStores, req, raced, sharingStores, docs, chunks, source, pointer, cited>>

SaveDocument(p) ==
    /\ pc[p] = "save_document"
    /\ docs' = docs \cup {p}
    /\ source' = [source EXCEPT ![p] = work[p].file]
    /\ Goto(p, "save_chunks")
    /\ UNCHANGED <<accountStores, req, raced, sharingStores, chunks, pointer, work, cited>>

First(set) == CHOOSE c \in set : \A o \in set : c[2] <= o[2]

\* save_chunk refuses a chunk whose document is unknown.
SaveChunk(p) ==
    LET c == First(work[p].left) IN
    /\ pc[p] = "save_chunks" /\ work[p].left # {}
    /\ IF c[1] \in docs
       THEN /\ chunks' = chunks \cup {c}
            /\ work' = [work EXCEPT ![p].left = @ \ {c}]
            /\ UNCHANGED <<pc, req>>
       ELSE Leave(p, "refused") /\ UNCHANGED chunks
    /\ UNCHANGED <<accountStores, raced, sharingStores, docs, source, pointer, cited>>

\* The row as it was read, with the new pointer.
SaveRow(p, doc) ==
    LET f == work[p].file IN
    /\ pointer' = [pointer EXCEPT ![f] = doc]
    /\ live' = IF work[p].live THEN live \cup {f} ELSE live \ {f}
    /\ Leave(p, "done")
    /\ UNCHANGED <<accountStores, raced, scope, asks, shares, seen, docs, chunks, source, cited>>

SavePromoted(p) == pc[p] = "save_chunks" /\ work[p].left = {} /\ SaveRow(p, p)

-----------------------------------------------------------------------------
(* demote_document: remove_document, then the row.                         *)

Demote(p, t, d) ==
    /\ Authorize(p, t, {"admin"}, [Blank EXCEPT !.op = "demote", !.about = d], "source")
    /\ UNCHANGED <<accountStores, sharingStores, knowledge>>

\* The listed file that names document d.
SourceFiles(d) == {f \in live : pointer[f] = d}

FindSource(p) ==
    LET d == req[p].about IN
    /\ pc[p] = "source"
    /\ IF SourceFiles(d) = {} THEN Leave(p, "refused")
       ELSE \E f \in SourceFiles(d) :
              /\ work' = [work EXCEPT ![p] = [NoWork EXCEPT !.doc = d, !.file = f, !.live = TRUE]]
              /\ Goto(p, "pop_document") /\ UNCHANGED req
    /\ UNCHANGED <<accountStores, raced, sharingStores, docs, chunks, source, pointer, cited>>

PopDocument(p) ==
    /\ pc[p] = "pop_document"
    /\ docs' = docs \ {work[p].doc}
    /\ Goto(p, "scan")
    /\ UNCHANGED <<accountStores, req, raced, sharingStores, chunks, source, pointer, work, cited>>

\* The comprehension over all chunks begins ...
Scan(p) ==
    /\ pc[p] = "scan"
    /\ work' = [work EXCEPT ![p].found = chunks]
    /\ Goto(p, "stale")
    /\ UNCHANGED <<accountStores, req, raced, sharingStores, docs, chunks, source, pointer, cited>>

\* ... and raises if the dictionary changed size meanwhile, at the latest
\* when it asks for one chunk more.
ListStale(p) ==
    LET d == work[p].doc IN
    /\ pc[p] = "stale"
    /\ \/ /\ Cardinality(chunks) = Cardinality(work[p].found)
          /\ work' = [work EXCEPT ![p].left = {c \in chunks : c[1] = d}, ![p].found = {}]
          /\ Goto(p, "pop_chunks")
          /\ UNCHANGED req
       \/ chunks # work[p].found /\ Leave(p, "refused")
    /\ UNCHANGED <<accountStores, raced, sharingStores, docs, chunks, source, pointer, cited>>

PopChunk(p) ==
    LET c == First(work[p].left) IN
    /\ pc[p] = "pop_chunks" /\ work[p].left # {}
    /\ chunks' = chunks \ {c}
    /\ work' = [work EXCEPT ![p].left = @ \ {c}]
    /\ UNCHANGED <<accountStores, pc, req, raced, sharingStores, docs, source, pointer, cited>>

\* Mutant: the row is saved before the chunks are gone.
SaveDemoted_Early(p) == pc[p] = "pop_chunks" /\ SaveRow(p, Nobody)

SaveDemoted(p) == pc[p] = "pop_chunks" /\ work[p].left = {} /\ SaveRow(p, Nobody)

-----------------------------------------------------------------------------
(* retrieve: every chunk is looked at, then the ranking narrows them.      *)

Ask(p, t) ==
    /\ Authorize(p, t, Roles, [Blank EXCEPT !.op = "ask", !.about = p], "ask")
    /\ UNCHANGED <<accountStores, sharingStores, knowledge>>

ListChunks(p) ==
    /\ pc[p] = "ask"
    /\ work' = [work EXCEPT ![p].left = chunks]
    /\ Goto(p, "filter")
    /\ UNCHANGED <<accountStores, req, raced, sharingStores, docs, chunks, source, pointer, cited>>

Owns(u, d) == u = OwnerOf[source[d]]

CanRead(u, d) == Owns(u, d) \/ \E f \in SourceFiles(d) : HasShare(u, f)

\* The next chunk: its document is looked up as if it had to be there, then
\* the owner, the file that names it and the shares of that file.
FilterChunk(p) ==
    /\ pc[p] = "filter" /\ work[p].left # {}
    /\ \E c \in work[p].left :
         /\ \A o \in work[p].left : o[1] = c[1] => c[2] <= o[2]
         /\ IF c[1] \in docs
            THEN /\ work' = [work EXCEPT
                       ![p].left = @ \ {c},
                       ![p].found = @ \cup {d \in {c[1]} : CanRead(req[p].self.id, d)}]
                 /\ UNCHANGED <<pc, req>>
            ELSE Leave(p, "refused")
    /\ UNCHANGED <<accountStores, raced, sharingStores, docs, chunks, source, pointer, cited>>

\* The vector source, when there is one and it answers, knows of no shares.
Answer(p) ==
    LET u == req[p].self.id IN
    /\ pc[p] = "filter" /\ work[p].left = {}
    /\ \/ cited' = cited \cup ({u} \X work[p].found)
       \/ cited' = cited \cup ({u} \X {d \in work[p].found : Owns(u, d)})
    /\ Leave(p, "done")
    /\ UNCHANGED <<accountStores, raced, sharingStores, docs, chunks, source, pointer>>

-----------------------------------------------------------------------------
KnowledgeArrive(p) ==
    \E t \in tokens :
        \/ \E f \in Files : Promote(p, t, f)
        \/ \E d \in Docs : source[d] # Nobody /\ Demote(p, t, d)
        \/ Ask(p, t)

KnowledgeStep(p) ==
    \/ ReadPromotable(p) \/ SaveDocument(p) \/ SaveChunk(p) \/ SavePromoted(p)
    \/ FindSource(p) \/ PopDocument(p) \/ Scan(p) \/ ListStale(p) \/ PopChunk(p) \/ SaveDemoted(p)
    \/ ListChunks(p) \/ FilterChunk(p) \/ Answer(p)

KnowledgeNext ==
    \/ Next /\ UNCHANGED knowledge
    \/ \E p \in Requests : KnowledgeArrive(p) \/ KnowledgeStep(p)

KnowledgeSpec == KnowledgeInit /\ [][KnowledgeNext]_knowledgeVars
=============================================================================
