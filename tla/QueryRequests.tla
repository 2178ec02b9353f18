---------------------------- MODULE QueryRequests ----------------------------
(***************************************************************************)
(* POST /api/v2/chat/query from its session to its answer: the attached    *)
(* file a session inherits, the rate windows of the user and of the        *)
(* organization, the idempotency cache, and the two ways a question is     *)
(* answered, from an attached file or by the orchestrator.                 *)
(*                                                                         *)
(* The handler is a plain def, so FastAPI runs every request in a thread   *)
(* of its pool.  The stores are dictionaries without locks: each look-up   *)
(* and each assignment is one step, and other threads move in between.     *)
(* Time is the monotonic clock in units that make sixty seconds Minute.    *)
(* A window is the set of its events, each the request that recorded it    *)
(* and its time: the list's order is nowhere looked at.                    *)
(***************************************************************************)
EXTENDS Naturals, Sequences, FiniteSets

CONSTANTS
    Carried,       \* what each request, in the order they arrive, may carry (bound)
    Files, Owner,  \* uploaded files, and the user each belongs to
    Org,           \* the organization of each user
    Workers,       \* threads of the pool, hence requests in flight
    UserLimit, OrgLimit, \* requests per minute, 0 for unlimited
    Minute,        \* the 60 seconds of the windows and of the cache
    MaxTime,       \* the clock stops here (bound)
    NoKey, NoFile

Requests == DOMAIN Carried
Bodies == UNION {Carried[r] : r \in Requests}
NoRequest == 0
Users == DOMAIN Org
Scopes == [kind : {"user"}, id : Users]
            \cup [kind : {"organization"}, id : {Org[u] : u \in Users}]
Times == 0..MaxTime
Events == Requests \X Times

\* A question either names the attached table or does not (about), and reads as
\* a question about business data or does not (domain).
Question == [about : BOOLEAN, domain : BOOLEAN]
Keys == {b.key : b \in Bodies} \ {NoKey}
Sessions == {b.session : b \in Bodies}

ASSUME QueryRequestsAssumption ==
    /\ \A r \in Requests : Carried[r] # {}
    /\ \A b \in Bodies : /\ b.user \in Users /\ b.question \in Question /\ b.browse \in BOOLEAN
                         /\ b.file \in Files \cup {NoFile}
    /\ Owner \in [Files -> Users]
    /\ NoFile \notin Files /\ Requests = 1..Len(Carried)
    /\ Workers \in Nat \ {0} /\ Minute \in Nat \ {0}
    /\ UserLimit \in Nat /\ OrgLimit \in Nat /\ MaxTime \in Nat

VARIABLES
    now,       \* monotonic()
    tables,    \* the files that are tables (schema_json is not None)
    rows,      \* what a request reads of each file row
    inherited, \* InMemorySessionFileContext, per session
    window,    \* InMemorySlidingWindowRateLimitStore, per scope
    cache,     \* _idempotency_cache, per user and key
    meta,      \* request metadata, per request
    turns,     \* requests saved as a turn of the shared history
    overlap,   \* whether two requests were ever in flight at once
    pc, req    \* per request: where its thread is, and its locals

stores == <<inherited, window, cache, meta, turns>>
vars == <<now, tables, rows, inherited, window, cache, meta, turns, overlap, pc, req>>

PCs == {"new", "route", "user_write", "org_read", "org_write",
        "look_up", "pop", "answer", "ask_file", "done"}
Codes == {"none", "ok", "error", "refused", "limited", "mismatch", "raised"}

Local == [body : Bodies, file : Files \cup {NoFile}, at : Times,
          recent : SUBSET Events,                   \* recent_events
          admitted : SUBSET (Scopes \X Times),      \* events it recorded
          limited : SUBSET Scopes,                  \* the window that refused it
          by : Requests \cup {NoRequest}, \* the request that computed its answer
          used : Files \cup {NoFile},     \* the file its answer was read from
          looked : Times,         \* when it consulted the cache
          stored : Times,         \* when it filled the cache
          code : Codes]

Blank(b) == [body |-> b, file |-> NoFile, at |-> 0, recent |-> {},
             admitted |-> {}, limited |-> {}, by |-> NoRequest,
             used |-> NoFile, looked |-> 0, stored |-> 0, code |-> "none"]

InFlight == {r \in Requests : pc[r] \notin {"new", "done"}}
Goto(r, label) == pc' = [pc EXCEPT ![r] = label]

\* The request record after an envelope: mark_succeeded or mark_failed.  An
\* exception leaves the handler before either and ends in a 500.
Marked(code) == CASE code = "ok" -> "succeeded" [] code = "raised" -> "accepted"
                  [] OTHER -> "failed"

\* The handler returns: its thread is free, its locals are gone but for what
\* the properties look back at.
End(r, local) ==
    /\ req' = [req EXCEPT ![r] = [local EXCEPT !.recent = {}, !.file = NoFile,
                    !.at = IF local.limited = {} THEN 0 ELSE local.at]]
    /\ Goto(r, "done")
    /\ meta' = [meta EXCEPT ![r] = IF meta[r] = "none" THEN "none" ELSE Marked(local.code)]

NoEntry == [by |-> NoRequest, body |-> <<>>, code |-> "none", expires |-> 0]

\* _fingerprint: everything of the body but its key and its files.
Fingerprint(b) == <<b.user, b.session, b.question>>
UserScope(r) == [kind |-> "user", id |-> req[r].body.user]
OrgScope(r) == [kind |-> "organization", id |-> Org[req[r].body.user]]

-----------------------------------------------------------------------------
Init ==
    /\ now = 0
    /\ tables \in SUBSET Files
    /\ rows = [f \in Files |-> "ready"]
    /\ inherited = [s \in Sessions |-> NoFile]
    /\ window = [k \in Scopes |-> {}]
    /\ cache = [k \in Users \X Keys |-> NoEntry]
    /\ meta = [r \in Requests |-> "none"]
    /\ turns = {}
    /\ overlap = FALSE
    /\ pc = [r \in Requests |-> "new"]
    /\ req = [r \in Requests |-> Blank(CHOOSE b \in Bodies : TRUE)]

\* Nothing is left to see once every request has returned.
Pending == \E r \in Requests : pc[r] # "done"

Tick ==
    /\ now < MaxTime /\ Pending
    /\ now' = now + 1
    /\ UNCHANGED <<tables, rows, stores, overlap, pc, req>>

\* Uploads, deletions and purges, as far as this handler can tell them apart.
FileChanges(f) ==
    /\ Pending
    /\ \/ rows[f] = "ready" /\ rows' = [rows EXCEPT ![f] = "deleted"]
       \/ rows[f] = "deleted" /\ rows' = [rows EXCEPT ![f] = "gone"]
    /\ UNCHANGED <<now, tables, stores, overlap, pc, req>>

-----------------------------------------------------------------------------
(* The request arrives and settles which file it is about.                 *)

\* resolve_effective_file_ids: a file named explicitly becomes the session's.
Resolve(b) ==
    IF b.file # NoFile THEN [inherited EXCEPT ![b.session] = b.file] ELSE inherited

\* Mutant: a session's file is taken to be the asking user's.
Attachable_AnyOwner(b, f) == rows[f] = "ready"

\* _validate_chat_query_file_ids: there, not deleted, the user's own, and ready.
Attachable(b, f) == rows[f] = "ready" /\ Owner[f] = b.user

\* What follows Resolve reads the file's row and no store another request
\* writes.  A refused request leaves no record, but the session its file.
Accept(r, b) ==
    LET fresh == [Blank(b) EXCEPT !.file = Resolve(b)[b.session]] IN
    /\ pc[r] = "new" /\ ~b.browse /\ Cardinality(InFlight) < Workers
    /\ \A q \in Requests : q < r => pc[q] # "new"
    /\ inherited' = Resolve(b)
    /\ IF fresh.file # NoFile /\ ~Attachable(b, fresh.file)
       THEN End(r, [fresh EXCEPT !.code = "refused"])
       ELSE /\ req' = [req EXCEPT ![r] = fresh]
            /\ meta' = [meta EXCEPT ![r] = "accepted"]   \* save_accepted
            /\ Goto(r, "route")
    /\ overlap' = (overlap \/ InFlight # {})
    /\ UNCHANGED <<now, tables, rows, window, cache, turns>>

\* The file branch takes the question when the file still has a row and either
\* the question is about it or nothing else is likely to answer it.
ToFileBranch(r) ==
    LET f == req[r].file  q == req[r].body.question IN
    /\ f # NoFile /\ rows[f] # "gone"
    /\ f \notin tables \/ q.about \/ ~q.domain

-----------------------------------------------------------------------------
(* record_and_check_limited, once for the user and once for the            *)
(* organization: the list is fetched and filtered, then put back.          *)

Limit(scope) == IF scope.kind = "user" THEN UserLimit ELSE OrgLimit

\* Mutant: an event counts for a second longer than the minute.
Recent_Longer(scope, t) == {e \in window[scope] : ~(t > e[2] + Minute)}

\* The events less than a minute older than t.
Recent(scope, t) == {e \in window[scope] : t < e[2] + Minute}

\* The clock is read just before the list; one step stands for both.
Fetch(local, scope) == [local EXCEPT !.at = now, !.recent = Recent(scope, now)]

\* GET of the history, a query, the catalogs or the audit: the user's window only.
Browse(r, b) ==
    /\ pc[r] = "new" /\ b.browse /\ Cardinality(InFlight) < Workers
    /\ \A q \in Requests : q < r => pc[q] # "new"
    /\ req' = [req EXCEPT ![r] = Fetch(Blank(b), [kind |-> "user", id |-> b.user])]
    /\ Goto(r, "user_write")
    /\ overlap' = (overlap \/ InFlight # {})
    /\ UNCHANGED <<now, tables, rows, stores>>

Route(r) ==
    /\ pc[r] = "route"
    /\ IF ToFileBranch(r) THEN Goto(r, "ask_file") /\ UNCHANGED req
       ELSE /\ req' = [req EXCEPT ![r] = Fetch(req[r], UserScope(r))]
            /\ Goto(r, "user_write")
    /\ UNCHANGED <<now, tables, rows, stores, overlap>>

OrgRead(r) ==
    /\ pc[r] = "org_read"
    /\ req' = [req EXCEPT ![r] = Fetch(req[r], OrgScope(r))]
    /\ Goto(r, "org_write")
    /\ UNCHANGED <<now, tables, rows, stores, overlap>>

Full(r, scope) == Limit(scope) > 0 /\ Cardinality(req[r].recent) >= Limit(scope)

\* Mutant: a refused request is recorded as well.
WriteWindow_CountsRefused(r, scope) ==
    window' = [window EXCEPT ![scope] = IF Limit(scope) = 0 THEN window[scope]
                                        ELSE req[r].recent \cup {<<r, req[r].at>>}]

\* A refused request puts back the filtered list, an admitted one adds itself.
WriteWindow(r, scope) ==
    window' = [window EXCEPT ![scope] =
                 IF Limit(scope) = 0 THEN window[scope]
                 ELSE IF Full(r, scope) THEN req[r].recent
                 ELSE req[r].recent \cup {<<r, req[r].at>>}]

\* error_envelope RATE_LIMITED.
Limited(r, scope) == End(r, [req[r] EXCEPT !.limited = {scope}, !.code = "limited"])

\* The local state once the scope's window has let the request through.
Admitted(r, scope) ==
    [req[r] EXCEPT !.recent = {}, !.at = 0, !.admitted = req[r].admitted
        \cup (IF Limit(scope) > 0 THEN {<<scope, req[r].at>>} ELSE {})]

UserWindow(r) ==
    /\ pc[r] = "user_write"
    /\ WriteWindow(r, UserScope(r))
    /\ IF Full(r, UserScope(r)) THEN Limited(r, UserScope(r))
       ELSE IF req[r].body.browse
       THEN End(r, [Admitted(r, UserScope(r)) EXCEPT !.code = "ok"])
       ELSE /\ req' = [req EXCEPT ![r] = Admitted(r, UserScope(r))]
            /\ Goto(r, "org_read") /\ UNCHANGED meta
    /\ UNCHANGED <<now, tables, rows, inherited, cache, turns, overlap>>

OrgWindow(r) ==
    /\ pc[r] = "org_write"
    /\ WriteWindow(r, OrgScope(r))
    /\ IF Full(r, OrgScope(r)) THEN Limited(r, OrgScope(r))
       ELSE /\ req' = [req EXCEPT ![r] = Admitted(r, OrgScope(r))]
            /\ Goto(r, IF req[r].body.key = NoKey THEN "answer" ELSE "look_up")
            /\ UNCHANGED meta
    /\ UNCHANGED <<now, tables, rows, inherited, cache, turns, overlap>>

-----------------------------------------------------------------------------
(* The idempotency cache around the orchestrator's answer.                 *)

CacheKey(r) == <<req[r].body.user, req[r].body.key>>

\* Mutant: the body is not compared.
Fits_AnyBody(r, entry) == TRUE

Fits(r, entry) == entry.body = Fingerprint(req[r].body)
Expired(entry) == entry.by = NoRequest \/ entry.expires < now

LookUp(r) ==
    LET entry == cache[CacheKey(r)]
        seen == [req[r] EXCEPT !.looked = now]
    IN
    /\ pc[r] = "look_up"
    /\ IF Expired(entry)
       THEN /\ req' = [req EXCEPT ![r] = seen]
            /\ Goto(r, "pop") /\ UNCHANGED meta
       ELSE IF Fits(r, entry)
       THEN End(r, [seen EXCEPT !.by = entry.by, !.code = entry.code])
       ELSE End(r, [seen EXCEPT !.code = "mismatch"])
    /\ UNCHANGED <<now, tables, rows, inherited, window, cache, turns, overlap>>

\* The pop comes after the look-up and takes whatever is there by then.
Pop(r) ==
    /\ pc[r] = "pop"
    /\ cache' = [cache EXCEPT ![CacheKey(r)] = NoEntry]
    /\ Goto(r, "answer")
    /\ UNCHANGED <<now, tables, rows, inherited, window, meta, turns, overlap, req>>

Store(r, code) ==
    cache' = [cache EXCEPT ![CacheKey(r)] =
                [by |-> r, body |-> Fingerprint(req[r].body),
                 code |-> code, expires |-> now + Minute]]

\* The orchestrator answers, answers with warnings, or raises (PlanExecution);
\* its answer is saved as a turn and then cached, and nobody sees it before.
Answer(r) ==
    /\ pc[r] = "answer"
    /\ \/ /\ End(r, [req[r] EXCEPT !.by = r, !.code = "raised"])
          /\ UNCHANGED <<turns, cache>>
       \/ \E code \in {"ok", "error"} :
            /\ turns' = turns \cup {r}
            /\ IF req[r].body.key = NoKey THEN UNCHANGED cache ELSE Store(r, code)
            /\ End(r, [req[r] EXCEPT !.by = r, !.code = code, !.stored = now])
    /\ UNCHANGED <<now, tables, rows, inherited, window, overlap>>

-----------------------------------------------------------------------------
(* _handle_file_data_chat_query: no rate window, no idempotency cache.     *)

\* load_ready_owned_file, for tables only; documents are searched by file id.
Loadable(r, f) == rows[f] # "gone" /\ Owner[f] = req[r].body.user

AskFile(r) ==
    LET f == req[r].file IN
    /\ pc[r] = "ask_file"
    /\ \/ /\ \E code \in {"error", "raised"} : \* no row, no evidence; provider failure
               End(r, [req[r] EXCEPT !.code = code])
          /\ UNCHANGED turns
       \/ /\ f \in tables /\ Loadable(r, f)  \* guardrail_blocked, no turn saved
          /\ End(r, [req[r] EXCEPT !.code = "ok"])
          /\ UNCHANGED turns
       \/ /\ rows[f] # "gone" /\ (f \in tables => Loadable(r, f))
          /\ End(r, [req[r] EXCEPT !.by = r, !.used = f, !.code = "ok"])
          /\ turns' = turns \cup {r}
    /\ UNCHANGED <<now, tables, rows, inherited, window, cache, overlap>>

Step(r) ==
    \/ Route(r) \/ UserWindow(r) \/ OrgRead(r) \/ OrgWindow(r)
    \/ LookUp(r) \/ Pop(r) \/ Answer(r) \/ AskFile(r)

Next ==
    \/ Tick
    \/ \E f \in Files : FileChanges(f)
    \/ \E r \in Requests : Step(r) \/ \E b \in Carried[r] : Accept(r, b) \/ Browse(r, b)

Spec == Init /\ [][Next]_vars
=============================================================================
