# Verification of the governed ChatBI platform

TLA+ specifications of the Python back end under `src/chatbi`, the TLC runs
that check them on small instances, and TLAPS proofs for every instance. Beside
the back end the browser's chat page is modelled. Paths below are relative to
the repository's root or to `src/chatbi`.

- [Inventory](#inventory)
- [Modules and how they correspond to the code](#modules-and-how-they-correspond-to-the-code)
- [Runs](#runs)
- [Proofs](#proofs)
- [Where the code and its documents disagree](#where-the-code-and-its-documents-disagree)
- [Not modelled](#not-modelled)
- [Plan](#plan)

## Inventory

A question comes in over HTTP, passes rate limiting and the idempotency cache,
is routed to a plan of agents, and comes back as an answer whose SQL has passed
a guardrail. Beside it runs a file feature (upload, background processing,
sharing, promotion into the knowledge base, retention) and offline tooling.
FastAPI runs every plain `def` route in a thread of its pool and every
`async def` route on the one event loop; almost all state is in dictionaries of
the process or in Postgres rows, and **almost nothing is locked**. That is the
main source of hard behaviour here.

| Component | State it keeps | Operations | Works with | What is hard | What makes it correct |
|---|---|---|---|---|---|
| Orchestrator (`orchestration/simple_orchestrator.py`, `executor.py`, `routing.py`, `state.py`) | steps keyed `trace:step:attempt`, request state per trace, query history | `answer`, `execute` | agents, guardrail, history | client-chosen trace ids, so calls of one trace overlap or replay; retries, timeouts, dependency failures | fanout agents run only behind approved SQL; "succeeded" means complete; replays reuse and never destroy successes; every call ends |
| File rows and objects (`files/repository.py`, `storage.py`, `versioning.py`) | `user_uploaded_files`, objects | list, get, save (whole row), soft and hard delete | all file handlers | whole-row writes of stale copies | rows promise only bytes that exist; version chains without gaps; one latest version |
| Upload handlers (`api/http.py` 4719-5270, `files/chunked_upload.py`) | chunk sessions | upload, init, complete, delete | rows, objects, retention's purge, the worker | nine store calls without a transaction; crashes in between | as above, and the quota |
| Processing (`files/worker.py`) | a background task per file | process | rows, objects, vector sink | minutes between its read and its write | ready implies indexed; it ends |
| Retention (`files/retention.py`) | - | sweep, purge of a re-uploaded duplicate | rows, live knowledge | works from one snapshot | archives expired rows only, and all of them; what it archives is no longer served |
| Promotion (`files/promotion.py`) | documents and chunks in the knowledge base | promote, demote | rows, vector store | reads a row, publishes, writes the row back; promotes what is promoted, deleted or archived already | the row's pointer names a copy of that file; once nothing runs, rows and knowledge base agree |
| Query requests (`application/app.py`, `rate_limit.py`, `history/`) | sliding windows, idempotency cache, session files, request records | chat query, listings | orchestrator, file agents | look-up and fill around a long call, in threads | a refusal is earned; a key's answer is its own; no file of another user |
| Sharing (`files/sharing.py`, `access.py`) | shares, share requests | submit, approve, reject, share, revoke, read | rows, accounts | check, then write; two tables | a request is decided once; readers were granted what they read |
| Accounts (`auth.py`) | users, organizations, refresh sessions, token versions, role audit | sign up, sign in, refresh, revoke, role change | every v2 route | read-then-revoke rotation; half-done sign up | one active session per sign-in; the audit trail leads to the role |
| Knowledge store (`knowledge.py`) | documents and chunks that answers cite | promote, demote, retrieve | rows, shares, chat | one dictionary entry at a time, no lock | what is cited may be read; a broken removal can be repeated while its file is not deleted |
| Task queue (`orchestration/worker.py`, `analytics_worker.py`, `rag_worker.py`) | tasks and their status | enqueue, run, time out | index and analytics routes | late results, no status check, restarts | what is reported done can be found |
| RAG (`rag_service.py`, `rag_repository.py`, `embedding_vector_rag.py`, ...) | documents, chunks, index jobs, idempotency cache | index, run, search, hydrate | task queue | two index paths; chunks of older texts | citations name the version their text is from; a key is one request |
| LLM gateway (`llm/gateway.py`, `resilience.py`) | breaker per provider | call, retry | agents | results that started before it opened; reading the state changes it | open only after the failures; refuses only while cooling |
| Postgres stores (nine `Postgres*` classes) | tables behind one connection each | every store method | all of the above | one transaction and one cursor slot for all threads | acknowledged writes are durable, all or nothing, answers are the caller's own |
| Browser client (`src/frontend/src/App.tsx`) | thread, session, ticked files, history, files panel | sign in and out, ask, new chat, resume, upload, delete, poll | the v2 routes | answers late, overtaken or lost; state that outlives its owner | turns and answers belong together; the panel comes to rest on the truth |
| Governance (`governance/`) | audit log | check, mask, execute read-only | SQL agent | SQL text analysis | its verdict is what the orchestrator acts on |
| Semantic layer, confidence, file agents, synthesis | none | pure functions | orchestrator | numeric edges | - |
| Evaluation, release gate, migrations, observability, Python view models, deployment | logs, reports | offline or append-only | - | - | - |

`PROJECT.json` lists every component with its status, and under `hazards` each
place where this code is hard to test.

## Modules and how they correspond to the code

### Files

| Module | Stands for |
|---|---|
| `FileStore` | the shared stores; one operator per repository, object store and knowledge base call, the grain at which handlers interleave |
| `FileLifecycle` | every handler that writes a file row, one action per store call, with what it holds in between |
| `FileCatalog` | abstract: what a user is promised, every operation atomic |
| `FileProperties` | the properties, and the refinement mapping to `FileCatalog` |
| `MCFiles` | the instances for TLC |
| `FileLifecycleProofs` | theorems |

A row of `user_uploaded_files` is split in two variables: `info` has the columns
fixed at the first save, `rows` the columns some handler overwrites
(`is_latest`, `status`, `deleted_at`, `archived_at`, `promoted_to_doc_id`).
`save()` is an upsert of the whole row, so `Save` replaces `rows[f]` whatever
it was; a handler's stale copy is `ctx[r].snap`, `taskRow[f]` or `sweepRow[f]`.
`pc[r]` is the next store call of the handler in request slot `r`.
`upload_file_v2` and the retention loop run on the event loop without an
`await` between their store calls, so they exclude each other (`loop`); all
others are threads. `Restart` is a process stop at any moment: Postgres and the
disk stay, sessions, tasks, the vector sink and the vector store are gone.
`Outcome` says what the parser does with a content; `Age` is the passing of one
file's retention window (`created_at` only, see the divergences).

Left out: handlers' refusals (they change no state), the temporary file of a
parse, share rows (own component), audit rows, and the size of a file (each
counts one unit of quota).

### Orchestrator

| Module | Stands for |
|---|---|
| `PlanExecution` | `SimpleOrchestrator.answer` and `PlanExecutor.execute` with the state store |
| `PlanProperties` | the properties |
| `MCPlan` | the instances for TLC |
| `PlanProofs` | theorems |

A question is the set of keyword groups it hits (`Signals`). `Classify`,
`Planned`, `DependsOn` and `Rank` are the plan; `left` is the part of it the
loop has not visited, and `AtStep(e, a)` says that call `e` is at step `a`. Each
look-up and each save of the state store is one action. An agent is reduced to
how it ends (`Outcomes`): with a result, by a time-out, an exception, or - SQL
only - by a guardrail denial of one of the three kinds the code tells apart.
`steps[t][k].by` and `output[a]` name the call whose result it is instead of the
result. A synthesizer whose provider fails still answers, with a fallback and a
warning; `AssembleAnswer` keeps that outcome, because the final state counts the
warning as a denial. A question record says what it `asks`, how many `attempts`
its executor makes per step and whether its calls may overlap (`overlaps`);
otherwise the calls of its trace come one after the other. `Refuse` (unsupported
question, failed drafting) may happen to any question: an over-approximation.

The state store is in memory, so a restart of the process loses it together with
the running calls and returns the component to `Init` (query history aside,
which nothing here reads): no action for it.

### Chat queries

`QueryRequests` is `chat_query_v2` with what it calls in the application facade:
the session's file, the request record, the windows of user and organization,
the idempotency cache and the two ways to an answer. Every dictionary look-up
and assignment is an action (`pc`, locals in `req`); `Carried` says what each
request may carry, `now` is the monotonic clock in units of which sixty seconds
are `Minute`. The orchestrator and the file agents are reduced to how they end.
`overlap` records whether two requests ever were in flight together: some
promises hold only until then.

### LLM gateway

`LLMGateway` is `complete` with its retries and the breaker. The interleaving
grain is that of CPython, which switches threads at calls, function entries and
jumps back, so `record_failure` is two steps and the `state` property, which
changes the state it reports, three. `lastFailure` is history for the
properties.

### Accounts, shares, promoted documents

| Module | Stands for |
|---|---|
| `Accounts` | `AuthService` over the in-memory store, and the check of an access token that opens every v2 request |
| `FileSharing` | extends it: shares and share requests, and who may read a file |
| `KnowledgeStore` | extends it: promotion, demotion and retrieval of promoted documents, entry by entry |
| `SharingProperties`, `MCSharing` | properties, instance |
| `SharingProofs` | theorems about the three |

Left out of `Accounts`: `authenticate_v2` takes the literal bearer `test-token`
(`api/http.py:2043`) for the administrator of an organization `org_test`
(`auth.py:1069`) with no user row, session or token version to check, and some
routes then take the user id from the request. It reaches that organization
only; the properties are about users with rows.

The three compose into one specification, because their races meet: a role
changes while a share request for that role is approved, a document is demoted
while a question walks the chunks. `raced` names the chains, users, files and
requests on which two requests worked at once where the code has no lock; the
properties say what holds outside it, and what holds regardless. `seen` and `cited`
are the history of what was read.

### Task queue and its users

`TaskQueue` (the queue), `DocumentIndex` (the vector-store index route and its
idempotency key), `RagIndexing` (the service with jobs, the repository, the
evidence store and its worker) and `AnalyticsTasks` extend one another into one
specification; `TaskProperties`, `MCTasks` and `TaskProofs` go with it. A
document's text is its number of chunks; a chunk names the call whose text it
holds. `Restart` keeps the repository's rows and loses tasks, waiting requests
and the vector store; hydration is part of it. `before` records which calls had
ended when one began, so that properties can speak of later and overlapping
calls.

### Postgres stores

`StoreMethods` lists every method of the nine Postgres stores as its sequence
of statements, fetches and commits, with what may refuse a statement.
`SharedConnection` runs such methods, each in a thread, over the one connection
of the store: a statement at a time, one open transaction for all, aborted by a
failing statement, and the cursor of the last `execute` in one slot, assigned
after the connection is released. psycopg's behaviour (a commit of a failed
transaction is silent, a fetch on a statement without rows raises) is external.
`met` records what other calls did while one ran.

### The chat page

`BrowserPage` is the chat page of `App.tsx` in front of the server. A handler
runs to its `await` and continues when the response is there: `calls` are the
requests in flight with the token and session of the render they come from. The
server takes them in any order, answers return in any order, and `Losses` of
them fail. The server's part is what the handlers do for this page when nobody
else is there: the history one page at a time, the files the first page only
(`Visible`: the newest `FilesPage`, as the panel never asks for another), which
`later` orders by upload. A failed question may be missing from the history, and
so is an answered one whose SQL over files was blocked. `handed` and `behind`
are history: sessions on display when the page changed hands, and whether the
files panel missed something. `PageProperties` states the properties, `MCPage`
is the instance, `PageProofs` holds the theorems.

## Runs

Each ends within three minutes on two workers. Symmetry is used only with
invariants, step properties and the safety refinement, all of which treat the
permuted values alike; never in a run with a liveness property.

| Run | Instance | Question | What it shows |
|---|---|---|---|
| `files_overlap` | 2 files, 1 document, 2 request slots, overlapping, unstructured | do the invariants survive any interleaving of uploads, deletes, promotions, demotions, processing, aging and sweeps? | types; ready is indexed and documents name their source (`RowsAreBacked`); version chains have no gaps and superseded versions successors; `ArchivingIsSound`: what the sweep archives has outlived its window, and the document its row names is no longer served |
| `files_restart` | 2 structured files, 1 chunked session, restarts and failing puts | does a crash between two store calls leave a row without its bytes? | no |
| `files_serial` | 3 files, 2 owners, 1 document, scopes user and org, one call at a time | do the handlers implement the atomic catalog, and what more holds when nothing overlaps? | the refinement `ImplementsCatalog`; `ListingIsSound` (one latest version, quota), purging only on re-upload by the owner |
| `files_live` | 2 files of one owner, 2 documents, all four parser outcomes, one call at a time, fair | does what was accepted get processed, and what expired archived? do rows and knowledge base agree after any sequence of promotions, second promotions, demotions, deletes, sweeps and re-uploads? | yes, unless parsing raises something other than the row limit; `KnowledgeMatchesRows`: yes, once nothing runs, but for the documents of a purged file and all but one of a file promoted twice |
| `plan` | 2 calls of one trace: in turn with 2 or 3 attempts per step, or interleaved at every store access; three kinds of question; fair | can an overlap or a replay let an agent run without a SQL result, report an incomplete success, lose a stored result, or leave a request unsettled? | no |
| `plan_unapproved` | the same, 1 attempt | is what the executor runs always approved? | no, see below |
| `query` | 3 requests of 2 users of one organization, 2 threads, one session, one key, one file, limits 1 and 2, a clock of two minutes | do lost window updates, overlapping duplicates and inherited files break what a caller may rely on? | refusals are earned always, rates and single execution hold while nothing overlaps, replayed answers fit, file answers are own |
| `gateway` | 4 calls of one provider, 2 attempts each, threshold 2, a clock of two cooldowns | can racing threads leave the breaker open for good, half-open it early, or refuse without cause? | no, but for the window of a thread that is just opening it |
| `sharing` | 3 users, 1 file with its promoted document, 3 requests of any kind, 2 in flight | do overlapping account, sharing, promotion and question requests grant what nobody granted, fork a session, or lose a decision? | not outside the races named by `raced` |
| `tasks` | 3 requests or workers, 2 tasks, 2 organizations, 1 document, 1 restart | can what was reported done be found, and is it what is cited? | yes, with the exceptions `CitesItsVersion` names |
| `connection` | 3 calls of any methods of one of the nine stores, failing statements, a restart | are acknowledged writes durable, methods atomic, answers the caller's own? | only as long as no other call fails, commits or stores a cursor meanwhile |
| `page` | 2 people in turn, 2 files and a panel of the newest one, 2 sessions, 4 clicks, 2 requests in flight, 1 lost | do late, overtaken and lost answers mix up turns, sessions or people, refuse a question without cause, or leave the files panel wrong, when uploads push files off it and deletions bring them back? | not outside the exceptions the properties name |

Bounds. Files: two request slots suffice for the conflicts here: each is one
writer against one holder of a copy; the background task of each file and the
sweep are further actors on top of the slots. Two files give a version and its
predecessor, or a duplicate and its replacement; three (serial run) two versions
and a purge of an archived one. Two documents (live run) are two promotions of
one file, or one of each. Plans: two calls of a trace show every overlap of the
state store, as a call reads only records written by one other call; a plan has
one of four fanout agents besides SQL and the verifier, two differ only in
`Rank`; two and three attempts make first, last and next ones distinct. Queries,
sharing, tasks, connection: three calls are a holder of a stale read, one that
overtakes it and one that sees the outcome. Gateway: the threshold takes two
calls, a third is late, a fourth is refused or probes; two attempts per call
tell retries from calls. Page: two requests overtake each other; four clicks
reach every handler from every other, and a session that is left, resumed and
handed over; a panel of one file stands for the server's page of twenty, and the
second file for the twenty-first. The theorems hold without any of these bounds.

Exceptions. Many properties hold only outside a named race (`raced`, `met`,
`before`, `overlap`, `handed`, `behind`). Each exception is as narrow as TLC
lets it be: dropping it makes the run fail with a behaviour of the code, listed
under "Seen while modelling". For the hazards such a race belongs to, a property
therefore says how far the damage can go, not that the race is absent:
overlapping duplicates of a key, refreshes, role changes or submits, a stale
file row saved over a delete or an archiving, the tail of a text behind a
shorter re-index, another thread's commit, rollback or cursor, and a file list
that was overtaken are all reachable.

Fairness. `FileLifecycle`: a thread, the event loop or a background task that
is inside a handler continues (weak fairness per slot and per file), and the
sweep loop comes round again, which is what `_run_retention_sweep_loop`'s
`while True` with a sleep does. No fairness is assumed of new calls, of time or
of restarts, and the liveness run has no restarts and no overlap: a restart
does lose a queued task (the row then stays `processing`), and an overlapping
writer may undo a status. `PlanExecution`: a call's thread is scheduled until
the call returns. Runners are assumed to return or raise: the executor enforces
no time limit, only the clients an agent calls (language model, database) have
time-outs of their own. The other modules state safety only: what
they would promise in time (a queued task runs, a half-open breaker is probed)
hangs on a worker or a caller the code does not provide.

`CHECK_DEADLOCK FALSE` everywhere: ids, calls and clicks are bounded, so an
instance ends when all have been used.

## Proofs

Facts about files, plans, chat queries, the gateway, the stores' connections,
accounts with their shares and promoted documents, the task queue with its
users, and the chat page, for all constants that satisfy the modules' named
assumptions. Every invariant and every action property of the passing runs is
stated by one of them, and so is the refinement of `FileCatalog`.

`FileLifecycleProofs` has four layers, each an invariant the next one uses. The
first three hold for every interleaving.
- `Shape`. `TypeOK` is not inductive: a handler writes back the row in its slot,
  so the slot must hold one. `Shape` adds what a slot holds at each program
  point, and that whatever mentions a file comes after its row was first written.
- `Backing`: no copy of a row promises more than the store has (`BytesAreKept`,
  `DocsNameTheirSource`, `RowsBacked`). Since every handler writes stale
  copies, the invariant must speak of all copies: those in slots, tasks and the
  sweep. A copy stays backed because of `StoreGrows`: an object key once written
  is never "absent" again, a document keeps its source, vectors go only at a
  restart. New ids are fresh and no two handlers hold the same one
  (`HandlersApart`). `RowsBacked` assumes that the process does not
  restart; a restart really empties the sink.
- `Chaining`: no copy of a row hides a version without its successor, or says
  archived before the window is over. Dates are what makes the chain
  well founded: a file minted later has a later `created` (`Dated`), so the
  predecessor a version was counted from is an earlier one
  (`VersionsNeverSkip`). `ChainsAreUnbroken` needs that puts succeed and the
  process lives: an upload that dies between writing the old version back and
  saving the new one leaves a chain without a latest version.
  `ArchivedAreExpired` and the action property `PurgesAreReuploads` need
  nothing.
- `Serial`, for `~Overlap`: one activity runs at a time (`Alone`), so whoever
  holds a copy of a row holds the row (`Fresh`), and a step leaves every row
  where it stands but for the five calls that move one (`Stood`). From it
  `OneVersionListed`, through failing puts, restarts and chunked uploads;
  `ListsAreSound`, the quota included, if nobody uploads in chunks (a chunked
  upload meets the quota at init only, so two of them may both pass).

`ArchivesAreSound` is an action property for every interleaving, failure and
restart. Its invariant `Withdrawn` says that the document a sweep is about to
clear from a row, or a demotion from its copy, is not served: it was removed in
the step before, and nothing serves a document twice (`PublishedIsNew`).
`RowsMatchKnowledge` is for calls that do not overlap in a process that lives (a
restart between the two halves of a demotion leaves the row naming what is no
longer served). `Serial` gives one direction, what a row names is served; `Named`
gives the other: a served document is named by its file's row, or is about to be
by the promotion under way, or the file has another document, or no row. A step
that writes no pointer leaves names as they are (`NamesStay`).

`FilesImplementCatalog`: the refinement. A file's shelf is read off its row
(`Place`); the visible calls are steps of `FileCatalog`, and every other step of
a handler, the worker or the sweep is a stutter, because by `Serial` the row it
writes back stands where the present one does. The supersede is the one step
that needs the mapping's history: until the new version is saved the old one
still counts as listed (`Superseding`), which is why puts must succeed and the
process must live.

`PlanProofs`. The invariant follows one call, because calls share nothing but
the store, and take from it only records of successes, which name a call
(`StoreHonest`). `Visited`: the loop goes through the plan in the order of
`Rank` and dependencies have lower rank, so when it is at a step everything the
step depends on has been visited, and inside the loop a visited SQL step has a
result - any other end leaves the loop for `skip_rest`. `Complete`: while
nothing has warned, every visited step has a result, or is the verifier waiting
for an agent without a runner. Hence `FanoutIsBehindSql` and
`SucceededAreComplete`, for any number of overlapping calls.

Replays have an invariant of their own, `ReplayInv`, for the traces whose calls
do not overlap: the call under way is alone with its trace (`Alone`), so what it
looked for and did not find is not in the store (`Misses`), and what it has
found stays (`Found`). It records a failure or a skip only where no success is:
all attempts of a failed step were missed; a step that cannot run never had a
result, and none has when that of SQL has none (`Results`). Hence
`ReplaysKeepResults`: two calls that ran one key to success would both be the
author of its one record. `RequestsSettle` is the safety half of
`RequestsComeToRest`: the call that ends last sets a final state, failed
whenever its answer carries a denial - a refused question, a denied SQL, or a
synthesizer whose provider failed - and its history record says blocked only if
it does (`Recorded`).

The proof corrected the model: `Finish` and `AssembleAnswer` chose with a `CASE`
whose conditions overlap, which TLC reads from the top, as the code's `if`
chain does, but TLA+ leaves open. They are `IF`s now.

`GatewayProofs`. A breaker counts no more failures than there are calls that
recorded one (`Counted`; the calls are a finite set). `BreakerShape` ties its
state to its counter and its opening time to the last failure. The hard part is
a thread inside the `state` property when a success closes the breaker:
`Overtaken` says that no time passes between that thread's steps, so an opening
time it still finds is the present one, and the cooldown has not elapsed.
`BreakerKeepsTime` is an action property from the same invariant.

`ConnectionProofs`. First, every method of the nine stores is well formed
(`MethodsWellFormed`: its writes stand together, in front of a commit, and a
fetch right behind a select), the one place where the methods are expanded.
The invariant then follows one call through any well-formed method: `Reading`
ties the cursor slot to the call's last statement unless somebody stored
another, `Acknowledged` and `Whole` say where its writes are before and after
its commit, under the same exceptions as the properties, and `PendingShape` that
only running calls have something in the open transaction. Assumed of the
constants: listings find at least one row (`Many`).

`QueryProofs`. The invariant has four parts. `LocalInv`: where a request is and
what it holds there. `RateInv`: a window, and a list about to be put back, is a
set of admissions of the last minute, at most as many as the limit; the list a
thread puts back may lack the events of others, never exceed the limit.
`CacheInv`: an entry is the answer of a finished request with that user and key,
and expires a minute after it. `FilesAreOwn`. What overlapping requests really
break - a list put back over another's event, an entry popped after it was
replaced - is asked only of histories where none overlapped (`WindowsComplete`,
`RecentComplete`, `AnswersStay`, `PassedLookUp`, `RanAfter`); there the requests
are ordered in time, and `WithinRate` follows because the admissions of a minute
inject into one window.

`SharingProofs` covers the composed specification of accounts, shares and
promoted documents, for any number of requests that overlap at every look-up
and assignment. No property is inductive alone, because each operation reads in
one step and writes in a later one; the invariant says what a request that is
about to write still knows.
- `AccountInv`: outside `raced`, a refresh that has read the active session is
  alone with its sign-in, so the session it revokes is the only active one and
  the one it issues is the next (`RefreshesAlone`, hence `OneActiveAlways`); a
  role is changed in the row as it is (`WritesAreFresh`), and the trail leads to
  the role before the change that is written and not yet audited
  (`TrailsLead`, hence `RolesAuditedAlways`). `VersionsCount` bounds versions by
  the role changes written.
- `SharingInv`: what is about to be decided is pending, and shares of a request
  exist only when it is approved or its approval is the next write
  (`GrantsAreApproved`, hence `DecidedOnceAlways`).
- `KnowledgeInv`: a saved document with chunks is named by the row of its file or
  has a rival (`SavedAreNamed`), so `demote_document` finds that row unless the
  file is deleted (`OrphansDemotedAlways`), and whatever a
  question has kept so far its asker may read (`ReadersGrantedAlways`).
- `Apart`: two requests in flight about one thing leave it in `raced`; this is
  what lets an exempted step be told from one that was alone.
Most steps touch one component, so the proof has a lemma per action on what the
action changes (`...Frame`), and one per action and part of the invariant on
what it keeps (`...Keeps`).

The proof corrected the model's properties twice. That no token is ahead of its
user's version is false in general: of three role changes of a user, the slowest
can put back a version below that of a token issued in between (it needs more
requests than the run has); `TypeOK` now asks it outside `raced`. And an
administrator who reads a file need not have been one at first; `MadeAdmin` asks
for the change that made him one, audited or about to be.

`TaskProofs` covers the composed specification of the queue and its three
users, for any number of index requests, workers, texts and series, with
restarts; all four invariants of the run are theorems. The invariant says of
each store what a call has written of it by the time it is where it is.
- `VectorInv`: a chunk the call has reached is not of a call that ended before
  it began (`Placed`), and who wrote a chunk did not begin after the writer of
  its document's record had ended (`DocumentsFirst`: the record is replaced
  before the first chunk is). From the two, an older chunk under a finished
  version lies behind that version's end: `CitesItsVersionAlways`.
- `KeyInv`: the cache's entries are requests that were answered, every such
  request has one, and one on its way to a task found none of its key when it
  began (`FirstOfKey`, which makes `KeysNameOneTaskAlways` inductive).
- `TextInv`: a worker builds a long text; a job that succeeded has its chunks in
  the repository, and in the evidence store or in the hands of a worker about
  to put them there (`JobsAreFound`). That the repository is complete is what a
  restart needs.
- `AnalysisInv`: whoever is about to mark an analytics task succeeded has saved
  its result; a result is replaced, never removed, while the process lives.
The assumptions ask that a job named for a document is not one named for a
call, and that organizations and `Legacy` are not the model's `None`.

`PageProofs` covers the chat page for any number of people, files, sessions,
clicks, requests in flight and losses. Any request may be on its way whatever
the page did meanwhile, so the invariant `Belonging` says of each what it will do
to the page when its answer comes, and every step is put as one about requests
(one slot takes a new request, the others keep theirs or are emptied).
- `Threads`: each turn, on display, in the history panel or still in a response,
  is of one question that no other turn has, and no two requests ask the same.
- `Hands`: what is on display is of this session and person; with `Threads` this
  is `TurnsBelong`.
- `Lists` and `OneHand`: a list was shown to the owner of its files, and a session
  never handed over is one person's: its turns, its attached files, the questions
  on their way in it. So a refused question names a file deleted under it,
  `RefusalsAreExplained`. That one is an action property because it does not last:
  the session's next question replaces the files it was refused for.
- `Settling`: the panel is right, or a list is on its way that is right or older
  than another one on its way, or a change still has to be answered; at rest, only
  the first is left (`ListSettles`). Right means the newest page: a file is on it
  while fewer than `FilesPage` kept files are later, so an upload or a deletion
  also moves files that it does not touch.

Each invariant was one of a TLC run before it was proved. Only model-checked: the
two liveness properties, `BackgroundWorkEnds` and `RequestsComeToRest`, since
liveness under fairness and `ENABLED` are out of the prover's reach; and the
violation that `plan_unapproved` shows, which is a behaviour, not a theorem.

## Where the code and its documents disagree

Shown by a run (the `finding` in `PROJECT.json`): `plan_unapproved`. Any end of
the SQL step other than `SQL_DENY_STATEMENT` leaves the drafted SQL to be
executed, where `docs/readme/README.en.md:138` promises guardrail-approved SQL.

Seen while modelling, each reachable in the models (most as the exception of a
property):

Files
- the processing task saves the whole row it read at its start, so a version
  superseded meanwhile is latest again, and a deleted row returns;
- re-uploading bytes hard-deletes an archived row even when an admin has
  soft-deleted it (NFR-FV10-009 keeps it 90 days);
- a chunked upload is checked against the quota at init only;
- a delete never removes the file's chunks from the vector sink (FR-FV10-013),
  and the processing task may write the Parquet object after it;
- the document of a deleted file, or the first of two of a file, stays live and
  out of `demote_document`'s reach (FR-FV10-034);
- a document promoted while the sweep runs stays served after the archiving has
  cleared the row's pointer to it; an archived file can be promoted again;
- a failing `put_object` after the supersede leaves no latest version;
- nothing writes `last_accessed_at`, so retention counts from creation
  (FR-FV10-045);
- an exception other than `RowLimitExceeded` leaves a row `processing` or
  `indexing` for good; `UploadsFinish` excludes it.

Plans
- overlapping calls of one trace both run a step that "replaying" should reuse;
- `AgentName.FILE_DATA` has no runner, so a question that plans it always skips
  the verifier (FR-02-005);
- a synthesizer without its provider leaves an answered history record and a
  failed request (`retryable` false), though the user got the fallback answer;
- the record of a failed step is written under attempt 1, over the record of the
  first attempt; a replay runs the earlier failed attempts again.

Queries and gateway
- overlapping duplicates of a key both run; a look-up that found an expired
  entry pops whatever has replaced it; overlapping requests lose events of a
  window, so more than the limit may pass;
- a refused file id stays with the session and refuses its next questions; the
  file branch uses neither rate windows nor cache (FR-FV06-004);
- a success that began before the breaker opened can clear `_opened_at` between
  another thread's check and its subtraction: that call raises `TypeError`
  (NFR-FV06-001); the trace event's read of the state can half-open the breaker;
  while it is half open every caller passes; a late failure extends the
  cooldown; the breaker is not asked again between retries.

Accounts, shares, knowledge
- two overlapping refreshes of one token both issue a pair; of two role changes
  at once one version bump is lost, and a third in between makes the version
  fall below that of tokens issued in between; a refused sign-up leaves its organization;
- two submits at once leave two pending requests (FR-FV10-041); a reject during
  an approve leaves a rejected request with its shares (NFR-FV10-013);
- a share of a file opens its promoted document whatever the file's scope, while
  the file itself honours shares only for scope "team" (AC-FV10-035);
- `remove_document` broken off by an overlapping write leaves chunks whose
  document is gone: every question then raises `KeyError` until the document is
  demoted again or the process restarts; if its file was deleted meanwhile, or
  was promoted to another document as well, `demote_document` finds no row that
  names it and only a restart helps.

Tasks and RAG
- the queue checks no status, so a task may run twice and a late success
  replaces `timed_out`; a worker that finds a job running marks its task
  succeeded; after a restart a queued job's request is lost;
- a shorter re-index leaves the old tail searchable; document ids are shared by
  all organizations in the vector store; overlapping requests of one key queue
  two tasks; an analysis run by the worker is saved under `org_legacy`.

Postgres
- a refused statement leaves the connection aborted: every later call raises,
  and a commit then loses, silently, what others wrote in that transaction;
- `save_shares` says its grants "either all land, or none do", but another
  thread's commit lands the first of them, and its rollback discards other
  threads' writes;
- the cursor slot hands a thread another thread's rows.

Page
- signing out keeps session, ticked files and the history panel: the next person
  can resume the former one's session from the panel until his own list is
  there, and his questions carry the other's files;
- deleting a file leaves it ticked: every question is refused until a new chat;
- a refresh overtaken by a later one puts an older list back;
- the panel shows the newest twenty files and never asks for more, so older
  ones can neither be ticked nor deleted there;
- failed questions, and file questions whose SQL the guardrail blocked, are on
  display until the thread is left and are not in the history.

## Not modelled

Pure text and number work (NL2SQL, SQL parsing, forecasting, confidence,
synthesis, ranking of evidence) has no state; its outcomes are constants or
choices where a module needs them. Logs and metrics are never read back.
Evaluation, acceptance and release scripts run offline, one at a time; of two
overlapping evaluation runs the last to finish is the latest, and nothing else
is shared. Listings and exports only read; the v1 routes repeat their v2
counterparts with another envelope. The admin, audit and observability panels
of the page and the Python view models hold one call's result at a time.
Migrations run before the process serves. Vendored code (`.venv_win`,
`node_modules`) and deployment files have no behaviour of their own.

## Plan

Models worth adding: the evaluation repository with its two verdicts per run,
and the admin panel's promotion from a stale row.
