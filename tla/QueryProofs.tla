----------------------------- MODULE QueryProofs -----------------------------
(***************************************************************************)
(* The chat query route keeps its promises for every number of requests,   *)
(* threads, users, files and keys, and for every limit.  IInv has four     *)
(* parts: LocalInv, where a request is and what it holds there; RateInv,   *)
(* that windows, and the lists about to be put back, record admissions of  *)
(* the last minute and never more than the limit; CacheInv, that entries   *)
(* are answers of finished requests; and FilesAreOwn.  What overlapping    *)
(* requests may break (a list put back over another's event, an entry      *)
(* popped after it was replaced) is asked only while nothing has           *)
(* overlapped: WindowsComplete, RecentComplete, AnswersStay, PassedLookUp, *)
(* RanAfter.                                                               *)
(***************************************************************************)
EXTENDS QueryProperties, FiniteSetTheorems, FunctionTheorems, TLAPS

\* What a request holds at each of its program points.
Scope(r) == IF pc[r] = "user_write" THEN UserScope(r) ELSE OrgScope(r)
AtWindow(r) == pc[r] \in {"user_write", "org_write"}

Shape(r) ==
    /\ pc[r] # "done" => /\ req[r].by = NoRequest /\ req[r].used = NoFile
                         /\ req[r].limited = {}
    /\ pc[r] \in {"new", "route", "user_write", "ask_file"} => req[r].admitted = {}
    /\ pc[r] \in {"org_read", "org_write"} => \A e \in req[r].admitted : e[1].kind = "user"
    /\ pc[r] \in {"look_up", "pop"} => req[r].body.key # NoKey
    /\ req[r].at <= now /\ req[r].looked <= now /\ req[r].stored <= now
    /\ pc[r] = "ask_file" => req[r].file # NoFile

\* Requests arrive in their order.
InOrder == \A r, q \in Requests : r < q /\ pc[r] = "new" => pc[q] = "new"

\* A request is admitted to a scope once, and its event is in nobody's past.
AdmittedOnce ==
    \A r \in Requests, k \in Scopes, s, t \in Times :
        <<k, s>> \in req[r].admitted /\ <<k, t>> \in req[r].admitted => s = t
NoLaterEvents ==
    \A r \in Requests : \A e \in req[r].admitted : e[2] <= now

\* Windows, and the lists that requests are about to put back, hold admitted
\* requests only.
Recorded(k, e) == <<k, e[2]>> \in req[e[1]].admitted
WindowsRecord == \A k \in Scopes : \A e \in window[k] : Recorded(k, e)
RecentIsYoung(r) ==
    AtWindow(r) =>
        /\ \A e \in req[r].recent : Recorded(Scope(r), e) /\ req[r].at < e[2] + Minute
        /\ Cardinality(req[r].recent) <= Limit(Scope(r))
WindowsFit == \A k \in Scopes : Cardinality(window[k]) <= Limit(k)

\* While nothing has overlapped: later requests have not arrived, earlier ones
\* are done; a window, and the list about to be put back, lacks no young event.
Alone ==
    \A r \in InFlight, q \in Requests :
        (q > r => pc[q] = "new") /\ (q < r => pc[q] = "done")
WindowsComplete ==
    \A k \in Scopes, q \in Requests, t \in Times :
        Limit(k) > 0 /\ <<k, t>> \in req[q].admitted /\ now < t + Minute
            => <<q, t>> \in window[k]
RecentComplete(r) ==
    AtWindow(r) =>
        \A q \in Requests, t \in Times :
            Limit(Scope(r)) > 0 /\ <<Scope(r), t>> \in req[q].admitted
              /\ req[r].at < t + Minute => <<q, t>> \in req[r].recent /\ t <= req[r].at

\* Entries of the cache are answers of requests that are done.
StoredBy(q, u, k) ==
    /\ pc[q] = "done" /\ Ran(q) /\ req[q].code \in {"ok", "error"}
    /\ req[q].body.user = u /\ req[q].body.key = k /\ k # NoKey
EntriesAreAnswers ==
    \A u \in Users, k \in Keys : cache[u, k].by # NoRequest =>
        LET q == cache[u, k].by IN
        /\ StoredBy(q, u, k)
        /\ cache[u, k].body = Fingerprint(req[q].body)
        /\ cache[u, k].code = req[q].code
        /\ cache[u, k].expires = req[q].stored + Minute
RunsEnd ==
    \A r \in Requests : Ran(r) => req[r].code \in {"ok", "error", "raised"}
ReplaysAreAnswers ==
    \A r \in Requests : Replayed(r) => pc[req[r].by] = "done"

\* While nothing has overlapped: an answer stays in the cache for its minute,
\* and whoever passes the look-up, or runs, comes after it.
AnswersStay ==
    \A q \in Requests, u \in Users, k \in Keys :
        StoredBy(q, u, k) /\ now <= req[q].stored + Minute => cache[u, k].by = q
PassedLookUp ==
    \A r, q \in Requests :
        pc[r] \in {"pop", "answer"} /\ StoredBy(q, req[r].body.user, req[r].body.key)
            => req[r].looked > req[q].stored + Minute
RanAfter ==
    \A r, q \in Requests :
        r < q /\ pc[q] = "done" /\ Ran(q)
          /\ StoredBy(r, req[q].body.user, req[q].body.key)
            => req[q].looked > req[r].stored + Minute

FilesAreOwn ==
    \A r \in Requests :
        /\ req[r].file # NoFile => Owner[req[r].file] = req[r].body.user
        /\ req[r].used # NoFile => Owner[req[r].used] = req[r].body.user

Types ==
    /\ now \in Times /\ overlap \in BOOLEAN
    /\ tables \subseteq Files
    /\ rows \in [Files -> {"ready", "deleted", "gone"}]
    /\ inherited \in [Sessions -> Files \cup {NoFile}]
    /\ window \in [Scopes -> SUBSET Events]
    /\ cache \in [Users \X Keys -> Entry]
    /\ meta \in [Requests -> {"none", "accepted", "succeeded", "failed"}]
    /\ turns \subseteq Requests
    /\ pc \in [Requests -> PCs] /\ req \in [Requests -> Local]

LocalInv == Types /\ (\A r \in Requests : Shape(r)) /\ InOrder /\ (~overlap => Alone)
WindowInv ==
    /\ AdmittedOnce /\ NoLaterEvents /\ WindowsRecord /\ WindowsFit
    /\ \A r \in Requests : RecentIsYoung(r)
    /\ ~overlap => WindowsComplete /\ \A r \in Requests : RecentComplete(r)
RateInv == WindowInv /\ RefusalsAreEarned /\ WithinRate
CacheInv ==
    /\ EntriesAreAnswers /\ RunsEnd /\ ReplaysAreAnswers /\ ReplayFits
    /\ ~overlap => AnswersStay /\ PassedLookUp /\ RanAfter
IInv == LocalInv /\ RateInv /\ CacheInv /\ FilesAreOwn

-----------------------------------------------------------------------------
(* What the actions do to the request that takes them.                     *)

Apart(r) == \A q \in Requests \ {r} : req'[q] = req[q] /\ pc'[q] = pc[q]

\* req'[r] is local, but for the fields a returning request gives up.
Keeps(r, local) ==
    /\ req'[r].body = local.body /\ req'[r].admitted = local.admitted
    /\ req'[r].limited = local.limited /\ req'[r].by = local.by
    /\ req'[r].used = local.used /\ req'[r].looked = local.looked
    /\ req'[r].stored = local.stored /\ req'[r].code = local.code

Moved(r, to) == pc' \in [Requests -> PCs] /\ pc'[r] = to

\* A step that only moves request r, among requests that otherwise stay put.
LEMMA Moves ==
    ASSUME Types, NEW r \in Requests, NEW to \in PCs, Goto(r, to),
           req' \in [Requests -> Local], \A q \in Requests \ {r} : req'[q] = req[q]
    PROVE  Moved(r, to) /\ Apart(r)
BY DEF Types, Goto, Moved, Apart

\* Assigning one request leaves the others alone.
LEMMA Updated ==
    ASSUME Types, NEW r \in Requests, NEW local \in Local,
           req' = [req EXCEPT ![r] = local]
    PROVE  /\ req' \in [Requests -> Local] /\ req'[r] = local
           /\ \A q \in Requests \ {r} : req'[q] = req[q]
BY DEF Types

\* Returning keeps all of the locals the properties look back at.
LEMMA Ends ==
    ASSUME Types, NEW r \in Requests, NEW local \in Local, End(r, local)
    PROVE  /\ req' \in [Requests -> Local] /\ Keeps(r, local)
           /\ req'[r].recent = {} /\ req'[r].file = NoFile
           /\ req'[r].at = (IF local.limited = {} THEN 0 ELSE local.at)
           /\ Moved(r, "done") /\ Apart(r)
           /\ meta' \in [Requests -> {"none", "accepted", "succeeded", "failed"}]
<1> DEFINE new == [local EXCEPT !.recent = {}, !.file = NoFile,
                    !.at = IF local.limited = {} THEN 0 ELSE local.at]
<1>1. 0 \in Times /\ {} \in SUBSET Events
  BY QueryRequestsAssumption DEF Times
<1>2. /\ new \in Local /\ new.recent = {} /\ new.file = NoFile
      /\ new.at = (IF local.limited = {} THEN 0 ELSE local.at)
      /\ new.body = local.body /\ new.admitted = local.admitted
      /\ new.limited = local.limited /\ new.by = local.by
      /\ new.used = local.used /\ new.looked = local.looked
      /\ new.stored = local.stored /\ new.code = local.code
  BY <1>1 DEF Local
<1>3. req' = [req EXCEPT ![r] = new]
  BY DEF End
<1>. HIDE DEF new
<1>4. /\ req' \in [Requests -> Local] /\ req'[r] = new
      /\ \A q \in Requests \ {r} : req'[q] = req[q]
  BY <1>2, <1>3, Updated
<1>5. Moved(r, "done") /\ Apart(r)
  BY <1>4, Moves DEF End, PCs
<1>6. meta' \in [Requests -> {"none", "accepted", "succeeded", "failed"}]
  BY DEF End, Marked, Types
<1>. QED
  BY <1>2, <1>4, <1>5, <1>6 DEF Keeps

\* What a request may carry names users, sessions and scopes that exist.
LEMMA BodiesTyped ==
    /\ \A r \in Requests : Carried[r] \subseteq Bodies
    /\ \A b \in Bodies :
         /\ b.user \in Users /\ b.browse \in BOOLEAN /\ b.file \in Files \cup {NoFile}
         /\ b.session \in Sessions /\ (b.key # NoKey => b.key \in Keys)
         /\ [kind |-> "user", id |-> b.user] \in Scopes
         /\ [kind |-> "organization", id |-> Org[b.user]] \in Scopes
BY QueryRequestsAssumption DEF Bodies, Users, Sessions, Keys, Scopes

\* A request starts with empty locals.
LEMMA BlankTyped ==
    ASSUME NEW b \in Bodies
    PROVE  /\ Blank(b) \in Local
           /\ Blank(b).body = b /\ Blank(b).file = NoFile /\ Blank(b).at = 0
           /\ Blank(b).recent = {} /\ Blank(b).admitted = {} /\ Blank(b).limited = {}
           /\ Blank(b).by = NoRequest /\ Blank(b).used = NoFile
           /\ Blank(b).looked = 0 /\ Blank(b).stored = 0 /\ Blank(b).code = "none"
BY QueryRequestsAssumption DEF Blank, Local, Times, Codes

\* Requests are numbered in the order they arrive.
LEMMA Ordered ==
    /\ NoRequest \notin Requests
    /\ \A q, r \in Requests : q < r => r > q /\ q # r
    /\ \A q, r \in Requests : q # r => q < r \/ q > r
<1>1. Requests = 1..Len(Carried)
  BY QueryRequestsAssumption
<1>. QED
  BY <1>1 DEF NoRequest

\* Times are natural numbers.
LEMMA ClocksTyped ==
    ASSUME Types
    PROVE  /\ now \in Nat /\ Minute \in Nat
           /\ \A q \in Requests :
                req[q].at \in Nat /\ req[q].looked \in Nat /\ req[q].stored \in Nat
<1>1. now \in Times /\ \A q \in Requests : req[q] \in Local
  BY DEF Types
<1>2. Times \subseteq Nat /\ Minute \in Nat
  BY QueryRequestsAssumption DEF Times
<1>. QED
  BY <1>1, <1>2 DEF Local

\* A fresh request: it has asked nothing of any store yet.
Fresh(r, b) ==
    /\ req'[r].body = b /\ req'[r].admitted = {} /\ req'[r].limited = {}
    /\ req'[r].by = NoRequest /\ req'[r].used = NoFile
    /\ req'[r].looked = 0 /\ req'[r].stored = 0

\* Accept starts a request afresh, with no file but one of its user.
LEMMA AcceptDoes ==
    ASSUME Types, NEW r \in Requests, NEW b \in Carried[r], Accept(r, b)
    PROVE  /\ Types' /\ Apart(r) /\ Fresh(r, b) /\ b \in Bodies
           /\ pc'[r] \in {"route", "done"} /\ req'[r].at = 0
           /\ req'[r].file # NoFile => Owner[req'[r].file] = b.user
<1> DEFINE fresh == [Blank(b) EXCEPT !.file = Resolve(b)[b.session]]
           refused == [fresh EXCEPT !.code = "refused"]
<1>1. b \in Bodies
  BY BodiesTyped
<1>2. inherited' \in [Sessions -> Files \cup {NoFile}]
  BY <1>1, BodiesTyped DEF Accept, Resolve, Types
<1>3. /\ fresh \in Local /\ fresh.file = inherited'[b.session]
      /\ fresh.body = b /\ fresh.at = 0 /\ fresh.admitted = {} /\ fresh.limited = {}
      /\ fresh.by = NoRequest /\ fresh.used = NoFile
      /\ fresh.looked = 0 /\ fresh.stored = 0
  <2>1. inherited'[b.session] \in Files \cup {NoFile} /\ inherited' = Resolve(b)
    BY <1>1, <1>2, BodiesTyped DEF Accept
  <2>. QED
    BY <1>1, <2>1, BlankTyped DEF Local
<1>4. /\ refused \in Local /\ refused.body = b /\ refused.at = 0
      /\ refused.admitted = {} /\ refused.limited = {}
      /\ refused.by = NoRequest /\ refused.used = NoFile
      /\ refused.looked = 0 /\ refused.stored = 0
  BY <1>3 DEF Local, Codes
<1>5. /\ now' = now /\ tables' = tables /\ rows' = rows /\ window' = window
      /\ cache' = cache /\ turns' = turns /\ overlap' \in BOOLEAN
  BY DEF Accept, Types
<1>6. \/ End(r, refused)
      \/ /\ req' = [req EXCEPT ![r] = fresh] /\ Goto(r, "route")
         /\ meta' = [meta EXCEPT ![r] = "accepted"]
         /\ fresh.file # NoFile => Attachable(b, fresh.file)
  BY DEF Accept
<1>. HIDE DEF fresh, refused
<1>7. CASE End(r, refused)
  BY <1>1, <1>2, <1>4, <1>5, <1>7, Ends DEF Types, Keeps, Moved, Fresh
<1>8. CASE /\ req' = [req EXCEPT ![r] = fresh] /\ Goto(r, "route")
           /\ meta' = [meta EXCEPT ![r] = "accepted"]
           /\ fresh.file # NoFile => Attachable(b, fresh.file)
  <2>1. /\ req' \in [Requests -> Local] /\ req'[r] = fresh
        /\ \A q \in Requests \ {r} : req'[q] = req[q]
    BY <1>3, <1>8, Updated
  <2>2. Moved(r, "route") /\ Apart(r)
    BY <1>8, <2>1, Moves DEF PCs
  <2>3. meta' \in [Requests -> {"none", "accepted", "succeeded", "failed"}]
    BY <1>8 DEF Types
  <2>. QED
    BY <1>1, <1>2, <1>3, <1>5, <1>8, <2>1, <2>2, <2>3
       DEF Types, Moved, Fresh, Attachable
<1>. QED
  BY <1>6, <1>7, <1>8

\* A request has fetched the young events of a scope.
Fetched(r, scope) == req'[r].at = now /\ req'[r].recent = Recent(scope, now)

\* Fetching fills in the time and the list, and nothing else.
LEMMA FetchTyped ==
    ASSUME Types, NEW local \in Local, NEW scope \in Scopes
    PROVE  /\ Fetch(local, scope) \in Local
           /\ Fetch(local, scope).at = now /\ Fetch(local, scope).recent = Recent(scope, now)
           /\ Fetch(local, scope).body = local.body /\ Fetch(local, scope).file = local.file
           /\ Fetch(local, scope).admitted = local.admitted
           /\ Fetch(local, scope).limited = local.limited /\ Fetch(local, scope).by = local.by
           /\ Fetch(local, scope).used = local.used /\ Fetch(local, scope).looked = local.looked
           /\ Fetch(local, scope).stored = local.stored /\ Fetch(local, scope).code = local.code
<1>1. Recent(scope, now) \in SUBSET Events
  BY DEF Recent, Types
<1>. QED
  BY <1>1 DEF Fetch, Local, Types

\* Browse starts a request afresh, the list of its user's window in hand.
LEMMA BrowseDoes ==
    ASSUME Types, NEW r \in Requests, NEW b \in Carried[r], Browse(r, b)
    PROVE  /\ Types' /\ Apart(r) /\ Fresh(r, b) /\ b \in Bodies
           /\ pc'[r] = "user_write" /\ req'[r].file = NoFile
           /\ Fetched(r, UserScope(r)')
<1> DEFINE scope == [kind |-> "user", id |-> b.user]
           local == Fetch(Blank(b), scope)
<1>1. b \in Bodies /\ scope \in Scopes
  BY BodiesTyped
<1>2. /\ local \in Local /\ local.at = now /\ local.recent = Recent(scope, now)
      /\ local.body = b /\ local.file = NoFile /\ local.admitted = {}
      /\ local.limited = {} /\ local.by = NoRequest /\ local.used = NoFile
      /\ local.looked = 0 /\ local.stored = 0
  <2>. HIDE DEF scope
  <2>. QED
    BY <1>1, BlankTyped, FetchTyped
<1>3. req' = [req EXCEPT ![r] = local] /\ Goto(r, "user_write")
  BY DEF Browse
<1>. HIDE DEF local
<1>4. /\ req' \in [Requests -> Local] /\ req'[r] = local
      /\ \A q \in Requests \ {r} : req'[q] = req[q]
  BY <1>2, <1>3, Updated
<1>5. Moved(r, "user_write") /\ Apart(r)
  BY <1>3, <1>4, Moves DEF PCs
<1>6. UserScope(r)' = scope
  BY <1>2, <1>4 DEF UserScope
<1>. QED
  BY <1>1, <1>2, <1>4, <1>5, <1>6
     DEF Browse, stores, Types, Moved, Fresh, Fetched, Recent

\* A request has a window of its user and one of its organization.
LEMMA OwnScopes ==
    ASSUME Types, NEW r \in Requests
    PROVE  /\ UserScope(r) \in Scopes /\ OrgScope(r) \in Scopes
           /\ UserScope(r).kind = "user" /\ OrgScope(r).kind = "organization"
           /\ req[r] \in Local /\ req[r].body \in Bodies
<1>1. req[r] \in Local /\ req[r].body \in Bodies
  BY DEF Types, Local
<1>. QED
  BY <1>1, BodiesTyped DEF UserScope, OrgScope

\* Nothing of what a request looks back at changes.
Unchanged(r) ==
    /\ Keeps(r, req[r]) /\ req'[r].file = req[r].file

\* Route leads to the file or to the user's window.
LEMMA RouteDoes ==
    ASSUME Types, NEW r \in Requests, Route(r)
    PROVE  /\ Types' /\ Apart(r) /\ Unchanged(r)
           /\ \/ pc'[r] = "ask_file" /\ req' = req /\ req[r].file # NoFile
              \/ pc'[r] = "user_write" /\ Fetched(r, UserScope(r))
<1> DEFINE local == Fetch(req[r], UserScope(r))
<1>1. CASE Goto(r, "ask_file") /\ req' = req /\ ToFileBranch(r)
  <2>1. Moved(r, "ask_file") /\ Apart(r)
    BY <1>1, Moves DEF PCs, Types
  <2>. QED
    BY <1>1, <2>1 DEF Route, stores, Types, Moved, Unchanged, Keeps, ToFileBranch
<1>2. CASE req' = [req EXCEPT ![r] = local] /\ Goto(r, "user_write")
  <2>1. /\ local \in Local /\ local.at = now /\ local.recent = Recent(UserScope(r), now)
        /\ local.body = req[r].body /\ local.file = req[r].file
        /\ local.admitted = req[r].admitted /\ local.limited = req[r].limited
        /\ local.by = req[r].by /\ local.used = req[r].used /\ local.looked = req[r].looked
        /\ local.stored = req[r].stored /\ local.code = req[r].code
    BY OwnScopes, FetchTyped
  <2>. HIDE DEF local
  <2>2. /\ req' \in [Requests -> Local] /\ req'[r] = local
        /\ \A q \in Requests \ {r} : req'[q] = req[q]
    BY <1>2, <2>1, Updated
  <2>3. Moved(r, "user_write") /\ Apart(r)
    BY <1>2, <2>2, Moves DEF PCs
  <2>. QED
    BY <2>1, <2>2, <2>3 DEF Route, stores, Types, Moved, Unchanged, Keeps, Fetched
<1>. QED
  BY <1>1, <1>2 DEF Route

\* OrgRead fetches the organization's window.
LEMMA OrgReadDoes ==
    ASSUME Types, NEW r \in Requests, OrgRead(r)
    PROVE  /\ Types' /\ Apart(r) /\ Unchanged(r)
           /\ pc'[r] = "org_write" /\ Fetched(r, OrgScope(r))
<1> DEFINE local == Fetch(req[r], OrgScope(r))
<1>1. /\ local \in Local /\ local.at = now /\ local.recent = Recent(OrgScope(r), now)
      /\ local.body = req[r].body /\ local.file = req[r].file
      /\ local.admitted = req[r].admitted /\ local.limited = req[r].limited
      /\ local.by = req[r].by /\ local.used = req[r].used /\ local.looked = req[r].looked
      /\ local.stored = req[r].stored /\ local.code = req[r].code
  BY OwnScopes, FetchTyped
<1>2. req' = [req EXCEPT ![r] = local] /\ Goto(r, "org_write")
  BY DEF OrgRead
<1>. HIDE DEF local
<1>3. /\ req' \in [Requests -> Local] /\ req'[r] = local
      /\ \A q \in Requests \ {r} : req'[q] = req[q]
  BY <1>1, <1>2, Updated
<1>4. Moved(r, "org_write") /\ Apart(r)
  BY <1>2, <1>3, Moves DEF PCs
<1>. QED
  BY <1>1, <1>3, <1>4 DEF OrgRead, stores, Types, Moved, Unchanged, Keeps, Fetched

\* A request's history, but for the window and the cache it is consulting.
SameLooks(r) ==
    /\ req'[r].body = req[r].body /\ req'[r].by = req[r].by
    /\ req'[r].used = req[r].used /\ req'[r].looked = req[r].looked
    /\ req'[r].stored = req[r].stored
    /\ req'[r].file \in {req[r].file, NoFile}

Turned(r, scope) ==
    /\ Full(r, scope) /\ pc'[r] = "done" /\ SameLooks(r)
    /\ req'[r].limited = {scope} /\ req'[r].at = req[r].at
    /\ req'[r].admitted = req[r].admitted

\* The event a window with a limit records.
Event(r, scope) == IF Limit(scope) > 0 THEN {<<scope, req[r].at>>} ELSE {}

Passed(r, scope) ==
    /\ ~Full(r, scope) /\ SameLooks(r) /\ req'[r].limited = req[r].limited
    /\ req'[r].admitted = req[r].admitted \cup Event(r, scope)
    /\ req'[r].at \in {0, req[r].at}

\* Limits are natural numbers.
LEMMA LimitTyped == \A scope \in Scopes : Limit(scope) \in Nat
BY QueryRequestsAssumption DEF Limit

\* An admitted request gains the event and drops the list.
LEMMA AdmittedTyped ==
    ASSUME Types, NEW r \in Requests, NEW scope \in Scopes
    PROVE  /\ Admitted(r, scope) \in Local
           /\ Admitted(r, scope).at = 0 /\ Admitted(r, scope).recent = {}
           /\ Admitted(r, scope).body = req[r].body
           /\ Admitted(r, scope).file = req[r].file
           /\ Admitted(r, scope).admitted = req[r].admitted \cup Event(r, scope)
           /\ Admitted(r, scope).limited = req[r].limited
           /\ Admitted(r, scope).by = req[r].by /\ Admitted(r, scope).used = req[r].used
           /\ Admitted(r, scope).looked = req[r].looked
           /\ Admitted(r, scope).stored = req[r].stored
           /\ Admitted(r, scope).code = req[r].code
<1> DEFINE events == req[r].admitted \cup Event(r, scope)
<1>1. req[r] \in Local /\ 0 \in Times /\ {} \in SUBSET Events
  BY QueryRequestsAssumption DEF Types, Times
<1>2. events \in SUBSET (Scopes \X Times)
  BY <1>1 DEF Local, Event
<1>3. Admitted(r, scope) = [req[r] EXCEPT !.recent = {}, !.at = 0, !.admitted = events]
  BY DEF Admitted, Event
<1>. HIDE DEF events
<1>4. /\ Admitted(r, scope) \in Local /\ Admitted(r, scope).admitted = events
      /\ Admitted(r, scope).at = 0 /\ Admitted(r, scope).recent = {}
      /\ Admitted(r, scope).body = req[r].body /\ Admitted(r, scope).file = req[r].file
      /\ Admitted(r, scope).limited = req[r].limited
      /\ Admitted(r, scope).by = req[r].by /\ Admitted(r, scope).used = req[r].used
      /\ Admitted(r, scope).looked = req[r].looked
      /\ Admitted(r, scope).stored = req[r].stored
      /\ Admitted(r, scope).code = req[r].code
  BY <1>1, <1>2, <1>3 DEF Local
<1>. QED
  BY <1>4 DEF events

\* What a window holds once it is written back.
LEMMA WindowTyped ==
    ASSUME Types, NEW r \in Requests, NEW scope \in Scopes, WriteWindow(r, scope)
    PROVE  /\ window' \in [Scopes -> SUBSET Events]
           /\ \A k \in Scopes \ {scope} : window'[k] = window[k]
           /\ Limit(scope) = 0 => window'[scope] = window[scope]
           /\ Limit(scope) > 0 /\ Full(r, scope) => window'[scope] = req[r].recent
           /\ Limit(scope) > 0 /\ ~Full(r, scope) =>
                window'[scope] = req[r].recent \cup {<<r, req[r].at>>}
<1>1. req[r].recent \in SUBSET Events /\ <<r, req[r].at>> \in Events
  BY DEF Types, Local, Events
<1>. QED
  BY <1>1, LimitTyped DEF WriteWindow, Types

\* A refused request returns with the scope that refused it.
LEMMA LimitedDoes ==
    ASSUME Types, NEW r \in Requests, NEW scope \in Scopes,
           Full(r, scope), Limited(r, scope)
    PROVE  /\ Turned(r, scope) /\ Apart(r) /\ Moved(r, "done")
           /\ req' \in [Requests -> Local]
           /\ meta' \in [Requests -> {"none", "accepted", "succeeded", "failed"}]
<1> DEFINE local == [req[r] EXCEPT !.limited = {scope}, !.code = "limited"]
<1>0. req[r] \in Local /\ now \in Times
  BY DEF Types
<1>1. /\ local \in Local /\ local.limited = {scope} /\ local.at = req[r].at
      /\ local.body = req[r].body /\ local.admitted = req[r].admitted
      /\ local.by = req[r].by /\ local.used = req[r].used
      /\ local.looked = req[r].looked /\ local.stored = req[r].stored
  BY <1>0 DEF Local, Codes
<1>2. End(r, local)
  BY DEF Limited
<1>. HIDE DEF local
<1>. QED
  BY <1>1, <1>2, Ends DEF Turned, SameLooks, Keeps, Moved

\* UserWindow turns the request away or lets it pass.
LEMMA UserWindowDoes ==
    ASSUME Types, NEW r \in Requests, UserWindow(r)
    PROVE  /\ Types' /\ Apart(r) /\ WriteWindow(r, UserScope(r))
           /\ \/ Turned(r, UserScope(r))
              \/ Passed(r, UserScope(r)) /\ pc'[r] \in {"done", "org_read"}
<1> DEFINE scope == UserScope(r)
           local == Admitted(r, scope)
           ended == [local EXCEPT !.code = "ok"]
<1>1. scope \in Scopes /\ WriteWindow(r, scope)
  BY OwnScopes DEF UserWindow
<1>2. \/ Full(r, scope) /\ Limited(r, scope)
      \/ ~Full(r, scope) /\ End(r, ended)
      \/ /\ ~Full(r, scope) /\ req' = [req EXCEPT ![r] = local]
         /\ Goto(r, "org_read") /\ meta' = meta
  BY DEF UserWindow
<1>3. /\ now' = now /\ tables' = tables /\ rows' = rows /\ inherited' = inherited
      /\ cache' = cache /\ turns' = turns /\ overlap' = overlap
  BY DEF UserWindow
<1>. HIDE DEF scope
<1>4. window' \in [Scopes -> SUBSET Events]
  BY <1>1, WindowTyped
<1>5. /\ local \in Local /\ local.at = 0 /\ local.body = req[r].body
      /\ local.admitted = req[r].admitted \cup Event(r, scope)
      /\ local.limited = req[r].limited /\ local.by = req[r].by
      /\ local.used = req[r].used /\ local.looked = req[r].looked
      /\ local.stored = req[r].stored /\ local.file = req[r].file
  BY <1>1, AdmittedTyped
<1>. HIDE DEF local
<1>6. /\ ended \in Local /\ ended.at = 0 /\ ended.body = req[r].body
      /\ ended.admitted = req[r].admitted \cup Event(r, scope)
      /\ ended.limited = req[r].limited /\ ended.by = req[r].by
      /\ ended.used = req[r].used /\ ended.looked = req[r].looked
      /\ ended.stored = req[r].stored /\ ended.file = req[r].file
  BY <1>5 DEF Local, Codes
<1>. HIDE DEF ended
<1>7. CASE Full(r, scope) /\ Limited(r, scope)
  BY <1>1, <1>3, <1>4, <1>7, LimitedDoes DEF Types, Moved, scope
<1>8. CASE ~Full(r, scope) /\ End(r, ended)
  BY <1>1, <1>3, <1>4, <1>6, <1>8, Ends
     DEF Types, Moved, Keeps, Passed, SameLooks, scope
<1>9. CASE /\ ~Full(r, scope) /\ req' = [req EXCEPT ![r] = local]
           /\ Goto(r, "org_read") /\ meta' = meta
  <2>1. /\ req' \in [Requests -> Local] /\ req'[r] = local
        /\ \A q \in Requests \ {r} : req'[q] = req[q]
    BY <1>5, <1>9, Updated
  <2>2. Moved(r, "org_read") /\ Apart(r)
    BY <1>9, <2>1, Moves DEF PCs
  <2>. QED
    BY <1>1, <1>3, <1>4, <1>5, <1>9, <2>1, <2>2
       DEF Types, Moved, Passed, SameLooks, scope
<1>. QED
  BY <1>2, <1>7, <1>8, <1>9

\* OrgWindow turns the request away or lets it pass to the cache.
LEMMA OrgWindowDoes ==
    ASSUME Types, NEW r \in Requests, OrgWindow(r)
    PROVE  /\ Types' /\ Apart(r) /\ WriteWindow(r, OrgScope(r))
           /\ \/ Turned(r, OrgScope(r))
              \/ /\ Passed(r, OrgScope(r))
                 /\ pc'[r] = IF req[r].body.key = NoKey THEN "answer" ELSE "look_up"
<1> DEFINE scope == OrgScope(r)
           local == Admitted(r, scope)
           next == IF req[r].body.key = NoKey THEN "answer" ELSE "look_up"
<1>1. scope \in Scopes /\ WriteWindow(r, scope) /\ next \in PCs
  BY OwnScopes DEF OrgWindow, PCs
<1>2. \/ Full(r, scope) /\ Limited(r, scope)
      \/ /\ ~Full(r, scope) /\ req' = [req EXCEPT ![r] = local]
         /\ Goto(r, next) /\ meta' = meta
  BY DEF OrgWindow
<1>3. /\ now' = now /\ tables' = tables /\ rows' = rows /\ inherited' = inherited
      /\ cache' = cache /\ turns' = turns /\ overlap' = overlap
  BY DEF OrgWindow
<1>. HIDE DEF scope
<1>4. window' \in [Scopes -> SUBSET Events]
  BY <1>1, WindowTyped
<1>5. /\ local \in Local /\ local.at = 0 /\ local.body = req[r].body
      /\ local.admitted = req[r].admitted \cup Event(r, scope)
      /\ local.limited = req[r].limited /\ local.by = req[r].by
      /\ local.used = req[r].used /\ local.looked = req[r].looked
      /\ local.stored = req[r].stored /\ local.file = req[r].file
  BY <1>1, AdmittedTyped
<1>. HIDE DEF local, next
<1>6. CASE Full(r, scope) /\ Limited(r, scope)
  BY <1>1, <1>3, <1>4, <1>6, LimitedDoes DEF Types, Moved, scope
<1>7. CASE /\ ~Full(r, scope) /\ req' = [req EXCEPT ![r] = local]
           /\ Goto(r, next) /\ meta' = meta
  <2>1. /\ req' \in [Requests -> Local] /\ req'[r] = local
        /\ \A q \in Requests \ {r} : req'[q] = req[q]
    BY <1>5, <1>7, Updated
  <2>2. Moved(r, next) /\ Apart(r)
    BY <1>1, <1>7, <2>1, Moves
  <2>. QED
    BY <1>1, <1>3, <1>4, <1>5, <1>7, <2>1, <2>2
       DEF Types, Moved, Passed, SameLooks, scope, next
<1>. QED
  BY <1>2, <1>6, <1>7

-----------------------------------------------------------------------------
(* The cache and the answers.                                              *)

\* A request with a key has an entry of the cache.
LEMMA KeyTyped ==
    ASSUME Types, NEW r \in Requests, req[r].body.key # NoKey
    PROVE  /\ req[r].body.user \in Users /\ req[r].body.key \in Keys
           /\ CacheKey(r) = <<req[r].body.user, req[r].body.key>>
           /\ CacheKey(r) \in Users \X Keys /\ cache[CacheKey(r)] \in Entry
BY OwnScopes, BodiesTyped DEF CacheKey, Types

\* Windows, files and admissions are none of a request's business any more.
SameAdmissions(r) ==
    /\ req'[r].body = req[r].body /\ req'[r].admitted = req[r].admitted
    /\ req'[r].limited = req[r].limited
    /\ req'[r].file \in {req[r].file, NoFile}
    /\ req'[r].at \in {0, req[r].at}

\* LookUp goes on to the pop, replays the entry or refuses the key.
LEMMA LookUpDoes ==
    ASSUME Types, NEW r \in Requests, LookUp(r), req[r].body.key # NoKey
    PROVE  /\ Types' /\ Apart(r) /\ SameAdmissions(r)
           /\ req'[r].looked = now /\ req'[r].stored = req[r].stored
           /\ req'[r].used = req[r].used
           /\ LET entry == cache[CacheKey(r)] IN
              \/ Expired(entry) /\ pc'[r] = "pop" /\ req'[r].by = req[r].by
              \/ /\ pc'[r] = "done" /\ ~Expired(entry) /\ Fits(r, entry)
                 /\ req'[r].by = entry.by /\ req'[r].code = entry.code
              \/ pc'[r] = "done" /\ req'[r].by = req[r].by /\ req'[r].code = "mismatch"
<1> DEFINE entry == cache[CacheKey(r)]
           seen == [req[r] EXCEPT !.looked = now]
           hit == [seen EXCEPT !.by = entry.by, !.code = entry.code]
           miss == [seen EXCEPT !.code = "mismatch"]
<1>0. req[r] \in Local /\ now \in Times
  BY DEF Types
<1>1. entry \in Entry /\ entry.by \in Requests \cup {NoRequest} /\ entry.code \in Codes
  BY KeyTyped DEF Entry
<1>2. \/ Expired(entry) /\ req' = [req EXCEPT ![r] = seen] /\ Goto(r, "pop") /\ meta' = meta
      \/ ~Expired(entry) /\ Fits(r, entry) /\ End(r, hit)
      \/ End(r, miss)
  BY DEF LookUp
<1>3. /\ now' = now /\ tables' = tables /\ rows' = rows /\ inherited' = inherited
      /\ window' = window /\ cache' = cache /\ turns' = turns /\ overlap' = overlap
  BY DEF LookUp
<1>. HIDE DEF entry
<1>4. /\ seen \in Local /\ seen.looked = now /\ seen.stored = req[r].stored
      /\ seen.body = req[r].body /\ seen.admitted = req[r].admitted
      /\ seen.limited = req[r].limited /\ seen.by = req[r].by /\ seen.used = req[r].used
      /\ seen.at = req[r].at /\ seen.file = req[r].file
  BY <1>0 DEF Local
<1>. HIDE DEF seen
<1>5. /\ hit \in Local /\ hit.looked = now /\ hit.stored = req[r].stored
      /\ hit.body = req[r].body /\ hit.admitted = req[r].admitted
      /\ hit.limited = req[r].limited /\ hit.by = entry.by /\ hit.used = req[r].used
      /\ hit.at = req[r].at /\ hit.file = req[r].file /\ hit.code = entry.code
  BY <1>1, <1>4 DEF Local
<1>6. /\ miss \in Local /\ miss.looked = now /\ miss.stored = req[r].stored
      /\ miss.body = req[r].body /\ miss.admitted = req[r].admitted
      /\ miss.limited = req[r].limited /\ miss.by = req[r].by /\ miss.used = req[r].used
      /\ miss.at = req[r].at /\ miss.file = req[r].file /\ miss.code = "mismatch"
  BY <1>4 DEF Local, Codes
<1>. HIDE DEF hit, miss
<1>7. CASE Expired(entry) /\ req' = [req EXCEPT ![r] = seen] /\ Goto(r, "pop") /\ meta' = meta
  <2>1. /\ req' \in [Requests -> Local] /\ req'[r] = seen
        /\ \A q \in Requests \ {r} : req'[q] = req[q]
    BY <1>4, <1>7, Updated
  <2>2. Moved(r, "pop") /\ Apart(r)
    BY <1>7, <2>1, Moves DEF PCs
  <2>. QED
    BY <1>3, <1>4, <1>7, <2>1, <2>2 DEF Types, Moved, SameAdmissions, entry
<1>8. CASE ~Expired(entry) /\ Fits(r, entry) /\ End(r, hit)
  BY <1>3, <1>5, <1>8, Ends DEF Types, Moved, Keeps, SameAdmissions, entry
<1>9. CASE End(r, miss)
  BY <1>3, <1>6, <1>9, Ends DEF Types, Moved, Keeps, SameAdmissions
<1>. QED
  BY <1>2, <1>7, <1>8, <1>9

\* Pop empties the entry of the request's key.
LEMMA PopDoes ==
    ASSUME Types, NEW r \in Requests, Pop(r), req[r].body.key # NoKey
    PROVE  /\ Types' /\ Apart(r) /\ req' = req /\ pc'[r] = "answer"
           /\ cache' = [cache EXCEPT ![CacheKey(r)] = NoEntry]
<1>1. NoEntry \in Entry
  BY QueryRequestsAssumption DEF NoEntry, Entry, Codes, NoRequest
<1>2. Moved(r, "answer") /\ Apart(r)
  BY Moves DEF Pop, PCs, Types
<1>. QED
  BY <1>1, <1>2, KeyTyped DEF Pop, Types, Moved

\* Answer raises, or answers and stores the answer under its key.
LEMMA AnswerDoes ==
    ASSUME Types, NEW r \in Requests, Answer(r)
    PROVE  /\ Types' /\ Apart(r) /\ SameAdmissions(r) /\ pc'[r] = "done"
           /\ req'[r].by = r /\ req'[r].used = req[r].used /\ req'[r].looked = req[r].looked
           /\ \/ /\ req'[r].code = "raised" /\ req'[r].stored = req[r].stored
                 /\ cache' = cache
              \/ /\ req'[r].code \in {"ok", "error"} /\ req'[r].stored = now
                 /\ IF req[r].body.key = NoKey THEN cache' = cache
                    ELSE Store(r, req'[r].code)
<1> DEFINE raised == [req[r] EXCEPT !.by = r, !.code = "raised"]
           answered(code) == [req[r] EXCEPT !.by = r, !.code = code, !.stored = now]
<1>0. req[r] \in Local /\ now \in Times
  BY DEF Types
<1>1. /\ raised \in Local /\ raised.looked = req[r].looked
      /\ raised.stored = req[r].stored /\ raised.code = "raised" /\ raised.by = r
      /\ raised.body = req[r].body /\ raised.admitted = req[r].admitted
      /\ raised.limited = req[r].limited /\ raised.used = req[r].used
      /\ raised.at = req[r].at /\ raised.file = req[r].file
  BY <1>0 DEF Local, Codes
<1>2. CASE End(r, raised) /\ UNCHANGED <<turns, cache>>
  <2>. HIDE DEF raised
  <2>. QED
    BY <1>1, <1>2, Ends DEF Answer, Types, Moved, Keeps, SameAdmissions
<1>3. ASSUME NEW code \in {"ok", "error"}, End(r, answered(code)), turns' = turns \cup {r},
             IF req[r].body.key = NoKey THEN cache' = cache ELSE Store(r, code)
      PROVE  /\ Types' /\ Apart(r) /\ SameAdmissions(r) /\ pc'[r] = "done"
             /\ req'[r].by = r /\ req'[r].used = req[r].used /\ req'[r].looked = req[r].looked
             /\ req'[r].code = code /\ req'[r].stored = now
  <2> DEFINE local == answered(code)
  <2>1. /\ local \in Local /\ local.looked = req[r].looked
        /\ local.stored = now /\ local.code = code /\ local.by = r
        /\ local.body = req[r].body /\ local.admitted = req[r].admitted
        /\ local.limited = req[r].limited /\ local.used = req[r].used
        /\ local.at = req[r].at /\ local.file = req[r].file
    BY <1>0 DEF Local, Codes
  <2>2. End(r, local)
    BY <1>3
  <2>. HIDE DEF local
  <2>3. cache' \in [Users \X Keys -> Entry]
    <3>1. CASE req[r].body.key = NoKey
      BY <1>3, <3>1 DEF Types
    <3>2. CASE req[r].body.key # NoKey
      <4> DEFINE new == [by |-> r, body |-> Fingerprint(req[r].body), code |-> code,
                         expires |-> now + Minute]
      <4>1. now + Minute \in 0..MaxTime + Minute
        BY QueryRequestsAssumption DEF Types, Times
      <4>2. new \in Entry
        BY <4>1, OwnScopes DEF Entry, Codes
      <4>3. cache' = [cache EXCEPT ![CacheKey(r)] = new]
        BY <1>3, <3>2 DEF Store
      <4>. HIDE DEF new
      <4>. QED
        BY <4>2, <4>3, KeyTyped, <3>2 DEF Types
    <3>. QED
      BY <3>1, <3>2
  <2>. QED
    BY <1>3, <2>1, <2>2, <2>3, Ends DEF Answer, Types, Moved, Keeps, SameAdmissions
<1>4. \/ End(r, raised) /\ UNCHANGED <<turns, cache>>
      \/ \E code \in {"ok", "error"} :
           /\ End(r, answered(code)) /\ turns' = turns \cup {r}
           /\ IF req[r].body.key = NoKey THEN cache' = cache ELSE Store(r, code)
  BY DEF Answer
<1>5. CASE \E code \in {"ok", "error"} :
             /\ End(r, answered(code)) /\ turns' = turns \cup {r}
             /\ IF req[r].body.key = NoKey THEN cache' = cache ELSE Store(r, code)
  <2>. HIDE DEF answered
  <2>. QED
    BY <1>3, <1>5
<1>. QED
  BY <1>1, <1>2, <1>4, <1>5, Ends DEF Keeps

\* AskFile answers from the request's own file, or from none.
LEMMA AskFileDoes ==
    ASSUME Types, NEW r \in Requests, AskFile(r), req[r].file # NoFile
    PROVE  /\ Types' /\ Apart(r) /\ SameAdmissions(r) /\ pc'[r] = "done"
           /\ req'[r].looked = req[r].looked /\ req'[r].stored = req[r].stored
           /\ cache' = cache
           /\ \/ req'[r].by = req[r].by /\ req'[r].used = req[r].used
              \/ req'[r].by = r /\ req'[r].used = req[r].file
<1> DEFINE failed(code) == [req[r] EXCEPT !.code = code]
           read == [req[r] EXCEPT !.by = r, !.used = req[r].file, !.code = "ok"]
<1>0. req[r] \in Local /\ now \in Times
  BY DEF Types
<1>1. ASSUME NEW code \in {"error", "raised", "ok"}
      PROVE  /\ failed(code) \in Local /\ failed(code).looked = req[r].looked
             /\ failed(code).stored = req[r].stored /\ failed(code).by = req[r].by
             /\ failed(code).body = req[r].body /\ failed(code).admitted = req[r].admitted
             /\ failed(code).limited = req[r].limited /\ failed(code).used = req[r].used
             /\ failed(code).at = req[r].at /\ failed(code).file = req[r].file
  BY <1>0 DEF Local, Codes
<1>2. /\ read \in Local /\ read.looked = req[r].looked
      /\ read.stored = req[r].stored /\ read.by = r
      /\ read.body = req[r].body /\ read.admitted = req[r].admitted
      /\ read.limited = req[r].limited /\ read.used = req[r].file
      /\ read.at = req[r].at /\ read.file = req[r].file
  BY <1>0 DEF Local, Codes
<1>3. \/ \E code \in {"error", "raised", "ok"} : End(r, failed(code)) /\ turns' = turns
      \/ End(r, read) /\ turns' = turns \cup {r}
  BY DEF AskFile
<1>4. /\ now' = now /\ tables' = tables /\ rows' = rows /\ inherited' = inherited
      /\ window' = window /\ cache' = cache /\ overlap' = overlap
  BY DEF AskFile
<1>. HIDE DEF failed, read
<1>5. CASE End(r, read) /\ turns' = turns \cup {r}
  BY <1>2, <1>4, <1>5, Ends DEF Types, Moved, Keeps, SameAdmissions
<1>6. ASSUME NEW code \in {"error", "raised", "ok"}, End(r, failed(code)), turns' = turns
      PROVE  /\ Types' /\ Apart(r) /\ SameAdmissions(r) /\ pc'[r] = "done"
             /\ req'[r].looked = req[r].looked /\ req'[r].stored = req[r].stored
             /\ req'[r].by = req[r].by /\ req'[r].used = req[r].used
  BY <1>1, <1>4, <1>6, Ends DEF Types, Moved, Keeps, SameAdmissions
<1>. QED
  BY <1>3, <1>4, <1>5, <1>6

-----------------------------------------------------------------------------
(* Where requests are, and in which order they came.                       *)

\* A step of a request under way.
Serves(r) ==
    /\ pc[r] \notin {"new", "done"} /\ pc'[r] # "new" /\ Apart(r)
    /\ now' = now /\ overlap' = overlap

\* A step of a request under way keeps the order of arrival.
LEMMA OrderKept ==
    ASSUME LocalInv, Types', NEW r \in Requests, Serves(r)
    PROVE  InOrder' /\ (~overlap => Alone)'
<1>1. InOrder'
  BY DEF LocalInv, InOrder, Serves, Apart
<1>2. ASSUME ~overlap PROVE Alone'
  BY <1>2 DEF LocalInv, Alone, Serves, Apart, InFlight
<1>. QED
  BY <1>1, <1>2 DEF Serves

\* What any step of a request under way does to that request.
LEMMA StepServes ==
    ASSUME LocalInv, NEW r \in Requests, Step(r)
    PROVE  Types' /\ Serves(r) /\ Shape(r)'
<1>. USE DEF LocalInv
<1>0. /\ Shape(r) /\ now \in Nat /\ req[r].at \in Nat
      /\ OrgScope(r).kind # "user" /\ UserScope(r).kind = "user"
  BY OwnScopes, QueryRequestsAssumption DEF Types, Local, Times
<1>1. CASE Route(r)
  <2>1. pc[r] = "route" /\ now' = now /\ overlap' = overlap
    BY <1>1 DEF Route
  <2>2. Types' /\ Serves(r) /\ Unchanged(r)
    BY <1>1, <2>1, RouteDoes DEF Serves
  <2>3. \/ pc'[r] = "ask_file" /\ req'[r] = req[r] /\ req[r].file # NoFile
        \/ pc'[r] = "user_write" /\ req'[r].at = now
    BY <1>1, RouteDoes DEF Fetched
  <2>4. Shape(r)'
    BY <1>0, <2>1, <2>2, <2>3 DEF Shape, Unchanged, Keeps
  <2>. QED
    BY <2>2, <2>4
<1>2. CASE OrgRead(r)
  <2>1. pc[r] = "org_read" /\ now' = now /\ overlap' = overlap
    BY <1>2 DEF OrgRead
  <2>2. Types' /\ Serves(r) /\ Unchanged(r) /\ pc'[r] = "org_write" /\ req'[r].at = now
    BY <1>2, <2>1, OrgReadDoes DEF Serves, Fetched
  <2>3. Shape(r)'
    BY <1>0, <2>1, <2>2 DEF Shape, Unchanged, Keeps
  <2>. QED
    BY <2>2, <2>3
<1>3. CASE UserWindow(r)
  BY <1>0, <1>3, UserWindowDoes
     DEF Serves, Shape, Turned, Passed, Event, SameLooks, UserWindow
<1>4. CASE OrgWindow(r)
  BY <1>0, <1>4, OrgWindowDoes
     DEF Serves, Shape, Turned, Passed, SameLooks, OrgWindow
<1>5. CASE LookUp(r)
  <2>1. pc[r] = "look_up" /\ now' = now /\ overlap' = overlap
    BY <1>5 DEF LookUp
  <2>. QED
    BY <1>0, <1>5, <2>1, LookUpDoes DEF Serves, Shape, SameAdmissions
<1>6. CASE Pop(r)
  BY <1>0, <1>6, PopDoes DEF Serves, Shape, Pop
<1>7. CASE Answer(r)
  <2>1. pc[r] = "answer" /\ now' = now /\ overlap' = overlap
    BY <1>7 DEF Answer
  <2>. QED
    BY <1>0, <1>7, <2>1, AnswerDoes DEF Serves, Shape, SameAdmissions
<1>8. CASE AskFile(r)
  <2>1. pc[r] = "ask_file" /\ now' = now /\ overlap' = overlap
    BY <1>8 DEF AskFile
  <2>. QED
    BY <1>0, <1>8, <2>1, AskFileDoes DEF Serves, Shape, SameAdmissions
<1>. QED
  BY <1>1, <1>2, <1>3, <1>4, <1>5, <1>6, <1>7, <1>8 DEF Step

\* An arrival keeps LocalInv.
LEMMA ArrivalKept ==
    ASSUME LocalInv, NEW r \in Requests, NEW b \in Carried[r], Accept(r, b) \/ Browse(r, b)
    PROVE  LocalInv'
<1>. USE DEF LocalInv
<1>1. /\ Types' /\ Apart(r) /\ Fresh(r, b) /\ pc'[r] \in {"route", "user_write", "done"}
      /\ req'[r].at \in {0, now}
  BY AcceptDoes, BrowseDoes DEF Fetched
<1>2. /\ pc[r] = "new" /\ (\A q \in Requests : q < r => pc[q] # "new")
      /\ now' = now /\ overlap' = (overlap \/ InFlight # {})
  BY DEF Accept, Browse
<1>3. now \in Nat
  BY QueryRequestsAssumption DEF Types, Times
<1>4. \A q \in Requests : Shape(q)'
  BY <1>1, <1>2, <1>3 DEF Shape, Apart, Fresh
<1>5. InOrder'
  BY <1>1, <1>2, QueryRequestsAssumption DEF InOrder, Apart
<1>6. ASSUME ~overlap' PROVE Alone'
  <2>1. \A q \in Requests : pc[q] \in {"new", "done"}
    BY <1>2, <1>6 DEF InFlight
  <2>2. \A q \in Requests : (q > r => pc'[q] = "new") /\ (q < r => pc'[q] = "done")
    BY <1>1, <1>2, <2>1, QueryRequestsAssumption DEF InOrder, Apart
  <2>. QED
    BY <1>1, <2>1, <2>2 DEF Alone, InFlight, Apart
<1>. QED
  BY <1>1, <1>4, <1>5, <1>6

\* The clock ticks, or a file changes: no request moves.
Still == /\ req' = req /\ pc' = pc /\ window' = window /\ cache' = cache
         /\ overlap' = overlap /\ now' >= now

\* The clock and the files keep LocalInv.
LEMMA StillKept ==
    ASSUME LocalInv, Tick \/ (\E f \in Files : FileChanges(f)) \/ UNCHANGED vars
    PROVE  LocalInv' /\ Still
<1>. USE DEF LocalInv
<1>1. Types' /\ Still /\ now' \in Nat /\ now \in Nat
  <2>. USE QueryRequestsAssumption DEF Types, Times, Still
  <2>1. CASE Tick
    BY <2>1 DEF Tick, stores
  <2>2. ASSUME NEW f \in Files, FileChanges(f)
        PROVE  Types' /\ Still /\ now' \in Nat /\ now \in Nat
    <3>1. rows' \in [Files -> {"ready", "deleted", "gone"}]
      BY <2>2 DEF FileChanges
    <3>2. UNCHANGED <<now, tables, stores, overlap, pc, req>>
      BY <2>2 DEF FileChanges
    <3>. QED
      BY <3>1, <3>2 DEF stores
  <2>3. CASE UNCHANGED vars
    BY <2>3 DEF vars
  <2>. QED
    BY <2>1, <2>2, <2>3
<1>2. \A q \in Requests : req[q].at \in Nat /\ req[q].looked \in Nat /\ req[q].stored \in Nat
  BY DEF Types, Local, Times
<1>3. \A q \in Requests : Shape(q)'
  BY <1>1, <1>2 DEF Shape, Still
<1>4. InOrder' /\ (~overlap => Alone)'
  BY <1>1 DEF InOrder, Alone, InFlight, Still
<1>. QED
  BY <1>1, <1>3, <1>4

\* Every step keeps LocalInv.
LEMMA LocalKept ==
    ASSUME LocalInv, [Next]_vars PROVE LocalInv'
<1>1. ASSUME NEW r \in Requests, Step(r) PROVE LocalInv'
  <2>1. Types' /\ Serves(r) /\ Shape(r)'
    BY <1>1, StepServes
  <2>2. \A q \in Requests : Shape(q)'
    BY <2>1 DEF LocalInv, Shape, Serves, Apart
  <2>. QED
    BY <2>1, <2>2, OrderKept DEF LocalInv
<1>. QED
  BY <1>1, ArrivalKept, StillKept DEF Next

-----------------------------------------------------------------------------
(* Counting events and the requests that recorded them.                    *)

\* A set that maps one to one into another is no larger.
LEMMA Fewer ==
    ASSUME NEW S, NEW T, IsFiniteSet(S), IsFiniteSet(T), NEW f \in [S -> T],
           \A x, y \in S : f[x] = f[y] => x = y
    PROVE  Cardinality(S) <= Cardinality(T)
BY FS_PigeonHole, FS_CardinalityType

\* There are finitely many requests and events.
LEMMA EventsFinite ==
    /\ IsFiniteSet(Requests) /\ IsFiniteSet(Events)
    /\ \A S \in SUBSET Requests : IsFiniteSet(S) /\ Cardinality(S) \in Nat
    /\ \A S \in SUBSET Events : IsFiniteSet(S) /\ Cardinality(S) \in Nat
<1>1. IsFiniteSet(Requests) /\ IsFiniteSet(Times)
  <2>1. Requests = 1..Len(Carried) /\ MaxTime \in Nat
    BY QueryRequestsAssumption
  <2>2. CASE Len(Carried) \in Int
    BY <2>1, <2>2, FS_Interval DEF Times
  <2>. QED
    BY <2>2
<1>2. IsFiniteSet(Events)
  BY <1>1, FS_Product DEF Events
<1>. QED
  BY <1>1, <1>2, FS_Subset, FS_CardinalityType

\* When a request was admitted to a scope.
LEMMA AtIs ==
    ASSUME AdmittedOnce, NEW q \in Requests, NEW k \in Scopes, NEW t \in Times,
           <<k, t>> \in req[q].admitted
    PROVE  At(q, k) = t /\ q \in AdmittedTo(k)
BY DEF AdmittedOnce, At, AdmittedTo

\* The time At chooses is one the request was admitted at.
LEMMA AdmittedAt ==
    ASSUME NEW k \in Scopes, NEW q \in AdmittedTo(k)
    PROVE  q \in Requests /\ At(q, k) \in Times /\ <<k, At(q, k)>> \in req[q].admitted
BY DEF At, AdmittedTo

-----------------------------------------------------------------------------
(* Steps that leave windows and admissions alone.                          *)

Steady ==
    /\ window' = window /\ now' >= now
    /\ \A q \in Requests :
         /\ req'[q].admitted = req[q].admitted /\ req'[q].limited = req[q].limited
         /\ req[q].limited # {} => req'[q].at = req[q].at

\* All of RateInv but the lists that requests hold.
Rated ==
    /\ AdmittedOnce /\ NoLaterEvents /\ WindowsRecord /\ WindowsFit
    /\ RefusalsAreEarned /\ WithinRate
    /\ ~overlap => WindowsComplete

\* Windows stay right while nothing is recorded, refused or put back.
LEMMA SteadyRates ==
    ASSUME Types, Types', Rated, Steady, overlap => overlap'
    PROVE  Rated'
<1>. USE DEF Rated, Steady
<1>1. \A q \in Requests, k \in Scopes : At(q, k)' = At(q, k)
  BY DEF At
<1>2. \A k \in Scopes : AdmittedTo(k)' = AdmittedTo(k)
  BY DEF AdmittedTo
<1>3. now \in Nat /\ now' \in Nat /\ Minute \in Nat
  BY QueryRequestsAssumption DEF Types, Times
<1>4. AdmittedOnce' /\ WindowsRecord' /\ WindowsFit'
  <2>1. AdmittedOnce'
    BY DEF AdmittedOnce
  <2>2. WindowsRecord'
    <3>. SUFFICES ASSUME NEW k \in Scopes, NEW e \in window[k]
                  PROVE  <<k, e[2]>> \in req'[e[1]].admitted
      BY DEF WindowsRecord, Recorded
    <3>1. e[1] \in Requests /\ <<k, e[2]>> \in req[e[1]].admitted
      BY DEF WindowsRecord, Recorded, Types, Events
    <3>. QED
      BY <3>1
  <2>3. WindowsFit'
    BY DEF WindowsFit, Limit
  <2>. QED
    BY <2>1, <2>2, <2>3
<1>5. NoLaterEvents'
  <2>. SUFFICES ASSUME NEW q \in Requests, NEW e \in req[q].admitted PROVE e[2] <= now'
    BY DEF NoLaterEvents
  <2>1. e[2] \in Nat
    BY DEF Types, Local, Times
  <2>. QED
    BY <1>3, <2>1 DEF NoLaterEvents
<1>6. RefusalsAreEarned'
  <2>. SUFFICES ASSUME NEW q \in Requests, NEW k \in req[q].limited
                PROVE  Cardinality({p \in AdmittedTo(k) : req[q].at < At(p, k) + Minute})'
                         >= Limit(k)
    BY DEF RefusalsAreEarned, Limit
  <2>1. k \in Scopes /\ req'[q].at = req[q].at
    BY DEF Types, Local
  <2>2. {p \in AdmittedTo(k)' : req'[q].at < At(p, k)' + Minute}
          = {p \in AdmittedTo(k) : req[q].at < At(p, k) + Minute}
    BY <1>1, <1>2, <2>1 DEF AdmittedTo
  <2>. QED
    BY <2>2 DEF RefusalsAreEarned
<1>7. WithinRate'
  <2>. SUFFICES ASSUME ~overlap, NEW k \in Scopes, NEW t \in Times, Limit(k) > 0
                PROVE  Cardinality({p \in AdmittedTo(k) : At(p, k) <= t /\ t < At(p, k) + Minute})'
                         <= Limit(k)
    BY DEF WithinRate, Limit
  <2>2. {p \in AdmittedTo(k)' : At(p, k)' <= t /\ t < At(p, k)' + Minute}
          = {p \in AdmittedTo(k) : At(p, k) <= t /\ t < At(p, k) + Minute}
    BY <1>1, <1>2 DEF AdmittedTo
  <2>. QED
    BY <2>2 DEF WithinRate
<1>8. ASSUME ~overlap' PROVE WindowsComplete'
  <2>. SUFFICES ASSUME NEW k \in Scopes, NEW q \in Requests, NEW t \in Times,
                       Limit(k) > 0, <<k, t>> \in req[q].admitted, now' < t + Minute
                PROVE  <<q, t>> \in window[k]
    BY DEF WindowsComplete, Limit
  <2>1. now < t + Minute
    BY <1>3 DEF Times
  <2>. QED
    BY <1>8, <2>1 DEF WindowsComplete
<1>. QED
  BY <1>4, <1>5, <1>6, <1>7, <1>8

\* The list a request holds, and what it lacks.
Held == \A r \in Requests : RecentIsYoung(r) /\ (~overlap => RecentComplete(r))

\* RateInv in two parts: the windows, and the lists requests hold.
LEMMA RateInvIs == RateInv <=> Rated /\ Held
BY DEF RateInv, WindowInv, Rated, Held

\* A request that has not moved holds what it held.
LEMMA HeldStays ==
    ASSUME Types, Types', Held, Steady, overlap => overlap', NEW q \in Requests,
           req'[q] = req[q], pc'[q] = pc[q]
    PROVE  RecentIsYoung(q)' /\ (~overlap => RecentComplete(q))'
<1>1. Scope(q)' = Scope(q) /\ AtWindow(q)' = AtWindow(q)
  BY DEF Scope, AtWindow, UserScope, OrgScope
<1>2. RecentIsYoung(q)'
  <2>. SUFFICES ASSUME AtWindow(q)
                PROVE  /\ \A e \in req[q].recent :
                            Recorded(Scope(q), e)' /\ req[q].at < e[2] + Minute
                       /\ Cardinality(req[q].recent) <= Limit(Scope(q))
    BY <1>1 DEF RecentIsYoung, Limit
  <2>1. RecentIsYoung(q)
    BY DEF Held
  <2>2. \A e \in req[q].recent : e[1] \in Requests /\ Recorded(Scope(q), e)
    BY <2>1 DEF RecentIsYoung, Types, Local, Events
  <2>3. \A e \in req[q].recent : Recorded(Scope(q), e)'
    BY <1>1, <2>2 DEF Recorded, Steady
  <2>. QED
    BY <2>1, <2>3 DEF RecentIsYoung
<1>3. ASSUME ~overlap' PROVE RecentComplete(q)'
  BY <1>1, <1>3 DEF Held, RecentComplete, Steady, Limit
<1>. QED
  BY <1>2, <1>3

\* What a request fetches, it may hold.
LEMMA FetchedHeld ==
    ASSUME Types, Types', Rated, Steady, overlap => overlap', NEW r \in Requests,
           NEW scope \in Scopes, Fetched(r, scope), Scope(r)' = scope
    PROVE  RecentIsYoung(r)' /\ (~overlap => RecentComplete(r))'
<1>1. Recent(scope, now) \subseteq window[scope] /\ window[scope] \in SUBSET Events
  BY DEF Recent, Types
<1>2. Cardinality(Recent(scope, now)) <= Limit(scope)
  <2>1. /\ Cardinality(Recent(scope, now)) <= Cardinality(window[scope])
        /\ Cardinality(Recent(scope, now)) \in Nat /\ Cardinality(window[scope]) \in Nat
    BY <1>1, EventsFinite, FS_Subset
  <2>. QED
    BY <2>1, LimitTyped DEF Rated, WindowsFit
<1>3. RecentIsYoung(r)'
  BY <1>1, <1>2 DEF RecentIsYoung, Rated, WindowsRecord, Recorded, Steady, Fetched, Recent,
                    Events, Limit
<1>4. ASSUME ~overlap' PROVE RecentComplete(r)'
  <2>. SUFFICES ASSUME NEW q \in Requests, NEW t \in Times, Limit(scope) > 0,
                       <<scope, t>> \in req[q].admitted, now < t + Minute
                PROVE  <<q, t>> \in Recent(scope, now) /\ t <= now
    BY DEF RecentComplete, Steady, Fetched, Limit
  <2>1. <<q, t>> \in window[scope]
    BY <1>4 DEF Rated, WindowsComplete
  <2>. QED
    BY <2>1 DEF Recent, Rated, NoLaterEvents
<1>. QED
  BY <1>3, <1>4

-----------------------------------------------------------------------------
(* Writing a window back.                                                  *)

\* Request r is about to put back the list of the scope.
Writes(r, scope) ==
    /\ AtWindow(r) /\ Scope(r) = scope /\ WriteWindow(r, scope)
    /\ pc'[r] \notin {"user_write", "org_write"} /\ Apart(r)
    /\ now' = now /\ overlap' = overlap

\* A refusal puts back the filtered list: the request's list was full of
\* admissions of the minute before it.
LEMMA TurnedRates ==
    ASSUME LocalInv, RateInv, Types', NEW r \in Requests, NEW scope \in Scopes,
           Writes(r, scope), Turned(r, scope)
    PROVE  RateInv'
<1>. USE DEF LocalInv
<1>1. /\ Rated /\ Held /\ RecentIsYoung(r) /\ now' = now /\ overlap' = overlap
      /\ req[r].recent \in SUBSET Events /\ req[r].at \in Times
      /\ req[r].at <= now
  BY RateInvIs DEF Held, Writes, Types, Local, Shape
<1>2. /\ \A e \in req[r].recent : Recorded(scope, e) /\ req[r].at < e[2] + Minute
      /\ Cardinality(req[r].recent) <= Limit(scope) /\ Limit(scope) > 0
      /\ Cardinality(req[r].recent) >= Limit(scope)
      /\ pc[r] # "done" /\ req[r].limited = {} /\ req'[r].limited = {scope}
  BY <1>1 DEF RecentIsYoung, Writes, AtWindow, Turned, Full, Shape
<1>3. window'[scope] = req[r].recent /\ \A k \in Scopes \ {scope} : window'[k] = window[k]
  BY <1>2, WindowTyped DEF Writes, Turned
<1>4. \A q \in Requests :
        /\ req'[q].admitted = req[q].admitted
        /\ req'[q].at = req[q].at /\ (q # r => req'[q] = req[q] /\ pc'[q] = pc[q])
  BY DEF Writes, Apart, Turned
<1>5. \A q \in Requests, k \in Scopes : At(q, k)' = At(q, k)
  BY <1>4 DEF At
<1>6. \A k \in Scopes : AdmittedTo(k)' = AdmittedTo(k)
  BY <1>4 DEF AdmittedTo
<1>7. AdmittedOnce' /\ NoLaterEvents'
  BY <1>1, <1>4 DEF Rated, AdmittedOnce, NoLaterEvents
<1>8. \A k \in Scopes, e \in Events : Recorded(k, e)' <=> Recorded(k, e)
  BY <1>4 DEF Recorded, Events
<1>9. WindowsRecord'
  <2>. SUFFICES ASSUME NEW k \in Scopes, NEW e \in window'[k] PROVE Recorded(k, e)'
    BY DEF WindowsRecord
  <2>1. window[k] \in SUBSET Events
    BY DEF Types
  <2>. QED
    BY <1>1, <1>2, <1>3, <1>8, <2>1 DEF Rated, WindowsRecord
<1>10. WindowsFit'
  BY <1>1, <1>2, <1>3 DEF Rated, WindowsFit, Limit
<1>11. WithinRate'
  <2>. SUFFICES ASSUME ~overlap, NEW k \in Scopes, NEW t \in Times, Limit(k) > 0
                PROVE  Cardinality({p \in AdmittedTo(k) : At(p, k) <= t /\ t < At(p, k) + Minute})'
                         <= Limit(k)
    BY <1>1 DEF WithinRate, Limit
  <2>1. {p \in AdmittedTo(k)' : At(p, k)' <= t /\ t < At(p, k)' + Minute}
          = {p \in AdmittedTo(k) : At(p, k) <= t /\ t < At(p, k) + Minute}
    BY <1>5, <1>6 DEF AdmittedTo
  <2>. QED
    BY <1>1, <2>1 DEF Rated, WithinRate
<1>12. Cardinality({p \in AdmittedTo(scope) : req[r].at < At(p, scope) + Minute}) >= Limit(scope)
  <2> DEFINE counted == {p \in AdmittedTo(scope) : req[r].at < At(p, scope) + Minute}
  <2>1. \A e \in req[r].recent : e[1] \in counted /\ e = <<e[1], At(e[1], scope)>>
    <3>. SUFFICES ASSUME NEW e \in req[r].recent
                  PROVE  e[1] \in counted /\ e = <<e[1], At(e[1], scope)>>
      OBVIOUS
    <3>1. e \in Requests \X Times /\ <<scope, e[2]>> \in req[e[1]].admitted
          /\ req[r].at < e[2] + Minute
      BY <1>1, <1>2 DEF Recorded, Events
    <3>2. At(e[1], scope) = e[2] /\ e[1] \in AdmittedTo(scope)
      BY <1>1, <3>1, AtIs DEF Rated
    <3>. QED
      BY <3>1, <3>2
  <2>2. counted \in SUBSET Requests
    BY DEF AdmittedTo
  <2>. HIDE DEF counted
  <2>3. Cardinality(req[r].recent) <= Cardinality(counted)
    <3> DEFINE f == [e \in req[r].recent |-> e[1]]
    <3>1. f \in [req[r].recent -> counted]
      BY <2>1
    <3>2. \A x, y \in req[r].recent : f[x] = f[y] => x = y
      BY <2>1
    <3>. HIDE DEF f
    <3>. QED
      BY <1>1, <2>2, <3>1, <3>2, EventsFinite, Fewer
  <2>4. /\ Cardinality(req[r].recent) \in Nat /\ Cardinality(counted) \in Nat
        /\ Limit(scope) \in Nat
    BY <1>1, <2>2, EventsFinite, LimitTyped
  <2>5. Cardinality(counted) >= Limit(scope)
    BY <1>2, <2>3, <2>4
  <2>. QED
    BY <2>5 DEF counted
<1>13. RefusalsAreEarned'
  <2>. SUFFICES ASSUME NEW q \in Requests, NEW k \in req'[q].limited
                PROVE  Cardinality({p \in AdmittedTo(k) : req[q].at < At(p, k) + Minute})'
                         >= Limit(k)
    BY DEF RefusalsAreEarned, Limit
  <2>1. k \in Scopes /\ req'[q].at = req[q].at
    BY <1>4 DEF Types, Local
  <2>2. {p \in AdmittedTo(k)' : req'[q].at < At(p, k)' + Minute}
          = {p \in AdmittedTo(k) : req[q].at < At(p, k) + Minute}
    BY <1>5, <1>6, <2>1 DEF AdmittedTo
  <2>3. CASE q = r
    BY <1>2, <1>12, <2>2, <2>3
  <2>4. CASE q # r
    BY <1>1, <1>4, <2>2, <2>4 DEF Rated, RefusalsAreEarned
  <2>. QED
    BY <2>3, <2>4
<1>14. ASSUME ~overlap PROVE WindowsComplete'
  <2>. SUFFICES ASSUME NEW k \in Scopes, NEW q \in Requests, NEW t \in Times,
                       Limit(k) > 0, <<k, t>> \in req[q].admitted, now < t + Minute
                PROVE  <<q, t>> \in window'[k]
    BY <1>1, <1>4 DEF WindowsComplete, Limit
  <2>1. CASE k = scope
    <3>1. req[r].at < t + Minute
      BY <1>1, QueryRequestsAssumption DEF Times, Types
    <3>2. RecentComplete(r) /\ AtWindow(r) /\ Scope(r) = scope
      BY <1>1, <1>14 DEF Held, Writes
    <3>. QED
      BY <1>3, <2>1, <3>1, <3>2 DEF RecentComplete
  <2>2. CASE k # scope
    BY <1>1, <1>3, <1>14, <2>2 DEF Rated, WindowsComplete
  <2>. QED
    BY <2>1, <2>2
<1>15. ASSUME NEW q \in Requests
       PROVE  RecentIsYoung(q)' /\ (~overlap => RecentComplete(q))'
  <2>1. CASE q = r
    BY <2>1 DEF Writes, RecentIsYoung, RecentComplete, AtWindow
  <2>2. CASE q # r
    <3>1. Scope(q)' = Scope(q) /\ AtWindow(q)' = AtWindow(q) /\ req'[q] = req[q]
      BY <1>4, <2>2 DEF Scope, AtWindow, UserScope, OrgScope
    <3>2. RecentIsYoung(q)'
      <4>. SUFFICES ASSUME AtWindow(q)
                    PROVE  /\ \A e \in req[q].recent :
                                Recorded(Scope(q), e)' /\ req[q].at < e[2] + Minute
                           /\ Cardinality(req[q].recent) <= Limit(Scope(q))
        BY <3>1 DEF RecentIsYoung, Limit
      <4>1. RecentIsYoung(q) /\ Scope(q) \in Scopes /\ req[q].recent \in SUBSET Events
        BY <1>1, OwnScopes DEF Held, Scope, Types, Local
      <4>2. \A e \in req[q].recent : Recorded(Scope(q), e)'
        BY <1>8, <3>1, <4>1 DEF RecentIsYoung
      <4>. QED
        BY <4>1, <4>2 DEF RecentIsYoung
    <3>3. ASSUME ~overlap' PROVE RecentComplete(q)'
      BY <1>1, <1>4, <3>1, <3>3 DEF Held, RecentComplete, Limit
    <3>. QED
      BY <3>2, <3>3
  <2>. QED
    BY <2>1, <2>2
<1>. QED
  <2>1. Rated'
    BY <1>1, <1>7, <1>9, <1>10, <1>11, <1>13, <1>14 DEF Rated
  <2>2. Held'
    BY <1>15 DEF Held
  <2>. QED
    BY <2>1, <2>2, RateInvIs DEF Rated, Held, RateInv, WindowInv

\* An admitted request: its event joins the window and its own admissions.
LEMMA PassedRates ==
    ASSUME LocalInv, RateInv, Types', NEW r \in Requests, NEW scope \in Scopes,
           Writes(r, scope), Passed(r, scope),
           \A s \in Times : <<scope, s>> \notin req[r].admitted
    PROVE  RateInv'
<1>. USE DEF LocalInv
<1> DEFINE at == req[r].at
<1>1. /\ Rated /\ Held /\ RecentIsYoung(r) /\ now' = now /\ overlap' = overlap
      /\ req[r].recent \in SUBSET Events /\ at \in Times
      /\ at <= now /\ <<r, at>> \in Events
  BY RateInvIs DEF Held, Writes, Types, Local, Shape, Events
<1>2. /\ \A e \in req[r].recent : Recorded(scope, e) /\ at < e[2] + Minute
      /\ pc[r] # "done" /\ req[r].limited = {} /\ req'[r].limited = {}
      /\ \A q \in Requests \ {r} : req'[q] = req[q] /\ pc'[q] = pc[q]
      /\ req'[r].admitted = req[r].admitted \cup Event(r, scope)
  BY <1>1 DEF RecentIsYoung, Writes, AtWindow, Passed, Shape, Apart
<1>3. ASSUME NEW q \in Requests, pc'[q] = pc[q], req'[q] = req[q], q # r
      PROVE  ~overlap => ~AtWindow(q)
  <2>1. r \in InFlight /\ (r < q \/ q < r)
    BY <1>2, <1>3, QueryRequestsAssumption DEF InFlight, Writes, AtWindow
  <2>. QED
    BY <1>3, <2>1 DEF Alone, AtWindow
<1>4. /\ window' \in [Scopes -> SUBSET Events] /\ \A k \in Scopes \ {scope} : window'[k] = window[k]
      /\ Limit(scope) = 0 => window'[scope] = window[scope]
      /\ Limit(scope) > 0 => window'[scope] = req[r].recent \cup {<<r, at>>}
  BY WindowTyped DEF Writes, Passed
<1>5. ASSUME NEW q \in Requests, NEW k \in Scopes, NEW t \in Times
      PROVE  <<k, t>> \in req'[q].admitted <=>
               \/ <<k, t>> \in req[q].admitted
               \/ q = r /\ k = scope /\ t = at /\ Limit(scope) > 0
  BY <1>2 DEF Event
<1>6. AdmittedOnce'
  BY <1>1, <1>5 DEF AdmittedOnce, Rated
<1>7. NoLaterEvents'
  <2>. SUFFICES ASSUME NEW q \in Requests, NEW e \in req'[q].admitted PROVE e[2] <= now
    BY <1>1 DEF NoLaterEvents
  <2>1. e \in req[q].admitted \/ e = <<scope, at>>
    BY <1>2 DEF Event
  <2>. QED
    BY <1>1, <2>1 DEF Rated, NoLaterEvents
<1>8. \A k \in Scopes, e \in Events : Recorded(k, e) => Recorded(k, e)'
  BY <1>5 DEF Recorded, Events
<1>9. WindowsRecord'
  <2>. SUFFICES ASSUME NEW k \in Scopes, NEW e \in window'[k] PROVE Recorded(k, e)'
    BY DEF WindowsRecord
  <2>1. window[k] \in SUBSET Events /\ e \in Events
    BY <1>4 DEF Types
  <2>2. CASE e \in window[k]
    BY <1>1, <1>8, <2>1, <2>2 DEF Rated, WindowsRecord
  <2>3. CASE k = scope /\ e \in req[r].recent
    BY <1>2, <1>8, <2>1, <2>3
  <2>4. CASE k = scope /\ e = <<r, at>> /\ Limit(scope) > 0
    BY <1>1, <1>5, <2>4 DEF Recorded
  <2>. QED
    BY <1>4, <2>2, <2>3, <2>4, LimitTyped
<1>10. WindowsFit'
  <2>. SUFFICES ASSUME Limit(scope) > 0 PROVE Cardinality(window'[scope]) <= Limit(scope)
    BY <1>1, <1>4, LimitTyped DEF Rated, WindowsFit, Limit
  <2>1. Cardinality(req[r].recent) < Limit(scope) /\ IsFiniteSet(req[r].recent)
        /\ Cardinality(req[r].recent) \in Nat /\ Limit(scope) \in Nat
    BY <1>1, EventsFinite, LimitTyped DEF Passed, Full
  <2>2. \/ Cardinality(window'[scope]) = Cardinality(req[r].recent)
        \/ Cardinality(window'[scope]) = Cardinality(req[r].recent) + 1
    <3> DEFINE list == req[r].recent
    <3>1. window'[scope] = list \cup {<<r, at>>} /\ IsFiniteSet(list)
      BY <1>4, <2>1
    <3>. HIDE DEF list, at
    <3>2. Cardinality(list \cup {<<r, at>>}) =
            IF <<r, at>> \in list THEN Cardinality(list) ELSE Cardinality(list) + 1
      BY <3>1, FS_AddElement
    <3>. QED
      BY <3>1, <3>2 DEF list
  <2>. QED
    BY <2>1, <2>2
<1>11. \A k \in Scopes : \A q \in AdmittedTo(k) : q \in AdmittedTo(k)' /\ At(q, k)' = At(q, k)
  <2>. SUFFICES ASSUME NEW k \in Scopes, NEW q \in AdmittedTo(k)
                PROVE  q \in AdmittedTo(k)' /\ At(q, k)' = At(q, k)
    OBVIOUS
  <2>1. q \in Requests /\ At(q, k) \in Times /\ <<k, At(q, k)>> \in req[q].admitted
    BY AdmittedAt
  <2>2. ~(q = r /\ k = scope)
    BY <2>1
  <2>3. \A t \in Times : <<k, t>> \in req'[q].admitted <=> <<k, t>> \in req[q].admitted
    BY <1>5, <2>1, <2>2
  <2>. QED
    BY <2>1, <2>3 DEF At, AdmittedTo
<1>12. RefusalsAreEarned'
  <2>. SUFFICES ASSUME NEW q \in Requests, NEW k \in req'[q].limited
                PROVE  Cardinality({p \in AdmittedTo(k) : req[q].at < At(p, k) + Minute})'
                         >= Limit(k)
    BY DEF RefusalsAreEarned, Limit
  <2> DEFINE now_counted == {p \in AdmittedTo(k)' : req'[q].at < At(p, k)' + Minute}
             old_counted == {p \in AdmittedTo(k) : req[q].at < At(p, k) + Minute}
  <2>1. q # r /\ req'[q] = req[q] /\ k \in Scopes
    BY <1>2 DEF Types, Local
  <2>2. old_counted \subseteq now_counted /\ now_counted \in SUBSET Requests
    BY <1>11, <2>1 DEF AdmittedTo
  <2>3. Cardinality(old_counted) >= Limit(k)
    BY <1>1, <2>1 DEF Rated, RefusalsAreEarned
  <2>. HIDE DEF now_counted, old_counted
  <2>4. /\ Cardinality(old_counted) <= Cardinality(now_counted)
        /\ Cardinality(old_counted) \in Nat /\ Cardinality(now_counted) \in Nat
        /\ Limit(k) \in Nat
    BY <2>1, <2>2, EventsFinite, FS_Subset, LimitTyped
  <2>5. Cardinality(now_counted) >= Limit(k)
    BY <2>3, <2>4
  <2>. QED
    BY <2>5 DEF now_counted
<1>13. WithinRate'
  <2>. SUFFICES ASSUME ~overlap, NEW k \in Scopes, NEW t \in Times, Limit(k) > 0
                PROVE  Cardinality({p \in AdmittedTo(k) : At(p, k) <= t /\ t < At(p, k) + Minute})'
                         <= Limit(k)
    BY <1>1 DEF WithinRate, Limit
  <2> DEFINE In(p) == At(p, k) <= t /\ t < At(p, k) + Minute
             after == {p \in AdmittedTo(k)' : At(p, k)' <= t /\ t < At(p, k)' + Minute}
             before == {p \in AdmittedTo(k) : In(p)}
  <2>1. Cardinality(before) <= Limit(k) /\ before \in SUBSET Requests
    BY <1>1 DEF Rated, WithinRate, AdmittedTo
  <2>2. \A p \in Requests : p \in AdmittedTo(k)' /\ p \notin AdmittedTo(k) =>
          p = r /\ k = scope /\ At(p, k)' = at
    <3>. SUFFICES ASSUME NEW p \in Requests, p \in AdmittedTo(k)', p \notin AdmittedTo(k)
                  PROVE  p = r /\ k = scope /\ At(p, k)' = at
      OBVIOUS
    <3>1. PICK s \in Times : <<k, s>> \in req'[p].admitted
      BY DEF AdmittedTo
    <3>2. <<k, s>> \notin req[p].admitted
      BY DEF AdmittedTo
    <3>3. p = r /\ k = scope /\ s = at
      BY <1>5, <3>1, <3>2
    <3>4. \A u \in Times : <<k, u>> \in req'[p].admitted <=> u = at
      BY <1>1, <1>5, <3>1, <3>3
    <3>. QED
      BY <1>1, <3>3, <3>4 DEF At
  <2>3. CASE r \in after /\ r \notin before /\ k = scope
    <3>1. after \subseteq before \cup {r}
      BY <1>11, <2>2 DEF AdmittedTo
    <3>2. at <= t
      BY <1>11, <2>2, <2>3
    <3>3. \A p \in before : <<p, At(p, k)>> \in req[r].recent
      <4>. SUFFICES ASSUME NEW p \in before PROVE <<p, At(p, k)>> \in req[r].recent
        OBVIOUS
      <4>1. p \in Requests /\ At(p, k) \in Times /\ <<k, At(p, k)>> \in req[p].admitted
        BY AdmittedAt
      <4>2. at < At(p, k) + Minute
        BY <1>1, <3>2, <4>1, QueryRequestsAssumption DEF Times
      <4>. QED
        BY <1>1, <2>3, <4>1, <4>2 DEF Held, RecentComplete, Writes
    <3>. HIDE DEF after, before
    <3>4. Cardinality(before) <= Cardinality(req[r].recent)
      <4> DEFINE f == [p \in before |-> <<p, At(p, k)>>]
      <4>1. f \in [before -> req[r].recent] /\ \A x, y \in before : f[x] = f[y] => x = y
        BY <3>3
      <4>. HIDE DEF f
      <4>. QED
        BY <1>1, <2>1, <4>1, EventsFinite, Fewer
    <3>5. /\ Cardinality(req[r].recent) < Limit(scope)
          /\ Cardinality(req[r].recent) \in Nat /\ Cardinality(before) \in Nat
          /\ IsFiniteSet(before) /\ Limit(scope) \in Nat
      BY <1>1, <2>1, <2>3, EventsFinite, LimitTyped DEF Passed, Full
    <3>6. IsFiniteSet(before \cup {r}) /\ Cardinality(before \cup {r}) \in
            {Cardinality(before), Cardinality(before) + 1}
      BY <3>5, FS_AddElement
    <3>7. Cardinality(after) <= Cardinality(before \cup {r}) /\ Cardinality(after) \in Nat
      BY <3>1, <3>6, FS_Subset, FS_CardinalityType
    <3>8. Cardinality(after) <= Limit(k)
      BY <2>3, <3>4, <3>5, <3>6, <3>7
    <3>. QED
      BY <3>8 DEF after
  <2>4. CASE ~(r \in after /\ r \notin before /\ k = scope)
    <3>1. after \subseteq before
      BY <1>11, <2>2, <2>4 DEF AdmittedTo
    <3>. HIDE DEF after, before
    <3>2. /\ Cardinality(after) <= Cardinality(before)
          /\ Cardinality(after) \in Nat /\ Cardinality(before) \in Nat /\ Limit(k) \in Nat
      BY <2>1, <3>1, EventsFinite, FS_Subset, LimitTyped
    <3>3. Cardinality(after) <= Limit(k)
      BY <2>1, <3>2
    <3>. QED
      BY <3>3 DEF after
  <2>. QED
    BY <2>3, <2>4
<1>14. ASSUME ~overlap PROVE WindowsComplete'
  <2>. SUFFICES ASSUME NEW k \in Scopes, NEW q \in Requests, NEW t \in Times,
                       Limit(k) > 0, <<k, t>> \in req'[q].admitted, now < t + Minute
                PROVE  <<q, t>> \in window'[k]
    BY <1>1 DEF WindowsComplete, Limit
  <2>1. CASE k # scope
    BY <1>1, <1>4, <1>5, <1>14, <2>1 DEF Rated, WindowsComplete
  <2>2. CASE k = scope /\ <<k, t>> \in req[q].admitted
    <3>1. at < t + Minute
      BY <1>1, QueryRequestsAssumption DEF Times, Types
    <3>2. RecentComplete(r) /\ AtWindow(r) /\ Scope(r) = scope
      BY <1>1, <1>14 DEF Held, Writes
    <3>. QED
      BY <1>4, <2>2, <3>1, <3>2 DEF RecentComplete
  <2>3. CASE q = r /\ k = scope /\ t = at
    BY <1>4, <2>3
  <2>. QED
    BY <1>5, <2>1, <2>2, <2>3
<1>15. ASSUME NEW q \in Requests
       PROVE  RecentIsYoung(q)' /\ (~overlap => RecentComplete(q))'
  <2>1. CASE q = r
    BY <2>1 DEF Writes, RecentIsYoung, RecentComplete, AtWindow
  <2>2. CASE q # r
    <3>1. /\ Scope(q)' = Scope(q) /\ AtWindow(q)' = AtWindow(q) /\ req'[q] = req[q]
          /\ pc'[q] = pc[q]
      BY <1>2, <2>2 DEF Scope, AtWindow, UserScope, OrgScope
    <3>2. RecentIsYoung(q)'
      <4>. SUFFICES ASSUME AtWindow(q)
                    PROVE  /\ \A e \in req[q].recent :
                                Recorded(Scope(q), e)' /\ req[q].at < e[2] + Minute
                           /\ Cardinality(req[q].recent) <= Limit(Scope(q))
        BY <3>1 DEF RecentIsYoung, Limit
      <4>1. RecentIsYoung(q) /\ Scope(q) \in Scopes /\ req[q].recent \in SUBSET Events
        BY <1>1, OwnScopes DEF Held, Scope, Types, Local
      <4>2. \A e \in req[q].recent : Recorded(Scope(q), e)'
        BY <1>8, <3>1, <4>1 DEF RecentIsYoung
      <4>. QED
        BY <4>1, <4>2 DEF RecentIsYoung
    <3>3. ASSUME ~overlap' PROVE RecentComplete(q)'
      BY <1>1, <1>3, <2>2, <3>1, <3>3 DEF RecentComplete
    <3>. QED
      BY <3>2, <3>3
  <2>. QED
    BY <2>1, <2>2
<1>. QED
  <2>1. Rated'
    BY <1>1, <1>6, <1>7, <1>9, <1>10, <1>12, <1>13, <1>14 DEF Rated
  <2>2. Held'
    BY <1>15 DEF Held
  <2>. QED
    BY <2>1, <2>2, RateInvIs DEF Rated, Held, RateInv, WindowInv

-----------------------------------------------------------------------------
(* Every step keeps the windows right.                                     *)

\* A step of one request that leaves windows and admissions alone.
LEMMA SteadyStep ==
    ASSUME LocalInv, RateInv, Types', Steady, overlap => overlap', NEW r \in Requests, Apart(r),
           ~AtWindow(r)' \/ \E scope \in Scopes : Fetched(r, scope) /\ Scope(r)' = scope
    PROVE  RateInv'
<1>1. Types /\ Rated /\ Held
  BY RateInvIs DEF LocalInv
<1>2. Rated'
  BY <1>1, SteadyRates
<1>3. RecentIsYoung(r)' /\ (~overlap => RecentComplete(r))'
  <2>1. CASE ~AtWindow(r)'
    BY <2>1 DEF RecentIsYoung, RecentComplete
  <2>2. ASSUME NEW scope \in Scopes, Fetched(r, scope), Scope(r)' = scope
        PROVE  RecentIsYoung(r)' /\ (~overlap => RecentComplete(r))'
    BY <1>1, <2>2, FetchedHeld
  <2>. QED
    BY <2>1, <2>2
<1>4. \A q \in Requests \ {r} : RecentIsYoung(q)' /\ (~overlap => RecentComplete(q))'
  BY <1>1, HeldStays DEF Apart
<1>. QED
  BY <1>2, <1>3, <1>4 DEF Rated, Held, RateInv, WindowInv

\* Arrivals keep RateInv.
LEMMA ArrivalRates ==
    ASSUME LocalInv, RateInv, NEW r \in Requests, NEW b \in Carried[r],
           Accept(r, b) \/ Browse(r, b)
    PROVE  RateInv'
<1>1. /\ Types /\ Types' /\ Apart(r) /\ Fresh(r, b) /\ b \in Bodies
      /\ \/ pc'[r] \in {"route", "done"}
         \/ pc'[r] = "user_write" /\ Fetched(r, UserScope(r)')
  BY AcceptDoes, BrowseDoes DEF LocalInv
<1>2. pc[r] = "new" /\ now' = now /\ window' = window /\ (overlap => overlap')
  BY DEF Accept, Browse, stores
<1>3. Steady
  <2>1. now \in Nat
    BY <1>1, QueryRequestsAssumption DEF Types, Times
  <2>2. req[r].admitted = {} /\ req[r].limited = {}
    BY <1>2 DEF LocalInv, Shape
  <2>3. req'[r].admitted = {} /\ req'[r].limited = {}
    BY <1>1 DEF Fresh
  <2>4. \A q \in Requests \ {r} : req'[q] = req[q]
    BY <1>1 DEF Apart
  <2>5. now' >= now /\ window' = window
    BY <1>2, <2>1
  <2>. QED
    BY <2>2, <2>3, <2>4, <2>5 DEF Steady
<1>4. UserScope(r)' \in Scopes
  BY <1>1, BodiesTyped DEF UserScope, Fresh
<1>5. \/ ~AtWindow(r)'
      \/ Fetched(r, UserScope(r)') /\ Scope(r)' = UserScope(r)'
  BY <1>1 DEF AtWindow, Scope
<1>. QED
  BY <1>1, <1>2, <1>3, <1>4, <1>5, SteadyStep

\* The clock and the files keep RateInv.
LEMMA StillRates ==
    ASSUME LocalInv, RateInv, LocalInv', Still PROVE RateInv'
<1>1. Types /\ Types' /\ Rated /\ Held /\ Steady
  BY RateInvIs DEF LocalInv, Still, Steady
<1>2. Rated'
  BY <1>1, SteadyRates DEF Still
<1>3. \A q \in Requests : RecentIsYoung(q)' /\ (~overlap => RecentComplete(q))'
  BY <1>1, HeldStays DEF Still
<1>. QED
  BY <1>2, <1>3 DEF Rated, Held, RateInv, WindowInv

\* Steps of requests under way keep RateInv.
LEMMA ServedRates ==
    ASSUME LocalInv, RateInv, NEW r \in Requests, Step(r)
    PROVE  RateInv'
<1>. USE DEF LocalInv
<1>1. Types' /\ Serves(r) /\ Apart(r) /\ now' = now /\ overlap' = overlap /\ Shape(r)
  BY StepServes DEF Serves
<1>2. ASSUME window' = window, req'[r].admitted = req[r].admitted,
             req'[r].limited = req[r].limited
      PROVE  Steady
  BY <1>1, <1>2, QueryRequestsAssumption DEF Steady, Serves, Shape, Apart, Types, Times
<1>3. CASE Route(r)
  <2>1. pc[r] = "route" /\ window' = window
    BY <1>3 DEF Route, stores
  <2>2. /\ Unchanged(r)
        /\ pc'[r] = "ask_file" \/ (pc'[r] = "user_write" /\ Fetched(r, UserScope(r)))
    BY <1>3, RouteDoes
  <2>3. UserScope(r)' = UserScope(r) /\ UserScope(r) \in Scopes /\ Steady
    BY <1>2, <2>1, <2>2, OwnScopes DEF UserScope, Unchanged, Keeps
  <2>4. ~AtWindow(r)' \/ (Fetched(r, UserScope(r)) /\ Scope(r)' = UserScope(r))
    BY <2>2, <2>3 DEF AtWindow, Scope
  <2>. QED
    BY <1>1, <2>3, <2>4, SteadyStep
<1>4. CASE OrgRead(r)
  <2>1. window' = window
    BY <1>4 DEF OrgRead, stores
  <2>2. Unchanged(r) /\ pc'[r] = "org_write" /\ Fetched(r, OrgScope(r))
    BY <1>4, OrgReadDoes
  <2>3. OrgScope(r)' = OrgScope(r) /\ OrgScope(r) \in Scopes /\ Steady
    BY <1>2, <2>1, <2>2, OwnScopes DEF OrgScope, Unchanged, Keeps
  <2>4. Scope(r)' = OrgScope(r)
    BY <2>2, <2>3 DEF Scope
  <2>. QED
    BY <1>1, <2>2, <2>3, <2>4, SteadyStep
<1>5. CASE UserWindow(r)
  <2> DEFINE scope == UserScope(r)
  <2>1. pc[r] = "user_write"
    BY <1>5 DEF UserWindow
  <2>2. /\ scope \in Scopes /\ WriteWindow(r, scope)
        /\ Turned(r, scope) \/ (Passed(r, scope) /\ pc'[r] \in {"done", "org_read"})
    BY <1>5, UserWindowDoes, OwnScopes
  <2>3. Writes(r, scope)
    BY <1>1, <2>1, <2>2 DEF Writes, AtWindow, Scope, Turned
  <2>4. \A s \in Times : <<scope, s>> \notin req[r].admitted
    BY <1>1, <2>1 DEF Shape
  <2>. HIDE DEF scope
  <2>. QED
    BY <1>1, <2>2, <2>3, <2>4, TurnedRates, PassedRates
<1>6. CASE OrgWindow(r)
  <2> DEFINE scope == OrgScope(r)
  <2>1. pc[r] = "org_write"
    BY <1>6 DEF OrgWindow
  <2>2. /\ scope \in Scopes /\ scope.kind = "organization" /\ WriteWindow(r, scope)
        /\ Turned(r, scope) \/ (Passed(r, scope) /\ pc'[r] \in {"answer", "look_up"})
    BY <1>6, OrgWindowDoes, OwnScopes
  <2>3. Writes(r, scope)
    BY <1>1, <2>1, <2>2 DEF Writes, AtWindow, Scope, Turned
  <2>4. \A s \in Times : <<scope, s>> \notin req[r].admitted
    BY <1>1, <2>1, <2>2 DEF Shape
  <2>. HIDE DEF scope
  <2>. QED
    BY <1>1, <2>2, <2>3, <2>4, TurnedRates, PassedRates
<1>7. CASE LookUp(r) \/ Pop(r) \/ Answer(r) \/ AskFile(r)
  <2>1. window' = window
    BY <1>7 DEF LookUp, Pop, Answer, AskFile
  <2>2. /\ req'[r].admitted = req[r].admitted /\ req'[r].limited = req[r].limited
        /\ pc'[r] \in {"pop", "answer", "done"}
    <3>1. pc[r] = "look_up" \/ pc[r] = "pop" \/ pc[r] = "answer" \/ pc[r] = "ask_file"
      BY <1>7 DEF LookUp, Pop, Answer, AskFile
    <3>2. CASE LookUp(r)
      <4>1. pc[r] = "look_up"
        BY <3>2 DEF LookUp
      <4>. QED
        BY <1>1, <3>2, <4>1, LookUpDoes DEF Shape, SameAdmissions
    <3>3. CASE Pop(r)
      <4>1. pc[r] = "pop"
        BY <3>3 DEF Pop
      <4>. QED
        BY <1>1, <3>3, <4>1, PopDoes DEF Shape
    <3>4. CASE Answer(r)
      BY <3>4, AnswerDoes DEF SameAdmissions
    <3>5. CASE AskFile(r)
      <4>1. pc[r] = "ask_file"
        BY <3>5 DEF AskFile
      <4>. QED
        BY <1>1, <3>5, <4>1, AskFileDoes DEF Shape, SameAdmissions
    <3>. QED
      BY <1>7, <3>2, <3>3, <3>4, <3>5
  <2>3. Steady /\ ~AtWindow(r)'
    BY <1>2, <2>1, <2>2 DEF AtWindow
  <2>. QED
    BY <1>1, <2>3, SteadyStep
<1>. QED
  BY <1>3, <1>4, <1>5, <1>6, <1>7 DEF Step

-----------------------------------------------------------------------------
(* Every step keeps the cache and the answers right.                       *)

\* Finished requests stay as they are.
Frozen ==
    \A q \in Requests : pc[q] = "done" => pc'[q] = "done" /\ req'[q] = req[q]

\* What an entry of the cache must be.
IsAnswer(u, k, entry) ==
    entry.by # NoRequest =>
        /\ StoredBy(entry.by, u, k)
        /\ entry.body = Fingerprint(req[entry.by].body)
        /\ entry.code = req[entry.by].code
        /\ entry.expires = req[entry.by].stored + Minute

\* EntriesAreAnswers, entry by entry.
LEMMA EntriesAre ==
    EntriesAreAnswers <=> \A u \in Users, k \in Keys : IsAnswer(u, k, cache[u, k])
BY DEF EntriesAreAnswers, IsAnswer

\* An entry stays right while finished requests stay as they are.
LEMMA AnswersRemain ==
    ASSUME Types, Frozen, NEW u \in Users, NEW k \in Keys, NEW entry \in Entry,
           IsAnswer(u, k, entry)
    PROVE  IsAnswer(u, k, entry)'
<1>. SUFFICES ASSUME entry.by # NoRequest
              PROVE  /\ StoredBy(entry.by, u, k)'
                     /\ entry.body = Fingerprint(req'[entry.by].body)
                     /\ entry.code = req'[entry.by].code
                     /\ entry.expires = req'[entry.by].stored + Minute
  BY DEF IsAnswer
<1>1. entry.by \in Requests
  BY DEF Entry
<1>2. pc[entry.by] = "done" /\ pc'[entry.by] = "done" /\ req'[entry.by] = req[entry.by]
  BY <1>1 DEF IsAnswer, StoredBy, Frozen
<1>. QED
  BY <1>1, <1>2 DEF IsAnswer, StoredBy, Ran

\* Replays and runs, one request at a time.
RunEnds(r) == Ran(r) => req[r].code \in {"ok", "error", "raised"}
ReplayHolds(r) ==
    Replayed(r) =>
        /\ pc[req[r].by] = "done"
        /\ Fingerprint(req[req[r].by].body) = Fingerprint(req[r].body)
        /\ req[req[r].by].body.key = req[r].body.key
        /\ req[r].looked <= req[req[r].by].stored + Minute
        /\ req[r].code = req[req[r].by].code

\* The properties of replays and runs, request by request.
LEMMA ReplaysHold ==
    RunsEnd /\ ReplaysAreAnswers /\ ReplayFits
        <=> \A r \in Requests : RunEnds(r) /\ ReplayHolds(r)
BY DEF RunsEnd, ReplaysAreAnswers, ReplayFits, RunEnds, ReplayHolds

\* A request that does not move keeps its replay right.
LEMMA ReplayRemains ==
    ASSUME Types, Types', Frozen, NEW q \in Requests, RunEnds(q), ReplayHolds(q),
           req'[q] = req[q]
    PROVE  RunEnds(q)' /\ ReplayHolds(q)'
<1>1. RunEnds(q)'
  BY DEF RunEnds, Ran
<1>2. ReplayHolds(q)'
  <2>. SUFFICES ASSUME req[q].by \notin {NoRequest, q}
                PROVE  /\ pc'[req[q].by] = "done" /\ req'[req[q].by] = req[req[q].by]
                       /\ Replayed(q)
    BY DEF ReplayHolds, Replayed
  <2>1. req[q].by \in Requests
    BY DEF Types, Local
  <2>. QED
    BY <2>1 DEF ReplayHolds, Replayed, Frozen
<1>. QED
  BY <1>1, <1>2

\* The part of CacheInv about requests served one at a time.
InTurn == AnswersStay /\ PassedLookUp /\ RanAfter

\* CacheInv in its parts.
LEMMA CacheInvIs ==
    CacheInv <=> /\ EntriesAreAnswers
                 /\ \A r \in Requests : RunEnds(r) /\ ReplayHolds(r)
                 /\ ~overlap => InTurn
BY ReplaysHold DEF CacheInv, InTurn

-----------------------------------------------------------------------------

\* A step that neither stores an answer nor replays one.
Silent(r) ==
    /\ cache' = cache /\ Frozen /\ Apart(r) /\ now' >= now /\ (overlap => overlap')
    /\ pc[r] # "done" /\ pc'[r] # "pop"
    /\ pc'[r] = "answer" => req'[r].body.key = NoKey
    /\ req'[r].by = NoRequest \/ (req'[r].by = r /\ req'[r].used # NoFile)

\* A silent step keeps CacheInv.
LEMMA SilentCache ==
    ASSUME LocalInv, Types', CacheInv, NEW r \in Requests, Silent(r)
    PROVE  CacheInv'
<1>. USE DEF LocalInv
<1>1. /\ Types /\ EntriesAreAnswers /\ (~overlap => InTurn) /\ Frozen /\ Apart(r)
      /\ \A q \in Requests : RunEnds(q) /\ ReplayHolds(q)
      /\ now \in Nat /\ now' \in Nat /\ Minute \in Nat /\ NoRequest \notin Requests
      /\ \A q \in Requests : req[q].stored \in Nat
  BY CacheInvIs, QueryRequestsAssumption DEF Silent, Types, Times, NoRequest, Local
<1>2. EntriesAreAnswers'
  <2>. SUFFICES ASSUME NEW u \in Users, NEW k \in Keys
                PROVE  IsAnswer(u, k, cache[u, k])'
    BY EntriesAre DEF EntriesAreAnswers, IsAnswer
  <2>1. cache[u, k] \in Entry /\ cache'[u, k] = cache[u, k] /\ IsAnswer(u, k, cache[u, k])
    BY <1>1, EntriesAre DEF Types, Silent
  <2>2. PICK entry \in Entry : entry = cache[u, k]
    BY <2>1
  <2>3. IsAnswer(u, k, entry)'
    BY <1>1, <2>1, <2>2, AnswersRemain
  <2>. QED
    BY <2>1, <2>2, <2>3 DEF IsAnswer
<1>3. \A q \in Requests : RunEnds(q)' /\ ReplayHolds(q)'
  <2>1. RunEnds(r)' /\ ReplayHolds(r)'
    BY <1>1 DEF Silent, RunEnds, ReplayHolds, Ran, Replayed
  <2>2. \A q \in Requests \ {r} : RunEnds(q)' /\ ReplayHolds(q)'
    BY <1>1, ReplayRemains DEF Apart
  <2>. QED
    BY <2>1, <2>2
<1>4. \A q \in Requests : pc'[q] = "done" /\ Ran(q)' => q # r /\ pc[q] = "done" /\ Ran(q)
                                                        /\ req'[q] = req[q]
  BY <1>1 DEF Silent, Ran, Apart
<1>5. \A q \in Requests, u \in Users, k \in Keys : StoredBy(q, u, k)' => StoredBy(q, u, k)
  BY <1>4 DEF StoredBy
<1>6. ASSUME ~overlap' PROVE InTurn'
  <2>1. AnswersStay /\ PassedLookUp /\ RanAfter /\ cache' = cache /\ now' >= now
    BY <1>1, <1>6 DEF InTurn, Silent
  <2>2. AnswersStay'
    <3>. SUFFICES ASSUME NEW q \in Requests, NEW u \in Users, NEW k \in Keys,
                         StoredBy(q, u, k)', now' <= req'[q].stored + Minute
                  PROVE  cache[u, k].by = q
      BY <2>1 DEF AnswersStay
    <3>1. StoredBy(q, u, k) /\ req'[q] = req[q]
      BY <1>4, <1>5 DEF StoredBy
    <3>2. now <= req[q].stored + Minute
      BY <1>1, <2>1, <3>1
    <3>. QED
      BY <2>1, <3>1, <3>2 DEF AnswersStay
  <2>3. PassedLookUp'
    <3>. SUFFICES ASSUME NEW p \in Requests, NEW q \in Requests, pc'[p] \in {"pop", "answer"},
                         StoredBy(q, req[p].body.user, req[p].body.key)'
                  PROVE  req'[p].looked > req'[q].stored + Minute
      BY DEF PassedLookUp
    <3>1. p # r
      BY DEF StoredBy, Silent
    <3>2. pc'[p] = pc[p] /\ req'[p] = req[p] /\ req'[q] = req[q]
      BY <1>1, <1>4, <3>1 DEF Apart, StoredBy
    <3>3. StoredBy(q, req[p].body.user, req[p].body.key)
      BY <1>4, <3>2 DEF StoredBy
    <3>. QED
      BY <2>1, <3>2, <3>3 DEF PassedLookUp
  <2>4. RanAfter'
    <3>. SUFFICES ASSUME NEW p \in Requests, NEW q \in Requests, p < q, pc'[q] = "done", Ran(q)',
                         StoredBy(p, req[q].body.user, req[q].body.key)'
                  PROVE  req'[q].looked > req'[p].stored + Minute
      BY DEF RanAfter
    <3>1. pc[q] = "done" /\ Ran(q) /\ req'[q] = req[q] /\ req'[p] = req[p]
      BY <1>4 DEF StoredBy
    <3>2. StoredBy(p, req[q].body.user, req[q].body.key)
      BY <1>4, <3>1 DEF StoredBy
    <3>. QED
      BY <2>1, <3>1, <3>2 DEF RanAfter
  <2>. QED
    BY <2>2, <2>3, <2>4 DEF InTurn
<1>. QED
  BY <1>2, <1>3, <1>6, ReplaysHold DEF CacheInv, InTurn, RunEnds, ReplayHolds, RunsEnd,
                                       ReplaysAreAnswers, ReplayFits

\* The clock and the files keep CacheInv.
LEMMA StillCache ==
    ASSUME LocalInv, LocalInv', CacheInv, Still PROVE CacheInv'
<1>. USE DEF LocalInv, Still
<1>1. \A q \in Requests : req[q].stored \in Nat /\ now \in Nat /\ now' \in Nat /\ Minute \in Nat
  BY QueryRequestsAssumption DEF Types, Local, Times
<1>2. EntriesAreAnswers' /\ RunsEnd' /\ ReplaysAreAnswers' /\ ReplayFits'
  <2>1. EntriesAreAnswers'
    <3>. SUFFICES ASSUME NEW u \in Users, NEW k \in Keys
                  PROVE  IsAnswer(u, k, cache[u, k])'
      BY EntriesAre DEF EntriesAreAnswers, IsAnswer
    <3>1. IsAnswer(u, k, cache[u, k])
      BY EntriesAre DEF CacheInv
    <3>. QED
      BY <3>1 DEF IsAnswer, StoredBy, Ran
  <2>2. RunsEnd' /\ ReplaysAreAnswers'
    BY DEF CacheInv, RunsEnd, ReplaysAreAnswers, Ran, Replayed
  <2>3. ReplayFits'
    BY DEF CacheInv, ReplayFits, Replayed
  <2>. QED
    BY <2>1, <2>2, <2>3
<1>3. ASSUME ~overlap PROVE InTurn'
  <2>1. PassedLookUp' /\ RanAfter'
    BY <1>3 DEF CacheInv, PassedLookUp, RanAfter, StoredBy, Ran
  <2>2. AnswersStay'
    <3>. SUFFICES ASSUME NEW q \in Requests, NEW u \in Users, NEW k \in Keys,
                         StoredBy(q, u, k), now' <= req[q].stored + Minute
                  PROVE  cache[u, k].by = q
      BY DEF AnswersStay, StoredBy, Ran
    <3>1. now <= req[q].stored + Minute
      BY <1>1
    <3>. QED
      BY <1>3, <3>1 DEF CacheInv, AnswersStay
  <2>. QED
    BY <2>1, <2>2 DEF InTurn
<1>. QED
  BY <1>2, <1>3 DEF CacheInv, InTurn

\* A step of a request under way that touches the cache.
LEMMA ServedCache ==
    ASSUME LocalInv, Types', CacheInv, NEW r \in Requests, Serves(r),
           \A u \in Users, k \in Keys :
               cache'[u, k] = cache[u, k] \/ IsAnswer(u, k, cache[u, k])',
           RunEnds(r)' /\ ReplayHolds(r)',
           ~overlap => AnswersStay',
           ~overlap /\ (pc'[r] \in {"pop", "answer"} \/ Ran(r)') =>
             \A q \in Requests : StoredBy(q, req[r].body.user, req[r].body.key)
                => req'[r].looked > req[q].stored + Minute,
           req'[r].body = req[r].body
    PROVE  CacheInv'
<1>. USE DEF LocalInv
<1>1. /\ Types /\ EntriesAreAnswers /\ (~overlap => InTurn) /\ Frozen /\ Apart(r)
      /\ \A q \in Requests : RunEnds(q) /\ ReplayHolds(q)
      /\ NoRequest \notin Requests /\ overlap' = overlap
      /\ pc[r] # "done" /\ req[r].by = NoRequest
  <2>1. Frozen /\ Apart(r) /\ pc[r] # "done" /\ overlap' = overlap
    <3>1. Apart(r) /\ pc[r] # "done" /\ overlap' = overlap
      BY DEF Serves
    <3>. QED
      BY <3>1 DEF Frozen, Apart
  <2>2. NoRequest \notin Requests
    BY Ordered
  <2>. QED
    BY <2>1, <2>2, CacheInvIs DEF Shape
<1>2. EntriesAreAnswers'
  <2>. SUFFICES ASSUME NEW u \in Users, NEW k \in Keys
                PROVE  IsAnswer(u, k, cache[u, k])'
    BY EntriesAre DEF EntriesAreAnswers, IsAnswer
  <2>1. CASE IsAnswer(u, k, cache[u, k])'
    BY <2>1
  <2>2. CASE cache'[u, k] = cache[u, k]
    <3>1. cache[u, k] \in Entry /\ IsAnswer(u, k, cache[u, k])
      BY <1>1, EntriesAre DEF Types
    <3>2. PICK entry \in Entry : entry = cache[u, k]
      BY <3>1
    <3>3. IsAnswer(u, k, entry)'
      BY <1>1, <3>1, <3>2, AnswersRemain
    <3>. QED
      BY <2>2, <3>2, <3>3 DEF IsAnswer
  <2>. QED
    BY <2>1, <2>2
<1>3. \A q \in Requests : RunEnds(q)' /\ ReplayHolds(q)'
  BY <1>1, ReplayRemains DEF Apart
<1>4. \A q \in Requests \ {r}, u \in Users, k \in Keys :
        StoredBy(q, u, k)' => StoredBy(q, u, k) /\ req'[q] = req[q]
  BY <1>1 DEF StoredBy, Apart, Ran
<1>5. \A q \in Requests :
        req[q].body.user \in Users /\ (req[q].body.key # NoKey => req[q].body.key \in Keys)
  BY OwnScopes, BodiesTyped
<1>6. ASSUME ~overlap PROVE PassedLookUp' /\ RanAfter'
  <2>1. PassedLookUp /\ RanAfter /\ r \in InFlight /\ Alone
    BY <1>1, <1>6 DEF InTurn, InFlight, Serves
  <2>2. \A q \in Requests \ {r} : pc[q] \in {"new", "done"} /\ (q > r => pc[q] = "new")
    <3>. SUFFICES ASSUME NEW q \in Requests, q # r
                  PROVE  pc[q] \in {"new", "done"} /\ (q > r => pc[q] = "new")
      OBVIOUS
    <3>1. q < r \/ q > r
      BY Ordered
    <3>. QED
      BY <2>1, <3>1 DEF Alone
  <2>3. PassedLookUp'
    <3>. SUFFICES ASSUME NEW p \in Requests, NEW q \in Requests, pc'[p] \in {"pop", "answer"},
                         StoredBy(q, req[p].body.user, req[p].body.key)'
                  PROVE  req'[p].looked > req'[q].stored + Minute
      BY DEF PassedLookUp
    <3>1. p = r /\ q # r
      BY <1>1, <2>2 DEF Apart, StoredBy
    <3>2. StoredBy(q, req[r].body.user, req[r].body.key) /\ req'[q] = req[q]
      BY <1>1, <3>1 DEF Apart, StoredBy, Ran
    <3>. QED
      BY <1>6, <3>1, <3>2
  <2>4. RanAfter'
    <3>. SUFFICES ASSUME NEW p \in Requests, NEW q \in Requests, p < q, pc'[q] = "done", Ran(q)',
                         StoredBy(p, req[q].body.user, req[q].body.key)'
                  PROVE  req'[q].looked > req'[p].stored + Minute
      BY DEF RanAfter
    <3>1. p # r
      <4>. SUFFICES ASSUME p = r PROVE FALSE
        OBVIOUS
      <4>1. q > r /\ q # r
        BY Ordered
      <4>. QED
        BY <1>1, <2>2, <4>1 DEF Apart
    <3>2. req'[p] = req[p] /\ pc[p] = "done" /\ req'[q].body = req[q].body
      BY <1>1, <3>1 DEF Apart, StoredBy
    <3>3. StoredBy(p, req[q].body.user, req[q].body.key)
      BY <3>2 DEF StoredBy, Ran
    <3>4. CASE q = r
      BY <1>6, <3>2, <3>3, <3>4
    <3>5. CASE q # r
      BY <1>1, <2>1, <3>2, <3>3, <3>5 DEF Apart, RanAfter, Ran
    <3>. QED
      BY <3>4, <3>5
  <2>. QED
    BY <2>3, <2>4
<1>. QED
  BY <1>1, <1>2, <1>3, <1>6, ReplaysHold
     DEF CacheInv, RunEnds, ReplayHolds, RunsEnd, ReplaysAreAnswers, ReplayFits

\* Finished answers are the answers there were, but for that of r.
LEMMA StoredBefore ==
    ASSUME LocalInv, NEW r \in Requests, Serves(r), NEW q \in Requests \ {r}, NEW u, NEW k,
           StoredBy(q, u, k)'
    PROVE  StoredBy(q, u, k) /\ req'[q] = req[q]
BY DEF StoredBy, Serves, Apart, Ran

\* Arrivals, the windows and the file branch are silent.
LEMMA SilentSteps ==
    ASSUME LocalInv, CacheInv, NEW r \in Requests,
           \/ \E b \in Carried[r] : Accept(r, b) \/ Browse(r, b)
           \/ Route(r) \/ OrgRead(r) \/ UserWindow(r) \/ OrgWindow(r) \/ AskFile(r)
    PROVE  CacheInv'
<1>. USE DEF LocalInv
<1>1. now \in Nat /\ Shape(r)
  BY QueryRequestsAssumption DEF Types, Times
<1>2. ASSUME NEW b \in Carried[r], Accept(r, b) \/ Browse(r, b) PROVE Types' /\ Silent(r)
  <2>1. /\ Types' /\ Apart(r) /\ req'[r].by = NoRequest
        /\ pc'[r] \in {"route", "done", "user_write"}
    BY <1>2, AcceptDoes, BrowseDoes DEF Fresh
  <2>2. pc[r] = "new" /\ cache' = cache /\ now' = now /\ (overlap => overlap')
    BY <1>2 DEF Accept, Browse, stores
  <2>. QED
    BY <1>1, <2>1, <2>2 DEF Silent, Frozen, Apart
<1>3. ASSUME Step(r), cache' = cache, pc'[r] # "pop", pc'[r] = "answer" => req'[r].body.key = NoKey,
             req'[r].by = NoRequest \/ (req'[r].by = r /\ req'[r].used # NoFile)
      PROVE  Types' /\ Silent(r)
  <2>1. Types' /\ Apart(r) /\ pc[r] # "done" /\ now' = now /\ overlap' = overlap
    BY <1>3, StepServes DEF Serves
  <2>2. Frozen
    BY <2>1 DEF Frozen, Apart
  <2>. QED
    BY <1>1, <1>3, <2>1, <2>2 DEF Silent
<1>4. CASE Route(r)
  <2>1. pc[r] = "route" /\ cache' = cache
    BY <1>4 DEF Route, stores
  <2>2. req'[r].by = req[r].by /\ pc'[r] \in {"ask_file", "user_write"}
    BY <1>4, RouteDoes DEF Unchanged, Keeps
  <2>. QED
    BY <1>1, <1>3, <1>4, <2>1, <2>2, SilentCache DEF Step, Shape
<1>5. CASE OrgRead(r)
  <2>1. pc[r] = "org_read" /\ cache' = cache
    BY <1>5 DEF OrgRead, stores
  <2>2. req'[r].by = req[r].by /\ pc'[r] = "org_write"
    BY <1>5, OrgReadDoes DEF Unchanged, Keeps
  <2>. QED
    BY <1>1, <1>3, <1>5, <2>1, <2>2, SilentCache DEF Step, Shape
<1>6. CASE UserWindow(r)
  <2>1. pc[r] = "user_write" /\ cache' = cache
    BY <1>6 DEF UserWindow
  <2>2. req'[r].by = req[r].by /\ pc'[r] \in {"done", "org_read"}
    BY <1>6, UserWindowDoes DEF Turned, Passed, SameLooks
  <2>. QED
    BY <1>1, <1>3, <1>6, <2>1, <2>2, SilentCache DEF Step, Shape
<1>7. CASE OrgWindow(r)
  <2>1. pc[r] = "org_write" /\ cache' = cache
    BY <1>7 DEF OrgWindow
  <2>2. /\ req'[r].by = req[r].by /\ req'[r].body = req[r].body
        /\ pc'[r] = "done" \/ pc'[r] = IF req[r].body.key = NoKey THEN "answer" ELSE "look_up"
    BY <1>7, OrgWindowDoes DEF Turned, Passed, SameLooks
  <2>. QED
    BY <1>1, <1>3, <1>7, <2>1, <2>2, SilentCache DEF Step, Shape
<1>8. CASE AskFile(r)
  <2>1. pc[r] = "ask_file" /\ req[r].file # NoFile
    BY <1>1, <1>8 DEF AskFile, Shape
  <2>2. /\ pc'[r] = "done" /\ cache' = cache
        /\ req'[r].by = req[r].by \/ (req'[r].by = r /\ req'[r].used = req[r].file)
    BY <1>8, <2>1, AskFileDoes
  <2>. QED
    BY <1>1, <1>3, <1>8, <2>1, <2>2, SilentCache DEF Step, Shape
<1>. QED
  BY <1>2, <1>4, <1>5, <1>6, <1>7, <1>8, SilentCache

\* LookUp keeps CacheInv: a live entry is the answer to this very question, and
\* whoever goes on has outlived every answer stored under its key.
LEMMA LookUpCache ==
    ASSUME LocalInv, CacheInv, NEW r \in Requests, LookUp(r) PROVE CacheInv'
<1>. USE DEF LocalInv
<1> DEFINE entry == cache[CacheKey(r)]
           user == req[r].body.user
           key == req[r].body.key
<1>1. pc[r] = "look_up" /\ cache' = cache /\ key # NoKey /\ req[r].by = NoRequest
  BY DEF LookUp, Shape
<1>2. Types' /\ Serves(r) /\ Apart(r) /\ now' = now /\ overlap' = overlap
  BY StepServes DEF Step, Serves
<1>3. /\ req'[r].looked = now /\ req'[r].used = req[r].used /\ req'[r].body = req[r].body
      /\ \/ Expired(entry) /\ pc'[r] = "pop" /\ req'[r].by = req[r].by
         \/ /\ pc'[r] = "done" /\ ~Expired(entry) /\ Fits(r, entry)
            /\ req'[r].by = entry.by /\ req'[r].code = entry.code
         \/ pc'[r] = "done" /\ req'[r].by = req[r].by /\ req'[r].code = "mismatch"
  BY <1>1, LookUpDoes DEF SameAdmissions
<1>4. user \in Users /\ key \in Keys /\ entry = cache[user, key] /\ entry \in Entry
  BY <1>1, KeyTyped
<1>5. IsAnswer(user, key, entry)
  BY <1>4, CacheInvIs, EntriesAre
<1>6. CASE pc'[r] = "done" /\ req'[r].by = req[r].by
  <2>1. Silent(r)
    BY <1>1, <1>2, <1>6, ClocksTyped DEF Silent, Frozen, Apart
  <2>. QED
    BY <1>2, <2>1, SilentCache
<1>7. ASSUME ~overlap, pc'[r] # "done" \/ req'[r].by # r PROVE AnswersStay'
  <2>. SUFFICES ASSUME NEW q \in Requests, NEW u \in Users, NEW k \in Keys,
                       StoredBy(q, u, k)', now' <= req'[q].stored + Minute
                PROVE  cache[u, k].by = q
    BY <1>1 DEF AnswersStay
  <2>1. q # r
    BY <1>7 DEF StoredBy, Ran
  <2>2. StoredBy(q, u, k) /\ req'[q] = req[q]
    BY <1>2, <2>1, StoredBefore
  <2>. QED
    BY <1>2, <1>7, <2>2, CacheInvIs DEF InTurn, AnswersStay
<1>8. CASE Expired(entry) /\ pc'[r] = "pop" /\ req'[r].by = req[r].by
  <2>1. RunEnds(r)' /\ ReplayHolds(r)'
    BY <1>1, <1>8, Ordered DEF RunEnds, ReplayHolds, Ran, Replayed
  <2>2. ASSUME NEW q \in Requests, StoredBy(q, user, key), ~overlap
        PROVE  req'[r].looked > req[q].stored + Minute
    <3>1. CASE now <= req[q].stored + Minute
      <4>1. entry.by = q
        <5>1. AnswersStay
          BY <2>2, CacheInvIs DEF InTurn
        <5>2. cache[user, key].by = q
          BY <1>4, <2>2, <3>1, <5>1 DEF AnswersStay
        <5>. QED
          BY <1>4, <5>2
      <4>2. entry.by # NoRequest
        BY <4>1, Ordered
      <4>3. entry.expires = req[q].stored + Minute
        BY <1>5, <4>1, <4>2 DEF IsAnswer
      <4>4. entry.expires < now
        BY <1>8, <4>2 DEF Expired
      <4>. HIDE DEF entry
      <4>. QED
        BY <3>1, <4>3, <4>4, ClocksTyped
    <3>2. CASE ~(now <= req[q].stored + Minute)
      BY <1>3, <3>2, ClocksTyped
    <3>. QED
      BY <3>1, <3>2
  <2>3. ~overlap => AnswersStay'
    BY <1>7, <1>8
  <2>4. \A u \in Users, k \in Keys :
          cache'[u, k] = cache[u, k] \/ IsAnswer(u, k, cache[u, k])'
    BY <1>1
  <2>. HIDE DEF entry, user, key
  <2>. QED
    BY <1>2, <1>3, <2>1, <2>2, <2>3, <2>4, ServedCache DEF user, key
<1>9. CASE /\ pc'[r] = "done" /\ ~Expired(entry) /\ Fits(r, entry)
           /\ req'[r].by = entry.by /\ req'[r].code = entry.code
  <2>1. entry.by # NoRequest /\ entry.by \in Requests /\ ~(entry.expires < now)
    BY <1>4, <1>9 DEF Expired, Entry
  <2>2. entry.by # r /\ req'[entry.by] = req[entry.by] /\ pc'[entry.by] = "done"
    <3>1. StoredBy(entry.by, user, key)
      BY <1>5, <2>1 DEF IsAnswer
    <3>2. pc[entry.by] = "done"
      BY <3>1 DEF StoredBy
    <3>. HIDE DEF entry
    <3>. QED
      BY <1>1, <1>2, <2>1, <3>2 DEF Apart
  <2>3. RunEnds(r)'
    BY <1>9, <2>2 DEF RunEnds, Ran
  <2>4. /\ entry.body = Fingerprint(req[entry.by].body)
        /\ entry.code = req[entry.by].code
        /\ entry.expires = req[entry.by].stored + Minute
        /\ req[entry.by].body.key = key
    BY <1>5, <2>1 DEF IsAnswer, StoredBy
  <2>5. entry.body = Fingerprint(req[r].body)
    BY <1>9 DEF Fits
  <2>6. now <= req[entry.by].stored + Minute
    <3>. HIDE DEF entry
    <3>. QED
      BY <2>1, <2>4, ClocksTyped
  <2>7. ~overlap => AnswersStay'
    BY <1>7, <1>9, <2>2
  <2>8. ~(pc'[r] \in {"pop", "answer"} \/ Ran(r)')
    BY <1>9, <2>2 DEF Ran
  <2>9. \A u \in Users, k \in Keys :
          cache'[u, k] = cache[u, k] \/ IsAnswer(u, k, cache[u, k])'
    BY <1>1
  <2>. HIDE DEF entry
  <2>10. ReplayHolds(r)'
    BY <1>3, <1>9, <2>2, <2>4, <2>5, <2>6 DEF ReplayHolds
  <2>. QED
    BY <1>2, <1>3, <2>3, <2>7, <2>8, <2>9, <2>10, ServedCache
<1>. QED
  BY <1>3, <1>6, <1>8, <1>9

\* Pop keeps CacheInv: one at a time, it removes no answer that still lives.
LEMMA PopCache ==
    ASSUME LocalInv, CacheInv, NEW r \in Requests, Pop(r) PROVE CacheInv'
<1>. USE DEF LocalInv
<1> DEFINE user == req[r].body.user
           key == req[r].body.key
<1>1. pc[r] = "pop" /\ key # NoKey /\ req[r].by = NoRequest
  BY DEF Pop, Shape
<1>2. Types' /\ Serves(r) /\ Apart(r) /\ now' = now /\ overlap' = overlap
  BY StepServes DEF Step, Serves
<1>3. req' = req /\ pc'[r] = "answer" /\ cache' = [cache EXCEPT ![CacheKey(r)] = NoEntry]
  BY <1>1, PopDoes
<1>4. \A u \in Users, k \in Keys :
        cache'[u, k] = IF u = user /\ k = key THEN NoEntry ELSE cache[u, k]
  BY <1>1, <1>3, KeyTyped DEF Types, CacheKey
<1>5. \A u \in Users, k \in Keys :
        cache'[u, k] = cache[u, k] \/ IsAnswer(u, k, cache[u, k])'
  <2>1. NoEntry.by = NoRequest
    BY DEF NoEntry
  <2>2. \A u \in Users, k \in Keys : cache'[u, k] = cache[u, k] \/ cache'[u, k].by = NoRequest
    BY <1>4, <2>1
  <2>. QED
    BY <2>2 DEF IsAnswer
<1>6. RunEnds(r)' /\ ReplayHolds(r)'
  BY <1>1, <1>3, Ordered DEF RunEnds, ReplayHolds, Ran, Replayed
<1>7. ASSUME ~overlap, NEW q \in Requests, StoredBy(q, user, key)
      PROVE  req'[r].looked > req[q].stored + Minute
  BY <1>1, <1>3, <1>7, CacheInvIs DEF InTurn, PassedLookUp
<1>8. ASSUME ~overlap PROVE AnswersStay'
  <2>. SUFFICES ASSUME NEW q \in Requests, NEW u \in Users, NEW k \in Keys,
                       StoredBy(q, u, k)', now <= req[q].stored + Minute
                PROVE  cache'[u, k].by = q
    BY <1>2, <1>3 DEF AnswersStay
  <2>1. q # r
    BY <1>3 DEF StoredBy
  <2>2. StoredBy(q, u, k)
    BY <1>2, <2>1, StoredBefore
  <2>3. ~(u = user /\ k = key)
    <3>. SUFFICES ASSUME u = user /\ k = key PROVE FALSE
      OBVIOUS
    <3>1. req[r].looked > req[q].stored + Minute /\ req[r].looked <= now
      BY <1>3, <1>7, <1>8, <2>2 DEF Shape
    <3>2. /\ now \in Nat /\ Minute \in Nat /\ req[r].looked \in Nat
          /\ req[q].stored \in Nat
      BY ClocksTyped
    <3>. QED
      BY <3>1, <3>2
  <2>4. cache'[u, k] = cache[u, k]
    BY <1>4, <2>3
  <2>. QED
    BY <1>8, <2>2, <2>4, CacheInvIs DEF InTurn, AnswersStay
<1>. HIDE DEF user, key
<1>. QED
  BY <1>2, <1>3, <1>5, <1>6, <1>7, <1>8, ServedCache DEF user, key

\* Answer keeps CacheInv.
LEMMA AnswerCache ==
    ASSUME LocalInv, CacheInv, NEW r \in Requests, Answer(r) PROVE CacheInv'
<1>. USE DEF LocalInv
<1> DEFINE user == req[r].body.user
           key == req[r].body.key
           code == req'[r].code
<1>1. pc[r] = "answer" /\ req[r].by = NoRequest /\ req[r].used = NoFile
  <2>1. pc[r] = "answer"
    BY DEF Answer
  <2>. QED
    BY <2>1 DEF Shape
<1>2. Types' /\ Serves(r) /\ Apart(r) /\ now' = now /\ overlap' = overlap
  BY StepServes DEF Step, Serves
<1>3. /\ pc'[r] = "done" /\ req'[r].body = req[r].body
      /\ req'[r].by = r /\ req'[r].used = NoFile /\ req'[r].looked = req[r].looked
      /\ \/ code = "raised" /\ cache' = cache
         \/ code \in {"ok", "error"} /\ key = NoKey /\ cache' = cache
         \/ /\ code \in {"ok", "error"} /\ key # NoKey /\ Store(r, code)
            /\ req'[r].stored = now
  BY <1>1, AnswerDoes DEF SameAdmissions
<1>4. /\ user \in Users /\ (key # NoKey => key \in Keys)
  BY OwnScopes, BodiesTyped
<1>5. RunEnds(r)' /\ ReplayHolds(r)'
  BY <1>3 DEF RunEnds, ReplayHolds, Ran, Replayed
<1>6. ASSUME ~overlap, NEW q \in Requests, StoredBy(q, user, key)
      PROVE  req'[r].looked > req[q].stored + Minute
  BY <1>1, <1>3, <1>6, CacheInvIs DEF InTurn, PassedLookUp
<1>7. ASSUME \A u \in Users, k \in Keys :
               cache'[u, k] = cache[u, k] \/ IsAnswer(u, k, cache[u, k])',
             ~overlap => AnswersStay'
      PROVE  CacheInv'
  <2>. HIDE DEF user, key, code
  <2>. QED
    BY <1>2, <1>3, <1>5, <1>6, <1>7, ServedCache DEF user, key
<1>8. CASE cache' = cache /\ (code = "raised" \/ key = NoKey)
  <2>1. ASSUME ~overlap PROVE AnswersStay'
    <3>. SUFFICES ASSUME NEW q \in Requests, NEW u \in Users, NEW k \in Keys,
                         StoredBy(q, u, k)', now' <= req'[q].stored + Minute
                  PROVE  cache[u, k].by = q
      BY <1>8 DEF AnswersStay
    <3>1. q # r
      BY <1>3, <1>8 DEF StoredBy
    <3>2. StoredBy(q, u, k) /\ req'[q] = req[q]
      BY <1>2, <3>1, StoredBefore
    <3>. QED
      BY <1>2, <2>1, <3>2, CacheInvIs DEF InTurn, AnswersStay
  <2>. QED
    BY <1>7, <1>8, <2>1
<1>9. CASE code \in {"ok", "error"} /\ key # NoKey /\ Store(r, code) /\ req'[r].stored = now
  <2> DEFINE new == [by |-> r, body |-> Fingerprint(req[r].body), code |-> code,
                     expires |-> now + Minute]
  <2>1. \A u \in Users, k \in Keys :
          cache'[u, k] = IF u = user /\ k = key THEN new ELSE cache[u, k]
    <3>1. cache' = [cache EXCEPT ![<<user, key>>] = new]
      BY <1>9 DEF Store, CacheKey
    <3>. HIDE DEF new, user, key
    <3>. QED
      BY <1>4, <1>9, <3>1 DEF Types
  <2>2. /\ new.by = r /\ new.body = Fingerprint(req[r].body)
        /\ new.code = code /\ new.expires = now + Minute
    OBVIOUS
  <2>3. \A u \in Users, k \in Keys : u = user /\ k = key => StoredBy(r, u, k)'
    BY <1>3, <1>9 DEF StoredBy, Ran
  <2>. HIDE DEF new, user, key
  <2>4. \A u \in Users, k \in Keys :
          cache'[u, k] = cache[u, k] \/ IsAnswer(u, k, cache[u, k])'
    <3>. SUFFICES ASSUME NEW u \in Users, NEW k \in Keys, cache'[u, k] # cache[u, k]
                  PROVE  IsAnswer(u, k, cache[u, k])'
      OBVIOUS
    <3>1. cache'[u, k] = new /\ u = user /\ k = key
      BY <2>1
    <3>2. PICK entry : entry = cache'[u, k]
      OBVIOUS
    <3>3. StoredBy(r, u, k)'
      BY <2>3, <3>1
    <3>4. /\ entry.by = r /\ entry.body = Fingerprint(req'[r].body)
          /\ entry.code = req'[r].code /\ entry.expires = req'[r].stored + Minute
      BY <1>3, <1>9, <2>2, <3>1, <3>2
    <3>5. IsAnswer(u, k, entry)'
      BY <3>3, <3>4 DEF IsAnswer
    <3>. QED
      BY <3>2, <3>5 DEF IsAnswer
  <2>5. ASSUME ~overlap PROVE AnswersStay'
    <3>. SUFFICES ASSUME NEW q \in Requests, NEW u \in Users, NEW k \in Keys,
                         StoredBy(q, u, k)', now <= req'[q].stored + Minute
                  PROVE  cache'[u, k].by = q
      BY <1>2 DEF AnswersStay
    <3>1. CASE q = r
      <4>1. u = user /\ k = key
        BY <1>3, <3>1 DEF StoredBy, user, key
      <4>. QED
        BY <2>1, <2>2, <3>1, <4>1
    <3>2. CASE q # r
      <4>1. StoredBy(q, u, k) /\ req'[q] = req[q]
        BY <1>2, <3>2, StoredBefore
      <4>2. ~(u = user /\ k = key)
        <5>. SUFFICES ASSUME u = user /\ k = key PROVE FALSE
          OBVIOUS
        <5>1. req[r].looked > req[q].stored + Minute
          BY <1>3, <1>6, <2>5, <4>1
        <5>2. req[r].looked <= now
          BY DEF Shape
        <5>3. /\ now \in Nat /\ Minute \in Nat /\ req[r].looked \in Nat
              /\ req[q].stored \in Nat
          BY ClocksTyped
        <5>. QED
          BY <4>1, <5>1, <5>2, <5>3
      <4>3. cache'[u, k] = cache[u, k]
        BY <2>1, <4>2
      <4>. QED
        BY <2>5, <4>1, <4>3, CacheInvIs DEF InTurn, AnswersStay
    <3>. QED
      BY <3>1, <3>2
  <2>. QED
    BY <1>7, <2>4, <2>5
<1>. QED
  BY <1>3, <1>8, <1>9

\* Every step keeps CacheInv.
LEMMA CacheKept ==
    ASSUME LocalInv, CacheInv, LocalInv', [Next]_vars PROVE CacheInv'
<1>1. ASSUME NEW r \in Requests, Step(r) \/ \E b \in Carried[r] : Accept(r, b) \/ Browse(r, b)
      PROVE  CacheInv'
  BY <1>1, SilentSteps, LookUpCache, PopCache, AnswerCache DEF Step
<1>. QED
  BY <1>1, StillKept, StillCache DEF Next

\* Every step keeps RateInv.
LEMMA RatesKept ==
    ASSUME LocalInv, RateInv, LocalInv', [Next]_vars PROVE RateInv'
BY ServedRates, ArrivalRates, StillKept, StillRates DEF Next

-----------------------------------------------------------------------------
(* A request is answered from its user's file.                             *)

OwnFiles(r) ==
    /\ req[r].file # NoFile => Owner[req[r].file] = req[r].body.user
    /\ req[r].used # NoFile => Owner[req[r].used] = req[r].body.user

\* Every step keeps FilesAreOwn.
LEMMA FilesKept ==
    ASSUME LocalInv, FilesAreOwn, [Next]_vars PROVE FilesAreOwn'
<1>. USE DEF LocalInv
<1>1. \A q \in Requests : OwnFiles(q)
  BY DEF FilesAreOwn, OwnFiles
<1>2. ASSUME NEW r \in Requests, Apart(r), OwnFiles(r)' PROVE FilesAreOwn'
  BY <1>1, <1>2 DEF FilesAreOwn, OwnFiles, Apart
<1>3. ASSUME NEW r \in Requests, Apart(r), req'[r].body = req[r].body,
             req'[r].file \in {req[r].file, NoFile},
             req'[r].used \in {req[r].used, req[r].file}
      PROVE  FilesAreOwn'
  BY <1>1, <1>2, <1>3 DEF OwnFiles
<1>4. ASSUME NEW r \in Requests, NEW b \in Carried[r], Accept(r, b) \/ Browse(r, b)
      PROVE  FilesAreOwn'
  <2>1. /\ Apart(r) /\ Fresh(r, b)
        /\ req'[r].file # NoFile => Owner[req'[r].file] = b.user
    BY <1>4, AcceptDoes, BrowseDoes
  <2>. QED
    BY <1>2, <2>1 DEF OwnFiles, Fresh
<1>5. ASSUME NEW r \in Requests, Step(r) PROVE FilesAreOwn'
  <2>1. Shape(r)
    OBVIOUS
  <2>2. CASE Route(r)
    BY <1>3, <2>2, RouteDoes DEF Unchanged, Keeps
  <2>3. CASE OrgRead(r)
    BY <1>3, <2>3, OrgReadDoes DEF Unchanged, Keeps
  <2>4. CASE UserWindow(r)
    BY <1>3, <2>4, UserWindowDoes DEF Turned, Passed, SameLooks
  <2>5. CASE OrgWindow(r)
    BY <1>3, <2>5, OrgWindowDoes DEF Turned, Passed, SameLooks
  <2>6. CASE LookUp(r)
    <3>1. req[r].body.key # NoKey
      BY <2>1, <2>6 DEF LookUp, Shape
    <3>. QED
      BY <1>3, <2>6, <3>1, LookUpDoes DEF SameAdmissions
  <2>7. CASE Pop(r)
    <3>1. req[r].body.key # NoKey
      BY <2>1, <2>7 DEF Pop, Shape
    <3>. QED
      BY <1>3, <2>7, <3>1, PopDoes
  <2>8. CASE Answer(r)
    BY <1>3, <2>8, AnswerDoes DEF SameAdmissions
  <2>9. CASE AskFile(r)
    <3>1. req[r].file # NoFile
      BY <2>1, <2>9 DEF AskFile, Shape
    <3>. QED
      BY <1>3, <2>9, <3>1, AskFileDoes DEF SameAdmissions
  <2>. QED
    BY <1>5, <2>2, <2>3, <2>4, <2>5, <2>6, <2>7, <2>8, <2>9 DEF Step
<1>6. ASSUME Tick \/ (\E f \in Files : FileChanges(f)) \/ UNCHANGED vars PROVE FilesAreOwn'
  <2>1. req' = req
    BY <1>6, StillKept DEF Still
  <2>. QED
    BY <2>1 DEF FilesAreOwn
<1>. QED
  BY <1>4, <1>5, <1>6 DEF Next

-----------------------------------------------------------------------------
(* The invariant, and what it says.                                        *)

\* The invariant holds at first.
LEMMA InitIInv == Init => IInv
<1>. SUFFICES ASSUME Init PROVE IInv
  OBVIOUS
<1> DEFINE first == Blank(CHOOSE b \in Bodies : TRUE)
<1>1. ASSUME NEW r \in Requests
      PROVE  /\ pc[r] = "new" /\ req[r].at = 0 /\ req[r].looked = 0 /\ req[r].stored = 0
             /\ req[r].recent = {} /\ req[r].admitted = {} /\ req[r].limited = {}
             /\ req[r].by = NoRequest /\ req[r].used = NoFile /\ req[r].file = NoFile
             /\ first \in Local
  <2>1. Bodies # {}
    BY QueryRequestsAssumption DEF Bodies
  <2>2. (CHOOSE b \in Bodies : TRUE) \in Bodies
    BY <2>1
  <2>3. req[r] = first /\ pc[r] = "new"
    BY DEF Init
  <2>. QED
    BY <2>2, <2>3, BlankTyped
<1>2. Types
  <2>1. req \in [Requests -> Local]
    <3>. HIDE DEF first
    <3>1. req = [r \in Requests |-> first]
      BY DEF Init, first
    <3>. QED
      BY <1>1, <3>1
  <2>2. cache \in [Users \X Keys -> Entry]
    <3>1. NoEntry \in Entry
      BY QueryRequestsAssumption DEF NoEntry, Entry, Codes, NoRequest
    <3>. QED
      BY <3>1 DEF Init
  <2>3. now \in Times /\ pc \in [Requests -> PCs]
    BY QueryRequestsAssumption DEF Init, Times, PCs
  <2>4. /\ overlap \in BOOLEAN /\ tables \subseteq Files /\ turns \subseteq Requests
        /\ rows \in [Files -> {"ready", "deleted", "gone"}]
        /\ inherited \in [Sessions -> Files \cup {NoFile}]
        /\ window \in [Scopes -> SUBSET Events]
        /\ meta \in [Requests -> {"none", "accepted", "succeeded", "failed"}]
    BY DEF Init
  <2>. QED
    BY <2>1, <2>2, <2>3, <2>4 DEF Types
<1>3. LocalInv
  <2>1. \A r \in Requests : Shape(r)
    BY <1>1 DEF Shape, Init
  <2>2. InOrder /\ (~overlap => Alone)
    BY <1>1 DEF InOrder, Alone, InFlight
  <2>. QED
    BY <1>2, <2>1, <2>2 DEF LocalInv
<1>4. \A k \in Scopes : AdmittedTo(k) = {}
  BY <1>1 DEF AdmittedTo
<1>5. RateInv
  <2>1. AdmittedOnce /\ NoLaterEvents /\ \A r \in Requests : RecentIsYoung(r) /\ RecentComplete(r)
    BY <1>1 DEF AdmittedOnce, NoLaterEvents, RecentIsYoung, RecentComplete, AtWindow
  <2>2. WindowsRecord /\ WindowsFit /\ WindowsComplete
    <3>1. \A k \in Scopes : window[k] = {}
      BY DEF Init
    <3>. QED
      BY <1>1, <3>1, FS_EmptySet, LimitTyped DEF WindowsRecord, WindowsFit, WindowsComplete
  <2>3. RefusalsAreEarned
    BY <1>1 DEF RefusalsAreEarned
  <2>4. WithinRate
    <3>. SUFFICES ASSUME NEW k \in Scopes, NEW t \in Times
                  PROVE  Cardinality({q \in AdmittedTo(k) : At(q, k) <= t /\ t < At(q, k) + Minute})
                           <= Limit(k)
      BY DEF WithinRate
    <3>1. {q \in AdmittedTo(k) : At(q, k) <= t /\ t < At(q, k) + Minute} = {}
      BY <1>4
    <3>. QED
      BY <3>1, FS_EmptySet, LimitTyped
  <2>. QED
    BY <2>1, <2>2, <2>3, <2>4 DEF RateInv, WindowInv
<1>6. CacheInv
  <2>1. EntriesAreAnswers
    BY DEF Init, EntriesAreAnswers, NoEntry
  <2>2. RunsEnd /\ ReplaysAreAnswers /\ ReplayFits
    BY <1>1, Ordered DEF RunsEnd, ReplaysAreAnswers, ReplayFits, Replayed, Ran
  <2>3. AnswersStay /\ PassedLookUp /\ RanAfter
    BY <1>1 DEF AnswersStay, PassedLookUp, RanAfter, StoredBy
  <2>. QED
    BY <2>1, <2>2, <2>3 DEF CacheInv
<1>7. FilesAreOwn
  BY <1>1 DEF FilesAreOwn
<1>. QED
  BY <1>3, <1>5, <1>6, <1>7 DEF IInv

\* Every step keeps the invariant.
LEMMA NextIInv == IInv /\ [Next]_vars => IInv'
BY LocalKept, RatesKept, CacheKept, FilesKept DEF IInv

\* The invariant of the chat query route: locals, windows, cache and files.
THEOREM InvariantHolds == Spec => []IInv
BY InitIInv, NextIInv, PTL DEF Spec

\* Every store and every local keeps its type and no window outgrows its limit,
\* for every number of requests, threads and users and every limit.
THEOREM QueryTypeCorrect == Spec => []TypeOK
<1>1. IInv => TypeOK
  BY DEF IInv, LocalInv, Types, RateInv, WindowInv, WindowsFit, TypeOK
<1>. QED
  BY <1>1, InvariantHolds, PTL

\* No request is refused unless the minute before it saw its limit admitted, and
\* requests that come one at a time never exceed a limit within a minute.
THEOREM RateWindowsAlwaysHold == Spec => []RateWindowsHold
<1>1. IInv => RateWindowsHold
  BY DEF IInv, RateInv, RateWindowsHold
<1>. QED
  BY <1>1, InvariantHolds, PTL

\* An answer served again fits the question and its minute, and a question
\* repeated under its key runs once when requests come one at a time.
THEOREM KeysStayIdempotent == Spec => []KeysAreIdempotent
<1>1. IInv => RepeatRunsOnce
  <2>. SUFFICES ASSUME IInv, ~overlap, NEW r \in Requests, NEW q \in Requests,
                       r < q, Twins(r, q), Ran(r), Ran(q), req[r].code # "raised"
                PROVE  req[q].looked > req[r].stored + Minute
    BY DEF RepeatRunsOnce
  <2>1. /\ RanAfter /\ req[r].code \in {"ok", "error"} /\ Shape(r) /\ Shape(q)
    BY DEF IInv, CacheInv, RunsEnd, LocalInv
  <2>2. pc[r] = "done" /\ pc[q] = "done"
    BY <2>1, Ordered DEF Shape, Ran
  <2>3. StoredBy(r, req[q].body.user, req[q].body.key)
    BY <2>1, <2>2 DEF StoredBy, Twins, Fingerprint
  <2>. QED
    BY <2>1, <2>2, <2>3 DEF RanAfter
<1>2. IInv => KeysAreIdempotent
  BY <1>1 DEF IInv, CacheInv, KeysAreIdempotent
<1>. QED
  BY <1>2, InvariantHolds, PTL

\* No answer is ever read from another user's file.
THEOREM AnswersFromOwnFiles == Spec => []FileAnswersAreOwn
<1>1. IInv => FileAnswersAreOwn
  BY DEF IInv, FilesAreOwn, FileAnswersAreOwn
<1>. QED
  BY <1>1, InvariantHolds, PTL
==============================================================================
