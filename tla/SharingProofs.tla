---------------------------- MODULE SharingProofs ----------------------------
(***************************************************************************)
(* Accounts, sharing and promoted documents keep their promises for every  *)
(* number of requests, users, files and documents, whatever overlaps.      *)
(* Every operation reads in one step and writes in a later one, so IInv    *)
(* says, for each store, what the request that is about to write still     *)
(* knows of it: AccountInv, that a refresh is alone with its chain, that   *)
(* versions count the role changes written and that the trail of a user    *)
(* leads to the row about to be audited; SharingInv, that shares belong to *)
(* an approved request or to one whose approval is about to be saved;      *)
(* KnowledgeInv, that a saved document is named by its file's row, by the  *)
(* request at work on it, or has a rival.  What overlapping requests break *)
(* is asked only of things outside raced, the subjects that two requests   *)
(* were at together (Apart).                                               *)
(***************************************************************************)
EXTENDS SharingProperties, FiniteSetTheorems, WellFoundedInduction, TLAPS

-----------------------------------------------------------------------------
(* The invariant.                                                          *)

Ops == {"none", "signup", "signin", "refresh", "revoke", "roles", "submit", "approve",
        "reject", "share", "unshare", "view", "promote", "demote", "ask"}
Subjects == Users \cup Emails \cup Files \cup {Nobody}
Row == [id : Users \cup {Nobody}, role : Roles, version : Nat]
Local == [op : Ops, about : Subjects, token : [user : Users \cup {Nobody}, version : Nat],
          self : Row, row : Row, chain : Sessions \cup {Nobody},
          value : Roles \cup Users \cup {Nobody}, to : SUBSET People]
Work == [doc : Docs \cup {Nobody}, file : Files \cup {Nobody}, live : BOOLEAN,
         left : SUBSET Chunks, found : SUBSET (Chunks \cup Docs)]
Session == [user : Users, chain : Sessions, state : {"active", "revoked"}]
AskRecord == [file : Files \cup {Nobody}, role : Roles, fanout : SUBSET People,
              state : {"none", "pending", "approved", "rejected"}]
ShareRecord == [by : Requests, to : People, file : Files, ask : Requests \cup {Nobody},
                active : BOOLEAN]
Event == [by : Users, user : Users, before : Roles, after : Roles]

AccountTypes ==
    /\ orgs \subseteq Requests
    /\ users \in [Users -> Row]
    /\ byEmail \in [People \cup Emails -> Users \cup {Nobody}]
    /\ sessions \in [Sessions -> Session \cup {NoSession}]
    /\ tokens \subseteq [user : Users, version : Nat]
    /\ audits \in Seq(Event)
    /\ pc \in [Requests -> Labels]
    /\ req \in [Requests -> Local]
    /\ raced \subseteq Subjects
SharingTypes ==
    /\ scope \in [Files -> Scopes]
    /\ live \subseteq Files
    /\ asks \in [Requests -> AskRecord]
    /\ shares \subseteq ShareRecord
    /\ seen \subseteq Users \X Files
KnowledgeTypes ==
    /\ docs \subseteq Docs /\ chunks \subseteq Chunks
    /\ source \in [Docs -> Files \cup {Nobody}]
    /\ pointer \in [Files -> Docs \cup {Nobody}]
    /\ work \in [Requests -> Work]
    /\ cited \subseteq Users \X Docs

Types == AccountTypes /\ SharingTypes /\ KnowledgeTypes

\* Two requests in flight about the same thing leave it among the raced.
Apart ==
    \A p, q \in InFlight : p # q /\ req[p].about = req[q].about => req[p].about \in raced

-----------------------------------------------------------------------------
(* Accounts.                                                               *)

Known(u) == users[u].id = u
Exists(s) == sessions[s] # NoSession
ActiveOf(c) == {s \in Sessions : sessions[s].chain = c /\ sessions[s].state = "active"}

Authorized == {"target", "write_roles", "audit", "file", "submit", "decide", "reject",
               "save_shares", "approve", "grant", "revoke_share", "view", "promote",
               "save_document", "save_chunks", "source", "pop_document", "scan", "stale",
               "pop_chunks", "ask", "filter"}

\* What a request holds at each of its program points.
AccountShape(p) ==
    /\ pc[p] \in {"idle", "done", "refused"} => req[p] = Blank
    /\ pc[p] \in Authorized => req[p].self.id \in Users
    /\ pc[p] \in {"email", "insert"} => req[p].about \in Emails /\ req[p].op = "signup"
    /\ pc[p] \in {"rotate", "issue"} => req[p].row.id \in Users /\ Known(req[p].row.id)
    /\ pc[p] = "issue" => /\ req[p].op \in {"signup", "signin", "refresh"}
                          /\ req[p].op # "refresh" => req[p].chain = p
    /\ pc[p] \in {"owner", "rotate"} => /\ req[p].op = "refresh"
                                        /\ req[p].value \in Sessions /\ Exists(req[p].value)
    /\ pc[p] \in {"owner", "rotate", "issue"} /\ req[p].op = "refresh" =>
           req[p].about = req[p].chain /\ req[p].chain \in Sessions
    /\ pc[p] = "revoke" => /\ req[p].value \in Sessions /\ Exists(req[p].value)
                           /\ req[p].about = sessions[req[p].value].chain
    /\ pc[p] \in {"target", "write_roles", "audit"} =>
           /\ req[p].op = "roles" /\ req[p].about \in Users /\ req[p].value \in Roles
    /\ pc[p] \in {"write_roles", "audit"} =>
           req[p].about \in People /\ req[p].row.id = req[p].about

\* Rows, e-mail addresses and sign-ups name users that exist.
UsersAreKnown ==
    /\ \A u \in Users : users[u] = NoUser \/ Known(u)
    /\ \A u \in People : Known(u)
    /\ \A e \in DOMAIN byEmail : byEmail[e] # Nobody => Known(byEmail[e])
    /\ \A p \in Requests : Known(p) => pc[p] \in {"issue", "done"}

\* Sessions belong to users; sessions and sign-ins are named after requests.
SessionsAreNamed ==
    \A s \in Sessions : Exists(s) =>
        /\ Known(sessions[s].user)
        /\ s \in Requests => pc[s] = "done"
        /\ sessions[s].chain \in Requests => pc[sessions[s].chain] = "done"
Descending(p) == pc[p] \in {"owner", "rotate", "issue"} /\ req[p].op = "refresh"
\* A refresh goes on with a sign-in that is over.
RefreshesAreNamed ==
    \A p, c \in Requests : Descending(p) /\ req[p].chain = c => pc[c] = "done"

\* The one active session of a sign-in, and what a refresh has left of it.
OneActive ==
    \A c \in Sessions \ raced : \A s, t \in ActiveOf(c) : s = t
RefreshesAlone ==
    \A p \in Requests : req[p].about \notin raced =>
        /\ pc[p] \in {"owner", "rotate"} => ActiveOf(req[p].about) \subseteq {req[p].value}
        /\ pc[p] = "issue" /\ req[p].op = "refresh" => ActiveOf(req[p].about) = {}

\* A version counts one for each role change written.
Wrote == {p \in Requests : pc[p] \in {"audit", "done"}}
VersionsCount ==
    /\ \A u \in Users : users[u].version \in 1..Cardinality(Wrote) + 1
    /\ \A t \in tokens : t.version \in 1..Cardinality(Wrote) + 1
    /\ \A p \in Requests : req[p].row.version \in 1..Cardinality(Wrote) + 1

\* Where no two role changes met, a user's version only grows.
Behind(u, n) == u \in raced \/ n <= users[u].version
TokensAreBehind ==
    /\ \A t \in tokens : Behind(t.user, t.version)
    /\ \A p \in Requests : pc[p] \in {"rotate", "issue"} =>
           Behind(req[p].row.id, req[p].row.version)
\* A role is about to be changed in the row as it is now.
WritesAreFresh ==
    \A p \in Requests : pc[p] = "write_roles" /\ req[p].about \notin raced =>
        req[p].row = users[req[p].about]

\* A change that is written and not yet audited.
Auditing(p, u) == pc[p] = "audit" /\ req[p].about = u

\* Each event leaves with the role the next one finds; the last leads to the row,
\* or to the role before the change that is not audited yet.
TrailsLead ==
    \A u \in People \ raced :
        /\ \A i \in EventsOf(u) : LeavesWith(u, i, audits[i].before)
        /\ (\A p \in Requests : ~Auditing(p, u)) =>
              /\ LeavesWith(u, Len(audits) + 1, users[u].role)
              /\ users[u].version = Cardinality(EventsOf(u)) + 1
        /\ \A p \in Requests : Auditing(p, u) =>
              /\ LeavesWith(u, Len(audits) + 1, req[p].row.role)
              /\ users[u].role = req[p].value
              /\ users[u].version = Cardinality(EventsOf(u)) + 2

\* Administrators were so at first, or some role change made them so.
AdminsWereMade ==
    /\ \A u \in People : users[u].role = "admin" => MadeAdmin(u)
    /\ \A p \in Requests : pc[p] \in Authorized /\ req[p].self.id \in People
                             /\ req[p].self.role = "admin" => MadeAdmin(req[p].self.id)

-----------------------------------------------------------------------------
(* Shares.                                                                 *)

Granted(a) == {h \in shares : h.ask = a}
GrantedTo(a) == {h.to : h \in Granted(a)}

\* What a request about files holds at each of its program points.
SharingShape(p) ==
    /\ pc[p] \in {"file", "submit", "grant", "revoke_share", "view"} => req[p].about \in Files
    /\ pc[p] \in {"decide", "reject", "save_shares", "approve"} =>
           /\ req[p].about \in Requests /\ asks[req[p].about] # NoAsk
           /\ req[p].op \in {"approve", "reject"}
    /\ pc[p] = "approve" => req[p].to \subseteq GrantedTo(req[p].about)

\* A request for approval is named after the request that saved it.
AsksAreNamed ==
    \A a \in Requests : asks[a] # NoAsk => /\ pc[a] = "done" /\ asks[a].file \in Files
                                          /\ asks[a].state # "none"

PendingOn(f) == {a \in Requests : asks[a].file = f /\ asks[a].state = "pending"}
\* A file has one pending request.
OnePending == \A f \in Files \ raced : \A a, b \in PendingOn(f) : a = b
\* Nothing is pending where one is about to be saved; what is about to be decided is.
DecisionsAlone ==
    \A p \in Requests : req[p].about \notin raced =>
        /\ pc[p] = "submit" => PendingOn(req[p].about) = {}
        /\ pc[p] \in {"reject", "save_shares", "approve"} =>
               asks[req[p].about].state = "pending"

\* An approved request was granted to all it is for, and only such a request,
\* or one whose approval is about to be saved, was granted at all.
ApprovedAreGranted ==
    \A a \in Requests : asks[a].state = "approved" => asks[a].fanout \subseteq GrantedTo(a)
GrantsAreApproved ==
    \A a \in Requests \ raced : Granted(a) # {} =>
        \/ asks[a].state = "approved"
        \/ \E p \in Requests : pc[p] = "approve" /\ req[p].about = a

-----------------------------------------------------------------------------
(* Promoted documents.                                                     *)

Removals == {"pop_document", "scan", "stale", "pop_chunks"}
Working == {"save_document", "save_chunks", "filter"} \cup Removals

\* Owned by the user, or of a file that was shared with it.
Readable(u, d) ==
    /\ d \in Docs /\ source[d] \in Files
    /\ Owns(u, d) \/ \E h \in shares : h.to = u /\ h.file = source[d]

\* What a request about documents holds at each of its program points.
WorkShape(p) ==
    /\ pc[p] \notin Working => work[p] = NoWork
    /\ pc[p] = "promote" => req[p].about \in Files
    /\ pc[p] = "source" => req[p].about \in Docs
    /\ pc[p] \in {"save_document", "save_chunks"} =>
           work[p].doc = p /\ work[p].file \in Files /\ work[p].left \subseteq {p} \X Parts
    /\ pc[p] = "save_chunks" => source[p] = work[p].file
    /\ pc[p] \notin {"save_chunks", "done", "refused"} => source[p] = Nobody
    /\ pc[p] \in Removals => /\ work[p].doc \in Docs /\ work[p].file \in Files
                             /\ source[work[p].doc] = work[p].file /\ WasSaved(work[p].doc)
    /\ pc[p] = "pop_chunks" => \A c \in chunks : c[1] = work[p].doc => c \in work[p].left
    /\ pc[p] = "filter" => \A d \in work[p].found : Readable(req[p].self.id, d)

\* Answers cite what could be read.
CitedAreReadable == \A u \in Users, d \in Docs : <<u, d>> \in cited => Readable(u, d)

\* Documents and chunks have a file; a chunk without its document was saved.
DocsAreSourced ==
    /\ \A d \in docs : source[d] \in Files
    /\ \A c \in chunks : source[c[1]] \in Files /\ (c[1] \in docs \/ WasSaved(c[1]))
\* A row names a document that was saved and copied from its file.
PointersName ==
    \A f \in Files : pointer[f] # Nobody => WasSaved(pointer[f]) /\ source[pointer[f]] = f

\* A saved document of which chunks are left is named by its file's row.
SavedAreNamed ==
    \A d \in Docs : WasSaved(d) /\ source[d] \in Files =>
        \/ pointer[source[d]] = d
        \/ Rivalled(d)
        \/ \A c \in chunks : c[1] # d

AccountInv ==
    /\ \A p \in Requests : AccountShape(p)
    /\ UsersAreKnown /\ SessionsAreNamed /\ RefreshesAreNamed
    /\ OneActive /\ RefreshesAlone
    /\ VersionsCount /\ TokensAreBehind /\ WritesAreFresh /\ TrailsLead
    /\ AdminsWereMade
SharingInv ==
    /\ \A p \in Requests : SharingShape(p)
    /\ AsksAreNamed /\ OnePending /\ DecisionsAlone
    /\ ApprovedAreGranted /\ GrantsAreApproved
    /\ FilesWereGranted
KnowledgeInv ==
    /\ \A p \in Requests : WorkShape(p)
    /\ DocsAreSourced /\ PointersName /\ SavedAreNamed
    /\ CitedAreReadable

IInv == Types /\ Apart /\ AccountInv /\ SharingInv /\ KnowledgeInv

-----------------------------------------------------------------------------
(* How a step changes the request that takes it.                           *)

AccountLabels == {"email", "insert", "issue", "owner", "rotate", "revoke", "target",
                  "write_roles", "audit"}
SharingLabels == {"file", "submit", "decide", "reject", "save_shares", "approve", "grant",
                  "revoke_share", "view"}
KnowledgeLabels == {"promote", "save_document", "save_chunks", "source", "pop_document",
                    "scan", "stale", "pop_chunks", "ask", "filter"}

\* A request that has not begun, or has ended, holds nothing.
LEMMA BlankIsLocal ==
    /\ Blank \in Local /\ NoUser \in Row
    /\ Blank.op = "none" /\ Blank.about = Nobody /\ Blank.self = NoUser /\ Blank.row = NoUser
    /\ Blank.value = Nobody /\ Blank.to = {} /\ Blank.chain = Nobody
BY DEF Blank, Local, Ops, Subjects, NoToken, NoUser, Row, Roles

\* Goto moves one request.
LEMMA Goes ==
    ASSUME AccountTypes, NEW p \in Requests, NEW l \in Labels, Goto(p, l)
    PROVE  /\ pc' \in [Requests -> Labels] /\ pc'[p] = l
           /\ \A q \in Requests \ {p} : pc'[q] = pc[q]
BY DEF AccountTypes, Goto

\* Setting what one request holds leaves the others what they hold.
LEMMA Puts ==
    ASSUME AccountTypes, NEW p \in Requests, NEW local \in Local,
           req' = [req EXCEPT ![p] = local]
    PROVE  /\ req' \in [Requests -> Local] /\ req'[p] = local
           /\ \A q \in Requests \ {p} : req'[q] = req[q]
BY DEF AccountTypes

\* A request that ends holds nothing any more.
LEMMA Ends ==
    ASSUME AccountTypes, NEW p \in Requests, NEW l \in Labels, End(p, l)
    PROVE  /\ pc' \in [Requests -> Labels] /\ pc'[p] = l
           /\ req' \in [Requests -> Local] /\ req'[p] = Blank
           /\ \A q \in Requests \ {p} : pc'[q] = pc[q] /\ req'[q] = req[q]
BY Goes, Puts, BlankIsLocal DEF End

\* A request that has only an operation and a subject.
LEMMA Plain ==
    ASSUME NEW op \in Ops, NEW a \in Subjects
    PROVE  LET new == [Blank EXCEPT !.op = op, !.about = a] IN
           /\ new \in Local /\ new.op = op /\ new.about = a /\ new.self = NoUser
           /\ new.row = NoUser
<1> DEFINE new == [Blank EXCEPT !.op = op, !.about = a]
<1>1. /\ new.op = op /\ new.about = a /\ new.self = NoUser
      /\ new.row = NoUser
  BY DEF Blank
<1>2. new \in Local
  BY BlankIsLocal DEF Local
<1>. QED
  BY <1>1, <1>2

\* The request got in, with the row its token was checked against.
Admitted(p, t, allowed, local, l) ==
    /\ pc'[p] = l
    /\ req'[p].about = local.about /\ req'[p].op = local.op
    /\ req'[p].value = local.value /\ req'[p].to = local.to
    /\ req'[p].row = local.row /\ req'[p].chain = local.chain
    /\ \A q \in InFlight : req[q].about = local.about => local.about \in raced'
    /\ t.user \in Users /\ Known(t.user) /\ users[t.user].role \in allowed
    /\ req'[p].self = users[t.user]

\* require_permission lets the request in with the row its token was checked
\* against, or refuses it.
LEMMA Authorizing ==
    ASSUME AccountTypes, UsersAreKnown, NEW p \in Requests, NEW t \in tokens, NEW allowed,
           NEW local \in Local, NEW l \in Labels, Authorize(p, t, allowed, local, l)
    PROVE  /\ pc' \in [Requests -> Labels] /\ req' \in [Requests -> Local]
           /\ \A q \in Requests \ {p} : pc'[q] = pc[q] /\ req'[q] = req[q]
           /\ pc[p] = "idle" /\ raced \subseteq raced' /\ raced' \subseteq Subjects
           /\ \/ pc'[p] = "refused" /\ req'[p] = Blank
              \/ Admitted(p, t, allowed, local, l)
<1>1. pc[p] = "idle"
  BY DEF Authorize, Arrives
<1>2. CASE Valid(t) /\ users[t.user].role \in allowed
  <2> DEFINE new == [local EXCEPT !.token = t, !.self = users[t.user]]
  <2>1. /\ new \in Local /\ new.self = users[t.user]
        /\ new.about = local.about /\ new.op = local.op /\ new.value = local.value
        /\ new.to = local.to /\ new.row = local.row /\ new.chain = local.chain
    <3>1. t.user \in Users /\ t.version \in Nat /\ users[t.user] \in Row
      BY DEF AccountTypes
    <3>2. t \in [user : Users \cup {Nobody}, version : Nat]
      BY DEF AccountTypes
    <3>. QED
      BY <3>1, <3>2 DEF Local
  <2>2. req' = [req EXCEPT ![p] = new] /\ Goto(p, l) /\ Meets(local.about)
    BY <1>2 DEF Authorize
  <2> HIDE DEF new
  <2>3. /\ raced \subseteq raced' /\ raced' \subseteq Subjects
        /\ \A q \in InFlight : req[q].about = local.about => local.about \in raced'
    BY <2>2 DEF Meets, AccountTypes, Local
  <2>4. t.user \in Users /\ Known(t.user)
    BY <1>2 DEF Valid, UsersAreKnown, AccountTypes
  <2>5. req' \in [Requests -> Local] /\ req'[p] = new /\ \A q \in Requests \ {p} : req'[q] = req[q]
    BY <2>1, <2>2, Puts
  <2>6. pc' \in [Requests -> Labels] /\ pc'[p] = l /\ \A q \in Requests \ {p} : pc'[q] = pc[q]
    BY <2>2, Goes
  <2>. QED
    BY <1>1, <1>2, <2>1, <2>3, <2>4, <2>5, <2>6 DEF Admitted
<1>3. CASE ~(Valid(t) /\ users[t.user].role \in allowed)
  <2>1. End(p, "refused") /\ raced' = raced
    BY <1>3 DEF Authorize, Refuse
  <2>2. "refused" \in Labels
    BY DEF Labels
  <2>. QED
    BY <1>1, <2>1, <2>2, Ends DEF AccountTypes
<1>. QED
  BY <1>2, <1>3

\* What a step of request p does to the requests.
Frame(p, labels) ==
    /\ pc' \in [Requests -> Labels] /\ req' \in [Requests -> Local]
    /\ \A q \in Requests \ {p} : pc'[q] = pc[q] /\ req'[q] = req[q]
    /\ pc[p] \in labels \cup {"idle"} /\ pc'[p] \in labels \cup {"done", "refused"}
    /\ raced \subseteq raced' /\ raced' \subseteq Subjects
    /\ pc'[p] \notin labels => req'[p] = Blank
    /\ pc'[p] \in labels /\ pc[p] = "idle" =>
           \A q \in InFlight : req[q].about = req'[p].about => req'[p].about \in raced'
    /\ pc'[p] \in labels /\ pc[p] \in labels =>
           /\ req'[p].about = req[p].about /\ req'[p].op = req[p].op
           /\ req'[p].self = req[p].self /\ req'[p].value = req[p].value
    /\ pc'[p] \in Authorized /\ pc[p] = "idle" =>
           \E u \in Users : Known(u) /\ req'[p].self = users[u]

\* A request that begins while another is at the same thing races it
\* (Meets).
LEMMA FrameKeepsApart ==
    ASSUME Apart, NEW p \in Requests, NEW labels, Frame(p, labels),
           pc \in [Requests -> Labels], labels \cap {"idle", "done", "refused"} = {}
    PROVE  Apart'
<1> SUFFICES ASSUME NEW q \in InFlight', NEW r \in InFlight', q # r, req'[q].about = req'[r].about
             PROVE  req'[q].about \in raced'
  BY DEF Apart
<1>1. q \in Requests /\ r \in Requests
  BY DEF InFlight
<1>2. CASE q # p /\ r # p
  BY <1>1, <1>2 DEF Frame, Apart, InFlight
<1>3. CASE q = p
  <2>1. r \in InFlight /\ req'[r] = req[r]
    BY <1>1, <1>3 DEF Frame, InFlight
  <2>2. pc'[p] \in labels
    BY <1>3 DEF Frame, InFlight
  <2>. QED
    BY <1>3, <2>1, <2>2 DEF Frame, Apart, InFlight
<1>4. CASE r = p
  <2>1. q \in InFlight /\ req'[q] = req[q]
    BY <1>1, <1>4 DEF Frame, InFlight
  <2>2. pc'[p] \in labels
    BY <1>4 DEF Frame, InFlight
  <2>. QED
    BY <1>4, <2>1, <2>2 DEF Frame, Apart, InFlight
<1>. QED
  BY <1>2, <1>3, <1>4

-----------------------------------------------------------------------------
(* The requests of Accounts.                                               *)

\* A request that needs no token begins.
LEMMA Begins ==
    ASSUME AccountTypes, NEW p \in Requests, NEW local \in Local, NEW l \in Labels,
           Begin(p, local.about), Goto(p, l), req' = [req EXCEPT ![p] = local],
           l \in AccountLabels \ Authorized
    PROVE  Frame(p, AccountLabels) /\ req'[p] = local /\ pc'[p] = l /\ pc[p] = "idle"
<1>1. pc' \in [Requests -> Labels] /\ pc'[p] = l /\ \A q \in Requests \ {p} : pc'[q] = pc[q]
  BY Goes
<1>2. req' \in [Requests -> Local] /\ req'[p] = local /\ \A q \in Requests \ {p} : req'[q] = req[q]
  BY Puts
<1>3. pc[p] = "idle" /\ "idle" \notin AccountLabels
  BY DEF Begin, Arrives, AccountLabels
<1>4. /\ raced \subseteq raced' /\ raced' \subseteq Subjects
      /\ \A q \in InFlight : req[q].about = local.about => local.about \in raced'
  BY DEF Begin, Meets, AccountTypes, Local
<1>. QED
  BY <1>1, <1>2, <1>3, <1>4 DEF Frame

\* A request that ends leaves the labels it was among.
LEMMA Leaves ==
    ASSUME AccountTypes, NEW p \in Requests, NEW l \in {"done", "refused"}, End(p, l),
           NEW labels, labels \cap {"idle", "done", "refused"} = {}, pc[p] \in labels, raced' = raced
    PROVE  Frame(p, labels) /\ pc'[p] = l /\ req'[p] = Blank
<1>1. l \in Labels /\ l \notin Authorized
  BY DEF Labels, Authorized
<1>. QED
  BY <1>1, Ends DEF Frame, AccountTypes

\* A request that goes on keeps what it is about.
LEMMA Proceeds ==
    ASSUME AccountTypes, NEW p \in Requests, NEW l \in Labels, Goto(p, l), NEW local \in Local,
           req' = [req EXCEPT ![p] = local],
           local.about = req[p].about, local.op = req[p].op, local.self = req[p].self,
           local.value = req[p].value,
           NEW labels, labels \cap {"idle", "done", "refused"} = {}, pc[p] \in labels, l \in labels,
           raced' = raced
    PROVE  Frame(p, labels) /\ pc'[p] = l /\ req'[p] = local
<1>1. pc' \in [Requests -> Labels] /\ pc'[p] = l /\ \A q \in Requests \ {p} : pc'[q] = pc[q]
  BY Goes
<1>2. req' \in [Requests -> Local] /\ req'[p] = local /\ \A q \in Requests \ {p} : req'[q] = req[q]
  BY Puts
<1>. QED
  BY <1>1, <1>2 DEF Frame, AccountTypes

\* A request that goes on with all it holds.
LEMMA Stays ==
    ASSUME AccountTypes, NEW p \in Requests, NEW l \in Labels, Goto(p, l), req' = req,
           NEW labels, labels \cap {"idle", "done", "refused"} = {}, pc[p] \in labels, l \in labels,
           raced' = raced
    PROVE  Frame(p, labels) /\ pc'[p] = l /\ req'[p] = req[p]
BY Goes DEF Frame, AccountTypes

\* The labels of a component are labels, and none is where a request is at
\* rest.
LEMMA AccountLabelsAre ==
    /\ AccountLabels \subseteq Labels /\ AccountLabels \cap {"idle", "done", "refused"} = {}
    /\ SharingLabels \subseteq Labels /\ SharingLabels \cap {"idle", "done", "refused"} = {}
    /\ KnowledgeLabels \subseteq Labels /\ KnowledgeLabels \cap {"idle", "done", "refused"} = {}
BY DEF AccountLabels, SharingLabels, KnowledgeLabels, Labels

\* SignUp saves an organization of its own.
LEMMA SignUpFrame ==
    ASSUME Types, NEW p \in Requests, NEW e \in Emails, SignUp(p, e)
    PROVE  /\ AccountTypes' /\ Frame(p, AccountLabels) /\ pc[p] = "idle" /\ pc'[p] = "email"
           /\ req'[p].about = e /\ req'[p].row = NoUser /\ req'[p].op = "signup"
<1> DEFINE local == [Blank EXCEPT !.op = "signup", !.about = e]
<1>1. local \in Local /\ local.about = e /\ local.row = NoUser /\ local.op = "signup"
  <2>1. "signup" \in Ops /\ e \in Subjects
    BY DEF Ops, Subjects
  <2>. QED
    BY <2>1, Plain
<1>2. Begin(p, local.about) /\ Goto(p, "email") /\ req' = [req EXCEPT ![p] = local]
  BY <1>1 DEF SignUp
<1>. HIDE DEF local
<1>3. Frame(p, AccountLabels) /\ req'[p] = local /\ pc'[p] = "email" /\ pc[p] = "idle"
  BY <1>1, <1>2, Begins DEF Types, Labels, AccountLabels, Authorized, SharingLabels, KnowledgeLabels
<1>. QED
  BY <1>1, <1>3 DEF SignUp, Types, AccountTypes, Frame

\* CheckEmail refuses an address that is known.
LEMMA CheckEmailFrame ==
    ASSUME Types, NEW p \in Requests, CheckEmail(p)
    PROVE  /\ AccountTypes' /\ Frame(p, AccountLabels) /\ pc[p] = "email"
           /\ (pc'[p] = "insert" /\ req'[p] = req[p]) \/ pc'[p] = "refused"
<1>1. pc[p] \in AccountLabels /\ pc[p] = "email" /\ raced' = raced
  BY DEF CheckEmail, AccountLabels
<1>2. CASE End(p, "refused")
  BY <1>1, <1>2, Leaves, AccountLabelsAre DEF CheckEmail, accountStores, Types, AccountTypes, Frame
<1>3. CASE Goto(p, "insert") /\ req' = req
  <2>1. "insert" \in Labels /\ "insert" \in AccountLabels /\ req[p] \in Local
    BY DEF Labels, AccountLabels, Types, AccountTypes
  <2>2. Frame(p, AccountLabels) /\ pc'[p] = "insert" /\ req'[p] = req[p]
    BY <1>1, <1>3, <2>1, Stays, AccountLabelsAre DEF Types
  <2>. QED
    BY <1>1, <2>2 DEF CheckEmail, accountStores, Types, AccountTypes, Frame
<1>. QED
  BY <1>2, <1>3 DEF CheckEmail

\* InsertUser adds a user and its e-mail address.
LEMMA InsertUserFrame ==
    ASSUME Types, NEW p \in Requests, AccountShape(p), InsertUser(p)
    PROVE  /\ AccountTypes' /\ Frame(p, AccountLabels) /\ pc[p] = "insert" /\ pc'[p] = "issue"
           /\ req'[p].op = req[p].op /\ req'[p].chain = p
           /\ req'[p].row = [id |-> p, role |-> "business_user", version |-> 1]
           /\ users'[p] = req'[p].row /\ \A u \in Users \ {p} : users'[u] = users[u]
           /\ byEmail'[req[p].about] = p
           /\ \A e \in DOMAIN byEmail \ {req[p].about} : byEmail'[e] = byEmail[e]
<1> DEFINE new == [id |-> p, role |-> "business_user", version |-> 1]
           local == [req[p] EXCEPT !.row = new, !.chain = p]
<1>1. new \in Row /\ p \in Users
  BY DEF Row, Roles, Users
<1>2. /\ local \in Local /\ local.row = new /\ local.chain = p /\ local.about = req[p].about
      /\ local.op = req[p].op /\ local.self = req[p].self /\ local.value = req[p].value
  <2>1. req[p] \in Local /\ p \in Sessions
    BY DEF Types, AccountTypes, Sessions
  <2>. HIDE DEF new
  <2>. QED
    BY <1>1, <2>1 DEF Local
<1>3. /\ pc[p] = "insert" /\ Goto(p, "issue") /\ req' = [req EXCEPT ![p] = local]
      /\ users' = [users EXCEPT ![p] = new] /\ byEmail' = [byEmail EXCEPT ![req[p].about] = p]
      /\ raced' = raced /\ UNCHANGED <<orgs, sessions, tokens, audits>>
  BY DEF InsertUser
<1>. HIDE DEF new, local
<1>4. Frame(p, AccountLabels) /\ pc'[p] = "issue" /\ req'[p] = local
  <2>1. "insert" \in AccountLabels /\ "issue" \in AccountLabels /\ "issue" \in Labels
    BY DEF AccountLabels, Labels
  <2>2. /\ Goto(p, "issue") /\ req' = [req EXCEPT ![p] = local] /\ raced' = raced
        /\ pc[p] \in AccountLabels
    BY <1>3, <2>1
  <2>3. AccountTypes
    BY DEF Types
  <2>. QED
    BY <1>2, <2>1, <2>2, <2>3, Proceeds, AccountLabelsAre
<1>5. /\ users' \in [Users -> Row] /\ users'[p] = new /\ \A u \in Users \ {p} : users'[u] = users[u]
  BY <1>1, <1>3 DEF Types, AccountTypes
<1>6. /\ byEmail' \in [People \cup Emails -> Users \cup {Nobody}] /\ byEmail'[req[p].about] = p
      /\ \A e \in DOMAIN byEmail \ {req[p].about} : byEmail'[e] = byEmail[e]
  BY <1>1, <1>3 DEF Types, AccountTypes, AccountShape
<1>7. AccountTypes'
  BY <1>3, <1>4, <1>5, <1>6 DEF Types, AccountTypes, Frame
<1>. QED
  BY <1>2, <1>3, <1>4, <1>5, <1>6, <1>7 DEF new

\* SignIn reads the row of a user by its e-mail address.
LEMMA SignInFrame ==
    ASSUME Types, UsersAreKnown, NEW p \in Requests, NEW e \in DOMAIN byEmail, SignIn(p, e)
    PROVE  /\ AccountTypes' /\ Frame(p, AccountLabels) /\ pc[p] = "idle" /\ pc'[p] = "issue"
           /\ req'[p].op = "signin" /\ req'[p].about = e /\ req'[p].chain = p
           /\ byEmail[e] \in Users /\ Known(byEmail[e]) /\ req'[p].row = users[byEmail[e]]
<1> DEFINE local == [Blank EXCEPT !.op = "signin", !.about = e,
                                  !.row = users[byEmail[e]], !.chain = p]
<1>1. byEmail[e] \in Users /\ Known(byEmail[e]) /\ users[byEmail[e]] \in Row
  BY DEF SignIn, Types, AccountTypes, UsersAreKnown
<1>2. e \in Subjects /\ p \in Sessions /\ "signin" \in Ops
  BY DEF Subjects, Users, Sessions, Ops, Types, AccountTypes
<1>3. /\ local \in Local /\ local.op = "signin" /\ local.about = e
      /\ local.row = users[byEmail[e]] /\ local.chain = p
  <2>1. PICK row \in Row : row = users[byEmail[e]]
    BY <1>1
  <2>2. local = [Blank EXCEPT !.op = "signin", !.about = e, !.row = row, !.chain = p]
    BY <2>1
  <2>. HIDE DEF local
  <2>3. /\ local.op = "signin" /\ local.about = e /\ local.row = row /\ local.chain = p
    BY <2>2 DEF Blank
  <2>4. local \in Local
    BY <1>2, <2>1, <2>2, BlankIsLocal DEF Local
  <2>. QED
    BY <2>1, <2>3, <2>4
<1>4. Begin(p, local.about) /\ Goto(p, "issue") /\ req' = [req EXCEPT ![p] = local]
  BY <1>3 DEF SignIn
<1>. HIDE DEF local
<1>5. "issue" \in AccountLabels \ Authorized /\ "issue" \in Labels
  BY DEF Labels, AccountLabels, Authorized
<1>6. Frame(p, AccountLabels) /\ req'[p] = local /\ pc'[p] = "issue" /\ pc[p] = "idle"
  <2>1. AccountTypes
    BY DEF Types
  <2>2. local \in Local
    BY <1>3
  <2>. QED
    BY <1>4, <1>5, <2>1, <2>2, Begins
<1>. QED
  BY <1>1, <1>3, <1>6 DEF SignIn, accountStores, Types, AccountTypes, Frame

\* Issue adds a session and a token for the row that was read.
LEMMA IssueFrame ==
    ASSUME Types, NEW p \in Requests, AccountShape(p), Issue(p)
    PROVE  /\ AccountTypes' /\ Frame(p, AccountLabels) /\ pc[p] = "issue" /\ pc'[p] = "done"
           /\ sessions'[p] = [user |-> req[p].row.id, chain |-> req[p].chain, state |-> "active"]
           /\ \A s \in Sessions \ {p} : sessions'[s] = sessions[s]
           /\ tokens' = tokens \cup {[user |-> req[p].row.id, version |-> req[p].row.version]}
           /\ req[p].chain \in Sessions
<1>1. pc[p] = "issue" /\ pc[p] \in AccountLabels /\ raced' = raced /\ End(p, "done")
  BY DEF Issue, AccountLabels
<1>2. Frame(p, AccountLabels) /\ pc'[p] = "done"
  BY <1>1, Leaves, AccountLabelsAre DEF Types
<1>3. req[p].chain \in Sessions /\ req[p].row.id \in Users /\ req[p].row.version \in Nat
  BY <1>1 DEF AccountShape, Types, AccountTypes, Local, Row, Sessions
<1>4. p \in Sessions
  BY DEF Sessions
<1> DEFINE new == [user |-> req[p].row.id, chain |-> req[p].chain, state |-> "active"]
           token == [user |-> req[p].row.id, version |-> req[p].row.version]
<1>5. sessions' = [sessions EXCEPT ![p] = new] /\ new \in Session
  BY <1>3 DEF Issue, Session
<1>6. tokens' = tokens \cup {token} /\ token \in [user : Users, version : Nat]
  BY <1>3 DEF Issue, TokenVersion
<1>. HIDE DEF new, token
<1>7. /\ sessions' \in [Sessions -> Session \cup {NoSession}] /\ sessions'[p] = new
      /\ \A s \in Sessions \ {p} : sessions'[s] = sessions[s]
  BY <1>4, <1>5 DEF Types, AccountTypes
<1>8. AccountTypes'
  BY <1>2, <1>6, <1>7 DEF Issue, Types, AccountTypes, Frame
<1>. QED
  BY <1>1, <1>2, <1>3, <1>6, <1>7, <1>8 DEF new, token

\* Refresh refuses a session that is not active.
LEMMA RefreshFrame ==
    ASSUME Types, NEW p \in Requests, NEW s \in Sessions, Refresh(p, s)
    PROVE  /\ AccountTypes' /\ Frame(p, AccountLabels) /\ pc[p] = "idle"
           /\ \/ pc'[p] = "refused"
              \/ /\ pc'[p] = "owner" /\ Exists(s) /\ sessions[s].state = "active"
                 /\ req'[p].op = "refresh" /\ req'[p].value = s /\ req'[p].row = NoUser
                 /\ req'[p].about = sessions[s].chain /\ req'[p].chain = sessions[s].chain
                 /\ sessions[s].chain \in Sessions
<1>1. pc[p] = "idle"
  BY DEF Refresh, Arrives
<1>2. CASE sessions[s].state # "active"
  <2>1. End(p, "refused") /\ raced' = raced /\ "refused" \in Labels
    BY <1>2 DEF Refresh, Refuse, Labels
  <2>2. /\ pc' \in [Requests -> Labels] /\ pc'[p] = "refused"
        /\ req' \in [Requests -> Local] /\ req'[p] = Blank
        /\ \A q \in Requests \ {p} : pc'[q] = pc[q] /\ req'[q] = req[q]
    BY <2>1, Ends DEF Types
  <2>3. Frame(p, AccountLabels)
    BY <1>1, <2>1, <2>2 DEF Frame, Types, AccountTypes, AccountLabels, Authorized
  <2>. QED
    BY <1>1, <2>2, <2>3 DEF Refresh, accountStores, Types, AccountTypes, Frame
<1>3. CASE sessions[s].state = "active"
  <2> DEFINE local == [Blank EXCEPT !.op = "refresh", !.about = sessions[s].chain,
                                    !.value = s, !.chain = sessions[s].chain]
  <2>1. Exists(s) /\ sessions[s] \in Session
    BY DEF Refresh, Exists, Types, AccountTypes
  <2>2. /\ sessions[s].chain \in Sessions /\ sessions[s].chain \in Subjects
        /\ s \in Users /\ "refresh" \in Ops
    BY <2>1 DEF Session, Sessions, Users, Subjects, Ops
  <2>3. /\ local \in Local /\ local.op = "refresh" /\ local.about = sessions[s].chain
        /\ local.value = s /\ local.row = NoUser /\ local.chain = sessions[s].chain
    <3>1. PICK c \in Sessions : c = sessions[s].chain
      BY <2>2
    <3>2. local = [Blank EXCEPT !.op = "refresh", !.about = c, !.value = s, !.chain = c]
      BY <3>1
    <3>. HIDE DEF local
    <3>3. /\ local.op = "refresh" /\ local.about = c /\ local.value = s
          /\ local.row = NoUser /\ local.chain = c
      BY <3>2 DEF Blank
    <3>4. local \in Local
      BY <2>2, <3>1, <3>2, BlankIsLocal DEF Local
    <3>. QED
      BY <3>1, <3>3, <3>4
  <2>4. Begin(p, local.about) /\ Goto(p, "owner") /\ req' = [req EXCEPT ![p] = local]
    BY <1>3, <2>3 DEF Refresh, Begin
  <2>. HIDE DEF local
  <2>5. "owner" \in AccountLabels \ Authorized /\ "owner" \in Labels
    BY DEF Labels, AccountLabels, Authorized
  <2>6. Frame(p, AccountLabels) /\ req'[p] = local /\ pc'[p] = "owner"
    <3>1. AccountTypes
      BY DEF Types
    <3>2. local \in Local
      BY <2>3
    <3>. QED
      BY <2>4, <2>5, <3>1, <3>2, Begins
  <2>. QED
    BY <1>1, <1>3, <2>1, <2>2, <2>3, <2>6
       DEF Refresh, accountStores, Types, AccountTypes, Frame
<1>. QED
  BY <1>2, <1>3

\* Owner reads the row of the session's user.
LEMMA OwnerFrame ==
    ASSUME Types, SessionsAreNamed, NEW p \in Requests, AccountShape(p), Owner(p)
    PROVE  /\ AccountTypes' /\ Frame(p, AccountLabels) /\ pc[p] = "owner" /\ pc'[p] = "rotate"
           /\ \E u \in Users : Known(u) /\ req'[p].row = users[u]
           /\ req'[p].chain = req[p].chain
<1> DEFINE u == sessions[req[p].value].user
           local == [req[p] EXCEPT !.row = users[u]]
<1>1. u \in Users /\ Known(u) /\ users[u] \in Row
  <2>1. req[p].value \in Sessions /\ Exists(req[p].value)
    BY DEF Owner, AccountShape
  <2>2. sessions[req[p].value] \in Session
    BY <2>1 DEF Exists, Types, AccountTypes
  <2>. QED
    BY <2>1, <2>2 DEF Session, SessionsAreNamed, Types, AccountTypes
<1>. HIDE DEF u
<1>2. /\ local \in Local /\ local.row = users[u] /\ local.about = req[p].about
      /\ local.op = req[p].op /\ local.self = req[p].self /\ local.value = req[p].value
      /\ local.chain = req[p].chain
  <2>1. req[p] \in Local
    BY DEF Types, AccountTypes
  <2>. QED
    BY <1>1, <2>1 DEF Local
<1>3. /\ Goto(p, "rotate") /\ req' = [req EXCEPT ![p] = local] /\ raced' = raced
      /\ pc[p] \in AccountLabels /\ pc[p] = "owner"
  BY DEF Owner, AccountLabels, u
<1>4. AccountTypes /\ "rotate" \in AccountLabels /\ "rotate" \in Labels
  BY DEF Types, AccountLabels, Labels
<1>. HIDE DEF local
<1>5. Frame(p, AccountLabels) /\ pc'[p] = "rotate" /\ req'[p] = local
  <2>1. /\ local \in Local /\ local.about = req[p].about /\ local.op = req[p].op
        /\ local.self = req[p].self /\ local.value = req[p].value
    BY <1>2
  <2>. QED
    BY <1>3, <1>4, <2>1, Proceeds, AccountLabelsAre
<1>. QED
  BY <1>1, <1>2, <1>3, <1>5 DEF Owner, accountStores, Types, AccountTypes, Frame

\* Revoking a session changes its state alone.
LEMMA RevokedSession ==
    ASSUME AccountTypes, NEW s \in Sessions, Exists(s), sessions' = Revoked(s)
    PROVE  /\ sessions' \in [Sessions -> Session \cup {NoSession}]
           /\ sessions'[s].user = sessions[s].user /\ sessions'[s].chain = sessions[s].chain
           /\ sessions'[s].state = "revoked" /\ sessions'[s] \in Session
           /\ \A x \in Sessions \ {s} : sessions'[x] = sessions[x]
<1> DEFINE new == [sessions[s] EXCEPT !.state = "revoked"]
<1>1. sessions[s] \in Session
  BY DEF AccountTypes, Exists
<1>2. /\ new \in Session /\ new.user = sessions[s].user /\ new.chain = sessions[s].chain
      /\ new.state = "revoked"
  BY <1>1 DEF Session
<1>3. sessions' = [sessions EXCEPT ![s] = new]
  BY DEF Revoked
<1>. HIDE DEF new
<1>. QED
  BY <1>2, <1>3 DEF AccountTypes

\* Rotate revokes the session that was read.
LEMMA RotateFrame ==
    ASSUME Types, NEW p \in Requests, AccountShape(p), Rotate(p)
    PROVE  /\ AccountTypes' /\ Frame(p, AccountLabels) /\ pc[p] = "rotate" /\ pc'[p] = "issue"
           /\ req'[p] = req[p] /\ sessions' = Revoked(req[p].value)
           /\ req[p].value \in Sessions /\ Exists(req[p].value)
<1>1. /\ Goto(p, "issue") /\ req' = req /\ raced' = raced /\ pc[p] \in AccountLabels
      /\ pc[p] = "rotate" /\ sessions' = Revoked(req[p].value)
  BY DEF Rotate, AccountLabels
<1>2. AccountTypes /\ "issue" \in AccountLabels /\ "issue" \in Labels
  BY DEF Types, AccountLabels, Labels
<1>3. Frame(p, AccountLabels) /\ pc'[p] = "issue" /\ req'[p] = req[p]
  BY <1>1, <1>2, Stays, AccountLabelsAre
<1>4. req[p].value \in Sessions /\ Exists(req[p].value)
  BY <1>1 DEF AccountShape
<1>5. sessions' \in [Sessions -> Session \cup {NoSession}]
  BY <1>1, <1>2, <1>4, RevokedSession
<1>. QED
  BY <1>1, <1>2, <1>3, <1>4, <1>5 DEF Rotate, AccountTypes, Frame

\* Revoke needs a session that exists.
LEMMA RevokeFrame ==
    ASSUME Types, NEW p \in Requests, NEW s \in Sessions, Revoke(p, s)
    PROVE  /\ AccountTypes' /\ Frame(p, AccountLabels) /\ pc[p] = "idle" /\ pc'[p] = "revoke"
           /\ Exists(s) /\ req'[p].value = s /\ req'[p].about = sessions[s].chain
           /\ req'[p].row = NoUser
<1> DEFINE local == [Blank EXCEPT !.op = "revoke", !.about = sessions[s].chain, !.value = s]
<1>1. Exists(s) /\ sessions[s].chain \in Subjects /\ s \in Users /\ "revoke" \in Ops
  BY DEF Revoke, Exists, Types, AccountTypes, Session, Sessions, Users, Subjects, Ops
<1>2. /\ local \in Local /\ local.about = sessions[s].chain /\ local.value = s
      /\ local.row = NoUser
  <2>1. PICK c \in Subjects : c = sessions[s].chain
    BY <1>1
  <2>2. local = [Blank EXCEPT !.op = "revoke", !.about = c, !.value = s]
    BY <2>1
  <2>. HIDE DEF local
  <2>3. local.about = c /\ local.value = s /\ local.row = NoUser
    BY <2>2 DEF Blank
  <2>4. local \in Local
    BY <1>1, <2>1, <2>2, BlankIsLocal DEF Local
  <2>. QED
    BY <2>1, <2>3, <2>4
<1>3. Begin(p, local.about) /\ Goto(p, "revoke") /\ req' = [req EXCEPT ![p] = local]
  BY <1>2 DEF Revoke
<1>. HIDE DEF local
<1>4. "revoke" \in AccountLabels \ Authorized /\ "revoke" \in Labels
  BY DEF Labels, AccountLabels, Authorized
<1>5. Frame(p, AccountLabels) /\ req'[p] = local /\ pc'[p] = "revoke" /\ pc[p] = "idle"
  <2>1. AccountTypes /\ local \in Local
    BY <1>2 DEF Types
  <2>. QED
    BY <1>3, <1>4, <2>1, Begins
<1>. QED
  BY <1>1, <1>2, <1>5 DEF Revoke, accountStores, Types, AccountTypes, Frame

\* RevokeSession revokes the session that was read.
LEMMA RevokeSessionFrame ==
    ASSUME Types, NEW p \in Requests, AccountShape(p), RevokeSession(p)
    PROVE  /\ AccountTypes' /\ Frame(p, AccountLabels) /\ pc[p] = "revoke" /\ pc'[p] = "done"
           /\ sessions' = Revoked(req[p].value)
           /\ req[p].value \in Sessions /\ Exists(req[p].value)
<1>1. /\ End(p, "done") /\ raced' = raced /\ pc[p] \in AccountLabels
      /\ pc[p] = "revoke" /\ sessions' = Revoked(req[p].value)
  BY DEF RevokeSession, AccountLabels
<1>2. AccountTypes
  BY DEF Types
<1>3. Frame(p, AccountLabels) /\ pc'[p] = "done"
  BY <1>1, <1>2, Leaves, AccountLabelsAre
<1>4. req[p].value \in Sessions /\ Exists(req[p].value)
  BY <1>1 DEF AccountShape
<1>5. sessions' \in [Sessions -> Session \cup {NoSession}]
  BY <1>1, <1>2, <1>4, RevokedSession
<1>. QED
  BY <1>1, <1>2, <1>3, <1>4, <1>5 DEF RevokeSession, AccountTypes, Frame

\* What a request that was let in holds, whatever its labels.
LEMMA Admits ==
    ASSUME AccountTypes, UsersAreKnown, NEW p \in Requests, NEW t \in tokens, NEW allowed,
           NEW local \in Local, NEW l, Authorize(p, t, allowed, local, l),
           NEW labels \in SUBSET Labels, l \in labels,
           labels \cap {"idle", "done", "refused"} = {}
    PROVE  /\ Frame(p, labels) /\ pc[p] = "idle"
           /\ \/ pc'[p] = "refused" /\ req'[p] = Blank
              \/ /\ pc'[p] = l /\ req'[p].about = local.about /\ req'[p].op = local.op
                 /\ req'[p].value = local.value /\ req'[p].to = local.to
                 /\ req'[p].row = local.row
                 /\ \E u \in Users : /\ Known(u) /\ users[u].role \in allowed
                                     /\ req'[p].self = users[u]
<1>1. l \in Labels
  OBVIOUS
<1>. QED
  <2>1. /\ pc' \in [Requests -> Labels] /\ req' \in [Requests -> Local]
        /\ \A q \in Requests \ {p} : pc'[q] = pc[q] /\ req'[q] = req[q]
        /\ pc[p] = "idle" /\ raced \subseteq raced' /\ raced' \subseteq Subjects
    BY <1>1, Authorizing
  <2>2. CASE pc'[p] = "refused" /\ req'[p] = Blank
    <3>1. "refused" \notin Authorized
      BY DEF Authorized
    <3>. QED
      BY <2>1, <2>2, <3>1 DEF Frame
  <2>3. CASE Admitted(p, t, allowed, local, l)
    BY <2>1, <2>3 DEF Frame, Admitted
  <2>4. (pc'[p] = "refused" /\ req'[p] = Blank) \/ Admitted(p, t, allowed, local, l)
    BY <1>1, Authorizing
  <2>. QED
    BY <2>2, <2>3, <2>4

\* SetRoles checks the caller's token.
LEMMA SetRolesFrame ==
    ASSUME Types, UsersAreKnown, NewRoles \subseteq Roles, NEW p \in Requests, NEW t \in tokens,
           NEW target \in Users, NEW role \in NewRoles, SetRoles(p, t, target, role)
    PROVE  /\ AccountTypes' /\ Frame(p, AccountLabels) /\ pc[p] = "idle"
           /\ \/ pc'[p] = "refused"
              \/ /\ pc'[p] = "target" /\ req'[p].op = "roles" /\ req'[p].about = target
                 /\ req'[p].value = role /\ req'[p].row = NoUser
<1> DEFINE local == [Blank EXCEPT !.op = "roles", !.about = target, !.value = role]
<1>1. /\ local \in Local /\ local.op = "roles" /\ local.about = target
      /\ local.value = role /\ local.row = NoUser
  <2>1. "roles" \in Ops /\ target \in Subjects /\ role \in Roles
    BY DEF Ops, Subjects
  <2>. QED
    BY <2>1, BlankIsLocal DEF Blank, Local
<1>2. Authorize(p, t, {"admin"}, local, "target")
  BY DEF SetRoles
<1>. HIDE DEF local
<1>3. AccountTypes /\ "target" \in AccountLabels
  BY DEF Types, AccountLabels
<1>4. /\ Frame(p, AccountLabels) /\ pc[p] = "idle"
      /\ \/ pc'[p] = "refused"
         \/ /\ pc'[p] = "target" /\ req'[p].op = "roles" /\ req'[p].about = target
            /\ req'[p].value = role /\ req'[p].row = NoUser
  BY <1>1, <1>2, <1>3, Admits, AccountLabelsAre
<1>. QED
  BY <1>4 DEF SetRoles, accountStores, Types, AccountTypes, Frame

\* Target reads the row of the user whose role is to change.
LEMMA TargetFrame ==
    ASSUME Types, UsersAreKnown, NEW p \in Requests, AccountShape(p), Target(p)
    PROVE  /\ AccountTypes' /\ Frame(p, AccountLabels) /\ pc[p] = "target"
           /\ \/ pc'[p] = "refused"
              \/ /\ pc'[p] = "write_roles" /\ req'[p].row = users[req[p].about]
                 /\ req[p].about \in People
<1>1. pc[p] = "target" /\ pc[p] \in AccountLabels /\ raced' = raced /\ AccountTypes
  BY DEF Target, AccountLabels, Types
<1>2. req[p].about \in Users /\ users[req[p].about] \in Row
  BY <1>1 DEF AccountShape, AccountTypes
<1>3. CASE users[req[p].about].id \in People
  <2>1. req[p].about \in People
    BY <1>2, <1>3, AccountsAssumption DEF UsersAreKnown, Known, NoUser, Users
  <2> DEFINE local == [req[p] EXCEPT !.row = users[req[p].about]]
  <2>2. PICK row \in Row : row = users[req[p].about]
    BY <1>2
  <2>3. local = [req[p] EXCEPT !.row = row]
    BY <2>2
  <2>4. Goto(p, "write_roles") /\ req' = [req EXCEPT ![p] = local]
    BY <1>3 DEF Target
  <2>. HIDE DEF local
  <2>5. /\ local \in Local /\ local.row = row /\ local.about = req[p].about
        /\ local.op = req[p].op /\ local.self = req[p].self /\ local.value = req[p].value
    <3>1. req[p] \in Local
      BY <1>1 DEF AccountTypes
    <3>. QED
      BY <2>3, <3>1 DEF Local
  <2>6. "write_roles" \in AccountLabels /\ "write_roles" \in Labels
    BY DEF AccountLabels, Labels
  <2>7. Frame(p, AccountLabels) /\ pc'[p] = "write_roles" /\ req'[p] = local
    BY <1>1, <2>4, <2>5, <2>6, Proceeds, AccountLabelsAre
  <2>. QED
    BY <1>1, <2>1, <2>2, <2>5, <2>7 DEF Target, accountStores, AccountTypes, Frame
<1>4. CASE users[req[p].about].id \notin People
  BY <1>1, <1>4, Leaves, AccountLabelsAre DEF Target, accountStores, AccountTypes, Frame
<1>. QED
  BY <1>3, <1>4

\* WriteRoles puts back the row that was read, with its new role and
\* version.
LEMMA WriteRolesFrame ==
    ASSUME Types, NEW p \in Requests, AccountShape(p), WriteRoles(p)
    PROVE  /\ AccountTypes' /\ Frame(p, AccountLabels)
           /\ pc[p] = "write_roles" /\ pc'[p] = "audit"
           /\ req'[p] = req[p] /\ req[p].about \in People
           /\ users'[req[p].about].id = req[p].about
           /\ users'[req[p].about].role = req[p].value
           /\ users'[req[p].about].version = req[p].row.version + 1
           /\ \A u \in Users \ {req[p].about} : users'[u] = users[u]
<1>1. /\ Goto(p, "audit") /\ req' = req /\ raced' = raced /\ pc[p] \in AccountLabels
      /\ pc[p] = "write_roles"
  BY DEF WriteRoles, AccountLabels
<1>2. AccountTypes /\ "audit" \in AccountLabels /\ "audit" \in Labels
  BY DEF Types, AccountLabels, Labels
<1>3. Frame(p, AccountLabels) /\ pc'[p] = "audit" /\ req'[p] = req[p]
  BY <1>1, <1>2, Stays, AccountLabelsAre
<1>4. /\ req[p].about \in People /\ req[p].row \in Row /\ req[p].value \in Roles
      /\ req[p].row.id = req[p].about
  BY <1>1, <1>2 DEF AccountShape, AccountTypes, Local
<1> DEFINE new == [req[p].row EXCEPT !.role = req[p].value, !.version = NewVersion(p)]
<1>5. /\ new \in Row /\ new.id = req[p].about /\ new.role = req[p].value
      /\ new.version = req[p].row.version + 1
  <2>1. PICK row \in Row, value \in Roles : row = req[p].row /\ value = req[p].value
    BY <1>4
  <2>2. new = [row EXCEPT !.role = value, !.version = row.version + 1]
    BY <2>1 DEF NewVersion
  <2>3. row.version + 1 \in Nat
    BY DEF Row
  <2>. HIDE DEF new
  <2>4. /\ new \in Row /\ new.id = row.id /\ new.role = value
        /\ new.version = row.version + 1
    BY <2>2, <2>3 DEF Row
  <2>. QED
    BY <1>4, <2>1, <2>4
<1>6. users' = [users EXCEPT ![req[p].about] = new]
  BY DEF WriteRoles
<1>. HIDE DEF new
<1>7. /\ users' \in [Users -> Row] /\ users'[req[p].about] = new
      /\ \A u \in Users \ {req[p].about} : users'[u] = users[u]
  BY <1>2, <1>4, <1>5, <1>6 DEF AccountTypes, Users
<1>8. AccountTypes'
  BY <1>2, <1>3, <1>7 DEF WriteRoles, AccountTypes, Frame
<1>. QED
  BY <1>1, <1>3, <1>4, <1>5, <1>7, <1>8

\* Audit adds the event of the change.
LEMMA AuditFrame ==
    ASSUME Types, NEW p \in Requests, AccountShape(p), Audit(p)
    PROVE  /\ AccountTypes' /\ Frame(p, AccountLabels) /\ pc[p] = "audit" /\ pc'[p] = "done"
           /\ Len(audits') = Len(audits) + 1
           /\ \A i \in 1..Len(audits) : audits'[i] = audits[i]
           /\ audits'[Len(audits) + 1].user = req[p].about
           /\ audits'[Len(audits) + 1].before = req[p].row.role
           /\ audits'[Len(audits) + 1].after = req[p].value
<1>1. /\ End(p, "done") /\ raced' = raced /\ pc[p] \in AccountLabels /\ pc[p] = "audit"
  BY DEF Audit, AccountLabels
<1>2. AccountTypes
  BY DEF Types
<1>3. Frame(p, AccountLabels) /\ pc'[p] = "done"
  BY <1>1, <1>2, Leaves, AccountLabelsAre
<1> DEFINE e == [by |-> req[p].self.id, user |-> req[p].about,
                 before |-> req[p].row.role, after |-> req[p].value]
<1>4. e \in Event
  <2>1. /\ req[p].self.id \in Users /\ req[p].about \in Users /\ req[p].value \in Roles
        /\ req[p].row.role \in Roles
    BY <1>1, <1>2 DEF AccountShape, AccountTypes, Local, Row, Authorized
  <2>. QED
    BY <2>1 DEF Event
<1>5. /\ audits' = Append(audits, e) /\ e.user = req[p].about /\ e.before = req[p].row.role
      /\ e.after = req[p].value
  BY DEF Audit
<1>. HIDE DEF e
<1>6. /\ audits' \in Seq(Event) /\ Len(audits') = Len(audits) + 1
      /\ \A i \in 1..Len(audits) : audits'[i] = audits[i]
      /\ audits'[Len(audits) + 1] = e
  BY <1>2, <1>4, <1>5 DEF AccountTypes
<1>7. AccountTypes'
  BY <1>2, <1>3, <1>6 DEF Audit, AccountTypes, Frame
<1>. QED
  BY <1>1, <1>3, <1>5, <1>6, <1>7

-----------------------------------------------------------------------------
(* The requests of FileSharing.                                            *)

\* A step of a request that is not about accounts.
Foreign(p, labels) ==
    /\ Frame(p, labels) /\ AccountTypes'
    /\ UNCHANGED accountStores
    /\ req'[p].row \in {req[p].row, NoUser}

\* A step that changes no store of the accounts keeps their types.
LEMMA ForeignTypes ==
    ASSUME AccountTypes, NEW p \in Requests, NEW labels, Frame(p, labels), UNCHANGED accountStores
    PROVE  AccountTypes'
BY DEF AccountTypes, Frame, accountStores

\* A request that is not about accounts ends.
LEMMA ForeignLeaves ==
    ASSUME AccountTypes, NEW p \in Requests, NEW l \in {"done", "refused"}, End(p, l),
           NEW labels, labels \cap {"idle", "done", "refused"} = {}, pc[p] \in labels,
           UNCHANGED <<accountStores, raced>>
    PROVE  Foreign(p, labels) /\ pc'[p] = l /\ req'[p] = Blank
<1>1. Frame(p, labels) /\ pc'[p] = l /\ req'[p] = Blank
  BY Leaves
<1>. QED
  BY <1>1, ForeignTypes, BlankIsLocal DEF Foreign

\* A request that is not about accounts goes on.
LEMMA ForeignStays ==
    ASSUME AccountTypes, NEW p \in Requests, NEW l \in Labels, Goto(p, l), req' = req,
           NEW labels, labels \cap {"idle", "done", "refused"} = {}, pc[p] \in labels,
           l \in labels, UNCHANGED <<accountStores, raced>>
    PROVE  Foreign(p, labels) /\ pc'[p] = l /\ req'[p] = req[p]
<1>1. Frame(p, labels) /\ pc'[p] = l /\ req'[p] = req[p]
  BY Stays
<1>. QED
  BY <1>1, ForeignTypes DEF Foreign

\* A request that is not about accounts is let in, or refused.
LEMMA ForeignArrives ==
    ASSUME AccountTypes, UsersAreKnown, NEW p \in Requests, NEW t \in tokens, NEW allowed,
           NEW local \in Local, NEW l, Authorize(p, t, allowed, local, l),
           NEW labels \in SUBSET Labels, l \in labels,
           labels \cap {"idle", "done", "refused"} = {},
           UNCHANGED accountStores, local.row = NoUser
    PROVE  /\ Foreign(p, labels) /\ pc[p] = "idle"
           /\ \/ pc'[p] = "refused" /\ req'[p] = Blank
              \/ /\ pc'[p] = l /\ req'[p].about = local.about /\ req'[p].op = local.op
                 /\ req'[p].value = local.value /\ req'[p].to = local.to
                 /\ \E u \in Users : /\ Known(u) /\ users[u].role \in allowed
                                     /\ req'[p].self = users[u]
<1>1. /\ Frame(p, labels) /\ pc[p] = "idle"
      /\ \/ pc'[p] = "refused" /\ req'[p] = Blank
         \/ /\ pc'[p] = l /\ req'[p].about = local.about /\ req'[p].op = local.op
            /\ req'[p].value = local.value /\ req'[p].to = local.to
            /\ req'[p].row = local.row
            /\ \E u \in Users : /\ Known(u) /\ users[u].role \in allowed
                                /\ req'[p].self = users[u]
  BY Admits
<1>2. AccountTypes'
  BY <1>1, ForeignTypes
<1>3. req'[p].row = NoUser
  BY <1>1, BlankIsLocal
<1>4. Foreign(p, labels)
  BY <1>1, <1>2, <1>3 DEF Foreign
<1>. QED
  BY <1>1, <1>4

\* Submit checks the caller's token.
LEMMA SubmitFrame ==
    ASSUME Types, UsersAreKnown, NEW p \in Requests, NEW t \in tokens, NEW f \in Files,
           Submit(p, t, f)
    PROVE  /\ Foreign(p, SharingLabels) /\ pc[p] = "idle"
           /\ pc'[p] = "refused" \/ (pc'[p] = "file" /\ req'[p].about = f)
<1> DEFINE local == [Blank EXCEPT !.op = "submit", !.about = f]
<1>1. local \in Local /\ local.about = f /\ local.row = NoUser
  BY Plain DEF Ops, Subjects
<1>2. Authorize(p, t, Roles, local, "file") /\ UNCHANGED accountStores
  BY DEF Submit
<1>3. AccountTypes /\ "file" \in SharingLabels
  BY DEF Types, SharingLabels
<1>. HIDE DEF local
<1>. QED
  BY <1>1, <1>2, <1>3, ForeignArrives, AccountLabelsAre

\* View checks the caller's token.
LEMMA ViewFrame ==
    ASSUME Types, UsersAreKnown, NEW p \in Requests, NEW t \in tokens, NEW f \in Files,
           View(p, t, f)
    PROVE  /\ Foreign(p, SharingLabels) /\ pc[p] = "idle"
           /\ pc'[p] = "refused" \/ (pc'[p] = "view" /\ req'[p].about = f)
<1> DEFINE local == [Blank EXCEPT !.op = "view", !.about = f]
<1>1. local \in Local /\ local.about = f /\ local.row = NoUser
  BY Plain DEF Ops, Subjects
<1>2. Authorize(p, t, Roles, local, "view") /\ UNCHANGED accountStores
  BY DEF View
<1>3. AccountTypes /\ "view" \in SharingLabels
  BY DEF Types, SharingLabels
<1>. HIDE DEF local
<1>. QED
  BY <1>1, <1>2, <1>3, ForeignArrives, AccountLabelsAre

\* Decide checks the caller's token.
LEMMA DecideFrame ==
    ASSUME Types, UsersAreKnown, NEW p \in Requests, NEW t \in tokens, NEW a \in Requests,
           NEW op \in {"approve", "reject"}, Decide(p, t, a, op)
    PROVE  /\ Foreign(p, SharingLabels) /\ pc[p] = "idle"
           /\ \/ pc'[p] = "refused"
              \/ pc'[p] = "decide" /\ req'[p].about = a /\ req'[p].op = op /\ asks[a] # NoAsk
<1> DEFINE local == [Blank EXCEPT !.op = op, !.about = a]
<1>1. local \in Local /\ local.about = a /\ local.op = op /\ local.row = NoUser
  <2>1. op \in Ops /\ a \in Subjects
    BY DEF Ops, Subjects, Users
  <2>. QED
    BY <2>1, Plain
<1>2. Authorize(p, t, {"admin"}, local, "decide") /\ UNCHANGED accountStores /\ asks[a] # NoAsk
  BY DEF Decide
<1>3. AccountTypes /\ "decide" \in SharingLabels
  BY DEF Types, SharingLabels
<1>. HIDE DEF local
<1>. QED
  BY <1>1, <1>2, <1>3, ForeignArrives, AccountLabelsAre

\* Share checks the caller's token.
LEMMA ShareFrame ==
    ASSUME Types, UsersAreKnown, NEW p \in Requests, NEW t \in tokens, NEW f \in Files,
           NEW u \in People, Share(p, t, f, u)
    PROVE  /\ Foreign(p, SharingLabels) /\ pc[p] = "idle"
           /\ pc'[p] = "refused" \/ (pc'[p] = "grant" /\ req'[p].about = f)
<1> DEFINE local == [Blank EXCEPT !.op = "share", !.about = f, !.to = {u}]
<1>1. local \in Local /\ local.about = f /\ local.row = NoUser
  <2>1. PICK to \in SUBSET People : to = {u}
    OBVIOUS
  <2>2. local = [Blank EXCEPT !.op = "share", !.about = f, !.to = to]
    BY <2>1
  <2>. HIDE DEF local
  <2>3. local.about = f /\ local.row = NoUser
    BY <2>2 DEF Blank
  <2>4. local \in Local
    BY <2>2, BlankIsLocal DEF Local, Subjects, Ops
  <2>. QED
    BY <2>3, <2>4
<1>2. Authorize(p, t, {"admin", "analyst"}, local, "grant") /\ UNCHANGED accountStores
  BY DEF Share
<1>3. AccountTypes /\ "grant" \in SharingLabels
  BY DEF Types, SharingLabels
<1>. HIDE DEF local
<1>. QED
  BY <1>1, <1>2, <1>3, ForeignArrives, AccountLabelsAre

\* Unshare checks the caller's token.
LEMMA UnshareFrame ==
    ASSUME Types, UsersAreKnown, NEW p \in Requests, NEW t \in tokens, NEW h \in shares,
           Unshare(p, t, h)
    PROVE  /\ Foreign(p, SharingLabels) /\ pc[p] = "idle"
           /\ pc'[p] = "refused" \/ (pc'[p] = "revoke_share" /\ req'[p].about \in Files)
<1> DEFINE local == [Blank EXCEPT !.op = "unshare", !.about = h.file, !.value = h.by, !.to = {h.to}]
<1>1. local \in Local /\ local.about \in Files /\ local.row = NoUser
  <2>1. PICK f \in Files, b \in Requests, u \in People : f = h.file /\ b = h.by /\ u = h.to
    BY DEF Types, SharingTypes, ShareRecord
  <2>2. local = [Blank EXCEPT !.op = "unshare", !.about = f, !.value = b, !.to = {u}]
    BY <2>1
  <2>. HIDE DEF local
  <2>3. local.about = f /\ local.row = NoUser
    BY <2>2 DEF Blank
  <2>4. /\ f \in Subjects /\ b \in Roles \cup Users \cup {Nobody} /\ {u} \in SUBSET People
        /\ "unshare" \in Ops
    BY DEF Subjects, Users, Ops
  <2>5. local \in Local
    BY <2>2, <2>4, BlankIsLocal DEF Local
  <2>. QED
    BY <2>3, <2>5
<1>2. Authorize(p, t, {"admin", "analyst"}, local, "revoke_share") /\ UNCHANGED accountStores
  BY DEF Unshare
<1>3. AccountTypes /\ "revoke_share" \in SharingLabels
  BY DEF Types, SharingLabels
<1>. HIDE DEF local
<1>. QED
  BY <1>1, <1>2, <1>3, ForeignArrives, AccountLabelsAre

\* CheckSubmit reads the file, its owner and the requests about it.
LEMMA CheckSubmitFrame ==
    ASSUME Types, NEW p \in Requests, CheckSubmit(p)
    PROVE  /\ Foreign(p, SharingLabels) /\ pc[p] = "file" /\ UNCHANGED sharingStores
           /\ pc'[p] = "refused" \/ (pc'[p] = "submit" /\ ~Pending(req[p].about))
<1>1. /\ pc[p] = "file" /\ pc[p] \in SharingLabels /\ AccountTypes
      /\ UNCHANGED <<accountStores, raced>> /\ UNCHANGED sharingStores
  BY DEF CheckSubmit, SharingLabels, Types
<1>2. CASE End(p, "refused")
  BY <1>1, <1>2, ForeignLeaves, AccountLabelsAre
<1>3. CASE Goto(p, "submit") /\ req' = req /\ ~Pending(req[p].about)
  <2>1. "submit" \in SharingLabels /\ "submit" \in Labels
    BY DEF SharingLabels, Labels
  <2>. QED
    BY <1>1, <1>3, <2>1, ForeignStays, AccountLabelsAre
<1>. QED
  BY <1>2, <1>3 DEF CheckSubmit

\* Saving one request for approval leaves the others as they are.
LEMMA AsksUpdated ==
    ASSUME SharingTypes, NEW a \in Requests, NEW ask \in AskRecord, asks' = [asks EXCEPT ![a] = ask],
           UNCHANGED <<scope, live, shares, seen>>
    PROVE  SharingTypes' /\ asks'[a] = ask /\ \A b \in Requests \ {a} : asks'[b] = asks[b]
BY DEF SharingTypes

\* SaveAsk saves the request as pending.
LEMMA SaveAskFrame ==
    ASSUME Types, NEW p \in Requests, SharingShape(p), SaveAsk(p)
    PROVE  /\ Foreign(p, SharingLabels) /\ SharingTypes' /\ pc[p] = "submit" /\ pc'[p] = "done"
           /\ asks'[p].file = req[p].about /\ asks'[p].state = "pending" /\ req[p].about \in Files
           /\ \A a \in Requests \ {p} : asks'[a] = asks[a]
           /\ UNCHANGED <<scope, live, shares, seen>>
<1>1. /\ pc[p] = "submit" /\ pc[p] \in SharingLabels /\ AccountTypes /\ End(p, "done")
      /\ UNCHANGED <<accountStores, raced>> /\ UNCHANGED <<scope, live, shares, seen>>
  BY DEF SaveAsk, SharingLabels, Types
<1>2. Foreign(p, SharingLabels) /\ pc'[p] = "done"
  BY <1>1, ForeignLeaves, AccountLabelsAre
<1>3. req[p].about \in Files /\ req[p].self.role \in Roles
  BY <1>1 DEF SharingShape, AccountTypes, Local, Row
<1> DEFINE ask == [file |-> req[p].about, role |-> req[p].self.role,
                   state |-> "pending", fanout |-> {}]
<1>4. ask \in AskRecord /\ ask.file = req[p].about /\ ask.state = "pending"
  BY <1>3 DEF AskRecord
<1>5. asks' = [asks EXCEPT ![p] = ask]
  BY DEF SaveAsk
<1>. HIDE DEF ask
<1>6. SharingTypes' /\ asks'[p] = ask /\ \A b \in Requests \ {p} : asks'[b] = asks[b]
  <2>1. SharingTypes
    BY DEF Types
  <2>. QED
    BY <1>1, <1>4, <1>5, <2>1, AsksUpdated
<1>. QED
  BY <1>1, <1>2, <1>3, <1>4, <1>6

\* CheckDecision reads the request and, to approve it, whom it is for.
LEMMA CheckDecisionFrame ==
    ASSUME Types, NEW p \in Requests, SharingShape(p), CheckDecision(p)
    PROVE  /\ Foreign(p, SharingLabels) /\ pc[p] = "decide" /\ UNCHANGED sharingStores
           /\ \/ pc'[p] = "refused"
              \/ pc'[p] \in {"reject", "save_shares"} /\ asks[req[p].about].state = "pending"
<1>1. /\ pc[p] = "decide" /\ pc[p] \in SharingLabels /\ AccountTypes
      /\ UNCHANGED <<accountStores, raced>> /\ UNCHANGED sharingStores
  BY DEF CheckDecision, SharingLabels, Types
<1>2. CASE End(p, "refused")
  BY <1>1, <1>2, ForeignLeaves, AccountLabelsAre
<1>3. CASE Goto(p, "reject") /\ req' = req /\ Undecided(req[p].about)
  <2>1. "reject" \in SharingLabels /\ "reject" \in Labels
    BY DEF SharingLabels, Labels
  <2>. QED
    BY <1>1, <1>3, <2>1, ForeignStays, AccountLabelsAre DEF Undecided
<1>4. CASE /\ req' = [req EXCEPT ![p].to = Fanout(req[p].about)] /\ Goto(p, "save_shares")
           /\ Undecided(req[p].about)
  <2>1. PICK to \in SUBSET People : to = Fanout(req[p].about)
    BY DEF Fanout
  <2>2. PICK local \in Local : local = [req[p] EXCEPT !.to = to]
    <3>1. req[p] \in Local
      BY <1>1 DEF AccountTypes
    <3>. QED
      BY <3>1 DEF Local
  <2>3. /\ local.about = req[p].about /\ local.op = req[p].op
        /\ local.self = req[p].self /\ local.value = req[p].value /\ local.row = req[p].row
    BY <2>2, <1>1 DEF AccountTypes, Local
  <2>4. "save_shares" \in SharingLabels /\ "save_shares" \in Labels
    BY DEF SharingLabels, Labels
  <2>5. /\ Goto(p, "save_shares") /\ raced' = raced /\ AccountTypes /\ pc[p] \in SharingLabels
        /\ req' = [req EXCEPT ![p] = local]
    BY <1>1, <1>4, <2>1, <2>2
  <2>6. Frame(p, SharingLabels) /\ pc'[p] = "save_shares" /\ req'[p] = local
    <3>1. /\ pc' \in [Requests -> Labels] /\ pc'[p] = "save_shares"
          /\ \A q \in Requests \ {p} : pc'[q] = pc[q]
      BY <2>4, <2>5, Goes
    <3>2. /\ req' \in [Requests -> Local] /\ req'[p] = local
          /\ \A q \in Requests \ {p} : req'[q] = req[q]
      BY <2>5, Puts
    <3>. QED
      BY <2>3, <2>4, <2>5, <3>1, <3>2, AccountLabelsAre DEF Frame, AccountTypes
  <2>7. Foreign(p, SharingLabels)
    BY <1>1, <2>3, <2>6, ForeignTypes DEF Foreign
  <2>. QED
    BY <1>1, <1>4, <2>7, <2>6 DEF Undecided
<1>. QED
  BY <1>2, <1>3, <1>4 DEF CheckDecision

\* The request under decision was saved.
LEMMA DecidedAsk ==
    ASSUME Types, NEW p \in Requests, SharingShape(p), pc[p] \in {"reject", "save_shares", "approve"}
    PROVE  /\ req[p].about \in Requests /\ asks[req[p].about] # NoAsk
           /\ asks[req[p].about] \in AskRecord
BY DEF SharingShape, Types, SharingTypes

\* Reject saves the request as rejected.
LEMMA RejectFrame ==
    ASSUME Types, NEW p \in Requests, SharingShape(p), Reject(p)
    PROVE  /\ Foreign(p, SharingLabels) /\ SharingTypes' /\ pc[p] = "reject" /\ pc'[p] = "done"
           /\ asks'[req[p].about].state = "rejected" /\ req[p].about \in Requests
           /\ asks'[req[p].about].file = asks[req[p].about].file
           /\ \A a \in Requests \ {req[p].about} : asks'[a] = asks[a]
           /\ UNCHANGED <<scope, live, shares, seen>>
<1>1. /\ pc[p] = "reject" /\ pc[p] \in SharingLabels /\ AccountTypes /\ End(p, "done")
      /\ UNCHANGED <<accountStores, raced>> /\ UNCHANGED <<scope, live, shares, seen>>
  BY DEF Reject, SharingLabels, Types
<1>2. Foreign(p, SharingLabels) /\ pc'[p] = "done"
  BY <1>1, ForeignLeaves, AccountLabelsAre
<1>3. req[p].about \in Requests /\ asks[req[p].about] \in AskRecord
  BY <1>1, DecidedAsk
<1>4. PICK a \in Requests, old \in AskRecord : a = req[p].about /\ old = asks[a]
  BY <1>3
<1> DEFINE ask == [old EXCEPT !.state = "rejected"]
<1>5. ask \in AskRecord /\ ask.file = old.file /\ ask.state = "rejected"
  BY DEF AskRecord
<1>6. asks' = [asks EXCEPT ![a] = ask]
  BY <1>4 DEF Reject
<1>. HIDE DEF ask
<1>7. SharingTypes' /\ asks'[a] = ask /\ \A b \in Requests \ {a} : asks'[b] = asks[b]
  <2>1. SharingTypes
    BY DEF Types
  <2>. QED
    BY <1>1, <1>5, <1>6, <2>1, AsksUpdated
<1>. QED
  BY <1>1, <1>2, <1>4, <1>5, <1>7

\* Approve saves the request as approved.
LEMMA ApproveFrame ==
    ASSUME Types, NEW p \in Requests, SharingShape(p), Approve(p)
    PROVE  /\ Foreign(p, SharingLabels) /\ SharingTypes' /\ pc[p] = "approve" /\ pc'[p] = "done"
           /\ asks'[req[p].about].state = "approved" /\ req[p].about \in Requests
           /\ asks'[req[p].about].file = asks[req[p].about].file
           /\ asks'[req[p].about].fanout = req[p].to
           /\ \A a \in Requests \ {req[p].about} : asks'[a] = asks[a]
           /\ UNCHANGED <<scope, live, shares, seen>>
<1>1. /\ pc[p] = "approve" /\ pc[p] \in SharingLabels /\ AccountTypes /\ End(p, "done")
      /\ UNCHANGED <<accountStores, raced>> /\ UNCHANGED <<scope, live, shares, seen>>
  BY DEF Approve, SharingLabels, Types
<1>2. Foreign(p, SharingLabels) /\ pc'[p] = "done"
  BY <1>1, ForeignLeaves, AccountLabelsAre
<1>3. /\ req[p].about \in Requests /\ asks[req[p].about] \in AskRecord
      /\ req[p].to \in SUBSET People
  BY <1>1, DecidedAsk DEF AccountTypes, Local
<1>4. PICK a \in Requests, old \in AskRecord, to \in SUBSET People :
        a = req[p].about /\ old = asks[a] /\ to = req[p].to
  BY <1>3
<1> DEFINE ask == [old EXCEPT !.state = "approved", !.fanout = to]
<1>5. ask \in AskRecord /\ ask.file = old.file /\ ask.state = "approved" /\ ask.fanout = to
  BY DEF AskRecord
<1>6. asks' = [asks EXCEPT ![a] = ask]
  BY <1>4 DEF Approve
<1>. HIDE DEF ask
<1>7. SharingTypes' /\ asks'[a] = ask /\ \A b \in Requests \ {a} : asks'[b] = asks[b]
  <2>1. SharingTypes
    BY DEF Types
  <2>. QED
    BY <1>1, <1>5, <1>6, <2>1, AsksUpdated
<1>. QED
  BY <1>1, <1>2, <1>4, <1>5, <1>7

\* Nobody's share is taken away, only deactivated.
SharesStay ==
    \A h \in shares : \E k \in shares' : k.to = h.to /\ k.file = h.file /\ k.ask = h.ask

\* SaveShares adds the shares of the request.
LEMMA SaveSharesFrame ==
    ASSUME Types, AsksAreNamed, NEW p \in Requests, SharingShape(p), SaveShares(p)
    PROVE  /\ Foreign(p, SharingLabels) /\ SharingTypes'
           /\ pc[p] = "save_shares" /\ pc'[p] = "approve" /\ req'[p] = req[p]
           /\ req[p].about \in Requests
           /\ \A u \in req[p].to : \E h \in shares' : h.to = u /\ h.ask = req[p].about
           /\ \A h \in shares' : h \in shares \/ h.ask = req[p].about
           /\ shares \subseteq shares'
           /\ UNCHANGED <<scope, live, asks, seen>>
<1>1. /\ pc[p] = "save_shares" /\ pc[p] \in SharingLabels /\ AccountTypes
      /\ Goto(p, "approve") /\ req' = req
      /\ UNCHANGED <<accountStores, raced>> /\ UNCHANGED <<scope, live, asks, seen>>
  BY DEF SaveShares, SharingLabels, Types
<1>2. Foreign(p, SharingLabels) /\ pc'[p] = "approve" /\ req'[p] = req[p]
  <2>1. "approve" \in SharingLabels /\ "approve" \in Labels
    BY DEF SharingLabels, Labels
  <2>. QED
    BY <1>1, <2>1, ForeignStays, AccountLabelsAre
<1>3. /\ req[p].about \in Requests /\ asks[req[p].about].file \in Files
      /\ req[p].to \in SUBSET People
  BY <1>1, DecidedAsk DEF AsksAreNamed, AccountTypes, Local
<1>4. PICK a \in Requests, f \in Files, to \in SUBSET People :
        a = req[p].about /\ f = asks[a].file /\ to = req[p].to
  BY <1>3
<1> DEFINE Rec(u) == [by |-> p, to |-> u, file |-> f, ask |-> a, active |-> TRUE]
<1>5. shares' = shares \cup {Rec(u) : u \in to}
  BY <1>4 DEF SaveShares
<1>6. \A u \in to : Rec(u) \in ShareRecord /\ Rec(u).to = u /\ Rec(u).ask = a
  BY DEF ShareRecord
<1>. HIDE DEF Rec
<1>7. SharingTypes'
  BY <1>1, <1>5, <1>6 DEF Types, SharingTypes
<1>. QED
  BY <1>1, <1>2, <1>4, <1>5, <1>6, <1>7

\* Grant adds a share that no request asked for.
LEMMA GrantFrame ==
    ASSUME Types, NEW p \in Requests, SharingShape(p), Grant(p)
    PROVE  /\ Foreign(p, SharingLabels) /\ SharingTypes'
           /\ pc[p] = "grant" /\ pc'[p] \in {"done", "refused"}
           /\ \A h \in shares' : h \in shares \/ h.ask = Nobody
           /\ shares \subseteq shares'
           /\ UNCHANGED <<scope, live, asks, seen>>
<1>1. /\ pc[p] = "grant" /\ pc[p] \in SharingLabels /\ AccountTypes
      /\ End(p, "done") \/ End(p, "refused")
      /\ UNCHANGED <<accountStores, raced>> /\ UNCHANGED <<scope, live, asks, seen>>
  BY DEF Grant, SharingLabels, Types
<1>2. Foreign(p, SharingLabels) /\ pc'[p] \in {"done", "refused"}
  BY <1>1, ForeignLeaves, AccountLabelsAre
<1>3. req[p].about \in Files /\ req[p].to \in SUBSET People
  BY <1>1 DEF SharingShape, AccountTypes, Local
<1>4. PICK f \in Files, to \in SUBSET People : f = req[p].about /\ to = req[p].to
  BY <1>3
<1> DEFINE Rec(u) == [by |-> p, to |-> u, file |-> f, ask |-> Nobody, active |-> TRUE]
<1>5. shares' = shares \/ shares' = shares \cup {Rec(u) : u \in to}
  BY <1>4 DEF Grant
<1>6. \A u \in to : Rec(u) \in ShareRecord /\ Rec(u).ask = Nobody
  BY DEF ShareRecord
<1>. HIDE DEF Rec
<1>7. SharingTypes' /\ \A h \in shares' : h \in shares \/ h.ask = Nobody
  BY <1>1, <1>5, <1>6 DEF Types, SharingTypes
<1>. QED
  BY <1>1, <1>2, <1>5, <1>7

\* RevokeShare deactivates shares.
LEMMA RevokeShareFrame ==
    ASSUME Types, NEW p \in Requests, RevokeShare(p)
    PROVE  /\ Foreign(p, SharingLabels) /\ SharingTypes'
           /\ pc[p] = "revoke_share" /\ pc'[p] \in {"done", "refused"}
           /\ \A h \in shares' : \E k \in shares : k.to = h.to /\ k.file = h.file /\ k.ask = h.ask
           /\ SharesStay
           /\ UNCHANGED <<scope, live, asks, seen>>
<1>1. /\ pc[p] = "revoke_share" /\ pc[p] \in SharingLabels /\ AccountTypes
      /\ End(p, "done") \/ End(p, "refused")
      /\ UNCHANGED <<accountStores, raced>> /\ UNCHANGED <<scope, live, asks, seen>>
  BY DEF RevokeShare, SharingLabels, Types
<1>2. Foreign(p, SharingLabels) /\ pc'[p] \in {"done", "refused"}
  BY <1>1, ForeignLeaves, AccountLabelsAre
<1> DEFINE Off(h) == IF Named(p, h) THEN [h EXCEPT !.active = FALSE] ELSE h
<1>3. shares' = shares \/ shares' = {Off(h) : h \in shares}
  BY DEF RevokeShare
<1>4. \A h \in ShareRecord : /\ Off(h) \in ShareRecord
                             /\ Off(h).to = h.to /\ Off(h).file = h.file /\ Off(h).ask = h.ask
  <2> SUFFICES ASSUME NEW h \in ShareRecord
               PROVE  /\ Off(h) \in ShareRecord
                      /\ Off(h).to = h.to /\ Off(h).file = h.file /\ Off(h).ask = h.ask
    OBVIOUS
  <2> DEFINE off == [h EXCEPT !.active = FALSE]
  <2>1. off \in ShareRecord /\ off.to = h.to /\ off.file = h.file /\ off.ask = h.ask
    BY DEF ShareRecord
  <2>2. Off(h) = h \/ Off(h) = off
    OBVIOUS
  <2>. HIDE DEF Off, off
  <2>. QED
    BY <2>1, <2>2
<1>. HIDE DEF Off
<1>5. shares \subseteq ShareRecord
  BY DEF Types, SharingTypes
<1>6. SharingTypes'
  BY <1>1, <1>3, <1>4, <1>5 DEF Types, SharingTypes
<1>7. /\ \A h \in shares' : \E k \in shares : k.to = h.to /\ k.file = h.file /\ k.ask = h.ask
      /\ SharesStay
  BY <1>3, <1>4, <1>5 DEF SharesStay
<1>. QED
  BY <1>1, <1>2, <1>6, <1>7

\* ReadFile shows the file to whom it is readable, or refuses.
LEMMA ReadFileFrame ==
    ASSUME Types, NEW p \in Requests, AccountShape(p), SharingShape(p), ReadFile(p)
    PROVE  /\ Foreign(p, SharingLabels) /\ SharingTypes'
           /\ pc[p] = "view" /\ pc'[p] \in {"done", "refused"}
           /\ req[p].self.id \in Users /\ req[p].about \in Files
           /\ \/ seen' = seen
              \/ /\ seen' = seen \cup {<<req[p].self.id, req[p].about>>}
                 /\ Allowed(req[p].self, req[p].about)
           /\ UNCHANGED <<scope, live, asks, shares>>
<1>1. /\ pc[p] = "view" /\ pc[p] \in SharingLabels /\ AccountTypes
      /\ End(p, "done") \/ End(p, "refused")
      /\ UNCHANGED <<accountStores, raced>> /\ UNCHANGED <<scope, live, asks, shares>>
      /\ \/ seen' = seen
         \/ /\ seen' = seen \cup {<<req[p].self.id, req[p].about>>}
            /\ Allowed(req[p].self, req[p].about)
  BY DEF ReadFile, SharingLabels, Types
<1>2. Foreign(p, SharingLabels) /\ pc'[p] \in {"done", "refused"}
  BY <1>1, ForeignLeaves, AccountLabelsAre
<1>3. req[p].self.id \in Users /\ req[p].about \in Files
  BY <1>1 DEF SharingShape, AccountShape, Authorized
<1>4. SharingTypes'
  BY <1>1, <1>3 DEF Types, SharingTypes
<1>. QED
  BY <1>1, <1>2, <1>3, <1>4


-----------------------------------------------------------------------------
(* The requests of KnowledgeStore.                                         *)

\* Some set of naturals always has a least element.
LEMMA Least ==
    ASSUME NEW S, S \subseteq Nat, S # {}
    PROVE  \E x \in S : \A y \in S : x <= y
<1>1. PICK x \in S : \A y \in S : ~ (<<y, x>> \in OpToRel(<,Nat))
  BY NatLessThanWellFounded, WFMin
<1>2. \A y \in S : ~(y < x)
  BY <1>1 DEF OpToRel
<1>. QED
  BY <1>2

\* The first of a set of chunks is one of them.
LEMMA FirstIsOne ==
    ASSUME NEW set, set \subseteq Chunks, set # {}
    PROVE  First(set) \in set
<1> DEFINE parts == {c[2] : c \in set}
<1>1. \A c \in set : c[2] \in Nat
  BY KnowledgeAssumption DEF Chunks
<1>2. parts \subseteq Nat /\ parts # {}
  BY <1>1
<1>3. \E x \in parts : \A y \in parts : x <= y
  <2>. HIDE DEF parts
  <2>. QED
    BY <1>2, Least
<1>4. \E c \in set : \A o \in set : c[2] <= o[2]
  BY <1>3
<1>. QED
  BY <1>4 DEF First

\* What a step of promotion, demotion or retrieval leaves alone.
KnowledgeFrame(p) ==
    /\ Foreign(p, KnowledgeLabels) /\ KnowledgeTypes'
    /\ \A q \in Requests \ {p} : work'[q] = work[q]
    /\ live' \subseteq Files /\ UNCHANGED <<scope, asks, shares, seen>>

\* A request without a document has a record of work.
LEMMA NoWorkIsWork == NoWork \in Work
BY DEF NoWork, Work

\* Setting the work of one request leaves the others theirs.
LEMMA Works ==
    ASSUME KnowledgeTypes, NEW p \in Requests, NEW w \in Work, work' = [work EXCEPT ![p] = w]
    PROVE  /\ work' \in [Requests -> Work] /\ work'[p] = w
           /\ \A q \in Requests \ {p} : work'[q] = work[q]
BY DEF KnowledgeTypes

\* A request about documents ends and drops its work.
LEMMA Resigns ==
    ASSUME Types, NEW p \in Requests, NEW l \in {"done", "refused"}, Leave(p, l),
           pc[p] \in KnowledgeLabels, UNCHANGED <<accountStores, raced>>
    PROVE  /\ Foreign(p, KnowledgeLabels) /\ pc'[p] = l /\ req'[p] = Blank
           /\ work' \in [Requests -> Work] /\ work'[p] = NoWork
           /\ \A q \in Requests \ {p} : work'[q] = work[q]
<1>1. End(p, l) /\ work' = [work EXCEPT ![p] = NoWork] /\ AccountTypes /\ KnowledgeTypes
  BY DEF Leave, Types
<1>2. Foreign(p, KnowledgeLabels) /\ pc'[p] = l /\ req'[p] = Blank
  BY <1>1, ForeignLeaves, AccountLabelsAre
<1>3. /\ work' \in [Requests -> Work] /\ work'[p] = NoWork
      /\ \A q \in Requests \ {p} : work'[q] = work[q]
  BY <1>1, NoWorkIsWork, Works
<1>. QED
  BY <1>2, <1>3

\* A request about documents goes on with what it holds.
LEMMA Continues ==
    ASSUME Types, NEW p \in Requests, NEW l \in KnowledgeLabels, Goto(p, l), req' = req,
           pc[p] \in KnowledgeLabels, UNCHANGED <<accountStores, raced>>
    PROVE  Foreign(p, KnowledgeLabels) /\ pc'[p] = l /\ req'[p] = req[p]
<1>1. l \in Labels /\ AccountTypes
  BY AccountLabelsAre DEF Types
<1>. QED
  BY <1>1, ForeignStays, AccountLabelsAre

\* An arrival changes no store.
LEMMA ArrivalFrames ==
    ASSUME Types, NEW p \in Requests, Foreign(p, KnowledgeLabels),
           UNCHANGED <<sharingStores, knowledge>>
    PROVE  KnowledgeFrame(p)
BY DEF KnowledgeFrame, Types, SharingTypes, KnowledgeTypes, sharingStores, knowledge

\* Promote checks the caller's token.
LEMMA PromoteFrame ==
    ASSUME Types, UsersAreKnown, NEW p \in Requests, NEW t \in tokens, NEW f \in Files,
           Promote(p, t, f)
    PROVE  /\ KnowledgeFrame(p) /\ pc[p] = "idle" /\ UNCHANGED <<sharingStores, knowledge>>
           /\ pc'[p] = "refused" \/ (pc'[p] = "promote" /\ req'[p].about = f)
<1> DEFINE local == [Blank EXCEPT !.op = "promote", !.about = f]
<1>1. local \in Local /\ local.about = f /\ local.row = NoUser
  BY Plain DEF Ops, Subjects
<1>2. /\ Authorize(p, t, {"admin"}, local, "promote") /\ UNCHANGED accountStores
      /\ UNCHANGED <<sharingStores, knowledge>>
  BY DEF Promote
<1>3. AccountTypes /\ "promote" \in KnowledgeLabels
  BY DEF Types, KnowledgeLabels
<1>. HIDE DEF local
<1>4. /\ Foreign(p, KnowledgeLabels) /\ pc[p] = "idle"
      /\ pc'[p] = "refused" \/ (pc'[p] = "promote" /\ req'[p].about = f)
  BY <1>1, <1>2, <1>3, ForeignArrives, AccountLabelsAre
<1>. QED
  BY <1>2, <1>4, ArrivalFrames

\* Demote checks the caller's token.
LEMMA DemoteFrame ==
    ASSUME Types, UsersAreKnown, NEW p \in Requests, NEW t \in tokens, NEW d \in Docs,
           Demote(p, t, d)
    PROVE  /\ KnowledgeFrame(p) /\ pc[p] = "idle" /\ UNCHANGED <<sharingStores, knowledge>>
           /\ pc'[p] = "refused" \/ (pc'[p] = "source" /\ req'[p].about \in Docs)
<1> DEFINE local == [Blank EXCEPT !.op = "demote", !.about = d]
<1>1. local \in Local /\ local.about = d /\ local.row = NoUser
  BY Plain DEF Ops, Subjects, Docs, Users
<1>2. /\ Authorize(p, t, {"admin"}, local, "source") /\ UNCHANGED accountStores
      /\ UNCHANGED <<sharingStores, knowledge>>
  BY DEF Demote
<1>3. AccountTypes /\ "source" \in KnowledgeLabels
  BY DEF Types, KnowledgeLabels
<1>. HIDE DEF local
<1>4. /\ Foreign(p, KnowledgeLabels) /\ pc[p] = "idle"
      /\ pc'[p] = "refused" \/ (pc'[p] = "source" /\ req'[p].about = d)
  BY <1>1, <1>2, <1>3, ForeignArrives, AccountLabelsAre
<1>. QED
  BY <1>2, <1>4, ArrivalFrames

\* Ask checks the caller's token.
LEMMA AskFrame ==
    ASSUME Types, UsersAreKnown, NEW p \in Requests, NEW t \in tokens, Ask(p, t)
    PROVE  /\ KnowledgeFrame(p) /\ pc[p] = "idle" /\ UNCHANGED <<sharingStores, knowledge>>
           /\ pc'[p] \in {"refused", "ask"}
<1> DEFINE local == [Blank EXCEPT !.op = "ask", !.about = p]
<1>1. local \in Local /\ local.row = NoUser
  BY Plain DEF Ops, Subjects, Users
<1>2. /\ Authorize(p, t, Roles, local, "ask") /\ UNCHANGED accountStores
      /\ UNCHANGED <<sharingStores, knowledge>>
  BY DEF Ask
<1>3. AccountTypes /\ "ask" \in KnowledgeLabels
  BY DEF Types, KnowledgeLabels
<1>. HIDE DEF local
<1>4. /\ Foreign(p, KnowledgeLabels) /\ pc[p] = "idle" /\ pc'[p] \in {"refused", "ask"}
  BY <1>1, <1>2, <1>3, ForeignArrives, AccountLabelsAre
<1>. QED
  BY <1>2, <1>4, ArrivalFrames

\* ReadPromotable reads the row of the file.
LEMMA ReadPromotableFrame ==
    ASSUME Types, NEW p \in Requests, WorkShape(p), ReadPromotable(p)
    PROVE  /\ KnowledgeFrame(p) /\ pc[p] = "promote" /\ pc'[p] = "save_document"
           /\ req'[p] = req[p] /\ work'[p].doc = p /\ work'[p].file \in Files
           /\ work'[p].left \subseteq {p} \X Parts
           /\ UNCHANGED <<sharingStores, docs, chunks, source, pointer, cited>>
<1> DEFINE w == [NoWork EXCEPT !.doc = p, !.file = req[p].about, !.live = req[p].about \in live,
                               !.left = {p} \X Parts]
<1>1. /\ pc[p] = "promote" /\ pc[p] \in KnowledgeLabels /\ Goto(p, "save_document") /\ req' = req
      /\ work' = [work EXCEPT ![p] = w] /\ UNCHANGED <<accountStores, raced>>
      /\ UNCHANGED <<sharingStores, docs, chunks, source, pointer, cited>>
  BY DEF ReadPromotable, KnowledgeLabels
<1>2. req[p].about \in Files /\ {p} \X Parts \in SUBSET Chunks
  BY <1>1 DEF WorkShape, Chunks, Docs
<1>3. w \in Work /\ w.doc = p /\ w.file = req[p].about /\ w.left = {p} \X Parts
  <2>1. PICK f \in Files, left \in SUBSET Chunks : f = req[p].about /\ left = {p} \X Parts
    BY <1>2
  <2>2. (f \in live) \in BOOLEAN
    OBVIOUS
  <2>3. PICK b \in BOOLEAN : b = (f \in live)
    BY <2>2, Zenon
  <2>4. w = [NoWork EXCEPT !.doc = p, !.file = f, !.live = b, !.left = left]
    BY <2>1, <2>3
  <2>. HIDE DEF w
  <2>5. w \in Work /\ w.doc = p /\ w.file = f /\ w.left = left
    BY <2>4, NoWorkIsWork DEF NoWork, Work, Docs
  <2>. QED
    BY <2>1, <2>5
<1>. HIDE DEF w
<1>4. "save_document" \in KnowledgeLabels
  BY DEF KnowledgeLabels
<1>5. Foreign(p, KnowledgeLabels) /\ pc'[p] = "save_document" /\ req'[p] = req[p]
  BY <1>1, <1>4, Continues
<1>6. /\ work' \in [Requests -> Work] /\ work'[p] = w
      /\ \A q \in Requests \ {p} : work'[q] = work[q]
  BY <1>1, <1>3, Works DEF Types
<1>7. KnowledgeFrame(p)
  BY <1>1, <1>5, <1>6 DEF KnowledgeFrame, Types, SharingTypes, KnowledgeTypes, sharingStores
<1>. QED
  BY <1>1, <1>2, <1>3, <1>5, <1>6, <1>7

\* SaveDocument saves the document and the file it is a copy of.
LEMMA SaveDocumentFrame ==
    ASSUME Types, NEW p \in Requests, WorkShape(p), SaveDocument(p)
    PROVE  /\ KnowledgeFrame(p) /\ pc[p] = "save_document" /\ pc'[p] = "save_chunks"
           /\ req'[p] = req[p] /\ docs' = docs \cup {p}
           /\ source'[p] = work[p].file /\ work[p].file \in Files
           /\ \A d \in Docs \ {p} : source'[d] = source[d]
           /\ UNCHANGED <<sharingStores, chunks, pointer, work, cited>>
<1>1. /\ pc[p] = "save_document" /\ pc[p] \in KnowledgeLabels /\ Goto(p, "save_chunks")
      /\ req' = req /\ UNCHANGED <<accountStores, raced>>
      /\ docs' = docs \cup {p} /\ source' = [source EXCEPT ![p] = work[p].file]
      /\ UNCHANGED <<sharingStores, chunks, pointer, work, cited>>
  BY DEF SaveDocument, KnowledgeLabels
<1>2. work[p].file \in Files /\ p \in Docs
  BY <1>1 DEF WorkShape, Docs
<1>3. /\ source' \in [Docs -> Files \cup {Nobody}] /\ source'[p] = work[p].file
      /\ \A d \in Docs \ {p} : source'[d] = source[d]
  BY <1>1, <1>2 DEF Types, KnowledgeTypes
<1>4. "save_chunks" \in KnowledgeLabels
  BY DEF KnowledgeLabels
<1>5. Foreign(p, KnowledgeLabels) /\ pc'[p] = "save_chunks" /\ req'[p] = req[p]
  BY <1>1, <1>4, Continues
<1>6. KnowledgeFrame(p)
  BY <1>1, <1>2, <1>3, <1>5 DEF KnowledgeFrame, Types, SharingTypes, KnowledgeTypes, sharingStores
<1>. QED
  BY <1>1, <1>2, <1>3, <1>5, <1>6

\* A step that only moves the locals of request p, or takes one chunk.
LEMMA Tarries ==
    ASSUME Types, NEW p \in Requests, pc[p] \in KnowledgeLabels,
           UNCHANGED <<accountStores, raced, pc, req>>
    PROVE  Foreign(p, KnowledgeLabels) /\ pc'[p] = pc[p] /\ req'[p] = req[p]
<1>1. AccountTypes /\ AccountTypes'
  BY DEF Types, AccountTypes, accountStores
<1>2. Frame(p, KnowledgeLabels)
  BY <1>1, AccountLabelsAre DEF Frame, AccountTypes
<1>. QED
  BY <1>1, <1>2 DEF Foreign

\* SaveChunk saves a chunk, or refuses one whose document is gone.
LEMMA SaveChunkFrame ==
    ASSUME Types, NEW p \in Requests, WorkShape(p), SaveChunk(p)
    PROVE  /\ KnowledgeFrame(p) /\ pc[p] = "save_chunks"
           /\ \/ /\ pc'[p] = "save_chunks" /\ req'[p] = req[p] /\ p \in docs
                 /\ work'[p].doc = work[p].doc /\ work'[p].file = work[p].file
                 /\ work'[p].left \subseteq work[p].left
                 /\ chunks \subseteq chunks' /\ \A c \in chunks' : c \in chunks \/ c[1] = p
              \/ pc'[p] = "refused" /\ work'[p] = NoWork /\ chunks' = chunks
           /\ UNCHANGED <<sharingStores, docs, source, pointer, cited>>
<1>1. /\ pc[p] = "save_chunks" /\ pc[p] \in KnowledgeLabels /\ work[p].left # {}
      /\ UNCHANGED <<accountStores, raced>>
      /\ UNCHANGED <<sharingStores, docs, source, pointer, cited>>
  BY DEF SaveChunk, KnowledgeLabels
<1>2. work[p] \in Work /\ work[p].left \subseteq {p} \X Parts /\ work[p].left \in SUBSET Chunks
  BY <1>1 DEF WorkShape, Types, KnowledgeTypes, Work
<1>3. PICK c \in Chunks : c = First(work[p].left) /\ c[1] = p
  BY <1>1, <1>2, FirstIsOne
<1>4. CASE c[1] \in docs
  <2>1. /\ chunks' = chunks \cup {c} /\ work' = [work EXCEPT ![p].left = @ \ {c}]
        /\ UNCHANGED <<pc, req>>
    BY <1>3, <1>4 DEF SaveChunk
  <2>2. PICK w \in Work : /\ w = [work[p] EXCEPT !.left = work[p].left \ {c}]
                          /\ w.doc = work[p].doc /\ w.file = work[p].file
                          /\ w.left \subseteq work[p].left
    <3>1. PICK old \in Work, left \in SUBSET Chunks :
            old = work[p] /\ left = work[p].left \ {c}
      BY <1>2
    <3>2. [old EXCEPT !.left = left] \in Work
      BY DEF Work
    <3>. QED
      BY <3>1, <3>2 DEF Work
  <2>3. work' = [work EXCEPT ![p] = w]
    BY <2>1, <2>2
  <2>4. /\ work' \in [Requests -> Work] /\ work'[p] = w
        /\ \A q \in Requests \ {p} : work'[q] = work[q]
    BY <2>3, Works DEF Types
  <2>5. Foreign(p, KnowledgeLabels) /\ pc'[p] = pc[p] /\ req'[p] = req[p]
    BY <1>1, <2>1, Tarries
  <2>6. KnowledgeFrame(p)
    BY <1>1, <2>1, <2>4, <2>5 DEF KnowledgeFrame, Types, SharingTypes, KnowledgeTypes, sharingStores
  <2>. QED
    BY <1>1, <1>3, <1>4, <2>1, <2>2, <2>4, <2>5, <2>6
<1>5. CASE c[1] \notin docs
  <2>1. Leave(p, "refused") /\ chunks' = chunks
    BY <1>3, <1>5 DEF SaveChunk
  <2>2. /\ Foreign(p, KnowledgeLabels) /\ pc'[p] = "refused"
        /\ work' \in [Requests -> Work] /\ work'[p] = NoWork
        /\ \A q \in Requests \ {p} : work'[q] = work[q]
    BY <1>1, <2>1, Resigns
  <2>3. KnowledgeFrame(p)
    BY <1>1, <2>1, <2>2 DEF KnowledgeFrame, Types, SharingTypes, KnowledgeTypes, sharingStores
  <2>. QED
    BY <1>1, <2>1, <2>2, <2>3
<1>. QED
  BY <1>4, <1>5

\* Saving the row points it where it is told.
LEMMA SaveRowFrame ==
    ASSUME Types, NEW p \in Requests, pc[p] \in KnowledgeLabels, work[p].file \in Files,
           NEW d \in Docs \cup {Nobody}, SaveRow(p, d)
    PROVE  /\ KnowledgeFrame(p) /\ pc'[p] = "done" /\ work'[p] = NoWork
           /\ pointer'[work[p].file] = d
           /\ \A f \in Files \ {work[p].file} : pointer'[f] = pointer[f]
           /\ UNCHANGED <<docs, chunks, source, cited>>
<1> DEFINE row == work[p].file
<1>1. /\ pointer' = [pointer EXCEPT ![row] = d] /\ row \in Files
      /\ live' = live \cup {row} \/ live' = live \ {row}
      /\ Leave(p, "done") /\ UNCHANGED <<accountStores, raced>>
      /\ UNCHANGED <<scope, asks, shares, seen>> /\ UNCHANGED <<docs, chunks, source, cited>>
  BY DEF SaveRow
<1>. HIDE DEF row
<1>2. /\ Foreign(p, KnowledgeLabels) /\ pc'[p] = "done"
      /\ work' \in [Requests -> Work] /\ work'[p] = NoWork
      /\ \A q \in Requests \ {p} : work'[q] = work[q]
  BY <1>1, Resigns
<1>3. /\ pointer' \in [Files -> Docs \cup {Nobody}] /\ pointer'[row] = d
      /\ \A f \in Files \ {row} : pointer'[f] = pointer[f] /\ live' \subseteq Files
  BY <1>1 DEF Types, SharingTypes, KnowledgeTypes
<1>4. KnowledgeFrame(p)
  BY <1>1, <1>2, <1>3 DEF KnowledgeFrame, Types, SharingTypes, KnowledgeTypes
<1>. QED
  BY <1>1, <1>2, <1>3, <1>4 DEF row

\* SavePromoted points the row at the document.
LEMMA SavePromotedFrame ==
    ASSUME Types, NEW p \in Requests, WorkShape(p), SavePromoted(p)
    PROVE  /\ KnowledgeFrame(p) /\ pc[p] = "save_chunks" /\ pc'[p] = "done"
           /\ work'[p] = NoWork /\ work[p].file \in Files /\ source[p] = work[p].file
           /\ pointer'[work[p].file] = p
           /\ \A f \in Files \ {work[p].file} : pointer'[f] = pointer[f]
           /\ UNCHANGED <<docs, chunks, source, cited>>
<1>1. pc[p] = "save_chunks" /\ pc[p] \in KnowledgeLabels /\ SaveRow(p, p)
  BY DEF SavePromoted, KnowledgeLabels
<1>2. work[p].file \in Files /\ source[p] = work[p].file /\ p \in Docs \cup {Nobody}
  BY <1>1 DEF WorkShape, Docs
<1>. QED
  BY <1>1, <1>2, SaveRowFrame

\* SaveDemoted points the row nowhere.
LEMMA SaveDemotedFrame ==
    ASSUME Types, NEW p \in Requests, WorkShape(p), SaveDemoted(p)
    PROVE  /\ KnowledgeFrame(p) /\ pc[p] = "pop_chunks" /\ pc'[p] = "done"
           /\ work'[p] = NoWork /\ work[p].file \in Files /\ work[p].left = {}
           /\ pointer'[work[p].file] = Nobody
           /\ \A f \in Files \ {work[p].file} : pointer'[f] = pointer[f]
           /\ UNCHANGED <<docs, chunks, source, cited>>
<1>1. pc[p] = "pop_chunks" /\ pc[p] \in KnowledgeLabels /\ SaveRow(p, Nobody) /\ work[p].left = {}
  BY DEF SaveDemoted, KnowledgeLabels
<1>2. work[p].file \in Files /\ Nobody \in Docs \cup {Nobody}
  BY <1>1 DEF WorkShape, Removals
<1>. QED
  BY <1>1, <1>2, SaveRowFrame

\* FindSource finds a file whose row names the document.
LEMMA FindSourceFrame ==
    ASSUME Types, NEW p \in Requests, FindSource(p), req[p].about \in Docs
    PROVE  /\ KnowledgeFrame(p) /\ pc[p] = "source"
           /\ \/ pc'[p] = "refused" /\ work'[p] = NoWork
              \/ /\ pc'[p] = "pop_document" /\ work'[p].doc \in Docs /\ work'[p].file \in Files
                 /\ pointer[work'[p].file] = work'[p].doc /\ req'[p] = req[p]
           /\ UNCHANGED <<sharingStores, docs, chunks, source, pointer, cited>>
<1>1. /\ pc[p] = "source" /\ pc[p] \in KnowledgeLabels /\ UNCHANGED <<accountStores, raced>>
      /\ UNCHANGED <<sharingStores, docs, chunks, source, pointer, cited>>
  BY DEF FindSource, KnowledgeLabels
<1>2. CASE Leave(p, "refused")
  <2>1. /\ Foreign(p, KnowledgeLabels) /\ pc'[p] = "refused"
        /\ work' \in [Requests -> Work] /\ work'[p] = NoWork
        /\ \A q \in Requests \ {p} : work'[q] = work[q]
    BY <1>1, <1>2, Resigns
  <2>2. KnowledgeFrame(p)
    BY <1>1, <2>1 DEF KnowledgeFrame, Types, SharingTypes, KnowledgeTypes, sharingStores
  <2>. QED
    BY <1>1, <2>1, <2>2
<1>3. CASE \E f \in SourceFiles(req[p].about) :
              /\ work' = [work EXCEPT ![p] = [NoWork EXCEPT !.doc = req[p].about, !.file = f,
                                                            !.live = TRUE]]
              /\ Goto(p, "pop_document") /\ UNCHANGED req
  <2>1. PICK f \in SourceFiles(req[p].about) :
              /\ work' = [work EXCEPT ![p] = [NoWork EXCEPT !.doc = req[p].about, !.file = f,
                                                            !.live = TRUE]]
              /\ Goto(p, "pop_document") /\ UNCHANGED req
    BY <1>3
  <2>2. f \in Files /\ pointer[f] = req[p].about
    BY DEF SourceFiles, Types, SharingTypes
  <2>3. PICK w \in Work : /\ w = [NoWork EXCEPT !.doc = req[p].about, !.file = f, !.live = TRUE]
                          /\ w.doc = req[p].about /\ w.file = f
    <3>1. PICK d \in Docs, g \in Files : d = req[p].about /\ g = f
      BY <2>2
    <3>2. [NoWork EXCEPT !.doc = d, !.file = g, !.live = TRUE] \in Work
      BY NoWorkIsWork DEF Work
    <3>. QED
      BY <3>1, <3>2 DEF NoWork
  <2>4. work' = [work EXCEPT ![p] = w]
    BY <2>1, <2>3
  <2>5. /\ work' \in [Requests -> Work] /\ work'[p] = w
        /\ \A q \in Requests \ {p} : work'[q] = work[q]
    BY <2>4, Works DEF Types
  <2>6. "pop_document" \in KnowledgeLabels
    BY DEF KnowledgeLabels
  <2>7. Foreign(p, KnowledgeLabels) /\ pc'[p] = "pop_document" /\ req'[p] = req[p]
    BY <1>1, <2>1, <2>6, Continues
  <2>8. KnowledgeFrame(p)
    BY <1>1, <2>5, <2>7 DEF KnowledgeFrame, Types, SharingTypes, KnowledgeTypes, sharingStores
  <2>. QED
    BY <1>1, <2>2, <2>3, <2>5, <2>7, <2>8
<1>. QED
  BY <1>2, <1>3 DEF FindSource

\* PopDocument takes the document away.
LEMMA PopDocumentFrame ==
    ASSUME Types, NEW p \in Requests, PopDocument(p)
    PROVE  /\ KnowledgeFrame(p) /\ pc[p] = "pop_document" /\ pc'[p] = "scan"
           /\ req'[p] = req[p] /\ docs' = docs \ {work[p].doc}
           /\ UNCHANGED <<sharingStores, chunks, source, pointer, work, cited>>
<1>1. /\ pc[p] = "pop_document" /\ pc[p] \in KnowledgeLabels /\ Goto(p, "scan")
      /\ req' = req /\ UNCHANGED <<accountStores, raced>> /\ docs' = docs \ {work[p].doc}
      /\ UNCHANGED <<sharingStores, chunks, source, pointer, work, cited>>
  BY DEF PopDocument, KnowledgeLabels
<1>2. "scan" \in KnowledgeLabels
  BY DEF KnowledgeLabels
<1>3. Foreign(p, KnowledgeLabels) /\ pc'[p] = "scan" /\ req'[p] = req[p]
  BY <1>1, <1>2, Continues
<1>4. KnowledgeFrame(p)
  BY <1>1, <1>3 DEF KnowledgeFrame, Types, SharingTypes, KnowledgeTypes, sharingStores
<1>. QED
  BY <1>1, <1>3, <1>4

\* Scan begins to look at all chunks.
LEMMA ScanFrame ==
    ASSUME Types, NEW p \in Requests, Scan(p)
    PROVE  /\ KnowledgeFrame(p) /\ pc[p] = "scan" /\ pc'[p] = "stale" /\ req'[p] = req[p]
           /\ work'[p].doc = work[p].doc /\ work'[p].file = work[p].file
           /\ UNCHANGED <<sharingStores, docs, chunks, source, pointer, cited>>
<1>1. /\ pc[p] = "scan" /\ pc[p] \in KnowledgeLabels /\ Goto(p, "stale")
      /\ req' = req /\ UNCHANGED <<accountStores, raced>>
      /\ work' = [work EXCEPT ![p].found = chunks]
      /\ UNCHANGED <<sharingStores, docs, chunks, source, pointer, cited>>
  BY DEF Scan, KnowledgeLabels
<1>2. PICK w \in Work : /\ w = [work[p] EXCEPT !.found = chunks]
                        /\ w.doc = work[p].doc /\ w.file = work[p].file
  <2>1. PICK old \in Work, found \in SUBSET (Chunks \cup Docs) : old = work[p] /\ found = chunks
    BY DEF Types, KnowledgeTypes
  <2>2. [old EXCEPT !.found = found] \in Work
    BY DEF Work
  <2>. QED
    BY <2>1, <2>2 DEF Work
<1>3. work' = [work EXCEPT ![p] = w]
  BY <1>1, <1>2
<1>4. /\ work' \in [Requests -> Work] /\ work'[p] = w
      /\ \A q \in Requests \ {p} : work'[q] = work[q]
  BY <1>3, Works DEF Types
<1>5. "stale" \in KnowledgeLabels
  BY DEF KnowledgeLabels
<1>6. Foreign(p, KnowledgeLabels) /\ pc'[p] = "stale" /\ req'[p] = req[p]
  BY <1>1, <1>5, Continues
<1>7. KnowledgeFrame(p)
  BY <1>1, <1>4, <1>6 DEF KnowledgeFrame, Types, SharingTypes, KnowledgeTypes, sharingStores
<1>. QED
  BY <1>1, <1>2, <1>4, <1>6, <1>7

\* ListStale lists the chunks to be taken away, or raises.
LEMMA ListStaleFrame ==
    ASSUME Types, NEW p \in Requests, ListStale(p)
    PROVE  /\ KnowledgeFrame(p) /\ pc[p] = "stale"
           /\ \/ pc'[p] = "refused" /\ work'[p] = NoWork
              \/ /\ pc'[p] = "pop_chunks" /\ req'[p] = req[p]
                 /\ work'[p].doc = work[p].doc /\ work'[p].file = work[p].file
                 /\ \A c \in chunks : c[1] = work[p].doc => c \in work'[p].left
           /\ UNCHANGED <<sharingStores, docs, chunks, source, pointer, cited>>
<1>1. /\ pc[p] = "stale" /\ pc[p] \in KnowledgeLabels /\ UNCHANGED <<accountStores, raced>>
      /\ UNCHANGED <<sharingStores, docs, chunks, source, pointer, cited>>
  BY DEF ListStale, KnowledgeLabels
<1>2. CASE Leave(p, "refused")
  <2>1. /\ Foreign(p, KnowledgeLabels) /\ pc'[p] = "refused"
        /\ work' \in [Requests -> Work] /\ work'[p] = NoWork
        /\ \A q \in Requests \ {p} : work'[q] = work[q]
    BY <1>1, <1>2, Resigns
  <2>2. KnowledgeFrame(p)
    BY <1>1, <2>1 DEF KnowledgeFrame, Types, SharingTypes, KnowledgeTypes, sharingStores
  <2>. QED
    BY <1>1, <2>1, <2>2
<1>3. CASE /\ work' = [work EXCEPT ![p].left = {c \in chunks : c[1] = work[p].doc},
                                   ![p].found = {}]
           /\ Goto(p, "pop_chunks") /\ UNCHANGED req
  <2>1. PICK w \in Work : /\ w = [work[p] EXCEPT !.left = {c \in chunks : c[1] = work[p].doc},
                                                 !.found = {}]
                          /\ w.doc = work[p].doc /\ w.file = work[p].file
                          /\ w.left = {c \in chunks : c[1] = work[p].doc}
    <3>1. PICK old \in Work, left \in SUBSET Chunks :
            old = work[p] /\ left = {c \in chunks : c[1] = work[p].doc}
      BY DEF Types, KnowledgeTypes
    <3>2. [old EXCEPT !.left = left, !.found = {}] \in Work
      BY DEF Work
    <3>. QED
      BY <3>1, <3>2 DEF Work
  <2>2. work' = [work EXCEPT ![p] = w]
    BY <1>3, <2>1 DEF Types, KnowledgeTypes
  <2>3. /\ work' \in [Requests -> Work] /\ work'[p] = w
        /\ \A q \in Requests \ {p} : work'[q] = work[q]
    BY <2>2, Works DEF Types
  <2>4. "pop_chunks" \in KnowledgeLabels
    BY DEF KnowledgeLabels
  <2>5. Foreign(p, KnowledgeLabels) /\ pc'[p] = "pop_chunks" /\ req'[p] = req[p]
    BY <1>1, <1>3, <2>4, Continues
  <2>6. KnowledgeFrame(p)
    BY <1>1, <2>3, <2>5 DEF KnowledgeFrame, Types, SharingTypes, KnowledgeTypes, sharingStores
  <2>. QED
    BY <1>1, <2>1, <2>3, <2>5, <2>6
<1>. QED
  BY <1>2, <1>3 DEF ListStale

\* PopChunk takes one of them away.
LEMMA PopChunkFrame ==
    ASSUME Types, NEW p \in Requests, PopChunk(p)
    PROVE  /\ KnowledgeFrame(p) /\ pc[p] = "pop_chunks" /\ pc'[p] = pc[p] /\ req'[p] = req[p]
           /\ work'[p].doc = work[p].doc /\ work'[p].file = work[p].file
           /\ chunks' \subseteq chunks
           /\ \A c \in chunks' : c \in work[p].left => c \in work'[p].left
           /\ UNCHANGED <<sharingStores, docs, source, pointer, cited>>
<1>1. /\ pc[p] = "pop_chunks" /\ pc[p] \in KnowledgeLabels /\ UNCHANGED <<accountStores, raced>>
      /\ UNCHANGED <<pc, req>> /\ UNCHANGED <<sharingStores, docs, source, pointer, cited>>
  BY DEF PopChunk, KnowledgeLabels
<1>2. PICK c : /\ chunks' = chunks \ {c}
               /\ work' = [work EXCEPT ![p].left = work[p].left \ {c}]
  BY DEF PopChunk, Types, KnowledgeTypes
<1>3. PICK w \in Work : /\ w = [work[p] EXCEPT !.left = work[p].left \ {c}]
                        /\ w.doc = work[p].doc /\ w.file = work[p].file
                        /\ w.left = work[p].left \ {c}
  <2>1. PICK old \in Work, left \in SUBSET Chunks : old = work[p] /\ left = work[p].left \ {c}
    BY DEF Types, KnowledgeTypes, Work
  <2>2. [old EXCEPT !.left = left] \in Work
    BY DEF Work
  <2>. QED
    BY <2>1, <2>2 DEF Work
<1>4. work' = [work EXCEPT ![p] = w]
  BY <1>2, <1>3 DEF Types, KnowledgeTypes
<1>5. /\ work' \in [Requests -> Work] /\ work'[p] = w
      /\ \A q \in Requests \ {p} : work'[q] = work[q]
  BY <1>4, Works DEF Types
<1>6. Foreign(p, KnowledgeLabels) /\ pc'[p] = pc[p] /\ req'[p] = req[p]
  BY <1>1, Tarries
<1>7. KnowledgeFrame(p)
  BY <1>1, <1>2, <1>5, <1>6 DEF KnowledgeFrame, Types, SharingTypes, KnowledgeTypes, sharingStores
<1>. QED
  BY <1>1, <1>2, <1>3, <1>5, <1>6, <1>7

\* ListChunks lists every chunk.
LEMMA ListChunksFrame ==
    ASSUME Types, NEW p \in Requests, work[p] = NoWork, ListChunks(p)
    PROVE  /\ KnowledgeFrame(p) /\ pc[p] = "ask" /\ pc'[p] = "filter" /\ req'[p] = req[p]
           /\ work'[p].found = {}
           /\ UNCHANGED <<sharingStores, docs, chunks, source, pointer, cited>>
<1>1. /\ pc[p] = "ask" /\ pc[p] \in KnowledgeLabels /\ Goto(p, "filter")
      /\ req' = req /\ UNCHANGED <<accountStores, raced>>
      /\ work' = [work EXCEPT ![p].left = chunks]
      /\ UNCHANGED <<sharingStores, docs, chunks, source, pointer, cited>>
  BY DEF ListChunks, KnowledgeLabels
<1>2. PICK w \in Work : w = [work[p] EXCEPT !.left = chunks] /\ w.found = work[p].found
  <2>1. PICK old \in Work, left \in SUBSET Chunks : old = work[p] /\ left = chunks
    BY DEF Types, KnowledgeTypes
  <2>2. [old EXCEPT !.left = left] \in Work
    BY DEF Work
  <2>. QED
    BY <2>1, <2>2 DEF Work
<1>3. work' = [work EXCEPT ![p] = w]
  BY <1>1, <1>2
<1>4. /\ work' \in [Requests -> Work] /\ work'[p] = w
      /\ \A q \in Requests \ {p} : work'[q] = work[q]
  BY <1>3, Works DEF Types
<1>5. "filter" \in KnowledgeLabels
  BY DEF KnowledgeLabels
<1>6. Foreign(p, KnowledgeLabels) /\ pc'[p] = "filter" /\ req'[p] = req[p]
  BY <1>1, <1>5, Continues
<1>7. KnowledgeFrame(p)
  BY <1>1, <1>4, <1>6 DEF KnowledgeFrame, Types, SharingTypes, KnowledgeTypes, sharingStores
<1>. QED
  BY <1>1, <1>2, <1>4, <1>6, <1>7 DEF NoWork

\* FilterChunk keeps a chunk the caller may read, or drops it.
LEMMA FilterChunkFrame ==
    ASSUME Types, NEW p \in Requests, FilterChunk(p)
    PROVE  /\ KnowledgeFrame(p) /\ pc[p] = "filter"
           /\ \/ pc'[p] = "refused" /\ work'[p] = NoWork
              \/ /\ pc'[p] = "filter" /\ req'[p] = req[p]
                 /\ \A d \in work'[p].found :
                      d \in work[p].found \/ (d \in docs /\ CanRead(req[p].self.id, d))
           /\ UNCHANGED <<sharingStores, docs, chunks, source, pointer, cited>>
<1>1. /\ pc[p] = "filter" /\ pc[p] \in KnowledgeLabels /\ UNCHANGED <<accountStores, raced>>
      /\ UNCHANGED <<sharingStores, docs, chunks, source, pointer, cited>>
  BY DEF FilterChunk, KnowledgeLabels
<1>2. CASE Leave(p, "refused")
  <2>1. /\ Foreign(p, KnowledgeLabels) /\ pc'[p] = "refused"
        /\ work' \in [Requests -> Work] /\ work'[p] = NoWork
        /\ \A q \in Requests \ {p} : work'[q] = work[q]
    BY <1>1, <1>2, Resigns
  <2>2. KnowledgeFrame(p)
    BY <1>1, <2>1 DEF KnowledgeFrame, Types, SharingTypes, KnowledgeTypes, sharingStores
  <2>. QED
    BY <1>1, <2>1, <2>2
<1>3. ASSUME NEW c \in work[p].left, c[1] \in docs,
             work' = [work EXCEPT ![p].left = @ \ {c},
                                  ![p].found = @ \cup {d \in {c[1]} : CanRead(req[p].self.id, d)}],
             UNCHANGED <<pc, req>>
      PROVE  /\ KnowledgeFrame(p) /\ pc'[p] = "filter" /\ req'[p] = req[p]
             /\ \A d \in work'[p].found :
                  d \in work[p].found \/ (d \in docs /\ CanRead(req[p].self.id, d))
  <2> DEFINE new == {d \in {c[1]} : CanRead(req[p].self.id, d)}
  <2>1. /\ work' = [work EXCEPT ![p].left = @ \ {c}, ![p].found = @ \cup new]
        /\ new \subseteq Docs /\ \A d \in new : d \in docs /\ CanRead(req[p].self.id, d)
    BY <1>3 DEF Types, KnowledgeTypes
  <2>. HIDE DEF new
  <2>2. PICK w \in Work : /\ w = [work[p] EXCEPT !.left = work[p].left \ {c},
                                                 !.found = work[p].found \cup new]
                          /\ w.found = work[p].found \cup new
    <3>1. PICK old \in Work, left \in SUBSET Chunks, found \in SUBSET (Chunks \cup Docs) :
            /\ old = work[p] /\ left = work[p].left \ {c} /\ found = work[p].found \cup new
      BY <2>1 DEF Types, KnowledgeTypes, Work
    <3>2. [old EXCEPT !.left = left, !.found = found] \in Work
      BY DEF Work
    <3>. QED
      BY <3>1, <3>2 DEF Work
  <2>3. work' = [work EXCEPT ![p] = w]
    BY <2>1, <2>2 DEF Types, KnowledgeTypes
  <2>4. /\ work' \in [Requests -> Work] /\ work'[p] = w
        /\ \A q \in Requests \ {p} : work'[q] = work[q]
    BY <2>3, Works DEF Types
  <2>5. Foreign(p, KnowledgeLabels) /\ pc'[p] = pc[p] /\ req'[p] = req[p]
    BY <1>1, <1>3, Tarries
  <2>6. KnowledgeFrame(p)
    BY <1>1, <2>4, <2>5 DEF KnowledgeFrame, Types, SharingTypes, KnowledgeTypes, sharingStores
  <2>. QED
    BY <1>1, <2>1, <2>2, <2>4, <2>5, <2>6
<1>. QED
  BY <1>1, <1>2, <1>3 DEF FilterChunk

\* Answer cites what was kept.
LEMMA AnswerFrame ==
    ASSUME Types, NEW p \in Requests, AccountShape(p), WorkShape(p), Answer(p)
    PROVE  /\ KnowledgeFrame(p) /\ pc[p] = "filter" /\ pc'[p] = "done" /\ work'[p] = NoWork
           /\ \A u \in Users, d \in Docs : <<u, d>> \in cited' =>
                <<u, d>> \in cited \/ (u = req[p].self.id /\ d \in work[p].found)
           /\ UNCHANGED <<sharingStores, docs, chunks, source, pointer>>
<1> DEFINE v == req[p].self.id
<1>1. /\ pc[p] = "filter" /\ pc[p] \in KnowledgeLabels /\ UNCHANGED <<accountStores, raced>>
      /\ Leave(p, "done") /\ UNCHANGED <<sharingStores, docs, chunks, source, pointer>>
  BY DEF Answer, KnowledgeLabels
<1>2. v \in Users /\ \A d \in work[p].found : d \in Docs
  BY <1>1 DEF AccountShape, Authorized, WorkShape, Readable
<1>3. PICK found : /\ cited' = cited \cup ({v} \X found) /\ found \subseteq work[p].found
  BY DEF Answer
<1>. HIDE DEF v
<1>4. /\ cited' \subseteq Users \X Docs
      /\ \A u \in Users, d \in Docs : <<u, d>> \in cited' =>
           <<u, d>> \in cited \/ (u = v /\ d \in work[p].found)
  BY <1>2, <1>3 DEF Types, KnowledgeTypes
<1>5. /\ Foreign(p, KnowledgeLabels) /\ pc'[p] = "done"
      /\ work' \in [Requests -> Work] /\ work'[p] = NoWork
      /\ \A q \in Requests \ {p} : work'[q] = work[q]
  BY <1>1, Resigns
<1>6. KnowledgeFrame(p)
  BY <1>1, <1>4, <1>5 DEF KnowledgeFrame, Types, SharingTypes, KnowledgeTypes, sharingStores
<1>. QED
  BY <1>1, <1>4, <1>5, <1>6 DEF v

-----------------------------------------------------------------------------
(* What every step keeps of the accounts.                                  *)

\* What is done stays done.
LEMMA DoneStays ==
    ASSUME NEW p \in Requests, NEW labels, Frame(p, labels),
           labels \cap {"idle", "done", "refused"} = {}
    PROVE  \A q \in Requests : pc[q] = "done" => pc'[q] = "done"
BY DEF Frame

\* The role changes written never become fewer.
LEMMA WroteGrows ==
    ASSUME NEW p \in Requests, NEW labels, Frame(p, labels),
           labels \cap {"idle", "done", "refused"} = {}, pc[p] = "audit" => pc'[p] = "done"
    PROVE  /\ Wrote \subseteq Wrote' /\ Cardinality(Wrote) <= Cardinality(Wrote')
           /\ Cardinality(Wrote) \in Nat /\ Cardinality(Wrote') \in Nat
<1>1. Wrote \subseteq Wrote'
  BY DEF Wrote, Frame
<1>2. IsFiniteSet(Wrote) /\ IsFiniteSet(Wrote')
  <2>1. Wrote \subseteq Requests /\ Wrote' \subseteq Requests
    BY DEF Wrote
  <2>. QED
    BY <2>1, AccountsAssumption, FS_Subset
<1>. QED
  BY <1>1, <1>2, FS_Subset, FS_CardinalityType

\* WriteRoles writes one role change more.
LEMMA WroteMore ==
    ASSUME NEW p \in Requests, NEW labels, Frame(p, labels),
           labels \cap {"idle", "done", "refused"} = {}, pc[p] = "write_roles", pc'[p] = "audit"
    PROVE  Cardinality(Wrote') = Cardinality(Wrote) + 1 /\ Cardinality(Wrote) \in Nat
<1>1. Wrote' = Wrote \cup {p} /\ p \notin Wrote
  BY DEF Wrote, Frame
<1>2. IsFiniteSet(Wrote)
  <2>1. Wrote \subseteq Requests
    BY DEF Wrote
  <2>. QED
    BY <2>1, AccountsAssumption, FS_Subset
<1>. QED
  BY <1>1, <1>2, FS_AddElement, FS_CardinalityType

\* Sessions that exist go on existing, users that are known stay known.
Endures ==
    /\ \A u \in Users : Known(u) => Known(u)'
    /\ \A s \in Sessions : Exists(s) => Exists(s)' /\ sessions'[s].chain = sessions[s].chain

\* The other requests hold what they did.
LEMMA OthersShape ==
    ASSUME Types, NEW p \in Requests, NEW labels, Frame(p, labels), Endures,
           NEW q \in Requests \ {p}, AccountShape(q)
    PROVE  AccountShape(q)'
<1>1. pc'[q] = pc[q] /\ req'[q] = req[q]
  BY DEF Frame
<1>2. pc[q] \in {"rotate", "issue"} => users'[req[q].row.id].id = req[q].row.id
  BY DEF AccountShape, Endures, Known
<1>3. pc[q] \in {"owner", "rotate"} => sessions'[req[q].value] # NoSession
  BY DEF AccountShape, Endures, Exists
<1>4. pc[q] = "revoke" => /\ sessions'[req[q].value] # NoSession
                          /\ req[q].about = sessions'[req[q].value].chain
  BY DEF AccountShape, Endures, Exists
<1>. QED
  BY <1>1, <1>2, <1>3, <1>4 DEF AccountShape, Known, Exists

\* Who was made an administrator stays one who was.
LEMMA MadeStays ==
    ASSUME NEW p \in Requests, NEW labels, Frame(p, labels),
           \A i \in DOMAIN audits : i \in DOMAIN audits' /\ audits'[i] = audits[i],
           pc[p] = "audit" => \E i \in DOMAIN audits' : /\ audits'[i].user = req[p].about
                                                        /\ audits'[i].after = req[p].value,
           NEW u, MadeAdmin(u)
    PROVE  MadeAdmin(u)'
<1>1. CASE RoleOf[u] = "admin"
  BY <1>1 DEF MadeAdmin
<1>2. CASE \E i \in EventsOf(u) : audits[i].after = "admin"
  <2>1. PICK i \in EventsOf(u) : audits[i].after = "admin"
    BY <1>2
  <2>2. i \in EventsOf(u)' /\ audits'[i].after = "admin"
    BY <2>1 DEF EventsOf
  <2>. QED
    BY <2>2 DEF MadeAdmin
<1>3. CASE \E q \in Requests : pc[q] = "audit" /\ req[q].about = u /\ req[q].value = "admin"
  <2>1. PICK q \in Requests : pc[q] = "audit" /\ req[q].about = u /\ req[q].value = "admin"
    BY <1>3
  <2>2. CASE q = p
    <3>1. PICK i \in DOMAIN audits' : audits'[i].user = u /\ audits'[i].after = "admin"
      BY <2>1, <2>2
    <3>2. i \in EventsOf(u)'
      BY <3>1 DEF EventsOf
    <3>. QED
      BY <3>1, <3>2 DEF MadeAdmin
  <2>3. CASE q # p
    BY <2>1, <2>3 DEF MadeAdmin, Frame
  <2>. QED
    BY <2>2, <2>3
<1>. QED
  BY <1>1, <1>2, <1>3 DEF MadeAdmin

-----------------------------------------------------------------------------
(* A step that changes no store of the accounts.                           *)

\* It may move its request on, and hand it the row of some user.
Quiet(p) ==
    /\ UNCHANGED <<users, byEmail, sessions, tokens, audits>>
    /\ AccountTypes' /\ AccountShape(p)'
    /\ pc[p] \notin {"audit", "issue"} /\ pc'[p] # "audit"
    /\ \/ req'[p].row \in {req[p].row, NoUser}
       \/ \E u \in Users : req'[p].row = users[u]
    /\ pc'[p] \in Authorized /\ pc[p] # "idle" => pc[p] \in Authorized
    /\ pc'[p] \in {"rotate", "issue"} => \E u \in Users : Known(u) /\ req'[p].row = users[u]
    /\ \A c \in Requests : Descending(p)' /\ req'[p].chain = c => pc[c] = "done"
    /\ pc'[p] = "write_roles" => req'[p].row = users[req'[p].about]
    /\ req'[p].about \notin raced' =>
         /\ pc'[p] \in {"owner", "rotate"} => ActiveOf(req'[p].about) \subseteq {req'[p].value}
         /\ ~(pc'[p] = "issue" /\ req'[p].op = "refresh")

\* A quiet step leaves users, sessions and who holds them what they were.
LEMMA QuietUsers ==
    ASSUME Types, AccountInv, NEW p \in Requests, NEW labels, Frame(p, labels),
           labels \cap {"idle", "done", "refused"} = {}, Quiet(p)
    PROVE  /\ \A q \in Requests : AccountShape(q)'
           /\ UsersAreKnown' /\ SessionsAreNamed' /\ RefreshesAreNamed' /\ OneActive'
<1>1. /\ UNCHANGED <<users, byEmail, sessions>> /\ pc[p] # "issue" /\ AccountShape(p)'
      /\ raced \subseteq raced'
  BY DEF Quiet, Frame
<1>2. \A q \in Requests : AccountShape(q)'
  <2>1. Endures
    BY <1>1 DEF Endures, Known, Exists
  <2>. QED
    BY <1>1, <2>1, OthersShape DEF AccountInv
<1>3. \A q \in Requests : pc[q] = "done" => pc'[q] = "done"
  BY DoneStays
<1>4. UsersAreKnown'
  <2>1. \A q \in Requests : pc[q] \in {"issue", "done"} => pc'[q] \in {"issue", "done"}
    BY <1>1, <1>3 DEF Frame
  <2>. QED
    BY <1>1, <2>1 DEF AccountInv, UsersAreKnown, Known
<1>5. SessionsAreNamed'
  BY <1>1, <1>3 DEF AccountInv, SessionsAreNamed, Exists, Known
<1>6. OneActive'
  BY <1>1 DEF AccountInv, OneActive, ActiveOf
<1>7. RefreshesAreNamed'
  <2> SUFFICES ASSUME NEW q \in Requests, NEW c \in Requests, Descending(q)', req'[q].chain = c
               PROVE  pc[c] = "done"
    BY <1>3 DEF RefreshesAreNamed
  <2>1. CASE q = p
    BY <2>1 DEF Quiet
  <2>2. CASE q # p
    BY <2>2 DEF Frame, Descending, AccountInv, RefreshesAreNamed
  <2>. QED
    BY <2>1, <2>2
<1>. QED
  BY <1>2, <1>4, <1>5, <1>6, <1>7

\* A quiet step leaves a refresh alone with its chain.
LEMMA QuietSessions ==
    ASSUME Types, AccountInv, NEW p \in Requests, NEW labels, Frame(p, labels), Quiet(p)
    PROVE  RefreshesAlone'
<1> SUFFICES ASSUME NEW q \in Requests, NEW c, c = req'[q].about, c \notin raced'
             PROVE  /\ pc'[q] \in {"owner", "rotate"} => ActiveOf(c)' \subseteq {req'[q].value}
                    /\ pc'[q] = "issue" /\ req'[q].op = "refresh" => ActiveOf(c)' = {}
  BY DEF RefreshesAlone, ActiveOf
<1>1. sessions' = sessions /\ raced \subseteq raced'
  BY DEF Quiet, Frame
<1>2. CASE q = p
  BY <1>1, <1>2 DEF Quiet, ActiveOf
<1>3. CASE q # p
  <2>1. pc'[q] = pc[q] /\ req'[q] = req[q] /\ req[q].about \notin raced
    BY <1>1, <1>3 DEF Frame
  <2>. QED
    BY <1>1, <2>1 DEF AccountInv, RefreshesAlone, ActiveOf
<1>. QED
  BY <1>2, <1>3

\* A quiet step leaves the versions counted and the tokens behind them.
LEMMA QuietVersions ==
    ASSUME Types, AccountInv, NEW p \in Requests, NEW labels, Frame(p, labels),
           labels \cap {"idle", "done", "refused"} = {}, Quiet(p)
    PROVE  VersionsCount' /\ TokensAreBehind' /\ WritesAreFresh'
<1>1. UNCHANGED <<users, tokens>> /\ raced \subseteq raced'
  BY DEF Quiet, Frame
<1> DEFINE n == Cardinality(Wrote)  m == Cardinality(Wrote')
<1>2. n <= m /\ n \in Nat /\ m \in Nat
  BY WroteGrows DEF Quiet
<1>3. VersionsCount'
  <2>1. \A u \in Users : users[u].version \in 1..n + 1
    BY DEF AccountInv, VersionsCount
  <2>2. \A t \in tokens : t.version \in 1..n + 1
    BY DEF AccountInv, VersionsCount
  <2>3. \A q \in Requests : req[q].row.version \in 1..n + 1
    BY DEF AccountInv, VersionsCount
  <2>4. req'[p].row.version \in 1..n + 1
    <3>1. NoUser.version = 1
      BY DEF NoUser
    <3>. QED
      BY <1>2, <2>1, <2>3, <3>1 DEF Quiet
  <2>5. \A q \in Requests : req'[q].row.version \in 1..n + 1
    BY <2>3, <2>4 DEF Frame
  <2>. HIDE DEF n, m
  <2>6. 1..n + 1 \subseteq 1..m + 1
    BY <1>2
  <2>7. /\ \A u \in Users : users'[u].version \in 1..m + 1
        /\ \A t \in tokens' : t.version \in 1..m + 1
        /\ \A q \in Requests : req'[q].row.version \in 1..m + 1
    BY <1>1, <2>1, <2>2, <2>5, <2>6
  <2>. QED
    BY <2>7 DEF VersionsCount, m
<1>4. TokensAreBehind'
  <2>1. \A t \in tokens' : Behind(t.user, t.version)'
    BY <1>1 DEF AccountInv, TokensAreBehind, Behind
  <2>2. ASSUME NEW q \in Requests, pc'[q] \in {"rotate", "issue"}
        PROVE  \/ req'[q].row.id \in raced'
               \/ req'[q].row.version <= users'[req'[q].row.id].version
    <3>1. CASE q = p
      <4>1. PICK u \in Users : Known(u) /\ req'[q].row = users[u]
        BY <2>2, <3>1 DEF Quiet
      <4>2. users[u].version \in Nat /\ users[u].id = u
        BY <4>1 DEF Known, Types, AccountTypes, Row
      <4>. QED
        BY <1>1, <4>1, <4>2
    <3>2. CASE q # p
      <4>1. pc'[q] = pc[q] /\ req'[q] = req[q]
        BY <3>2 DEF Frame
      <4>2. Behind(req[q].row.id, req[q].row.version)
        BY <2>2, <4>1 DEF AccountInv, TokensAreBehind
      <4>. QED
        BY <1>1, <4>1, <4>2 DEF Behind
    <3>. QED
      BY <3>1, <3>2
  <2>. QED
    BY <2>1, <2>2 DEF TokensAreBehind, Behind
<1>5. WritesAreFresh'
  <2> SUFFICES ASSUME NEW q \in Requests, pc'[q] = "write_roles", req'[q].about \notin raced'
               PROVE  req'[q].row = users'[req'[q].about]
    BY DEF WritesAreFresh
  <2>1. CASE q = p
    BY <1>1, <2>1 DEF Quiet
  <2>2. CASE q # p
    BY <1>1, <2>2 DEF Frame, AccountInv, WritesAreFresh
  <2>. QED
    BY <2>1, <2>2
<1>. QED
  BY <1>3, <1>4, <1>5

\* No role changes and no event is added.
Unaudited(p) ==
    /\ \A u \in People : users'[u] = users[u]
    /\ audits' = audits /\ pc[p] # "audit" /\ pc'[p] # "audit"
    /\ pc'[p] \in Authorized /\ pc[p] # "idle" => pc[p] \in Authorized

\* Trails lead where they did when no role changes and no event is added.
LEMMA TrailsStay ==
    ASSUME Types, AccountInv, NEW p \in Requests, NEW labels, Frame(p, labels), Unaudited(p)
    PROVE  TrailsLead'
<1> SUFFICES ASSUME NEW u \in People, u \notin raced'
             PROVE  /\ \A i \in EventsOf(u)' : LeavesWith(u, i, audits[i].before)'
                    /\ (\A q \in Requests : ~Auditing(q, u)') =>
                         /\ LeavesWith(u, Len(audits) + 1, users[u].role)'
                         /\ users'[u].version = Cardinality(EventsOf(u)') + 1
                    /\ \A q \in Requests : Auditing(q, u)' =>
                         /\ LeavesWith(u, Len(audits) + 1, req[q].row.role)'
                         /\ users'[u].role = req'[q].value
                         /\ users'[u].version = Cardinality(EventsOf(u)') + 2
  BY DEF TrailsLead
<1>1. audits' = audits /\ users'[u] = users[u] /\ u \notin raced
  BY DEF Unaudited, Frame
<1>2. EventsOf(u)' = EventsOf(u)
  BY <1>1 DEF EventsOf
<1>3. \A n, role : LeavesWith(u, n, role)' <=> LeavesWith(u, n, role)
  BY <1>1, <1>2 DEF LeavesWith
<1>4. \A q \in Requests : /\ Auditing(q, u)' <=> Auditing(q, u)
                          /\ Auditing(q, u) => req'[q] = req[q]
  BY DEF Auditing, Unaudited, Frame
<1>. QED
  BY <1>1, <1>2, <1>3, <1>4 DEF AccountInv, TrailsLead

\* Administrators are those who were made so, when no role changes.
LEMMA AdminsStay ==
    ASSUME Types, AccountInv, NEW p \in Requests, NEW labels, Frame(p, labels), Unaudited(p)
    PROVE  AdminsWereMade' /\ \A u \in People : MadeAdmin(u) => MadeAdmin(u)'
<1>1. audits' = audits /\ (\A u \in People : users'[u] = users[u]) /\ pc[p] # "audit"
  BY DEF Unaudited
<1>2. \A u \in People : MadeAdmin(u) => MadeAdmin(u)'
  BY <1>1, MadeStays
<1>3. \A u \in People : users'[u].role = "admin" => MadeAdmin(u)'
  BY <1>1, <1>2 DEF AccountInv, AdminsWereMade
<1>4. ASSUME NEW q \in Requests, pc'[q] \in Authorized, req'[q].self.id \in People,
             req'[q].self.role = "admin", NEW v, v = req'[q].self.id
      PROVE  MadeAdmin(v)'
  <2>1. CASE q # p
    BY <1>2, <1>4, <2>1 DEF Frame, AccountInv, AdminsWereMade
  <2>2. CASE q = p /\ pc[p] = "idle"
    <3>1. PICK u \in Users : Known(u) /\ req'[q].self = users[u]
      BY <1>4, <2>2 DEF Frame
    <3>. QED
      BY <1>1, <1>3, <1>4, <3>1 DEF Known
  <2>3. CASE q = p /\ pc[p] # "idle"
    <3>1. pc[p] \in Authorized /\ req'[p].self = req[p].self
      BY <1>4, <2>3 DEF Frame, Unaudited, Authorized
    <3>. QED
      BY <1>2, <1>4, <2>3, <3>1 DEF AccountInv, AdminsWereMade
  <2>. QED
    BY <2>1, <2>2, <2>3
<1>. QED
  BY <1>2, <1>3, <1>4 DEF AdminsWereMade, MadeAdmin

\* A quiet step keeps the invariant of the accounts.
LEMMA QuietKeeps ==
    ASSUME Types, AccountInv, NEW p \in Requests, NEW labels, Frame(p, labels),
           labels \cap {"idle", "done", "refused"} = {}, Quiet(p)
    PROVE  AccountInv' /\ \A u \in People : MadeAdmin(u) => MadeAdmin(u)'
<1>1. /\ \A q \in Requests : AccountShape(q)'
      /\ UsersAreKnown' /\ SessionsAreNamed' /\ RefreshesAreNamed' /\ OneActive'
  BY QuietUsers
<1>2. RefreshesAlone'
  BY QuietSessions
<1>3. VersionsCount' /\ TokensAreBehind' /\ WritesAreFresh'
  BY QuietVersions
<1>4. Unaudited(p)
  BY DEF Quiet, Unaudited
<1>5. AdminsWereMade' /\ \A u \in People : MadeAdmin(u) => MadeAdmin(u)'
  BY <1>4, AdminsStay
<1>6. TrailsLead'
  BY <1>4, TrailsStay
<1>. QED
  BY <1>1, <1>2, <1>3, <1>5, <1>6 DEF AccountInv

\* Requests about files and documents keep the invariant of the accounts.
LEMMA ForeignKeeps ==
    ASSUME Types, AccountInv, NEW p \in Requests, NEW labels \in {SharingLabels, KnowledgeLabels},
           Foreign(p, labels)
    PROVE  AccountInv' /\ \A u \in People : MadeAdmin(u) => MadeAdmin(u)'
<1>1. /\ labels \subseteq Authorized /\ labels \cap {"idle", "done", "refused"} = {}
      /\ labels \cap AccountLabels = {}
  BY DEF SharingLabels, KnowledgeLabels, AccountLabels, Authorized
<1>2. Frame(p, labels) /\ AccountTypes'
  BY DEF Foreign
<1>3. pc'[p] \in labels => req'[p].self.id \in Users
  <2>1. CASE pc'[p] \in labels /\ pc[p] = "idle"
    BY <1>1, <1>2, <2>1 DEF Frame, Known
  <2>2. CASE pc'[p] \in labels /\ pc[p] # "idle"
    <3>1. pc[p] \in labels /\ req'[p].self = req[p].self
      BY <1>2, <2>2 DEF Frame
    <3>. QED
      BY <1>1, <3>1 DEF AccountInv, AccountShape
  <2>. QED
    BY <2>1, <2>2
<1>4. pc'[p] \notin AccountLabels /\ pc[p] \notin AccountLabels
  <2>1. AccountLabels \cap {"idle", "done", "refused"} = {}
    BY AccountLabelsAre
  <2>. QED
    BY <1>1, <1>2, <2>1 DEF Frame
<1>5. AccountShape(p)'
  <2>1. pc'[p] \in Authorized => pc'[p] \in labels
    BY <1>2 DEF Frame, Authorized
  <2>2. pc'[p] \in {"idle", "done", "refused"} => req'[p] = Blank
    BY <1>1, <1>2 DEF Frame
  <2>. QED
    BY <1>3, <1>4, <2>1, <2>2 DEF AccountShape, AccountLabels
<1>6. Quiet(p)
  <2>1. pc'[p] \in Authorized /\ pc[p] # "idle" => pc[p] \in Authorized
    BY <1>1, <1>2 DEF Frame
  <2>. QED
    BY <1>2, <1>4, <1>5, <2>1 DEF Quiet, Foreign, accountStores, AccountLabels, Descending
<1>. QED
  BY <1>1, <1>2, <1>6, QuietKeeps

\* SignUp keeps the invariant of the accounts.
LEMMA SignUpKeeps ==
    ASSUME Types, AccountInv, NEW p \in Requests, NEW e \in Emails, SignUp(p, e)
    PROVE  AccountInv' /\ \A u \in People : MadeAdmin(u) => MadeAdmin(u)'
<1>1. /\ AccountTypes' /\ Frame(p, AccountLabels) /\ pc[p] = "idle" /\ pc'[p] = "email"
      /\ req'[p].about = e /\ req'[p].row = NoUser /\ req'[p].op = "signup"
  BY SignUpFrame
<1>2. UNCHANGED <<users, byEmail, sessions, tokens, audits>>
  BY DEF SignUp
<1>3. AccountShape(p)'
  BY <1>1 DEF AccountShape, Authorized
<1>4. Quiet(p)
  BY <1>1, <1>2, <1>3 DEF Quiet, Authorized, Descending
<1>. QED
  BY <1>1, <1>4, QuietKeeps, AccountLabelsAre

\* CheckEmail keeps the invariant of the accounts.
LEMMA CheckEmailKeeps ==
    ASSUME Types, AccountInv, NEW p \in Requests, CheckEmail(p)
    PROVE  AccountInv' /\ \A u \in People : MadeAdmin(u) => MadeAdmin(u)'
<1>1. /\ AccountTypes' /\ Frame(p, AccountLabels) /\ pc[p] = "email"
      /\ (pc'[p] = "insert" /\ req'[p] = req[p]) \/ pc'[p] = "refused"
  BY CheckEmailFrame
<1>2. UNCHANGED <<users, byEmail, sessions, tokens, audits>>
  BY DEF CheckEmail, accountStores
<1>3. req'[p].row \in {req[p].row, NoUser} /\ (pc'[p] = "refused" => req'[p] = Blank)
  BY <1>1, BlankIsLocal DEF Frame, AccountLabels
<1>4. AccountShape(p)'
  BY <1>1, <1>3 DEF AccountShape, Authorized, AccountInv
<1>5. Quiet(p)
  BY <1>1, <1>2, <1>3, <1>4 DEF Quiet, Authorized, Descending
<1>. QED
  BY <1>1, <1>5, QuietKeeps, AccountLabelsAre

\* SignIn keeps the invariant of the accounts.
LEMMA SignInKeeps ==
    ASSUME Types, AccountInv, NEW p \in Requests, NEW e \in DOMAIN byEmail, SignIn(p, e)
    PROVE  AccountInv' /\ \A u \in People : MadeAdmin(u) => MadeAdmin(u)'
<1>1. /\ AccountTypes' /\ Frame(p, AccountLabels) /\ pc[p] = "idle" /\ pc'[p] = "issue"
      /\ req'[p].op = "signin" /\ req'[p].chain = p
      /\ byEmail[e] \in Users /\ Known(byEmail[e]) /\ req'[p].row = users[byEmail[e]]
  BY SignInFrame DEF AccountInv
<1>2. UNCHANGED <<users, byEmail, sessions, tokens, audits>>
  BY DEF SignIn, accountStores
<1>3. AccountShape(p)'
  <2>1. req'[p].row.id = byEmail[e] /\ users'[byEmail[e]].id = byEmail[e]
    BY <1>1, <1>2 DEF Known
  <2>. QED
    BY <1>1, <2>1 DEF AccountShape, Authorized, Known
<1>4. Quiet(p)
  BY <1>1, <1>2, <1>3 DEF Quiet, Authorized, Descending
<1>. QED
  BY <1>1, <1>4, QuietKeeps, AccountLabelsAre

\* Refresh keeps the invariant of the accounts.
LEMMA RefreshKeeps ==
    ASSUME Types, AccountInv, NEW p \in Requests, NEW s \in Sessions, Refresh(p, s)
    PROVE  AccountInv' /\ \A u \in People : MadeAdmin(u) => MadeAdmin(u)'
<1>1. /\ AccountTypes' /\ Frame(p, AccountLabels) /\ pc[p] = "idle"
      /\ \/ pc'[p] = "refused"
         \/ /\ pc'[p] = "owner" /\ Exists(s) /\ sessions[s].state = "active"
            /\ req'[p].op = "refresh" /\ req'[p].value = s /\ req'[p].row = NoUser
            /\ req'[p].about = sessions[s].chain /\ req'[p].chain = sessions[s].chain
            /\ sessions[s].chain \in Sessions
  BY RefreshFrame
<1>2. UNCHANGED <<users, byEmail, sessions, tokens, audits>>
  BY DEF Refresh, accountStores
<1>3. pc'[p] = "refused" => req'[p] = Blank
  BY <1>1 DEF Frame, AccountLabels
<1>4. req'[p].row = NoUser
  BY <1>1, <1>3, BlankIsLocal
<1>5. AccountShape(p)'
  BY <1>1, <1>2, <1>3 DEF AccountShape, Authorized, Exists
<1>6. ASSUME pc'[p] = "owner", req'[p].about \notin raced'
      PROVE  ActiveOf(req'[p].about) \subseteq {req'[p].value}
  <2>1. s \in ActiveOf(req'[p].about) /\ req'[p].about \in Sessions \ raced
    BY <1>1, <1>6 DEF ActiveOf, Frame
  <2>. QED
    BY <1>1, <1>6, <2>1 DEF AccountInv, OneActive
<1>7. \A c \in Requests : Descending(p)' /\ req'[p].chain = c => pc[c] = "done"
  BY <1>1 DEF Descending, AccountInv, SessionsAreNamed
<1>8. Quiet(p)
  BY <1>1, <1>2, <1>4, <1>5, <1>6, <1>7 DEF Quiet, Authorized, Descending
<1>. QED
  BY <1>1, <1>8, QuietKeeps, AccountLabelsAre

\* Owner keeps the invariant of the accounts.
LEMMA OwnerKeeps ==
    ASSUME Types, AccountInv, NEW p \in Requests, Owner(p)
    PROVE  AccountInv' /\ \A u \in People : MadeAdmin(u) => MadeAdmin(u)'
<1>1. /\ AccountTypes' /\ Frame(p, AccountLabels) /\ pc[p] = "owner" /\ pc'[p] = "rotate"
      /\ req'[p].chain = req[p].chain
  BY OwnerFrame DEF AccountInv
<1>2. PICK u \in Users : Known(u) /\ req'[p].row = users[u]
  BY OwnerFrame DEF AccountInv
<1>3. UNCHANGED <<users, byEmail, sessions, tokens, audits>>
  BY DEF Owner, accountStores
<1>4. /\ req'[p].about = req[p].about /\ req'[p].op = req[p].op /\ req'[p].value = req[p].value
      /\ raced \subseteq raced'
  BY <1>1 DEF Frame, AccountLabels
<1>5. AccountShape(p)'
  <2>1. req'[p].row.id = u /\ users'[u].id = u
    BY <1>2, <1>3 DEF Known
  <2>2. AccountShape(p)
    BY DEF AccountInv
  <2>. QED
    BY <1>1, <1>3, <1>4, <2>1, <2>2 DEF AccountShape, Authorized, Known, Exists
<1>6. req'[p].about \notin raced' => ActiveOf(req'[p].about) \subseteq {req'[p].value}
  BY <1>1, <1>4 DEF AccountInv, RefreshesAlone
<1>7. \A c \in Requests : Descending(p)' /\ req'[p].chain = c => pc[c] = "done"
  BY <1>1, <1>4 DEF Descending, AccountInv, RefreshesAreNamed
<1>8. Quiet(p)
  BY <1>1, <1>2, <1>3, <1>5, <1>6, <1>7 DEF Quiet, Authorized, Descending
<1>. QED
  BY <1>1, <1>8, QuietKeeps, AccountLabelsAre

\* Revoke keeps the invariant of the accounts.
LEMMA RevokeKeeps ==
    ASSUME Types, AccountInv, NEW p \in Requests, NEW s \in Sessions, Revoke(p, s)
    PROVE  AccountInv' /\ \A u \in People : MadeAdmin(u) => MadeAdmin(u)'
<1>1. /\ AccountTypes' /\ Frame(p, AccountLabels) /\ pc[p] = "idle" /\ pc'[p] = "revoke"
      /\ Exists(s) /\ req'[p].value = s /\ req'[p].about = sessions[s].chain
      /\ req'[p].row = NoUser
  BY RevokeFrame
<1>2. UNCHANGED <<users, byEmail, sessions, tokens, audits>>
  BY DEF Revoke, accountStores
<1>3. AccountShape(p)'
  BY <1>1, <1>2 DEF AccountShape, Authorized, Exists
<1>4. Quiet(p)
  BY <1>1, <1>2, <1>3 DEF Quiet, Authorized, Descending
<1>. QED
  BY <1>1, <1>4, QuietKeeps, AccountLabelsAre

\* SetRoles keeps the invariant of the accounts.
LEMMA SetRolesKeeps ==
    ASSUME Types, AccountInv, NEW p \in Requests, NEW t \in tokens,
           NEW target \in Users, NEW role \in NewRoles, SetRoles(p, t, target, role)
    PROVE  AccountInv' /\ \A u \in People : MadeAdmin(u) => MadeAdmin(u)'
<1>1. /\ AccountTypes' /\ Frame(p, AccountLabels) /\ pc[p] = "idle"
      /\ \/ pc'[p] = "refused"
         \/ /\ pc'[p] = "target" /\ req'[p].op = "roles" /\ req'[p].about = target
            /\ req'[p].value = role /\ req'[p].row = NoUser
  <2>1. NewRoles \subseteq Roles
    BY AccountsAssumption
  <2>. QED
    BY <2>1, SetRolesFrame DEF AccountInv
<1>2. UNCHANGED <<users, byEmail, sessions, tokens, audits>>
  BY DEF SetRoles, accountStores
<1>3. pc'[p] = "refused" => req'[p] = Blank
  BY <1>1 DEF Frame, AccountLabels
<1>4. req'[p].row = NoUser
  BY <1>1, <1>3, BlankIsLocal
<1>5. AccountShape(p)'
  <2>1. pc'[p] = "target" => req'[p].self.id \in Users
    BY <1>1 DEF Frame, AccountLabels, Authorized, Known
  <2>2. role \in Roles
    BY AccountsAssumption
  <2>. QED
    BY <1>1, <1>3, <2>1, <2>2 DEF AccountShape, Authorized
<1>6. Quiet(p)
  BY <1>1, <1>2, <1>4, <1>5 DEF Quiet, Authorized, Descending
<1>. QED
  BY <1>1, <1>6, QuietKeeps, AccountLabelsAre

\* Target keeps the invariant of the accounts.
LEMMA TargetKeeps ==
    ASSUME Types, AccountInv, NEW p \in Requests, Target(p)
    PROVE  AccountInv' /\ \A u \in People : MadeAdmin(u) => MadeAdmin(u)'
<1>1. /\ AccountTypes' /\ Frame(p, AccountLabels) /\ pc[p] = "target"
      /\ \/ pc'[p] = "refused"
         \/ /\ pc'[p] = "write_roles" /\ req'[p].row = users[req[p].about]
            /\ req[p].about \in People
  BY TargetFrame DEF AccountInv
<1>2. UNCHANGED <<users, byEmail, sessions, tokens, audits>>
  BY DEF Target, accountStores
<1>3. pc'[p] = "refused" => req'[p] = Blank /\ req'[p].row = NoUser
  BY <1>1, BlankIsLocal DEF Frame, AccountLabels
<1>4. pc'[p] = "write_roles" =>
        /\ req'[p].about = req[p].about /\ req'[p].op = req[p].op
        /\ req'[p].value = req[p].value /\ req'[p].self = req[p].self
  BY <1>1 DEF Frame, AccountLabels
<1>5. AccountShape(p) /\ UsersAreKnown
  BY DEF AccountInv
<1>6. AccountShape(p)'
  BY <1>1, <1>3, <1>4, <1>5 DEF AccountShape, Authorized, UsersAreKnown, Known
<1>7. Quiet(p)
  BY <1>1, <1>2, <1>3, <1>4, <1>5, <1>6 DEF Quiet, Authorized, Descending, AccountShape
<1>. QED
  BY <1>1, <1>7, QuietKeeps, AccountLabelsAre

-----------------------------------------------------------------------------
(* The steps that write users, sessions, tokens or audits.                 *)

\* No version exceeds the changes written when only first versions are
\* added.
LEMMA CountsStay ==
    ASSUME Types, AccountInv, NEW p \in Requests, NEW labels, Frame(p, labels),
           labels \cap {"idle", "done", "refused"} = {}, pc[p] = "audit" => pc'[p] = "done",
           \A u \in Users : users'[u] = users[u] \/ users'[u].version = 1,
           \A t \in tokens' : t \in tokens \/ t.version = req[p].row.version,
           req'[p].row.version \in {1, req[p].row.version}
    PROVE  VersionsCount'
<1> DEFINE n == Cardinality(Wrote)  m == Cardinality(Wrote')
<1>1. n <= m /\ n \in Nat /\ m \in Nat
  BY WroteGrows
<1>2. /\ \A u \in Users : users[u].version \in 1..n + 1
      /\ \A t \in tokens : t.version \in 1..n + 1
      /\ \A q \in Requests : req[q].row.version \in 1..n + 1
  BY DEF AccountInv, VersionsCount
<1>3. \A q \in Requests \ {p} : req'[q] = req[q]
  BY DEF Frame
<1>. HIDE DEF n, m
<1>4. 1..n + 1 \subseteq 1..m + 1 /\ 1 \in 1..m + 1
  BY <1>1
<1>5. \A u \in Users : users'[u].version \in 1..m + 1
  BY <1>2, <1>4
<1>6. \A t \in tokens' : t.version \in 1..m + 1
  BY <1>2, <1>4
<1>7. \A q \in Requests : req'[q].row.version \in 1..m + 1
  BY <1>2, <1>3, <1>4
<1>. QED
  BY <1>5, <1>6, <1>7 DEF VersionsCount, m

\* Tokens stay behind their users when versions of users nobody races only
\* grow.
LEMMA BehindStays ==
    ASSUME Types, AccountTypes', AccountInv, NEW p \in Requests, NEW labels, Frame(p, labels),
           \A u \in Users \ raced' : users[u].version <= users'[u].version,
           \A t \in tokens' : t \in tokens \/ Behind(t.user, t.version)',
           pc'[p] \in {"rotate", "issue"} =>
               \/ req'[p].row.id \in raced'
               \/ req'[p].row.version <= users'[req'[p].row.id].version
    PROVE  TokensAreBehind'
<1>1. raced \subseteq raced'
  BY DEF Frame
<1>2. \A u \in Users : users[u].version \in Nat /\ users'[u].version \in Nat
  BY DEF Types, AccountTypes, Row
<1>3. ASSUME NEW u \in Users, NEW n \in Nat, Behind(u, n)
      PROVE  u \in raced' \/ n <= users'[u].version
  BY <1>1, <1>2, <1>3 DEF Behind
<1>4. ASSUME NEW t \in tokens'
      PROVE  t.user \in raced' \/ t.version <= users'[t.user].version
  <2>1. CASE t \in tokens
    BY <1>3, <2>1 DEF Types, AccountTypes, AccountInv, TokensAreBehind
  <2>2. CASE Behind(t.user, t.version)'
    BY <2>2 DEF Behind
  <2>. QED
    BY <2>1, <2>2
<1>5. ASSUME NEW q \in Requests, pc'[q] \in {"rotate", "issue"}
      PROVE  \/ req'[q].row.id \in raced'
             \/ req'[q].row.version <= users'[req'[q].row.id].version
  <2>1. CASE q = p
    BY <1>5, <2>1
  <2>2. CASE q # p
    <3>1. pc'[q] = pc[q] /\ req'[q] = req[q]
      BY <2>2 DEF Frame
    <3>2. Behind(req[q].row.id, req[q].row.version)
      BY <1>5, <3>1 DEF AccountInv, TokensAreBehind
    <3>3. req[q].row.id \in Users /\ req[q].row.version \in Nat
      BY <1>5, <3>1 DEF AccountInv, AccountShape, Types, AccountTypes, Local, Row
    <3>. QED
      BY <1>3, <3>1, <3>2, <3>3
  <2>. QED
    BY <2>1, <2>2
<1>. QED
  BY <1>4, <1>5 DEF TokensAreBehind, Behind

\* Unknown users hold no token, and a new one starts where they would.
LEMMA InsertUserKeeps ==
    ASSUME Types, AccountInv, NEW p \in Requests, InsertUser(p)
    PROVE  AccountInv' /\ \A u \in People : MadeAdmin(u) => MadeAdmin(u)'
<1>1. /\ AccountTypes' /\ Frame(p, AccountLabels) /\ pc[p] = "insert" /\ pc'[p] = "issue"
      /\ req'[p].op = req[p].op /\ req'[p].chain = p
      /\ req'[p].row = [id |-> p, role |-> "business_user", version |-> 1]
      /\ users'[p] = req'[p].row /\ \A u \in Users \ {p} : users'[u] = users[u]
      /\ byEmail'[req[p].about] = p
      /\ \A e \in DOMAIN byEmail \ {req[p].about} : byEmail'[e] = byEmail[e]
  BY InsertUserFrame DEF AccountInv
<1>2. UNCHANGED <<sessions, tokens, audits>> /\ raced \subseteq raced' /\ p \in Users \ People
  BY <1>1, AccountsAssumption DEF InsertUser, Frame, Users
<1>3. /\ req'[p].row.id = p /\ req'[p].row.version = 1 /\ users'[p].id = p
      /\ users'[p].version = 1 /\ users[p].version = 1 /\ req'[p].op = "signup"
  <2>1. ~Known(p)
    BY <1>1 DEF AccountInv, UsersAreKnown
  <2>2. users[p].version = 1
    BY <1>2, <2>1 DEF AccountInv, UsersAreKnown, NoUser
  <2>3. req[p].op = "signup"
    BY <1>1 DEF AccountInv, AccountShape
  <2>. QED
    BY <1>1, <2>2, <2>3
<1>4. Endures
  BY <1>1, <1>2, <1>3 DEF Endures, Known, Exists
<1>5. \A q \in Requests : AccountShape(q)'
  <2>1. AccountShape(p)'
    BY <1>1, <1>2, <1>3 DEF AccountShape, Authorized, Known
  <2>. QED
    BY <1>1, <1>4, <2>1, OthersShape DEF AccountInv
<1>6. \A q \in Requests : pc[q] = "done" => pc'[q] = "done"
  BY <1>1, DoneStays, AccountLabelsAre
<1>7. UsersAreKnown'
  <2>1. \A u \in Users : users'[u] = NoUser \/ users'[u].id = u
    BY <1>1, <1>3 DEF AccountInv, UsersAreKnown, Known
  <2>2. \A u \in People : users'[u].id = u
    BY <1>1, <1>2 DEF AccountInv, UsersAreKnown, Known, Users
  <2>3. \A e \in DOMAIN byEmail' : byEmail'[e] # Nobody => users'[byEmail'[e]].id = byEmail'[e]
    <3>1. DOMAIN byEmail' = DOMAIN byEmail
      BY <1>1 DEF Types, AccountTypes
    <3>2. \A e \in DOMAIN byEmail : byEmail[e] # Nobody =>
            byEmail[e] \in Users /\ users[byEmail[e]].id = byEmail[e]
      BY DEF AccountInv, UsersAreKnown, Known, Types, AccountTypes
    <3>. QED
      BY <1>1, <1>3, <3>1, <3>2
  <2>4. \A q \in Requests : users'[q].id = q => pc'[q] \in {"issue", "done"}
    <3>1. Requests \subseteq Users
      BY DEF Users
    <3>. QED
      BY <1>1, <3>1 DEF AccountInv, UsersAreKnown, Known, Frame
  <2>. QED
    BY <2>1, <2>2, <2>3, <2>4 DEF UsersAreKnown, Known
<1>8. SessionsAreNamed'
  <2>1. \A s \in Sessions : Exists(s) => sessions[s].user \in Users
    BY DEF Types, AccountTypes, Session, Exists
  <2>. QED
    BY <1>2, <1>4, <1>6, <2>1 DEF AccountInv, SessionsAreNamed, Exists, Endures, Known
<1>9. RefreshesAreNamed'
  <2>1. \A q \in Requests \ {p} : Descending(q)' => Descending(q) /\ req'[q] = req[q]
    BY <1>1 DEF Frame, Descending
  <2>2. ~Descending(p)'
    BY <1>3 DEF Descending
  <2>. QED
    BY <1>6, <2>1, <2>2 DEF AccountInv, RefreshesAreNamed
<1>10. OneActive'
  BY <1>2 DEF AccountInv, OneActive, ActiveOf
<1>11. RefreshesAlone'
  <2> SUFFICES ASSUME NEW q \in Requests, NEW c, c = req'[q].about, c \notin raced'
               PROVE  /\ pc'[q] \in {"owner", "rotate"} => ActiveOf(c)' \subseteq {req'[q].value}
                      /\ pc'[q] = "issue" /\ req'[q].op = "refresh" => ActiveOf(c)' = {}
    BY DEF RefreshesAlone, ActiveOf
  <2>1. CASE q = p
    BY <1>1, <1>3, <2>1
  <2>2. CASE q # p
    BY <1>1, <1>2, <2>2 DEF Frame, AccountInv, RefreshesAlone, ActiveOf
  <2>. QED
    BY <2>1, <2>2
<1>12. VersionsCount'
  <2>1. \A u \in Users : users'[u] = users[u] \/ users'[u].version = 1
    BY <1>1, <1>3
  <2>2. \A t \in tokens' : t \in tokens \/ t.version = req[p].row.version
    BY <1>2
  <2>3. req'[p].row.version \in {1, req[p].row.version} /\ (pc[p] = "audit" => pc'[p] = "done")
    BY <1>1, <1>3
  <2>4. Frame(p, AccountLabels) /\ AccountLabels \cap {"idle", "done", "refused"} = {}
    BY <1>1, AccountLabelsAre
  <2>. QED
    BY <2>1, <2>2, <2>3, <2>4, CountsStay, Zenon
<1>13. TokensAreBehind'
  <2>1. \A u \in Users \ raced' : users[u].version <= users'[u].version
    <3>1. \A u \in Users : users[u].version \in Nat
      BY DEF Types, AccountTypes, Row
    <3>. QED
      BY <1>1, <1>3, <3>1
  <2>2. req'[p].row.version <= users'[req'[p].row.id].version
    BY <1>3
  <2>. QED
    BY <1>1, <1>2, <2>1, <2>2, BehindStays
<1>14. WritesAreFresh'
  <2> SUFFICES ASSUME NEW q \in Requests, pc'[q] = "write_roles", req'[q].about \notin raced'
               PROVE  req'[q].row = users'[req'[q].about]
    BY DEF WritesAreFresh
  <2>1. q # p
    BY <1>1
  <2>2. pc[q] = "write_roles" /\ req'[q] = req[q] /\ req[q].about \in People
    BY <1>1, <2>1 DEF Frame, AccountInv, AccountShape
  <2>3. users'[req[q].about] = users[req[q].about]
    BY <1>1, <1>2, <2>2 DEF Users
  <2>. QED
    BY <1>2, <2>2, <2>3 DEF AccountInv, WritesAreFresh
<1>15. Unaudited(p)
  BY <1>1, <1>2 DEF Unaudited, Users, Authorized
<1>16. TrailsLead' /\ AdminsWereMade' /\ \A u \in People : MadeAdmin(u) => MadeAdmin(u)'
  BY <1>1, <1>15, TrailsStay, AdminsStay
<1>. QED
  BY <1>5, <1>7, <1>8, <1>9, <1>10, <1>11, <1>12, <1>13, <1>14, <1>16 DEF AccountInv

\* A sign-in has no active session when a request issues one for it.
LEMMA IssueKeeps ==
    ASSUME Types, Apart, AccountInv, NEW p \in Requests, Issue(p)
    PROVE  AccountInv' /\ \A u \in People : MadeAdmin(u) => MadeAdmin(u)'
<1>1. PICK row \in Row, chain \in Sessions : row = req[p].row /\ chain = req[p].chain
  <2>1. req[p].chain \in Sessions
    BY IssueFrame DEF AccountInv
  <2>. QED
    BY <2>1 DEF Types, AccountTypes, Local
<1>2. /\ AccountTypes' /\ Frame(p, AccountLabels) /\ pc[p] = "issue" /\ pc'[p] = "done"
      /\ sessions'[p] = [user |-> row.id, chain |-> chain, state |-> "active"]
      /\ \A s \in Sessions \ {p} : sessions'[s] = sessions[s]
      /\ tokens' = tokens \cup {[user |-> row.id, version |-> row.version]}
  BY <1>1, IssueFrame DEF AccountInv
<1>3. UNCHANGED <<users, byEmail, audits, raced>> /\ p \in Sessions
  BY DEF Issue, Sessions
<1>4. /\ row.id \in Users /\ Known(row.id) /\ req[p].op \in {"signup", "signin", "refresh"}
      /\ req[p].op # "refresh" => chain = p
      /\ req[p].op = "refresh" => req[p].about = chain
  BY <1>1, <1>2 DEF AccountInv, AccountShape
<1>5. req'[p] = Blank
  BY <1>2 DEF Frame, AccountLabels
<1>6. ~Exists(p)
  BY <1>2, <1>3 DEF AccountInv, SessionsAreNamed
<1>7. Endures
  BY <1>2, <1>3, <1>6 DEF Endures, Known, Exists
<1>8. \A q \in Requests : AccountShape(q)'
  <2>1. AccountShape(p)'
    BY <1>2, <1>5 DEF AccountShape, Authorized
  <2>. QED
    BY <1>2, <1>7, <2>1, OthersShape DEF AccountInv
<1>9. \A q \in Requests : pc[q] = "done" => pc'[q] = "done"
  BY <1>2, DoneStays, AccountLabelsAre
<1>10. UsersAreKnown'
  <2>1. \A q \in Requests : pc[q] \in {"issue", "done"} => pc'[q] \in {"issue", "done"}
    BY <1>2, <1>9 DEF Frame
  <2>. QED
    BY <1>3, <2>1 DEF AccountInv, UsersAreKnown, Known
<1>11. chain \in Requests => chain = p \/ pc[chain] = "done"
  <2>1. req[p].op = "refresh" => Descending(p) /\ req[p].chain = chain
    BY <1>1, <1>2 DEF Descending
  <2>. QED
    BY <1>4, <2>1 DEF AccountInv, RefreshesAreNamed
<1>12. SessionsAreNamed'
  <2> SUFFICES ASSUME NEW s \in Sessions, sessions'[s] # NoSession
               PROVE  /\ users'[sessions'[s].user].id = sessions'[s].user
                      /\ s \in Requests => pc'[s] = "done"
                      /\ sessions'[s].chain \in Requests => pc'[sessions'[s].chain] = "done"
    BY DEF SessionsAreNamed, Exists, Known
  <2>1. CASE s = p
    BY <1>2, <1>3, <1>4, <1>9, <1>11, <2>1 DEF Known
  <2>2. CASE s # p
    <3>1. Exists(s) /\ sessions'[s] = sessions[s]
      BY <1>2, <2>2 DEF Exists
    <3>. QED
      BY <1>3, <1>9, <3>1 DEF AccountInv, SessionsAreNamed, Known
  <2>. QED
    BY <2>1, <2>2
<1>13. RefreshesAreNamed'
  <2>1. \A q \in Requests : Descending(q)' => Descending(q) /\ req'[q] = req[q]
    BY <1>2 DEF Frame, Descending
  <2>. QED
    BY <1>9, <2>1 DEF AccountInv, RefreshesAreNamed
<1>14. p \notin ActiveOf(chain) /\ \A c \in Sessions \ {chain} : ActiveOf(c)' = ActiveOf(c)
  <2>1. sessions[p] = NoSession /\ NoSession.state = "none" /\ sessions'[p].chain = chain
    BY <1>2, <1>6 DEF Exists, NoSession
  <2>. QED
    BY <1>2, <2>1 DEF ActiveOf
<1>15. ASSUME chain \notin raced
       PROVE  ActiveOf(chain) = {} /\ ActiveOf(chain)' \subseteq {p}
  <2>1. req[p].op = "refresh" => ActiveOf(chain) = {}
    BY <1>2, <1>4, <1>15 DEF AccountInv, RefreshesAlone
  <2>2. ASSUME req[p].op # "refresh"
        PROVE  ActiveOf(chain) = {}
    <3>1. \A s \in Sessions : Exists(s) => sessions[s].chain # p
      BY <1>2 DEF AccountInv, SessionsAreNamed
    <3>2. \A s \in Sessions : ~Exists(s) => sessions[s].state = "none"
      BY DEF Exists, NoSession
    <3>. QED
      BY <1>4, <2>2, <3>1, <3>2 DEF ActiveOf
  <2>3. ActiveOf(chain) = {}
    BY <2>1, <2>2
  <2>. QED
    BY <1>2, <2>3 DEF ActiveOf
<1>16. OneActive'
  <2> SUFFICES ASSUME NEW c \in Sessions \ raced, NEW s \in ActiveOf(c)', NEW t \in ActiveOf(c)'
               PROVE  s = t
    BY <1>3 DEF OneActive
  <2>1. CASE c = chain
    BY <1>15, <2>1
  <2>2. CASE c # chain
    BY <1>14, <2>2 DEF AccountInv, OneActive
  <2>. QED
    BY <2>1, <2>2
<1>17. RefreshesAlone'
  <2> SUFFICES ASSUME NEW q \in Requests, NEW c, c = req'[q].about, c \notin raced,
                      pc'[q] \in {"owner", "rotate"} \/ (pc'[q] = "issue" /\ req'[q].op = "refresh")
               PROVE  /\ pc'[q] \in {"owner", "rotate"} => ActiveOf(c)' \subseteq {req'[q].value}
                      /\ pc'[q] = "issue" /\ req'[q].op = "refresh" => ActiveOf(c)' = {}
    BY <1>3 DEF RefreshesAlone, ActiveOf
  <2>1. q # p /\ pc'[q] = pc[q] /\ req'[q] = req[q] /\ Descending(q)
    <3>1. q # p
      BY <1>2
    <3>2. pc'[q] = pc[q] /\ req'[q] = req[q]
      BY <1>2, <3>1 DEF Frame
    <3>. QED
      BY <3>1, <3>2 DEF Descending, AccountInv, AccountShape
  <2>2. c \in Sessions /\ c = req[q].chain
    BY <2>1 DEF Descending, AccountInv, AccountShape
  <2>3. c # chain
    <3>1. CASE req[p].op = "refresh"
      <4>1. p \in InFlight /\ q \in InFlight
        BY <1>2, <2>1 DEF InFlight, Descending
      <4>. QED
        BY <1>4, <2>1, <3>1, <4>1 DEF Apart
    <3>2. CASE req[p].op # "refresh"
      BY <1>2, <1>4, <2>1, <2>2, <3>2 DEF AccountInv, RefreshesAreNamed
    <3>. QED
      BY <3>1, <3>2
  <2>4. ActiveOf(c)' = ActiveOf(c)
    BY <1>14, <2>2, <2>3
  <2>. QED
    BY <2>1, <2>4 DEF AccountInv, RefreshesAlone
<1>18. VersionsCount'
  <2>1. \A u \in Users : users'[u] = users[u] \/ users'[u].version = 1
    BY <1>3
  <2>2. \A t \in tokens' : t \in tokens \/ t.version = req[p].row.version
    BY <1>1, <1>2
  <2>3. req'[p].row.version \in {1, req[p].row.version} /\ (pc[p] = "audit" => pc'[p] = "done")
    BY <1>2, <1>5, BlankIsLocal DEF NoUser
  <2>4. Frame(p, AccountLabels) /\ AccountLabels \cap {"idle", "done", "refused"} = {}
    BY <1>2, AccountLabelsAre
  <2>. QED
    BY <2>1, <2>2, <2>3, <2>4, CountsStay, Zenon
<1>19. TokensAreBehind'
  <2>1. \A u \in Users \ raced' : users[u].version <= users'[u].version
    BY <1>3 DEF Types, AccountTypes, Row
  <2>2. row.id \in raced \/ row.version <= users[row.id].version
    BY <1>1, <1>2 DEF AccountInv, TokensAreBehind, Behind
  <2>3. \A t \in tokens' : t \in tokens \/ Behind(t.user, t.version)'
    BY <1>2, <1>3, <2>2 DEF Behind
  <2>. QED
    BY <1>2, <2>1, <2>3, BehindStays
<1>20. WritesAreFresh'
  BY <1>2, <1>3 DEF Frame, AccountInv, WritesAreFresh
<1>21. Unaudited(p)
  BY <1>2, <1>3 DEF Unaudited, Authorized
<1>22. TrailsLead' /\ AdminsWereMade' /\ \A u \in People : MadeAdmin(u) => MadeAdmin(u)'
  BY <1>2, <1>21, TrailsStay, AdminsStay
<1>. QED
  BY <1>8, <1>10, <1>12, <1>13, <1>16, <1>17, <1>18, <1>19, <1>20, <1>22 DEF AccountInv

\* A session that is revoked takes one from the active ones of its sign-in.
LEMMA RevokingKeeps ==
    ASSUME Types, AccountInv, NEW p \in Requests, NEW s \in Sessions,
           Frame(p, AccountLabels), AccountTypes', AccountShape(p)',
           Exists(s), sessions' = Revoked(s), UNCHANGED <<users, byEmail, tokens, audits, raced>>,
           pc[p] \in {"rotate", "revoke"},
           \/ pc'[p] = "done"
           \/ pc[p] = "rotate" /\ pc'[p] = "issue" /\ req'[p] = req[p] /\ s = req[p].value
    PROVE  AccountInv' /\ \A u \in People : MadeAdmin(u) => MadeAdmin(u)'
<1>1. /\ sessions'[s].user = sessions[s].user /\ sessions'[s].chain = sessions[s].chain
      /\ sessions'[s].state = "revoked" /\ sessions'[s] \in Session
      /\ \A x \in Sessions \ {s} : sessions'[x] = sessions[x]
  BY RevokedSession DEF Types
<1>2. sessions'[s] # NoSession
  BY <1>1 DEF NoSession, Session
<1>3. pc'[p] = "done" => req'[p] = Blank
  BY DEF Frame, AccountLabels
<1>4. Endures
  BY <1>1, <1>2 DEF Endures, Known, Exists
<1>5. \A q \in Requests : AccountShape(q)'
  BY <1>4, OthersShape DEF AccountInv
<1>6. \A q \in Requests : pc[q] = "done" => pc'[q] = "done"
  BY DoneStays, AccountLabelsAre
<1>7. UsersAreKnown'
  <2>1. \A q \in Requests : pc[q] \in {"issue", "done"} => pc'[q] \in {"issue", "done"}
    BY <1>6 DEF Frame
  <2>. QED
    BY <2>1 DEF AccountInv, UsersAreKnown, Known
<1>8. SessionsAreNamed'
  <2> SUFFICES ASSUME NEW x \in Sessions, sessions'[x] # NoSession
               PROVE  /\ users'[sessions'[x].user].id = sessions'[x].user
                      /\ x \in Requests => pc'[x] = "done"
                      /\ sessions'[x].chain \in Requests => pc'[sessions'[x].chain] = "done"
    BY DEF SessionsAreNamed, Exists, Known
  <2>1. /\ Exists(x) /\ sessions'[x].user = sessions[x].user
        /\ sessions'[x].chain = sessions[x].chain
    BY <1>1 DEF Exists
  <2>. QED
    BY <1>6, <2>1 DEF AccountInv, SessionsAreNamed, Known
<1>9. RefreshesAreNamed'
  <2>1. ASSUME NEW q \in Requests, Descending(q)'
        PROVE  Descending(q) /\ req'[q] = req[q]
    <3>1. CASE q = p
      <4>1. pc[p] = "rotate" /\ req'[p] = req[p]
        BY <2>1, <3>1 DEF Descending
      <4>. QED
        BY <3>1, <4>1 DEF Descending, AccountInv, AccountShape
    <3>2. CASE q # p
      BY <2>1, <3>2 DEF Frame, Descending
    <3>. QED
      BY <3>1, <3>2
  <2>. QED
    BY <1>6, <2>1 DEF AccountInv, RefreshesAreNamed
<1>10. \A c : ActiveOf(c)' = ActiveOf(c) \ {s}
  BY <1>1 DEF ActiveOf
<1>11. OneActive'
  <2> SUFFICES ASSUME NEW c \in Sessions \ raced, NEW x \in ActiveOf(c)', NEW y \in ActiveOf(c)'
               PROVE  x = y
    BY DEF OneActive
  <2>. QED
    BY <1>10 DEF AccountInv, OneActive
<1>12. RefreshesAlone'
  <2> SUFFICES ASSUME NEW q \in Requests, NEW c, c = req'[q].about, c \notin raced
               PROVE  /\ pc'[q] \in {"owner", "rotate"} => ActiveOf(c)' \subseteq {req'[q].value}
                      /\ pc'[q] = "issue" /\ req'[q].op = "refresh" => ActiveOf(c)' = {}
    BY DEF RefreshesAlone, ActiveOf
  <2>1. CASE q = p
    BY <1>10, <2>1 DEF AccountInv, RefreshesAlone
  <2>2. CASE q # p
    BY <1>10, <2>2 DEF Frame, AccountInv, RefreshesAlone
  <2>. QED
    BY <2>1, <2>2
<1>13. req'[p].row.version \in {1, req[p].row.version}
  BY <1>3, BlankIsLocal DEF NoUser
<1>14. VersionsCount'
  <2>1. \A u \in Users : users'[u] = users[u] \/ users'[u].version = 1
    OBVIOUS
  <2>2. \A t \in tokens' : t \in tokens \/ t.version = req[p].row.version
    OBVIOUS
  <2>3. pc[p] = "audit" => pc'[p] = "done"
    OBVIOUS
  <2>4. AccountLabels \cap {"idle", "done", "refused"} = {}
    BY AccountLabelsAre
  <2>. QED
    BY <1>13, <2>1, <2>2, <2>3, <2>4, CountsStay, Zenon
<1>15. TokensAreBehind'
  <2>1. \A u \in Users \ raced' : users[u].version <= users'[u].version
    BY DEF Types, AccountTypes, Row
  <2>2. pc'[p] \in {"rotate", "issue"} =>
          req'[p].row.id \in raced' \/ req'[p].row.version <= users'[req'[p].row.id].version
    BY DEF AccountInv, TokensAreBehind, Behind
  <2>. QED
    BY <2>1, <2>2, BehindStays
<1>16. WritesAreFresh'
  BY DEF Frame, AccountInv, WritesAreFresh
<1>17. Unaudited(p)
  BY DEF Unaudited, Authorized
<1>18. TrailsLead' /\ AdminsWereMade' /\ \A u \in People : MadeAdmin(u) => MadeAdmin(u)'
  BY <1>17, TrailsStay, AdminsStay
<1>. QED
  BY <1>5, <1>7, <1>8, <1>9, <1>11, <1>12, <1>14, <1>15, <1>16, <1>18 DEF AccountInv

\* Rotate keeps the invariant of the accounts.
LEMMA RotateKeeps ==
    ASSUME Types, AccountInv, NEW p \in Requests, Rotate(p)
    PROVE  AccountInv' /\ \A u \in People : MadeAdmin(u) => MadeAdmin(u)'
<1>1. /\ AccountTypes' /\ Frame(p, AccountLabels) /\ pc[p] = "rotate" /\ pc'[p] = "issue"
      /\ req'[p] = req[p] /\ sessions' = Revoked(req[p].value)
      /\ req[p].value \in Sessions /\ Exists(req[p].value)
  BY RotateFrame DEF AccountInv
<1>2. PICK s \in Sessions : s = req[p].value
  BY <1>1
<1>3. Exists(s) /\ sessions' = Revoked(s)
  BY <1>1, <1>2
<1>4. UNCHANGED <<users, byEmail, tokens, audits, raced>>
  BY DEF Rotate
<1>5. AccountShape(p)'
  <2>1. AccountShape(p)
    BY DEF AccountInv
  <2>. QED
    BY <1>1, <1>4, <2>1 DEF AccountShape, Authorized, Known
<1>. QED
  BY <1>1, <1>2, <1>3, <1>4, <1>5, RevokingKeeps

\* RevokeSession keeps the invariant of the accounts.
LEMMA RevokeSessionKeeps ==
    ASSUME Types, AccountInv, NEW p \in Requests, RevokeSession(p)
    PROVE  AccountInv' /\ \A u \in People : MadeAdmin(u) => MadeAdmin(u)'
<1>1. /\ AccountTypes' /\ Frame(p, AccountLabels) /\ pc[p] = "revoke" /\ pc'[p] = "done"
      /\ sessions' = Revoked(req[p].value)
      /\ req[p].value \in Sessions /\ Exists(req[p].value)
  BY RevokeSessionFrame DEF AccountInv
<1>2. PICK s \in Sessions : s = req[p].value
  BY <1>1
<1>3. Exists(s) /\ sessions' = Revoked(s)
  BY <1>1, <1>2
<1>4. UNCHANGED <<users, byEmail, tokens, audits, raced>>
  BY DEF RevokeSession
<1>5. AccountShape(p)'
  <2>1. req'[p] = Blank
    BY <1>1 DEF Frame, AccountLabels
  <2>. QED
    BY <1>1, <2>1 DEF AccountShape, Authorized
<1>. QED
  BY <1>1, <1>2, <1>3, <1>4, <1>5, RevokingKeeps

\* Outside the raced, whoever writes a role is alone with its user.
LEMMA AloneWith ==
    ASSUME Apart, NEW p \in InFlight, NEW q \in InFlight, req[p].about = req[q].about,
           req[p].about \notin raced
    PROVE  q = p
BY DEF Apart

\* A user has finitely many events.
LEMMA EventsCounted ==
    ASSUME Types, NEW u
    PROVE  IsFiniteSet(EventsOf(u)) /\ Cardinality(EventsOf(u)) \in Nat
<1>1. Len(audits) \in Nat /\ DOMAIN audits = 1..Len(audits)
  BY DEF Types, AccountTypes
<1>2. IsFiniteSet(1..Len(audits))
  BY <1>1, FS_Interval
<1>3. EventsOf(u) \subseteq 1..Len(audits)
  BY <1>1 DEF EventsOf
<1>. HIDE DEF EventsOf
<1>4. IsFiniteSet(EventsOf(u))
  BY <1>2, <1>3, FS_Subset
<1>. QED
  BY <1>4, FS_CardinalityType

\* WriteRoles keeps the invariant of the accounts.
LEMMA WriteRolesKeeps ==
    ASSUME Types, Apart, AccountInv, NEW p \in Requests, WriteRoles(p)
    PROVE  AccountInv' /\ \A u \in People : MadeAdmin(u) => MadeAdmin(u)'
<1>1. /\ AccountTypes' /\ Frame(p, AccountLabels)
      /\ pc[p] = "write_roles" /\ pc'[p] = "audit"
      /\ req'[p] = req[p] /\ req[p].about \in People
      /\ users'[req[p].about].id = req[p].about
      /\ users'[req[p].about].role = req[p].value
      /\ users'[req[p].about].version = req[p].row.version + 1
      /\ \A u \in Users \ {req[p].about} : users'[u] = users[u]
  BY WriteRolesFrame DEF AccountInv
<1>2. PICK v \in People : v = req[p].about
  BY <1>1
<1>3. /\ UNCHANGED <<byEmail, sessions, tokens, audits, raced>> /\ v \in Users
      /\ users'[v].id = v /\ Known(v) /\ p \in InFlight
  BY <1>1, <1>2 DEF WriteRoles, Users, AccountInv, UsersAreKnown, InFlight
<1>4. AccountShape(p)
  BY DEF AccountInv
<1>5. Endures
  BY <1>1, <1>2, <1>3 DEF Endures, Known, Exists
<1>6. \A q \in Requests : AccountShape(q)'
  <2>1. AccountShape(p)'
    BY <1>1, <1>4 DEF AccountShape, Authorized
  <2>. QED
    BY <1>1, <1>5, <2>1, OthersShape DEF AccountInv
<1>7. \A q \in Requests : pc[q] = "done" => pc'[q] = "done"
  BY <1>1, DoneStays, AccountLabelsAre
<1>8. UsersAreKnown'
  <2>1. \A u \in Users : Known(u)' <=> Known(u)
    BY <1>1, <1>2, <1>3 DEF Known
  <2>2. \A u \in Users : users'[u] = NoUser \/ Known(u)'
    BY <1>1, <1>2, <1>3 DEF AccountInv, UsersAreKnown, Known
  <2>3. \A q \in Requests : Known(q)' => pc'[q] \in {"issue", "done"}
    <3>1. Requests \subseteq Users
      BY DEF Users
    <3>. QED
      BY <1>1, <2>1, <3>1 DEF AccountInv, UsersAreKnown, Frame
  <2>4. \A e \in DOMAIN byEmail : byEmail[e] # Nobody => Known(byEmail[e]) /\ byEmail[e] \in Users
    BY DEF AccountInv, UsersAreKnown, Types, AccountTypes
  <2>5. \A e \in DOMAIN byEmail' : byEmail'[e] # Nobody => users'[byEmail'[e]].id = byEmail'[e]
    BY <1>3, <2>1, <2>4 DEF Known
  <2>6. \A u \in People : Known(u)'
    BY <2>1 DEF AccountInv, UsersAreKnown, Users
  <2>. QED
    BY <2>2, <2>3, <2>5, <2>6 DEF UsersAreKnown, Known
<1>9. SessionsAreNamed'
  <2>1. \A s \in Sessions : Exists(s) => sessions[s].user \in Users
    BY DEF Types, AccountTypes, Session, Exists
  <2>. QED
    BY <1>3, <1>5, <1>7, <2>1 DEF AccountInv, SessionsAreNamed, Exists, Endures, Known
<1>10. \A q \in Requests : Descending(q)' => Descending(q) /\ req'[q] = req[q]
  BY <1>1 DEF Frame, Descending
<1>11. RefreshesAreNamed'
  BY <1>7, <1>10 DEF AccountInv, RefreshesAreNamed
<1>12. OneActive'
  BY <1>3 DEF AccountInv, OneActive, ActiveOf
<1>13. RefreshesAlone'
  BY <1>1, <1>3 DEF Frame, AccountInv, RefreshesAlone, ActiveOf
<1>14. VersionsCount'
  <2> DEFINE n == Cardinality(Wrote)  m == Cardinality(Wrote')
  <2>1. m = n + 1 /\ n \in Nat
    BY <1>1, WroteMore, AccountLabelsAre
  <2>2. /\ \A u \in Users : users[u].version \in 1..n + 1
        /\ \A t \in tokens : t.version \in 1..n + 1
        /\ \A q \in Requests : req[q].row.version \in 1..n + 1
    BY DEF AccountInv, VersionsCount
  <2>3. \A q \in Requests : req'[q] = req[q]
    BY <1>1 DEF Frame
  <2>. HIDE DEF n, m
  <2>4. \A k \in 1..n + 1 : k \in 1..m + 1 /\ k + 1 \in 1..m + 1
    BY <2>1
  <2>5. /\ \A u \in Users : users'[u].version \in 1..m + 1
        /\ \A t \in tokens' : t.version \in 1..m + 1
        /\ \A q \in Requests : req'[q].row.version \in 1..m + 1
    BY <1>1, <1>2, <1>3, <2>2, <2>3, <2>4
  <2>. QED
    BY <2>5 DEF VersionsCount, m
<1>15. TokensAreBehind'
  <2>1. \A u \in Users \ raced' : users[u].version <= users'[u].version
    <3>1. \A u \in Users : users[u].version \in Nat
      BY DEF Types, AccountTypes, Row
    <3>2. v \notin raced => req[p].row = users[v]
      BY <1>1, <1>2 DEF AccountInv, WritesAreFresh
    <3>. QED
      BY <1>1, <1>2, <1>3, <3>1, <3>2
  <2>. QED
    BY <1>1, <1>3, <2>1, BehindStays
<1>16. WritesAreFresh'
  <2> SUFFICES ASSUME NEW q \in Requests, pc'[q] = "write_roles", req'[q].about \notin raced'
               PROVE  req'[q].row = users'[req'[q].about]
    BY DEF WritesAreFresh
  <2>1. q # p /\ pc[q] = "write_roles" /\ req'[q] = req[q] /\ req[q].about \notin raced
    BY <1>1, <1>3 DEF Frame
  <2>2. req[q].row = users[req[q].about] /\ req[q].about \in Users /\ q \in InFlight
    BY <2>1 DEF AccountInv, WritesAreFresh, AccountShape, Users, InFlight
  <2>3. req[q].about # v
    BY <1>2, <1>3, <2>1, <2>2, AloneWith
  <2>. QED
    BY <1>1, <1>2, <2>1, <2>2, <2>3
<1>17. TrailsLead'
  <2> SUFFICES ASSUME NEW u \in People, u \notin raced'
               PROVE  /\ \A i \in EventsOf(u)' : LeavesWith(u, i, audits[i].before)'
                      /\ (\A q \in Requests : ~Auditing(q, u)') =>
                           /\ LeavesWith(u, Len(audits) + 1, users[u].role)'
                           /\ users'[u].version = Cardinality(EventsOf(u)') + 1
                      /\ \A q \in Requests : Auditing(q, u)' =>
                           /\ LeavesWith(u, Len(audits) + 1, req[q].row.role)'
                           /\ users'[u].role = req'[q].value
                           /\ users'[u].version = Cardinality(EventsOf(u)') + 2
    BY DEF TrailsLead
  <2>1. EventsOf(u)' = EventsOf(u)
    BY <1>3 DEF EventsOf
  <2>2. \A n, role : LeavesWith(u, n, role)' <=> LeavesWith(u, n, role)
    BY <1>3, <2>1 DEF LeavesWith
  <2>3. u \notin raced /\ u \in Users
    BY <1>3 DEF Users
  <2>4. CASE u = v
    <3>1. \A q \in Requests : ~Auditing(q, u)
      BY <1>1, <1>2, <1>3, <2>3, <2>4, AloneWith DEF Auditing, InFlight
    <3>2. \A q \in Requests : Auditing(q, u)' => q = p
      BY <1>1, <3>1 DEF Auditing, Frame
    <3>3. req[p].row = users[u]
      BY <1>1, <1>2, <2>3, <2>4 DEF AccountInv, WritesAreFresh
    <3>4. /\ \A i \in EventsOf(u) : LeavesWith(u, i, audits[i].before)
          /\ LeavesWith(u, Len(audits) + 1, users[u].role)
          /\ users[u].version = Cardinality(EventsOf(u)) + 1
      BY <2>3, <3>1 DEF AccountInv, TrailsLead
    <3>5. Cardinality(EventsOf(u)) \in Nat
      BY EventsCounted
    <3>6. Auditing(p, u)'
      BY <1>1, <1>2, <2>4 DEF Auditing
    <3>7. /\ users'[u].role = req'[p].value
          /\ users'[u].version = Cardinality(EventsOf(u)') + 2
      BY <1>1, <1>2, <2>1, <2>4, <3>3, <3>4, <3>5
    <3>. QED
      BY <1>1, <1>3, <2>1, <2>2, <3>2, <3>3, <3>4, <3>6, <3>7
  <2>5. CASE u # v
    <3>1. \A q \in Requests : Auditing(q, u)' <=> Auditing(q, u)
      BY <1>1, <1>2, <2>5 DEF Auditing, Frame
    <3>2. \A q \in Requests : req'[q] = req[q]
      BY <1>1 DEF Frame
    <3>3. users'[u] = users[u]
      BY <1>1, <1>2, <2>3, <2>5
    <3>. QED
      BY <1>3, <2>1, <2>2, <2>3, <3>1, <3>2, <3>3 DEF AccountInv, TrailsLead
  <2>. QED
    BY <2>4, <2>5
<1>18. \A u \in People : MadeAdmin(u) => MadeAdmin(u)'
  BY <1>1, <1>3, MadeStays
<1>19. AdminsWereMade'
  <2>1. \A u \in People : users'[u].role = "admin" => MadeAdmin(u)'
    <3> SUFFICES ASSUME NEW u \in People, users'[u].role = "admin"
                 PROVE  MadeAdmin(u)'
      OBVIOUS
    <3>1. CASE u = v
      BY <1>1, <1>2, <3>1 DEF MadeAdmin
    <3>2. CASE u # v
      BY <1>1, <1>2, <1>18, <3>2 DEF AccountInv, AdminsWereMade, Users
    <3>. QED
      BY <3>1, <3>2
  <2>2. ASSUME NEW q \in Requests, pc'[q] \in Authorized, req'[q].self.id \in People,
               req'[q].self.role = "admin", NEW w, w = req'[q].self.id
        PROVE  MadeAdmin(w)'
    <3>1. pc[q] \in Authorized /\ req'[q] = req[q]
      BY <1>1, <2>2 DEF Frame, Authorized
    <3>. QED
      BY <1>18, <2>2, <3>1 DEF AccountInv, AdminsWereMade
  <2>. QED
    BY <2>1, <2>2 DEF AdminsWereMade, MadeAdmin
<1>. QED
  BY <1>6, <1>8, <1>9, <1>11, <1>12, <1>13, <1>14, <1>15, <1>16, <1>17, <1>18, <1>19
  DEF AccountInv

\* What the trail leaves does not change when other users' events follow.
LEMMA TrailGrows ==
    ASSUME AccountTypes, AccountTypes', Len(audits') = Len(audits) + 1,
           \A i \in 1..Len(audits) : audits'[i] = audits[i], NEW u
    PROVE  /\ DOMAIN audits = 1..Len(audits) /\ Len(audits) \in Nat
           /\ DOMAIN audits' = 1..Len(audits) + 1
           /\ EventsOf(u) = {i \in EventsOf(u)' : i <= Len(audits)}
           /\ \A role : \A i \in 1..Len(audits) + 1 : LeavesWith(u, i, role)' <=> LeavesWith(u, i, role)
<1>1. /\ DOMAIN audits = 1..Len(audits) /\ Len(audits) \in Nat
      /\ DOMAIN audits' = 1..Len(audits) + 1
  BY DEF AccountTypes
<1>2. \A i : i \in EventsOf(u) <=> i \in EventsOf(u)' /\ i <= Len(audits)
  BY <1>1 DEF EventsOf
<1>3. EventsOf(u) = {i \in EventsOf(u)' : i <= Len(audits)}
  BY <1>2
<1>4. ASSUME NEW i \in 1..Len(audits) + 1, NEW role
      PROVE  LeavesWith(u, i, role)' <=> LeavesWith(u, i, role)
  <2> DEFINE before == {j \in EventsOf(u) : j < i}
  <2>1. before = {j \in EventsOf(u)' : j < i}
    <3>1. \A j \in EventsOf(u)' : j \in Nat
      BY <1>1 DEF EventsOf
    <3>. QED
      BY <1>1, <1>2, <3>1
  <2>2. \A j \in before : audits'[j] = audits[j]
    BY <1>1 DEF EventsOf
  <2>3. LeavesWith(u, i, role) <=> \/ before = {} /\ role = RoleOf[u]
                                   \/ \E j \in before : /\ audits[j].after = role
                                                        /\ \A k \in before : k <= j
    BY DEF LeavesWith
  <2>4. LeavesWith(u, i, role)' <=> \/ before = {} /\ role = RoleOf[u]
                                    \/ \E j \in before : /\ audits'[j].after = role
                                                         /\ \A k \in before : k <= j
    BY <2>1 DEF LeavesWith
  <2>. HIDE DEF before
  <2>. QED
    BY <2>2, <2>3, <2>4
<1>. QED
  BY <1>1, <1>3, <1>4

\* Audit keeps the invariant of the accounts.
LEMMA AuditKeeps ==
    ASSUME Types, Apart, AccountInv, NEW p \in Requests, Audit(p)
    PROVE  AccountInv' /\ \A u \in People : MadeAdmin(u) => MadeAdmin(u)'
<1>1. /\ AccountTypes' /\ Frame(p, AccountLabels) /\ pc[p] = "audit" /\ pc'[p] = "done"
      /\ Len(audits') = Len(audits) + 1
      /\ \A i \in 1..Len(audits) : audits'[i] = audits[i]
      /\ audits'[Len(audits) + 1].user = req[p].about
      /\ audits'[Len(audits) + 1].before = req[p].row.role
      /\ audits'[Len(audits) + 1].after = req[p].value
  BY AuditFrame DEF AccountInv
<1>2. PICK v \in People : v = req[p].about
  BY <1>1 DEF AccountInv, AccountShape
<1>3. /\ UNCHANGED <<users, byEmail, sessions, tokens, raced>> /\ p \in InFlight
      /\ req'[p] = Blank
  BY <1>1 DEF Audit, InFlight, Frame, AccountLabels
<1>4. AccountTypes
  BY DEF Types
<1>5. Endures
  BY <1>3 DEF Endures, Known, Exists
<1>6. \A q \in Requests : AccountShape(q)'
  <2>1. AccountShape(p)'
    BY <1>1, <1>3 DEF AccountShape, Authorized
  <2>. QED
    BY <1>1, <1>5, <2>1, OthersShape DEF AccountInv
<1>7. \A q \in Requests : pc[q] = "done" => pc'[q] = "done"
  BY <1>1, DoneStays, AccountLabelsAre
<1>8. UsersAreKnown'
  <2>1. \A q \in Requests : pc[q] \in {"issue", "done"} => pc'[q] \in {"issue", "done"}
    BY <1>1, <1>7 DEF Frame
  <2>. QED
    BY <1>3, <2>1 DEF AccountInv, UsersAreKnown, Known
<1>9. SessionsAreNamed'
  BY <1>3, <1>7 DEF AccountInv, SessionsAreNamed, Exists, Known
<1>10. \A q \in Requests : Descending(q)' => Descending(q) /\ req'[q] = req[q]
  BY <1>1 DEF Frame, Descending
<1>11. RefreshesAreNamed'
  BY <1>7, <1>10 DEF AccountInv, RefreshesAreNamed
<1>12. OneActive'
  BY <1>3 DEF AccountInv, OneActive, ActiveOf
<1>13. RefreshesAlone'
  BY <1>1, <1>3 DEF Frame, AccountInv, RefreshesAlone, ActiveOf
<1>14. VersionsCount'
  <2>1. req'[p].row.version = 1
    BY <1>3, BlankIsLocal DEF NoUser
  <2>. QED
    BY <1>1, <1>3, <2>1, CountsStay, AccountLabelsAre
<1>15. TokensAreBehind'
  <2>1. \A u \in Users : users[u].version <= users'[u].version
    BY <1>3 DEF Types, AccountTypes, Row
  <2>. QED
    BY <1>1, <1>3, <2>1, BehindStays
<1>16. WritesAreFresh'
  BY <1>1, <1>3 DEF Frame, AccountInv, WritesAreFresh
<1>17. \A u \in People : MadeAdmin(u) => MadeAdmin(u)'
  <2>1. DOMAIN audits = 1..Len(audits) /\ DOMAIN audits' = 1..Len(audits) + 1 /\ Len(audits) \in Nat
    BY <1>1, <1>4, TrailGrows
  <2>2. \A i \in DOMAIN audits : i \in DOMAIN audits' /\ audits'[i] = audits[i]
    BY <1>1, <2>1
  <2>3. \E i \in DOMAIN audits' : audits'[i].user = req[p].about /\ audits'[i].after = req[p].value
    BY <1>1, <2>1
  <2>. QED
    BY <1>1, <2>2, <2>3, MadeStays
<1>18. AdminsWereMade'
  <2>1. \A u \in People : users'[u].role = "admin" => MadeAdmin(u)'
    BY <1>3, <1>17 DEF AccountInv, AdminsWereMade
  <2>2. ASSUME NEW q \in Requests, pc'[q] \in Authorized, req'[q].self.id \in People,
               req'[q].self.role = "admin", NEW w, w = req'[q].self.id
        PROVE  MadeAdmin(w)'
    <3>1. pc[q] \in Authorized /\ req'[q] = req[q]
      BY <1>1, <2>2 DEF Frame, Authorized
    <3>. QED
      BY <1>17, <2>2, <3>1 DEF AccountInv, AdminsWereMade
  <2>. QED
    BY <2>1, <2>2 DEF AdminsWereMade, MadeAdmin
<1>19. TrailsLead'
  <2> SUFFICES ASSUME NEW u \in People, u \notin raced'
               PROVE  /\ \A i \in EventsOf(u)' : LeavesWith(u, i, audits[i].before)'
                      /\ (\A q \in Requests : ~Auditing(q, u)') =>
                           /\ LeavesWith(u, Len(audits) + 1, users[u].role)'
                           /\ users'[u].version = Cardinality(EventsOf(u)') + 1
                      /\ \A q \in Requests : Auditing(q, u)' =>
                           /\ LeavesWith(u, Len(audits) + 1, req[q].row.role)'
                           /\ users'[u].role = req'[q].value
                           /\ users'[u].version = Cardinality(EventsOf(u)') + 2
    BY DEF TrailsLead
  <2> DEFINE n == Len(audits)
  <2>1. /\ DOMAIN audits = 1..n /\ n \in Nat /\ Len(audits') = n + 1 /\ DOMAIN audits' = 1..n + 1
        /\ EventsOf(u) = {i \in EventsOf(u)' : i <= n}
        /\ \A role : \A i \in 1..n + 1 : LeavesWith(u, i, role)' <=> LeavesWith(u, i, role)
    BY <1>1, <1>4, TrailGrows
  <2>2. \A i \in EventsOf(u) : LeavesWith(u, i, audits[i].before)
    BY <1>3 DEF AccountInv, TrailsLead
  <2>3. \A i \in EventsOf(u)' : i \in 1..n + 1 /\ (i \in EventsOf(u) \/ i = n + 1)
    BY <2>1 DEF EventsOf
  <2>4. CASE u = v
    <3>1. Auditing(p, u) /\ \A q \in Requests \ {p} : ~Auditing(q, u)
      BY <1>1, <1>2, <1>3, <2>4, AloneWith DEF Auditing, InFlight
    <3>2. /\ LeavesWith(u, n + 1, req[p].row.role)
          /\ users[u].role = req[p].value
          /\ users[u].version = Cardinality(EventsOf(u)) + 2
      BY <1>3, <3>1 DEF AccountInv, TrailsLead
    <3>3. EventsOf(u)' = EventsOf(u) \cup {n + 1} /\ n + 1 \notin EventsOf(u)
      BY <1>1, <1>2, <2>1, <2>4 DEF EventsOf
    <3>4. Cardinality(EventsOf(u)') = Cardinality(EventsOf(u)) + 1 /\ Cardinality(EventsOf(u)) \in Nat
      <4>1. IsFiniteSet(EventsOf(u)) /\ Cardinality(EventsOf(u)) \in Nat
        BY EventsCounted
      <4>. HIDE DEF EventsOf
      <4>. QED
        BY <3>3, <4>1, FS_AddElement
    <3>5. \A i \in EventsOf(u)' : LeavesWith(u, i, audits[i].before)'
      <4> SUFFICES ASSUME NEW i \in EventsOf(u)' PROVE LeavesWith(u, i, audits'[i].before)
        BY <2>1, <2>3
      <4>1. CASE i = n + 1
        BY <1>1, <3>2, <4>1
      <4>2. CASE i \in EventsOf(u)
        <5>1. audits'[i] = audits[i]
          BY <1>1, <2>1, <4>2 DEF EventsOf
        <5>. QED
          BY <2>2, <4>2, <5>1
      <4>. QED
        BY <2>3, <4>1, <4>2
    <3>6. \A q \in Requests : ~Auditing(q, u)'
      BY <1>1, <3>1 DEF Auditing, Frame
    <3>7. LeavesWith(u, Len(audits) + 1, users[u].role)'
      <4>1. n + 1 \in {i \in EventsOf(u)' : i < n + 1 + 1}
        BY <2>1, <3>3
      <4>2. audits'[n + 1].after = users'[u].role
        BY <1>1, <1>3, <3>2
      <4>3. \A i \in {j \in EventsOf(u)' : j < n + 1 + 1} : i <= n + 1
        BY <2>1, <2>3
      <4>. QED
        BY <2>1, <4>1, <4>2, <4>3 DEF LeavesWith
    <3>. QED
      BY <1>3, <3>2, <3>4, <3>5, <3>6, <3>7
  <2>5. CASE u # v
    <3>1. n + 1 \notin EventsOf(u)'
      BY <1>1, <1>2, <2>1, <2>5 DEF EventsOf
    <3>2. EventsOf(u)' = EventsOf(u)
      BY <2>1, <2>3, <3>1
    <3>3. \A i \in EventsOf(u)' : LeavesWith(u, i, audits[i].before)'
      <4> SUFFICES ASSUME NEW i \in EventsOf(u) PROVE LeavesWith(u, i, audits'[i].before)
        BY <2>1, <2>3, <3>2
      <4>1. audits'[i] = audits[i]
        BY <1>1, <2>1 DEF EventsOf
      <4>. QED
        BY <2>2, <4>1
    <3>4. \A role : LeavesWith(u, Len(audits) + 1, role)' <=> LeavesWith(u, n + 1, role)
      <4> SUFFICES ASSUME NEW role
                   PROVE  LeavesWith(u, Len(audits) + 1, role)' <=> LeavesWith(u, n + 1, role)
        OBVIOUS
      <4>1. {j \in EventsOf(u)' : j < n + 1 + 1} = {j \in EventsOf(u)' : j < n + 1}
        BY <2>1, <2>3, <3>1, <3>2
      <4>2. LeavesWith(u, Len(audits) + 1, role)' <=> LeavesWith(u, Len(audits), role)'
        BY <2>1, <4>1 DEF LeavesWith
      <4>. QED
        BY <2>1, <4>2
    <3>5. \A q \in Requests : /\ Auditing(q, u)' <=> Auditing(q, u)
                              /\ Auditing(q, u) => req'[q] = req[q]
      BY <1>1, <1>2, <2>5 DEF Auditing, Frame
    <3>. QED
      BY <1>3, <3>2, <3>3, <3>4, <3>5 DEF AccountInv, TrailsLead
  <2>. QED
    BY <2>4, <2>5
<1>. QED
  BY <1>6, <1>8, <1>9, <1>11, <1>12, <1>13, <1>14, <1>15, <1>16, <1>17, <1>18, <1>19
  DEF AccountInv

-----------------------------------------------------------------------------
(* What every step keeps of the shares.                                    *)

\* Who was given a share by a request stays given.
LEMMA GrantedStays ==
    ASSUME SharesStay, NEW a
    PROVE  GrantedTo(a) \subseteq GrantedTo(a)'
<1> SUFFICES ASSUME NEW h \in shares, h.ask = a
             PROVE  \E k \in shares' : k.ask = a /\ k.to = h.to
  BY DEF GrantedTo, Granted
<1>. QED
  BY DEF SharesStay

\* Shares that do not change stay.
LEMMA SharesSame ==
    ASSUME shares' = shares
    PROVE  SharesStay
BY DEF SharesStay

\* Shares that are only added to stay.
LEMMA SharesGrow ==
    ASSUME shares \subseteq shares'
    PROVE  SharesStay
BY DEF SharesStay

\* Files seen were granted when whoever sees one more was.
LEMMA GrantedFilesStay ==
    ASSUME FilesWereGranted, scope' = scope, SharesStay,
           \A u \in People : MadeAdmin(u) => MadeAdmin(u)',
           \A u \in Users, f \in Files : <<u, f>> \in seen' =>
               \/ <<u, f>> \in seen
               \/ u = OwnerOf[f]
               \/ u \in People /\ (MadeAdmin(u) \/ scope[f] = "org")
               \/ \E h \in shares : h.to = u /\ h.file = f
    PROVE  FilesWereGranted'
<1> SUFFICES ASSUME NEW u \in Users, NEW f \in Files, <<u, f>> \in seen'
             PROVE  \/ u = OwnerOf[f]
                    \/ u \in People /\ (MadeAdmin(u)' \/ scope'[f] = "org")
                    \/ \E h \in shares' : h.to = u /\ h.file = f
  BY DEF FilesWereGranted
<1>1. \/ u = OwnerOf[f]
      \/ u \in People /\ (MadeAdmin(u) \/ scope[f] = "org")
      \/ \E h \in shares : h.to = u /\ h.file = f
  BY DEF FilesWereGranted
<1>2. CASE u = OwnerOf[f]
  BY <1>2
<1>3. CASE u \in People /\ (MadeAdmin(u) \/ scope[f] = "org")
  BY <1>3
<1>4. CASE \E h \in shares : h.to = u /\ h.file = f
  BY <1>4 DEF SharesStay
<1>. QED
  BY <1>1, <1>2, <1>3, <1>4

\* The other requests hold what they did about files and requests.
LEMMA OthersShareShape ==
    ASSUME NEW p \in Requests, NEW labels, Frame(p, labels), SharesStay,
           \A a \in Requests : asks[a] # NoAsk => asks'[a] # NoAsk,
           NEW q \in Requests \ {p}, SharingShape(q)
    PROVE  SharingShape(q)'
<1>1. pc'[q] = pc[q] /\ req'[q] = req[q]
  BY DEF Frame
<1>2. pc[q] = "approve" => (req[q].to \subseteq GrantedTo(req[q].about))'
  <2> SUFFICES ASSUME pc[q] = "approve", NEW a, a = req[q].about
               PROVE  (req[q].to \subseteq GrantedTo(a))'
    BY <1>1 DEF GrantedTo, Granted
  <2>1. req[q].to \subseteq GrantedTo(a)
    BY DEF SharingShape
  <2>. QED
    BY <1>1, <2>1, GrantedStays
<1>3. pc[q] \in {"decide", "reject", "save_shares", "approve"} => asks'[req[q].about] # NoAsk
  BY DEF SharingShape
<1>. QED
  BY <1>1, <1>2, <1>3 DEF SharingShape

\* A step of another component leaves the requests and their decisions alone.
LEMMA ElsewhereKeepsSharing ==
    ASSUME Types, SharingInv, NEW p \in Requests, NEW labels \in {AccountLabels, KnowledgeLabels},
           Frame(p, labels), UNCHANGED <<scope, asks, shares, seen>>,
           \A u \in People : MadeAdmin(u) => MadeAdmin(u)'
    PROVE  SharingInv'
<1>1. labels \cap {"idle", "done", "refused"} = {} /\ labels \cap SharingLabels = {}
  BY DEF AccountLabels, KnowledgeLabels, SharingLabels
<1>2. /\ pc[p] \notin SharingLabels /\ pc'[p] \notin SharingLabels
      /\ \A q \in Requests \ {p} : pc'[q] = pc[q] /\ req'[q] = req[q]
      /\ raced \subseteq raced'
  BY <1>1, AccountLabelsAre DEF Frame
<1>3. \A q \in Requests : pc[q] = "done" => pc'[q] = "done"
  BY <1>1, DoneStays
<1>4. \A q \in Requests : SharingShape(q)'
  <2>1. SharingShape(p)'
    BY <1>2 DEF SharingShape, SharingLabels
  <2>. QED
    BY <2>1, SharesSame, OthersShareShape DEF SharingInv
<1>5. AsksAreNamed' /\ OnePending'
  BY <1>2, <1>3 DEF SharingInv, AsksAreNamed, OnePending, PendingOn
<1>6. DecisionsAlone'
  <2>1. pc'[p] \notin {"submit", "reject", "save_shares", "approve"}
    BY <1>2 DEF SharingLabels
  <2>. QED
    BY <1>2, <2>1 DEF SharingInv, DecisionsAlone, PendingOn
<1>7. ApprovedAreGranted'
  BY DEF SharingInv, ApprovedAreGranted, GrantedTo, Granted
<1>8. GrantsAreApproved'
  <2>1. pc[p] # "approve"
    BY <1>2 DEF SharingLabels
  <2>. QED
    BY <1>2, <2>1 DEF SharingInv, GrantsAreApproved, Granted
<1>9. FilesWereGranted'
  BY SharesSame, GrantedFilesStay DEF SharingInv
<1>. QED
  BY <1>4, <1>5, <1>6, <1>7, <1>8, <1>9 DEF SharingInv

\* Nor does a request that is checked, or refused.
LEMMA CheckedKeepsSharing ==
    ASSUME Types, SharingInv, NEW p \in Requests, Frame(p, SharingLabels),
           UNCHANGED <<scope, asks, shares, seen>>, SharingShape(p)', pc[p] # "approve",
           pc'[p] # "approve",
           pc'[p] = "submit" => PendingOn(req'[p].about) = {},
           pc'[p] \in {"reject", "save_shares"} => asks[req'[p].about].state = "pending",
           \A u \in People : MadeAdmin(u) => MadeAdmin(u)'
    PROVE  SharingInv'
<1>1. /\ \A q \in Requests \ {p} : pc'[q] = pc[q] /\ req'[q] = req[q]
      /\ raced \subseteq raced'
  BY DEF Frame
<1>2. \A q \in Requests : pc[q] = "done" => pc'[q] = "done"
  BY DoneStays, AccountLabelsAre
<1>3. \A q \in Requests : SharingShape(q)'
  BY SharesSame, OthersShareShape DEF SharingInv
<1>4. AsksAreNamed' /\ OnePending'
  BY <1>1, <1>2 DEF SharingInv, AsksAreNamed, OnePending, PendingOn
<1>5. DecisionsAlone'
  BY <1>1 DEF SharingInv, DecisionsAlone, PendingOn
<1>6. ApprovedAreGranted'
  BY DEF SharingInv, ApprovedAreGranted, GrantedTo, Granted
<1>7. GrantsAreApproved'
  BY <1>1 DEF SharingInv, GrantsAreApproved, Granted
<1>8. FilesWereGranted'
  BY SharesSame, GrantedFilesStay DEF SharingInv
<1>. QED
  BY <1>3, <1>4, <1>5, <1>6, <1>7, <1>8 DEF SharingInv

-----------------------------------------------------------------------------
(* The steps of sharing.                                                   *)

\* SharingArrive keeps the invariant of files and requests.
LEMMA SharingArriveKeeps ==
    ASSUME Types, AccountInv, SharingInv, NEW p \in Requests, SharingArrive(p)
    PROVE  /\ Foreign(p, SharingLabels) /\ SharingTypes' /\ SharesStay
           /\ AccountInv' /\ SharingInv'
<1>1. /\ Foreign(p, SharingLabels) /\ pc[p] = "idle" /\ UNCHANGED sharingStores
      /\ \/ pc'[p] = "refused"
         \/ pc'[p] \in {"file", "grant", "revoke_share", "view"} /\ req'[p].about \in Files
         \/ /\ pc'[p] = "decide" /\ req'[p].about \in Requests /\ asks[req'[p].about] # NoAsk
            /\ req'[p].op \in {"approve", "reject"}
  <2>1. UsersAreKnown
    BY DEF AccountInv
  <2>2. CASE \E t \in tokens, f \in Files : Submit(p, t, f)
    BY <2>1, <2>2, SubmitFrame DEF Submit
  <2>3. CASE \E t \in tokens, f \in Files : View(p, t, f)
    BY <2>1, <2>3, ViewFrame DEF View
  <2>4. CASE \E t \in tokens, f \in Files, u \in People : Share(p, t, f, u)
    BY <2>1, <2>4, ShareFrame DEF Share
  <2>5. CASE \E t \in tokens, a \in Requests, op \in {"approve", "reject"} : Decide(p, t, a, op)
    BY <2>1, <2>5, DecideFrame DEF Decide
  <2>6. CASE \E t \in tokens, h \in shares : Unshare(p, t, h)
    BY <2>1, <2>6, UnshareFrame DEF Unshare
  <2>. QED
    BY <2>2, <2>3, <2>4, <2>5, <2>6 DEF SharingArrive
<1>2. /\ AccountInv' /\ \A u \in People : MadeAdmin(u) => MadeAdmin(u)'
  BY <1>1, ForeignKeeps
<1>3. Frame(p, SharingLabels) /\ UNCHANGED <<scope, asks, shares, seen>>
  BY <1>1 DEF Foreign, sharingStores
<1>4. SharingShape(p)'
  BY <1>1, <1>3 DEF SharingShape
<1>5. SharingInv'
  BY <1>1, <1>2, <1>3, <1>4, CheckedKeepsSharing
<1>6. SharingTypes'
  BY <1>1 DEF Types, SharingTypes, sharingStores
<1>. QED
  BY <1>1, <1>2, <1>3, <1>5, <1>6, SharesSame

\* CheckSubmit keeps the invariant of files and requests.
LEMMA CheckSubmitKeeps ==
    ASSUME Types, AccountInv, SharingInv, NEW p \in Requests, CheckSubmit(p)
    PROVE  /\ Foreign(p, SharingLabels) /\ SharingTypes' /\ SharesStay
           /\ AccountInv' /\ SharingInv'
<1>1. /\ Foreign(p, SharingLabels) /\ pc[p] = "file" /\ UNCHANGED sharingStores
      /\ pc'[p] = "refused" \/ (pc'[p] = "submit" /\ ~Pending(req[p].about))
  BY CheckSubmitFrame
<1>2. /\ AccountInv' /\ \A u \in People : MadeAdmin(u) => MadeAdmin(u)'
  BY <1>1, ForeignKeeps
<1>3. Frame(p, SharingLabels) /\ UNCHANGED <<scope, asks, shares, seen>>
  BY <1>1 DEF Foreign, sharingStores
<1>4. pc'[p] = "submit" => req'[p].about = req[p].about
  BY <1>1, <1>3 DEF Frame, SharingLabels
<1>5. SharingShape(p)'
  BY <1>1, <1>3, <1>4 DEF SharingInv, SharingShape
<1>6. pc'[p] = "submit" => PendingOn(req'[p].about) = {}
  BY <1>1, <1>4 DEF Pending, PendingOn
<1>7. SharingInv'
  BY <1>1, <1>2, <1>3, <1>5, <1>6, CheckedKeepsSharing
<1>8. SharingTypes'
  BY <1>1 DEF Types, SharingTypes, sharingStores
<1>. QED
  BY <1>1, <1>2, <1>3, <1>7, <1>8, SharesSame

\* CheckDecision keeps the invariant of files and requests.
LEMMA CheckDecisionKeeps ==
    ASSUME Types, AccountInv, SharingInv, NEW p \in Requests, CheckDecision(p)
    PROVE  /\ Foreign(p, SharingLabels) /\ SharingTypes' /\ SharesStay
           /\ AccountInv' /\ SharingInv'
<1>1. /\ Foreign(p, SharingLabels) /\ pc[p] = "decide" /\ UNCHANGED sharingStores
      /\ \/ pc'[p] = "refused"
         \/ pc'[p] \in {"reject", "save_shares"} /\ asks[req[p].about].state = "pending"
  BY CheckDecisionFrame DEF SharingInv
<1>2. /\ AccountInv' /\ \A u \in People : MadeAdmin(u) => MadeAdmin(u)'
  BY <1>1, ForeignKeeps
<1>3. Frame(p, SharingLabels) /\ UNCHANGED <<scope, asks, shares, seen>>
  BY <1>1 DEF Foreign, sharingStores
<1>4. pc'[p] # "refused" => req'[p].about = req[p].about /\ req'[p].op = req[p].op
  BY <1>1, <1>3 DEF Frame, SharingLabels
<1>5. SharingShape(p)'
  BY <1>1, <1>3, <1>4 DEF SharingInv, SharingShape
<1>6. SharingInv'
  BY <1>1, <1>2, <1>3, <1>4, <1>5, CheckedKeepsSharing
<1>7. SharingTypes'
  BY <1>1 DEF Types, SharingTypes, sharingStores
<1>. QED
  BY <1>1, <1>2, <1>3, <1>6, <1>7, SharesSame

\* ReadFile keeps the invariant of files and requests.
LEMMA ReadFileKeeps ==
    ASSUME Types, AccountInv, SharingInv, NEW p \in Requests, ReadFile(p)
    PROVE  /\ Foreign(p, SharingLabels) /\ SharingTypes' /\ SharesStay
           /\ AccountInv' /\ SharingInv'
<1>1. /\ Foreign(p, SharingLabels) /\ SharingTypes'
      /\ pc[p] = "view" /\ pc'[p] \in {"done", "refused"}
      /\ req[p].self.id \in Users /\ req[p].about \in Files
      /\ \/ seen' = seen
         \/ /\ seen' = seen \cup {<<req[p].self.id, req[p].about>>}
            /\ Allowed(req[p].self, req[p].about)
      /\ UNCHANGED <<scope, live, asks, shares>>
  BY ReadFileFrame DEF AccountInv, SharingInv
<1>2. /\ AccountInv' /\ \A u \in People : MadeAdmin(u) => MadeAdmin(u)'
  BY <1>1, ForeignKeeps
<1>3. /\ Frame(p, SharingLabels) /\ raced \subseteq raced'
      /\ \A q \in Requests \ {p} : pc'[q] = pc[q] /\ req'[q] = req[q]
  BY <1>1 DEF Foreign, Frame
<1>4. \A q \in Requests : pc[q] = "done" => pc'[q] = "done"
  BY <1>3, DoneStays, AccountLabelsAre
<1>5. \A q \in Requests : SharingShape(q)'
  <2>1. SharingShape(p)'
    BY <1>1 DEF SharingShape
  <2>. QED
    BY <1>1, <1>3, <2>1, SharesSame, OthersShareShape DEF SharingInv
<1>6. AsksAreNamed' /\ OnePending' /\ DecisionsAlone'
  BY <1>1, <1>3, <1>4 DEF SharingInv, AsksAreNamed, OnePending, PendingOn, DecisionsAlone
<1>7. ApprovedAreGranted' /\ GrantsAreApproved'
  BY <1>1, <1>3 DEF SharingInv, ApprovedAreGranted, GrantsAreApproved, GrantedTo, Granted
<1>8. FilesWereGranted'
  <2>1. ASSUME NEW u \in Users, NEW f \in Files, <<u, f>> \in seen', <<u, f>> \notin seen
        PROVE  \/ u = OwnerOf[f]
               \/ u \in People /\ (MadeAdmin(u) \/ scope[f] = "org")
               \/ \E h \in shares : h.to = u /\ h.file = f
    <3>1. u = req[p].self.id /\ f = req[p].about /\ Allowed(req[p].self, f)
      BY <1>1, <2>1
    <3>2. u \in People /\ req[p].self.role = "admin" => MadeAdmin(u)
      BY <1>1, <3>1 DEF AccountInv, AdminsWereMade, Authorized
    <3>. QED
      BY <3>1, <3>2 DEF Allowed, HasShare, Colleague
  <2>. QED
    BY <1>1, <1>2, <2>1, SharesSame, GrantedFilesStay DEF SharingInv
<1>. QED
  BY <1>1, <1>2, <1>5, <1>6, <1>7, <1>8, SharesSame DEF SharingInv

\* SaveAsk keeps the invariant of files and requests.
LEMMA SaveAskKeeps ==
    ASSUME Types, Apart, AccountInv, SharingInv, NEW p \in Requests, SaveAsk(p)
    PROVE  /\ Foreign(p, SharingLabels) /\ SharingTypes' /\ SharesStay
           /\ AccountInv' /\ SharingInv'
<1>1. /\ Foreign(p, SharingLabels) /\ SharingTypes' /\ pc[p] = "submit" /\ pc'[p] = "done"
      /\ asks'[p].file = req[p].about /\ asks'[p].state = "pending" /\ req[p].about \in Files
      /\ \A a \in Requests \ {p} : asks'[a] = asks[a]
      /\ UNCHANGED <<scope, live, shares, seen>>
  BY SaveAskFrame DEF SharingInv
<1>2. /\ AccountInv' /\ \A u \in People : MadeAdmin(u) => MadeAdmin(u)'
  BY <1>1, ForeignKeeps
<1>3. /\ Frame(p, SharingLabels) /\ raced \subseteq raced' /\ p \in InFlight
      /\ \A q \in Requests \ {p} : pc'[q] = pc[q] /\ req'[q] = req[q]
  BY <1>1 DEF Foreign, Frame, InFlight
<1>4. \A q \in Requests : pc[q] = "done" => pc'[q] = "done"
  BY <1>3, DoneStays, AccountLabelsAre
<1>5. asks[p] = NoAsk /\ asks'[p] # NoAsk /\ NoAsk.state = "none"
  <2>1. NoAsk.state = "none"
    BY DEF NoAsk
  <2>. QED
    BY <1>1, <2>1 DEF SharingInv, AsksAreNamed
<1>6. \A q \in Requests : SharingShape(q)'
  <2>1. SharingShape(p)'
    BY <1>1 DEF SharingShape
  <2>2. \A a \in Requests : asks[a] # NoAsk => asks'[a] # NoAsk
    BY <1>1, <1>5
  <2>. QED
    BY <1>1, <1>3, <2>1, <2>2, SharesSame, OthersShareShape DEF SharingInv
<1>7. AsksAreNamed'
  BY <1>1, <1>4 DEF SharingInv, AsksAreNamed
<1>8. OnePending'
  <2> SUFFICES ASSUME NEW f \in Files \ raced', NEW a \in PendingOn(f)', NEW b \in PendingOn(f)'
               PROVE  a = b
    BY DEF OnePending
  <2>1. CASE f = req[p].about
    <3>1. PendingOn(f) = {}
      BY <1>1, <1>3, <2>1 DEF SharingInv, DecisionsAlone
    <3>. QED
      BY <1>1, <3>1 DEF PendingOn
  <2>2. CASE f # req[p].about
    <3>1. a \in PendingOn(f) /\ b \in PendingOn(f)
      BY <1>1, <2>2 DEF PendingOn
    <3>. QED
      BY <1>3, <3>1 DEF SharingInv, OnePending
  <2>. QED
    BY <2>1, <2>2
<1>9. DecisionsAlone'
  <2> SUFFICES ASSUME NEW q \in Requests, NEW x, x = req'[q].about, x \notin raced'
               PROVE  /\ pc'[q] = "submit" => PendingOn(x)' = {}
                      /\ pc'[q] \in {"reject", "save_shares", "approve"} =>
                             asks'[x].state = "pending"
    BY DEF DecisionsAlone, PendingOn
  <2>1. CASE q = p
    BY <1>1, <2>1
  <2>2. CASE q # p /\ pc[q] = "submit"
    <3>1. q \in InFlight /\ req[q].about = x
      BY <1>3, <2>2 DEF InFlight
    <3>2. x # req[p].about
      BY <1>3, <2>2, <3>1, AloneWith
    <3>3. PendingOn(x) = {}
      BY <1>3, <2>2, <3>1 DEF SharingInv, DecisionsAlone
    <3>4. PendingOn(x)' = {}
      BY <1>1, <3>2, <3>3 DEF PendingOn
    <3>. QED
      BY <1>3, <2>2, <3>4
  <2>3. CASE q # p /\ pc[q] # "submit"
    BY <1>1, <1>3, <1>5, <2>3 DEF SharingInv, DecisionsAlone, SharingShape
  <2>. QED
    BY <2>1, <2>2, <2>3
<1>10. ApprovedAreGranted'
  BY <1>1 DEF SharingInv, ApprovedAreGranted, GrantedTo, Granted
<1>11. GrantsAreApproved'
  <2> SUFFICES ASSUME NEW a \in Requests \ raced', Granted(a)' # {}
               PROVE  \/ asks'[a].state = "approved"
                      \/ \E q \in Requests : pc'[q] = "approve" /\ req'[q].about = a
    BY DEF GrantsAreApproved
  <2>1. Granted(a) # {} /\ a \notin raced
    BY <1>1, <1>3 DEF Granted
  <2>2. CASE asks[a].state = "approved"
    BY <1>1, <1>5, <2>2
  <2>3. CASE \E q \in Requests : pc[q] = "approve" /\ req[q].about = a
    BY <1>1, <1>3, <2>3
  <2>. QED
    BY <2>1, <2>2, <2>3 DEF SharingInv, GrantsAreApproved
<1>12. FilesWereGranted'
  BY <1>1, <1>2, SharesSame, GrantedFilesStay DEF SharingInv
<1>. QED
  BY <1>1, <1>2, <1>6, <1>7, <1>8, <1>9, <1>10, <1>11, <1>12, SharesSame DEF SharingInv

\* A request that is decided: nobody else is at it, or it is among the raced.
LEMMA DecidedKeeps ==
    ASSUME Types, Apart, SharingInv, NEW p \in Requests, NEW a \in Requests, NEW q \in Requests \ {p},
           Frame(p, SharingLabels), p \in InFlight, a = req[p].about, a \notin raced,
           pc[q] \notin {"idle", "done", "refused"}
    PROVE  req[q].about # a
BY AloneWith DEF InFlight

\* Reject keeps the invariant of files and requests.
LEMMA RejectKeeps ==
    ASSUME Types, Apart, AccountInv, SharingInv, NEW p \in Requests, Reject(p)
    PROVE  /\ Foreign(p, SharingLabels) /\ SharingTypes' /\ SharesStay
           /\ AccountInv' /\ SharingInv'
<1>1. PICK a \in Requests :
        /\ a = req[p].about /\ Foreign(p, SharingLabels) /\ SharingTypes'
        /\ pc[p] = "reject" /\ pc'[p] = "done"
        /\ asks'[a].file = asks[a].file /\ asks'[a].state = "rejected"
        /\ \A b \in Requests \ {a} : asks'[b] = asks[b]
        /\ UNCHANGED <<scope, live, shares, seen>>
  BY RejectFrame DEF SharingInv
<1>2. /\ AccountInv' /\ \A u \in People : MadeAdmin(u) => MadeAdmin(u)'
  BY <1>1, ForeignKeeps
<1>3. /\ Frame(p, SharingLabels) /\ raced \subseteq raced' /\ p \in InFlight
      /\ \A q \in Requests \ {p} : pc'[q] = pc[q] /\ req'[q] = req[q]
  BY <1>1 DEF Foreign, Frame, InFlight
<1>4. \A q \in Requests : pc[q] = "done" => pc'[q] = "done"
  BY <1>3, DoneStays, AccountLabelsAre
<1>5. \A b \in Requests : asks'[b] # NoAsk => asks[b] # NoAsk
  BY <1>1 DEF SharingInv, SharingShape
<1>6. \A b \in Requests : asks[b] # NoAsk => asks'[b] # NoAsk
  BY <1>1 DEF NoAsk
<1>7. \A q \in Requests : SharingShape(q)'
  <2>1. SharingShape(p)'
    BY <1>1 DEF SharingShape
  <2>. QED
    BY <1>1, <1>3, <1>6, <2>1, SharesSame, OthersShareShape DEF SharingInv
<1>8. AsksAreNamed'
  BY <1>1, <1>4, <1>5 DEF SharingInv, AsksAreNamed
<1>9. \A f : PendingOn(f)' \subseteq PendingOn(f)
  BY <1>1 DEF PendingOn
<1>10. OnePending'
  BY <1>3, <1>9 DEF SharingInv, OnePending
<1>11. DecisionsAlone'
  <2> SUFFICES ASSUME NEW q \in Requests, NEW x, x = req'[q].about, x \notin raced'
               PROVE  /\ pc'[q] = "submit" => PendingOn(x)' = {}
                      /\ pc'[q] \in {"reject", "save_shares", "approve"} =>
                             asks'[x].state = "pending"
    BY DEF DecisionsAlone, PendingOn
  <2>1. CASE q = p
    BY <1>1, <2>1
  <2>2. CASE q # p
    <3>1. pc'[q] = "submit" => PendingOn(x)' = {}
      BY <1>3, <1>9, <2>2 DEF SharingInv, DecisionsAlone
    <3>2. ASSUME pc'[q] \in {"reject", "save_shares", "approve"}
          PROVE  asks'[x].state = "pending"
      <4>1. pc[q] = pc'[q] /\ req[q].about = x /\ x \in Requests /\ x \notin raced
        BY <1>3, <2>2, <3>2 DEF SharingInv, SharingShape
      <4>2. x # a
        BY <1>1, <1>3, <2>2, <3>2, <4>1, DecidedKeeps
      <4>. QED
        BY <1>1, <3>2, <4>1, <4>2 DEF SharingInv, DecisionsAlone
    <3>. QED
      BY <3>1, <3>2
  <2>. QED
    BY <2>1, <2>2
<1>12. ApprovedAreGranted'
  BY <1>1 DEF SharingInv, ApprovedAreGranted, GrantedTo, Granted
<1>13. GrantsAreApproved'
  <2> SUFFICES ASSUME NEW b \in Requests \ raced', Granted(b)' # {}
               PROVE  \/ asks'[b].state = "approved"
                      \/ \E q \in Requests : pc'[q] = "approve" /\ req'[q].about = b
    BY DEF GrantsAreApproved
  <2>1. Granted(b) # {} /\ b \notin raced
    BY <1>1, <1>3 DEF Granted
  <2>2. \/ asks[b].state = "approved"
        \/ \E q \in Requests : pc[q] = "approve" /\ req[q].about = b
    BY <2>1 DEF SharingInv, GrantsAreApproved
  <2>3. b # a
    <3> SUFFICES ASSUME b = a PROVE FALSE
      OBVIOUS
    <3>1. asks[b].state = "pending"
      BY <1>1, <2>1 DEF SharingInv, DecisionsAlone
    <3>2. PICK q \in Requests : pc[q] = "approve" /\ req[q].about = b
      BY <2>2, <3>1
    <3>. QED
      BY <1>1, <1>3, <2>1, <3>2, DecidedKeeps
  <2>. QED
    BY <1>1, <1>3, <2>2, <2>3
<1>14. FilesWereGranted'
  BY <1>1, <1>2, SharesSame, GrantedFilesStay DEF SharingInv
<1>. QED
  BY <1>1, <1>2, <1>7, <1>8, <1>10, <1>11, <1>12, <1>13, <1>14, SharesSame DEF SharingInv

\* Approve keeps the invariant of files and requests.
LEMMA ApproveKeeps ==
    ASSUME Types, Apart, AccountInv, SharingInv, NEW p \in Requests, Approve(p)
    PROVE  /\ Foreign(p, SharingLabels) /\ SharingTypes' /\ SharesStay
           /\ AccountInv' /\ SharingInv'
<1>1. PICK a \in Requests :
        /\ a = req[p].about /\ Foreign(p, SharingLabels) /\ SharingTypes'
        /\ pc[p] = "approve" /\ pc'[p] = "done"
        /\ asks'[a].file = asks[a].file /\ asks'[a].state = "approved"
        /\ asks'[a].fanout = req[p].to
        /\ \A b \in Requests \ {a} : asks'[b] = asks[b]
        /\ UNCHANGED <<scope, live, shares, seen>>
  BY ApproveFrame DEF SharingInv
<1>2. /\ AccountInv' /\ \A u \in People : MadeAdmin(u) => MadeAdmin(u)'
  BY <1>1, ForeignKeeps
<1>3. /\ Frame(p, SharingLabels) /\ raced \subseteq raced' /\ p \in InFlight
      /\ \A q \in Requests \ {p} : pc'[q] = pc[q] /\ req'[q] = req[q]
  BY <1>1 DEF Foreign, Frame, InFlight
<1>4. \A q \in Requests : pc[q] = "done" => pc'[q] = "done"
  BY <1>3, DoneStays, AccountLabelsAre
<1>5. \A b \in Requests : asks'[b] # NoAsk => asks[b] # NoAsk
  BY <1>1 DEF SharingInv, SharingShape
<1>6. \A b \in Requests : asks[b] # NoAsk => asks'[b] # NoAsk
  BY <1>1 DEF NoAsk
<1>7. \A q \in Requests : SharingShape(q)'
  <2>1. SharingShape(p)'
    BY <1>1 DEF SharingShape
  <2>. QED
    BY <1>1, <1>3, <1>6, <2>1, SharesSame, OthersShareShape DEF SharingInv
<1>8. AsksAreNamed'
  BY <1>1, <1>4, <1>5 DEF SharingInv, AsksAreNamed
<1>9. \A f : PendingOn(f)' \subseteq PendingOn(f)
  BY <1>1 DEF PendingOn
<1>10. OnePending'
  BY <1>3, <1>9 DEF SharingInv, OnePending
<1>11. DecisionsAlone'
  <2> SUFFICES ASSUME NEW q \in Requests, NEW x, x = req'[q].about, x \notin raced'
               PROVE  /\ pc'[q] = "submit" => PendingOn(x)' = {}
                      /\ pc'[q] \in {"reject", "save_shares", "approve"} =>
                             asks'[x].state = "pending"
    BY DEF DecisionsAlone, PendingOn
  <2>1. CASE q = p
    BY <1>1, <2>1
  <2>2. CASE q # p
    <3>1. pc'[q] = "submit" => PendingOn(x)' = {}
      BY <1>3, <1>9, <2>2 DEF SharingInv, DecisionsAlone
    <3>2. ASSUME pc'[q] \in {"reject", "save_shares", "approve"}
          PROVE  asks'[x].state = "pending"
      <4>1. pc[q] = pc'[q] /\ req[q].about = x /\ x \in Requests /\ x \notin raced
        BY <1>3, <2>2, <3>2 DEF SharingInv, SharingShape
      <4>2. x # a
        BY <1>1, <1>3, <2>2, <3>2, <4>1, DecidedKeeps
      <4>. QED
        BY <1>1, <3>2, <4>1, <4>2 DEF SharingInv, DecisionsAlone
    <3>. QED
      BY <3>1, <3>2
  <2>. QED
    BY <2>1, <2>2
<1>12. ApprovedAreGranted'
  <2> SUFFICES ASSUME NEW b \in Requests, asks'[b].state = "approved"
               PROVE  asks'[b].fanout \subseteq GrantedTo(b)'
    BY DEF ApprovedAreGranted
  <2>1. GrantedTo(b)' = GrantedTo(b)
    BY <1>1 DEF GrantedTo, Granted
  <2>2. CASE b = a
    BY <1>1, <2>1, <2>2 DEF SharingInv, SharingShape
  <2>3. CASE b # a
    BY <1>1, <2>1, <2>3 DEF SharingInv, ApprovedAreGranted
  <2>. QED
    BY <2>2, <2>3
<1>13. GrantsAreApproved'
  <2> SUFFICES ASSUME NEW b \in Requests \ raced', Granted(b)' # {}
               PROVE  \/ asks'[b].state = "approved"
                      \/ \E q \in Requests : pc'[q] = "approve" /\ req'[q].about = b
    BY DEF GrantsAreApproved
  <2>1. Granted(b) # {} /\ b \notin raced
    BY <1>1, <1>3 DEF Granted
  <2>2. \/ asks[b].state = "approved"
        \/ \E q \in Requests : pc[q] = "approve" /\ req[q].about = b
    BY <2>1 DEF SharingInv, GrantsAreApproved
  <2>. QED
    BY <1>1, <1>3, <2>2
<1>14. FilesWereGranted'
  BY <1>1, <1>2, SharesSame, GrantedFilesStay DEF SharingInv
<1>. QED
  BY <1>1, <1>2, <1>7, <1>8, <1>10, <1>11, <1>12, <1>13, <1>14, SharesSame DEF SharingInv

\* SaveShares keeps the invariant of files and requests.
LEMMA SaveSharesKeeps ==
    ASSUME Types, AccountInv, SharingInv, NEW p \in Requests, SaveShares(p)
    PROVE  /\ Foreign(p, SharingLabels) /\ SharingTypes' /\ SharesStay
           /\ AccountInv' /\ SharingInv'
<1>1. PICK a \in Requests :
        /\ a = req[p].about /\ Foreign(p, SharingLabels) /\ SharingTypes'
        /\ pc[p] = "save_shares" /\ pc'[p] = "approve" /\ req'[p] = req[p]
        /\ \A u \in req[p].to : \E h \in shares' : h.to = u /\ h.ask = a
        /\ \A h \in shares' : h \in shares \/ h.ask = a
        /\ shares \subseteq shares'
        /\ UNCHANGED <<scope, live, asks, seen>>
  BY SaveSharesFrame DEF SharingInv
<1>2. /\ AccountInv' /\ \A u \in People : MadeAdmin(u) => MadeAdmin(u)'
  BY <1>1, ForeignKeeps
<1>3. /\ Frame(p, SharingLabels) /\ raced \subseteq raced'
      /\ \A q \in Requests \ {p} : pc'[q] = pc[q] /\ req'[q] = req[q]
  BY <1>1 DEF Foreign, Frame
<1>4. \A q \in Requests : pc[q] = "done" => pc'[q] = "done"
  BY <1>3, DoneStays, AccountLabelsAre
<1>5. SharesStay
  BY <1>1, SharesGrow
<1>6. \A q \in Requests : SharingShape(q)'
  <2>1. SharingShape(p)'
    <3>1. (req[p].to \subseteq GrantedTo(req[p].about))'
      BY <1>1 DEF GrantedTo, Granted
    <3>. QED
      BY <1>1, <3>1 DEF SharingInv, SharingShape
  <2>. QED
    BY <1>1, <1>3, <1>5, <2>1, OthersShareShape DEF SharingInv
<1>7. AsksAreNamed' /\ OnePending'
  BY <1>1, <1>3, <1>4 DEF SharingInv, AsksAreNamed, OnePending, PendingOn
<1>8. DecisionsAlone'
  BY <1>1, <1>3 DEF SharingInv, DecisionsAlone, PendingOn
<1>9. ApprovedAreGranted'
  BY <1>1, <1>5, GrantedStays DEF SharingInv, ApprovedAreGranted
<1>10. GrantsAreApproved'
  <2> SUFFICES ASSUME NEW b \in Requests \ raced', NEW h \in shares', h.ask = b
               PROVE  \/ asks'[b].state = "approved"
                      \/ \E q \in Requests : pc'[q] = "approve" /\ req'[q].about = b
    BY DEF GrantsAreApproved, Granted
  <2>1. CASE b = a
    BY <1>1, <2>1
  <2>2. CASE b # a
    <3>1. Granted(b) # {} /\ b \notin raced
      BY <1>1, <1>3, <2>2 DEF Granted
    <3>. QED
      BY <1>1, <1>3, <3>1 DEF SharingInv, GrantsAreApproved
  <2>. QED
    BY <2>1, <2>2
<1>11. FilesWereGranted'
  BY <1>1, <1>2, <1>5, GrantedFilesStay DEF SharingInv
<1>. QED
  BY <1>1, <1>2, <1>5, <1>6, <1>7, <1>8, <1>9, <1>10, <1>11 DEF SharingInv

\* The shares an owner gives or takes back stand for no request.
LEMMA GrantedKeeps ==
    ASSUME Types, AccountInv, SharingInv, NEW p \in Requests, Foreign(p, SharingLabels),
           pc[p] \in {"grant", "revoke_share"}, pc'[p] \in {"done", "refused"},
           SharesStay, \A h \in shares' : h.ask = Nobody \/ \E k \in shares : k.ask = h.ask,
           UNCHANGED <<scope, live, asks, seen>>
    PROVE  AccountInv' /\ SharingInv'
<1>1. /\ AccountInv' /\ \A u \in People : MadeAdmin(u) => MadeAdmin(u)'
  BY ForeignKeeps
<1>2. /\ Frame(p, SharingLabels) /\ raced \subseteq raced'
      /\ \A q \in Requests \ {p} : pc'[q] = pc[q] /\ req'[q] = req[q]
  BY DEF Foreign, Frame
<1>3. \A q \in Requests : pc[q] = "done" => pc'[q] = "done"
  BY <1>2, DoneStays, AccountLabelsAre
<1>4. \A q \in Requests : SharingShape(q)'
  <2>1. SharingShape(p)'
    BY DEF SharingShape
  <2>. QED
    BY <1>2, <2>1, OthersShareShape DEF SharingInv
<1>5. AsksAreNamed' /\ OnePending' /\ DecisionsAlone'
  BY <1>2, <1>3 DEF SharingInv, AsksAreNamed, OnePending, PendingOn, DecisionsAlone
<1>6. ApprovedAreGranted'
  BY GrantedStays DEF SharingInv, ApprovedAreGranted
<1>7. GrantsAreApproved'
  <2> SUFFICES ASSUME NEW b \in Requests \ raced', NEW h \in shares', h.ask = b
               PROVE  \/ asks'[b].state = "approved"
                      \/ \E q \in Requests : pc'[q] = "approve" /\ req'[q].about = b
    BY DEF GrantsAreApproved, Granted
  <2>1. b # Nobody
    BY AccountsAssumption DEF Users
  <2>2. Granted(b) # {} /\ b \notin raced
    BY <1>2, <2>1 DEF Granted
  <2>. QED
    BY <1>2, <2>2 DEF SharingInv, GrantsAreApproved
<1>8. FilesWereGranted'
  BY <1>1, GrantedFilesStay DEF SharingInv
<1>. QED
  BY <1>1, <1>4, <1>5, <1>6, <1>7, <1>8 DEF SharingInv

\* Grant keeps the invariant of files and requests.
LEMMA GrantKeeps ==
    ASSUME Types, AccountInv, SharingInv, NEW p \in Requests, Grant(p)
    PROVE  /\ Foreign(p, SharingLabels) /\ SharingTypes' /\ SharesStay
           /\ AccountInv' /\ SharingInv'
<1>1. /\ Foreign(p, SharingLabels) /\ SharingTypes'
      /\ pc[p] = "grant" /\ pc'[p] \in {"done", "refused"}
      /\ \A h \in shares' : h \in shares \/ h.ask = Nobody
      /\ shares \subseteq shares'
      /\ UNCHANGED <<scope, live, asks, seen>>
  BY GrantFrame DEF SharingInv
<1>2. SharesStay
  BY <1>1, SharesGrow
<1>. QED
  BY <1>1, <1>2, GrantedKeeps

\* RevokeShare keeps the invariant of files and requests.
LEMMA RevokeShareKeeps ==
    ASSUME Types, AccountInv, SharingInv, NEW p \in Requests, RevokeShare(p)
    PROVE  /\ Foreign(p, SharingLabels) /\ SharingTypes' /\ SharesStay
           /\ AccountInv' /\ SharingInv'
<1>1. /\ Foreign(p, SharingLabels) /\ SharingTypes'
      /\ pc[p] = "revoke_share" /\ pc'[p] \in {"done", "refused"}
      /\ \A h \in shares' : \E k \in shares : k.to = h.to /\ k.file = h.file /\ k.ask = h.ask
      /\ SharesStay
      /\ UNCHANGED <<scope, live, asks, seen>>
  BY RevokeShareFrame
<1>2. \A h \in shares' : \E k \in shares : k.ask = h.ask
  BY <1>1
<1>. QED
  BY <1>1, <1>2, GrantedKeeps

-----------------------------------------------------------------------------
(* What every step keeps of the promoted documents.                        *)

\* Documents are named apart from nobody, and requests from files.
LEMMA DocsAreNames ==
    /\ Nobody \notin Docs /\ Requests \cap Files = {} /\ Requests \subseteq Docs
    /\ Requests \cap Promoted = {}
BY AccountsAssumption, FileSharingAssumption, KnowledgeAssumption DEF Docs, Users

\* A document keeps the file it was copied from.
SourcesStay(p) ==
    /\ \A d \in Docs \ {p} : source'[d] = source[d]
    /\ source[p] \in Files => source'[p] = source[p]

\* A document that was readable to a user stays so.
LEMMA ReadableStays ==
    ASSUME NEW p \in Requests, SourcesStay(p), SharesStay, NEW u, NEW d, Readable(u, d)
    PROVE  Readable(u, d)'
<1>1. d \in Docs /\ source[d] \in Files /\ source'[d] = source[d]
  BY DEF Readable, SourcesStay
<1>2. CASE Owns(u, d)
  BY <1>1, <1>2 DEF Readable, Owns
<1>3. CASE \E h \in shares : h.to = u /\ h.file = source[d]
  <2>1. \E h \in shares' : h.to = u /\ h.file = source'[d]
    BY <1>1, <1>3 DEF SharesStay
  <2>. QED
    BY <1>1, <2>1 DEF Readable
<1>. QED
  BY <1>2, <1>3 DEF Readable

\* A document that was saved stays so.
LEMMA SavedStays ==
    ASSUME \A q \in Requests : pc[q] = "done" => pc'[q] = "done", NEW d, WasSaved(d)
    PROVE  WasSaved(d)'
BY DEF WasSaved

\* A document that had a rival keeps it.
LEMMA RivalledStays ==
    ASSUME \A q \in Requests : pc[q] = "done" => pc'[q] = "done",
           NEW p \in Requests, SourcesStay(p), NEW d \in Docs, source[d] \in Files, Rivalled(d)
    PROVE  Rivalled(d)'
<1>1. PICK e \in Docs \ {d} : source[e] = source[d] /\ WasSaved(e)
  BY DEF Rivalled
<1>2. source'[e] = source'[d]
  BY <1>1 DEF SourcesStay
<1>3. WasSaved(e)'
  BY <1>1, SavedStays
<1>. QED
  BY <1>1, <1>2, <1>3 DEF Rivalled

\* The other requests hold what they did about documents.
LEMMA OthersWorkShape ==
    ASSUME Types, NEW p \in Requests, NEW labels, Frame(p, labels), SourcesStay(p), SharesStay,
           \A q \in Requests : pc[q] = "done" => pc'[q] = "done",
           \A c \in chunks' : c \in chunks \/ ~WasSaved(c[1]),
           NEW q \in Requests \ {p}, work'[q] = work[q], WorkShape(q)
    PROVE  WorkShape(q)'
<1>1. pc'[q] = pc[q] /\ req'[q] = req[q] /\ source'[q] = source[q]
  BY DocsAreNames DEF Frame, SourcesStay
<1>2. ASSUME pc[q] \in Removals, NEW d, d = work[q].doc
      PROVE  d \in Docs /\ source'[d] = source[d] /\ WasSaved(d) /\ WasSaved(d)'
  <2>1. d \in Docs /\ source[d] \in Files /\ WasSaved(d)
    BY <1>2 DEF WorkShape
  <2>2. WasSaved(d)'
    BY <2>1, SavedStays
  <2>. QED
    BY <2>1, <2>2 DEF SourcesStay
<1>3. pc[q] \in Removals => (/\ work[q].doc \in Docs /\ work[q].file \in Files
                             /\ source[work[q].doc] = work[q].file /\ WasSaved(work[q].doc))'
  BY <1>1, <1>2 DEF WorkShape, WasSaved
<1>4. pc[q] = "pop_chunks" => \A c \in chunks' : c[1] = work[q].doc => c \in work[q].left
  BY <1>2 DEF WorkShape, Removals
<1>5. ASSUME pc[q] = "filter", NEW u, u = req[q].self.id, NEW d \in work[q].found
      PROVE  Readable(u, d)'
  BY <1>5, ReadableStays DEF WorkShape
<1>6. pc[q] = "filter" => \A d \in work'[q].found : Readable(req[q].self.id, d)'
  BY <1>1, <1>5 DEF Readable, Owns
<1>. QED
  BY <1>1, <1>3, <1>4, <1>6 DEF WorkShape

\* A step that copies nothing, and names or forgets no document.
LEMMA KnowledgeStays ==
    ASSUME Types, KnowledgeInv, NEW p \in Requests, NEW labels, Frame(p, labels),
           labels \cap {"idle", "done", "refused"} = {},
           \A q \in Requests \ {p} : work'[q] = work[q],
           SharesStay, UNCHANGED <<source, pointer>>, chunks' \subseteq chunks, docs' \subseteq docs,
           \A d \in docs : d \in docs' \/ WasSaved(d),
           \A u \in Users, d \in Docs : <<u, d>> \in cited' => <<u, d>> \in cited \/ Readable(u, d),
           pc'[p] = "done" => source[p] = Nobody,
           WorkShape(p)'
    PROVE  KnowledgeInv'
<1>1. \A q \in Requests : pc[q] = "done" => pc'[q] = "done"
  BY DoneStays
<1>2. SourcesStay(p)
  BY DEF SourcesStay
<1>3. \A d : WasSaved(d) => WasSaved(d)'
  BY <1>1, SavedStays
<1>4. \A q \in Requests : WorkShape(q)'
  <2>1. \A c \in chunks' : c \in chunks \/ ~WasSaved(c[1])
    OBVIOUS
  <2>. QED
    BY <1>1, <1>2, <2>1, OthersWorkShape DEF KnowledgeInv
<1>5. DocsAreSourced'
  BY <1>3 DEF KnowledgeInv, DocsAreSourced
<1>6. PointersName'
  BY <1>3 DEF KnowledgeInv, PointersName
<1>7. SavedAreNamed'
  <2> SUFFICES ASSUME NEW d \in Docs, WasSaved(d)', source[d] \in Files
               PROVE  \/ pointer[source[d]] = d
                      \/ Rivalled(d)'
                      \/ \A c \in chunks' : c[1] # d
    BY DEF SavedAreNamed
  <2>1. Nobody \notin Files
    BY FileSharingAssumption
  <2>2. WasSaved(d)
    BY <2>1 DEF WasSaved, Frame
  <2>3. Rivalled(d) => Rivalled(d)'
    BY <1>1, <1>2, RivalledStays
  <2>. QED
    BY <2>2, <2>3 DEF KnowledgeInv, SavedAreNamed
<1>8. CitedAreReadable'
  <2>1. \A u \in Users, d \in Docs : Readable(u, d) => Readable(u, d)'
    BY <1>2, ReadableStays
  <2>. QED
    BY <2>1 DEF KnowledgeInv, CitedAreReadable
<1>. QED
  BY <1>4, <1>5, <1>6, <1>7, <1>8 DEF KnowledgeInv

\* A step of another component.
LEMMA ElsewhereKeepsKnowledge ==
    ASSUME Types, KnowledgeInv, NEW p \in Requests, NEW labels \in {AccountLabels, SharingLabels},
           Frame(p, labels), SharesStay, UNCHANGED knowledge
    PROVE  KnowledgeInv'
<1>1. labels \cap {"idle", "done", "refused"} = {} /\ labels \cap KnowledgeLabels = {}
  BY DEF AccountLabels, KnowledgeLabels, SharingLabels
<1>2. pc[p] \notin KnowledgeLabels /\ pc'[p] \notin KnowledgeLabels
  BY <1>1, AccountLabelsAre DEF Frame
<1>3. pc[p] \notin {"done", "refused"}
  BY <1>1 DEF Frame
<1>4. work[p] = NoWork /\ source[p] = Nobody
  BY <1>2, <1>3 DEF KnowledgeInv, WorkShape, Working, Removals, KnowledgeLabels
<1>5. WorkShape(p)'
  BY <1>2, <1>4 DEF WorkShape, Working, Removals, KnowledgeLabels, knowledge
<1>6. /\ UNCHANGED <<docs, chunks, source, pointer, work, cited>>
  BY DEF knowledge
<1>. QED
  BY <1>1, <1>4, <1>5, <1>6, KnowledgeStays

-----------------------------------------------------------------------------
(* The steps of promotion, demotion and retrieval.                         *)

\* KnowledgeArrive keeps the invariant of the documents.
LEMMA KnowledgeArriveKeeps ==
    ASSUME Types, UsersAreKnown, KnowledgeInv, NEW p \in Requests, KnowledgeArrive(p)
    PROVE  KnowledgeFrame(p) /\ KnowledgeInv'
<1>1. /\ KnowledgeFrame(p) /\ pc[p] = "idle" /\ UNCHANGED <<sharingStores, knowledge>>
      /\ \/ pc'[p] \in {"refused", "ask"}
         \/ pc'[p] = "source" /\ req'[p].about \in Docs
         \/ pc'[p] = "promote" /\ req'[p].about \in Files
  <2>1. CASE \E t \in tokens, f \in Files : Promote(p, t, f)
    BY <2>1, PromoteFrame DEF Promote
  <2>2. CASE \E t \in tokens, d \in Docs : Demote(p, t, d)
    BY <2>2, DemoteFrame DEF Demote
  <2>3. CASE \E t \in tokens : Ask(p, t)
    BY <2>3, AskFrame DEF Ask
  <2>. QED
    BY <2>1, <2>2, <2>3 DEF KnowledgeArrive
<1>2. /\ Frame(p, KnowledgeLabels) /\ SharesStay
      /\ \A q \in Requests \ {p} : work'[q] = work[q]
      /\ UNCHANGED <<docs, chunks, source, pointer, work, cited>>
  BY <1>1, SharesSame DEF KnowledgeFrame, Foreign, knowledge
<1>3. work[p] = NoWork /\ source[p] = Nobody
  BY <1>1 DEF KnowledgeInv, WorkShape, Working, Removals
<1>4. WorkShape(p)'
  BY <1>1, <1>2, <1>3 DEF WorkShape, Working, Removals
<1>5. KnowledgeInv'
  BY <1>1, <1>2, <1>4, AccountLabelsAre, KnowledgeStays
<1>. QED
  BY <1>1, <1>5

\* ReadPromotable keeps the invariant of the documents.
LEMMA ReadPromotableKeeps ==
    ASSUME Types, KnowledgeInv, NEW p \in Requests, ReadPromotable(p)
    PROVE  KnowledgeFrame(p) /\ KnowledgeInv'
<1>1. /\ KnowledgeFrame(p) /\ pc[p] = "promote" /\ pc'[p] = "save_document"
      /\ req'[p] = req[p] /\ work'[p].doc = p /\ work'[p].file \in Files
      /\ work'[p].left \subseteq {p} \X Parts
      /\ UNCHANGED <<docs, chunks, source, pointer, cited>> /\ shares' = shares
  BY ReadPromotableFrame DEF KnowledgeInv, sharingStores
<1>2. Frame(p, KnowledgeLabels) /\ SharesStay /\ \A q \in Requests \ {p} : work'[q] = work[q]
  BY <1>1, SharesSame DEF KnowledgeFrame, Foreign
<1>3. WorkShape(p)'
  BY <1>1 DEF KnowledgeInv, WorkShape, Working, Removals
<1>4. KnowledgeInv'
  BY <1>1, <1>2, <1>3, AccountLabelsAre, KnowledgeStays
<1>. QED
  BY <1>1, <1>4

\* FindSource keeps the invariant of the documents.
LEMMA FindSourceKeeps ==
    ASSUME Types, KnowledgeInv, NEW p \in Requests, FindSource(p)
    PROVE  KnowledgeFrame(p) /\ KnowledgeInv'
<1>1. /\ KnowledgeFrame(p) /\ pc[p] = "source"
      /\ \/ pc'[p] = "refused" /\ work'[p] = NoWork
         \/ /\ pc'[p] = "pop_document" /\ work'[p].doc \in Docs /\ work'[p].file \in Files
            /\ pointer[work'[p].file] = work'[p].doc
      /\ UNCHANGED <<docs, chunks, source, pointer, cited>> /\ shares' = shares
  <2>1. req[p].about \in Docs
    BY DEF FindSource, KnowledgeInv, WorkShape
  <2>. QED
    BY <2>1, FindSourceFrame DEF sharingStores
<1>2. Frame(p, KnowledgeLabels) /\ SharesStay /\ \A q \in Requests \ {p} : work'[q] = work[q]
  BY <1>1, SharesSame DEF KnowledgeFrame, Foreign
<1>3. WorkShape(p)'
  <2>1. CASE pc'[p] = "refused" /\ work'[p] = NoWork
    BY <2>1 DEF WorkShape, Working, Removals
  <2>2. CASE pc'[p] = "pop_document" /\ work'[p].doc \in Docs /\ work'[p].file \in Files
    <3>1. WasSaved(work'[p].doc) /\ source[work'[p].doc] = work'[p].file
      BY <1>1, <2>2, DocsAreNames DEF KnowledgeInv, PointersName
    <3>2. WasSaved(work[p].doc)'
      BY <1>1, <1>2, <2>2, <3>1 DEF WasSaved, Frame
    <3>. QED
      BY <1>1, <2>2, <3>1, <3>2 DEF KnowledgeInv, WorkShape, Working, Removals
  <2>. QED
    BY <1>1, <2>1, <2>2
<1>4. KnowledgeInv'
  BY <1>1, <1>2, <1>3, AccountLabelsAre, KnowledgeStays
<1>. QED
  BY <1>1, <1>4

\* The document a removal is about stays known.
LEMMA RemovalStays ==
    ASSUME KnowledgeInv, NEW p \in Requests, Frame(p, KnowledgeLabels), source' = source,
           pc[p] \in Removals, pc'[p] \in Removals,
           work'[p].doc = work[p].doc, work'[p].file = work[p].file,
           pc'[p] = "pop_chunks" => \A c \in chunks' : c[1] = work'[p].doc => c \in work'[p].left
    PROVE  WorkShape(p)'
<1>1. /\ work[p].doc \in Docs /\ work[p].file \in Files
      /\ source[work[p].doc] = work[p].file /\ WasSaved(work[p].doc) /\ source[p] = Nobody
  BY DEF KnowledgeInv, WorkShape, Removals
<1>2. WasSaved(work[p].doc)'
  BY <1>1 DEF WasSaved, Frame, Removals
<1>. QED
  BY <1>1, <1>2 DEF WorkShape, Working, Removals

\* PopDocument keeps the invariant of the documents.
LEMMA PopDocumentKeeps ==
    ASSUME Types, KnowledgeInv, NEW p \in Requests, PopDocument(p)
    PROVE  KnowledgeFrame(p) /\ KnowledgeInv'
<1>1. /\ KnowledgeFrame(p) /\ pc[p] = "pop_document" /\ pc'[p] = "scan"
      /\ docs' = docs \ {work[p].doc}
      /\ UNCHANGED <<chunks, source, pointer, work, cited>> /\ shares' = shares
  BY PopDocumentFrame DEF sharingStores
<1>2. Frame(p, KnowledgeLabels) /\ SharesStay /\ \A q \in Requests \ {p} : work'[q] = work[q]
  BY <1>1, SharesSame DEF KnowledgeFrame, Foreign
<1>3. WorkShape(p)'
  BY <1>1, <1>2, RemovalStays DEF Removals
<1>4. \A d \in docs : d \in docs' \/ WasSaved(d)
  BY <1>1 DEF KnowledgeInv, WorkShape, Removals
<1>5. KnowledgeInv'
  BY <1>1, <1>2, <1>3, <1>4, AccountLabelsAre, KnowledgeStays
<1>. QED
  BY <1>1, <1>5

\* Scan keeps the invariant of the documents.
LEMMA ScanKeeps ==
    ASSUME Types, KnowledgeInv, NEW p \in Requests, Scan(p)
    PROVE  KnowledgeFrame(p) /\ KnowledgeInv'
<1>1. /\ KnowledgeFrame(p) /\ pc[p] = "scan" /\ pc'[p] = "stale"
      /\ work'[p].doc = work[p].doc /\ work'[p].file = work[p].file
      /\ UNCHANGED <<docs, chunks, source, pointer, cited>> /\ shares' = shares
  BY ScanFrame DEF sharingStores
<1>2. Frame(p, KnowledgeLabels) /\ SharesStay /\ \A q \in Requests \ {p} : work'[q] = work[q]
  BY <1>1, SharesSame DEF KnowledgeFrame, Foreign
<1>3. WorkShape(p)'
  BY <1>1, <1>2, RemovalStays DEF Removals
<1>4. KnowledgeInv'
  BY <1>1, <1>2, <1>3, AccountLabelsAre, KnowledgeStays
<1>. QED
  BY <1>1, <1>4

\* ListStale keeps the invariant of the documents.
LEMMA ListStaleKeeps ==
    ASSUME Types, KnowledgeInv, NEW p \in Requests, ListStale(p)
    PROVE  KnowledgeFrame(p) /\ KnowledgeInv'
<1>1. /\ KnowledgeFrame(p) /\ pc[p] = "stale"
      /\ \/ pc'[p] = "refused" /\ work'[p] = NoWork
         \/ /\ pc'[p] = "pop_chunks"
            /\ work'[p].doc = work[p].doc /\ work'[p].file = work[p].file
            /\ \A c \in chunks : c[1] = work[p].doc => c \in work'[p].left
      /\ UNCHANGED <<docs, chunks, source, pointer, cited>> /\ shares' = shares
  BY ListStaleFrame DEF sharingStores
<1>2. Frame(p, KnowledgeLabels) /\ SharesStay /\ \A q \in Requests \ {p} : work'[q] = work[q]
  BY <1>1, SharesSame DEF KnowledgeFrame, Foreign
<1>3. WorkShape(p)'
  <2>1. CASE pc'[p] = "refused" /\ work'[p] = NoWork
    BY <2>1 DEF WorkShape, Working, Removals
  <2>2. CASE pc'[p] # "refused"
    BY <1>1, <1>2, <2>2, RemovalStays DEF Removals
  <2>. QED
    BY <1>1, <2>1, <2>2
<1>4. KnowledgeInv'
  BY <1>1, <1>2, <1>3, AccountLabelsAre, KnowledgeStays
<1>. QED
  BY <1>1, <1>4

\* PopChunk keeps the invariant of the documents.
LEMMA PopChunkKeeps ==
    ASSUME Types, KnowledgeInv, NEW p \in Requests, PopChunk(p)
    PROVE  KnowledgeFrame(p) /\ KnowledgeInv'
<1>1. /\ KnowledgeFrame(p) /\ pc[p] = "pop_chunks" /\ pc'[p] = pc[p]
      /\ work'[p].doc = work[p].doc /\ work'[p].file = work[p].file
      /\ chunks' \subseteq chunks
      /\ \A c \in chunks' : c \in work[p].left => c \in work'[p].left
      /\ UNCHANGED <<docs, source, pointer, cited>> /\ shares' = shares
  BY PopChunkFrame DEF sharingStores
<1>2. Frame(p, KnowledgeLabels) /\ SharesStay /\ \A q \in Requests \ {p} : work'[q] = work[q]
  BY <1>1, SharesSame DEF KnowledgeFrame, Foreign
<1>3. WorkShape(p)'
  <2>1. \A c \in chunks' : c[1] = work'[p].doc => c \in work'[p].left
    BY <1>1 DEF KnowledgeInv, WorkShape
  <2>. QED
    BY <1>1, <1>2, <2>1, RemovalStays DEF Removals
<1>4. KnowledgeInv'
  BY <1>1, <1>2, <1>3, AccountLabelsAre, KnowledgeStays
<1>. QED
  BY <1>1, <1>4

\* ListChunks keeps the invariant of the documents.
LEMMA ListChunksKeeps ==
    ASSUME Types, KnowledgeInv, NEW p \in Requests, ListChunks(p)
    PROVE  KnowledgeFrame(p) /\ KnowledgeInv'
<1>1. work[p] = NoWork /\ source[p] = Nobody
  BY DEF KnowledgeInv, WorkShape, Working, Removals, ListChunks
<1>2. /\ KnowledgeFrame(p) /\ pc[p] = "ask" /\ pc'[p] = "filter" /\ work'[p].found = {}
      /\ UNCHANGED <<docs, chunks, source, pointer, cited>> /\ shares' = shares
  BY <1>1, ListChunksFrame DEF sharingStores
<1>3. Frame(p, KnowledgeLabels) /\ SharesStay /\ \A q \in Requests \ {p} : work'[q] = work[q]
  BY <1>2, SharesSame DEF KnowledgeFrame, Foreign
<1>4. WorkShape(p)'
  BY <1>1, <1>2 DEF WorkShape, Working, Removals
<1>5. KnowledgeInv'
  BY <1>2, <1>3, <1>4, AccountLabelsAre, KnowledgeStays
<1>. QED
  BY <1>2, <1>5

\* FilterChunk keeps the invariant of the documents.
LEMMA FilterChunkKeeps ==
    ASSUME Types, KnowledgeInv, NEW p \in Requests, FilterChunk(p)
    PROVE  KnowledgeFrame(p) /\ KnowledgeInv'
<1>1. /\ KnowledgeFrame(p) /\ pc[p] = "filter"
      /\ \/ pc'[p] = "refused" /\ work'[p] = NoWork
         \/ /\ pc'[p] = "filter" /\ req'[p] = req[p]
            /\ \A d \in work'[p].found :
                 d \in work[p].found \/ (d \in docs /\ CanRead(req[p].self.id, d))
      /\ UNCHANGED <<docs, chunks, source, pointer, cited>> /\ shares' = shares
  BY FilterChunkFrame DEF sharingStores
<1>2. Frame(p, KnowledgeLabels) /\ SharesStay /\ \A q \in Requests \ {p} : work'[q] = work[q]
  BY <1>1, SharesSame DEF KnowledgeFrame, Foreign
<1>3. WorkShape(p)'
  <2>1. CASE pc'[p] = "refused" /\ work'[p] = NoWork
    BY <2>1 DEF WorkShape, Working, Removals
  <2>2. CASE pc'[p] = "filter" /\ req'[p] = req[p]
    <3>1. ASSUME NEW u, u = req[p].self.id, NEW d \in work'[p].found
          PROVE  Readable(u, d)'
      <4>1. CASE d \in work[p].found
        <5>1. Readable(u, d)
          BY <1>1, <3>1, <4>1 DEF KnowledgeInv, WorkShape
        <5>. QED
          BY <1>1, <5>1 DEF Readable, Owns
      <4>2. CASE d \in docs /\ CanRead(u, d)
        <5>1. d \in Docs /\ source[d] \in Files
          BY <4>2 DEF KnowledgeInv, DocsAreSourced, Types, KnowledgeTypes
        <5>2. CASE Owns(u, d)
          BY <1>1, <5>1, <5>2 DEF Readable, Owns
        <5>3. CASE \E f \in SourceFiles(d) : HasShare(u, f)
          <6>1. PICK f \in live : pointer[f] = d /\ HasShare(u, f)
            BY <5>3 DEF SourceFiles
          <6>2. source[d] = f
            BY <5>1, <6>1, DocsAreNames DEF KnowledgeInv, PointersName, Types, SharingTypes
          <6>3. \E h \in shares : h.to = u /\ h.file = source[d]
            BY <6>1, <6>2 DEF HasShare
          <6>. QED
            BY <1>1, <5>1, <6>3 DEF Readable
        <5>. QED
          BY <4>2, <5>2, <5>3 DEF CanRead
      <4>. QED
        BY <1>1, <2>2, <3>1, <4>1, <4>2
    <3>2. \A d \in work'[p].found : Readable(req[p].self.id, d)'
      BY <2>2, <3>1 DEF Readable, Owns
    <3>3. source'[p] = Nobody
      BY <1>1 DEF KnowledgeInv, WorkShape
    <3>. QED
      BY <2>2, <3>2, <3>3 DEF WorkShape, Working, Removals
  <2>. QED
    BY <1>1, <2>1, <2>2
<1>4. KnowledgeInv'
  BY <1>1, <1>2, <1>3, AccountLabelsAre, KnowledgeStays
<1>. QED
  BY <1>1, <1>4

\* Answer keeps the invariant of the documents.
LEMMA AnswerKeeps ==
    ASSUME Types, AccountInv, KnowledgeInv, NEW p \in Requests, Answer(p)
    PROVE  KnowledgeFrame(p) /\ KnowledgeInv'
<1>1. /\ KnowledgeFrame(p) /\ pc[p] = "filter" /\ pc'[p] = "done" /\ work'[p] = NoWork
      /\ \A u \in Users, d \in Docs : <<u, d>> \in cited' =>
           <<u, d>> \in cited \/ (u = req[p].self.id /\ d \in work[p].found)
      /\ UNCHANGED <<docs, chunks, source, pointer>> /\ shares' = shares
  BY AnswerFrame DEF AccountInv, KnowledgeInv, sharingStores
<1>2. Frame(p, KnowledgeLabels) /\ SharesStay /\ \A q \in Requests \ {p} : work'[q] = work[q]
  BY <1>1, SharesSame DEF KnowledgeFrame, Foreign
<1>3. WorkShape(p)'
  BY <1>1 DEF WorkShape, Working, Removals
<1>4. \A d \in work[p].found : Readable(req[p].self.id, d)
  BY <1>1 DEF KnowledgeInv, WorkShape
<1>5. \A u \in Users, d \in Docs : <<u, d>> \in cited' => <<u, d>> \in cited \/ Readable(u, d)
  BY <1>1, <1>4
<1>6. source[p] = Nobody
  BY <1>1 DEF KnowledgeInv, WorkShape
<1>7. KnowledgeInv'
  BY <1>1, <1>2, <1>3, <1>5, <1>6, AccountLabelsAre, KnowledgeStays
<1>. QED
  BY <1>1, <1>7

\* SaveDocument keeps the invariant of the documents.
LEMMA SaveDocumentKeeps ==
    ASSUME Types, KnowledgeInv, NEW p \in Requests, SaveDocument(p)
    PROVE  KnowledgeFrame(p) /\ KnowledgeInv'
<1>1. /\ KnowledgeFrame(p) /\ pc[p] = "save_document" /\ pc'[p] = "save_chunks"
      /\ docs' = docs \cup {p} /\ source'[p] = work[p].file /\ work[p].file \in Files
      /\ \A d \in Docs \ {p} : source'[d] = source[d]
      /\ UNCHANGED <<chunks, pointer, work, cited>> /\ shares' = shares
  BY SaveDocumentFrame DEF KnowledgeInv, sharingStores
<1>2. /\ Frame(p, KnowledgeLabels) /\ SharesStay /\ \A q \in Requests \ {p} : work'[q] = work[q]
      /\ p \in Docs
  BY <1>1, SharesSame, DocsAreNames DEF KnowledgeFrame, Foreign
<1>3. \A q \in Requests : pc[q] = "done" => pc'[q] = "done"
  BY <1>2, DoneStays, AccountLabelsAre
<1>4. source[p] = Nobody /\ ~WasSaved(p)
  BY <1>1, DocsAreNames DEF KnowledgeInv, WorkShape, WasSaved
<1>5. SourcesStay(p) /\ \A d \in Docs : source[d] \in Files => source'[d] = source[d]
  <2>1. Nobody \notin Files
    BY FileSharingAssumption
  <2>. QED
    BY <1>1, <1>4, <2>1 DEF SourcesStay
<1>6. \A d : WasSaved(d)' <=> WasSaved(d)
  BY <1>1, <1>2, <1>3 DEF WasSaved, Frame
<1>7. \A q \in Requests : WorkShape(q)'
  <2>1. WorkShape(p)'
    BY <1>1 DEF KnowledgeInv, WorkShape, Working, Removals
  <2>. QED
    BY <1>1, <1>2, <1>3, <1>5, <2>1, OthersWorkShape DEF KnowledgeInv
<1>8. DocsAreSourced'
  <2>1. \A d \in docs' : source'[d] \in Files
    BY <1>1, <1>5 DEF KnowledgeInv, DocsAreSourced, Types, KnowledgeTypes
  <2>2. ASSUME NEW c \in chunks'
        PROVE  source'[c[1]] \in Files /\ (c[1] \in docs' \/ WasSaved(c[1])')
    <3>1. c[1] \in Docs /\ source[c[1]] \in Files /\ (c[1] \in docs \/ WasSaved(c[1]))
      BY <1>1 DEF KnowledgeInv, DocsAreSourced, Types, KnowledgeTypes, Chunks
    <3>. QED
      BY <1>1, <1>5, <1>6, <3>1
  <2>. QED
    BY <2>1, <2>2 DEF DocsAreSourced, WasSaved
<1>9. PointersName'
  <2> SUFFICES ASSUME NEW f \in Files, pointer[f] # Nobody, NEW d, d = pointer[f]
               PROVE  WasSaved(d)' /\ source'[d] = f
    BY <1>1 DEF PointersName, WasSaved
  <2>1. WasSaved(d) /\ source[d] = f /\ d \in Docs
    BY DEF KnowledgeInv, PointersName, Types, KnowledgeTypes
  <2>. QED
    BY <1>5, <1>6, <2>1
<1>10. SavedAreNamed'
  <2> SUFFICES ASSUME NEW d \in Docs, WasSaved(d)', source'[d] \in Files
               PROVE  \/ pointer'[source'[d]] = d
                      \/ Rivalled(d)'
                      \/ \A c \in chunks' : c[1] # d
    BY DEF SavedAreNamed
  <2>1. WasSaved(d) /\ source'[d] = source[d]
    BY <1>1, <1>4, <1>6
  <2>2. Rivalled(d) => Rivalled(d)'
    BY <1>3, <1>5, <2>1, RivalledStays
  <2>. QED
    BY <1>1, <2>1, <2>2 DEF KnowledgeInv, SavedAreNamed
<1>11. CitedAreReadable'
  <2>1. \A u \in Users, d \in Docs : Readable(u, d) => Readable(u, d)'
    BY <1>2, <1>5, ReadableStays
  <2>. QED
    BY <1>1, <2>1 DEF KnowledgeInv, CitedAreReadable
<1>. QED
  BY <1>1, <1>7, <1>8, <1>9, <1>10, <1>11 DEF KnowledgeInv

\* SaveChunk keeps the invariant of the documents.
LEMMA SaveChunkKeeps ==
    ASSUME Types, KnowledgeInv, NEW p \in Requests, SaveChunk(p)
    PROVE  KnowledgeFrame(p) /\ KnowledgeInv'
<1>1. /\ KnowledgeFrame(p) /\ pc[p] = "save_chunks"
      /\ \/ /\ pc'[p] = "save_chunks" /\ p \in docs
            /\ work'[p].doc = work[p].doc /\ work'[p].file = work[p].file
            /\ work'[p].left \subseteq work[p].left
            /\ chunks \subseteq chunks' /\ \A c \in chunks' : c \in chunks \/ c[1] = p
         \/ pc'[p] = "refused" /\ work'[p] = NoWork /\ chunks' = chunks
      /\ UNCHANGED <<docs, source, pointer, cited>> /\ shares' = shares
  BY SaveChunkFrame DEF KnowledgeInv, sharingStores
<1>2. /\ Frame(p, KnowledgeLabels) /\ SharesStay /\ \A q \in Requests \ {p} : work'[q] = work[q]
      /\ KnowledgeTypes'
  BY <1>1, SharesSame DEF KnowledgeFrame, Foreign
<1>3. CASE pc'[p] = "refused" /\ work'[p] = NoWork /\ chunks' = chunks
  <2>1. WorkShape(p)'
    BY <1>3 DEF WorkShape, Working, Removals
  <2>. QED
    BY <1>1, <1>2, <1>3, <2>1, AccountLabelsAre, KnowledgeStays
<1>4. CASE pc'[p] # "refused"
  <2>1. \A q \in Requests : pc[q] = "done" => pc'[q] = "done"
    BY <1>2, DoneStays, AccountLabelsAre
  <2>2. SourcesStay(p) /\ ~WasSaved(p)
    BY <1>1, DocsAreNames DEF SourcesStay, WasSaved
  <2>3. \A d : WasSaved(d)' <=> WasSaved(d)
    BY <1>1, <1>2, <1>4, <2>1 DEF WasSaved, Frame
  <2>4. \A q \in Requests : WorkShape(q)'
    <3>1. WorkShape(p)'
      BY <1>1, <1>4 DEF KnowledgeInv, WorkShape, Working, Removals
    <3>2. \A c \in chunks' : c \in chunks \/ ~WasSaved(c[1])
      BY <1>1, <1>4, <2>2
    <3>. QED
      BY <1>2, <2>1, <2>2, <3>1, <3>2, OthersWorkShape DEF KnowledgeInv
  <2>5. DocsAreSourced'
    <3>1. source[p] \in Files
      BY <1>1, <1>4 DEF KnowledgeInv, DocsAreSourced
    <3>2. \A c \in chunks' : source'[c[1]] \in Files /\ (c[1] \in docs' \/ WasSaved(c[1])')
      BY <1>1, <1>4, <2>3, <3>1 DEF KnowledgeInv, DocsAreSourced
    <3>. QED
      BY <1>1, <3>2 DEF KnowledgeInv, DocsAreSourced, WasSaved
  <2>6. PointersName'
    BY <1>1, <2>3 DEF KnowledgeInv, PointersName
  <2>7. SavedAreNamed'
    <3> SUFFICES ASSUME NEW d \in Docs, WasSaved(d)', source[d] \in Files
                 PROVE  \/ pointer[source[d]] = d
                        \/ Rivalled(d)'
                        \/ \A c \in chunks' : c[1] # d
      BY <1>1 DEF SavedAreNamed
    <3>1. WasSaved(d) /\ d # p
      BY <2>2, <2>3
    <3>2. Rivalled(d) => Rivalled(d)'
      BY <2>1, <2>2, RivalledStays
    <3>3. (\A c \in chunks : c[1] # d) => \A c \in chunks' : c[1] # d
      BY <1>1, <1>4, <3>1
    <3>. QED
      BY <3>1, <3>2, <3>3 DEF KnowledgeInv, SavedAreNamed
  <2>8. CitedAreReadable'
    <3>1. \A u \in Users, d \in Docs : Readable(u, d) => Readable(u, d)'
      BY <1>2, <2>2, ReadableStays
    <3>. QED
      BY <1>1, <3>1 DEF KnowledgeInv, CitedAreReadable
  <2>. QED
    BY <1>1, <2>4, <2>5, <2>6, <2>7, <2>8 DEF KnowledgeInv
<1>. QED
  BY <1>1, <1>3, <1>4

\* The row is saved: with the document that was copied, or with none once the
\* chunks of the one it named are gone.
LEMMA RowKeeps ==
    ASSUME Types, KnowledgeInv, NEW p \in Requests, NEW f \in Files, NEW name \in Docs \cup {Nobody},
           KnowledgeFrame(p), pc[p] \in {"save_chunks", "pop_chunks"}, pc'[p] = "done",
           work'[p] = NoWork, pointer'[f] = name, \A g \in Files \ {f} : pointer'[g] = pointer[g],
           UNCHANGED <<docs, chunks, source, cited>>, shares' = shares,
           source[p] \in Files => name = p /\ source[p] = f,
           name # Nobody => name = p /\ source[p] = f,
           \A d \in Docs \ {p} : source[d] = f /\ WasSaved(d) =>
               Rivalled(d)' \/ \A c \in chunks : c[1] # d
    PROVE  KnowledgeInv'
<1>1. /\ Frame(p, KnowledgeLabels) /\ SharesStay /\ \A q \in Requests \ {p} : work'[q] = work[q]
      /\ p \in Docs
  BY SharesSame, DocsAreNames DEF KnowledgeFrame, Foreign
<1>2. \A q \in Requests : pc[q] = "done" => pc'[q] = "done"
  BY <1>1, DoneStays, AccountLabelsAre
<1>3. SourcesStay(p)
  BY DEF SourcesStay
<1>4. (\A d : WasSaved(d) => WasSaved(d)') /\ WasSaved(p)' /\ \A d \in Docs \ {p} : WasSaved(d)' => WasSaved(d)
  BY <1>1, <1>2 DEF WasSaved, Frame
<1>5. \A q \in Requests : WorkShape(q)'
  <2>1. WorkShape(p)'
    BY DEF WorkShape, Working, Removals
  <2>. QED
    BY <1>1, <1>2, <1>3, <2>1, OthersWorkShape DEF KnowledgeInv
<1>6. DocsAreSourced'
  BY <1>4 DEF KnowledgeInv, DocsAreSourced
<1>7. PointersName'
  <2> SUFFICES ASSUME NEW g \in Files, pointer'[g] # Nobody, NEW d, d = pointer'[g]
               PROVE  WasSaved(d)' /\ source[d] = g
    BY DEF PointersName, WasSaved
  <2>1. CASE g = f
    BY <1>4, <2>1
  <2>2. CASE g # f
    BY <1>4, <2>2 DEF KnowledgeInv, PointersName
  <2>. QED
    BY <2>1, <2>2
<1>8. SavedAreNamed'
  <2> SUFFICES ASSUME NEW d \in Docs, WasSaved(d)', source[d] \in Files
               PROVE  \/ pointer'[source[d]] = d
                      \/ Rivalled(d)'
                      \/ \A c \in chunks : c[1] # d
    BY DEF SavedAreNamed
  <2>1. CASE d = p
    BY <2>1
  <2>2. CASE d # p /\ source[d] = f
    BY <1>4, <2>2
  <2>3. CASE d # p /\ source[d] # f
    <3>1. WasSaved(d)
      BY <1>4, <2>3
    <3>2. Rivalled(d) => Rivalled(d)'
      BY <1>2, <1>3, RivalledStays
    <3>. QED
      BY <2>3, <3>1, <3>2 DEF KnowledgeInv, SavedAreNamed
  <2>. QED
    BY <2>1, <2>2, <2>3
<1>9. CitedAreReadable'
  <2>1. \A u \in Users, d \in Docs : Readable(u, d) => Readable(u, d)'
    BY <1>1, <1>3, ReadableStays
  <2>. QED
    BY <2>1 DEF KnowledgeInv, CitedAreReadable
<1>. QED
  BY <1>5, <1>6, <1>7, <1>8, <1>9 DEF KnowledgeInv

\* SavePromoted keeps the invariant of the documents.
LEMMA SavePromotedKeeps ==
    ASSUME Types, KnowledgeInv, NEW p \in Requests, SavePromoted(p)
    PROVE  KnowledgeFrame(p) /\ KnowledgeInv'
<1>1. PICK f \in Files :
        /\ f = work[p].file
        /\ KnowledgeFrame(p) /\ pc[p] = "save_chunks" /\ pc'[p] = "done"
        /\ work'[p] = NoWork /\ source[p] = f
        /\ pointer'[f] = p /\ \A g \in Files \ {f} : pointer'[g] = pointer[g]
        /\ UNCHANGED <<docs, chunks, source, cited>>
  BY SavePromotedFrame DEF KnowledgeInv
<1>2. shares' = shares /\ p \in Docs
  BY <1>1, DocsAreNames DEF KnowledgeFrame
<1>3. ASSUME NEW d \in Docs \ {p}, source[d] = f
      PROVE  Rivalled(d)'
  BY <1>1, <1>2, <1>3 DEF Rivalled, WasSaved
<1>4. p \in Docs \cup {Nobody}
  BY <1>2
<1>5. KnowledgeInv'
  BY <1>1, <1>2, <1>3, <1>4, RowKeeps
<1>. QED
  BY <1>1, <1>5

\* SaveDemoted keeps the invariant of the documents.
LEMMA SaveDemotedKeeps ==
    ASSUME Types, KnowledgeInv, NEW p \in Requests, SaveDemoted(p)
    PROVE  KnowledgeFrame(p) /\ KnowledgeInv'
<1>1. PICK f \in Files :
        /\ f = work[p].file
        /\ KnowledgeFrame(p) /\ pc[p] = "pop_chunks" /\ pc'[p] = "done"
        /\ work'[p] = NoWork /\ work[p].left = {}
        /\ pointer'[f] = Nobody /\ \A g \in Files \ {f} : pointer'[g] = pointer[g]
        /\ UNCHANGED <<docs, chunks, source, cited>>
  BY SaveDemotedFrame DEF KnowledgeInv
<1>2. shares' = shares
  BY <1>1 DEF KnowledgeFrame
<1>3. PICK gone \in Docs : /\ gone = work[p].doc /\ source[gone] = f /\ WasSaved(gone)
                           /\ \A c \in chunks : c[1] # gone
  BY <1>1 DEF KnowledgeInv, WorkShape, Removals
<1>4. \A q \in Requests : pc[q] = "done" => pc'[q] = "done"
  BY <1>1, DoneStays, AccountLabelsAre DEF KnowledgeFrame, Foreign
<1>5. WasSaved(gone)'
  BY <1>3, <1>4, SavedStays
<1>6. ASSUME NEW d \in Docs \ {p}, source[d] = f
      PROVE  Rivalled(d)' \/ \A c \in chunks : c[1] # d
  BY <1>1, <1>3, <1>5, <1>6 DEF Rivalled
<1>7. source[p] = Nobody /\ Nobody \in Docs \cup {Nobody} /\ Nobody \notin Files
  BY <1>1, FileSharingAssumption DEF KnowledgeInv, WorkShape
<1>8. KnowledgeInv'
  BY <1>1, <1>2, <1>6, <1>7, RowKeeps
<1>. QED
  BY <1>1, <1>8

-----------------------------------------------------------------------------
(* The invariant is inductive.                                             *)

\* What a step of the accounts changes.
LEMMA AccountsFrame ==
    ASSUME Types, AccountInv, NEW p \in Requests, AccountsArrive(p) \/ AccountsStep(p)
    PROVE  AccountTypes' /\ Frame(p, AccountLabels)
<1>. /\ AccountShape(p) /\ UsersAreKnown /\ SessionsAreNamed /\ NewRoles \subseteq Roles
  BY AccountsAssumption DEF AccountInv
<1>1. CASE \E e \in Emails : SignUp(p, e)
  BY <1>1, SignUpFrame
<1>2. CASE \E e \in DOMAIN byEmail : SignIn(p, e)
  BY <1>2, SignInFrame
<1>3. CASE \E s \in Sessions : Refresh(p, s) \/ Revoke(p, s)
  BY <1>3, RefreshFrame, RevokeFrame
<1>4. CASE \E t \in tokens, u \in Users, r \in NewRoles : SetRoles(p, t, u, r)
  BY <1>4, SetRolesFrame
<1>5. CASE CheckEmail(p) \/ InsertUser(p) \/ Issue(p)
  BY <1>5, CheckEmailFrame, InsertUserFrame, IssueFrame
<1>6. CASE Owner(p) \/ Rotate(p) \/ RevokeSession(p)
  BY <1>6, OwnerFrame, RotateFrame, RevokeSessionFrame
<1>7. CASE Target(p) \/ WriteRoles(p) \/ Audit(p)
  BY <1>7, TargetFrame, WriteRolesFrame, AuditFrame
<1>. QED
  BY <1>1, <1>2, <1>3, <1>4, <1>5, <1>6, <1>7 DEF AccountsArrive, AccountsStep

\* Every step of the accounts keeps their invariant.
LEMMA AccountsKeep ==
    ASSUME Types, Apart, AccountInv, NEW p \in Requests, AccountsArrive(p) \/ AccountsStep(p)
    PROVE  AccountInv' /\ \A u \in People : MadeAdmin(u) => MadeAdmin(u)'
<1>1. CASE \E e \in Emails : SignUp(p, e)
  BY <1>1, SignUpKeeps
<1>2. CASE \E e \in DOMAIN byEmail : SignIn(p, e)
  BY <1>2, SignInKeeps
<1>3. CASE \E s \in Sessions : Refresh(p, s) \/ Revoke(p, s)
  BY <1>3, RefreshKeeps, RevokeKeeps
<1>4. CASE \E t \in tokens, u \in Users, r \in NewRoles : SetRoles(p, t, u, r)
  BY <1>4, SetRolesKeeps
<1>5. CASE CheckEmail(p) \/ InsertUser(p) \/ Issue(p)
  BY <1>5, CheckEmailKeeps, InsertUserKeeps, IssueKeeps
<1>6. CASE Owner(p) \/ Rotate(p) \/ RevokeSession(p)
  BY <1>6, OwnerKeeps, RotateKeeps, RevokeSessionKeeps
<1>7. CASE Target(p) \/ WriteRoles(p) \/ Audit(p)
  BY <1>7, TargetKeeps, WriteRolesKeeps, AuditKeeps
<1>. QED
  BY <1>1, <1>2, <1>3, <1>4, <1>5, <1>6, <1>7 DEF AccountsArrive, AccountsStep

\* Every step of the accounts keeps the whole invariant.
LEMMA AccountsNextKeeps ==
    ASSUME IInv, AccountsNext, UNCHANGED <<sharingStores, knowledge>>
    PROVE  IInv'
<1>1. PICK p \in Requests : AccountsArrive(p) \/ AccountsStep(p)
  BY DEF AccountsNext
<1>2. AccountTypes' /\ Frame(p, AccountLabels)
  BY <1>1, AccountsFrame DEF IInv
<1>3. AccountInv' /\ \A u \in People : MadeAdmin(u) => MadeAdmin(u)'
  BY <1>1, AccountsKeep DEF IInv
<1>4. Apart'
  BY <1>2, FrameKeepsApart, AccountLabelsAre DEF IInv, Types, AccountTypes
<1>5. SharingInv'
  BY <1>2, <1>3, ElsewhereKeepsSharing DEF IInv, sharingStores
<1>6. KnowledgeInv'
  <2>1. SharesStay
    BY SharesSame DEF sharingStores
  <2>. QED
    BY <1>2, <2>1, ElsewhereKeepsKnowledge DEF IInv
<1>7. SharingTypes' /\ KnowledgeTypes'
  BY DEF IInv, Types, SharingTypes, KnowledgeTypes, sharingStores, knowledge
<1>. QED
  BY <1>2, <1>3, <1>4, <1>5, <1>6, <1>7 DEF IInv, Types

\* Every step of sharing keeps the invariant of files and requests.
LEMMA SharingKeeps ==
    ASSUME IInv, NEW p \in Requests, SharingArrive(p) \/ SharingStep(p), UNCHANGED knowledge
    PROVE  IInv'
<1>. Types /\ Apart /\ AccountInv /\ SharingInv /\ KnowledgeInv
  BY DEF IInv
<1>1. /\ Foreign(p, SharingLabels) /\ SharingTypes' /\ SharesStay
      /\ AccountInv' /\ SharingInv'
  <2>1. CASE SharingArrive(p)
    BY <2>1, SharingArriveKeeps
  <2>2. CASE CheckSubmit(p) \/ SaveAsk(p) \/ CheckDecision(p)
    BY <2>2, CheckSubmitKeeps, SaveAskKeeps, CheckDecisionKeeps
  <2>3. CASE Reject(p) \/ SaveShares(p) \/ Approve(p)
    BY <2>3, RejectKeeps, SaveSharesKeeps, ApproveKeeps
  <2>4. CASE Grant(p) \/ RevokeShare(p) \/ ReadFile(p)
    BY <2>4, GrantKeeps, RevokeShareKeeps, ReadFileKeeps
  <2>. QED
    BY <2>1, <2>2, <2>3, <2>4 DEF SharingStep
<1>2. Frame(p, SharingLabels) /\ AccountTypes'
  BY <1>1 DEF Foreign
<1>3. Apart'
  BY <1>2, FrameKeepsApart, AccountLabelsAre DEF Types, AccountTypes
<1>4. KnowledgeInv'
  BY <1>1, <1>2, ElsewhereKeepsKnowledge
<1>5. KnowledgeTypes'
  BY DEF Types, KnowledgeTypes, knowledge
<1>. QED
  BY <1>1, <1>2, <1>3, <1>4, <1>5 DEF IInv, Types

\* Every step of promotion and retrieval keeps that of the documents.
LEMMA KnowledgeKeeps ==
    ASSUME IInv, NEW p \in Requests, KnowledgeArrive(p) \/ KnowledgeStep(p)
    PROVE  IInv'
<1>. Types /\ Apart /\ AccountInv /\ SharingInv /\ KnowledgeInv
  BY DEF IInv
<1>1. KnowledgeFrame(p) /\ KnowledgeInv'
  <2>1. CASE KnowledgeArrive(p)
    BY <2>1, KnowledgeArriveKeeps DEF AccountInv
  <2>2. CASE ReadPromotable(p) \/ SaveDocument(p) \/ SaveChunk(p) \/ SavePromoted(p)
    BY <2>2, ReadPromotableKeeps, SaveDocumentKeeps, SaveChunkKeeps, SavePromotedKeeps
  <2>3. CASE FindSource(p) \/ PopDocument(p) \/ Scan(p)
    BY <2>3, FindSourceKeeps, PopDocumentKeeps, ScanKeeps
  <2>4. CASE ListStale(p) \/ PopChunk(p) \/ SaveDemoted(p)
    BY <2>4, ListStaleKeeps, PopChunkKeeps, SaveDemotedKeeps
  <2>5. CASE ListChunks(p) \/ FilterChunk(p) \/ Answer(p)
    BY <2>5, ListChunksKeeps, FilterChunkKeeps, AnswerKeeps
  <2>. QED
    BY <2>1, <2>2, <2>3, <2>4, <2>5 DEF KnowledgeStep
<1>2. /\ Foreign(p, KnowledgeLabels) /\ Frame(p, KnowledgeLabels) /\ AccountTypes'
      /\ KnowledgeTypes' /\ live' \subseteq Files /\ UNCHANGED <<scope, asks, shares, seen>>
  BY <1>1 DEF KnowledgeFrame, Foreign
<1>3. AccountInv' /\ \A u \in People : MadeAdmin(u) => MadeAdmin(u)'
  BY <1>2, ForeignKeeps
<1>4. Apart'
  BY <1>2, FrameKeepsApart, AccountLabelsAre DEF Types, AccountTypes
<1>5. SharingInv'
  BY <1>2, <1>3, ElsewhereKeepsSharing
<1>6. SharingTypes'
  BY <1>2 DEF Types, SharingTypes
<1>. QED
  BY <1>1, <1>2, <1>3, <1>4, <1>5, <1>6 DEF IInv, Types

\* The owner deletes a file, or nothing happens.
LEMMA RestKeeps ==
    ASSUME IInv, live' \subseteq Files,
           UNCHANGED <<accountVars, scope, asks, shares, seen, knowledge>>
    PROVE  IInv'
<1>1. /\ UNCHANGED <<orgs, users, byEmail, sessions, tokens, audits, pc, req, raced>>
      /\ UNCHANGED <<scope, asks, shares, seen>>
      /\ UNCHANGED <<docs, chunks, source, pointer, work, cited>>
  BY DEF accountVars, knowledge
<1>2. Types' /\ Apart'
  BY <1>1 DEF IInv, Types, AccountTypes, SharingTypes, KnowledgeTypes, Apart, InFlight
<1>3. \A p \in Requests : AccountShape(p)'
  BY <1>1 DEF IInv, AccountInv, AccountShape, Known, Exists
<1>4. UsersAreKnown' /\ SessionsAreNamed' /\ RefreshesAreNamed'
  BY <1>1 DEF IInv, AccountInv, UsersAreKnown, SessionsAreNamed, RefreshesAreNamed, Known, Exists,
              Descending
<1>5. OneActive' /\ RefreshesAlone'
  BY <1>1 DEF IInv, AccountInv, OneActive, RefreshesAlone, ActiveOf
<1>6. VersionsCount' /\ TokensAreBehind' /\ WritesAreFresh'
  BY <1>1 DEF IInv, AccountInv, VersionsCount, TokensAreBehind, WritesAreFresh, Wrote, Behind
<1>7. TrailsLead'
  <2>1. \A u : EventsOf(u)' = EventsOf(u)
    BY <1>1 DEF EventsOf
  <2>2. \A u, n, role : LeavesWith(u, n, role)' <=> LeavesWith(u, n, role)
    BY <1>1, <2>1 DEF LeavesWith
  <2>3. \A u : \A p \in Requests : Auditing(p, u)' <=> Auditing(p, u)
    BY <1>1 DEF Auditing
  <2>. QED
    BY <1>1, <2>1, <2>2, <2>3 DEF IInv, AccountInv, TrailsLead
<1>8. AdminsWereMade' /\ \A u : MadeAdmin(u)' <=> MadeAdmin(u)
  BY <1>1 DEF IInv, AccountInv, AdminsWereMade, MadeAdmin, EventsOf
<1>9. AccountInv'
  BY <1>3, <1>4, <1>5, <1>6, <1>7, <1>8 DEF AccountInv
<1>10. \A p \in Requests : SharingShape(p)'
  BY <1>1 DEF IInv, SharingInv, SharingShape, GrantedTo, Granted
<1>11. AsksAreNamed' /\ OnePending' /\ DecisionsAlone'
  BY <1>1 DEF IInv, SharingInv, AsksAreNamed, OnePending, DecisionsAlone, PendingOn
<1>12. ApprovedAreGranted' /\ GrantsAreApproved'
  BY <1>1 DEF IInv, SharingInv, ApprovedAreGranted, GrantsAreApproved, GrantedTo, Granted
<1>13. FilesWereGranted'
  BY <1>1, <1>8, SharesSame, GrantedFilesStay DEF IInv, SharingInv
<1>14. SharingInv'
  BY <1>10, <1>11, <1>12, <1>13 DEF SharingInv
<1>15. \A p \in Requests : WorkShape(p)'
  BY <1>1 DEF IInv, KnowledgeInv, WorkShape, WasSaved, Readable, Owns
<1>16. DocsAreSourced' /\ PointersName' /\ SavedAreNamed' /\ CitedAreReadable'
  BY <1>1 DEF IInv, KnowledgeInv, DocsAreSourced, PointersName, SavedAreNamed, CitedAreReadable,
              WasSaved, Rivalled, Readable, Owns
<1>. QED
  BY <1>2, <1>9, <1>14, <1>15, <1>16 DEF IInv, KnowledgeInv

\* Every step, and a step that changes nothing, keeps the invariant.
LEMMA NextKeeps ==
    ASSUME IInv, [KnowledgeNext]_knowledgeVars
    PROVE  IInv'
<1>1. CASE AccountsNext /\ UNCHANGED sharingStores /\ UNCHANGED knowledge
  BY <1>1, AccountsNextKeeps
<1>2. CASE /\ \E p \in Requests : SharingArrive(p) \/ SharingStep(p)
           /\ UNCHANGED knowledge
  BY <1>2, SharingKeeps
<1>3. CASE /\ \E f \in Files : FileGoes(f)
           /\ UNCHANGED knowledge
  BY <1>3, RestKeeps DEF FileGoes, IInv, Types, SharingTypes
<1>4. CASE \E p \in Requests : KnowledgeArrive(p) \/ KnowledgeStep(p)
  BY <1>4, KnowledgeKeeps
<1>5. CASE UNCHANGED knowledgeVars
  BY <1>5, RestKeeps DEF knowledgeVars, vars, sharingStores, IInv, Types, SharingTypes
<1>. QED
  BY <1>1, <1>2, <1>3, <1>4, <1>5 DEF KnowledgeNext, Next

\* The stores start with their types.
LEMMA InitTypes == KnowledgeInit => Types
<1> SUFFICES ASSUME KnowledgeInit PROVE Types
  OBVIOUS
<1>. SharingInit /\ AccountsInit
  BY DEF KnowledgeInit, SharingInit
<1>1. /\ orgs \subseteq Requests
      /\ byEmail \in [People \cup Emails -> Users \cup {Nobody}]
      /\ sessions \in [Sessions -> Session \cup {NoSession}]
      /\ tokens \subseteq [user : Users, version : Nat]
  BY DEF AccountsInit, Users, Sessions, Session
<1>2. users \in [Users -> Row]
  BY AccountsAssumption DEF AccountsInit, Users, Row, NoUser, Roles
<1>3. audits \in Seq(Event) /\ raced \subseteq Subjects
  BY DEF AccountsInit
<1>4. pc \in [Requests -> Labels] /\ req \in [Requests -> Local]
  BY BlankIsLocal DEF AccountsInit, Labels
<1>5. AccountTypes
  BY <1>1, <1>2, <1>3, <1>4 DEF AccountTypes
<1>6. scope \in [Files -> Scopes] /\ live \subseteq Files /\ shares \subseteq ShareRecord
      /\ seen \subseteq Users \X Files
  BY DEF SharingInit
<1>7. asks \in [Requests -> AskRecord]
  BY DEF SharingInit, NoAsk, AskRecord, Roles
<1>8. /\ docs \subseteq Docs /\ chunks \subseteq Chunks /\ cited \subseteq Users \X Docs
      /\ source \in [Docs -> Files \cup {Nobody}] /\ pointer \in [Files -> Docs \cup {Nobody}]
  BY KnowledgeAssumption DEF KnowledgeInit, Docs, Chunks
<1>9. work \in [Requests -> Work]
  BY NoWorkIsWork DEF KnowledgeInit
<1>. QED
  BY <1>5, <1>6, <1>7, <1>8, <1>9 DEF Types, SharingTypes, KnowledgeTypes

\* The accounts start with their invariant.
LEMMA InitAccounts == KnowledgeInit => Apart /\ AccountInv
<1> SUFFICES ASSUME KnowledgeInit PROVE Apart /\ AccountInv
  OBVIOUS
<1>1. /\ AccountsInit /\ Types
      /\ \A p \in Requests : pc[p] = "idle" /\ req[p] = Blank
      /\ Nobody \notin Users /\ People \subseteq Users /\ Sessions = Users
      /\ Requests \cap People = {}
  BY InitTypes, AccountsAssumption DEF KnowledgeInit, SharingInit, AccountsInit, Users, Sessions
<1>2. /\ \A u \in People : users[u].id = u /\ users[u].role = RoleOf[u] /\ users[u].version = 1
      /\ \A u \in Users \ People : users[u] = NoUser
  BY <1>1 DEF AccountsInit
<1>3. NoUser.id = Nobody /\ NoUser.version = 1 /\ NoSession.state = "none"
  BY DEF NoUser, NoSession
<1>4. /\ \A s \in People : sessions[s].user = s /\ sessions[s].chain = s
      /\ \A s \in Users \ People : sessions[s] = NoSession
  BY <1>1 DEF AccountsInit
<1>5. Apart
  BY <1>1 DEF Apart, InFlight
<1>6. \A p \in Requests : AccountShape(p)
  BY <1>1 DEF AccountShape, Authorized
<1>7. UsersAreKnown
  <2>1. \A u \in Users : users[u] = NoUser \/ Known(u)
    BY <1>2 DEF Known
  <2>2. \A e \in DOMAIN byEmail : byEmail[e] # Nobody => byEmail[e] \in People
    BY <1>1 DEF AccountsInit
  <2>3. \A p \in Requests : ~Known(p)
    BY <1>1, <1>2, <1>3 DEF Known, Users
  <2>. QED
    BY <1>2, <2>1, <2>2, <2>3 DEF UsersAreKnown, Known
<1>8. SessionsAreNamed /\ RefreshesAreNamed
  BY <1>1, <1>2, <1>4 DEF SessionsAreNamed, RefreshesAreNamed, Descending, Exists, Known
<1>9. OneActive /\ RefreshesAlone
  BY <1>1, <1>3, <1>4 DEF OneActive, RefreshesAlone, ActiveOf
<1>10. VersionsCount
  <2>1. Wrote = {}
    BY <1>1 DEF Wrote
  <2>2. Cardinality(Wrote) = 0
    BY <2>1, FS_EmptySet
  <2>3. \A u \in Users : users[u].version = 1
    BY <1>2, <1>3
  <2>4. \A t \in tokens : t.version = 1
    BY <1>1 DEF AccountsInit
  <2>5. \A p \in Requests : req[p].row.version = 1
    BY <1>1, <1>3, BlankIsLocal
  <2>. QED
    BY <2>2, <2>3, <2>4, <2>5 DEF VersionsCount
<1>11. TokensAreBehind /\ WritesAreFresh
  <2>1. \A t \in tokens : t.user \in People /\ t.version = 1
    BY <1>1 DEF AccountsInit
  <2>. QED
    BY <1>1, <1>2, <2>1 DEF TokensAreBehind, WritesAreFresh, Behind
<1>12. TrailsLead
  <2> SUFFICES ASSUME NEW u \in People
               PROVE  /\ EventsOf(u) = {}
                      /\ LeavesWith(u, Len(audits) + 1, users[u].role)
                      /\ users[u].version = Cardinality(EventsOf(u)) + 1
    BY <1>1 DEF TrailsLead, Auditing
  <2>1. EventsOf(u) = {}
    BY <1>1 DEF EventsOf, AccountsInit
  <2>2. Cardinality(EventsOf(u)) = 0
    BY <2>1, FS_EmptySet
  <2>. QED
    BY <1>2, <2>1, <2>2 DEF LeavesWith
<1>13. AdminsWereMade
  BY <1>1, <1>2 DEF AdminsWereMade, MadeAdmin, Authorized
<1>. QED
  BY <1>5, <1>6, <1>7, <1>8, <1>9, <1>10, <1>11, <1>12, <1>13 DEF AccountInv

\* Files and requests start with their invariant.
LEMMA InitShares == KnowledgeInit => SharingInv
<1> SUFFICES ASSUME KnowledgeInit PROVE SharingInv
  OBVIOUS
<1>1. /\ \A p \in Requests : pc[p] = "idle" /\ asks[p] = NoAsk
      /\ shares = {} /\ seen = {} /\ NoAsk.state = "none"
  BY DEF KnowledgeInit, SharingInit, AccountsInit, NoAsk
<1>2. \A p \in Requests : SharingShape(p)
  BY <1>1 DEF SharingShape
<1>3. AsksAreNamed /\ OnePending /\ DecisionsAlone
  BY <1>1 DEF AsksAreNamed, OnePending, DecisionsAlone, PendingOn
<1>4. ApprovedAreGranted /\ GrantsAreApproved /\ FilesWereGranted
  BY <1>1 DEF ApprovedAreGranted, GrantsAreApproved, FilesWereGranted, Granted
<1>. QED
  BY <1>2, <1>3, <1>4 DEF SharingInv

\* The documents start with their invariant.
LEMMA InitKnowledge == KnowledgeInit => KnowledgeInv
<1> SUFFICES ASSUME KnowledgeInit PROVE KnowledgeInv
  OBVIOUS
<1>1. /\ \A p \in Requests : pc[p] = "idle" /\ work[p] = NoWork /\ source[p] = Nobody
      /\ \A d \in Docs : source[d] = IF d \in Promoted THEN d ELSE Nobody
      /\ \A f \in Files : pointer[f] = IF f \in Promoted THEN f ELSE Nobody
      /\ docs = Promoted /\ chunks = Promoted \X Parts /\ cited = {}
      /\ Promoted \subseteq Files /\ Promoted \subseteq Docs /\ Nobody \notin Files
  BY DocsAreNames, KnowledgeAssumption, FileSharingAssumption
  DEF KnowledgeInit, SharingInit, AccountsInit, Docs
<1>2. \A p \in Requests : WorkShape(p)
  BY <1>1 DEF WorkShape, Working, Removals
<1>3. DocsAreSourced /\ PointersName /\ CitedAreReadable
  BY <1>1 DEF DocsAreSourced, PointersName, CitedAreReadable, WasSaved
<1>4. SavedAreNamed
  BY <1>1 DEF SavedAreNamed
<1>. QED
  BY <1>2, <1>3, <1>4 DEF KnowledgeInv

-----------------------------------------------------------------------------
(* What the invariant says.                                                *)

\* The invariant holds of every reachable state.
THEOREM Inductive == KnowledgeSpec => []IInv
<1>1. KnowledgeInit => IInv
  BY InitTypes, InitAccounts, InitShares, InitKnowledge DEF IInv
<1>2. IInv /\ [KnowledgeNext]_knowledgeVars => IInv'
  BY NextKeeps
<1>. QED
  BY <1>1, <1>2, PTL DEF KnowledgeSpec

\* A set whose members are all the same has one at most.
LEMMA AtMostOne ==
    ASSUME NEW S, \A x, y \in S : x = y
    PROVE  Cardinality(S) <= 1
<1>1. CASE S = {}
  BY <1>1, FS_EmptySet
<1>2. CASE S # {}
  <2>1. PICK x \in S : TRUE
    BY <1>2
  <2>2. S = {x}
    BY <2>1
  <2>. QED
    BY <2>2, FS_Singleton
<1>. QED
  BY <1>1, <1>2

\* There are as many role changes as requests, at most.
LEMMA WroteBounded ==
    /\ Cardinality(Wrote) \in Nat /\ Cardinality(Requests) \in Nat
    /\ Cardinality(Wrote) <= Cardinality(Requests)
<1>1. Wrote \subseteq Requests /\ IsFiniteSet(Requests)
  BY AccountsAssumption DEF Wrote
<1>. HIDE DEF Wrote
<1>. QED
  BY <1>1, FS_Subset, FS_CardinalityType

\* Every store keeps its type; no version exceeds the role changes there may be,
\* and no token is ahead of its user, through every sign-up, refresh, role
\* change, share and promotion in between (Accounts, FileSharing, KnowledgeStore).
THEOREM Typed == KnowledgeSpec => []TypeOK
<1>1. IInv => TypeOK
  <2> SUFFICES ASSUME IInv PROVE TypeOK
    OBVIOUS
  <2>1. Types
    BY DEF IInv
  <2> DEFINE n == Cardinality(Wrote)  m == Cardinality(Requests)
  <2>2. /\ \A u \in Users : users[u].version \in 1..n + 1
        /\ \A t \in tokens : t.version \in 1..n + 1
    BY DEF IInv, AccountInv, VersionsCount
  <2>3. \A k \in 1..n + 1 : k \in Versions
    <3>1. n \in Nat /\ m \in Nat /\ n <= m
      BY WroteBounded
    <3>2. Versions = 1..m + 1
      BY DEF Versions
    <3>. HIDE DEF n, m
    <3>. QED
      BY <3>1, <3>2
  <2>. HIDE DEF n, m
  <2>4. users \in [Users -> [id : Users \cup {Nobody}, role : Roles, version : Versions]]
    BY <2>1, <2>2, <2>3 DEF Types, AccountTypes, Row
  <2>5. /\ tokens \subseteq Tokens
        /\ \A t \in tokens : t.user \in raced \/ t.version <= users[t.user].version
    <3>1. \A t \in tokens : Behind(t.user, t.version)
      BY DEF IInv, AccountInv, TokensAreBehind
    <3>. QED
      BY <2>1, <2>2, <2>3, <3>1 DEF Types, AccountTypes, Tokens, Behind
  <2>6. /\ orgs \subseteq Requests
        /\ byEmail \in [People \cup Emails -> Users \cup {Nobody}]
        /\ sessions \in [Sessions -> [user : Users, chain : Sessions,
                                      state : {"active", "revoked"}] \cup {NoSession}]
        /\ audits \in Seq([by : Users, user : Users, before : Roles, after : Roles])
        /\ pc \in [Requests -> Labels] /\ DOMAIN req = Requests
    BY <2>1 DEF Types, AccountTypes, Session, Event
  <2>7. /\ live \subseteq Files
        /\ asks \in [Requests -> [file : Files \cup {Nobody}, role : Roles, fanout : SUBSET People,
                        state : {"none", "pending", "approved", "rejected"}]]
        /\ shares \subseteq [by : Requests, to : People, file : Files,
                       ask : Requests \cup {Nobody}, active : BOOLEAN]
        /\ seen \subseteq Users \X Files
    BY <2>1 DEF Types, SharingTypes, AskRecord, ShareRecord
  <2>8. /\ docs \subseteq Docs /\ chunks \subseteq Chunks /\ cited \subseteq Users \X Docs
        /\ source \in [Docs -> Files \cup {Nobody}] /\ pointer \in [Files -> Docs \cup {Nobody}]
        /\ DOMAIN work = Requests
    BY <2>1 DEF Types, KnowledgeTypes
  <2>. QED
    BY <2>4, <2>5, <2>6, <2>7, <2>8 DEF TypeOK
<1>. QED
  BY <1>1, Inductive, PTL

\* A sign-in has one active refresh session at most, unless two requests were
\* at it at once (Rotate revokes before Issue adds).
THEOREM OneActiveAlways == KnowledgeSpec => []OneActivePerSignIn
<1>1. IInv => OneActivePerSignIn
  BY AtMostOne DEF IInv, AccountInv, OneActive, ActiveOf, OneActivePerSignIn
<1>. QED
  BY <1>1, Inductive, PTL

\* The audit trail of a user leads from its first role to the one it has, and
\* each event counts in its version (WriteRoles, then Audit).
THEOREM RolesAuditedAlways == KnowledgeSpec => []RolesAudited
<1>1. IInv => RolesAudited
  <2> SUFFICES ASSUME IInv, NEW u \in People \ raced, ~Changing(u)
               PROVE  /\ LeavesWith(u, Len(audits) + 1, users[u].role)
                      /\ \A i \in EventsOf(u) : LeavesWith(u, i, audits[i].before)
                      /\ users[u].version = Cardinality(EventsOf(u)) + 1
    BY DEF RolesAudited
  <2>1. \A p \in Requests : ~Auditing(p, u)
    BY DEF Auditing, Changing, IInv, AccountInv, AccountShape
  <2>. QED
    BY <2>1 DEF IInv, AccountInv, TrailsLead
<1>. QED
  BY <1>1, Inductive, PTL

\* A file has one pending request at most, and the shares of a request match
\* what was decided, unless two requests were at it at once (SaveShares commits
\* before Approve).
THEOREM DecidedOnceAlways == KnowledgeSpec => []RequestsDecidedOnce
<1>1. IInv => OnePendingPerFile
  BY AtMostOne DEF IInv, SharingInv, OnePending, PendingOn, OnePendingPerFile
<1>2. IInv => SharesMatchDecision
  <2> SUFFICES ASSUME IInv, NEW a \in Requests
               PROVE  /\ asks[a].state = "approved" => asks[a].fanout \subseteq GrantedTo(a)
                      /\ a \notin raced /\ asks[a].state = "rejected" => GrantedTo(a) = {}
    BY DEF SharesMatchDecision, GrantedTo, Granted
  <2>1. asks[a].state = "approved" => asks[a].fanout \subseteq GrantedTo(a)
    BY DEF IInv, SharingInv, ApprovedAreGranted
  <2>2. ASSUME a \notin raced, asks[a].state = "rejected", Granted(a) # {}
        PROVE  FALSE
    <3>1. \E p \in Requests : pc[p] = "approve" /\ req[p].about = a
      BY <2>2 DEF IInv, SharingInv, GrantsAreApproved
    <3>. QED
      BY <2>2, <3>1 DEF IInv, SharingInv, DecisionsAlone
  <2>. QED
    BY <2>1, <2>2 DEF GrantedTo
<1>. QED
  BY <1>1, <1>2, Inductive, PTL DEF RequestsDecidedOnce

\* Whoever read a file or got an answer that cites it owned it, was given it, or
\* was made an administrator (ReadFile, FilterChunk, Answer).
THEOREM ReadersGrantedAlways == KnowledgeSpec => []ReadersWereGranted
<1>1. IInv => ReadersWereGranted
  BY DEF IInv, SharingInv, KnowledgeInv, CitedAreReadable, Readable, ReadersWereGranted
<1>. QED
  BY <1>1, Inductive, PTL

\* The document of an orphaned chunk can still be demoted, for demote_document
\* finds the row that names it, unless the file was promoted twice or is deleted
\* (PopDocument, PopChunk, then SaveDemoted).
THEOREM OrphansDemotedAlways == KnowledgeSpec => []OrphansCanBeDemoted
<1>1. IInv => OrphansCanBeDemoted
  <2> SUFFICES ASSUME IInv, NEW c \in chunks, c[1] \notin docs, source[c[1]] \in live
               PROVE  Rivalled(c[1]) \/ SourceFiles(c[1]) # {}
    BY DEF OrphansCanBeDemoted
  <2>1. c[1] \in Docs
    BY DEF IInv, Types, KnowledgeTypes, Chunks
  <2>2. source[c[1]] \in Files /\ WasSaved(c[1])
    BY DEF IInv, KnowledgeInv, DocsAreSourced
  <2>3. Rivalled(c[1]) \/ pointer[source[c[1]]] = c[1]
    BY <2>1, <2>2 DEF IInv, KnowledgeInv, SavedAreNamed
  <2>. QED
    BY <2>3 DEF SourceFiles
<1>. QED
  BY <1>1, Inductive, PTL
=============================================================================
