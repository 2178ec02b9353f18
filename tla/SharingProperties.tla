-------------------------- MODULE SharingProperties --------------------------
(* What accounts, shares and promoted documents promise while requests overlap. *)
EXTENDS KnowledgeStore

Labels == {"idle", "email", "insert", "issue", "owner", "rotate", "revoke", "target",
           "write_roles", "audit", "file", "submit", "decide", "reject", "save_shares",
           "approve", "grant", "revoke_share", "view", "promote", "save_document",
           "save_chunks", "source", "pop_document", "scan", "stale", "pop_chunks", "ask",
           "filter", "done", "refused"}

\* Every store keeps its type, and no token is ahead of its user's row, unless
\* two role changes of the user overlapped: the slower one puts the version back.
TypeOK ==
    /\ orgs \subseteq Requests
    /\ users \in [Users -> [id : Users \cup {Nobody}, role : Roles, version : Versions]]
    /\ byEmail \in [People \cup Emails -> Users \cup {Nobody}]
    /\ sessions \in [Sessions -> [user : Users, chain : Sessions,
                                  state : {"active", "revoked"}] \cup {NoSession}]
    /\ tokens \subseteq Tokens
    /\ \A t \in tokens : t.user \in raced \/ t.version <= users[t.user].version
    /\ audits \in Seq([by : Users, user : Users, before : Roles, after : Roles])
    /\ pc \in [Requests -> Labels] /\ DOMAIN req = Requests
    /\ live \subseteq Files
    /\ asks \in [Requests -> [file : Files \cup {Nobody}, role : Roles, fanout : SUBSET People,
                    state : {"none", "pending", "approved", "rejected"}]]
    /\ shares \subseteq [by : Requests, to : People, file : Files,
                   ask : Requests \cup {Nobody}, active : BOOLEAN]
    /\ seen \subseteq Users \X Files
    /\ docs \subseteq Docs /\ chunks \subseteq Chunks /\ cited \subseteq Users \X Docs
    /\ source \in [Docs -> Files \cup {Nobody}] /\ pointer \in [Files -> Docs \cup {Nobody}]
    /\ DOMAIN work = Requests

\* FR-FV01-017: a sign-in has one active refresh session at most, however its
\* refreshes, its revocation and role changes follow one another, unless two of
\* them were at it at once.
OneActivePerSignIn ==
    \A c \in Sessions \ raced :
        Cardinality({s \in Sessions : sessions[s].chain = c /\ sessions[s].state = "active"}) <= 1

Changing(u) == \E p \in Requests : req[p].op = "roles" /\ req[p].about = u
EventsOf(u) == {i \in DOMAIN audits : audits[i].user = u}

\* The trail of user u up to its n-th event leaves it with this role.
LeavesWith(u, n, role) ==
    LET earlier == {i \in EventsOf(u) : i < n} IN
    \/ earlier = {} /\ role = RoleOf[u]
    \/ \E i \in earlier : audits[i].after = role /\ \A j \in earlier : j <= i

\* FR-FV01-008 and 016: the audit trail of a user leads from its first role to
\* the role it has, and each event made every earlier token stale; changes of
\* other users, sign-ins and refreshes may fall in between.
RolesAudited ==
    \A u \in People \ raced : ~Changing(u) =>
        /\ LeavesWith(u, Len(audits) + 1, users[u].role)
        /\ \A i \in EventsOf(u) : LeavesWith(u, i, audits[i].before)
        /\ users[u].version = Cardinality(EventsOf(u)) + 1

\* A file has one pending request at most, unless two were submitted at once.
OnePendingPerFile ==
    \A f \in Files \ raced :
        Cardinality({a \in Requests : asks[a].file = f /\ asks[a].state = "pending"}) <= 1

\* Behind an approved request stand the shares of everyone it was for, and
\* behind a rejected one none, unless it was decided twice at once.
SharesMatchDecision ==
    \A a \in Requests :
        LET granted == {h.to : h \in {x \in shares : x.ask = a}} IN
        /\ asks[a].state = "approved" => asks[a].fanout \subseteq granted
        /\ a \notin raced /\ asks[a].state = "rejected" => granted = {}

\* FR-FV10-041, NFR-FV10-013, FR-FV10-044: what becomes of the owner's requests.
RequestsDecidedOnce == OnePendingPerFile /\ SharesMatchDecision

\* An administrator from the start, or made one by a change that is audited or
\* about to be.
MadeAdmin(u) ==
    \/ RoleOf[u] = "admin"
    \/ \E i \in EventsOf(u) : audits[i].after = "admin"
    \/ \E p \in Requests : pc[p] = "audit" /\ req[p].about = u /\ req[p].value = "admin"

FilesWereGranted ==
    \A u \in Users, f \in Files : <<u, f>> \in seen =>
        \/ u = OwnerOf[f]
        \/ u \in People /\ (MadeAdmin(u) \/ scope[f] = "org")
        \/ \E h \in shares : h.to = u /\ h.file = f

\* Whoever read a file owns it, administers its organization, or was given a
\* share of it, through every change of roles, shares and tokens before.  An
\* answer cites a promoted file to its owner and to those it was shared with.
ReadersWereGranted ==
    /\ FilesWereGranted
    /\ \A u \in Users, d \in Docs : <<u, d>> \in cited =>
         Owns(u, d) \/ \E h \in shares : h.to = u /\ h.file = source[d]

\* A chunk whose document is gone makes every question fail.  Whether its removal
\* is under way or was broken off by another write, demote_document still finds
\* the row that names the document and can remove the rest.  Two exceptions: its
\* file was promoted to another document as well, or the file is deleted, and
\* then nothing but a restart removes the chunk.
WasSaved(e) == e \in Promoted \cup {p \in Requests : pc[p] = "done"}
Rivalled(d) == \E e \in Docs \ {d} : source[e] = source[d] /\ WasSaved(e)
OrphansCanBeDemoted ==
    \A c \in chunks : LET d == c[1] IN
        d \in docs \/ Rivalled(d) \/ source[d] \notin live \/ SourceFiles(d) # {}
=============================================================================
