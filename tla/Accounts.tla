------------------------------ MODULE Accounts ------------------------------
(***************************************************************************)
(* AuthService over InMemoryAuthStore: users with roles and a token        *)
(* version, refresh sessions that rotate, access tokens checked against    *)
(* the user's row on every request, and the audit of role changes.         *)
(*                                                                         *)
(* Every handler is a plain def in a thread of the pool and the store has  *)
(* no lock: a look-up or an assignment is one step, and any other request  *)
(* may move in between.                                                    *)
(*                                                                         *)
(* Expiry is left out: an expired session is refused as a revoked one is,  *)
(* an expired access token as a stale one.  So are passwords: a request    *)
(* that signs in knows the right one.                                      *)
(***************************************************************************)
EXTENDS Naturals, Sequences, FiniteSets

CONSTANTS
    People,     \* the users of one organization, each signed in once
    RoleOf,     \* the role each starts with
    NewRoles,   \* what a role change may set (bound)
    Emails,     \* addresses nobody has signed up with yet (bound)
    Requests,   \* HTTP requests, and the ids of what they create (bound)
    Workers,    \* requests in flight at once (bound)
    Nobody

Users == People \cup Requests
Sessions == People \cup Requests
Roles == {"business_user", "analyst", "admin"}
Versions == 1..Cardinality(Requests) + 1
Tokens == [user : Users, version : Versions]

ASSUME AccountsAssumption ==
    /\ RoleOf \in [People -> Roles] /\ NewRoles \subseteq Roles
    /\ People \cap Requests = {} /\ Emails \cap Users = {} /\ Nobody \notin Users
    /\ IsFiniteSet(Requests) /\ Workers \in Nat \ {0}

VARIABLES
    orgs,      \* organizations created by sign-ups, named after their request
    users,     \* _users_by_id
    byEmail,   \* _user_ids_by_email; a person's address is the person
    sessions,  \* _refresh_sessions
    tokens,    \* the access tokens clients hold
    audits,    \* _role_audit_events, in order
    pc, req,   \* per request: where its thread is, and its locals
    raced      \* the subjects two requests in flight were about (history)

accountStores == <<orgs, users, byEmail, sessions, tokens, audits>>
accountVars == <<orgs, users, byEmail, sessions, tokens, audits, pc, req, raced>>

NoUser == [id |-> Nobody, role |-> "business_user", version |-> 1]
NoSession == [user |-> Nobody, chain |-> Nobody, state |-> "none"]
NoToken == [user |-> Nobody, version |-> 1]

\* about: what the request changes.  chain: the sign-in a session descends from.
Blank == [op |-> "none", about |-> Nobody, token |-> NoToken, self |-> NoUser,
          row |-> NoUser, chain |-> Nobody, value |-> Nobody, to |-> {}]

InFlight == {p \in Requests : pc[p] \notin {"idle", "done", "refused"}}
Goto(p, label) == pc' = [pc EXCEPT ![p] = label]

\* A request returns; its locals are gone.
End(p, label) ==
    /\ Goto(p, label)
    /\ req' = [req EXCEPT ![p] = Blank]

\* A request comes in and finds a free thread.
Arrives(p) == pc[p] = "idle" /\ Cardinality(InFlight) < Workers
Meets(about) ==
    raced' = IF \E q \in InFlight : req[q].about = about THEN raced \cup {about} ELSE raced
Begin(p, about) == Arrives(p) /\ Meets(about)
Refuse(p) == End(p, "refused") /\ UNCHANGED raced

AccountsInit ==
    /\ orgs = {}
    /\ users = [u \in Users |-> IF u \in People
                                THEN [id |-> u, role |-> RoleOf[u], version |-> 1] ELSE NoUser]
    /\ byEmail = [e \in People \cup Emails |-> IF e \in People THEN e ELSE Nobody]
    /\ sessions = [s \in Sessions |-> IF s \in People
                     THEN [user |-> s, chain |-> s, state |-> "active"] ELSE NoSession]
    /\ tokens = [user : People, version : {1}]
    /\ audits = <<>>
    /\ pc = [p \in Requests |-> "idle"]
    /\ req = [p \in Requests |-> Blank]
    /\ raced = {}

-----------------------------------------------------------------------------
(* sign_up: an organization of its own, then the user, then a session.     *)

SignUp(p, e) ==
    /\ Begin(p, e)
    /\ orgs' = orgs \cup {p}
    /\ req' = [req EXCEPT ![p] = [Blank EXCEPT !.op = "signup", !.about = e]]
    /\ Goto(p, "email")
    /\ UNCHANGED <<users, byEmail, sessions, tokens, audits>>

\* A known address is a 400, and the organization stays.
CheckEmail(p) ==
    /\ pc[p] = "email"
    /\ IF byEmail[req[p].about] # Nobody THEN End(p, "refused")
       ELSE Goto(p, "insert") /\ UNCHANGED req
    /\ UNCHANGED <<accountStores, raced>>

InsertUser(p) ==
    LET new == [id |-> p, role |-> "business_user", version |-> 1] IN
    /\ pc[p] = "insert"
    /\ users' = [users EXCEPT ![p] = new]
    /\ byEmail' = [byEmail EXCEPT ![req[p].about] = p]
    /\ req' = [req EXCEPT ![p] = [req[p] EXCEPT !.row = new, !.chain = p]]
    /\ Goto(p, "issue")
    /\ UNCHANGED <<orgs, sessions, tokens, audits, raced>>

-----------------------------------------------------------------------------
(* sign_in, refresh and revoke.                                            *)

SignIn(p, e) ==
    /\ Begin(p, e) /\ byEmail[e] # Nobody
    /\ req' = [req EXCEPT ![p] = [Blank EXCEPT !.op = "signin", !.about = e,
                                     !.row = users[byEmail[e]], !.chain = p]]
    /\ Goto(p, "issue")
    /\ UNCHANGED accountStores

\* Mutant: the token carries the version the next role change will give.
TokenVersion_Next(row) == row.version + 1
TokenVersion(row) == row.version

\* _issue_pair, for the row read earlier.
Issue(p) ==
    LET row == req[p].row IN
    /\ pc[p] = "issue"
    /\ sessions' = [sessions EXCEPT ![p] = [user |-> row.id, chain |-> req[p].chain,
                                            state |-> "active"]]
    /\ tokens' = tokens \cup {[user |-> row.id, version |-> TokenVersion(row)]}
    /\ End(p, "done")
    /\ UNCHANGED <<orgs, users, byEmail, audits, raced>>

Refresh(p, s) ==
    /\ sessions[s] # NoSession
    /\ Arrives(p)
    /\ IF sessions[s].state # "active" THEN Refuse(p)
       ELSE /\ Meets(sessions[s].chain)
            /\ req' = [req EXCEPT ![p] = [Blank EXCEPT !.op = "refresh",
                          !.about = sessions[s].chain, !.value = s, !.chain = sessions[s].chain]]
            /\ Goto(p, "owner")
    /\ UNCHANGED accountStores

Owner(p) ==
    /\ pc[p] = "owner"
    /\ req' = [req EXCEPT ![p].row = users[sessions[req[p].value].user]]
    /\ Goto(p, "rotate")
    /\ UNCHANGED <<accountStores, raced>>

\* revoke_refresh_session
Revoked(s) == [sessions EXCEPT ![s].state = "revoked"]

\* Mutant: the session a refresh came from lives on.
Rotate_KeepsOld(p) ==
    /\ pc[p] = "rotate"
    /\ Goto(p, "issue")
    /\ UNCHANGED <<accountStores, req, raced>>

Rotate(p) ==
    /\ pc[p] = "rotate"
    /\ sessions' = Revoked(req[p].value)
    /\ Goto(p, "issue")
    /\ UNCHANGED <<orgs, users, byEmail, tokens, audits, req, raced>>

Revoke(p, s) ==
    /\ sessions[s] # NoSession
    /\ Begin(p, sessions[s].chain)
    /\ req' = [req EXCEPT ![p] = [Blank EXCEPT !.op = "revoke", !.about = sessions[s].chain,
                                               !.value = s]]
    /\ Goto(p, "revoke")
    /\ UNCHANGED accountStores

RevokeSession(p) ==
    /\ pc[p] = "revoke"
    /\ sessions' = Revoked(req[p].value)
    /\ End(p, "done")
    /\ UNCHANGED <<orgs, users, byEmail, tokens, audits, raced>>

-----------------------------------------------------------------------------
(* authenticate_v2 with a permission, and the role change behind it.  Left *)
(* out is its built-in bearer test-token: without row, session or version, *)
(* the administrator of an organization of its own (org_test).             *)

\* authenticate_access_token: the token's version must still be the row's.
Valid(t) == users[t.user] # NoUser /\ users[t.user].version = t.version

\* An authorized request keeps the row it was checked with.
Authorize(p, t, allowed, local, next) ==
    /\ Arrives(p)
    /\ IF Valid(t) /\ users[t.user].role \in allowed
       THEN /\ Meets(local.about)
            /\ req' = [req EXCEPT ![p] = [local EXCEPT !.token = t, !.self = users[t.user]]]
            /\ Goto(p, next)
       ELSE Refuse(p)

SetRoles(p, t, target, role) ==
    /\ Authorize(p, t, {"admin"},
                 [Blank EXCEPT !.op = "roles", !.about = target, !.value = role], "target")
    /\ UNCHANGED accountStores

\* A user of another organization is not found.
Target(p) ==
    LET row == users[req[p].about] IN
    /\ pc[p] = "target"
    /\ IF row.id \in People
       THEN req' = [req EXCEPT ![p].row = row] /\ Goto(p, "write_roles")
       ELSE End(p, "refused")
    /\ UNCHANGED <<accountStores, raced>>

\* Mutant: setting the same role again does not count.
NewVersion_IfChanged(p) ==
    IF req[p].value = req[p].row.role THEN req[p].row.version ELSE req[p].row.version + 1
NewVersion(p) == req[p].row.version + 1

WriteRoles(p) ==
    /\ pc[p] = "write_roles"
    /\ users' = [users EXCEPT ![req[p].about] = [req[p].row EXCEPT
                    !.role = req[p].value, !.version = NewVersion(p)]]
    /\ Goto(p, "audit")
    /\ UNCHANGED <<orgs, byEmail, sessions, tokens, audits, req, raced>>

Audit(p) ==
    /\ pc[p] = "audit"
    /\ audits' = Append(audits, [by |-> req[p].self.id, user |-> req[p].about,
                                 before |-> req[p].row.role, after |-> req[p].value])
    /\ End(p, "done")
    /\ UNCHANGED <<orgs, users, byEmail, sessions, tokens, raced>>

-----------------------------------------------------------------------------
AccountsArrive(p) ==
    \/ \E e \in Emails : SignUp(p, e)
    \/ \E e \in DOMAIN byEmail : SignIn(p, e)
    \/ \E s \in Sessions : Refresh(p, s) \/ Revoke(p, s)
    \/ \E t \in tokens, u \in Users, r \in NewRoles : SetRoles(p, t, u, r)

AccountsStep(p) ==
    \/ CheckEmail(p) \/ InsertUser(p) \/ Issue(p)
    \/ Owner(p) \/ Rotate(p) \/ RevokeSession(p)
    \/ Target(p) \/ WriteRoles(p) \/ Audit(p)

AccountsNext == \E p \in Requests : AccountsArrive(p) \/ AccountsStep(p)
AccountsSpec == AccountsInit /\ [][AccountsNext]_accountVars
=============================================================================
