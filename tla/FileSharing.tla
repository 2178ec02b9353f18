----------------------------- MODULE FileSharing -----------------------------
(***************************************************************************)
(* Who may see a file: the point-to-point shares of its owner, and the     *)
(* request an administrator approves for everybody of the owner's role.    *)
(*                                                                         *)
(* The requests of Accounts and of this module run in the same threads:    *)
(* roles change and tokens go stale while shares are decided.              *)
(***************************************************************************)
EXTENDS Accounts

CONSTANTS
    OwnerOf,   \* the owner of each file (DOMAIN OwnerOf: the files)
    Scopes     \* the scopes files are uploaded with

Files == DOMAIN OwnerOf

ASSUME FileSharingAssumption ==
    /\ OwnerOf \in [Files -> People]
    /\ Files \cap (Users \cup Emails \cup {Nobody}) = {}

VARIABLES
    scope,   \* FileScope of each file
    live,    \* files that are not deleted
    asks,    \* FileShareRequest, named after the request that submitted it
    shares,  \* FileShareRecord: [by request, to user, file, ask it comes from, active]
    seen     \* <<user, file>> a request was allowed to read (history)

sharingStores == <<scope, live, asks, shares, seen>>
vars == <<accountVars, sharingStores>>

NoAsk == [file |-> Nobody, role |-> "business_user", state |-> "none", fanout |-> {}]

SharingInit ==
    /\ AccountsInit
    /\ scope \in [Files -> Scopes]
    /\ live = Files
    /\ asks = [p \in Requests |-> NoAsk]
    /\ shares = {}
    /\ seen = {}

\* The owner deletes the file (FileLifecycle; archived files are left out).
FileGoes(f) ==
    /\ f \in live
    /\ live' = live \ {f}
    /\ UNCHANGED <<accountVars, scope, asks, shares, seen>>

\* Mutant: a share opens the file to everybody.
HasShare_ForAnyone(u, f) == \E h \in shares : h.file = f /\ h.active
HasShare(u, f) == \E h \in shares : h.to = u /\ h.file = f /\ h.active
Colleague(u) == u \in People

\* FileAccessChecker.check
Allowed(row, f) ==
    \/ row.id = OwnerOf[f]
    \/ scope[f] = "org" /\ Colleague(row.id) /\ row.role \in {"analyst", "admin"}
    \/ scope[f] = "team" /\ HasShare(row.id, f)
    \/ row.role = "admin" /\ Colleague(row.id)

-----------------------------------------------------------------------------
(* submit_request                                                          *)

Submit(p, t, f) ==
    /\ Authorize(p, t, Roles, [Blank EXCEPT !.op = "submit", !.about = f], "file")
    /\ UNCHANGED <<accountStores, sharingStores>>

Pending(f) == \E a \in Requests : asks[a].file = f /\ asks[a].state = "pending"

\* Gone, invisible, another's, or already pending: nothing is saved.
CheckSubmit(p) ==
    LET f == req[p].about IN
    /\ pc[p] = "file"
    /\ IF f \notin live \/ OwnerOf[f] # req[p].self.id \/ Pending(f) THEN End(p, "refused")
       ELSE Goto(p, "submit") /\ UNCHANGED req
    /\ UNCHANGED <<accountStores, raced, sharingStores>>

SaveAsk(p) ==
    /\ pc[p] = "submit"
    /\ asks' = [asks EXCEPT ![p] = [file |-> req[p].about, role |-> req[p].self.role,
                                    state |-> "pending", fanout |-> {}]]
    /\ End(p, "done")
    /\ UNCHANGED <<accountStores, raced, scope, live, shares, seen>>

-----------------------------------------------------------------------------
(* approve and reject                                                      *)

Decide(p, t, a, op) ==
    /\ asks[a] # NoAsk
    /\ Authorize(p, t, {"admin"}, [Blank EXCEPT !.op = op, !.about = a], "decide")
    /\ UNCHANGED <<accountStores, sharingStores>>

\* list_users_by_org_and_role, when the request is approved.
Fanout(a) == {u \in People : users[u].role = asks[a].role} \ {OwnerOf[asks[a].file]}

\* Mutant: a decided request may be decided again.
Undecided_Any(a) == asks[a] # NoAsk
Undecided(a) == asks[a].state = "pending"

\* _pending_request_in_org, and for an approval the users it is for.
CheckDecision(p) ==
    LET a == req[p].about IN
    /\ pc[p] = "decide"
    /\ IF ~Undecided(a) THEN End(p, "refused")
       ELSE IF req[p].op = "reject" THEN Goto(p, "reject") /\ UNCHANGED req
       ELSE req' = [req EXCEPT ![p].to = Fanout(a)] /\ Goto(p, "save_shares")
    /\ UNCHANGED <<accountStores, raced, sharingStores>>

Reject(p) ==
    /\ pc[p] = "reject"
    /\ asks' = [asks EXCEPT ![req[p].about].state = "rejected"]
    /\ End(p, "done")
    /\ UNCHANGED <<accountStores, raced, scope, live, shares, seen>>

\* save_shares: one transaction, of its own.
SaveShares(p) ==
    LET a == req[p].about IN
    /\ pc[p] = "save_shares"
    /\ shares' = shares \cup {[by |-> p, to |-> u, file |-> asks[a].file, ask |-> a, active |-> TRUE]
                              : u \in req[p].to}
    /\ Goto(p, "approve")
    /\ UNCHANGED <<accountStores, req, raced, scope, live, asks, seen>>

Approve(p) ==
    LET a == req[p].about IN
    /\ pc[p] = "approve"
    /\ asks' = [asks EXCEPT ![a] = [asks[a] EXCEPT !.state = "approved",
                                      !.fanout = req[p].to]]
    /\ End(p, "done")
    /\ UNCHANGED <<accountStores, raced, scope, live, shares, seen>>

-----------------------------------------------------------------------------
(* share_file_v2, revoke_file_share_v2, and reading a file                 *)

OwnerOrAdmin(row, f) == row.id = OwnerOf[f] \/ (row.role = "admin" /\ Colleague(row.id))

Share(p, t, f, u) ==
    /\ Authorize(p, t, {"admin", "analyst"},
                 [Blank EXCEPT !.op = "share", !.about = f, !.to = {u}], "grant")
    /\ UNCHANGED <<accountStores, sharingStores>>

\* The file, the caller and the user it is for; then the share.
Grant(p) ==
    LET f == req[p].about IN
    /\ pc[p] = "grant"
    /\ IF f \in live /\ OwnerOrAdmin(req[p].self, f) /\ req[p].to \subseteq People \ {OwnerOf[f]}
       THEN /\ shares' = shares \cup {[by |-> p, to |-> u, file |-> f, ask |-> Nobody, active |-> TRUE]
                                      : u \in req[p].to}
            /\ End(p, "done")
       ELSE End(p, "refused") /\ UNCHANGED shares
    /\ UNCHANGED <<accountStores, raced, scope, live, asks, seen>>

Unshare(p, t, h) ==
    /\ Authorize(p, t, {"admin", "analyst"},
                 [Blank EXCEPT !.op = "unshare", !.about = h.file, !.value = h.by, !.to = {h.to}],
                 "revoke_share")
    /\ UNCHANGED <<accountStores, sharingStores>>

Named(p, h) == h.by = req[p].value /\ {h.to} = req[p].to

RevokeShare(p) ==
    LET f == req[p].about IN
    /\ pc[p] = "revoke_share"
    /\ IF f \in live /\ OwnerOrAdmin(req[p].self, f)
       THEN /\ shares' = {IF Named(p, h) THEN [h EXCEPT !.active = FALSE] ELSE h : h \in shares}
            /\ End(p, "done")
       ELSE End(p, "refused") /\ UNCHANGED shares
    /\ UNCHANGED <<accountStores, raced, scope, live, asks, seen>>

View(p, t, f) ==
    /\ Authorize(p, t, Roles, [Blank EXCEPT !.op = "view", !.about = f], "view")
    /\ UNCHANGED <<accountStores, sharingStores>>

\* The row of the file first, its shares after it.
ReadFile(p) ==
    LET f == req[p].about IN
    /\ pc[p] = "view"
    /\ IF f \in live /\ Allowed(req[p].self, f)
       THEN seen' = seen \cup {<<req[p].self.id, f>>} /\ End(p, "done")
       ELSE End(p, "refused") /\ UNCHANGED seen
    /\ UNCHANGED <<accountStores, raced, scope, live, asks, shares>>

-----------------------------------------------------------------------------
SharingArrive(p) ==
    \E t \in tokens :
        \/ \E f \in Files : Submit(p, t, f) \/ View(p, t, f) \/ \E u \in People : Share(p, t, f, u)
        \/ \E a \in Requests : \E op \in {"approve", "reject"} : Decide(p, t, a, op)
        \/ \E h \in shares : Unshare(p, t, h)

SharingStep(p) ==
    \/ CheckSubmit(p) \/ SaveAsk(p)
    \/ CheckDecision(p) \/ Reject(p) \/ SaveShares(p) \/ Approve(p)
    \/ Grant(p) \/ RevokeShare(p) \/ ReadFile(p)

Next ==
    \/ AccountsNext /\ UNCHANGED sharingStores
    \/ \E p \in Requests : SharingArrive(p) \/ SharingStep(p)
    \/ \E f \in Files : FileGoes(f)

Spec == SharingInit /\ [][Next]_vars
=============================================================================
