----------------------------- MODULE StoreMethods -----------------------------
(***************************************************************************)
(* The methods of the Postgres stores, each as the calls it makes on its   *)
(* connection, in their order.  What a statement says is left out: a write *)
(* differs from another in what may refuse it, a select in the table whose *)
(* rows its reader expects and in how many of them there may be.           *)
(***************************************************************************)
EXTENDS Naturals, Sequences

CONSTANT Many \* most rows a listing finds (bound)

ASSUME StoreMethodsAssumption == Many \in Nat \ {0}

Select(table, most) == [do |-> "select", table |-> table, most |-> most]

\* fetchone: the method may go on after a result in on, and end at one in off.
FetchOne(table, on, off) == [do |-> "fetchone", table |-> table, on |-> on, off |-> off]
FetchAll(table) == [do |-> "fetchall", table |-> table]
\* fetchone until there is no row.
Drain(table) == [do |-> "drain", table |-> table]

\* checked: another call's rows can make a unique index or a foreign key refuse
\* it.  undo: the method rolls back if it raises.
Write   == [do |-> "write", checked |-> FALSE, undo |-> FALSE]
Checked == [do |-> "write", checked |-> TRUE, undo |-> FALSE]
Grant   == [do |-> "write", checked |-> TRUE, undo |-> TRUE]
Commit  == [do |-> "commit"]

Find(table)     == <<Select(table, 1), FetchOne(table, {"row", "none"}, {})>>
Listing(table)  == <<Select(table, Many), FetchAll(table)>>
Save            == <<Write, Commit>>
CheckedSave     == <<Checked, Commit>>

(***************************************************************************)
(* auth.PostgresAuthStore                                                  *)
(***************************************************************************)

\* Organization names are unique.
CreateOrganization == CheckedSave

\* E-mails too: between the look-up and the insert the name may be taken.
CreateUser ==
    <<Select("user", 1), FetchOne("user", {"none"}, {"row"}), Checked, Commit>>

GetUser == Find("user")

\* The row of another organization's user ends it like a missing one.
\* Mutant: the new roles are committed before their audit event.
UpdateUserRoles_CommitsTwice ==
    <<Select("user", 1), FetchOne("user", {"row"}, {"row", "none"}),
      Write, Commit, Write, Commit>>
UpdateUserRoles ==
    <<Select("user", 1), FetchOne("user", {"row"}, {"row", "none"}),
      Write, Write, Commit>>

RefreshSessions == {Save, Find("session")}
OrgListings == {Listing("role_audit"), Listing("user")}

AuthStore == {CreateOrganization, CreateUser, GetUser, UpdateUserRoles}
                 \cup RefreshSessions \cup OrgListings

(***************************************************************************)
(* files.repository.PostgresFileRepository                                 *)
(***************************************************************************)

\* A row with shares or share requests cannot be deleted.
FileRows == {Save, Find("file"), CheckedSave}
FileListings == {Listing("file"), Find("file"), Find("count")}

\* A file has one active share per person.
Shares == {CheckedSave, Save, Find("share"), Listing("share")}
SaveShares == {<<Grant, Commit>>, <<Grant, Grant, Commit>>}

ShareRequests == {CheckedSave, Find("request"), Listing("request")}

FileStore == FileRows \cup FileListings \cup Shares \cup SaveShares \cup ShareRequests

(***************************************************************************)
(* history, governance, analytics and RAG                                  *)
(***************************************************************************)

\* Mutant: the accepted record is not committed.
SaveAccepted_NoCommit == <<Write>>
SaveAccepted == Save
MarkFinal ==
    <<Write, Commit, Select("request", 1), FetchOne("request", {"row"}, {"none"})>>
RequestMetadata == {SaveAccepted, MarkFinal, Find("request")}

\* The session, the message and the result of a question.
SaveResult == <<Write, Write, Write, Commit>>
QueryResults == {SaveResult, Find("result")}

QueryHistory == {Save, Find("history"), Listing("history")}

\* A decision and the rules it hit.
SaveDecision == {<<Write, Commit>>, <<Write, Write, Commit>>}
GetDecision ==
    <<Select("event", 1), FetchOne("event", {"row"}, {"none"}),
      Select("hit", Many), Drain("hit")>>
GuardrailAudit == SaveDecision \cup {GetDecision}

Analytics == {Save, Find("analytics")}

\* A queued job has no chunks; save_job commits, and so does its caller.
SaveIndexArtifacts ==
    {<<Write, Write, Commit, Commit>>, <<Write, Write, Write, Write, Commit, Commit>>}
\* Two of the five tables: their readers differ in nothing else.
RagReads ==
    UNION {{Find(table), Listing(table)} : table \in {"document", "chunk"}}
SaveEvidence == {<<Commit>>, Save, <<Write, Write, Commit>>}
RagStore == SaveIndexArtifacts \cup {Save} \cup RagReads \cup SaveEvidence

\* governance.query_audit.QueryAuditLog reads from the cursor execute returned.
QueryAuditReads == {Listing("query_audit"), Find("query_audit"), Find("count"), Find("stats")}
QueryAudit == {Save} \cup QueryAuditReads

Methods ==
    [auth |-> AuthStore, files |-> FileStore, metadata |-> RequestMetadata,
     results |-> QueryResults, history |-> QueryHistory,
     guardrail |-> GuardrailAudit, analytics |-> Analytics, rag |-> RagStore,
     query_audit |-> QueryAudit]

LocalCursor == {"query_audit"}
=============================================================================
