--------------------------- MODULE ConnectionProofs ---------------------------
(***************************************************************************)
(* Proofs about SharedConnection, for every number of calls of every       *)
(* store, in every interleaving, with statements refused and the process   *)
(* restarted.                                                              *)
(*                                                                         *)
(* They rest on a fact about the program text, WellFormed: each method of  *)
(* each store writes before it commits, fetches right after the select it  *)
(* fetches for, and does nothing else while a write of its own is          *)
(* uncommitted.  What the connection does to a call follows from where the *)
(* call is in its method (CallShape) and from where its writes are: before *)
(* its commit in the open transaction, unless that is aborted (Unsettled), *)
(* and afterwards durable, all or none (Settled).                          *)
(***************************************************************************)
EXTENDS ConnectionProperties, SequenceTheorems, TLAPS

Tables == {"user", "session", "role_audit", "file", "count", "share", "request",
           "result", "history", "event", "hit", "analytics", "document", "chunk",
           "query_audit", "stats", NoTable}
Fetches == {"fetchone", "fetchall", "drain"}

\* What the methods of every store have in common.
WellFormed(m) ==
    /\ m # <<>> /\ Len(m) \in Nat \ {0} /\ DOMAIN m = 1..Len(m)
    /\ \A i \in DOMAIN m :
         /\ m[i].do \in {"select", "write", "commit"} \cup Fetches
         /\ m[i].do = "select" => m[i].most \in 0..Many /\ m[i].table \in Tables
         /\ m[i].do = "write" => \E j \in DOMAIN m : m[j].do = "commit"
         /\ m[i].do \in Fetches => i > 1 /\ m[i - 1].do = "select"
    /\ \A i, j \in DOMAIN m : m[i].do = "write" /\ m[j].do = "commit" => i < j
    /\ \A i, k \in DOMAIN m :
         m[i].do = "write" /\ i < k /\ m[k].do \notin {"write", "commit"} =>
            \E j \in DOMAIN m : i < j /\ j < k /\ m[j].do = "commit"

LEMMA FindWellFormed ==
    ASSUME NEW t \in Tables PROVE WellFormed(Find(t))
BY StoreMethodsAssumption DEF WellFormed, Find, Select, FetchOne, Fetches

LEMMA ListingWellFormed ==
    ASSUME NEW t \in Tables PROVE WellFormed(Listing(t))
BY StoreMethodsAssumption DEF WellFormed, Listing, Select, FetchAll, Fetches

LEMMA SavesWellFormed ==
    WellFormed(Save) /\ WellFormed(CheckedSave) /\ WellFormed(<<Commit>>)
BY DEF WellFormed, Save, CheckedSave, Write, Checked, Commit, Fetches

LEMMA CreateUserWellFormed == WellFormed(CreateUser)
<1> DEFINE m == CreateUser
<1>1. /\ m # <<>> /\ Len(m) = 4 /\ DOMAIN m = 1..4
      /\ m[1].do = "select" /\ m[1].most = 1 /\ m[1].table \in Tables
      /\ m[2].do = "fetchone" /\ m[3].do = "write" /\ m[4].do = "commit"
  BY DEF CreateUser, Select, FetchOne, Checked, Commit, Tables
<1>2. WellFormed(m)
  <2>. HIDE DEF m
  <2>. QED
    BY <1>1, StoreMethodsAssumption DEF WellFormed, Fetches
<1>. QED
  BY <1>2

LEMMA UpdateUserRolesWellFormed == WellFormed(UpdateUserRoles)
<1> DEFINE m == UpdateUserRoles
<1>1. /\ m # <<>> /\ Len(m) = 5 /\ DOMAIN m = 1..5
      /\ m[1].do = "select" /\ m[1].most = 1 /\ m[1].table \in Tables
      /\ m[2].do = "fetchone" /\ m[3].do = "write" /\ m[4].do = "write"
      /\ m[5].do = "commit"
  BY DEF UpdateUserRoles, Select, FetchOne, Write, Commit, Tables
<1>2. WellFormed(m)
  <2>. HIDE DEF m
  <2>. QED
    BY <1>1, StoreMethodsAssumption DEF WellFormed, Fetches
<1>. QED
  BY <1>2

LEMMA SeveralWritesWellFormed ==
    /\ WellFormed(<<Grant, Commit>>) /\ WellFormed(<<Grant, Grant, Commit>>)
    /\ WellFormed(SaveResult) /\ WellFormed(<<Write, Write, Commit>>)
    /\ WellFormed(<<Write, Write, Commit, Commit>>)
    /\ WellFormed(<<Write, Write, Write, Write, Commit, Commit>>)
<1>1. WellFormed(<<Grant, Commit>>) /\ WellFormed(<<Grant, Grant, Commit>>)
  BY DEF WellFormed, Grant, Commit, Fetches
<1>2. WellFormed(SaveResult) /\ WellFormed(<<Write, Write, Commit>>)
  BY DEF WellFormed, SaveResult, Write, Commit, Fetches
<1>3. WellFormed(<<Write, Write, Commit, Commit>>)
  BY DEF WellFormed, Write, Commit, Fetches
<1>4. WellFormed(<<Write, Write, Write, Write, Commit, Commit>>)
  BY DEF WellFormed, Write, Commit, Fetches
<1>. QED
  BY <1>1, <1>2, <1>3, <1>4

LEMMA MarkFinalWellFormed == WellFormed(MarkFinal)
<1> DEFINE m == MarkFinal
<1>1. /\ m # <<>> /\ Len(m) = 4 /\ DOMAIN m = 1..4
      /\ m[1].do = "write" /\ m[2].do = "commit" /\ m[3].do = "select"
      /\ m[3].most = 1 /\ m[3].table \in Tables /\ m[4].do = "fetchone"
  BY DEF MarkFinal, Select, FetchOne, Write, Commit, Tables
<1>2. WellFormed(m)
  <2>. HIDE DEF m
  <2>. QED
    BY <1>1, StoreMethodsAssumption DEF WellFormed, Fetches
<1>. QED
  BY <1>2

LEMMA GetDecisionWellFormed == WellFormed(GetDecision)
<1> DEFINE m == GetDecision
<1>1. /\ m # <<>> /\ Len(m) = 4 /\ DOMAIN m = 1..4
      /\ m[1].do = "select" /\ m[1].most = 1 /\ m[1].table \in Tables
      /\ m[2].do = "fetchone" /\ m[3].do = "select" /\ m[3].most = Many
      /\ m[3].table \in Tables /\ m[4].do = "drain"
  BY DEF GetDecision, Select, FetchOne, Drain, Tables
<1>2. WellFormed(m)
  <2>. HIDE DEF m
  <2>. QED
    BY <1>1, StoreMethodsAssumption DEF WellFormed, Fetches
<1>. QED
  BY <1>2

LEMMA MethodsWellFormed ==
    \A s \in DOMAIN Methods : \A m \in Methods[s] : WellFormed(m)
<1> USE FindWellFormed, ListingWellFormed, SavesWellFormed DEF Tables
<1>1. \A m \in AuthStore : WellFormed(m)
  BY CreateUserWellFormed, UpdateUserRolesWellFormed
     DEF AuthStore, CreateOrganization, GetUser, RefreshSessions, OrgListings
<1>2. \A m \in FileStore : WellFormed(m)
  BY SeveralWritesWellFormed
     DEF FileStore, FileRows, FileListings, Shares, SaveShares, ShareRequests
<1>3. /\ \A m \in RequestMetadata : WellFormed(m)
      /\ \A m \in QueryResults : WellFormed(m)
      /\ \A m \in QueryHistory : WellFormed(m)
  BY SeveralWritesWellFormed, MarkFinalWellFormed
     DEF RequestMetadata, SaveAccepted, QueryResults, QueryHistory
<1>4. \A m \in GuardrailAudit : WellFormed(m)
  BY SeveralWritesWellFormed, GetDecisionWellFormed
     DEF GuardrailAudit, SaveDecision, Save
<1>5. /\ \A m \in Analytics : WellFormed(m)
      /\ \A m \in QueryAudit : WellFormed(m)
  BY DEF Analytics, QueryAudit, QueryAuditReads
<1>6. \A m \in RagStore : WellFormed(m)
  BY SeveralWritesWellFormed DEF RagStore, SaveIndexArtifacts, RagReads, SaveEvidence
<1>. QED
  BY <1>1, <1>2, <1>3, <1>4, <1>5, <1>6 DEF Methods

-----------------------------------------------------------------------------
(* The inductive invariant.                                                *)

CursorRecord == [of : (Calls \cup {NoCall}) \X Nat, table : Tables, rows : Nat]
AllMethods == UNION {Methods[s] : s \in DOMAIN Methods}
CallRecord == [state : States, method : AllMethods \cup {<<>>}, at : Nat,
               held : CursorRecord, misread : BOOLEAN]

Types ==
    /\ store \in DOMAIN Methods
    /\ call \in [Calls -> CallRecord]
    /\ latest \in [Calls \cup {NoCall} -> CursorRecord]
    /\ \A k \in Calls \cup {NoCall} : latest[k].rows <= Many
    /\ met \in [Calls -> SUBSET Events]
    /\ aborted \in BOOLEAN
    /\ aborted => pending = {}

\* Where a call is in its method, and whose cursor it is about to keep.
CallShape(c) ==
    /\ call[c].state = "idle" => call[c].method = <<>>
    /\ call[c].state # "idle" => call[c].method \in Methods[store]
    /\ call[c].state = "running" => call[c].at \in DOMAIN call[c].method
    /\ call[c].state # "running" => call[c].at = 1 /\ call[c].held = NoCursor
    /\ call[c].held # NoCursor =>
         /\ call[c].held.of = <<c, call[c].at>> /\ call[c].held.rows <= Many
         /\ Statement(c).do \in {"select", "write"}

\* The cursor a fetch is about to read is its own, if nobody interfered.
Undisturbed(c) == "keep" \notin met[c] \/ store \in LocalCursor
Reading(c) ==
    /\ call[c].misread => ~Undisturbed(c)
    /\ At(c, Fetches) /\ Undisturbed(c) =>
         latest[Slot(c)].of = <<c, call[c].at - 1>>

WriteAt(c, i) == i \in DOMAIN call[c].method /\ call[c].method[i].do = "write"
\* The connection has run the write.
Ran(c, i) ==
    /\ WriteAt(c, i)
    /\ \/ i < call[c].at
       \/ i = call[c].at /\ call[c].held # NoCursor
Committed(c) ==
    \E j \in DOMAIN call[c].method : call[c].method[j].do = "commit" /\ j < call[c].at

NoneDurable(c) == \A i \in DOMAIN call[c].method : WriteAt(c, i) => <<c, i>> \notin durable
AllDurable(c) == \A i \in DOMAIN call[c].method : WriteAt(c, i) => <<c, i>> \in durable

\* Before its commit, a call that met no failure has its writes in the
\* transaction, or others have committed them.
Acknowledged(c) ==
    met[c] \cap {"failure", "rollback"} = {} =>
        /\ call[c].state = "running" /\ ~Committed(c) =>
             \A i \in DOMAIN call[c].method : Ran(c, i) => <<c, i>> \in pending \cup durable
        /\ call[c].state = "running" /\ Committed(c) => AllDurable(c)
        /\ call[c].state = "returned" => AllDurable(c)

\* If no other call ended the transaction, none of them is durable before the
\* commit, and the commit finds all of them or an aborted transaction.
Unsettled(c) ==
    /\ NoneDurable(c)
    /\ call[c].state = "running" /\ ~aborted =>
         \A i \in DOMAIN call[c].method : Ran(c, i) => <<c, i>> \in pending
Settled(c) == NoneDurable(c) \/ AllDurable(c)

Whole(c) ==
    met[c] \cap {"commit", "rollback"} = {} =>
        IF \/ call[c].state \in {"idle", "undoing"}
           \/ call[c].state = "running" /\ ~Committed(c)
        THEN Unsettled(c) ELSE Settled(c)

\* What is pending is of a call on its way to its commit; what is durable is of
\* some call.
PendingShape ==
    \A w \in pending :
        \E c \in Calls : \E i \in DOMAIN call[c].method :
            w = <<c, i>> /\ call[c].state = "running" /\ Ran(c, i) /\ ~Committed(c)
DurableShape ==
    \A w \in durable :
        \E c \in Calls : \E i \in DOMAIN call[c].method : w = <<c, i>> /\ WriteAt(c, i)

IInv ==
    /\ Types
    /\ \A c \in Calls : CallShape(c)
    /\ \A c \in Calls : Reading(c)
    /\ \A c \in Calls : Acknowledged(c)
    /\ \A c \in Calls : Whole(c)
    /\ PendingShape
    /\ DurableShape

-----------------------------------------------------------------------------
(* What the actions do to the record of the call that takes them.          *)

CallsApart(c) == \A d \in Calls : d # c => call'[d] = call[d]

EndsAs(c, how) ==
    /\ call'[c].state = how /\ call'[c].method = call[c].method
    /\ call'[c].at = 1 /\ call'[c].held = NoCursor

\* A statement went well: the call is at the next one, or has returned.
GoesOn(c) ==
    IF call[c].at = Len(call[c].method) THEN EndsAs(c, "returned")
    ELSE /\ call'[c].state = call[c].state /\ call'[c].method = call[c].method
         /\ call'[c].at = call[c].at + 1 /\ call'[c].held = NoCursor

\* A fetch reads the slot's cursor, whoever's it is.
Fetching(c) ==
    /\ At(c, Fetches) /\ CallsApart(c)
    /\ \/ GoesOn(c) \/ EndsAs(c, "stopped") \/ EndsAs(c, "raised")
       \/ /\ call'[c].state = call[c].state /\ call'[c].method = call[c].method
          /\ call'[c].at = call[c].at /\ call'[c].held = call[c].held
    /\ call'[c].misread = Misread(c)
    /\ \A k \in Calls \cup {NoCall} : latest'[k].of = latest[k].of

LEMMA CursorsTyped ==
    /\ NoCursor \in CursorRecord /\ SchemaCursor \in CursorRecord
    /\ SchemaCursor.rows = 0 /\ Idle \in CallRecord
    /\ \A c \in Calls, i \in Nat, t \in Tables, n \in 0..Many :
         /\ Cursor(c, i, t, n) \in CursorRecord /\ Cursor(c, i, t, n) # NoCursor
         /\ Cursor(c, i, t, n).of = <<c, i>> /\ Cursor(c, i, t, n).rows = n
<1>1. \A k \in Calls \cup {NoCall}, i \in Nat, t \in Tables, n \in Nat :
        /\ Cursor(k, i, t, n) \in CursorRecord
        /\ Cursor(k, i, t, n).of = <<k, i>> /\ Cursor(k, i, t, n).rows = n
  BY DEF Cursor, CursorRecord
<1>2. NoTable \in Tables /\ Many + 1 \in Nat /\ \A n \in 0..Many : n # Many + 1
  BY StoreMethodsAssumption DEF Tables
<1>3. NoCursor \in CursorRecord /\ SchemaCursor \in CursorRecord /\ SchemaCursor.rows = 0
      /\ NoCursor.rows = Many + 1
  BY <1>1, <1>2 DEF NoCursor, SchemaCursor
<1>4. Idle \in CallRecord
  BY <1>3 DEF Idle, CallRecord, States
<1>5. \A n \in 0..Many : n \in Nat
  BY StoreMethodsAssumption
<1>. QED
  BY <1>1, <1>2, <1>3, <1>4, <1>5

LEMMA CallFields ==
    ASSUME Types, NEW c \in Calls
    PROVE  /\ call[c] \in CallRecord /\ call[c].state \in States
           /\ call[c].method \in AllMethods \cup {<<>>}
           /\ call[c].at \in Nat /\ call[c].held \in CursorRecord
           /\ call[c].misread \in BOOLEAN
           /\ Slot(c) \in Calls \cup {NoCall} /\ latest[Slot(c)] \in CursorRecord
           /\ latest[Slot(c)].rows \in 0..Many
BY StoreMethodsAssumption DEF Types, CallRecord, CursorRecord, Slot

\* A call that has begun runs a well-formed method.
LEMMA MethodShape ==
    ASSUME Types, NEW c \in Calls, CallShape(c), call[c].state = "running"
    PROVE  WellFormed(call[c].method) /\ call[c].at \in 1..Len(call[c].method)
BY MethodsWellFormed DEF Types, CallShape, WellFormed

LEMMA EndTyped ==
    ASSUME Types, NEW c \in Calls, NEW how \in States
    PROVE  /\ End(c, how) \in CallRecord
           /\ End(c, how).state = how /\ End(c, how).method = call[c].method
           /\ End(c, how).at = 1 /\ End(c, how).held = NoCursor
           /\ End(c, how).misread = call[c].misread
BY CallFields, CursorsTyped DEF End, CallRecord

LEMMA OnwardTyped ==
    ASSUME Types, NEW c \in Calls
    PROVE  /\ Onward(c) \in CallRecord
           /\ Onward(c).method = call[c].method
           /\ Onward(c).held = NoCursor /\ Onward(c).misread = call[c].misread
           /\ IF call[c].at = Len(call[c].method)
              THEN Onward(c).state = "returned" /\ Onward(c).at = 1
              ELSE Onward(c).state = call[c].state /\ Onward(c).at = call[c].at + 1
<1>1. CASE call[c].at = Len(call[c].method)
  BY <1>1, EndTyped DEF Onward, States
<1>2. CASE call[c].at # Len(call[c].method)
  <2> DEFINE r == [call[c] EXCEPT !.at = call[c].at + 1]
  <2>1. /\ r \in CallRecord /\ r.at = call[c].at + 1 /\ r.state = call[c].state
        /\ r.method = call[c].method /\ r.misread = call[c].misread
    BY CallFields DEF CallRecord
  <2>2. Onward(c) = [r EXCEPT !.held = NoCursor]
    BY <1>2 DEF Onward
  <2>. HIDE DEF r
  <2>3. /\ Onward(c) \in CallRecord
        /\ Onward(c).at = r.at /\ Onward(c).held = NoCursor
        /\ Onward(c).state = r.state /\ Onward(c).method = r.method
        /\ Onward(c).misread = r.misread
    BY <2>1, <2>2, CursorsTyped DEF CallRecord
  <2>. QED
    BY <1>2, <2>1, <2>3
<1>. QED
  BY <1>1, <1>2

LEMMA RaiseEnds ==
    ASSUME Types, NEW c \in Calls, NEW how \in States, Raise(c, how)
    PROVE  /\ call' \in [Calls -> CallRecord] /\ CallsApart(c)
           /\ EndsAs(c, how) /\ call'[c].misread = call[c].misread
BY EndTyped DEF Raise, Types, CallsApart, EndsAs

LEMMA OnwardGoesOn ==
    ASSUME Types, NEW c \in Calls, call' = [call EXCEPT ![c] = Onward(c)]
    PROVE  /\ call' \in [Calls -> CallRecord] /\ CallsApart(c)
           /\ GoesOn(c) /\ call'[c].misread = call[c].misread
<1>1. call'[c] = Onward(c) /\ CallsApart(c) /\ call' \in [Calls -> CallRecord]
  BY OnwardTyped DEF Types, CallsApart
<1>. QED
  BY <1>1, OnwardTyped DEF GoesOn, EndsAs

LEMMA MisreadSet ==
    ASSUME NEW r \in CallRecord, NEW c \in Calls, Types
    PROVE  /\ [r EXCEPT !.misread = Misread(c)] \in CallRecord
           /\ [r EXCEPT !.misread = Misread(c)].misread = Misread(c)
           /\ [r EXCEPT !.misread = Misread(c)].state = r.state
           /\ [r EXCEPT !.misread = Misread(c)].method = r.method
           /\ [r EXCEPT !.misread = Misread(c)].at = r.at
           /\ [r EXCEPT !.misread = Misread(c)].held = r.held
<1>1. Misread(c) \in BOOLEAN
  BY DEF Misread
<1>. HIDE DEF Misread
<1>. QED
  BY <1>1 DEF CallRecord

\* Taking rows from the slot's cursor.
LEMMA TookTyped ==
    ASSUME Types, NEW c \in Calls, NEW n \in 0..latest[Slot(c)].rows, Took(c, n)
    PROVE  /\ latest' \in [Calls \cup {NoCall} -> CursorRecord]
           /\ \A k \in Calls \cup {NoCall} :
                latest'[k].of = latest[k].of /\ latest'[k].rows <= Many
<1>1. Slot(c) \in Calls \cup {NoCall} /\ latest[Slot(c)].rows - n \in 0..Many
  BY CallFields, StoreMethodsAssumption
<1>2. latest' = [latest EXCEPT ![Slot(c)] =
                   [latest[Slot(c)] EXCEPT !.rows = latest[Slot(c)].rows - n]]
  BY DEF Took
<1>3. /\ [latest[Slot(c)] EXCEPT !.rows = latest[Slot(c)].rows - n] \in CursorRecord
      /\ [latest[Slot(c)] EXCEPT !.rows = latest[Slot(c)].rows - n].of =
           latest[Slot(c)].of
      /\ [latest[Slot(c)] EXCEPT !.rows = latest[Slot(c)].rows - n].rows <= Many
  BY <1>1, CallFields, StoreMethodsAssumption DEF CursorRecord
<1>. QED
  BY <1>1, <1>2, <1>3 DEF Types

LEMMA FetchStep ==
    ASSUME Types, NEW c \in Calls,
           FetchFails(c) \/ FetchNone(c) \/ FetchRow(c) \/ FetchRows(c)
    PROVE  /\ Fetching(c) /\ call' \in [Calls -> CallRecord]
           /\ latest' \in [Calls \cup {NoCall} -> CursorRecord]
           /\ \A k \in Calls \cup {NoCall} : latest'[k].rows <= Many
           /\ UNCHANGED <<store, pending, aborted, durable, met>>
<1>0. /\ call \in [Calls -> CallRecord] /\ call[c] \in CallRecord
      /\ End(c, "stopped") \in CallRecord /\ End(c, "raised") \in CallRecord
      /\ Onward(c) \in CallRecord /\ latest[Slot(c)].rows \in Nat
      /\ latest \in [Calls \cup {NoCall} -> CursorRecord]
      /\ \A k \in Calls \cup {NoCall} : latest[k].rows <= Many
  BY CallFields, EndTyped, OnwardTyped DEF States, Types, CursorRecord
<1>1. At(c, Fetches) /\ UNCHANGED <<store, pending, aborted, durable, met>>
  BY DEF FetchFails, FetchNone, FetchRow, FetchRows, At, Fetches
<1>2. \/ latest' = latest
      \/ \E n \in 0..latest[Slot(c)].rows : Took(c, n)
  BY <1>0 DEF FetchFails, FetchNone, FetchRow, FetchRows
<1>3. /\ latest' \in [Calls \cup {NoCall} -> CursorRecord]
      /\ \A k \in Calls \cup {NoCall} :
           latest'[k].of = latest[k].of /\ latest'[k].rows <= Many
  BY <1>0, <1>2, TookTyped
<1>4. PICK r \in {Onward(c), End(c, "stopped"), End(c, "raised"), call[c]} :
        call' = [call EXCEPT ![c] = [r EXCEPT !.misread = Misread(c)]]
  BY <1>0 DEF FetchFails, FetchNone, FetchRow, FetchRows
<1>5. /\ call' \in [Calls -> CallRecord] /\ CallsApart(c)
      /\ call'[c].state = r.state /\ call'[c].method = r.method
      /\ call'[c].at = r.at /\ call'[c].held = r.held
      /\ call'[c].misread = Misread(c)
  <2>1. r \in CallRecord
    BY <1>0
  <2>. HIDE DEF Misread
  <2>. QED
    BY <1>0, <1>4, <2>1, MisreadSet DEF CallsApart
<1>6. \/ GoesOn(c) \/ EndsAs(c, "stopped") \/ EndsAs(c, "raised")
      \/ /\ call'[c].state = call[c].state /\ call'[c].method = call[c].method
         /\ call'[c].at = call[c].at /\ call'[c].held = call[c].held
  BY <1>5, EndTyped, OnwardTyped DEF GoesOn, EndsAs, States
<1>. QED
  BY <1>1, <1>3, <1>5, <1>6 DEF Fetching

LEMMA OthersMeet ==
    ASSUME Types, NEW c \in Calls, NEW e \in Events, Others(c, e)
    PROVE  /\ met' \in [Calls -> SUBSET Events] /\ met'[c] = met[c]
           /\ \A d \in Calls : /\ met[d] \subseteq met'[d]
                               /\ met'[d] \subseteq met[d] \cup {e}
                               /\ d # c /\ Running(d) => e \in met'[d]
BY DEF Types, Others

-----------------------------------------------------------------------------
(* What a step of call c leaves to the others.                             *)

\* The transaction stays open, ends for all, or fails.
StaysOpen == pending \subseteq pending' /\ durable' = durable /\ aborted' = aborted
EndsFor(d, event) ==
    /\ pending' = {}
    /\ durable' = IF event = "commit" THEN durable \cup pending ELSE durable
    /\ aborted' = (event = "failure")
    /\ Running(d) => event \in met'[d]

LEMMA OthersKept ==
    ASSUME IInv, NEW c \in Calls, NEW d \in Calls, d # c,
           call'[d] = call[d], store' = store, met[d] \subseteq met'[d],
           \A i \in Nat : <<d, i>> \in pending' => <<d, i>> \in pending,
           \/ StaysOpen
           \/ \E e \in {"commit", "failure", "rollback"} : EndsFor(d, e)
    PROVE  CallShape(d)' /\ Acknowledged(d)' /\ Whole(d)'
<1> USE DEF IInv
<1>1. /\ \A i \in DOMAIN call[d].method : i \in Nat
      /\ Committed(d)' <=> Committed(d)
      /\ \A i : (WriteAt(d, i)' <=> WriteAt(d, i)) /\ (Ran(d, i)' <=> Ran(d, i))
  <2>1. \A i \in DOMAIN call[d].method : i \in Nat
    BY MethodsWellFormed DEF Types, CallShape, WellFormed
  <2>. QED
    BY <2>1 DEF Committed, WriteAt, Ran
<1>2. CallShape(d)'
  BY DEF CallShape, Statement
<1>3. \A i \in DOMAIN call[d].method :
        call[d].state # "running" \/ Committed(d) => <<d, i>> \notin pending
  BY <1>1 DEF PendingShape
<1>4. CASE StaysOpen
  BY <1>1, <1>2, <1>4 DEF StaysOpen, Acknowledged, Whole, Settled, Unsettled,
     NoneDurable, AllDurable
<1>5. ASSUME NEW e \in {"commit", "failure", "rollback"}, EndsFor(d, e)
      PROVE  Acknowledged(d)' /\ Whole(d)'
  BY <1>1, <1>3, <1>5 DEF EndsFor, Acknowledged, Whole, Settled, Unsettled,
     NoneDurable, AllDurable, Running
<1>. QED
  BY <1>2, <1>4, <1>5

-----------------------------------------------------------------------------
(* What a step leaves to the call that takes it.                           *)

\* A call that is past its writes, or that has reached its last statement, has
\* committed them.
LEMMA WritesAreBehind ==
    ASSUME Types, NEW c \in Calls, CallShape(c), call[c].state = "running",
           Statement(c).do # "commit",
           \/ call[c].at = Len(call[c].method) \/ Statement(c).do # "write",
           NEW i \in DOMAIN call[c].method, WriteAt(c, i),
           i < call[c].at \/ call[c].at = Len(call[c].method)
    PROVE  Committed(c)
<1>1. WellFormed(call[c].method) /\ call[c].at \in 1..Len(call[c].method)
  BY MethodShape
<1>2. CASE call[c].at = Len(call[c].method)
  <2>1. PICK j \in DOMAIN call[c].method : call[c].method[j].do = "commit"
    BY <1>1 DEF WellFormed, WriteAt
  <2>2. j # call[c].at /\ j \in 1..Len(call[c].method)
    BY <1>1, <2>1 DEF Statement, WellFormed
  <2>. QED
    BY <1>1, <1>2, <2>1, <2>2 DEF Committed
<1>3. CASE Statement(c).do # "write" /\ i < call[c].at
  BY <1>1, <1>3 DEF WellFormed, WriteAt, Statement, Committed
<1>. QED
  BY <1>2, <1>3

LEMMA RunningOn ==
    ASSUME Types, NEW c \in Calls, CallShape(c), call[c].state = "running", GoesOn(c),
           store' = store
    PROVE  /\ CallShape(c)'
           /\ call'[c].method = call[c].method
           /\ \A i \in DOMAIN call[c].method : WriteAt(c, i)' <=> WriteAt(c, i)
           /\ call'[c].state # "running" =>
                call'[c].state = "returned" /\ call[c].at = Len(call[c].method)
           /\ call'[c].state = "running" =>
                /\ call'[c].at = call[c].at + 1
                /\ \A i \in DOMAIN call[c].method :
                     Ran(c, i)' <=> WriteAt(c, i) /\ (Ran(c, i) \/ i = call[c].at)
                /\ Committed(c)' <=> Committed(c) \/ Statement(c).do = "commit"
<1>1. WellFormed(call[c].method) /\ call[c].at \in 1..Len(call[c].method)
  BY MethodShape
<1>2. \A i \in DOMAIN call[c].method : i \in Nat /\ DOMAIN call[c].method = 1..Len(call[c].method)
  BY <1>1 DEF WellFormed
<1>3. CASE call[c].at = Len(call[c].method)
  BY <1>1, <1>3 DEF GoesOn, EndsAs, CallShape, WriteAt
<1>4. CASE call[c].at # Len(call[c].method)
  <2>1. /\ call'[c].state = "running" /\ call'[c].method = call[c].method
        /\ call'[c].at = call[c].at + 1 /\ call'[c].held = NoCursor
    BY <1>4 DEF GoesOn
  <2>2. CallShape(c)'
    BY <1>1, <1>4, <2>1 DEF CallShape, WellFormed
  <2>3. \A i \in DOMAIN call[c].method :
          Ran(c, i)' <=> WriteAt(c, i) /\ (Ran(c, i) \/ i = call[c].at)
    BY <1>1, <1>2, <2>1 DEF Ran, WriteAt
  <2>4. Committed(c)' <=> Committed(c) \/ Statement(c).do = "commit"
    BY <1>1, <1>2, <2>1 DEF Committed, Statement
  <2>. QED
    BY <2>1, <2>2, <2>3, <2>4 DEF WriteAt
<1>. QED
  BY <1>3, <1>4

\* A call that ends without having returned.
LEMMA Ending ==
    ASSUME IInv, NEW c \in Calls, NEW how \in {"stopped", "raised"}, EndsAs(c, how),
           call[c].state = "running", store' = store, met'[c] = met[c],
           durable' = durable
    PROVE  CallShape(c)' /\ Acknowledged(c)' /\ Whole(c)'
BY DEF IInv, EndsAs, CallShape, Acknowledged, Whole, Settled, Unsettled, NoneDurable,
       AllDurable, WriteAt

\* A call that takes no step, and whose slot no other has written, reads as before.
LEMMA OthersRead ==
    ASSUME NEW d \in Calls, Reading(d), call'[d] = call[d], store' = store,
           met[d] \subseteq met'[d], latest'[Slot(d)].of = latest[Slot(d)].of
    PROVE  Reading(d)'
BY DEF Reading, At, Statement, Undisturbed, Slot

\* A call with nothing pending steps without touching the transaction.
LEMMA FetchedShapes ==
    ASSUME PendingShape, DurableShape, NEW c \in Calls, CallsApart(c),
           pending' = pending, durable' = durable, call'[c].method = call[c].method,
           ~Committed(c) => \A i \in DOMAIN call[c].method : ~Ran(c, i)
    PROVE  PendingShape' /\ DurableShape'
<1>1. \A d \in Calls \ {c} :
        /\ call'[d] = call[d]
        /\ \A i : (WriteAt(d, i)' <=> WriteAt(d, i)) /\ (Ran(d, i)' <=> Ran(d, i))
        /\ Committed(d)' <=> Committed(d)
  BY DEF CallsApart, WriteAt, Ran, Committed
<1>2. PendingShape'
  BY <1>1 DEF PendingShape
<1>3. \A i : WriteAt(c, i)' <=> WriteAt(c, i)
  BY DEF WriteAt
<1>4. DurableShape'
  BY <1>1, <1>3 DEF DurableShape
<1>. QED
  BY <1>2, <1>4

-----------------------------------------------------------------------------
(* The invariant is inductive.                                             *)

LEMMA InitIInv == Init => IInv
<1> SUFFICES ASSUME Init PROVE IInv
  OBVIOUS
<1>1. Types
  <2>1. call \in [Calls -> CallRecord] /\ aborted \in BOOLEAN
    BY CursorsTyped DEF Init
  <2>2. /\ latest \in [Calls \cup {NoCall} -> CursorRecord]
        /\ \A k \in Calls \cup {NoCall} : latest[k].rows <= Many
    BY CursorsTyped, StoreMethodsAssumption DEF Init
  <2>3. store \in DOMAIN Methods /\ met \in [Calls -> SUBSET Events] /\ pending = {}
    BY DEF Init
  <2>. QED
    BY <2>1, <2>2, <2>3 DEF Types
<1>. QED
  BY <1>1 DEF Init, Idle, IInv, CallShape, Reading, At, Acknowledged, Whole, Unsettled,
     NoneDurable, WriteAt, PendingShape, DurableShape

\* At a write, a call has not committed.
LEMMA WritesComeFirst ==
    ASSUME Types, NEW c \in Calls, CallShape(c), call[c].state = "running",
           Statement(c).do = "write"
    PROVE  ~Committed(c)
BY MethodShape DEF Statement, Committed, WellFormed

LEMMA BeginKeeps == ASSUME IInv, NEW c \in Calls, Begin(c) PROVE IInv'
<1> USE DEF IInv
<1>1. PICK m \in Methods[store] :
        call' = [call EXCEPT ![c] = [call[c] EXCEPT !.state = "running", !.method = m]]
  BY DEF Begin
<1>2. /\ m \in AllMethods /\ WellFormed(m)
      /\ call[c].state = "idle" /\ call[c].method = <<>> /\ call[c].at = 1
      /\ call[c].held = NoCursor
  BY MethodsWellFormed DEF Begin, AllMethods, Types, CallShape
<1>3. /\ call' \in [Calls -> CallRecord] /\ CallsApart(c)
      /\ call'[c].state = "running" /\ call'[c].method = m /\ call'[c].at = 1
      /\ call'[c].held = NoCursor /\ call'[c].misread = call[c].misread
  BY <1>1, <1>2, CallFields DEF Types, CallRecord, States, CallsApart
<1>4. Types'
  BY <1>3 DEF Begin, Types
<1>5. \A w \in pending \cup durable : \A i : w # <<c, i>>
  BY <1>2 DEF PendingShape, DurableShape, WriteAt
<1>6. ASSUME NEW d \in Calls, d # c
      PROVE  CallShape(d)' /\ Acknowledged(d)' /\ Whole(d)' /\ Reading(d)'
  <2>1. call'[d] = call[d]
    BY <1>3, <1>6 DEF CallsApart
  <2>2. CallShape(d)' /\ Acknowledged(d)' /\ Whole(d)'
    BY <1>6, <2>1, OthersKept DEF Begin, StaysOpen
  <2>. QED
    BY <2>1, <2>2 DEF Begin, Reading, At, Statement, Undisturbed, Slot
<1>7. CallShape(c)' /\ Acknowledged(c)' /\ Whole(c)' /\ Reading(c)'
  <2>1. \A i \in DOMAIN m : i >= 1 /\ ~Ran(c, i)'
    BY <1>2, <1>3 DEF WellFormed, Ran
  <2>2. ~Committed(c)'
    BY <2>1, <1>2, <1>3 DEF Committed, WellFormed
  <2>3. CallShape(c)' /\ Acknowledged(c)' /\ Whole(c)'
    BY <1>2, <1>3, <1>5, <2>1, <2>2 DEF Begin, CallShape, Acknowledged, Whole, Unsettled,
       NoneDurable, WellFormed
  <2>4. m[1].do \notin Fetches
    BY <1>2 DEF WellFormed
  <2>. QED
    BY <1>3, <2>3, <2>4 DEF Begin, Reading, At, Statement, Undisturbed
<1>8. PendingShape' /\ DurableShape'
  BY <1>3, <1>5 DEF Begin, CallsApart, PendingShape, DurableShape, Ran, WriteAt, Committed
<1>. QED
  BY <1>3, <1>4, <1>6, <1>7, <1>8

LEMMA ExecuteAbortedKeeps == ASSUME IInv, NEW c \in Calls, ExecuteAborted(c) PROVE IInv'
<1> USE DEF IInv
<1>1. PICK how \in {"undoing", "raised"} :
        Raise(c, how) /\ (how = "undoing" => Statement(c).do = "write")
  BY DEF ExecuteAborted
<1>2. /\ call' \in [Calls -> CallRecord] /\ CallsApart(c) /\ EndsAs(c, how)
      /\ call'[c].misread = call[c].misread
  BY <1>1, RaiseEnds DEF States
<1>3. /\ pending = {} /\ aborted /\ call[c].state = "running"
      /\ UNCHANGED <<store, latest, pending, aborted, durable, met>>
  BY DEF ExecuteAborted, Types, At
<1>4. Types'
  BY <1>2, <1>3 DEF Types
<1>5. ASSUME NEW d \in Calls, d # c
      PROVE  CallShape(d)' /\ Acknowledged(d)' /\ Whole(d)' /\ Reading(d)'
  <2>1. call'[d] = call[d]
    BY <1>2, <1>5 DEF CallsApart
  <2>2. CallShape(d)' /\ Acknowledged(d)' /\ Whole(d)'
    BY <1>3, <1>5, <2>1, OthersKept DEF StaysOpen
  <2>. QED
    BY <1>3, <2>1, <2>2 DEF Reading, At, Statement, Undisturbed, Slot
<1>6. CallShape(c)' /\ Acknowledged(c)' /\ Whole(c)' /\ Reading(c)'
  <2>1. Statement(c).do # "commit" /\ Statement(c).do \notin Fetches
    BY DEF ExecuteAborted, At, Fetches
  <2>2. Reading(c)'
    BY <1>2, <1>3 DEF Reading, EndsAs, At, Undisturbed
  <2>3. CASE how = "raised"
    BY <1>2, <1>3, <2>2, <2>3, Ending
  <2>4. CASE how = "undoing"
    <3>1. ~Committed(c)
      BY <1>1, <1>3, <2>4, WritesComeFirst
    <3>. QED
      BY <1>2, <1>3, <2>2, <2>4, <3>1
         DEF EndsAs, CallShape, Acknowledged, Whole, Unsettled, NoneDurable, WriteAt
  <2>. QED
    BY <2>3, <2>4
<1>7. PendingShape' /\ DurableShape'
  BY <1>2, <1>3 DEF CallsApart, EndsAs, PendingShape, DurableShape, WriteAt
<1>. QED
  BY <1>4, <1>5, <1>6, <1>7

LEMMA ExecuteSelectKeeps == ASSUME IInv, NEW c \in Calls, ExecuteSelect(c) PROVE IInv'
<1> USE DEF IInv
<1>1. PICK n \in 0..Statement(c).most :
        call' = [call EXCEPT ![c] =
          [call[c] EXCEPT !.held = Cursor(c, call[c].at, Statement(c).table, n)]]
  BY DEF ExecuteSelect
<1>2. /\ call[c].state = "running" /\ call[c].held = NoCursor
      /\ Statement(c).do = "select" /\ Statement(c).table \in Tables /\ n \in 0..Many
      /\ call[c].at \in DOMAIN call[c].method /\ call[c].at \in Nat
  BY MethodShape, StoreMethodsAssumption
     DEF ExecuteSelect, At, CallShape, Statement, WellFormed, Types
<1>3. PICK h \in CursorRecord :
        /\ h = Cursor(c, call[c].at, Statement(c).table, n)
        /\ h # NoCursor /\ h.of = <<c, call[c].at>> /\ h.rows = n
  BY <1>2, CursorsTyped
<1>4. /\ call' \in [Calls -> CallRecord] /\ CallsApart(c)
      /\ call'[c].state = "running" /\ call'[c].method = call[c].method
      /\ call'[c].at = call[c].at /\ call'[c].held = h
      /\ call'[c].misread = call[c].misread
  BY <1>1, <1>2, <1>3, CallFields DEF Types, CallRecord, CallsApart
<1>5. UNCHANGED <<store, latest, pending, aborted, durable, met>>
  BY DEF ExecuteSelect
<1>6. Types'
  BY <1>4, <1>5 DEF Types
<1>7. ASSUME NEW d \in Calls, d # c
      PROVE  CallShape(d)' /\ Acknowledged(d)' /\ Whole(d)' /\ Reading(d)'
  <2>1. call'[d] = call[d]
    BY <1>4, <1>7 DEF CallsApart
  <2>2. CallShape(d)' /\ Acknowledged(d)' /\ Whole(d)'
    BY <1>5, <1>7, <2>1, OthersKept DEF StaysOpen
  <2>. QED
    BY <1>5, <2>1, <2>2 DEF Reading, At, Statement, Undisturbed, Slot
<1>8. /\ \A i : (WriteAt(c, i)' <=> WriteAt(c, i)) /\ (Ran(c, i)' <=> Ran(c, i))
      /\ Committed(c)' <=> Committed(c)
  BY <1>2, <1>3, <1>4 DEF WriteAt, Ran, Committed, Statement
<1>9. CallShape(c)' /\ Acknowledged(c)' /\ Whole(c)' /\ Reading(c)'
  <2>1. CallShape(c)'
    <3>1. h.rows <= Many
      BY <1>2, <1>3, StoreMethodsAssumption
    <3>. QED
      BY <1>2, <1>3, <1>4, <1>5, <3>1 DEF CallShape, Statement
  <2>3. Reading(c)'
    BY <1>3, <1>4, <1>5 DEF Reading, At, Undisturbed
  <2>2. Acknowledged(c)' /\ Whole(c)'
    BY <1>2, <1>4, <1>5, <1>8
       DEF Acknowledged, Whole, Settled, Unsettled, NoneDurable, AllDurable
  <2>. QED
    BY <2>1, <2>2, <2>3
<1>10. PendingShape' /\ DurableShape'
  <2>1. \A d \in Calls :
          /\ call'[d].method = call[d].method /\ call'[d].state = call[d].state
          /\ \A i : (WriteAt(d, i)' <=> WriteAt(d, i)) /\ (Ran(d, i)' <=> Ran(d, i))
          /\ Committed(d)' <=> Committed(d)
    BY <1>2, <1>4, <1>8 DEF CallsApart, WriteAt, Ran, Committed
  <2>. QED
    BY <1>5, <2>1 DEF PendingShape, DurableShape
<1>. QED
  BY <1>6, <1>7, <1>9, <1>10

LEMMA ExecuteWriteKeeps == ASSUME IInv, NEW c \in Calls, ExecuteWrite(c) PROVE IInv'
<1> USE DEF IInv
<1>1. /\ call[c].state = "running" /\ call[c].held = NoCursor /\ ~aborted
      /\ Statement(c).do = "write"
      /\ call[c].at \in DOMAIN call[c].method /\ call[c].at \in Nat
  BY CallFields DEF ExecuteWrite, At, CallShape
<1>2. PICK h \in CursorRecord :
        /\ h = Cursor(c, call[c].at, NoTable, 0)
        /\ h # NoCursor /\ h.of = <<c, call[c].at>> /\ h.rows = 0
  BY <1>1, CursorsTyped, StoreMethodsAssumption DEF Tables
<1>3. call' = [call EXCEPT ![c] = [call[c] EXCEPT !.held = h]]
  BY <1>2 DEF ExecuteWrite
<1>4. /\ call' \in [Calls -> CallRecord] /\ CallsApart(c)
      /\ call'[c].state = "running" /\ call'[c].method = call[c].method
      /\ call'[c].at = call[c].at /\ call'[c].held = h
      /\ call'[c].misread = call[c].misread
  BY <1>1, <1>2, <1>3, CallFields DEF Types, CallRecord, CallsApart
<1>5. /\ UNCHANGED <<store, latest, aborted, durable, met>>
      /\ pending' = pending \cup {<<c, call[c].at>>}
  BY DEF ExecuteWrite
<1>6. Types'
  BY <1>1, <1>4, <1>5 DEF Types
<1>7. ASSUME NEW d \in Calls, d # c
      PROVE  CallShape(d)' /\ Acknowledged(d)' /\ Whole(d)' /\ Reading(d)'
  <2>1. call'[d] = call[d]
    BY <1>4, <1>7 DEF CallsApart
  <2>2. CallShape(d)' /\ Acknowledged(d)' /\ Whole(d)'
    BY <1>5, <1>7, <2>1, OthersKept DEF StaysOpen
  <2>. QED
    BY <1>5, <2>1, <2>2 DEF Reading, At, Statement, Undisturbed, Slot
<1>8. /\ \A i : (WriteAt(c, i)' <=> WriteAt(c, i))
      /\ \A i : Ran(c, i)' <=> Ran(c, i) \/ i = call[c].at
      /\ Committed(c)' <=> Committed(c)
      /\ ~Committed(c)
  <2>1. ~Committed(c)
    BY <1>1, WritesComeFirst
  <2>. QED
    BY <1>1, <1>2, <1>4, <2>1 DEF WriteAt, Ran, Committed, Statement
<1>9. CallShape(c)' /\ Acknowledged(c)' /\ Whole(c)' /\ Reading(c)'
  <2>1. CallShape(c)' /\ Reading(c)'
    BY <1>1, <1>2, <1>4, <1>5, StoreMethodsAssumption
       DEF CallShape, Statement, Reading, At, Undisturbed
  <2>2. Acknowledged(c)' /\ Whole(c)'
    BY <1>1, <1>4, <1>5, <1>8
       DEF Acknowledged, Whole, Settled, Unsettled, NoneDurable, AllDurable
  <2>. QED
    BY <2>1, <2>2
<1>10. PendingShape' /\ DurableShape'
  <2>1. \A d \in Calls :
          /\ call'[d].method = call[d].method /\ call'[d].state = call[d].state
          /\ \A i : (WriteAt(d, i)' <=> WriteAt(d, i)) /\ (Ran(d, i) => Ran(d, i)')
          /\ Committed(d)' <=> Committed(d)
    BY <1>1, <1>4, <1>8 DEF CallsApart, WriteAt, Ran, Committed
  <2>2. Ran(c, call[c].at)' /\ ~Committed(c)'
    BY <1>4, <1>8
  <2>3. DurableShape'
    BY <1>5, <2>1 DEF DurableShape
  <2>4. ASSUME NEW w \in pending'
        PROVE  \E d \in Calls : \E i \in DOMAIN call'[d].method :
                 /\ w = <<d, i>> /\ call'[d].state = "running"
                 /\ Ran(d, i)' /\ ~Committed(d)'
    <3>1. CASE w = <<c, call[c].at>>
      BY <1>1, <1>4, <2>2, <3>1
    <3>2. CASE w \in pending
      BY <2>1, <3>2 DEF PendingShape
    <3>. QED
      BY <1>5, <3>1, <3>2
  <2>. QED
    BY <2>3, <2>4 DEF PendingShape
<1>. QED
  BY <1>6, <1>7, <1>9, <1>10

LEMMA ExecuteRefusedKeeps == ASSUME IInv, NEW c \in Calls, ExecuteRefused(c) PROVE IInv'
<1> USE DEF IInv
<1>1. PICK how \in {"undoing", "raised"} : Raise(c, how)
  BY DEF ExecuteRefused
<1>2. /\ call' \in [Calls -> CallRecord] /\ CallsApart(c) /\ EndsAs(c, how)
      /\ call'[c].misread = call[c].misread
  BY <1>1, RaiseEnds DEF States
<1>3. /\ pending' = {} /\ aborted' = TRUE /\ call[c].state = "running"
      /\ Statement(c).do = "write" /\ Others(c, "failure")
      /\ UNCHANGED <<store, latest, durable>>
  BY DEF ExecuteRefused, At
<1>4. /\ met' \in [Calls -> SUBSET Events] /\ met'[c] = met[c]
      /\ \A d \in Calls : /\ met[d] \subseteq met'[d]
                          /\ d # c /\ Running(d) => "failure" \in met'[d]
  BY <1>3, OthersMeet DEF Events
<1>5. Types'
  BY <1>2, <1>3, <1>4 DEF Types
<1>6. ASSUME NEW d \in Calls, d # c
      PROVE  CallShape(d)' /\ Acknowledged(d)' /\ Whole(d)' /\ Reading(d)'
  <2>1. call'[d] = call[d]
    BY <1>2, <1>6 DEF CallsApart
  <2>2. EndsFor(d, "failure")
    BY <1>3, <1>4, <1>6 DEF EndsFor
  <2>3. CallShape(d)' /\ Acknowledged(d)' /\ Whole(d)'
    BY <1>3, <1>4, <1>6, <2>1, <2>2, OthersKept
  <2>. QED
    BY <1>3, <1>4, <2>1, <2>3, OthersRead
<1>7. CallShape(c)' /\ Acknowledged(c)' /\ Whole(c)' /\ Reading(c)'
  <2>1. ~Committed(c)
    BY <1>3, WritesComeFirst
  <2>2. Reading(c)'
    BY <1>2, <1>3, <1>4 DEF Reading, EndsAs, At, Undisturbed
  <2>. QED
    BY <1>2, <1>3, <1>4, <2>1, <2>2
       DEF EndsAs, CallShape, Acknowledged, Whole, Unsettled, Settled, NoneDurable, WriteAt
<1>8. PendingShape' /\ DurableShape'
  BY <1>2, <1>3 DEF CallsApart, EndsAs, PendingShape, DurableShape, WriteAt
<1>. QED
  BY <1>5, <1>6, <1>7, <1>8

LEMMA KeepCursorKeeps == ASSUME IInv, NEW c \in Calls, KeepCursor(c) PROVE IInv'
<1> USE DEF IInv
<1>1. /\ call[c].state = "running" /\ call[c].held # NoCursor
      /\ Statement(c).do \in {"select", "write"} /\ Others(c, "keep")
      /\ call[c].held.of = <<c, call[c].at>> /\ call[c].held.rows <= Many
      /\ call[c].held \in CursorRecord
      /\ UNCHANGED <<store, pending, aborted, durable>>
  BY CallFields DEF KeepCursor, CallShape
<1>2. /\ call' \in [Calls -> CallRecord] /\ CallsApart(c) /\ GoesOn(c)
      /\ call'[c].misread = call[c].misread
  BY OnwardGoesOn DEF KeepCursor
<1>3. /\ met' \in [Calls -> SUBSET Events] /\ met'[c] = met[c]
      /\ \A d \in Calls : /\ met[d] \subseteq met'[d]
                          /\ d # c /\ Running(d) => "keep" \in met'[d]
  BY <1>1, OthersMeet DEF Events
<1>4. /\ latest' \in [Calls \cup {NoCall} -> CursorRecord]
      /\ \A k \in Calls \cup {NoCall} : latest'[k].rows <= Many
      /\ latest'[Slot(c)] = call[c].held
      /\ \A k \in Calls \cup {NoCall} : k # Slot(c) => latest'[k] = latest[k]
  BY <1>1, CallFields DEF KeepCursor, Types
<1>5. Types'
  BY <1>1, <1>2, <1>3, <1>4 DEF Types
<1>6. ASSUME NEW d \in Calls, d # c
      PROVE  CallShape(d)' /\ Acknowledged(d)' /\ Whole(d)' /\ Reading(d)'
  <2>1. call'[d] = call[d]
    BY <1>2, <1>6 DEF CallsApart
  <2>2. CallShape(d)' /\ Acknowledged(d)' /\ Whole(d)'
    BY <1>1, <1>3, <1>6, <2>1, OthersKept DEF StaysOpen
  <2>3. CASE store \in LocalCursor
    <3>1. Slot(d) # Slot(c) /\ Slot(d) \in Calls \cup {NoCall}
      BY <1>6, <2>3 DEF Slot
    <3>. QED
      BY <1>1, <1>3, <1>4, <2>1, <2>2, <3>1, OthersRead
  <2>4. CASE store \notin LocalCursor
    <3>1. Undisturbed(d)' => Undisturbed(d) /\ ~Running(d)
      BY <1>1, <1>3, <1>6, <2>4 DEF Undisturbed
    <3>. QED
      BY <2>1, <2>2, <3>1 DEF Reading, At, Running
  <2>. QED
    BY <2>3, <2>4
<1>7. /\ CallShape(c)'
      /\ \A i \in DOMAIN call[c].method : WriteAt(c, i)' <=> WriteAt(c, i)
      /\ call'[c].method = call[c].method
      /\ call'[c].state # "running" =>
           call'[c].state = "returned" /\ call[c].at = Len(call[c].method)
      /\ call'[c].state = "running" =>
           /\ call'[c].at = call[c].at + 1
           /\ \A i \in DOMAIN call[c].method : Ran(c, i)' <=> Ran(c, i)
           /\ Committed(c)' <=> Committed(c)
  BY <1>1, <1>2, RunningOn DEF Ran, WriteAt, Statement
<1>8. \A i \in DOMAIN call[c].method :
        WriteAt(c, i) /\ call'[c].state # "running" => Committed(c)
  BY <1>1, <1>7, WritesAreBehind
<1>9. Acknowledged(c)' /\ Whole(c)'
  BY <1>1, <1>3, <1>7, <1>8
     DEF Acknowledged, Whole, Settled, Unsettled, NoneDurable, AllDurable, WriteAt
<1>10. Reading(c)'
  <2>1. call'[c].state = "running" /\ call'[c].held = NoCursor /\ Statement(c)'.do \in Fetches =>
          call'[c].at - 1 = call[c].at
    BY <1>7, CallFields
  <2>2. Slot(c)' = Slot(c)
    BY <1>1 DEF Slot
  <2>. QED
    BY <1>1, <1>2, <1>3, <1>4, <2>1, <2>2 DEF Reading, At, Undisturbed
<1>11. PendingShape' /\ DurableShape'
  <2>1. \A d \in Calls :
          /\ call'[d].method = call[d].method
          /\ \A i \in DOMAIN call[d].method : WriteAt(d, i)' <=> WriteAt(d, i)
          /\ \A i \in DOMAIN call[d].method :
               call[d].state = "running" /\ Ran(d, i) /\ ~Committed(d) =>
                 call'[d].state = "running" /\ Ran(d, i)' /\ ~Committed(d)'
    BY <1>1, <1>2, <1>7, <1>8 DEF CallsApart, WriteAt, Ran, Committed
  <2>. QED
    BY <1>1, <2>1 DEF PendingShape, DurableShape
<1>. QED
  BY <1>5, <1>6, <1>7, <1>9, <1>10, <1>11

LEMMA FetchKeeps ==
    ASSUME IInv, NEW c \in Calls,
           FetchFails(c) \/ FetchNone(c) \/ FetchRow(c) \/ FetchRows(c)
    PROVE  IInv'
<1> USE DEF IInv
<1>1. /\ Fetching(c) /\ call' \in [Calls -> CallRecord] /\ CallsApart(c)
      /\ latest' \in [Calls \cup {NoCall} -> CursorRecord]
      /\ \A k \in Calls \cup {NoCall} :
           latest'[k].rows <= Many /\ latest'[k].of = latest[k].of
      /\ UNCHANGED <<store, pending, aborted, durable, met>>
  BY FetchStep DEF Fetching
<1>2. /\ call[c].state = "running" /\ call[c].held = NoCursor
      /\ Statement(c).do \in Fetches /\ call'[c].misread = Misread(c)
  BY <1>1 DEF Fetching, At
<1>3. Types'
  BY <1>1 DEF Types
<1>4. ASSUME NEW d \in Calls, d # c
      PROVE  CallShape(d)' /\ Acknowledged(d)' /\ Whole(d)' /\ Reading(d)'
  <2>1. call'[d] = call[d] /\ Slot(d) \in Calls \cup {NoCall}
    BY <1>1, <1>4 DEF CallsApart, Slot
  <2>2. CallShape(d)' /\ Acknowledged(d)' /\ Whole(d)'
    BY <1>1, <1>4, <2>1, OthersKept DEF StaysOpen
  <2>. QED
    BY <1>1, <2>1, <2>2, OthersRead
<1>5. call'[c].misread => ~Undisturbed(c)
  BY <1>1, <1>2 DEF Misread, Reading, At
<1>6. ~Committed(c) => \A i \in DOMAIN call[c].method : ~Ran(c, i)
  <2>1. \A i \in DOMAIN call[c].method : Ran(c, i) => WriteAt(c, i) /\ i < call[c].at
    BY <1>2 DEF Ran
  <2>. QED
    BY <1>2, <2>1, WritesAreBehind DEF Fetches
<1>7. CASE GoesOn(c)
  <2>1. /\ CallShape(c)'
        /\ \A i \in DOMAIN call[c].method : WriteAt(c, i)' <=> WriteAt(c, i)
        /\ call'[c].method = call[c].method
        /\ call'[c].state # "running" =>
             call'[c].state = "returned" /\ call[c].at = Len(call[c].method)
        /\ call'[c].state = "running" =>
             /\ call'[c].at = call[c].at + 1
             /\ \A i \in DOMAIN call[c].method : Ran(c, i)' <=> Ran(c, i)
             /\ Committed(c)' <=> Committed(c)
    BY <1>1, <1>2, <1>7, RunningOn DEF Ran, WriteAt, Statement, Fetches
  <2>2. \A i \in DOMAIN call[c].method :
          WriteAt(c, i) /\ call'[c].state # "running" => Committed(c)
    BY <1>2, <2>1, WritesAreBehind DEF Fetches
  <2>3. Acknowledged(c)' /\ Whole(c)'
    BY <1>1, <1>2, <2>1, <2>2
       DEF Acknowledged, Whole, Settled, Unsettled, NoneDurable, AllDurable, WriteAt
  <2>4. call'[c].state = "running" => Statement(c)'.do \notin Fetches
    <3>1. ASSUME call'[c].state = "running" PROVE call'[c].at \in DOMAIN call[c].method
      BY <2>1, <3>1 DEF CallShape
    <3>2. ASSUME call'[c].state = "running" PROVE call'[c].at - 1 = call[c].at
      BY <2>1, <3>2, CallFields
    <3>. QED
      <4>1. ASSUME call'[c].state = "running",
                   call[c].method[call'[c].at].do \in Fetches
            PROVE  call[c].method[call'[c].at - 1].do = "select"
        BY <1>2, <3>1, <4>1, MethodShape DEF WellFormed
      <4>. QED
        BY <1>2, <2>1, <3>2, <4>1 DEF Statement, Fetches
  <2>5. Reading(c)'
    BY <1>1, <1>5, <2>4 DEF Reading, At, Undisturbed
  <2>6. \A i \in DOMAIN call[c].method : Ran(c, i) /\ ~Committed(c) => FALSE
    BY <1>6
  <2>. QED
    BY <1>1, <1>3, <1>4, <2>1, <2>3, <2>5, <2>6, FetchedShapes
<1>8. CASE \E how \in {"stopped", "raised"} : EndsAs(c, how)
  <2>1. CallShape(c)' /\ Acknowledged(c)' /\ Whole(c)'
    BY <1>1, <1>2, <1>8, Ending
  <2>2. Reading(c)'
    BY <1>1, <1>5, <1>8 DEF Reading, At, EndsAs, Undisturbed
  <2>. QED
    BY <1>1, <1>3, <1>4, <1>6, <1>8, <2>1, <2>2, FetchedShapes DEF EndsAs
<1>9. CASE /\ call'[c].state = call[c].state /\ call'[c].method = call[c].method
           /\ call'[c].at = call[c].at /\ call'[c].held = call[c].held
  <2>1. /\ \A i : (WriteAt(c, i)' <=> WriteAt(c, i)) /\ (Ran(c, i)' <=> Ran(c, i))
        /\ Committed(c)' <=> Committed(c)
        /\ Statement(c)' = Statement(c)
    BY <1>9 DEF WriteAt, Ran, Committed, Statement
  <2>2. CallShape(c)' /\ Acknowledged(c)' /\ Whole(c)'
    BY <1>1, <1>9, <2>1
       DEF CallShape, Acknowledged, Whole, Settled, Unsettled, NoneDurable, AllDurable
  <2>3. Reading(c)'
    <3>1. Slot(c)' = Slot(c) /\ Slot(c) \in Calls \cup {NoCall}
      BY <1>1 DEF Slot
    <3>. QED
      BY <1>1, <1>5, <1>9, <2>1, <3>1 DEF Reading, At, Undisturbed
  <2>. QED
    BY <1>1, <1>3, <1>4, <1>6, <1>9, <2>2, <2>3, FetchedShapes
<1>. QED
  BY <1>1, <1>7, <1>8, <1>9 DEF Fetching

LEMMA CommitAllKeeps == ASSUME IInv, NEW c \in Calls, CommitAll(c) PROVE IInv'
<1> USE DEF IInv
<1>1. /\ call[c].state = "running" /\ call[c].held = NoCursor
      /\ Statement(c).do = "commit" /\ Others(c, "commit")
      /\ durable' = durable \cup pending /\ pending' = {} /\ aborted' = FALSE
      /\ UNCHANGED <<store, latest>>
  BY DEF CommitAll, At
<1>2. /\ call' \in [Calls -> CallRecord] /\ CallsApart(c) /\ GoesOn(c)
      /\ call'[c].misread = call[c].misread
  BY OnwardGoesOn DEF CommitAll
<1>3. /\ met' \in [Calls -> SUBSET Events] /\ met'[c] = met[c]
      /\ \A d \in Calls : /\ met[d] \subseteq met'[d]
                          /\ d # c /\ Running(d) => "commit" \in met'[d]
  BY <1>1, OthersMeet DEF Events
<1>4. Types'
  BY <1>1, <1>2, <1>3 DEF Types
<1>5. ASSUME NEW d \in Calls, d # c
      PROVE  CallShape(d)' /\ Acknowledged(d)' /\ Whole(d)' /\ Reading(d)'
  <2>1. call'[d] = call[d]
    BY <1>2, <1>5 DEF CallsApart
  <2>2. EndsFor(d, "commit")
    BY <1>1, <1>3, <1>5 DEF EndsFor
  <2>3. CallShape(d)' /\ Acknowledged(d)' /\ Whole(d)'
    BY <1>1, <1>3, <1>5, <2>1, <2>2, OthersKept
  <2>. QED
    BY <1>1, <1>3, <2>1, <2>3, OthersRead
<1>6. /\ CallShape(c)'
      /\ \A i \in DOMAIN call[c].method : WriteAt(c, i)' <=> WriteAt(c, i)
      /\ call'[c].method = call[c].method
      /\ call'[c].state \in {"running", "returned"}
      /\ call'[c].state = "running" => Committed(c)' /\ call'[c].at = call[c].at + 1
  BY <1>1, <1>2, RunningOn
<1>7. \A i \in DOMAIN call[c].method : WriteAt(c, i) => Ran(c, i)
  BY <1>1, MethodShape DEF WellFormed, WriteAt, Ran, Statement, CallShape
<1>8. Acknowledged(c)'
  BY <1>1, <1>3, <1>6, <1>7 DEF Acknowledged, AllDurable, WriteAt
<1>9. Whole(c)'
  <2>1. \A i \in DOMAIN call[c].method :
          call[c].state # "running" \/ Committed(c) => <<c, i>> \notin pending
    BY DEF PendingShape
  <2>2. CASE Committed(c)
    BY <1>1, <1>3, <1>6, <2>1, <2>2
       DEF Whole, Settled, Unsettled, NoneDurable, AllDurable, WriteAt
  <2>3. CASE ~Committed(c) /\ aborted
    BY <1>1, <1>3, <1>6, <2>3
       DEF Whole, Settled, Unsettled, NoneDurable, WriteAt, Types
  <2>4. CASE ~Committed(c) /\ ~aborted
    BY <1>1, <1>3, <1>6, <1>7, <2>4
       DEF Whole, Settled, Unsettled, AllDurable, WriteAt
  <2>. QED
    BY <2>2, <2>3, <2>4
<1>10. Reading(c)'
  <2>1. call'[c].state = "running" => Statement(c)'.do \notin Fetches
    <3>1. ASSUME call'[c].state = "running",
                 call[c].method[call'[c].at].do \in Fetches
          PROVE  call[c].method[call'[c].at - 1].do = "select"
      BY <1>1, <1>6, <3>1, MethodShape DEF WellFormed, CallShape
    <3>2. call'[c].state = "running" => call'[c].at - 1 = call[c].at
      BY <1>6, CallFields
    <3>. QED
      BY <1>1, <1>6, <3>1, <3>2 DEF Statement
  <2>. QED
    BY <1>1, <1>2, <1>3, <2>1 DEF Reading, At, Undisturbed
<1>11. PendingShape' /\ DurableShape'
  <2>1. \A d \in Calls :
          /\ call'[d].method = call[d].method
          /\ \A i \in DOMAIN call[d].method : WriteAt(d, i)' <=> WriteAt(d, i)
    BY <1>2, <1>6 DEF CallsApart, WriteAt
  <2>2. ASSUME NEW w \in pending \cup durable
        PROVE  \E d \in Calls : \E i \in DOMAIN call[d].method : w = <<d, i>> /\ WriteAt(d, i)
    BY DEF PendingShape, DurableShape, Ran
  <2>. QED
    BY <1>1, <2>1, <2>2 DEF PendingShape, DurableShape
<1>. QED
  BY <1>4, <1>5, <1>6, <1>8, <1>9, <1>10, <1>11

LEMMA RollbackKeeps == ASSUME IInv, NEW c \in Calls, Rollback(c) PROVE IInv'
<1> USE DEF IInv
<1>1. /\ call[c].state = "undoing" /\ Others(c, "rollback")
      /\ pending' = {} /\ aborted' = FALSE /\ Raise(c, "raised")
      /\ UNCHANGED <<store, latest, durable>>
  BY DEF Rollback
<1>2. /\ call' \in [Calls -> CallRecord] /\ CallsApart(c) /\ EndsAs(c, "raised")
      /\ call'[c].misread = call[c].misread
  BY <1>1, RaiseEnds DEF States
<1>3. /\ met' \in [Calls -> SUBSET Events] /\ met'[c] = met[c]
      /\ \A d \in Calls : /\ met[d] \subseteq met'[d]
                          /\ d # c /\ Running(d) => "rollback" \in met'[d]
  BY <1>1, OthersMeet DEF Events
<1>4. Types'
  BY <1>1, <1>2, <1>3 DEF Types
<1>5. ASSUME NEW d \in Calls, d # c
      PROVE  CallShape(d)' /\ Acknowledged(d)' /\ Whole(d)' /\ Reading(d)'
  <2>1. call'[d] = call[d]
    BY <1>2, <1>5 DEF CallsApart
  <2>2. EndsFor(d, "rollback")
    BY <1>1, <1>3, <1>5 DEF EndsFor
  <2>3. CallShape(d)' /\ Acknowledged(d)' /\ Whole(d)'
    BY <1>1, <1>3, <1>5, <2>1, <2>2, OthersKept
  <2>. QED
    BY <1>1, <1>3, <2>1, <2>3, OthersRead
<1>6. CallShape(c)' /\ Acknowledged(c)' /\ Whole(c)' /\ Reading(c)'
  <2>1. Reading(c)'
    BY <1>1, <1>2, <1>3 DEF Reading, EndsAs, At, Undisturbed
  <2>. QED
    BY <1>1, <1>2, <1>3, <2>1
       DEF EndsAs, CallShape, Acknowledged, Whole, Unsettled, Settled, NoneDurable, WriteAt
<1>7. PendingShape' /\ DurableShape'
  BY <1>1, <1>2 DEF CallsApart, EndsAs, PendingShape, DurableShape, WriteAt
<1>. QED
  BY <1>4, <1>5, <1>6, <1>7

LEMMA RestartKeeps == ASSUME IInv, Restart PROVE IInv'
<1> USE DEF IInv
<1>1. ASSUME NEW d \in Calls
      PROVE  /\ call'[d] \in CallRecord
             /\ call'[d].method = call[d].method /\ call'[d].misread = call[d].misread
             /\ IF Running(d)
                THEN /\ call'[d].state = "gone"
                     /\ call'[d].at = 1 /\ call'[d].held = NoCursor
                ELSE call'[d] = call[d]
  BY EndTyped, CallFields DEF Restart, States
<1>2. Types'
  <2>1. call' \in [Calls -> CallRecord]
    BY <1>1 DEF Restart
  <2>2. /\ latest' \in [Calls \cup {NoCall} -> CursorRecord]
        /\ \A k \in Calls \cup {NoCall} : latest'[k].rows <= Many
    BY CursorsTyped, StoreMethodsAssumption DEF Restart
  <2>. QED
    BY <2>1, <2>2 DEF Restart, Types
<1>3. ASSUME NEW d \in Calls
      PROVE  CallShape(d)' /\ Acknowledged(d)' /\ Whole(d)' /\ Reading(d)'
  <2>1. /\ UNCHANGED <<store, durable, met>> /\ pending' = {}
        /\ \A i : WriteAt(d, i)' <=> WriteAt(d, i)
        /\ call'[d].state # "running"
    BY <1>1 DEF Restart, WriteAt, Running
  <2>2. CASE Running(d)
    BY <1>1, <2>1, <2>2
       DEF CallShape, Acknowledged, Whole, Settled, Unsettled, NoneDurable, AllDurable,
           Reading, At, Undisturbed, Running
  <2>3. CASE ~Running(d)
    BY <1>1, <2>1, <2>3
       DEF CallShape, Acknowledged, Whole, Settled, Unsettled, NoneDurable, AllDurable,
           Reading, At, Undisturbed, Running, Statement
  <2>. QED
    BY <2>2, <2>3
<1>4. PendingShape' /\ DurableShape'
  BY <1>1 DEF Restart, PendingShape, DurableShape, WriteAt
<1>. QED
  BY <1>2, <1>3, <1>4

LEMMA NextIInv == IInv /\ [Next]_vars => IInv'
<1> SUFFICES ASSUME IInv, [Next]_vars PROVE IInv'
  OBVIOUS
<1>1. CASE UNCHANGED vars
  BY <1>1 DEF vars, IInv, Types, CallShape, Statement, Reading, At, Slot, Undisturbed,
     Acknowledged, Whole, Settled, Unsettled, NoneDurable, AllDurable, WriteAt, Ran,
     Committed, PendingShape, DurableShape
<1>2. CASE Restart
  BY <1>2, RestartKeeps
<1>3. ASSUME NEW c \in Calls, Step(c) PROVE IInv'
  BY <1>3, BeginKeeps, ExecuteAbortedKeeps, ExecuteSelectKeeps, ExecuteWriteKeeps,
     ExecuteRefusedKeeps, KeepCursorKeeps, FetchKeeps, CommitAllKeeps, RollbackKeeps
     DEF Step
<1>. QED
  BY <1>1, <1>2, <1>3 DEF Next

-----------------------------------------------------------------------------
LEMMA InvariantHolds == Spec => []IInv
BY InitIInv, NextIInv, PTL DEF Spec

\* A call stays within its method, a cursor within its rows, and only what some
\* call has written is pending or durable.
THEOREM ConnectionTypeCorrect == Spec => []TypeOK
<1>1. IInv => TypeOK
  <2> SUFFICES ASSUME IInv PROVE TypeOK
    OBVIOUS
  <2> USE DEF IInv
  <2>1. ASSUME NEW c \in Calls
        PROVE  /\ call[c].state \in States
               /\ call[c].method \in Methods[store] \cup {<<>>}
               /\ call[c].method # <<>> => call[c].at \in DOMAIN call[c].method
               /\ met[c] \subseteq Events
    <3>1. CASE call[c].state = "running" \/ call[c].state = "idle"
      BY <3>1, CallFields DEF CallShape, Types
    <3>2. CASE call[c].state # "running" /\ call[c].state # "idle"
      BY <3>2, CallFields, MethodsWellFormed DEF CallShape, Types, WellFormed
    <3>. QED
      BY <3>1, <3>2
  <2>2. \A k \in Calls \cup {NoCall} : latest[k].rows \in 0..Many
    BY StoreMethodsAssumption DEF Types, CursorRecord
  <2>3. pending \cup durable \subseteq UNION {Writes(c) : c \in Calls}
    BY DEF PendingShape, DurableShape, Ran, WriteAt, Writes
  <2>. QED
    BY <2>1, <2>2, <2>3 DEF TypeOK, Types
<1>. QED
  BY <1>1, InvariantHolds, PTL

\* A call that has returned has its writes in the database, if no other call's
\* statement failed and none was rolled back while it ran.
THEOREM AcknowledgedStays == Spec => []AcknowledgedIsDurable
<1>1. IInv => AcknowledgedIsDurable
  BY DEF IInv, Acknowledged, AcknowledgedIsDurable, AllDurable, WriteAt, Writes
<1>. QED
  BY <1>1, InvariantHolds, PTL

\* The writes of one call are durable together or not at all, if no other call
\* ended the transaction meanwhile; and none is left behind for a later commit.
THEOREM WritesLandTogether == Spec => []AllOrNothing
<1>1. IInv => WholeWrites
  <2> SUFFICES ASSUME IInv, NEW c \in Calls, Ended(c),
                      met[c] \cap {"commit", "rollback"} = {}
               PROVE  Writes(c) \cap durable \in {{}, Writes(c)}
    BY DEF WholeWrites
  <2>1. Settled(c)
    BY DEF IInv, Whole, Ended
  <2>. QED
    BY <2>1 DEF Settled, NoneDurable, AllDurable, WriteAt, Writes
<1>2. IInv => NothingLeftOpen
  BY DEF IInv, PendingShape, NothingLeftOpen, Running
<1>. QED
  BY <1>1, <1>2, InvariantHolds, PTL DEF AllOrNothing

\* A method acts on the rows its own statement found, unless another call has
\* stored its cursor meanwhile; with a cursor of its own it always does.
THEOREM OwnRowsAreRead == Spec => []AnswersAreOwn
<1>1. IInv => AnswersAreOwn
  BY DEF IInv, Reading, Undisturbed, AnswersAreOwn
<1>. QED
  BY <1>1, InvariantHolds, PTL
=============================================================================
