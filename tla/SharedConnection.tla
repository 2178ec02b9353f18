--------------------------- MODULE SharedConnection ---------------------------
(***************************************************************************)
(* A Postgres store and its one psycopg connection, used by every thread   *)
(* of the process.  The connection runs one statement at a time, in one    *)
(* open transaction that whoever calls commit ends for all; a statement    *)
(* that fails aborts it until the next commit or rollback.  The adapters   *)
(* keep the cursor of the latest execute in one slot, assigned after the   *)
(* connection has been released, and every fetch reads that slot.          *)
(***************************************************************************)
EXTENDS StoreMethods

CONSTANTS
    Calls,  \* calls of store methods, each in a thread (bound)
    NoCall

ASSUME SharedConnectionAssumption == NoCall \notin Calls

VARIABLES
    store,   \* the store whose connection this is
    call,    \* per call: its method, the statement it is at, its locals
    latest,  \* _latest_cursor; per call where the method keeps its own
    pending, \* the writes of the open transaction
    aborted, \* the transaction has failed
    durable, \* the writes committed
    met      \* per call: what other calls did while it ran (history)

vars == <<store, call, latest, pending, aborted, durable, met>>

\* A cursor knows the statement that made it and has rows left to fetch.
Cursor(c, at, table, rows) == [of |-> <<c, at>>, table |-> table, rows |-> rows]
NoTable == "no table"
SchemaCursor == Cursor(NoCall, 0, NoTable, 0)
NoCursor == Cursor(NoCall, 0, NoTable, Many + 1)

Idle == [state |-> "idle", method |-> <<>>, at |-> 1, held |-> NoCursor,
         misread |-> FALSE]

Running(c) == call[c].state \in {"running", "undoing"}
Statement(c) == call[c].method[call[c].at]
At(c, kinds) ==
    /\ call[c].state = "running"
    /\ call[c].held = NoCursor
    /\ Statement(c).do \in kinds
Slot(c) == IF store \in LocalCursor THEN c ELSE NoCall

Others(c, event) ==
    met' = [d \in Calls |-> IF d # c /\ Running(d) THEN met[d] \cup {event} ELSE met[d]]

\* The record of call c when it has ended, and after a statement that went well.
End(c, how) == [call[c] EXCEPT !.state = how, !.at = 1, !.held = NoCursor]
Onward(c) ==
    IF call[c].at = Len(call[c].method)
    THEN End(c, "returned") ELSE [call[c] EXCEPT !.at = @ + 1, !.held = NoCursor]

Raise(c, how) == call' = [call EXCEPT ![c] = End(c, how)]

Begin(c) ==
    /\ call[c].state = "idle"
    /\ \E m \in Methods[store] :
         call' = [call EXCEPT ![c].state = "running", ![c].method = m]
    /\ UNCHANGED <<store, latest, pending, aborted, durable, met>>

\* In an aborted transaction every statement raises; the slot stays as it is.
ExecuteAborted(c) ==
    /\ At(c, {"select", "write"})
    /\ aborted
    /\ Raise(c, IF Statement(c).do = "write" /\ Statement(c).undo THEN "undoing"
                                                                  ELSE "raised")
    /\ UNCHANGED <<store, latest, pending, aborted, durable, met>>

ExecuteSelect(c) ==
    /\ At(c, {"select"})
    /\ ~aborted
    /\ \E n \in 0..Statement(c).most :
         call' = [call EXCEPT ![c].held = Cursor(c, call[c].at, Statement(c).table, n)]
    /\ UNCHANGED <<store, latest, pending, aborted, durable, met>>

ExecuteWrite(c) ==
    /\ At(c, {"write"})
    /\ ~aborted
    /\ pending' = pending \cup {<<c, call[c].at>>}
    /\ call' = [call EXCEPT ![c].held = Cursor(c, call[c].at, NoTable, 0)]
    /\ UNCHANGED <<store, latest, aborted, durable, met>>

\* Mutant: only the refused statement is undone.
ExecuteRefused_KeepsOthers(c) ==
    /\ At(c, {"write"})
    /\ ~aborted
    /\ Statement(c).checked
    /\ aborted' = TRUE
    /\ Raise(c, IF Statement(c).undo THEN "undoing" ELSE "raised")
    /\ Others(c, "failure")
    /\ UNCHANGED <<store, latest, pending, durable>>

\* A unique index or a foreign key refuses the row: nothing of the open
\* transaction, whoever wrote it, can be committed any more.
ExecuteRefused(c) ==
    /\ At(c, {"write"})
    /\ ~aborted
    /\ Statement(c).checked
    /\ aborted' = TRUE
    /\ pending' = {}
    /\ Raise(c, IF Statement(c).undo THEN "undoing" ELSE "raised")
    /\ Others(c, "failure")
    /\ UNCHANGED <<store, latest, durable>>

\* Mutant: the slot is assigned only when there are rows.
KeepCursor_OnlyRows(c) ==
    /\ call[c].state = "running"
    /\ call[c].held # NoCursor
    /\ latest' = IF call[c].held.rows > 0
                 THEN [latest EXCEPT ![Slot(c)] = call[c].held] ELSE latest
    /\ call' = [call EXCEPT ![c] = Onward(c)]
    /\ Others(c, "keep")
    /\ UNCHANGED <<store, pending, aborted, durable>>

KeepCursor(c) ==
    /\ call[c].state = "running"
    /\ call[c].held # NoCursor
    /\ latest' = [latest EXCEPT ![Slot(c)] = call[c].held]
    /\ call' = [call EXCEPT ![c] = Onward(c)]
    /\ Others(c, "keep")
    /\ UNCHANGED <<store, pending, aborted, durable>>

\* What a fetch takes, and whether it is of another statement than its own.
Took(c, n) == latest' = [latest EXCEPT ![Slot(c)].rows = @ - n]
Misread(c) == call[c].misread \/ latest[Slot(c)].of # <<c, call[c].at - 1>>

\* The cursor of a write has no result, and a row of another table does not
\* convert.
FetchFails(c) ==
    /\ At(c, {"fetchone", "fetchall", "drain"})
    /\ LET cursor == latest[Slot(c)] IN
         /\ cursor.table # Statement(c).table
         /\ cursor.table = NoTable \/ cursor.rows > 0
         /\ Took(c, CASE cursor.rows = 0 -> 0
                      [] Statement(c).do = "fetchall" -> cursor.rows
                      [] OTHER -> 1)
    /\ call' = [call EXCEPT ![c] = [End(c, "raised") EXCEPT !.misread = Misread(c)]]
    /\ UNCHANGED <<store, pending, aborted, durable, met>>

FetchNone(c) ==
    /\ At(c, {"fetchone", "fetchall", "drain"})
    /\ latest[Slot(c)].table # NoTable
    /\ latest[Slot(c)].rows = 0
    /\ \/ /\ Statement(c).do = "fetchone" => "none" \in Statement(c).on
          /\ call' = [call EXCEPT ![c] = [Onward(c) EXCEPT !.misread = Misread(c)]]
       \/ /\ Statement(c).do = "fetchone" /\ "none" \in Statement(c).off
          /\ call' = [call EXCEPT ![c] = [End(c, "stopped") EXCEPT !.misread = Misread(c)]]
    /\ UNCHANGED <<store, latest, pending, aborted, durable, met>>

FetchRow(c) ==
    /\ At(c, {"fetchone", "drain"})
    /\ latest[Slot(c)].table = Statement(c).table
    /\ latest[Slot(c)].rows > 0
    /\ Took(c, 1)
    /\ \/ /\ Statement(c).do = "drain"
          /\ call' = [call EXCEPT ![c].misread = Misread(c)]
       \/ /\ Statement(c).do = "fetchone" /\ "row" \in Statement(c).on
          /\ call' = [call EXCEPT ![c] = [Onward(c) EXCEPT !.misread = Misread(c)]]
       \/ /\ Statement(c).do = "fetchone" /\ "row" \in Statement(c).off
          /\ call' = [call EXCEPT ![c] = [End(c, "stopped") EXCEPT !.misread = Misread(c)]]
    /\ UNCHANGED <<store, pending, aborted, durable, met>>

FetchRows(c) ==
    /\ At(c, {"fetchall"})
    /\ latest[Slot(c)].table = Statement(c).table
    /\ latest[Slot(c)].rows > 0
    /\ Took(c, latest[Slot(c)].rows)
    /\ call' = [call EXCEPT ![c] = [Onward(c) EXCEPT !.misread = Misread(c)]]
    /\ UNCHANGED <<store, pending, aborted, durable, met>>

\* Everybody's writes become durable.  Of an aborted transaction there are
\* none: the server rolls back, and commit() does not say so.
CommitAll(c) ==
    /\ At(c, {"commit"})
    /\ durable' = durable \cup pending
    /\ pending' = {}
    /\ aborted' = FALSE
    /\ call' = [call EXCEPT ![c] = Onward(c)]
    /\ Others(c, "commit")
    /\ UNCHANGED <<store, latest>>

Rollback(c) ==
    /\ call[c].state = "undoing"
    /\ pending' = {}
    /\ aborted' = FALSE
    /\ Raise(c, "raised")
    /\ Others(c, "rollback")
    /\ UNCHANGED <<store, latest, durable>>

\* The process stops; the server rolls back what its connection left open.
Restart ==
    /\ call' = [c \in Calls |-> IF Running(c) THEN End(c, "gone") ELSE call[c]]
    /\ latest' = [k \in Calls \cup {NoCall} |-> SchemaCursor]
    /\ pending' = {}
    /\ aborted' = FALSE
    /\ UNCHANGED <<store, durable, met>>

Init ==
    /\ store \in DOMAIN Methods
    /\ call = [c \in Calls |-> Idle]
    /\ latest = [k \in Calls \cup {NoCall} |-> SchemaCursor]
    /\ pending = {}
    /\ aborted = FALSE
    /\ durable = {}
    /\ met = [c \in Calls |-> {}]

Step(c) ==
    \/ Begin(c)
    \/ ExecuteAborted(c) \/ ExecuteSelect(c) \/ ExecuteWrite(c) \/ ExecuteRefused(c)
    \/ KeepCursor(c)
    \/ FetchFails(c) \/ FetchNone(c) \/ FetchRow(c) \/ FetchRows(c)
    \/ CommitAll(c) \/ Rollback(c)

Next == (\E c \in Calls : Step(c)) \/ Restart

Spec == Init /\ [][Next]_vars
=============================================================================
