------------------------- MODULE ConnectionProperties -------------------------
(* What a store may promise its callers although they share a connection. *)
EXTENDS SharedConnection, FiniteSets

States == {"idle", "running", "undoing", "returned", "stopped", "raised", "gone"}
Events == {"keep", "commit", "rollback", "failure"}
Writes(c) == {<<c, i>> : i \in {j \in DOMAIN call[c].method :
                                  call[c].method[j].do = "write"}}
Ended(c) == call[c].state \in {"returned", "stopped", "raised", "gone"}

\* A call stays within its method, a cursor within its rows, and only rows that
\* some call has written are pending or durable.
TypeOK ==
    /\ store \in DOMAIN Methods
    /\ \A c \in Calls :
         /\ call[c].state \in States
         /\ call[c].method \in Methods[store] \cup {<<>>}
         /\ call[c].method # <<>> => call[c].at \in DOMAIN call[c].method
         /\ met[c] \subseteq Events
    /\ \A k \in Calls \cup {NoCall} : latest[k].rows \in 0..Many
    /\ pending \cup durable \subseteq UNION {Writes(c) : c \in Calls}
    /\ aborted => pending = {}

\* A call that returns has its writes in the database, even if others committed
\* some of them for it and the process stops right after: unless another call's
\* statement failed or was rolled back meanwhile.
AcknowledgedIsDurable ==
    \A c \in Calls :
        call[c].state = "returned" /\ met[c] \cap {"failure", "rollback"} = {}
            => Writes(c) \subseteq durable

\* The writes of one method, a role with its audit event, a question's session,
\* message and result, the grants of one approval, land together or not at all,
\* whatever fails or stops in between: unless another call ended the transaction
\* meanwhile.
WholeWrites ==
    \A c \in Calls :
        Ended(c) /\ met[c] \cap {"commit", "rollback"} = {}
            => Writes(c) \cap durable \in {{}, Writes(c)}

\* A call that raised, or stopped early, leaves nothing behind for a later
\* call's commit.
NothingLeftOpen == (\A c \in Calls : ~Running(c)) => pending = {}

AllOrNothing == WholeWrites /\ NothingLeftOpen

\* A method acts on the rows its own statement found, unless another call has
\* stored its cursor meanwhile; and one that uses the cursor execute returned
\* always does.
AnswersAreOwn ==
    \A c \in Calls :
        call[c].misread => "keep" \in met[c] /\ store \notin LocalCursor
=============================================================================
