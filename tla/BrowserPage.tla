----------------------------- MODULE BrowserPage -----------------------------
(***************************************************************************)
(* The chat page of the browser client (App.tsx) in front of the server:   *)
(* signing in and out, the thread of a session, new chats, the history     *)
(* panel and its resumed sessions, the files panel and its polling.        *)
(*                                                                         *)
(* Every handler runs to its await and goes on when the response is there. *)
(* Requests travel over connections of their own: the server may take them *)
(* in any order, answers overtake one another, and any request or answer   *)
(* may be lost.  Meanwhile the page stays operable: Ctrl-Enter submits even *)
(* while the button is disabled, the history panel covers the page for the *)
(* mouse only.                                                             *)
(*                                                                         *)
(* A question stands for its turn.  The server is what its handlers do for *)
(* this page; its own races are the matter of the other modules.           *)
(***************************************************************************)
EXTENDS Naturals, Sequences, FiniteSets

CONSTANTS
    People, Files,
    Sessions,   \* session ids newSessionId draws, in this order (bound)
    Acts,       \* clicks and submissions on the page at most (bound)
    Calls,      \* requests in flight at most (bound)
    Losses,     \* requests and answers lost at most (bound)
    HistoryPage,\* page_size of the history handler
    FilesPage,  \* page_size of the files handler
    Nobody

ASSUME BrowserPageAssumption ==
    /\ {Acts, Losses} \subseteq Nat
    /\ {Sessions, Calls, HistoryPage, FilesPage} \subseteq Nat \ {0}
    /\ Nobody \notin People

VARIABLES
    user,     \* token and userEmail
    session,  \* sessionId
    turns,    \* messages
    ticked,   \* selectedFileIds
    items,    \* historyItems
    open,     \* historyOpen
    listed,   \* files of the files panel, with their status
    calls,    \* requests in flight
    owner, status, later, \* the server: files, with those uploaded after each
    attached, log,        \* the server: session files, history
    drawn,    \* session ids drawn so far
    acts,     \* clicks and submissions so far
    losses,   \* requests and answers lost so far
    behind,   \* what the panel shows may lack a change (history)
    handed    \* the sessions on display when the page changed hands (history)

page == <<user, session, turns, ticked, items, open, listed>>
server == <<owner, status, later, attached, log>>
ghosts == <<drawn, behind, handed>>
vars == <<page, server, calls, ghosts, acts, losses>>

Slots == 1..Calls
Status == {"none", "processing", "ready", "failed"}
NoList == [f \in Files |-> "none"]

NoCall == [kind |-> "none", by |-> Nobody, session |-> 0, question |-> 0,
           files |-> {}, live |-> TRUE, phase |-> "free", result |-> "none",
           list |-> NoList, items |-> <<>>, before |-> {}, late |-> FALSE]

Turn(q, u, s, state, shows) ==
    [question |-> q, by |-> u, session |-> s, state |-> state, shows |-> shows]

Init ==
    /\ user = Nobody /\ turns = <<>> /\ ticked = {} /\ items = <<>> /\ open = FALSE
    /\ listed = NoList
    /\ calls = [k \in Slots |-> NoCall]
    /\ session = 1 /\ drawn = 1
    /\ owner = [f \in Files |-> Nobody] /\ status = [f \in Files |-> "none"]
    /\ later = [f \in Files |-> {}]
    /\ attached = [s \in 1..Sessions |-> {}] /\ log = <<>>
    /\ acts = 0 /\ losses = 0 /\ behind = FALSE /\ handed = {}

\* The positions in P, last first.
LastFirst(P) ==
    {at \in [1..Cardinality(P) -> P] : \A i, j \in DOMAIN at : i < j => at[i] > at[j]}

-----------------------------------------------------------------------------
(* Requests.                                                               *)

Idle(k) == calls[k].phase = "free"
HasSlot == \E k \in Slots : Idle(k)

\* fetch, with the token and session of the render its handler belongs to.
Sending(set, u, kind, q, files) ==
    LET k == CHOOSE j \in Slots : set[j].phase = "free"
    IN [set EXCEPT ![k] = [NoCall EXCEPT !.kind = kind, !.by = u, !.session = session,
                             !.question = q, !.files = files, !.phase = "sent"]]

Closed(k) == [j \in Slots |-> IF j = k THEN NoCall ELSE [calls[j] EXCEPT !.before = @ \ {k}]]

-----------------------------------------------------------------------------
(* Signing in and out.                                                     *)

\* handleLogin to handleLoginSuccess: nothing else of the page can be used
\* meanwhile.  The files panel is mounted and asks for its list.
SignIn(u) ==
    /\ user = Nobody /\ HasSlot
    /\ user' = u
    /\ calls' = Sending(calls, u, "list", 0, {})
    /\ behind' = FALSE
    /\ UNCHANGED <<session, turns, ticked, items, open, listed, server, drawn, handed, acts, losses>>

\* The panel forgets its requests; what they change on the server stays.
Unmounted ==
    [k \in Slots |-> IF calls[k].kind = "list" THEN NoCall
                     ELSE [calls[k] EXCEPT !.live = calls[k].kind \notin {"upload", "delete"}]]

\* handleLogout; the files panel is unmounted, whatever it still waits for.
SignOut ==
    /\ user # Nobody
    /\ user' = Nobody
    /\ turns' = <<>>
    /\ listed' = NoList
    /\ calls' = Unmounted
    /\ handed' = handed \cup {session}
    /\ UNCHANGED <<session, ticked, items, open, server, drawn, behind>>

-----------------------------------------------------------------------------
(* The thread.                                                             *)

StartNewChat ==
    /\ user # Nobody /\ turns # <<>>
    /\ drawn < Sessions /\ session' = drawn + 1 /\ drawn' = drawn + 1
    /\ turns' = <<>> /\ ticked' = {}
    /\ UNCHANGED <<user, items, open, listed, server, calls, behind, handed>>

SubmitQuestion ==
    /\ user # Nobody /\ HasSlot
    /\ turns' = Append(turns, Turn(acts + 1, user, session, "loading", 0))
    /\ calls' = Sending(calls, user, "ask", acts + 1, ticked)
    /\ UNCHANGED <<user, session, ticked, items, open, listed, server, drawn, behind, handed>>

OpenHistory ==
    /\ user # Nobody /\ HasSlot /\ ~open
    /\ open' = TRUE
    /\ calls' = Sending(calls, user, "history", 0, {})
    /\ UNCHANGED <<user, session, turns, ticked, items, listed, server, ghosts>>

CloseHistory ==
    /\ user # Nobody /\ open
    /\ open' = FALSE
    /\ UNCHANGED <<user, session, turns, ticked, items, listed, calls, server, ghosts>>

\* Mutant: the thread on display stays above the resumed one.
Resume_Appends(s) ==
    LET mine == {i \in DOMAIN items : items[i].session = s} IN
    /\ user # Nobody /\ open /\ mine # {}
    /\ session' = s
    /\ \E at \in LastFirst(mine) : turns' = turns \o [i \in DOMAIN at |-> items[at[i]]]
    /\ ticked' = {} /\ open' = FALSE
    /\ handed' = handed \cup {t \in {s} : \E i \in mine : items[i].by # user}
    /\ UNCHANGED <<user, items, listed, calls, server, drawn, behind>>

\* resumeHistorySession: items are newest first.
Resume(s) ==
    LET mine == {i \in DOMAIN items : items[i].session = s} IN
    /\ user # Nobody /\ open /\ mine # {}
    /\ session' = s
    /\ \E at \in LastFirst(mine) : turns' = [i \in DOMAIN at |-> items[at[i]]]
    /\ ticked' = {} /\ open' = FALSE
    /\ handed' = handed \cup {t \in {s} : \E i \in mine : items[i].by # user}
    /\ UNCHANGED <<user, items, listed, calls, server, drawn, behind>>

-----------------------------------------------------------------------------
(* The files panel.                                                        *)

\* Mutant: a file can be ticked while it is processed.
Toggle_Listed(f) ==
    /\ user # Nobody /\ listed[f] # "none"
    /\ ticked' = IF f \in ticked THEN ticked \ {f} ELSE ticked \cup {f}
    /\ UNCHANGED <<user, session, turns, items, open, listed, server, calls, ghosts>>

Toggle(f) ==
    /\ user # Nobody /\ listed[f] = "ready"
    /\ ticked' = IF f \in ticked THEN ticked \ {f} ELSE ticked \cup {f}
    /\ UNCHANGED <<user, session, turns, items, open, listed, server, calls, ghosts>>

Upload(f) ==
    /\ user # Nobody /\ HasSlot /\ owner[f] = Nobody
    /\ \A k \in Slots : ~(calls[k].kind = "upload" /\ f \in calls[k].files)
    /\ calls' = Sending(calls, user, "upload", 0, {f})
    /\ UNCHANGED <<page, server, ghosts>>

Delete(f) ==
    /\ user # Nobody /\ HasSlot /\ listed[f] # "none"
    /\ calls' = Sending(calls, user, "delete", 0, {f})
    /\ UNCHANGED <<page, server, ghosts>>

\* The interval runs while a listed file is neither ready nor failed.
PollDue == user # Nobody /\ \E f \in Files : listed[f] = "processing"

Poll ==
    /\ PollDue /\ HasSlot
    /\ calls' = Sending(calls, user, "list", 0, {})
    /\ UNCHANGED <<page, server, ghosts, acts, losses>>

-----------------------------------------------------------------------------
(* The server.                                                             *)

\* list_by_owner, newest first, one page of it: the panel asks for no other.
\* No two files have one name, so none supersedes another.
Visible(u) ==
    LET kept == {f \in Files : owner[f] = u /\ status[f] # "none"} IN
    [f \in Files |-> IF f \in kept /\ Cardinality(kept \cap later[f]) < FilesPage
                     THEN status[f] ELSE "none"]

\* The background task of an upload.
Process(f) ==
    /\ status[f] = "processing"
    /\ status' = [status EXCEPT ![f] = "ready"] \/ status' = [status EXCEPT ![f] = "failed"]
    /\ UNCHANGED <<page, owner, later, attached, log, calls, ghosts, acts, losses>>

Served(k, result) == [calls EXCEPT ![k].phase = "served", ![k].result = result]

\* chat_query_v2: the files of the question, or else of the session, must be
\* the asker's and ready.  A question that got past that is answered or denied,
\* and in the history; or it fails and is not in it.  Nor is one whose SQL over
\* its files the guardrail blocks, which the page takes for answered.
ServeAsk(k) ==
    LET c == calls[k]
        files == IF c.files # {} THEN c.files ELSE attached[c.session]
        Saved(state, shows) == log' = Append(log, Turn(c.question, c.by, c.session, state, shows))
    IN
    /\ c.kind = "ask"
    /\ attached' = [attached EXCEPT ![c.session] = files]
    /\ IF \E f \in files : owner[f] # c.by \/ status[f] # "ready"
       THEN UNCHANGED log /\ calls' = Served(k, "refused")
       ELSE \/ Saved("answered", c.question) /\ calls' = Served(k, "done")
            \/ Saved("error", 0) /\ calls' = Served(k, "failed")
            \/ UNCHANGED log /\ calls' = Served(k, "failed")
            \/ files # {} /\ UNCHANGED log /\ calls' = Served(k, "done")
    /\ UNCHANGED <<owner, status, later>>

\* chat_history_v2, newest first, one page of it.
ServeHistory(k) ==
    LET mine == {i \in DOMAIN log : log[i].by = calls[k].by}
        shown == IF Cardinality(mine) < HistoryPage THEN Cardinality(mine) ELSE HistoryPage
    IN
    /\ calls[k].kind = "history"
    /\ \E at \in LastFirst(mine) :
         calls' = [Served(k, "done") EXCEPT ![k].items = [i \in 1..shown |-> log[at[i]]]]
    /\ UNCHANGED server

\* list_files_v2.  The lists served before this one are older than it.
ServeList(k) ==
    /\ calls[k].kind = "list"
    /\ calls' = [Served(k, "done") EXCEPT
                   ![k].list = Visible(calls[k].by),
                   ![k].before = {j \in Slots : calls[j].kind = "list" /\ calls[j].phase = "served"}]
    /\ UNCHANGED server

\* upload_file_v2.
ServeUpload(k) ==
    /\ calls[k].kind = "upload"
    /\ \A f \in calls[k].files :
         /\ owner' = [owner EXCEPT ![f] = calls[k].by]
         /\ status' = [status EXCEPT ![f] = "processing"]
         /\ later' = [g \in Files |-> IF owner[g] = Nobody THEN later[g]
                                       ELSE later[g] \cup {f}]
    /\ calls' = Served(k, "done")
    /\ UNCHANGED <<attached, log>>

\* delete_file_v2; the page does not look at what it answers.
ServeDelete(k) ==
    /\ calls[k].kind = "delete"
    /\ status' = [f \in Files |-> IF f \in calls[k].files /\ owner[f] = calls[k].by
                                  THEN "none" ELSE status[f]]
    /\ calls' = Served(k, "done")
    /\ UNCHANGED <<owner, later, attached, log>>

Serve(k) ==
    /\ calls[k].phase = "sent"
    /\ ServeAsk(k) \/ ServeHistory(k) \/ ServeList(k) \/ ServeUpload(k) \/ ServeDelete(k)
    /\ UNCHANGED <<page, ghosts, acts, losses>>

-----------------------------------------------------------------------------
(* Answers.                                                                *)

\* Mutant: the answer goes to the last turn.
Answered_Last(q, state, shows) ==
    [i \in DOMAIN turns |->
       IF i = Len(turns) THEN [turns[i] EXCEPT !.state = state, !.shows = shows] ELSE turns[i]]

\* setMessages: the turn the question was asked with, if it is still there; a
\* resumed turn of the same question has another id.
Answered(q, state, shows) ==
    [i \in DOMAIN turns |->
       IF turns[i].question = q /\ turns[i].state = "loading"
       THEN [turns[i] EXCEPT !.state = state, !.shows = shows] ELSE turns[i]]

\* lost: no response, or one that is not ok (a rate limit, a refused upload).
AskAnswered(k, lost) ==
    /\ calls[k].kind = "ask"
    /\ turns' = IF lost \/ calls[k].result # "done" THEN Answered(calls[k].question, "error", 0)
                ELSE Answered(calls[k].question, "answered", calls[k].question)
    /\ calls' = Closed(k)
    /\ UNCHANGED <<items, listed, behind>>

\* The list goes up wherever it comes from; an error keeps the last one.
HistoryAnswered(k, lost) ==
    /\ calls[k].kind = "history"
    /\ items' = IF lost THEN items ELSE calls[k].items
    /\ calls' = Closed(k)
    /\ UNCHANGED <<turns, listed, behind>>

\* History: no list that is already on its way shows what call k did or saw.
Missed(k) ==
    /\ behind' = TRUE
    /\ calls' = [j \in Slots |->
                   [Closed(k)[j] EXCEPT !.late = @ \/ (calls[j].kind = "list" /\ calls[j].phase = "served")]]

ListAnswered(k, lost) ==
    /\ calls[k].kind = "list"
    /\ IF lost THEN listed' = listed /\ Missed(k)
       ELSE /\ listed' = calls[k].list
            /\ behind' = calls[k].late
            /\ calls' = [j \in Slots |-> [Closed(k)[j] EXCEPT !.late = @ \/ j \in calls[k].before]]
    /\ UNCHANGED <<turns, items>>

\* Mutant: a deleted file is taken off the list at hand instead.
ChangeAnswered_Local(k, lost) ==
    /\ calls[k].kind \in {"upload", "delete"}
    /\ IF lost \/ ~calls[k].live THEN Missed(k) /\ UNCHANGED listed
       ELSE IF calls[k].kind = "upload"
       THEN calls' = Sending(Closed(k), user, "list", 0, {}) /\ UNCHANGED <<listed, behind>>
       ELSE /\ listed' = [f \in Files |-> IF f \in calls[k].files THEN "none" ELSE listed[f]]
            /\ calls' = Closed(k)
            /\ UNCHANGED behind
    /\ UNCHANGED <<turns, items>>

\* After an upload or a deletion the panel asks for its list, with the token
\* it was mounted with; not so after an error.
ChangeAnswered(k, lost) ==
    /\ calls[k].kind \in {"upload", "delete"}
    /\ IF lost \/ ~calls[k].live THEN Missed(k)
       ELSE calls' = Sending(Closed(k), user, "list", 0, {}) /\ UNCHANGED behind
    /\ UNCHANGED <<turns, items, listed>>

Answer(k, lost) ==
    /\ calls[k].phase = "served" \/ (lost /\ calls[k].phase = "sent")
    /\ \/ AskAnswered(k, lost) \/ HistoryAnswered(k, lost)
       \/ ListAnswered(k, lost) \/ ChangeAnswered(k, lost)
    /\ IF lost THEN losses < Losses /\ losses' = losses + 1 ELSE UNCHANGED losses
    /\ UNCHANGED <<user, session, ticked, open, server, drawn, handed, acts>>

-----------------------------------------------------------------------------
PersonActs ==
    /\ acts < Acts /\ acts' = acts + 1 /\ UNCHANGED losses
    /\ \/ SignOut \/ StartNewChat \/ SubmitQuestion \/ OpenHistory \/ CloseHistory
       \/ \E s \in 1..drawn : Resume(s)
       \/ \E f \in Files : Toggle(f) \/ Upload(f) \/ Delete(f)

Next ==
    \/ \E u \in People : SignIn(u)
    \/ PersonActs \/ Poll
    \/ \E f \in Files : Process(f)
    \/ \E k \in Slots : Serve(k) \/ \E lost \in BOOLEAN : Answer(k, lost)

Spec == Init /\ [][Next]_vars
=============================================================================
