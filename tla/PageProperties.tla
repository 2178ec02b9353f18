--------------------------- MODULE PageProperties ---------------------------
(***************************************************************************)
(* What the chat page owes the person in front of it, for BrowserPage.     *)
(***************************************************************************)
EXTENDS BrowserPage

\* The state of the page and of the server has its types, a slot is taken
\* exactly while its request is on its way, and no two turns on display
\* share the id by which their answers find them (App.tsx, submitQuestion).
TypeOK ==
    /\ user \in People \cup {Nobody} /\ session \in 1..drawn /\ drawn <= Sessions
    /\ ticked \subseteq Files /\ open \in BOOLEAN /\ behind \in BOOLEAN
    /\ handed \subseteq 1..drawn /\ acts <= Acts /\ losses <= Losses
    /\ listed \in [Files -> Status] /\ status \in [Files -> Status]
    /\ owner \in [Files -> People \cup {Nobody}] /\ later \in [Files -> SUBSET Files]
    /\ \A k \in Slots : calls[k].by # Nobody <=> ~Idle(k)
    /\ \A i, j \in DOMAIN turns : turns[i].question = turns[j].question => i = j

\* FR-FV10-054 and FR-FV10-055: whatever answers arrive late, and whatever
\* chats are begun, resumed or left meanwhile, the thread on display is of
\* the session the next question goes to and of the person signed in, and
\* every answer stands under its own question.  A session that was on
\* display when the page changed hands may show the former person's turns:
\* handleLogout keeps sessionId and historyItems.
TurnsBelong ==
    \A i \in DOMAIN turns :
        /\ turns[i].session = session
        /\ turns[i].by = user \/ session \in handed
        /\ turns[i].state = "answered" => turns[i].shows = turns[i].question

\* The files panel comes to rest on the truth: once nothing is on its way and
\* nothing is left to poll for, it shows the newest page of the person's files
\* as the server has them, whichever uploads pushed older files off the page
\* and deletions brought them back; unless a refresh or the answer to a change
\* was lost, or a refresh was overtaken by one the server answered later
\* (FilesPanel: refresh swallows its errors, does not number its requests and
\* asks for the first page only).
ListSettles ==
    /\ user # Nobody /\ ~PollDue
    /\ \A k \in Slots : calls[k].kind \in {"none", "ask", "history"}
    => listed = Visible(user) \/ behind

\* A person is refused a question for its files only after a file was
\* deleted under the question (handleDelete leaves it ticked, and the server
\* in its session), or in a session that was handed over; never for a file
\* not ready, of another person, or left from another chat.
RefusalsAreExplained ==
    [][\A k \in Slots :
         /\ calls[k].kind = "ask" /\ calls[k].result # "refused"
         /\ calls'[k].result = "refused"
         => \/ calls[k].session \in handed
            \/ \E f \in attached'[calls[k].session] :
                 owner[f] = calls[k].by /\ status[f] = "none"]_vars
=============================================================================
