----------------------------- MODULE PageProofs -----------------------------
(***************************************************************************)
(* Proofs about BrowserPage, for every number of people, files, sessions,  *)
(* clicks, requests in flight and losses.                                  *)
(*                                                                         *)
(* Any request may still be on its way whatever the page did meanwhile, so *)
(* the invariant Belonging says of each what it will do to the page when   *)
(* its answer comes: it has parts about turns (Threads), about whose the   *)
(* page is (Hands), about sessions (OneHand), about lists of files (Lists) *)
(* and about what the files panel still waits for (Settling).              *)
(***************************************************************************)
EXTENDS PageProperties, FiniteSetTheorems, SequenceTheorems, TLAPS

Kinds == {"none", "ask", "history", "list", "upload", "delete"}

TurnRec == [question : Nat, by : People, session : 1..Sessions,
            state : {"loading", "answered", "error"}, shows : Nat]

CallRec ==
    [kind : Kinds, by : People \cup {Nobody}, session : 0..Sessions,
     question : Nat, files : SUBSET Files, live : BOOLEAN,
     phase : {"free", "sent", "served"},
     result : {"none", "done", "refused", "failed"},
     list : [Files -> Status], items : Seq(TurnRec),
     before : SUBSET Slots, late : BOOLEAN]

\* A slot is free when it holds no request; a question is one that was asked.
CallShaped(k) ==
    /\ calls[k].kind = "none" <=> calls[k].phase = "free"
    /\ calls[k].kind = "none" <=> calls[k].by = Nobody
    /\ calls[k].kind = "ask" =>
         calls[k].session \in 1..drawn /\ calls[k].question <= acts

Shape ==
    /\ user \in People \cup {Nobody} /\ drawn \in 1..Sessions /\ session \in 1..drawn
    /\ ticked \subseteq Files /\ open \in BOOLEAN /\ behind \in BOOLEAN
    /\ handed \subseteq 1..drawn /\ acts \in 0..Acts /\ losses \in 0..Losses
    /\ listed \in [Files -> Status] /\ status \in [Files -> Status]
    /\ owner \in [Files -> People \cup {Nobody}] /\ later \in [Files -> SUBSET Files]
    /\ attached \in [1..Sessions -> SUBSET Files]
    /\ \A s \in 1..Sessions : s > drawn => attached[s] = {}
    /\ calls \in [Slots -> CallRec]
    /\ \A k \in Slots : CallShaped(k)

\* Turns, on display or in a history: each of one of n questions, which it
\* shares with no other, asked in one of d sessions, and with its own answer.
Thread(ts, n, d) ==
    /\ ts \in Seq(TurnRec)
    /\ \A i \in DOMAIN ts :
         /\ ts[i].question <= n /\ ts[i].session <= d
         /\ ts[i].state = "answered" => ts[i].shows = ts[i].question
    /\ \A i, j \in DOMAIN ts : ts[i].question = ts[j].question => i = j

\* And no two requests on their way ask the same question, nor one that the
\* history has already.
Threads ==
    /\ Thread(turns, acts, drawn) /\ Thread(items, acts, drawn) /\ Thread(log, acts, drawn)
    /\ \A k \in Slots : Thread(calls[k].items, acts, drawn)
    /\ \A j, k \in Slots : calls[j].kind = "ask" /\ calls[k].kind = "ask" /\
         calls[j].question = calls[k].question => j = k
    /\ \A k \in Slots : calls[k].kind = "ask" /\ calls[k].phase = "sent" =>
         \A i \in DOMAIN log : log[i].question # calls[k].question

\* What is on display is of this session and, unless the session was handed
\* over, of this person; nobody's page is empty, and what the files panel
\* waits for is of the person it was mounted for.
Hands ==
    /\ \A i \in DOMAIN turns :
         /\ turns[i].session = session
         /\ turns[i].by = user \/ session \in handed
    /\ user = Nobody => turns = <<>> /\ listed = NoList
    /\ \A k \in Slots :
         calls[k].kind = "list" \/ (calls[k].kind \in {"upload", "delete"} /\ calls[k].live)
           => calls[k].by = user

\* A file that person u may ask about, or that has been deleted.
Own(u, f) == u # Nobody /\ owner[f] = u /\ status[f] \in {"ready", "none"}

\* A list of files that u was shown: of files of u, and ready only if they are.
Shown(u, list) ==
    \A f \in Files : list[f] # "none" =>
        owner[f] = u /\ (list[f] = "ready" => status[f] \in {"ready", "none"})

\* A file is uploaded once.
Lists ==
    /\ Shown(user, listed)
    /\ \A k \in Slots : calls[k].kind = "list" /\ calls[k].phase = "served" =>
         Shown(user, calls[k].list)
    /\ \A k \in Slots : calls[k].kind = "upload" =>
         /\ \E f \in Files : calls[k].files = {f}
         /\ calls[k].phase = "sent" => \A f \in calls[k].files : owner[f] = Nobody
    /\ \A j, k \in Slots : calls[j].kind = "upload" /\ calls[k].kind = "upload" /\ j # k =>
         calls[j].files \cap calls[k].files = {}

\* What requests know of session s is of person u.
CallBelongs(k, s, u) ==
    /\ calls[k].kind = "ask" /\ calls[k].session = s =>
         calls[k].by = u /\ \A f \in calls[k].files : Own(u, f)
    /\ \A i \in DOMAIN calls[k].items :
         calls[k].items[i].session = s => calls[k].items[i].by = u

\* All there is of session s is of person u.
BelongsTo(s, u) ==
    /\ session = s => user = u /\ \A f \in ticked : Own(u, f)
    /\ \A f \in attached[s] : Own(u, f)
    /\ \A i \in DOMAIN log : log[i].session = s => log[i].by = u
    /\ \A i \in DOMAIN items : items[i].session = s => items[i].by = u
    /\ \A k \in Slots : CallBelongs(k, s, u)

\* A session that was never handed over is one person's.
OneHand ==
    \A s \in 1..Sessions :
        s \in handed \/ \E u \in People \cup {Nobody} : BelongsTo(s, u)

\* A list that will be right without asking again, but for what is polled for.
Current(list) ==
    \A f \in Files : list[f] = Visible(user)[f] \/ list[f] = "processing"

\* The answer to a change is on its way, or a request for the list.
Changed == \E k \in Slots : calls[k].kind \in {"upload", "delete"} /\ calls[k].phase = "served"
Asked == \E k \in Slots : calls[k].kind = "list" /\ calls[k].phase = "sent"

\* List j was served after list k, and is on its way as well.
Newer(j, k) ==
    /\ j # k /\ calls[j].kind = "list" /\ calls[j].phase = "served"
    /\ k \in calls[j].before

\* The files panel is right, or will be refreshed.
Settling ==
    user # Nobody =>
    /\ behind \/ Current(listed) \/ Changed \/ \E k \in Slots : calls[k].kind = "list"
    /\ \A k \in Slots : calls[k].kind = "list" /\ calls[k].phase = "served" =>
         \/ calls[k].late \/ Current(calls[k].list) \/ Changed \/ Asked
         \/ \E j \in Slots : Newer(j, k)

Belonging == Shape /\ Threads /\ Hands /\ Lists /\ OneHand /\ Settling

-----------------------------------------------------------------------------
(* Requests.                                                               *)

LEMMA NoCallIs ==
    /\ NoCall \in CallRec
    /\ NoCall.kind = "none" /\ NoCall.by = Nobody /\ NoCall.phase = "free"
    /\ NoCall.items = <<>> /\ NoCall.before = {} /\ ~NoCall.late
    /\ NoCall.result = "none" /\ NoCall.live /\ NoCall.list = NoList
    /\ NoCall.session = 0 /\ NoCall.question = 0 /\ NoCall.files = {}
<1>1. <<>> \in Seq(TurnRec)
  OBVIOUS
<1>2. NoList \in [Files -> Status]
  BY DEF NoList, Status
<1>. QED
  BY <1>1, <1>2, BrowserPageAssumption DEF NoCall, CallRec, Kinds

\* What fetch puts on its way.
NewCall(c, u, kind, q, files) ==
    /\ c \in CallRec /\ c.kind = kind /\ c.by = u /\ c.session = session
    /\ c.question = q /\ c.files = files /\ c.live /\ c.phase = "sent"
    /\ c.result = "none" /\ c.items = <<>> /\ c.before = {} /\ ~c.late

LEMMA SendIs ==
    ASSUME NEW set \in [Slots -> CallRec], NEW u \in People,
           NEW kind \in Kinds \ {"none"}, NEW q \in Nat, NEW files \in SUBSET Files,
           session \in 0..Sessions, \E k \in Slots : set[k].phase = "free"
    PROVE  \E k \in Slots, c \in CallRec :
             /\ set[k].phase = "free"
             /\ Sending(set, u, kind, q, files) = [set EXCEPT ![k] = c]
             /\ NewCall(c, u, kind, q, files)
<1> DEFINE k == CHOOSE j \in Slots : set[j].phase = "free"
           c == [NoCall EXCEPT !.kind = kind, !.by = u, !.session = session,
                   !.question = q, !.files = files, !.phase = "sent"]
<1>1. k \in Slots /\ set[k].phase = "free"
  OBVIOUS
<1>2. c \in CallRec
  BY NoCallIs DEF CallRec
<1>3. NewCall(c, u, kind, q, files)
  BY <1>2, NoCallIs DEF NewCall, CallRec
<1>4. Sending(set, u, kind, q, files) = [set EXCEPT ![k] = c]
  BY DEF Sending
<1> HIDE DEF k, c
<1>. QED
  BY <1>1, <1>2, <1>3, <1>4

\* How a step changes the requests: k is put in a free slot;
Sends(k, c, kind, q, files) ==
    /\ calls[k].phase = "free" /\ calls' \in [Slots -> CallRec] /\ calls'[k] = c
    /\ NewCall(c, user', kind, q, files)
    /\ \A j \in Slots : j # k => calls'[j] = calls[j]

\* k is served;
Serves(k) ==
    /\ calls[k].phase = "sent" /\ calls' \in [Slots -> CallRec]
    /\ calls'[k].phase = "served"
    /\ calls'[k].kind = calls[k].kind /\ calls'[k].by = calls[k].by
    /\ calls'[k].session = calls[k].session /\ calls'[k].live = calls[k].live
    /\ calls'[k].question = calls[k].question /\ calls'[k].files = calls[k].files
    /\ calls'[k].late = calls[k].late
    /\ \A j \in Slots : j # k => calls'[j] = calls[j]

\* k is over, and the others are as before, but for what they say about k.
Stays(j) ==
    /\ calls'[j].kind = calls[j].kind /\ calls'[j].by = calls[j].by
    /\ calls'[j].session = calls[j].session /\ calls'[j].live = calls[j].live
    /\ calls'[j].question = calls[j].question /\ calls'[j].files = calls[j].files
    /\ calls'[j].phase = calls[j].phase /\ calls'[j].result = calls[j].result
    /\ calls'[j].list = calls[j].list /\ calls'[j].items = calls[j].items
    /\ calls[j].late => calls'[j].late

Emptied(k) ==
    /\ calls'[k].kind = "none" /\ calls'[k].by = Nobody /\ calls'[k].phase = "free"
    /\ calls'[k].items = <<>> /\ calls'[k].result = "none"

Closes(k) ==
    /\ calls' \in [Slots -> CallRec] /\ Emptied(k)
    /\ \A j \in Slots : j # k =>
         Stays(j) /\ calls'[j].before = calls[j].before \ {k}

\* k is over, and slot m takes a new request.
ClosesAndAsks(k, m, c) ==
    /\ calls' \in [Slots -> CallRec] /\ calls'[m] = c
    /\ NewCall(c, user', "list", 0, {})
    /\ m # k => calls[m].phase = "free" /\ Emptied(k)
    /\ \A j \in Slots : j \notin {k, m} =>
         Stays(j) /\ calls'[j].before = calls[j].before \ {k}

\* The fields of a request that closing another one leaves alone.
SameCall(c, d) ==
    /\ d.kind = c.kind /\ d.by = c.by /\ d.session = c.session /\ d.live = c.live
    /\ d.question = c.question /\ d.files = c.files /\ d.phase = c.phase
    /\ d.result = c.result /\ d.list = c.list /\ d.items = c.items

LEMMA ClosedIs ==
    ASSUME calls \in [Slots -> CallRec], NEW k \in Slots
    PROVE  /\ Closed(k) \in [Slots -> CallRec] /\ Closed(k)[k] = NoCall
           /\ \A j \in Slots : j # k =>
                /\ SameCall(calls[j], Closed(k)[j])
                /\ Closed(k)[j].late = calls[j].late
                /\ Closed(k)[j].before = calls[j].before \ {k}
<1>1. ASSUME NEW j \in Slots, j # k
      PROVE  /\ Closed(k)[j] \in CallRec /\ SameCall(calls[j], Closed(k)[j])
             /\ Closed(k)[j].late = calls[j].late
             /\ Closed(k)[j].before = calls[j].before \ {k}
  <2>1. calls[j] \in CallRec /\ calls[j].before \ {k} \in SUBSET Slots
    BY DEF CallRec
  <2> DEFINE d == [calls[j] EXCEPT !.before = calls[j].before \ {k}]
  <2>2. /\ d \in CallRec /\ SameCall(calls[j], d) /\ d.late = calls[j].late
        /\ d.before = calls[j].before \ {k}
    BY <2>1 DEF CallRec, SameCall
  <2>3. Closed(k)[j] = d
    BY <1>1, <2>2 DEF Closed
  <2>. QED
    BY <2>2, <2>3
<1>2. Closed(k)[k] = NoCall
  BY DEF Closed
<1>3. Closed(k) \in [Slots -> CallRec]
  <2>1. \A j \in Slots : Closed(k)[j] \in CallRec
    BY <1>1, <1>2, NoCallIs
  <2>. QED
    BY <2>1 DEF Closed
<1>. QED
  BY <1>1, <1>2, <1>3

LEMMA ClosesIs ==
    ASSUME calls \in [Slots -> CallRec], NEW k \in Slots, calls' = Closed(k)
    PROVE  Closes(k)
BY ClosedIs, NoCallIs DEF Closes, Emptied, Stays, SameCall

LEMMA ClosesLateIs ==
    ASSUME calls \in [Slots -> CallRec], NEW k \in Slots, NEW late \in SUBSET Slots,
           calls' = [j \in Slots |-> [Closed(k)[j] EXCEPT !.late = @ \/ j \in late]]
    PROVE  /\ Closes(k)
           /\ \A j \in Slots : j # k /\ j \in late => calls'[j].late
<1>1. ASSUME NEW j \in Slots
      PROVE  /\ calls'[j] \in CallRec /\ SameCall(Closed(k)[j], calls'[j])
             /\ calls'[j].before = Closed(k)[j].before
             /\ calls'[j].late = (Closed(k)[j].late \/ j \in late)
  <2>1. Closed(k)[j] \in CallRec
    BY ClosedIs
  <2> DEFINE d == [Closed(k)[j] EXCEPT !.late = Closed(k)[j].late \/ j \in late]
  <2>2. /\ d \in CallRec /\ SameCall(Closed(k)[j], d)
        /\ d.before = Closed(k)[j].before
        /\ d.late = (Closed(k)[j].late \/ j \in late)
    BY <2>1 DEF CallRec, SameCall
  <2>3. calls'[j] = d
    OBVIOUS
  <2> HIDE DEF d
  <2>. QED
    BY <2>2, <2>3
<1>2. calls' \in [Slots -> CallRec]
  BY <1>1
<1>3. Emptied(k)
  BY <1>1, ClosedIs, NoCallIs DEF Emptied, SameCall
<1>4. ASSUME NEW j \in Slots, j # k
      PROVE  /\ Stays(j) /\ calls'[j].before = calls[j].before \ {k}
             /\ j \in late => calls'[j].late
  <2>1. /\ SameCall(calls[j], Closed(k)[j]) /\ Closed(k)[j].late = calls[j].late
        /\ Closed(k)[j].before = calls[j].before \ {k}
    BY <1>4, ClosedIs
  <2>2. /\ SameCall(Closed(k)[j], calls'[j])
        /\ calls'[j].before = Closed(k)[j].before
        /\ calls'[j].late = (Closed(k)[j].late \/ j \in late)
    BY <1>1
  <2>. QED
    BY <2>1, <2>2 DEF Stays, SameCall
<1>. QED
  BY <1>2, <1>3, <1>4 DEF Closes

LEMMA AsksAgainIs ==
    ASSUME calls \in [Slots -> CallRec], NEW k \in Slots, session \in 0..Sessions,
           user \in People, user' = user,
           calls' = Sending(Closed(k), user, "list", 0, {})
    PROVE  \E m \in Slots, c \in CallRec : ClosesAndAsks(k, m, c)
<1>1. /\ Closed(k) \in [Slots -> CallRec] /\ "list" \in Kinds \ {"none"}
      /\ Closed(k)[k].phase = "free" /\ 0 \in Nat /\ {} \in SUBSET Files
  BY ClosedIs, NoCallIs DEF Kinds
<1>2. PICK m \in Slots, c \in CallRec :
        /\ Closed(k)[m].phase = "free"
        /\ calls' = [Closed(k) EXCEPT ![m] = c]
        /\ NewCall(c, user, "list", 0, {})
  BY <1>1, SendIs
<1>3. m # k => calls[m].phase = "free"
  BY <1>2, ClosedIs DEF SameCall
<1>4. calls' \in [Slots -> CallRec] /\ calls'[m] = c
  BY <1>1, <1>2
<1>5. m # k => Emptied(k)
  BY <1>1, <1>2, ClosedIs, NoCallIs DEF Emptied
<1>6. \A j \in Slots : j \notin {k, m} =>
        Stays(j) /\ calls'[j].before = calls[j].before \ {k}
  BY <1>1, <1>2, ClosedIs DEF Stays, SameCall
<1>7. NewCall(c, user', "list", 0, {})
  BY <1>2
<1>8. ClosesAndAsks(k, m, c)
  BY <1>3, <1>4, <1>5, <1>6, <1>7 DEF ClosesAndAsks
<1>. QED
  BY <1>8

-----------------------------------------------------------------------------
(* Threads.                                                                *)

LEMMA LastFirstIs ==
    ASSUME NEW ts \in Seq(TurnRec), NEW P \in SUBSET (DOMAIN ts), NEW at \in LastFirst(P)
    PROVE  /\ Cardinality(P) \in Nat
           /\ at \in [1..Cardinality(P) -> P] /\ DOMAIN at = 1..Cardinality(P)
           /\ \A i, j \in 1..Cardinality(P) : at[i] = at[j] => i = j
<1>1. Len(ts) \in Nat /\ DOMAIN ts = 1..Len(ts)
  OBVIOUS
<1>2. IsFiniteSet(1..Len(ts))
  BY <1>1, FS_Interval
<1>3. Cardinality(P) \in Nat
  BY <1>1, <1>2, FS_Subset, FS_CardinalityType
<1>4. at \in [1..Cardinality(P) -> P]
  BY DEF LastFirst
<1>5. \A i, j \in 1..Cardinality(P) : i < j => at[i] > at[j]
  BY <1>4 DEF LastFirst
<1>6. \A i \in 1..Cardinality(P) : at[i] \in Nat
  BY <1>1, <1>4
<1>7. ASSUME NEW i \in 1..Cardinality(P), NEW j \in 1..Cardinality(P), at[i] = at[j]
      PROVE  i = j
  BY <1>3, <1>5, <1>6, <1>7
<1>. QED
  BY <1>3, <1>4, <1>7

\* Turns taken from a thread, each once, are a thread.
LEMMA ThreadPicked ==
    ASSUME NEW ts, NEW q, NEW d, Thread(ts, q, d),
           NEW P \in SUBSET (DOMAIN ts), NEW at \in LastFirst(P),
           NEW n \in 0..Cardinality(P)
    PROVE  Thread([i \in 1..n |-> ts[at[i]]], q, d)
<1> DEFINE new == [i \in 1..n |-> ts[at[i]]]
<1>1. /\ Cardinality(P) \in Nat /\ at \in [1..Cardinality(P) -> P]
      /\ \A i, j \in 1..Cardinality(P) : at[i] = at[j] => i = j
  BY LastFirstIs DEF Thread
<1>2. n \in Nat /\ \A i \in 1..n : i \in 1..Cardinality(P)
  BY <1>1
<1>3. \A i \in 1..n : at[i] \in DOMAIN ts /\ new[i] = ts[at[i]]
  BY <1>1, <1>2
<1>4. \A i \in 1..n : new[i] \in TurnRec
  BY <1>3 DEF Thread
<1>5. new \in Seq(TurnRec) /\ DOMAIN new = 1..n
  BY <1>2, <1>4
<1> HIDE DEF new
<1>6. Thread(new, q, d)
  BY <1>1, <1>2, <1>3, <1>5 DEF Thread
<1>. QED
  BY <1>6 DEF new

-----------------------------------------------------------------------------
(* What a step does to the requests, put in one way for all actions: slot   *)
(* m may take a new request, and every other slot keeps its own or is       *)
(* emptied.                                                                 *)

\* The request in slot j is still that one.
Going(j) ==
    /\ calls'[j].kind = calls[j].kind /\ calls'[j].by = calls[j].by
    /\ calls'[j].session = calls[j].session /\ calls'[j].question = calls[j].question
    /\ calls'[j].files = calls[j].files
    /\ calls'[j].kind \in {"upload", "delete"} /\ calls'[j].live => calls[j].live
    /\ calls'[j].phase = "sent" => calls[j].phase = "sent"
    /\ calls'[j].phase = "free" <=> calls[j].phase = "free"

\* It is a new one; a question takes the ticked files, and a file that is
\* uploaded is nobody's yet.
Fresh(j) ==
    /\ calls'[j].kind # "none" /\ calls'[j].phase = "sent"
    /\ user' \in People /\ calls'[j].by = user' /\ calls'[j].session = session
    /\ calls'[j].items = <<>>
    /\ calls'[j].kind = "ask" =>
         /\ user' = user /\ acts' = acts + 1
         /\ calls'[j].question = acts + 1 /\ calls'[j].files = ticked
    /\ calls'[j].kind = "upload" => \E f \in Files :
         /\ calls'[j].files = {f} /\ owner[f] = Nobody /\ owner'[f] = Nobody
         /\ \A k \in Slots : calls[k].kind = "upload" => f \notin calls[k].files

Requests(m) ==
    /\ calls' \in [Slots -> CallRec] /\ acts' \in Nat /\ acts <= acts'
    /\ drawn' \in 1..Sessions /\ drawn <= drawn'
    /\ \A j \in Slots : Emptied(j) \/ Going(j) \/ (j = m /\ Fresh(j))

\* No history arrives in a request.
ItemsStay == \A j \in Slots : calls'[j].items \in {<<>>, calls[j].items}

\* What was uploaded stays so.
OwnStays == \A u \in People \cup {Nobody}, f \in Files : Own(u, f) => Own(u, f)'

LEMMA NoTurns == \A q, d : Thread(<<>>, q, d)
BY DEF Thread

LEMMA ThreadStays ==
    ASSUME NEW ts, NEW q \in Nat, NEW d \in Nat, Thread(ts, q, d),
           NEW r \in Nat, NEW e \in Nat, q <= r, d <= e
    PROVE  Thread(ts, r, e)
<1>1. ASSUME NEW i \in DOMAIN ts
      PROVE  ts[i].question \in Nat /\ ts[i].session \in Int
  <2>1. ts[i] \in TurnRec
    BY DEF Thread
  <2>. QED
    BY <2>1 DEF TurnRec
<1>. QED
  BY <1>1 DEF Thread

LEMMA CallsShaped ==
    ASSUME Shape, session \in 1..drawn, NEW m \in Slots, Requests(m)
    PROVE  \A k \in Slots : CallShaped(k)'
<1> SUFFICES ASSUME NEW k \in Slots PROVE CallShaped(k)'
  OBVIOUS
<1>1. CASE Emptied(k)
  BY <1>1 DEF Emptied, CallShaped
<1>2. CASE Going(k)
  <2>1. CallShaped(k) /\ calls[k].question \in Nat /\ drawn \in Nat /\ acts \in Nat
    BY DEF Shape, CallRec
  <2>. QED
    BY <1>2, <2>1 DEF Going, CallShaped, Requests
<1>3. CASE k = m /\ Fresh(m)
  BY <1>3, BrowserPageAssumption DEF Fresh, CallShaped, Requests, Shape
<1>. QED
  BY <1>1, <1>2, <1>3 DEF Requests

\* While no answer changes a thread, only a question that is asked adds to one.
LEMMA CallThreadsStay ==
    ASSUME Shape, Threads, NEW m \in Slots, Requests(m), ItemsStay
    PROVE  \A k \in Slots : Thread(calls[k].items, acts, drawn)'
<1> SUFFICES ASSUME NEW k \in Slots PROVE Thread(calls'[k].items, acts', drawn')
  OBVIOUS
<1>1. Thread(calls[k].items, acts, drawn)
  BY DEF Threads
<1>2. Thread(calls[k].items, acts', drawn')
  BY <1>1, ThreadStays DEF Shape, Requests
<1>. QED
  BY <1>2, NoTurns DEF ItemsStay

LEMMA AsksApart ==
    ASSUME Shape, Threads, NEW m \in Slots, Requests(m)
    PROVE  \A j, k \in Slots : calls'[j].kind = "ask" /\ calls'[k].kind = "ask" /\
             calls'[j].question = calls'[k].question => j = k
<1>1. ASSUME NEW j \in Slots, calls'[j].kind = "ask"
      PROVE  \/ /\ calls[j].kind = "ask" /\ calls[j].question <= acts
                /\ calls'[j].question = calls[j].question
             \/ j = m /\ calls'[j].question = acts + 1
  BY <1>1 DEF Requests, Emptied, Going, Fresh, Shape, CallShaped
<1>. QED
  BY <1>1 DEF Threads, Shape

LEMMA SentAsksNew ==
    ASSUME Shape, Threads, NEW m \in Slots, Requests(m), log' = log
    PROVE  \A k \in Slots : calls'[k].kind = "ask" /\ calls'[k].phase = "sent" =>
             \A i \in DOMAIN log' : log'[i].question # calls'[k].question
<1> SUFFICES ASSUME NEW k \in Slots, calls'[k].kind = "ask", calls'[k].phase = "sent",
                    NEW i \in DOMAIN log
             PROVE  log[i].question # calls'[k].question
  OBVIOUS
<1>1. log[i].question \in Nat /\ log[i].question <= acts /\ acts \in Nat
  <2>1. log \in Seq(TurnRec) /\ log[i].question <= acts
    BY DEF Threads, Thread
  <2>2. log[i] \in TurnRec
    BY <2>1
  <2>. QED
    BY <2>1, <2>2 DEF TurnRec, Shape
<1>2. CASE Going(k)
  BY <1>2 DEF Going, Threads
<1>3. CASE k = m /\ Fresh(m)
  BY <1>1, <1>3 DEF Fresh
<1>. QED
  BY <1>2, <1>3 DEF Requests, Emptied

\* Threads, for a step that changes the history of neither side.
LEMMA ThreadsKeep ==
    ASSUME Shape, Threads, NEW m \in Slots, Requests(m), ItemsStay, log' = log,
           Thread(turns, acts, drawn)', Thread(items, acts, drawn)'
    PROVE  Threads'
<1>1. Thread(log, acts, drawn)'
  BY ThreadStays DEF Threads, Shape, Requests
<1>. QED
  BY <1>1, CallThreadsStay, AsksApart, SentAsksNew DEF Threads

LEMMA ThreadsSame ==
    ASSUME Shape, Threads, NEW m \in Slots, Requests(m), ItemsStay, log' = log,
           turns' = turns, items' = items
    PROVE  Threads'
<1>1. Thread(turns, acts, drawn)' /\ Thread(items, acts, drawn)'
  BY ThreadStays DEF Threads, Shape, Requests
<1>. QED
  BY <1>1, ThreadsKeep

\* The panel's requests stay the person's.
LEMMA CallHandsStay ==
    ASSUME Shape, Hands, NEW m \in Slots, Requests(m), user' = user \/ user = Nobody
    PROVE  \A k \in Slots :
             calls'[k].kind = "list"
               \/ (calls'[k].kind \in {"upload", "delete"} /\ calls'[k].live)
               => calls'[k].by = user'
<1> SUFFICES ASSUME NEW k \in Slots,
                    calls'[k].kind = "list"
                      \/ (calls'[k].kind \in {"upload", "delete"} /\ calls'[k].live)
             PROVE  calls'[k].by = user'
  OBVIOUS
<1>1. CASE Going(k)
  BY <1>1 DEF Going, Hands, Shape, CallShaped
<1>2. CASE k = m /\ Fresh(m)
  BY <1>2 DEF Fresh
<1>. QED
  BY <1>1, <1>2 DEF Requests, Emptied

LEMMA UploadsApart ==
    ASSUME Shape, Lists, NEW m \in Slots, Requests(m),
           \A f \in Files : owner[f] = Nobody /\ owner'[f] # Nobody =>
             \E k \in Slots : /\ calls[k].kind = "upload" /\ calls[k].files = {f}
                              /\ calls'[k].phase # "sent"
    PROVE  /\ \A k \in Slots : calls'[k].kind = "upload" =>
                /\ \E f \in Files : calls'[k].files = {f}
                /\ calls'[k].phase = "sent" =>
                     \A f \in calls'[k].files : owner'[f] = Nobody
           /\ \A j, k \in Slots :
                calls'[j].kind = "upload" /\ calls'[k].kind = "upload" /\ j # k =>
                  calls'[j].files \cap calls'[k].files = {}
<1>1. ASSUME NEW k \in Slots, calls'[k].kind = "upload"
      PROVE  \/ /\ calls[k].kind = "upload" /\ calls'[k].files = calls[k].files
                /\ calls'[k].phase = "sent" => calls[k].phase = "sent"
             \/ k = m /\ Fresh(m)
  BY <1>1 DEF Requests, Emptied, Going
<1>2. ASSUME NEW k \in Slots, calls'[k].kind = "upload"
      PROVE  /\ \E f \in Files : calls'[k].files = {f}
             /\ calls'[k].phase = "sent" =>
                  \A f \in calls'[k].files : owner'[f] = Nobody
  <2>1. CASE k = m /\ Fresh(m)
    BY <1>2, <2>1 DEF Fresh
  <2>2. CASE calls[k].kind = "upload" /\ calls'[k].files = calls[k].files
             /\ (calls'[k].phase = "sent" => calls[k].phase = "sent")
    <3>1. PICK f \in Files : calls[k].files = {f}
      BY <2>2 DEF Lists
    <3>2. ASSUME calls'[k].phase = "sent" PROVE owner'[f] = Nobody
      <4>1. owner[f] = Nobody
        BY <2>2, <3>1, <3>2 DEF Lists
      <4>2. ASSUME NEW j \in Slots, calls[j].kind = "upload", calls[j].files = {f}
            PROVE  j = k
        BY <2>2, <3>1, <4>2 DEF Lists
      <4>. QED
        BY <3>2, <4>1, <4>2
    <3>. QED
      BY <2>2, <3>1, <3>2
  <2>. QED
    BY <1>1, <1>2, <2>1, <2>2
<1>3. ASSUME NEW j \in Slots, NEW k \in Slots, j # k,
             calls'[j].kind = "upload", calls'[k].kind = "upload"
      PROVE  calls'[j].files \cap calls'[k].files = {}
  <2>1. CASE j = m /\ Fresh(m)
    BY <1>1, <1>3, <2>1 DEF Fresh
  <2>2. CASE k = m /\ Fresh(m)
    BY <1>1, <1>3, <2>2 DEF Fresh
  <2>3. CASE ~(j = m /\ Fresh(m)) /\ ~(k = m /\ Fresh(m))
    BY <1>1, <1>3, <2>3 DEF Lists
  <2>. QED
    BY <2>1, <2>2, <2>3
<1>. QED
  BY <1>2, <1>3

LEMMA CallsBelong ==
    ASSUME Shape, NEW m \in Slots, Requests(m), ItemsStay, OwnStays,
           NEW s \in 1..Sessions, NEW u \in People \cup {Nobody}, BelongsTo(s, u)
    PROVE  \A k \in Slots : CallBelongs(k, s, u)'
<1> SUFFICES ASSUME NEW k \in Slots PROVE CallBelongs(k, s, u)'
  OBVIOUS
<1>1. \A i \in DOMAIN calls'[k].items :
        calls'[k].items[i].session = s => calls'[k].items[i].by = u
  BY DEF ItemsStay, BelongsTo, CallBelongs
<1>2. ASSUME calls'[k].kind = "ask", calls'[k].session = s
      PROVE  calls'[k].by = u /\ \A f \in calls'[k].files : Own(u, f)
  <2>1. CASE Going(k)
    BY <1>2, <2>1 DEF Going, BelongsTo, CallBelongs
  <2>2. CASE k = m /\ Fresh(m)
    BY <1>2, <2>2 DEF Fresh, BelongsTo
  <2>. QED
    BY <1>2, <2>1, <2>2 DEF Requests, Emptied
<1>3. calls'[k].files \subseteq Files
  BY DEF Requests, CallRec
<1>4. ASSUME calls'[k].kind = "ask", calls'[k].session = s
      PROVE  \A f \in calls'[k].files : Own(u, f)'
  BY <1>2, <1>3, <1>4 DEF OwnStays
<1>. QED
  BY <1>1, <1>2, <1>4 DEF CallBelongs

\* A session that is one person's stays so, unless it is handed over.
LEMMA OneHandKeeps ==
    ASSUME Shape, OneHand, NEW m \in Slots, Requests(m), ItemsStay, OwnStays,
           handed \subseteq handed', log' = log, attached' = attached,
           \A i \in DOMAIN items' : \E k \in Slots : \/ items' = items
                                                    \/ items' = calls[k].items,
           session' \notin handed' => session' = session /\ user' = user,
           \A f \in ticked' : f \in Files /\ (f \in ticked \/ Own(user, f))
    PROVE  OneHand'
<1> SUFFICES ASSUME NEW s \in 1..Sessions, s \notin handed'
             PROVE  \E u \in People \cup {Nobody} : BelongsTo(s, u)'
  BY DEF OneHand
<1>1. PICK u \in People \cup {Nobody} : BelongsTo(s, u)
  BY DEF OneHand
<1>2. \A k \in Slots : CallBelongs(k, s, u)'
  BY <1>1, CallsBelong
<1>3. session' = s => user' = u /\ \A f \in ticked' : Own(u, f)'
  <2>1. ASSUME session' = s PROVE user' = u /\ \A f \in ticked' : Own(u, f)'
    <3>1. session = s /\ user' = user /\ user = u /\ \A f \in ticked : Own(u, f)
      BY <1>1, <2>1 DEF BelongsTo
    <3>2. \A f \in ticked' : f \in Files /\ Own(u, f)
      BY <3>1
    <3>. QED
      BY <3>1, <3>2 DEF OwnStays
  <2>. QED
    BY <2>1
<1>4. \A f \in attached'[s] : Own(u, f)'
  BY <1>1 DEF BelongsTo, OwnStays, Shape
<1>5. \A i \in DOMAIN items' : items'[i].session = s => items'[i].by = u
  BY <1>1 DEF BelongsTo, CallBelongs
<1>6. \A i \in DOMAIN log' : log'[i].session = s => log'[i].by = u
  BY <1>1 DEF BelongsTo
<1>7. BelongsTo(s, u)'
  BY <1>2, <1>3, <1>4, <1>5, <1>6 DEF BelongsTo
<1>. QED
  BY <1>7

\* Requests that the files panel has nothing to do with leave it as it was.
ListStays(j) ==
    /\ calls'[j].kind = calls[j].kind /\ calls'[j].phase = calls[j].phase
    /\ calls'[j].list = calls[j].list
    /\ calls[j].late => calls'[j].late
    /\ \A i \in Slots : calls[i].kind = "list" /\ i \in calls[j].before =>
                          i \in calls'[j].before

PanelStays ==
    /\ user' = user /\ listed' = listed /\ behind' = behind
    /\ \A f \in Files : \/ Visible(user)'[f] = Visible(user)[f]
                        \/ Visible(user)[f] = "processing"
    /\ \A j \in Slots :
         /\ calls[j].kind \in {"list", "upload", "delete"} => ListStays(j)
         /\ calls'[j].kind = "list" /\ calls'[j].phase = "served" =>
              calls[j].kind = "list" /\ calls[j].phase = "served"

\* The panel's page of files is a matter of the files.
LEMMA VisibleStays ==
    ASSUME user' = user, owner' = owner, status' = status, later' = later
    PROVE  Visible(user)' = Visible(user)
<1> DEFINE kept == {f \in Files : owner[f] = user /\ status[f] # "none"}
<1>1. kept' = kept
  OBVIOUS
<1>. QED
  BY <1>1 DEF Visible

LEMMA SettlingKeeps == ASSUME Settling, PanelStays PROVE Settling'
<1> SUFFICES ASSUME user # Nobody PROVE Settling'
  BY DEF Settling, PanelStays
<1>1. Changed => Changed'
  BY DEF Changed, PanelStays, ListStays
<1>2. Asked => Asked'
  BY DEF Asked, PanelStays, ListStays
<1>3. ASSUME NEW list, Current(list)
      PROVE  \A f \in Files : list[f] = Visible(user)'[f] \/ list[f] = "processing"
  BY <1>3 DEF Current, PanelStays
<1>4. ASSUME NEW j \in Slots, NEW k \in Slots, Newer(j, k), calls[k].kind = "list"
      PROVE  Newer(j, k)'
  BY <1>4 DEF Newer, PanelStays, ListStays
<1>5. behind' \/ Current(listed)' \/ Changed' \/ \E k \in Slots : calls'[k].kind = "list"
  <2>1. Current(listed) => Current(listed)'
    BY <1>3 DEF Current, PanelStays
  <2>. QED
    BY <1>1, <2>1 DEF Settling, PanelStays, ListStays
<1>6. ASSUME NEW k \in Slots, calls'[k].kind = "list", calls'[k].phase = "served"
      PROVE  \/ calls'[k].late \/ Current(calls[k].list)' \/ Changed' \/ Asked'
             \/ \E j \in Slots : Newer(j, k)'
  <2>1. calls[k].kind = "list" /\ calls[k].phase = "served" /\ ListStays(k)
    BY <1>6 DEF PanelStays
  <2>2. \/ calls[k].late \/ Current(calls[k].list) \/ Changed \/ Asked
        \/ \E j \in Slots : Newer(j, k)
    BY <2>1 DEF Settling
  <2>3. Current(calls[k].list) => Current(calls[k].list)'
    BY <1>3, <2>1 DEF Current, ListStays
  <2>. QED
    BY <1>1, <1>2, <1>4, <2>1, <2>2, <2>3 DEF ListStays
<1>. QED
  BY <1>5, <1>6 DEF Settling

\* The files panel, for a step that leaves it and the server's files alone.
LEMMA ListsKeep ==
    ASSUME Shape, Lists, NEW m \in Slots, Requests(m), user' = user, listed' = listed,
           owner' = owner, status' = status,
           \A j \in Slots : calls'[j].kind = "list" /\ calls'[j].phase = "served" =>
             /\ calls[j].kind = "list" /\ calls[j].phase = "served"
             /\ calls'[j].list = calls[j].list
    PROVE  Lists'
<1>1. /\ \A j \in Slots : calls'[j].kind = "upload" =>
           /\ \E f \in Files : calls'[j].files = {f}
           /\ calls'[j].phase = "sent" =>
                \A f \in calls'[j].files : owner'[f] = Nobody
      /\ \A i, j \in Slots :
           calls'[i].kind = "upload" /\ calls'[j].kind = "upload" /\ i # j =>
             calls'[i].files \cap calls'[j].files = {}
  BY UploadsApart
<1>2. \A j \in Slots : calls'[j].kind = "list" /\ calls'[j].phase = "served" =>
        Shown(user, calls'[j].list)
  BY DEF Lists
<1>. QED
  BY <1>1, <1>2 DEF Lists, Shown

\* The page stays with whom it is, and what is on display with the page.
LEMMA HandsKeep ==
    ASSUME Shape, Hands, NEW m \in Slots, Requests(m), user' = user, user # Nobody,
           \A i \in DOMAIN turns' :
             /\ turns'[i].session = session'
             /\ turns'[i].by = user \/ session' \in handed'
    PROVE  Hands'
<1>1. \A j \in Slots :
        calls'[j].kind = "list" \/ (calls'[j].kind \in {"upload", "delete"} /\ calls'[j].live)
          => calls'[j].by = user'
  BY CallHandsStay
<1>. QED
  BY <1>1 DEF Hands

LEMMA HandsSame ==
    ASSUME Shape, Hands, NEW m \in Slots, Requests(m),
           user' = user, turns' = turns, listed' = listed, session' = session,
           handed \subseteq handed'
    PROVE  Hands'
<1>1. \A j \in Slots :
        calls'[j].kind = "list" \/ (calls'[j].kind \in {"upload", "delete"} /\ calls'[j].live)
          => calls'[j].by = user'
  BY CallHandsStay
<1>. QED
  BY <1>1 DEF Hands

LEMMA SendRequests ==
    ASSUME Shape, NEW k \in Slots, NEW c \in CallRec, NEW kind \in Kinds \ {"none"},
           NEW q, NEW files, Sends(k, c, kind, q, files), user' \in People,
           acts' \in Nat, acts <= acts', drawn' = drawn,
           kind = "ask" =>
             user' = user /\ acts' = acts + 1 /\ q = acts + 1 /\ files = ticked,
           kind = "upload" => \E f \in Files :
             /\ files = {f} /\ owner[f] = Nobody /\ owner'[f] = Nobody
             /\ \A j \in Slots : calls[j].kind = "upload" => f \notin calls[j].files
    PROVE  Requests(k) /\ ItemsStay
<1>1. Fresh(k)
  BY DEF Sends, NewCall, Fresh
<1>2. \A j \in Slots : j # k => Going(j)
  BY DEF Sends, Going
<1>. QED
  BY <1>1, <1>2 DEF Requests, ItemsStay, Sends, NewCall, Shape

LEMMA ServeRequests ==
    ASSUME Shape, NEW k \in Slots, Serves(k), acts' = acts, drawn' = drawn
    PROVE  Requests(k)
<1>1. \A j \in Slots : Going(j)
  BY DEF Serves, Going
<1>. QED
  BY <1>1 DEF Requests, Serves, Shape

LEMMA CloseRequests ==
    ASSUME Shape, NEW k \in Slots, Closes(k), acts' = acts, drawn' = drawn
    PROVE  Requests(k) /\ ItemsStay
<1>1. \A j \in Slots : j # k => Going(j)
  BY DEF Closes, Going, Stays
<1>. QED
  BY <1>1 DEF Requests, ItemsStay, Closes, Stays, Emptied, Shape

LEMMA CloseAndAskRequests ==
    ASSUME Shape, NEW k \in Slots, NEW m \in Slots, NEW c \in CallRec,
           ClosesAndAsks(k, m, c), user' \in People, acts' = acts, drawn' = drawn
    PROVE  Requests(m) /\ ItemsStay
<1>1. Fresh(m)
  BY DEF ClosesAndAsks, NewCall, Fresh
<1>2. \A j \in Slots : j \notin {k, m} => Going(j)
  BY DEF ClosesAndAsks, Going, Stays
<1>. QED
  BY <1>1, <1>2 DEF Requests, ItemsStay, ClosesAndAsks, NewCall, Stays, Emptied, Shape

LEMMA NoRequests ==
    ASSUME Shape, calls' = calls, acts' \in Nat, acts <= acts',
           drawn' \in 1..Sessions, drawn <= drawn'
    PROVE  1 \in Slots /\ Requests(1) /\ ItemsStay
<1>1. \A j \in Slots : Going(j)
  BY DEF Going
<1>2. 1 \in Slots
  BY BrowserPageAssumption DEF Slots
<1>. QED
  BY <1>1, <1>2 DEF Requests, ItemsStay, Shape

LEMMA Fetches ==
    ASSUME Shape, HasSlot, NEW u \in People, user' = u, NEW kind \in Kinds \ {"none"},
           NEW q \in Nat, NEW files \in SUBSET Files,
           calls' = Sending(calls, u, kind, q, files)
    PROVE  \E k \in Slots, c \in CallRec : Sends(k, c, kind, q, files)
<1>1. calls \in [Slots -> CallRec] /\ session \in 0..Sessions
  BY BrowserPageAssumption DEF Shape
<1>2. PICK k \in Slots, c \in CallRec :
        /\ calls[k].phase = "free" /\ calls' = [calls EXCEPT ![k] = c]
        /\ NewCall(c, u, kind, q, files)
  BY <1>1, SendIs DEF HasSlot, Idle
<1>3. Sends(k, c, kind, q, files)
  BY <1>1, <1>2 DEF Sends
<1>. QED
  BY <1>3

\* A panel's request that changes neither page nor server, or a history's.
LEMMA SendKeeps ==
    ASSUME Belonging, NEW k \in Slots, NEW c \in CallRec,
           NEW kind \in {"history", "list", "upload", "delete"},
           NEW q, NEW files, Sends(k, c, kind, q, files),
           user \in People, open' \in BOOLEAN, acts' \in 0..Acts, acts <= acts',
           losses' = losses,
           UNCHANGED <<user, session, turns, ticked, items, listed, server, ghosts>>,
           kind = "upload" => \E f \in Files :
             /\ files = {f} /\ owner[f] = Nobody
             /\ \A j \in Slots : calls[j].kind = "upload" => f \notin calls[j].files
    PROVE  Belonging'
<1>1. /\ user' = user /\ session' = session /\ turns' = turns /\ ticked' = ticked
      /\ items' = items /\ listed' = listed
      /\ owner' = owner /\ status' = status /\ later' = later
      /\ attached' = attached /\ log' = log
      /\ drawn' = drawn /\ handed' = handed /\ behind' = behind
  BY DEF server, ghosts
<1>2. Requests(k) /\ ItemsStay
  BY <1>1, SendRequests DEF Belonging, Kinds
<1>3. Shape'
  <2>1. \A j \in Slots : CallShaped(j)'
    BY <1>2, CallsShaped DEF Belonging, Shape
  <2>. QED
    BY <1>1, <2>1 DEF Belonging, Shape, Sends
<1>4. Threads'
  BY <1>1, <1>2, ThreadsSame DEF Belonging
<1>5. Hands'
  BY <1>1, <1>2, HandsSame DEF Belonging
<1>6. Lists'
  <2>1. \A j \in Slots : calls'[j].kind = "list" /\ calls'[j].phase = "served" =>
          /\ calls[j].kind = "list" /\ calls[j].phase = "served"
          /\ calls'[j].list = calls[j].list
    BY DEF Sends, NewCall
  <2>. QED
    BY <1>1, <1>2, <2>1, ListsKeep DEF Belonging
<1>7. OneHand'
  <2>1. OwnStays
    BY <1>1 DEF OwnStays, Own
  <2>. QED
    BY <1>1, <1>2, <2>1, OneHandKeeps DEF Belonging, Shape
<1>8. Settling'
  <2>1. PanelStays
    <3>1. \A j \in Slots : calls[j].kind \in {"list", "upload", "delete"} => j # k
      BY DEF Sends, Belonging, Shape, CallShaped
    <3>2. \A f \in Files : Visible(user)'[f] = Visible(user)[f]
      BY <1>1, VisibleStays
    <3>. QED
      BY <1>1, <3>1, <3>2 DEF PanelStays, ListStays, Sends, NewCall
  <2>. QED
    BY <2>1, SettlingKeeps DEF Belonging
<1>. QED
  BY <1>3, <1>4, <1>5, <1>6, <1>7, <1>8 DEF Belonging

LEMMA BelongingInit == Init => Belonging
<1> SUFFICES ASSUME Init PROVE Belonging
  OBVIOUS
<1>1. /\ \A k \in Slots : calls[k] = NoCall
      /\ listed = NoList /\ turns = <<>> /\ items = <<>> /\ log = <<>>
      /\ user = Nobody
  BY DEF Init
<1>2. Shape
  <2>1. calls \in [Slots -> CallRec]
    BY NoCallIs DEF Init
  <2>2. \A k \in Slots : CallShaped(k)
    BY <1>1, NoCallIs DEF CallShaped
  <2>3. listed \in [Files -> Status] /\ status \in [Files -> Status]
    BY DEF Init, NoList, Status
  <2>4. /\ drawn \in 1..Sessions /\ session \in 1..drawn /\ acts \in 0..Acts
        /\ losses \in 0..Losses
    BY BrowserPageAssumption DEF Init
  <2>. QED
    BY <2>1, <2>2, <2>3, <2>4 DEF Init, Shape
<1>3. Threads
  BY <1>1, NoCallIs, NoTurns DEF Threads
<1>4. Hands
  BY <1>1, NoCallIs DEF Hands
<1>5. Lists
  BY <1>1, NoCallIs DEF Lists, Shown, NoList
<1>6. OneHand
  <2>1. ASSUME NEW s \in 1..Sessions PROVE BelongsTo(s, Nobody)
    BY <1>1, NoCallIs DEF Init, BelongsTo, CallBelongs
  <2>. QED
    BY <2>1 DEF OneHand
<1>7. Settling
  BY <1>1 DEF Settling
<1>. QED
  BY <1>2, <1>3, <1>4, <1>5, <1>6, <1>7 DEF Belonging

\* One person signs in where nobody's page is empty.
LEMMA SignInKeeps ==
    ASSUME Belonging, NEW u \in People, SignIn(u) PROVE Belonging'
<1> USE DEF Belonging
<1>1. /\ user = Nobody /\ user' = u /\ u # Nobody
      /\ session' = session /\ turns' = turns /\ ticked' = ticked
      /\ items' = items /\ open' = open /\ listed' = listed
      /\ owner' = owner /\ status' = status /\ later' = later
      /\ attached' = attached /\ log' = log
      /\ drawn' = drawn /\ handed' = handed /\ acts' = acts /\ losses' = losses
      /\ behind' = FALSE
  BY BrowserPageAssumption DEF SignIn, server
<1>2. PICK k \in Slots, c \in CallRec : Sends(k, c, "list", 0, {})
  BY <1>1, Fetches DEF SignIn, Kinds
<1>3. Requests(k) /\ ItemsStay
  BY <1>1, <1>2, SendRequests DEF Kinds, Shape
<1>4. Shape'
  <2>1. \A j \in Slots : CallShaped(j)'
    BY <1>3, CallsShaped DEF Shape
  <2>. QED
    BY <1>1, <1>2, <2>1 DEF Shape, Sends
<1>5. Threads'
  BY <1>1, <1>3, ThreadsSame
<1>6. Hands'
  <2>1. \A j \in Slots :
          calls'[j].kind = "list" \/ (calls'[j].kind \in {"upload", "delete"} /\ calls'[j].live)
            => calls'[j].by = user'
    BY <1>1, <1>3, CallHandsStay
  <2>. QED
    BY <1>1, <2>1 DEF Hands
<1>7. Lists'
  <2>1. /\ \A j \in Slots : calls'[j].kind = "upload" =>
             /\ \E f \in Files : calls'[j].files = {f}
             /\ calls'[j].phase = "sent" =>
                  \A f \in calls'[j].files : owner'[f] = Nobody
        /\ \A i, j \in Slots :
             calls'[i].kind = "upload" /\ calls'[j].kind = "upload" /\ i # j =>
               calls'[i].files \cap calls'[j].files = {}
    BY <1>1, <1>3, UploadsApart
  <2>2. \A j \in Slots : ~(calls'[j].kind = "list" /\ calls'[j].phase = "served")
    BY <1>1, <1>2 DEF Hands, Shape, CallShaped, Sends, NewCall
  <2>3. Shown(user, listed)'
    BY <1>1 DEF Hands, Shown, NoList
  <2>. QED
    BY <2>1, <2>2, <2>3 DEF Lists
<1>8. OneHand'
  <2>1. OwnStays
    BY <1>1 DEF OwnStays, Own
  <2>2. SUFFICES ASSUME NEW s \in 1..Sessions, s \notin handed
                 PROVE  \E v \in People \cup {Nobody} : BelongsTo(s, v)'
    BY <1>1 DEF OneHand
  <2>3. PICK v \in People \cup {Nobody} : BelongsTo(s, v)
    BY <2>2 DEF OneHand
  <2>4. \A j \in Slots : CallBelongs(j, s, v)'
    BY <1>3, <2>1, <2>3, CallsBelong
  <2>5. CASE session # s
    <3>1. BelongsTo(s, v)'
      BY <1>1, <2>3, <2>4, <2>5 DEF BelongsTo, Own
    <3>. QED
      BY <3>1
  <2>6. CASE session = s
    <3>1. v = Nobody /\ ticked = {} /\ attached[s] = {}
      BY <1>1, <2>3, <2>6 DEF BelongsTo, Own
    <3>2. \A i \in DOMAIN log : log[i] \in TurnRec
      BY DEF Threads, Thread
    <3>3. \A i \in DOMAIN items : items[i] \in TurnRec
      BY DEF Threads, Thread
    <3>4. \A j \in Slots : \A i \in DOMAIN calls[j].items : calls[j].items[i] \in TurnRec
      BY DEF Threads, Thread
    <3>5. /\ \A i \in DOMAIN log : log[i].session # s
          /\ \A i \in DOMAIN items : items[i].session # s
      BY <2>3, <3>1, <3>2, <3>3, BrowserPageAssumption DEF BelongsTo, TurnRec
    <3>6. \A j \in Slots : \A i \in DOMAIN calls[j].items : calls[j].items[i].session # s
      BY <2>3, <3>1, <3>4, BrowserPageAssumption DEF BelongsTo, CallBelongs, TurnRec
    <3>7. \A j \in Slots : ~(calls[j].kind = "ask" /\ calls[j].session = s)
      BY <2>3, <3>1 DEF BelongsTo, CallBelongs, Shape, CallShaped
    <3>8. \A j \in Slots : CallBelongs(j, s, u)'
      BY <1>2, <3>6, <3>7 DEF CallBelongs, Sends, NewCall
    <3>9. BelongsTo(s, u)'
      BY <1>1, <3>1, <3>5, <3>8 DEF BelongsTo
    <3>. QED
      BY <3>9
  <2>. QED
    BY <2>5, <2>6
<1>9. Settling'
  <2>1. Asked' /\ \E j \in Slots : calls'[j].kind = "list"
    BY <1>2 DEF Asked, Sends, NewCall
  <2>. QED
    BY <2>1 DEF Settling
<1>. QED
  BY <1>4, <1>5, <1>6, <1>7, <1>8, <1>9

\* handleLogout hands the session over.
LEMMA SignOutKeeps ==
    ASSUME Belonging, acts' \in 0..Acts, acts <= acts', losses' = losses, SignOut
    PROVE  Belonging'
<1> USE DEF Belonging
<1>1. /\ user # Nobody /\ user' = Nobody /\ turns' = <<>> /\ listed' = NoList
      /\ session' = session /\ ticked' = ticked /\ items' = items /\ open' = open
      /\ owner' = owner /\ status' = status /\ later' = later
      /\ attached' = attached /\ log' = log
      /\ drawn' = drawn /\ behind' = behind /\ handed' = handed \cup {session}
  BY DEF SignOut, server
<1>2. /\ calls' \in [Slots -> CallRec]
      /\ \A j \in Slots :
           \/ Emptied(j) /\ calls[j].kind = "list"
           \/ /\ Going(j) /\ calls'[j].items = calls[j].items
              /\ calls[j].kind # "list"
              /\ calls'[j].kind \in {"upload", "delete"} => ~calls'[j].live
  <2>1. ASSUME NEW j \in Slots, calls[j].kind # "list"
        PROVE  /\ [calls[j] EXCEPT !.live = calls[j].kind \notin {"upload", "delete"}]
                    \in CallRec
               /\ calls'[j] = [calls[j] EXCEPT !.live =
                                 calls[j].kind \notin {"upload", "delete"}]
    <3>1. calls[j] \in CallRec
      BY DEF Shape
    <3>2. calls' = Unmounted
      BY DEF SignOut
    <3>3. calls'[j] = [calls[j] EXCEPT !.live = calls[j].kind \notin {"upload", "delete"}]
      BY <2>1, <3>2 DEF Unmounted
    <3>4. (calls[j].kind \notin {"upload", "delete"}) \in BOOLEAN
      OBVIOUS
    <3>5. [calls[j] EXCEPT !.live = calls[j].kind \notin {"upload", "delete"}] \in CallRec
      BY <3>1, <3>4 DEF CallRec
    <3>. QED
      BY <3>3, <3>5
  <2>2. ASSUME NEW j \in Slots, calls[j].kind = "list" PROVE calls'[j] = NoCall
    BY <2>2 DEF SignOut, Unmounted
  <2>3. calls' \in [Slots -> CallRec]
    BY <2>1, <2>2, NoCallIs DEF SignOut, Unmounted
  <2>4. ASSUME NEW j \in Slots, calls[j].kind # "list"
        PROVE  /\ Going(j) /\ calls'[j].items = calls[j].items
               /\ calls'[j].kind \in {"upload", "delete"} => ~calls'[j].live
    <3>1. calls[j] \in CallRec
      BY DEF Shape
    <3>2. calls'[j] = [calls[j] EXCEPT !.live = calls[j].kind \notin {"upload", "delete"}]
      BY <2>1, <2>4
    <3>3. /\ calls'[j].kind = calls[j].kind /\ calls'[j].by = calls[j].by
          /\ calls'[j].session = calls[j].session /\ calls'[j].question = calls[j].question
          /\ calls'[j].files = calls[j].files /\ calls'[j].phase = calls[j].phase
          /\ calls'[j].items = calls[j].items
      BY <3>1, <3>2 DEF CallRec
    <3>4. calls'[j].live <=> calls[j].kind \notin {"upload", "delete"}
      BY <3>1, <3>2 DEF CallRec
    <3>. QED
      BY <3>3, <3>4 DEF Going
  <2>5. ASSUME NEW j \in Slots, calls[j].kind = "list" PROVE Emptied(j)
    BY <2>2, <2>5, NoCallIs DEF Emptied
  <2>. QED
    BY <2>3, <2>4, <2>5
<1>3. PICK m \in Slots : Requests(m)
  BY <1>1, <1>2, BrowserPageAssumption DEF Requests, Shape, Slots
<1>4. ItemsStay
  BY <1>2 DEF ItemsStay, Emptied
<1>5. Shape'
  <2>1. \A j \in Slots : CallShaped(j)'
    BY <1>3, CallsShaped DEF Shape
  <2>2. listed' \in [Files -> Status]
    BY <1>1 DEF NoList, Status
  <2>. QED
    BY <1>1, <1>2, <2>1, <2>2 DEF Shape
<1>6. Threads'
  <2>1. Thread(items, acts, drawn)'
    BY <1>1, <1>3, ThreadStays DEF Threads, Shape, Requests
  <2>2. Thread(turns, acts, drawn)'
    BY <1>1, NoTurns
  <2>. QED
    BY <1>1, <1>3, <1>4, <2>1, <2>2, ThreadsKeep
<1>7. Hands'
  BY <1>1, <1>2 DEF Hands, Emptied, Going
<1>8. Lists'
  <2>1. /\ \A j \in Slots : calls'[j].kind = "upload" =>
             /\ \E f \in Files : calls'[j].files = {f}
             /\ calls'[j].phase = "sent" =>
                  \A f \in calls'[j].files : owner'[f] = Nobody
        /\ \A i, j \in Slots :
             calls'[i].kind = "upload" /\ calls'[j].kind = "upload" /\ i # j =>
               calls'[i].files \cap calls'[j].files = {}
    BY <1>1, <1>3, UploadsApart
  <2>2. \A j \in Slots : calls'[j].kind # "list"
    BY <1>2 DEF Emptied, Going
  <2>3. Shown(user, listed)'
    BY <1>1 DEF Shown, NoList
  <2>. QED
    BY <2>1, <2>2, <2>3 DEF Lists
<1>9. OneHand'
  <2>1. OwnStays
    BY <1>1 DEF OwnStays, Own
  <2>2. SUFFICES ASSUME NEW s \in 1..Sessions, s \notin handed'
                 PROVE  \E v \in People \cup {Nobody} : BelongsTo(s, v)'
    BY DEF OneHand
  <2>3. PICK v \in People \cup {Nobody} : BelongsTo(s, v)
    BY <1>1, <2>2 DEF OneHand
  <2>4. \A j \in Slots : CallBelongs(j, s, v)'
    BY <1>3, <1>4, <2>1, <2>3, CallsBelong
  <2>5. BelongsTo(s, v)'
    BY <1>1, <2>2, <2>3, <2>4 DEF BelongsTo, Own
  <2>. QED
    BY <2>5
<1>10. Settling'
  BY <1>1 DEF Settling
<1>. QED
  BY <1>5, <1>6, <1>7, <1>8, <1>9, <1>10

LEMMA SubmitKeeps ==
    ASSUME Belonging, acts < Acts, acts' = acts + 1, losses' = losses, SubmitQuestion
    PROVE  Belonging'
<1> USE DEF Belonging
<1> DEFINE t == Turn(acts + 1, user, session, "loading", 0)
<1>1. /\ user \in People /\ user # Nobody /\ user' = user /\ session' = session
      /\ turns' = Append(turns, t) /\ HasSlot
      /\ calls' = Sending(calls, user, "ask", acts + 1, ticked)
      /\ ticked' = ticked /\ items' = items /\ open' = open /\ listed' = listed
      /\ owner' = owner /\ status' = status /\ later' = later
      /\ attached' = attached /\ log' = log
      /\ drawn' = drawn /\ handed' = handed /\ behind' = behind
  BY DEF SubmitQuestion, server, Shape
<1>2. acts \in Nat /\ acts' \in 0..Acts /\ acts + 1 \in Nat
  BY BrowserPageAssumption DEF Shape
<1>3. PICK k \in Slots, c \in CallRec : Sends(k, c, "ask", acts + 1, ticked)
  BY <1>1, <1>2, Fetches DEF Kinds, Shape
<1>4. Requests(k) /\ ItemsStay
  BY <1>1, <1>2, <1>3, SendRequests DEF Kinds
<1>5. Shape'
  <2>1. \A j \in Slots : CallShaped(j)'
    BY <1>4, CallsShaped DEF Shape
  <2>. QED
    BY <1>1, <1>2, <1>3, <2>1 DEF Shape, Sends
<1>6. t \in TurnRec /\ t.question = acts + 1 /\ t.session = session /\ t.by = user
      /\ t.state = "loading"
  <2>1. session \in 1..Sessions
    BY BrowserPageAssumption DEF Shape
  <2>. QED
    BY <1>1, <1>2, <2>1 DEF Turn, TurnRec
<1> HIDE DEF t
<1>7. /\ turns \in Seq(TurnRec) /\ turns' \in Seq(TurnRec)
      /\ DOMAIN turns' = 1..(Len(turns) + 1) /\ DOMAIN turns = 1..Len(turns)
      /\ turns'[Len(turns) + 1] = t
      /\ \A i \in 1..Len(turns) : turns'[i] = turns[i]
      /\ Len(turns) \in Nat
  BY <1>1, <1>6 DEF Threads, Thread
<1>8. \A i \in DOMAIN turns' : \/ i \in DOMAIN turns /\ turns'[i] = turns[i]
                               \/ i = Len(turns) + 1 /\ turns'[i] = t
  BY <1>7
<1>9. Threads'
  <2>1. Thread(turns, acts, drawn)
    BY DEF Threads
  <2>2. \A i \in DOMAIN turns : turns[i].question \in Nat /\ turns[i].question <= acts
    <3>1. \A i \in DOMAIN turns : turns[i] \in TurnRec
      BY <1>7
    <3>. QED
      BY <2>1, <3>1 DEF Thread, TurnRec
  <2>3. \A i \in DOMAIN turns' :
          /\ turns'[i].question <= acts' /\ turns'[i].session <= drawn'
          /\ turns'[i].state = "answered" => turns'[i].shows = turns'[i].question
    BY <1>1, <1>2, <1>6, <1>8, <2>1, <2>2 DEF Thread, Shape
  <2>4. ASSUME NEW i \in DOMAIN turns', NEW j \in DOMAIN turns',
               turns'[i].question = turns'[j].question
        PROVE  i = j
    BY <1>2, <1>6, <1>8, <2>1, <2>2, <2>4 DEF Thread
  <2>5. Thread(turns', acts', drawn')
    BY <1>7, <2>3, <2>4 DEF Thread
  <2>6. Thread(items, acts, drawn)'
    BY <1>1, <1>4, ThreadStays DEF Threads, Shape, Requests
  <2>. QED
    BY <1>1, <1>4, <2>5, <2>6, ThreadsKeep
<1>10. Hands'
  <2>1. \A i \in DOMAIN turns' :
          /\ turns'[i].session = session'
          /\ turns'[i].by = user \/ session' \in handed'
    BY <1>1, <1>6, <1>8 DEF Hands
  <2>. QED
    BY <1>1, <1>4, <2>1, HandsKeep
<1>11. Lists'
  <2>1. \A j \in Slots : calls'[j].kind = "list" /\ calls'[j].phase = "served" =>
          /\ calls[j].kind = "list" /\ calls[j].phase = "served"
          /\ calls'[j].list = calls[j].list
    BY <1>3 DEF Sends, NewCall
  <2>. QED
    BY <1>1, <1>4, <2>1, ListsKeep
<1>12. OneHand'
  <2>1. OwnStays
    BY <1>1 DEF OwnStays, Own
  <2>. QED
    BY <1>1, <1>4, <2>1, OneHandKeeps DEF Shape
<1>13. Settling'
  <2>1. \A j \in Slots : calls[j].kind \in {"list", "upload", "delete"} => j # k
    BY <1>3 DEF Sends, Shape, CallShaped
  <2>2. \A f \in Files : Visible(user)'[f] = Visible(user)[f]
    BY <1>1, VisibleStays
  <2>3. PanelStays
    BY <1>1, <1>3, <2>1, <2>2 DEF PanelStays, ListStays, Sends, NewCall
  <2>. QED
    BY <2>3, SettlingKeeps
<1>. QED
  BY <1>5, <1>9, <1>10, <1>11, <1>12, <1>13

\* A session drawn anew is nobody else's.
LEMMA StartNewChatKeeps ==
    ASSUME Belonging, acts' \in 0..Acts, acts <= acts', losses' = losses, StartNewChat
    PROVE  Belonging'
<1> USE DEF Belonging
<1>1. /\ user \in People /\ user # Nobody /\ user' = user /\ calls' = calls
      /\ drawn < Sessions /\ session' = drawn + 1 /\ drawn' = drawn + 1
      /\ turns' = <<>> /\ ticked' = {}
      /\ items' = items /\ open' = open /\ listed' = listed
      /\ owner' = owner /\ status' = status /\ later' = later
      /\ attached' = attached /\ log' = log
      /\ handed' = handed /\ behind' = behind
  BY DEF StartNewChat, server, Shape
<1>2. /\ drawn \in Nat /\ drawn' \in 1..Sessions /\ session' \in 1..drawn' /\ drawn <= drawn'
      /\ acts \in Nat /\ acts' \in Nat
  BY <1>1, BrowserPageAssumption DEF Shape
<1>3. 1 \in Slots /\ Requests(1) /\ ItemsStay
  BY <1>1, <1>2, NoRequests
<1>4. Shape'
  <2>1. \A j \in Slots : CallShaped(j)'
    BY <1>3, CallsShaped DEF Shape
  <2>2. \A s \in 1..Sessions : s > drawn' => attached'[s] = {}
    BY <1>1, <1>2 DEF Shape
  <2>3. handed' \subseteq 1..drawn'
    BY <1>1, <1>2 DEF Shape
  <2>. QED
    BY <1>1, <1>2, <2>1, <2>2, <2>3 DEF Shape
<1>5. Threads'
  <2>1. Thread(items, acts, drawn)'
    BY <1>1, <1>3, ThreadStays DEF Threads, Shape, Requests
  <2>2. Thread(turns, acts, drawn)'
    BY <1>1, NoTurns
  <2>. QED
    BY <1>1, <1>3, <2>1, <2>2, ThreadsKeep
<1>6. Hands'
  BY <1>1 DEF Hands
<1>7. Lists'
  BY <1>1 DEF Lists, Shown
<1>8. OneHand'
  <2>1. OwnStays
    BY <1>1 DEF OwnStays, Own
  <2>2. SUFFICES ASSUME NEW s \in 1..Sessions, s \notin handed
                 PROVE  \E v \in People \cup {Nobody} : BelongsTo(s, v)'
    BY <1>1 DEF OneHand
  <2>3. PICK v \in People \cup {Nobody} : BelongsTo(s, v)
    BY <2>2 DEF OneHand
  <2>4. CASE s # drawn + 1
    <3>1. \A j \in Slots : CallBelongs(j, s, v)'
      BY <1>3, <2>1, <2>3, CallsBelong
    <3>2. BelongsTo(s, v)'
      BY <1>1, <2>3, <2>4, <3>1 DEF BelongsTo, Own
    <3>. QED
      BY <3>2
  <2>5. CASE s = drawn + 1
    <3>1. \A ts : Thread(ts, acts, drawn) => \A i \in DOMAIN ts : ts[i].session # s
      <4>1. ASSUME NEW ts, Thread(ts, acts, drawn), NEW i \in DOMAIN ts
            PROVE  ts[i].session # s
        <5>1. ts[i].session <= drawn
          BY <4>1 DEF Thread
        <5>. QED
          BY <1>2, <2>5, <5>1
      <4>. QED
        BY <4>1
    <3>2. /\ \A i \in DOMAIN log : log[i].session # s
          /\ \A i \in DOMAIN items : items[i].session # s
          /\ \A j \in Slots : \A i \in DOMAIN calls[j].items : calls[j].items[i].session # s
      BY <3>1 DEF Threads
    <3>3. \A j \in Slots : calls[j].kind = "ask" => calls[j].session # s
      BY <1>2, <2>5 DEF Shape, CallShaped
    <3>4. attached[s] = {}
      BY <1>2, <2>5 DEF Shape
    <3>5. \A j \in Slots : CallBelongs(j, s, user)'
      BY <1>1, <3>2, <3>3 DEF CallBelongs
    <3>6. BelongsTo(s, user)'
      BY <1>1, <3>2, <3>4, <3>5 DEF BelongsTo
    <3>. QED
      BY <1>1, <3>6
  <2>. QED
    BY <2>4, <2>5
<1>9. Settling'
  BY <1>1, VisibleStays DEF Settling, Current, Changed, Asked, Newer
<1>. QED
  BY <1>4, <1>5, <1>6, <1>7, <1>8, <1>9

\* Closing the panel, or ticking a file in the list.
LEMMA PageKeeps ==
    ASSUME Belonging, acts' \in 0..Acts, acts <= acts', losses' = losses,
           user \in People, open' \in BOOLEAN,
           \A f \in ticked' : f \in Files /\ (f \in ticked \/ listed[f] = "ready"),
           UNCHANGED <<user, session, turns, items, listed, calls, server, ghosts>>
    PROVE  Belonging'
<1> USE DEF Belonging
<1>1. /\ user' = user /\ session' = session /\ turns' = turns /\ calls' = calls
      /\ items' = items /\ listed' = listed
      /\ owner' = owner /\ status' = status /\ later' = later
      /\ attached' = attached /\ log' = log
      /\ drawn' = drawn /\ handed' = handed /\ behind' = behind
  BY DEF server, ghosts
<1>2. acts \in Nat /\ acts' \in Nat /\ user # Nobody
  BY BrowserPageAssumption DEF Shape
<1>3. 1 \in Slots /\ Requests(1) /\ ItemsStay
  BY <1>1, <1>2, NoRequests DEF Shape
<1>4. Shape'
  <2>1. \A j \in Slots : CallShaped(j)'
    BY <1>3, CallsShaped DEF Shape
  <2>. QED
    BY <1>1, <2>1 DEF Shape
<1>5. Threads'
  BY <1>1, <1>3, ThreadsSame
<1>6. Hands'
  BY <1>1 DEF Hands
<1>7. Lists'
  BY <1>1 DEF Lists, Shown
<1>8. OneHand'
  <2>1. OwnStays
    BY <1>1 DEF OwnStays, Own
  <2>2. \A f \in ticked' : f \in Files /\ (f \in ticked \/ Own(user, f))
    BY <1>2 DEF Lists, Shown, Own
  <2>. QED
    BY <1>1, <1>3, <2>1, <2>2, OneHandKeeps
<1>9. Settling'
  BY <1>1, VisibleStays DEF Settling, Current, Changed, Asked, Newer
<1>. QED
  BY <1>4, <1>5, <1>6, <1>7, <1>8, <1>9

\* resumeHistorySession shows the session's turns of the history, and the
\* session is handed over if one of them is another person's.
LEMMA ResumeKeeps ==
    ASSUME Belonging, acts' \in 0..Acts, acts <= acts', losses' = losses,
           NEW s \in 1..drawn, Resume(s)
    PROVE  Belonging'
<1> USE DEF Belonging
<1> DEFINE mine == {i \in DOMAIN items : items[i].session = s}
<1>1. /\ user \in People /\ user # Nobody /\ user' = user /\ calls' = calls
      /\ mine # {} /\ session' = s /\ ticked' = {} /\ open' = FALSE
      /\ items' = items /\ listed' = listed
      /\ owner' = owner /\ status' = status /\ later' = later
      /\ attached' = attached /\ log' = log
      /\ drawn' = drawn /\ behind' = behind
  BY DEF Resume, server, Shape
<1>2. handed' = handed \cup {t \in {s} : \E i \in mine : items[i].by # user}
  BY DEF Resume
<1>3. PICK at \in LastFirst(mine) : turns' = [i \in DOMAIN at |-> items[at[i]]]
  BY DEF Resume
<1>4. mine \in SUBSET (DOMAIN items)
  OBVIOUS
<1>5. items \in Seq(TurnRec) /\ Thread(items, acts, drawn)
  BY DEF Threads, Thread
<1> HIDE DEF mine
<1>6. /\ Cardinality(mine) \in Nat /\ at \in [1..Cardinality(mine) -> mine]
      /\ DOMAIN at = 1..Cardinality(mine)
  BY <1>4, <1>5, LastFirstIs
<1>7. Thread(turns', acts, drawn)
  <2>1. Cardinality(mine) \in 0..Cardinality(mine)
    BY <1>6
  <2>2. Thread([i \in 1..Cardinality(mine) |-> items[at[i]]], acts, drawn)
    BY <1>4, <1>5, <2>1, ThreadPicked
  <2>. QED
    BY <1>3, <1>6, <2>2
<1>8. acts \in Nat /\ acts' \in Nat /\ s \in 1..Sessions /\ drawn \in Nat
  BY BrowserPageAssumption DEF Shape
<1>9. 1 \in Slots /\ Requests(1) /\ ItemsStay
  BY <1>1, <1>8, NoRequests DEF Shape
<1>10. Shape'
  <2>1. \A j \in Slots : CallShaped(j)'
    BY <1>9, CallsShaped DEF Shape
  <2>. QED
    BY <1>1, <1>2, <2>1 DEF Shape
<1>11. Threads'
  <2>1. Thread(turns, acts, drawn)'
    BY <1>1, <1>7, <1>8, ThreadStays
  <2>2. Thread(items, acts, drawn)'
    BY <1>1, <1>5, <1>8, ThreadStays
  <2>. QED
    BY <1>1, <1>9, <2>1, <2>2, ThreadsKeep
<1>12. Hands'
  <2>1. ASSUME NEW i \in DOMAIN turns'
        PROVE  /\ turns'[i].session = session'
               /\ turns'[i].by = user \/ session' \in handed'
    <3>1. at[i] \in mine /\ turns'[i] = items[at[i]]
      BY <1>3, <1>6
    <3>. QED
      BY <1>1, <1>2, <3>1 DEF mine
  <2>. QED
    BY <1>1, <1>9, <2>1, HandsKeep
<1>13. Lists'
  BY <1>1 DEF Lists, Shown
<1>14. OneHand'
  <2>1. OwnStays
    BY <1>1 DEF OwnStays, Own
  <2>2. SUFFICES ASSUME NEW r \in 1..Sessions, r \notin handed'
                 PROVE  \E v \in People \cup {Nobody} : BelongsTo(r, v)'
    BY DEF OneHand
  <2>3. PICK v \in People \cup {Nobody} : BelongsTo(r, v)
    BY <1>2, <2>2 DEF OneHand
  <2>4. \A j \in Slots : CallBelongs(j, r, v)'
    BY <1>9, <2>1, <2>3, CallsBelong
  <2>5. r = s => v = user
    <3>1. ASSUME r = s PROVE v = user
      <4>1. PICK i \in mine : TRUE
        BY <1>1
      <4>2. items[i].by = user
        BY <1>2, <2>2, <3>1
      <4>3. i \in DOMAIN items /\ items[i].session = s
        BY DEF mine
      <4>. QED
        BY <2>3, <3>1, <4>2, <4>3 DEF BelongsTo
    <3>. QED
      BY <3>1
  <2>6. BelongsTo(r, v)'
    BY <1>1, <2>3, <2>4, <2>5 DEF BelongsTo, Own
  <2>. QED
    BY <2>6
<1>15. Settling'
  BY <1>1, VisibleStays DEF Settling, Current, Changed, Asked, Newer
<1>. QED
  BY <1>10, <1>11, <1>12, <1>13, <1>14, <1>15

\* Background processing changes only files nobody may ask about yet.
LEMMA ProcessKeeps ==
    ASSUME Belonging, NEW f \in Files, Process(f) PROVE Belonging'
<1> USE DEF Belonging
<1>1. /\ user' = user /\ session' = session /\ turns' = turns /\ calls' = calls
      /\ ticked' = ticked /\ open' = open /\ items' = items /\ listed' = listed
      /\ owner' = owner /\ later' = later /\ attached' = attached /\ log' = log
      /\ drawn' = drawn /\ handed' = handed /\ behind' = behind
      /\ acts' = acts /\ losses' = losses
  BY DEF Process, page, ghosts
<1>2. /\ status[f] = "processing" /\ status' \in [Files -> Status] /\ status'[f] # "none"
      /\ \A g \in Files : g # f => status'[g] = status[g]
  BY DEF Process, Shape, Status
<1>3. acts \in Nat
  BY BrowserPageAssumption DEF Shape
<1>4. 1 \in Slots /\ Requests(1) /\ ItemsStay
  BY <1>1, <1>3, NoRequests DEF Shape
<1>5. Shape'
  <2>1. \A j \in Slots : CallShaped(j)'
    BY <1>4, CallsShaped DEF Shape
  <2>. QED
    BY <1>1, <1>2, <2>1 DEF Shape
<1>6. Threads'
  BY <1>1, <1>4, ThreadsSame
<1>7. Hands'
  BY <1>1 DEF Hands
<1>8. Lists'
  <2>1. ASSUME NEW list, Shown(user, list)
        PROVE  \A g \in Files : list[g] # "none" =>
                 owner[g] = user /\ (list[g] = "ready" => status'[g] \in {"ready", "none"})
    BY <1>2, <2>1 DEF Shown
  <2>2. \A g \in Files : listed[g] # "none" =>
          owner[g] = user /\ (listed[g] = "ready" => status'[g] \in {"ready", "none"})
    BY <2>1 DEF Lists
  <2>3. \A j \in Slots : calls[j].kind = "list" /\ calls[j].phase = "served" =>
          \A g \in Files : calls[j].list[g] # "none" =>
            /\ owner[g] = user
            /\ calls[j].list[g] = "ready" => status'[g] \in {"ready", "none"}
    BY <2>1 DEF Lists
  <2>. QED
    BY <1>1, <2>2, <2>3 DEF Lists, Shown
<1>9. OneHand'
  <2>1. OwnStays
    BY <1>1, <1>2 DEF OwnStays, Own
  <2>. QED
    BY <1>1, <1>4, <2>1, OneHandKeeps DEF Shape
<1>10. Settling'
  <2> DEFINE kept == {g \in Files : owner[g] = user /\ status[g] # "none"}
             Newest(g) == g \in kept /\ Cardinality(kept \cap later[g]) < FilesPage
  <2>1. kept' = kept
    BY <1>1, <1>2
  <2>2. \A g \in Files : Newest(g)' <=> Newest(g)
    BY <1>1, <2>1
  <2>3. /\ \A g \in Files : Visible(user)[g] = IF Newest(g) THEN status[g] ELSE "none"
        /\ \A g \in Files : Visible(user)'[g] = IF Newest(g)' THEN status'[g] ELSE "none"
    BY <1>1 DEF Visible
  <2> HIDE DEF Newest
  <2>4. \A g \in Files : \/ Visible(user)'[g] = Visible(user)[g]
                         \/ Visible(user)[g] = "processing"
    BY <1>2, <2>2, <2>3
  <2>5. PanelStays
    BY <1>1, <2>4 DEF PanelStays, ListStays
  <2>. QED
    BY <2>5, SettlingKeeps
<1>. QED
  BY <1>5, <1>6, <1>7, <1>8, <1>9, <1>10

-----------------------------------------------------------------------------
(* The server.                                                             *)

LEMMA ServedIs ==
    ASSUME Shape, NEW k \in Slots, calls[k].phase = "sent",
           NEW result \in {"done", "refused", "failed"}
    PROVE  /\ Served(k, result) \in [Slots -> CallRec]
           /\ \A j \in Slots : j # k => Served(k, result)[j] = calls[j]
           /\ Served(k, result)[k].phase = "served" /\ Served(k, result)[k].result = result
           /\ Served(k, result)[k].kind = calls[k].kind
           /\ Served(k, result)[k].by = calls[k].by
           /\ Served(k, result)[k].session = calls[k].session
           /\ Served(k, result)[k].live = calls[k].live
           /\ Served(k, result)[k].question = calls[k].question
           /\ Served(k, result)[k].files = calls[k].files
           /\ Served(k, result)[k].late = calls[k].late
           /\ Served(k, result)[k].items = calls[k].items
           /\ Served(k, result)[k].list = calls[k].list
           /\ Served(k, result)[k].before = calls[k].before
<1> DEFINE c == [calls[k] EXCEPT !.phase = "served", !.result = result]
<1>1. calls \in [Slots -> CallRec] /\ calls[k] \in CallRec
  BY DEF Shape
<1>2. Served(k, result) = [calls EXCEPT ![k] = c]
  BY <1>1 DEF Served
<1>3. /\ c \in CallRec /\ c.phase = "served" /\ c.result = result
      /\ c.kind = calls[k].kind /\ c.by = calls[k].by /\ c.session = calls[k].session
      /\ c.live = calls[k].live /\ c.question = calls[k].question
      /\ c.files = calls[k].files /\ c.late = calls[k].late
      /\ c.items = calls[k].items /\ c.list = calls[k].list /\ c.before = calls[k].before
  BY <1>1 DEF CallRec
<1> HIDE DEF c
<1>. QED
  BY <1>1, <1>2, <1>3

\* chat_query_v2 adds at most the question itself to the history of its
\* asker, and leaves its files with the session.
LEMMA ServeAskKeeps ==
    ASSUME Belonging, NEW k \in Slots, calls[k].phase = "sent", ServeAsk(k),
           UNCHANGED <<page, ghosts, acts, losses>>
    PROVE  Belonging'
<1> USE DEF Belonging
<1> DEFINE files == IF calls[k].files # {} THEN calls[k].files
                    ELSE attached[calls[k].session]
<1>1. /\ user' = user /\ session' = session /\ turns' = turns
      /\ ticked' = ticked /\ open' = open /\ items' = items /\ listed' = listed
      /\ owner' = owner /\ status' = status /\ later' = later
      /\ drawn' = drawn /\ handed' = handed /\ behind' = behind
      /\ acts' = acts /\ losses' = losses
  BY DEF ServeAsk, page, ghosts
<1>2. /\ calls[k].kind = "ask" /\ calls[k] \in CallRec
      /\ calls[k].session \in 1..drawn /\ calls[k].session \in 1..Sessions
      /\ calls[k].question \in Nat /\ calls[k].question <= acts
      /\ calls[k].by \in People
  <2>1. calls[k].kind = "ask" /\ calls[k] \in CallRec /\ CallShaped(k)
    BY DEF ServeAsk, Shape
  <2>. QED
    BY <2>1, BrowserPageAssumption DEF CallShaped, CallRec, Shape
<1>3. attached' = [attached EXCEPT ![calls[k].session] = files]
  BY DEF ServeAsk
<1>4. \/ log' = log /\ \E result \in {"done", "refused", "failed"} : calls' = Served(k, result)
      \/ \E t \in TurnRec, result \in {"done", "failed"} :
           /\ log' = Append(log, t) /\ calls' = Served(k, result)
           /\ t.question = calls[k].question /\ t.by = calls[k].by
           /\ t.session = calls[k].session
           /\ t.state = "answered" => t.shows = t.question
  <2>1. \/ log' = log /\ \E result \in {"done", "refused", "failed"} : calls' = Served(k, result)
        \/ /\ log' = Append(log, Turn(calls[k].question, calls[k].by, calls[k].session,
                                     "answered", calls[k].question))
           /\ calls' = Served(k, "done")
        \/ /\ log' = Append(log, Turn(calls[k].question, calls[k].by, calls[k].session,
                                     "error", 0))
           /\ calls' = Served(k, "failed")
    BY DEF ServeAsk
  <2>2. \A state \in {"answered", "error"} : \A shows \in Nat :
          LET t == Turn(calls[k].question, calls[k].by, calls[k].session, state, shows)
          IN  /\ t \in TurnRec /\ t.question = calls[k].question /\ t.by = calls[k].by
              /\ t.session = calls[k].session /\ t.state = state /\ t.shows = shows
    BY <1>2 DEF Turn, TurnRec
  <2>. QED
    BY <1>2, <2>1, <2>2
<1>5. PICK result \in {"done", "refused", "failed"} : calls' = Served(k, result)
  BY <1>4
<1>6. Serves(k) /\ calls'[k].items = calls[k].items
  BY <1>5, ServedIs DEF Serves
<1>7. Requests(k)
  BY <1>1, <1>6, ServeRequests
<1>8. ItemsStay
  BY <1>6 DEF ItemsStay, Serves
<1>9. log \in Seq(TurnRec) /\ Thread(log, acts, drawn)
  BY DEF Threads, Thread
<1>10. /\ log' \in Seq(TurnRec) /\ \A i \in DOMAIN log : log'[i] = log[i]
       /\ \A i \in DOMAIN log' : i \notin DOMAIN log =>
            /\ i = Len(log) + 1
            /\ log'[i].question = calls[k].question /\ log'[i].by = calls[k].by
            /\ log'[i].session = calls[k].session
            /\ log'[i].state = "answered" => log'[i].shows = log'[i].question
  <2>1. CASE log' = log
    BY <1>9, <2>1
  <2>2. CASE \E t \in TurnRec :
               /\ log' = Append(log, t)
               /\ t.question = calls[k].question /\ t.by = calls[k].by
               /\ t.session = calls[k].session
               /\ t.state = "answered" => t.shows = t.question
    <3>1. PICK t \in TurnRec :
               /\ log' = Append(log, t)
               /\ t.question = calls[k].question /\ t.by = calls[k].by
               /\ t.session = calls[k].session
               /\ t.state = "answered" => t.shows = t.question
      BY <2>2
    <3>2. /\ log' \in Seq(TurnRec) /\ DOMAIN log = 1..Len(log) /\ Len(log) \in Nat
          /\ DOMAIN log' = 1..(Len(log) + 1) /\ log'[Len(log) + 1] = t
          /\ \A i \in 1..Len(log) : log'[i] = log[i]
      BY <1>9, <3>1
    <3>3. \A i \in DOMAIN log' : i \notin DOMAIN log => i = Len(log) + 1
      BY <3>2
    <3>. QED
      BY <3>1, <3>2, <3>3
  <2>. QED
    BY <1>4, <2>1, <2>2
<1>11. Shape'
  <2>1. \A j \in Slots : CallShaped(j)'
    BY <1>7, CallsShaped DEF Shape
  <2>2. files \subseteq Files
    BY <1>2 DEF CallRec, Shape
  <2>3. attached' \in [1..Sessions -> SUBSET Files]
    BY <1>3, <2>2 DEF Shape
  <2>4. \A s \in 1..Sessions : s > drawn => attached'[s] = {}
    <3>1. ASSUME NEW s \in 1..Sessions, s > drawn PROVE attached'[s] = {}
      <4>1. s # calls[k].session
        BY <1>2, <3>1 DEF Shape
      <4>. QED
        BY <1>3, <3>1, <4>1 DEF Shape
    <3>. QED
      BY <3>1
  <2>. QED
    BY <1>1, <1>6, <2>1, <2>3, <2>4 DEF Shape, Serves
<1>12. Threads'
  <2>1. /\ Thread(turns, acts, drawn)' /\ Thread(items, acts, drawn)'
        /\ \A j \in Slots : Thread(calls[j].items, acts, drawn)'
    BY <1>1, <1>7, <1>8, CallThreadsStay DEF Threads
  <2>2. \A i \in DOMAIN log : log[i].question # calls[k].question
    BY <1>2 DEF Threads
  <2>3. /\ \A i \in DOMAIN log' :
             /\ log'[i].question <= acts /\ log'[i].session <= drawn
             /\ log'[i].state = "answered" => log'[i].shows = log'[i].question
        /\ \A i, j \in DOMAIN log' : log'[i].question = log'[j].question => i = j
    BY <1>2, <1>9, <1>10, <2>2 DEF Thread, Shape
  <2>4. Thread(log', acts', drawn')
    BY <1>1, <1>10, <2>3 DEF Thread
  <2>5. \A i, j \in Slots : calls'[i].kind = "ask" /\ calls'[j].kind = "ask" /\
             calls'[i].question = calls'[j].question => i = j
    BY <1>7, AsksApart
  <2>6. ASSUME NEW j \in Slots, calls'[j].kind = "ask", calls'[j].phase = "sent",
               NEW i \in DOMAIN log'
        PROVE  log'[i].question # calls'[j].question
    <3>1. j # k /\ calls'[j] = calls[j]
      BY <1>6, <2>6 DEF Serves
    <3>2. CASE i \in DOMAIN log
      BY <1>10, <2>6, <3>1, <3>2 DEF Threads
    <3>3. CASE i \notin DOMAIN log
      <4>1. calls[j].question # calls[k].question
        BY <1>2, <2>6, <3>1 DEF Threads
      <4>. QED
        BY <1>10, <3>1, <3>3, <4>1
    <3>. QED
      BY <3>2, <3>3
  <2>. QED
    BY <2>1, <2>4, <2>5, <2>6 DEF Threads
<1>13. Hands'
  BY <1>1, <1>7, HandsSame
<1>14. Lists'
  <2>1. \A j \in Slots : calls'[j].kind = "list" /\ calls'[j].phase = "served" =>
          /\ calls[j].kind = "list" /\ calls[j].phase = "served"
          /\ calls'[j].list = calls[j].list
    BY <1>2, <1>6 DEF Serves
  <2>. QED
    BY <1>1, <1>7, <2>1, ListsKeep
<1>15. OneHand'
  <2>1. OwnStays
    BY <1>1 DEF OwnStays, Own
  <2>2. SUFFICES ASSUME NEW s \in 1..Sessions, s \notin handed
                 PROVE  \E v \in People \cup {Nobody} : BelongsTo(s, v)'
    BY <1>1 DEF OneHand
  <2>3. PICK v \in People \cup {Nobody} : BelongsTo(s, v)
    BY <2>2 DEF OneHand
  <2>4. \A j \in Slots : CallBelongs(j, s, v)'
    BY <1>7, <1>8, <2>1, <2>3, CallsBelong
  <2>5. s = calls[k].session => calls[k].by = v /\ \A f \in files : Own(v, f)
    BY <1>2, <2>3 DEF BelongsTo, CallBelongs
  <2>6. \A f \in attached'[s] : Own(v, f)
    BY <1>2, <1>3, <2>3, <2>5 DEF BelongsTo, Shape
  <2>7. \A f \in attached'[s] : Own(v, f)'
    BY <1>1, <2>6 DEF Own
  <2>8. \A i \in DOMAIN log' : log'[i].session = s => log'[i].by = v
    BY <1>10, <2>3, <2>5 DEF BelongsTo
  <2>9. BelongsTo(s, v)'
    BY <1>1, <2>3, <2>4, <2>7, <2>8 DEF BelongsTo, Own
  <2>. QED
    BY <2>9
<1>16. Settling'
  <2>1. \A f \in Files : Visible(user)'[f] = Visible(user)[f]
    BY <1>1, VisibleStays
  <2>2. PanelStays
    BY <1>1, <1>2, <1>6, <2>1 DEF PanelStays, ListStays, Serves
  <2>. QED
    BY <2>2, SettlingKeeps
<1>. QED
  BY <1>11, <1>12, <1>13, <1>14, <1>15, <1>16

\* chat_history_v2 gives each person turns of their own only.
LEMMA ServeHistoryKeeps ==
    ASSUME Belonging, NEW k \in Slots, calls[k].phase = "sent", ServeHistory(k),
           UNCHANGED <<page, ghosts, acts, losses>>
    PROVE  Belonging'
<1> USE DEF Belonging
<1> DEFINE mine == {i \in DOMAIN log : log[i].by = calls[k].by}
           shown == IF Cardinality(mine) < HistoryPage THEN Cardinality(mine) ELSE HistoryPage
<1>1. /\ user' = user /\ session' = session /\ turns' = turns
      /\ ticked' = ticked /\ open' = open /\ items' = items /\ listed' = listed
      /\ owner' = owner /\ status' = status /\ later' = later
      /\ attached' = attached /\ log' = log
      /\ drawn' = drawn /\ handed' = handed /\ behind' = behind
      /\ acts' = acts /\ losses' = losses /\ calls[k].kind = "history"
  BY DEF ServeHistory, server, page, ghosts
<1>2. PICK at \in LastFirst(mine) :
        calls' = [Served(k, "done") EXCEPT ![k].items = [i \in 1..shown |-> log[at[i]]]]
  BY DEF ServeHistory
<1>3. log \in Seq(TurnRec) /\ Thread(log, acts, drawn) /\ mine \in SUBSET (DOMAIN log)
  BY DEF Threads, Thread
<1> DEFINE page1 == [i \in 1..shown |-> log[at[i]]]
<1>4. /\ Cardinality(mine) \in Nat /\ at \in [1..Cardinality(mine) -> mine]
      /\ shown \in 0..Cardinality(mine)
  <2> HIDE DEF mine, shown
  <2>1. Cardinality(mine) \in Nat /\ at \in [1..Cardinality(mine) -> mine]
    BY <1>3, LastFirstIs
  <2>2. shown \in 0..Cardinality(mine)
    BY <2>1, BrowserPageAssumption DEF shown
  <2>. QED
    BY <2>1, <2>2
<1>5. Thread(page1, acts, drawn)
  BY <1>3, <1>4, ThreadPicked
<1>6. /\ DOMAIN page1 = 1..shown
      /\ \A i \in DOMAIN page1 : at[i] \in DOMAIN log /\ page1[i] = log[at[i]]
  <2> HIDE DEF mine, shown
  <2>. QED
    BY <1>3, <1>4
<1> HIDE DEF page1, mine, shown
<1>7. /\ Serves(k) /\ calls'[k].items = page1
  <2>1. page1 \in Seq(TurnRec)
    BY <1>5 DEF Thread
  <2>2. calls' = [Served(k, "done") EXCEPT ![k].items = page1]
    BY <1>2 DEF page1
  <2>3. /\ Served(k, "done") \in [Slots -> CallRec] /\ Served(k, "done")[k] \in CallRec
        /\ \A j \in Slots : j # k => Served(k, "done")[j] = calls[j]
    BY ServedIs
  <2> DEFINE c == [Served(k, "done")[k] EXCEPT !.items = page1]
  <2>4. calls' = [Served(k, "done") EXCEPT ![k] = c]
    BY <2>2, <2>3
  <2>5. /\ c \in CallRec /\ c.items = page1
        /\ c.phase = Served(k, "done")[k].phase /\ c.kind = Served(k, "done")[k].kind
        /\ c.by = Served(k, "done")[k].by /\ c.session = Served(k, "done")[k].session
        /\ c.live = Served(k, "done")[k].live /\ c.late = Served(k, "done")[k].late
        /\ c.question = Served(k, "done")[k].question
        /\ c.files = Served(k, "done")[k].files
    BY <2>1, <2>3 DEF CallRec
  <2> HIDE DEF c
  <2>6. calls' \in [Slots -> CallRec] /\ calls'[k] = c
        /\ \A j \in Slots : j # k => calls'[j] = calls[j]
    BY <2>3, <2>4, <2>5
  <2>. QED
    BY <2>5, <2>6, ServedIs DEF Serves
<1>8. Requests(k)
  BY <1>1, <1>7, ServeRequests
<1>9. Shape'
  <2>1. \A j \in Slots : CallShaped(j)'
    BY <1>8, CallsShaped DEF Shape
  <2>. QED
    BY <1>1, <1>7, <2>1 DEF Shape, Serves
<1>10. Threads'
  <2>1. \A j \in Slots : Thread(calls'[j].items, acts', drawn')
    BY <1>1, <1>5, <1>7 DEF Threads, Serves
  <2>2. \A i, j \in Slots : calls'[i].kind = "ask" /\ calls'[j].kind = "ask" /\
          calls'[i].question = calls'[j].question => i = j
    BY <1>8, AsksApart
  <2>3. \A j \in Slots : calls'[j].kind = "ask" /\ calls'[j].phase = "sent" =>
          \A i \in DOMAIN log' : log'[i].question # calls'[j].question
    BY <1>1, <1>8, SentAsksNew
  <2>. QED
    BY <1>1, <2>1, <2>2, <2>3 DEF Threads
<1>11. Hands'
  BY <1>1, <1>8, HandsSame
<1>12. Lists'
  <2>1. \A j \in Slots : calls'[j].kind = "list" /\ calls'[j].phase = "served" =>
          /\ calls[j].kind = "list" /\ calls[j].phase = "served"
          /\ calls'[j].list = calls[j].list
    BY <1>1, <1>7 DEF Serves
  <2>. QED
    BY <1>1, <1>8, <2>1, ListsKeep
<1>13. OneHand'
  <2>1. SUFFICES ASSUME NEW s \in 1..Sessions, s \notin handed
                 PROVE  \E v \in People \cup {Nobody} : BelongsTo(s, v)'
    BY <1>1 DEF OneHand
  <2>2. PICK v \in People \cup {Nobody} : BelongsTo(s, v)
    BY <2>1 DEF OneHand
  <2>3. ASSUME NEW j \in Slots PROVE CallBelongs(j, s, v)'
    <3>1. CASE j # k
      BY <1>1, <1>7, <2>2, <3>1 DEF Serves, BelongsTo, CallBelongs, Own
    <3>2. CASE j = k
      <4>1. calls'[k].kind # "ask"
        BY <1>1, <1>7 DEF Serves
      <4>2. \A i \in DOMAIN page1 : page1[i].session = s => page1[i].by = v
        BY <1>6, <2>2 DEF BelongsTo
      <4>. QED
        BY <1>7, <3>2, <4>1, <4>2 DEF CallBelongs
    <3>. QED
      BY <3>1, <3>2
  <2>4. BelongsTo(s, v)'
    BY <1>1, <2>2, <2>3 DEF BelongsTo, Own
  <2>. QED
    BY <2>4
<1>14. Settling'
  <2>1. \A f \in Files : Visible(user)'[f] = Visible(user)[f]
    BY <1>1, VisibleStays
  <2>2. PanelStays
    BY <1>1, <1>7, <2>1 DEF PanelStays, ListStays, Serves
  <2>. QED
    BY <2>2, SettlingKeeps
<1>. QED
  BY <1>9, <1>10, <1>11, <1>12, <1>13, <1>14

\* list_files_v2 answers with what is there, and knows the lists it is newer
\* than.
LEMMA ServeListKeeps ==
    ASSUME Belonging, NEW k \in Slots, calls[k].phase = "sent", ServeList(k),
           UNCHANGED <<page, ghosts, acts, losses>>
    PROVE  Belonging'
<1> USE DEF Belonging
<1> DEFINE older == {j \in Slots : calls[j].kind = "list" /\ calls[j].phase = "served"}
           c == [Served(k, "done")[k] EXCEPT !.list = Visible(user), !.before = older]
<1>1. /\ user' = user /\ session' = session /\ turns' = turns
      /\ ticked' = ticked /\ open' = open /\ items' = items /\ listed' = listed
      /\ owner' = owner /\ status' = status /\ later' = later
      /\ attached' = attached /\ log' = log
      /\ drawn' = drawn /\ handed' = handed /\ behind' = behind
      /\ acts' = acts /\ losses' = losses /\ calls[k].kind = "list"
      /\ calls[k].by = user
  BY DEF ServeList, server, page, ghosts, Hands
<1>2. Visible(user) \in [Files -> Status]
  BY DEF Visible, Status, Shape
<1>3. /\ Served(k, "done") \in [Slots -> CallRec] /\ Served(k, "done")[k] \in CallRec
      /\ \A j \in Slots : j # k => Served(k, "done")[j] = calls[j]
  BY ServedIs
<1>4. calls' = [Served(k, "done") EXCEPT ![k] = c]
  BY <1>1, <1>3 DEF ServeList
<1>5. /\ c \in CallRec /\ c.list = Visible(user) /\ c.before = older
      /\ c.items = Served(k, "done")[k].items
      /\ c.phase = Served(k, "done")[k].phase /\ c.kind = Served(k, "done")[k].kind
      /\ c.by = Served(k, "done")[k].by /\ c.session = Served(k, "done")[k].session
      /\ c.live = Served(k, "done")[k].live /\ c.late = Served(k, "done")[k].late
      /\ c.question = Served(k, "done")[k].question
      /\ c.files = Served(k, "done")[k].files
  <2> DEFINE d == Served(k, "done")[k]
  <2>1. d \in CallRec /\ older \in SUBSET Slots
    BY <1>3
  <2>2. c = [d EXCEPT !.list = Visible(user), !.before = older]
    OBVIOUS
  <2> HIDE DEF d, c, older
  <2>3. /\ c \in CallRec /\ c.list = Visible(user) /\ c.before = older
        /\ c.items = d.items /\ c.phase = d.phase /\ c.kind = d.kind
        /\ c.by = d.by /\ c.session = d.session /\ c.live = d.live
        /\ c.late = d.late /\ c.question = d.question /\ c.files = d.files
    BY <1>2, <2>1, <2>2 DEF CallRec
  <2>. QED
    BY <2>3 DEF d
<1> HIDE DEF c
<1>6. /\ calls' \in [Slots -> CallRec] /\ calls'[k] = c
      /\ \A j \in Slots : j # k => calls'[j] = calls[j]
  BY <1>3, <1>4, <1>5
<1>7. /\ Serves(k) /\ calls'[k].items = calls[k].items
      /\ calls'[k].list = Visible(user) /\ calls'[k].before = older
  BY <1>5, <1>6, ServedIs DEF Serves
<1>8. Requests(k)
  BY <1>1, <1>7, ServeRequests
<1>9. ItemsStay
  BY <1>7 DEF ItemsStay, Serves
<1>10. Shape'
  <2>1. \A j \in Slots : CallShaped(j)'
    BY <1>8, CallsShaped DEF Shape
  <2>. QED
    BY <1>1, <1>7, <2>1 DEF Shape, Serves
<1>11. Threads'
  BY <1>1, <1>8, <1>9, ThreadsSame
<1>12. Hands'
  BY <1>1, <1>8, HandsSame
<1>13. Lists'
  <2>1. /\ \A j \in Slots : calls'[j].kind = "upload" =>
             /\ \E f \in Files : calls'[j].files = {f}
             /\ calls'[j].phase = "sent" =>
                  \A f \in calls'[j].files : owner'[f] = Nobody
        /\ \A i, j \in Slots :
             calls'[i].kind = "upload" /\ calls'[j].kind = "upload" /\ i # j =>
               calls'[i].files \cap calls'[j].files = {}
    BY <1>1, <1>8, UploadsApart
  <2>2. Shown(user, Visible(user))
    BY DEF Shown, Visible
  <2>3. \A j \in Slots : calls'[j].kind = "list" /\ calls'[j].phase = "served" =>
          Shown(user, calls'[j].list)
    BY <1>7, <2>2 DEF Lists, Serves
  <2>. QED
    BY <1>1, <2>1, <2>3 DEF Lists, Shown
<1>14. OneHand'
  <2>1. OwnStays
    BY <1>1 DEF OwnStays, Own
  <2>. QED
    BY <1>1, <1>8, <1>9, <2>1, OneHandKeeps DEF Shape
<1>15. Settling'
  <2>1. SUFFICES ASSUME user # Nobody PROVE Settling'
    BY <1>1 DEF Settling
  <2>2. calls'[k].kind = "list" /\ calls'[k].phase = "served"
    BY <1>1, <1>7 DEF Serves
  <2>3. Current(calls[k].list)'
    BY <1>1, <1>7, VisibleStays DEF Current
  <2>4. ASSUME NEW j \in Slots, j # k, calls'[j].kind = "list", calls'[j].phase = "served"
        PROVE  Newer(k, j)'
    BY <1>7, <2>2, <2>4 DEF Newer, Serves
  <2>. QED
    BY <2>2, <2>3, <2>4 DEF Settling
<1>. QED
  BY <1>10, <1>11, <1>12, <1>13, <1>14, <1>15

\* A step of the server that changes files the answer of call k will tell of.
LEMMA ServeChangeKeeps ==
    ASSUME Belonging, NEW k \in Slots, calls[k].kind \in {"upload", "delete"},
           calls[k].phase = "sent", calls' = Served(k, "done"),
           owner' \in [Files -> People \cup {Nobody}], status' \in [Files -> Status],
           later' \in [Files -> SUBSET Files],
           \A f \in Files :
             \/ owner'[f] = owner[f] /\ status'[f] \in {status[f], "none"}
             \/ owner[f] = Nobody /\ calls[k].kind = "upload" /\ calls[k].files = {f},
           UNCHANGED <<page, ghosts, acts, losses, attached, log>>
    PROVE  Belonging'
<1> USE DEF Belonging
<1>1. /\ user' = user /\ session' = session /\ turns' = turns
      /\ ticked' = ticked /\ open' = open /\ items' = items /\ listed' = listed
      /\ attached' = attached /\ log' = log
      /\ drawn' = drawn /\ handed' = handed /\ behind' = behind
      /\ acts' = acts /\ losses' = losses
  BY DEF page, ghosts
<1>2. Serves(k) /\ calls'[k].items = calls[k].items
  BY ServedIs DEF Serves
<1>3. Requests(k)
  BY <1>1, <1>2, ServeRequests
<1>4. ItemsStay
  BY <1>2 DEF ItemsStay, Serves
<1>5. Shape'
  <2>1. \A j \in Slots : CallShaped(j)'
    BY <1>3, CallsShaped DEF Shape
  <2>. QED
    BY <1>1, <1>2, <2>1 DEF Shape, Serves
<1>6. Threads'
  BY <1>1, <1>3, <1>4, ThreadsSame
<1>7. Hands'
  BY <1>1, <1>3, HandsSame
<1>8. Lists'
  <2>1. \A f \in Files : owner[f] = Nobody /\ owner'[f] # Nobody =>
          calls[k].kind = "upload" /\ calls[k].files = {f} /\ calls'[k].phase # "sent"
    BY <1>2 DEF Serves
  <2>2. /\ \A j \in Slots : calls'[j].kind = "upload" =>
             /\ \E f \in Files : calls'[j].files = {f}
             /\ calls'[j].phase = "sent" =>
                  \A f \in calls'[j].files : owner'[f] = Nobody
        /\ \A i, j \in Slots :
             calls'[i].kind = "upload" /\ calls'[j].kind = "upload" /\ i # j =>
               calls'[i].files \cap calls'[j].files = {}
    BY <1>3, <2>1, UploadsApart
  <2>3. ASSUME NEW list, Shown(user, list), user # Nobody
        PROVE  \A f \in Files : list[f] # "none" =>
                 owner'[f] = user /\ (list[f] = "ready" => status'[f] \in {"ready", "none"})
    BY <2>3 DEF Shown
  <2>4. \A f \in Files : listed[f] # "none" =>
          owner'[f] = user /\ (listed[f] = "ready" => status'[f] \in {"ready", "none"})
    <3>1. CASE user = Nobody
      BY <3>1 DEF Hands, NoList
    <3>2. CASE user # Nobody
      BY <2>3, <3>2 DEF Lists
    <3>. QED
      BY <3>1, <3>2
  <2>5. ASSUME NEW j \in Slots, calls[j].kind = "list", calls[j].phase = "served"
        PROVE  \A f \in Files : calls[j].list[f] # "none" =>
                 /\ owner'[f] = user
                 /\ calls[j].list[f] = "ready" => status'[f] \in {"ready", "none"}
    <3>1. user # Nobody
      BY <2>5 DEF Hands, Shape, CallShaped
    <3>. QED
      BY <2>3, <2>5, <3>1 DEF Lists
  <2>6. Shown(user, listed)'
    BY <1>1, <2>4 DEF Shown
  <2>7. ASSUME NEW j \in Slots, calls'[j].kind = "list", calls'[j].phase = "served"
        PROVE  Shown(user, calls[j].list)'
    <3>1. j # k /\ calls'[j] = calls[j]
      BY <1>2, <2>7 DEF Serves
    <3>. QED
      BY <1>1, <2>5, <2>7, <3>1 DEF Shown
  <2>. QED
    BY <2>2, <2>6, <2>7 DEF Lists
<1>9. OneHand'
  <2>1. OwnStays
    BY DEF OwnStays, Own
  <2>. QED
    BY <1>1, <1>3, <1>4, <2>1, OneHandKeeps DEF Shape
<1>10. Settling'
  <2>1. Changed'
    BY <1>2 DEF Changed, Serves
  <2>. QED
    BY <2>1 DEF Settling
<1>. QED
  BY <1>5, <1>6, <1>7, <1>8, <1>9, <1>10

LEMMA ServeUploadKeeps ==
    ASSUME Belonging, NEW k \in Slots, calls[k].phase = "sent", ServeUpload(k),
           UNCHANGED <<page, ghosts, acts, losses>>
    PROVE  Belonging'
<1> USE DEF Belonging
<1>1. /\ calls[k].kind = "upload" /\ calls' = Served(k, "done")
      /\ attached' = attached /\ log' = log
  BY DEF ServeUpload
<1>2. PICK f \in Files : calls[k].files = {f} /\ owner[f] = Nobody
  BY <1>1 DEF Lists
<1>3. /\ owner' = [owner EXCEPT ![f] = calls[k].by]
      /\ status' = [status EXCEPT ![f] = "processing"]
      /\ later' = [g \in Files |-> IF owner[g] = Nobody THEN later[g] ELSE later[g] \cup {f}]
  BY <1>2 DEF ServeUpload
<1>4. calls[k].by \in People \cup {Nobody}
  BY DEF Shape, CallRec
<1>5. /\ owner' \in [Files -> People \cup {Nobody}] /\ status' \in [Files -> Status]
      /\ later' \in [Files -> SUBSET Files]
  BY <1>3, <1>4 DEF Shape, Status
<1>6. \A g \in Files :
        \/ owner'[g] = owner[g] /\ status'[g] \in {status[g], "none"}
        \/ owner[g] = Nobody /\ calls[k].kind = "upload" /\ calls[k].files = {g}
  BY <1>1, <1>2, <1>3 DEF Shape
<1>. QED
  BY <1>1, <1>5, <1>6, ServeChangeKeeps

LEMMA ServeDeleteKeeps ==
    ASSUME Belonging, NEW k \in Slots, calls[k].phase = "sent", ServeDelete(k),
           UNCHANGED <<page, ghosts, acts, losses>>
    PROVE  Belonging'
<1> USE DEF Belonging
<1>1. /\ calls[k].kind = "delete" /\ calls' = Served(k, "done")
      /\ attached' = attached /\ log' = log /\ owner' = owner /\ later' = later
      /\ status' = [f \in Files |-> IF f \in calls[k].files /\ owner[f] = calls[k].by
                                    THEN "none" ELSE status[f]]
  BY DEF ServeDelete
<1>2. /\ owner' \in [Files -> People \cup {Nobody}] /\ status' \in [Files -> Status]
      /\ later' \in [Files -> SUBSET Files]
  BY <1>1 DEF Shape, Status
<1>3. \A f \in Files :
        \/ owner'[f] = owner[f] /\ status'[f] \in {status[f], "none"}
        \/ owner[f] = Nobody /\ calls[k].kind = "upload" /\ calls[k].files = {f}
  BY <1>1
<1>. QED
  BY <1>1, <1>2, <1>3, ServeChangeKeeps

-----------------------------------------------------------------------------
(* Answers.                                                                *)

\* An answer changes no one's turns but by what they show.
LEMMA AnsweredIs ==
    ASSUME Threads, NEW q \in Nat, NEW state \in {"answered", "error"}, NEW shows \in Nat,
           state = "answered" => shows = q
    PROVE  /\ Thread(Answered(q, state, shows), acts, drawn)
           /\ DOMAIN Answered(q, state, shows) = DOMAIN turns
           /\ \A i \in DOMAIN turns :
                /\ Answered(q, state, shows)[i].session = turns[i].session
                /\ Answered(q, state, shows)[i].by = turns[i].by
           /\ turns = <<>> => Answered(q, state, shows) = <<>>
<1> DEFINE new == Answered(q, state, shows)
           Set(t) == [t EXCEPT !.state = state, !.shows = shows]
<1>1. turns \in Seq(TurnRec) /\ Len(turns) \in Nat /\ DOMAIN turns = 1..Len(turns)
  BY DEF Threads, Thread
<1>2. \A i \in DOMAIN turns :
        \/ /\ turns[i].question = q
           /\ new[i] = Set(turns[i])
        \/ new[i] = turns[i]
  BY DEF Answered
<1>3. DOMAIN new = DOMAIN turns
  BY DEF Answered
<1>4. ASSUME NEW t \in TurnRec
      PROVE  /\ Set(t) \in TurnRec /\ Set(t).session = t.session /\ Set(t).by = t.by
             /\ Set(t).question = t.question
             /\ Set(t).state = state /\ Set(t).shows = shows
  BY DEF TurnRec
<1> HIDE DEF new, Set
<1>5. ASSUME NEW i \in DOMAIN turns
      PROVE  /\ new[i] \in TurnRec
             /\ new[i].session = turns[i].session /\ new[i].by = turns[i].by
             /\ new[i].question = turns[i].question
             /\ new[i].state = "answered" => new[i].shows = new[i].question
  <2>1. /\ turns[i] \in TurnRec
        /\ turns[i].state = "answered" => turns[i].shows = turns[i].question
    BY <1>1 DEF Threads, Thread
  <2>. QED
    BY <1>2, <1>4, <2>1
<1>6. new \in Seq(TurnRec)
  <2>1. new = [i \in 1..Len(turns) |-> new[i]]
    BY <1>1 DEF new, Answered
  <2>2. \A i \in 1..Len(turns) : new[i] \in TurnRec
    BY <1>1, <1>5
  <2>3. [i \in 1..Len(turns) |-> new[i]] \in Seq(TurnRec)
    BY <1>1, <2>2
  <2>. QED
    BY <2>1, <2>3
<1>7. Thread(new, acts, drawn)
  BY <1>3, <1>5, <1>6 DEF Threads, Thread
<1>8. turns = <<>> => new = <<>>
  <2>1. ASSUME turns = <<>> PROVE new = <<>>
    <3>1. DOMAIN new = {}
      BY <1>3, <2>1
    <3>. QED
      BY <1>6, <3>1
  <2>. QED
    BY <2>1
<1>. QED
  BY <1>3, <1>5, <1>7, <1>8 DEF new

\* The answer to a question.
LEMMA AskAnsweredKeeps ==
    ASSUME Belonging, NEW k \in Slots, NEW lost \in BOOLEAN, AskAnswered(k, lost),
           losses' \in 0..Losses,
           UNCHANGED <<user, session, ticked, open, server, drawn, handed, acts>>
    PROVE  Belonging'
<1> USE DEF Belonging
<1>1. /\ user' = user /\ session' = session /\ ticked' = ticked /\ open' = open
      /\ items' = items /\ listed' = listed /\ behind' = behind
      /\ owner' = owner /\ status' = status /\ later' = later
      /\ attached' = attached /\ log' = log
      /\ drawn' = drawn /\ handed' = handed /\ acts' = acts
      /\ calls[k].kind = "ask"
  BY DEF AskAnswered, server
<1>2. Closes(k)
  BY ClosesIs DEF AskAnswered, Shape
<1>3. Requests(k) /\ ItemsStay
  BY <1>1, <1>2, CloseRequests
<1>4. /\ Thread(turns', acts, drawn) /\ DOMAIN turns' = DOMAIN turns
      /\ \A i \in DOMAIN turns :
           turns'[i].session = turns[i].session /\ turns'[i].by = turns[i].by
      /\ turns = <<>> => turns' = <<>>
  <2>1. calls[k].question \in Nat /\ 0 \in Nat
    BY DEF Shape, CallRec
  <2>2. \/ turns' = Answered(calls[k].question, "error", 0)
        \/ turns' = Answered(calls[k].question, "answered", calls[k].question)
    BY DEF AskAnswered
  <2>3. CASE turns' = Answered(calls[k].question, "error", 0)
    BY <2>1, <2>3, AnsweredIs
  <2>4. CASE turns' = Answered(calls[k].question, "answered", calls[k].question)
    BY <2>1, <2>4, AnsweredIs
  <2>. QED
    BY <2>2, <2>3, <2>4
<1>5. Shape'
  <2>1. \A j \in Slots : CallShaped(j)'
    BY <1>3, CallsShaped DEF Shape
  <2>. QED
    BY <1>1, <1>2, <2>1 DEF Shape, Closes
<1>6. Threads'
  <2>1. Thread(items, acts, drawn)' /\ Thread(turns, acts, drawn)'
    BY <1>1, <1>4 DEF Threads
  <2>. QED
    BY <1>1, <1>3, <2>1, ThreadsKeep
<1>7. Hands'
  <2>1. \A j \in Slots :
          calls'[j].kind = "list" \/ (calls'[j].kind \in {"upload", "delete"} /\ calls'[j].live)
            => calls'[j].by = user'
    BY <1>1, <1>3, CallHandsStay
  <2>. QED
    BY <1>1, <1>4, <2>1 DEF Hands
<1>8. Lists'
  <2>1. \A j \in Slots : calls'[j].kind = "list" /\ calls'[j].phase = "served" =>
          /\ calls[j].kind = "list" /\ calls[j].phase = "served"
          /\ calls'[j].list = calls[j].list
    BY <1>2 DEF Closes, Stays, Emptied
  <2>. QED
    BY <1>1, <1>3, <2>1, ListsKeep
<1>9. OneHand'
  <2>1. OwnStays
    BY <1>1 DEF OwnStays, Own
  <2>. QED
    BY <1>1, <1>3, <2>1, OneHandKeeps DEF Shape
<1>10. Settling'
  <2>1. \A f \in Files : Visible(user)'[f] = Visible(user)[f]
    BY <1>1, VisibleStays
  <2>2. PanelStays
    BY <1>1, <1>2, <2>1 DEF PanelStays, ListStays, Closes, Stays, Emptied
  <2>. QED
    BY <2>2, SettlingKeeps
<1>. QED
  BY <1>5, <1>6, <1>7, <1>8, <1>9, <1>10

LEMMA HistoryAnsweredKeeps ==
    ASSUME Belonging, NEW k \in Slots, NEW lost \in BOOLEAN, HistoryAnswered(k, lost),
           losses' \in 0..Losses,
           UNCHANGED <<user, session, ticked, open, server, drawn, handed, acts>>
    PROVE  Belonging'
<1> USE DEF Belonging
<1>1. /\ user' = user /\ session' = session /\ ticked' = ticked /\ open' = open
      /\ turns' = turns /\ listed' = listed /\ behind' = behind
      /\ owner' = owner /\ status' = status /\ later' = later
      /\ attached' = attached /\ log' = log
      /\ drawn' = drawn /\ handed' = handed /\ acts' = acts
      /\ calls[k].kind = "history" /\ items' \in {items, calls[k].items}
  BY DEF HistoryAnswered, server
<1>2. Closes(k)
  BY ClosesIs DEF HistoryAnswered, Shape
<1>3. Requests(k) /\ ItemsStay
  BY <1>1, <1>2, CloseRequests
<1>4. Shape'
  <2>1. \A j \in Slots : CallShaped(j)'
    BY <1>3, CallsShaped DEF Shape
  <2>. QED
    BY <1>1, <1>2, <2>1 DEF Shape, Closes
<1>5. Threads'
  <2>1. Thread(items, acts, drawn)' /\ Thread(turns, acts, drawn)'
    BY <1>1 DEF Threads
  <2>. QED
    BY <1>1, <1>3, <2>1, ThreadsKeep
<1>6. Hands'
  BY <1>1, <1>3, HandsSame
<1>7. Lists'
  <2>1. \A j \in Slots : calls'[j].kind = "list" /\ calls'[j].phase = "served" =>
          /\ calls[j].kind = "list" /\ calls[j].phase = "served"
          /\ calls'[j].list = calls[j].list
    BY <1>2 DEF Closes, Stays, Emptied
  <2>. QED
    BY <1>1, <1>3, <2>1, ListsKeep
<1>8. OneHand'
  <2>1. OwnStays
    BY <1>1 DEF OwnStays, Own
  <2>. QED
    BY <1>1, <1>3, <2>1, OneHandKeeps DEF Shape
<1>9. Settling'
  <2>1. \A f \in Files : Visible(user)'[f] = Visible(user)[f]
    BY <1>1, VisibleStays
  <2>2. PanelStays
    BY <1>1, <1>2, <2>1 DEF PanelStays, ListStays, Closes, Stays, Emptied
  <2>. QED
    BY <2>2, SettlingKeeps
<1>. QED
  BY <1>4, <1>5, <1>6, <1>7, <1>8, <1>9

\* What holds of any answer of the files panel, whatever it does to the panel.
LEMMA PanelAnswerKeeps ==
    ASSUME Belonging, NEW m \in Slots, Requests(m), ItemsStay,
           calls' \in [Slots -> CallRec],
           losses' \in 0..Losses, behind' \in BOOLEAN,
           listed' = listed \/ \E k \in Slots :
             /\ calls[k].kind = "list" /\ calls[k].phase = "served"
             /\ listed' = calls[k].list,
           \A j \in Slots : calls'[j].kind = "list" /\ calls'[j].phase = "served" =>
             /\ calls[j].kind = "list" /\ calls[j].phase = "served"
             /\ calls'[j].list = calls[j].list,
           Settling', turns' = turns, items' = items,
           UNCHANGED <<user, session, ticked, open, server, drawn, handed, acts>>
    PROVE  Belonging'
<1> USE DEF Belonging
<1>1. /\ user' = user /\ session' = session /\ ticked' = ticked /\ open' = open
      /\ owner' = owner /\ status' = status /\ later' = later
      /\ attached' = attached /\ log' = log
      /\ drawn' = drawn /\ handed' = handed /\ acts' = acts
  BY DEF server
<1>2. Shown(user, listed') /\ listed' \in [Files -> Status] /\ (user = Nobody => listed' = NoList)
  BY DEF Lists, Shape, CallRec, Hands, CallShaped
<1>3. Shape'
  <2>1. \A j \in Slots : CallShaped(j)'
    BY CallsShaped DEF Shape
  <2>. QED
    BY <1>1, <1>2, <2>1 DEF Shape
<1>4. Threads'
  BY <1>1, ThreadsSame
<1>5. Hands'
  <2>1. \A j \in Slots :
          calls'[j].kind = "list" \/ (calls'[j].kind \in {"upload", "delete"} /\ calls'[j].live)
            => calls'[j].by = user'
    BY <1>1, CallHandsStay
  <2>. QED
    BY <1>1, <1>2, <2>1 DEF Hands
<1>6. Lists'
  <2>1. /\ \A j \in Slots : calls'[j].kind = "upload" =>
             /\ \E f \in Files : calls'[j].files = {f}
             /\ calls'[j].phase = "sent" =>
                  \A f \in calls'[j].files : owner'[f] = Nobody
        /\ \A i, j \in Slots :
             calls'[i].kind = "upload" /\ calls'[j].kind = "upload" /\ i # j =>
               calls'[i].files \cap calls'[j].files = {}
    BY <1>1, UploadsApart
  <2>2. \A j \in Slots : calls'[j].kind = "list" /\ calls'[j].phase = "served" =>
          Shown(user, calls'[j].list)
    BY DEF Lists
  <2>. QED
    BY <1>1, <1>2, <2>1, <2>2 DEF Lists, Shown
<1>7. OneHand'
  <2>1. OwnStays
    BY <1>1 DEF OwnStays, Own
  <2>. QED
    BY <1>1, <2>1, OneHandKeeps DEF Shape
<1>. QED
  BY <1>3, <1>4, <1>5, <1>6, <1>7

\* A lost list, or a change that nobody refreshes the panel for.
LEMMA MissedIs ==
    ASSUME Shape, NEW k \in Slots, Missed(k)
    PROVE  /\ Closes(k)
           /\ \A j \in Slots : j # k /\ calls[j].kind = "list" /\ calls[j].phase = "served" =>
                calls'[j].late
<1> DEFINE late == {j \in Slots : calls[j].kind = "list" /\ calls[j].phase = "served"}
<1>1. ASSUME NEW j \in Slots
      PROVE  [Closed(k)[j] EXCEPT !.late =
                 @ \/ (calls[j].kind = "list" /\ calls[j].phase = "served")]
               = [Closed(k)[j] EXCEPT !.late = @ \/ j \in late]
  <2>1. (Closed(k)[j].late \/ (calls[j].kind = "list" /\ calls[j].phase = "served"))
          = (Closed(k)[j].late \/ j \in late)
    OBVIOUS
  <2>. QED
    BY <2>1
<1>2. calls' = [j \in Slots |-> [Closed(k)[j] EXCEPT !.late = @ \/ j \in late]]
  BY <1>1 DEF Missed
<1>3. late \in SUBSET Slots /\ calls \in [Slots -> CallRec]
  BY DEF Shape
<1>4. \A j \in Slots : calls[j].kind = "list" /\ calls[j].phase = "served" => j \in late
  OBVIOUS
<1> HIDE DEF late
<1>. QED
  BY <1>2, <1>3, <1>4, ClosesLateIs

\* Then the panel may lack a change, and so may every list on its way.
LEMMA MissedKeeps ==
    ASSUME Belonging, NEW k \in Slots, Missed(k), losses' \in 0..Losses,
           UNCHANGED <<turns, items, listed>>,
           UNCHANGED <<user, session, ticked, open, server, drawn, handed, acts>>
    PROVE  Belonging'
<1> USE DEF Belonging
<1>1. behind' = TRUE /\ acts' = acts /\ drawn' = drawn
  BY DEF Missed
<1>2. Closes(k)
  BY MissedIs
<1>3. Requests(k) /\ ItemsStay
  BY <1>1, <1>2, CloseRequests
<1>4. \A j \in Slots : calls'[j].kind = "list" /\ calls'[j].phase = "served" =>
        /\ calls[j].kind = "list" /\ calls[j].phase = "served"
        /\ calls'[j].list = calls[j].list /\ j # k
  BY <1>2 DEF Closes, Stays, Emptied
<1>5. Settling'
  BY <1>1, <1>4, MissedIs DEF Settling
<1>6. calls' \in [Slots -> CallRec]
  BY <1>2 DEF Closes
<1>. QED
  BY <1>1, <1>3, <1>4, <1>5, <1>6, PanelAnswerKeeps

\* A list goes up, and whatever it does not show is on its way: every list that
\* the server gave before it is marked late.
LEMMA ListArrivesKeeps ==
    ASSUME Belonging, NEW k \in Slots,
           calls[k].kind = "list", calls[k].phase = "served",
           listed' = calls[k].list, behind' = calls[k].late,
           calls' = [j \in Slots |-> [Closed(k)[j] EXCEPT !.late = @ \/ j \in calls[k].before]],
           losses' \in 0..Losses, UNCHANGED <<turns, items>>,
           UNCHANGED <<user, session, ticked, open, server, drawn, handed, acts>>
    PROVE  Belonging'
<1> USE DEF Belonging
<1>1. /\ calls \in [Slots -> CallRec] /\ calls[k].before \in SUBSET Slots
      /\ calls[k].late \in BOOLEAN
  BY DEF Shape, CallRec
<1>2. /\ Closes(k)
      /\ \A j \in Slots : j # k /\ j \in calls[k].before => calls'[j].late
  BY <1>1, ClosesLateIs
<1>3. Requests(k) /\ ItemsStay
  BY <1>2, CloseRequests
<1>4. \A j \in Slots : calls'[j].kind = "list" /\ calls'[j].phase = "served" =>
        /\ calls[j].kind = "list" /\ calls[j].phase = "served"
        /\ calls'[j].list = calls[j].list /\ j # k
  BY <1>2 DEF Closes, Stays, Emptied
<1>5. ASSUME user # Nobody PROVE Settling'
  <2>1. user' = user /\ owner' = owner /\ status' = status /\ later' = later
    BY DEF server
  <2>2. Changed => Changed'
    BY <1>2 DEF Changed, Closes, Stays
  <2>3. Asked => Asked'
    <3>1. ASSUME NEW j \in Slots, calls[j].kind = "list", calls[j].phase = "sent"
          PROVE  calls'[j].kind = "list" /\ calls'[j].phase = "sent"
      BY <1>2, <3>1 DEF Closes, Stays
    <3>. QED
      BY <3>1 DEF Asked
  <2>4. ASSUME NEW list PROVE Current(list) =>
          \A f \in Files : list[f] = Visible(user)'[f] \/ list[f] = "processing"
    BY <2>1, VisibleStays DEF Current
  <2>5. \/ calls[k].late \/ Current(calls[k].list) \/ Changed \/ Asked
        \/ \E j \in Slots : Newer(j, k)
    BY <1>5 DEF Settling
  <2>6. Current(calls[k].list) => Current(listed)'
    BY <2>4 DEF Current
  <2>7. (\E j \in Slots : Newer(j, k)) => \E j \in Slots : calls'[j].kind = "list"
    BY <1>2 DEF Newer, Closes, Stays
  <2>8. behind' \/ Current(listed)' \/ Changed' \/ \E j \in Slots : calls'[j].kind = "list"
    BY <2>2, <2>3, <2>5, <2>6, <2>7 DEF Asked
  <2>9. ASSUME NEW j \in Slots, calls'[j].kind = "list", calls'[j].phase = "served"
        PROVE  \/ calls'[j].late \/ Current(calls[j].list)' \/ Changed' \/ Asked'
               \/ \E i \in Slots : Newer(i, j)'
    <3>1. /\ j # k /\ calls[j].kind = "list" /\ calls[j].phase = "served"
          /\ calls'[j].list = calls[j].list /\ (calls[j].late => calls'[j].late)
      BY <1>2, <1>4, <2>9 DEF Closes, Stays
    <3>2. \/ calls[j].late \/ Current(calls[j].list) \/ Changed \/ Asked
          \/ \E i \in Slots : Newer(i, j)
      BY <1>5, <3>1 DEF Settling
    <3>3. Current(calls[j].list) => Current(calls[j].list)'
      BY <2>4, <3>1 DEF Current
    <3>4. ASSUME NEW i \in Slots, Newer(i, j)
          PROVE  calls'[j].late \/ Newer(i, j)'
      <4>1. CASE i = k
        BY <1>2, <3>1, <3>4, <4>1 DEF Newer
      <4>2. CASE i # k
        BY <1>2, <3>1, <3>4, <4>2 DEF Newer, Closes, Stays
      <4>. QED
        BY <4>1, <4>2
    <3>. QED
      BY <2>2, <2>3, <3>1, <3>2, <3>3, <3>4
  <2>. QED
    BY <2>8, <2>9 DEF Settling
<1>6. user = Nobody => Settling'
  BY DEF Settling
<1>7. calls' \in [Slots -> CallRec]
  BY <1>2 DEF Closes
<1>. QED
  BY <1>1, <1>3, <1>4, <1>5, <1>6, <1>7, PanelAnswerKeeps

LEMMA ListAnsweredKeeps ==
    ASSUME Belonging, NEW k \in Slots, NEW lost \in BOOLEAN, ListAnswered(k, lost),
           lost \/ calls[k].phase = "served", losses' \in 0..Losses,
           UNCHANGED <<user, session, ticked, open, server, drawn, handed, acts>>
    PROVE  Belonging'
<1>1. CASE lost
  BY <1>1, MissedKeeps DEF ListAnswered
<1>2. CASE ~lost
  BY <1>2, ListArrivesKeeps DEF ListAnswered
<1>. QED
  BY <1>1, <1>2

LEMMA ChangeAnsweredKeeps ==
    ASSUME Belonging, NEW k \in Slots, NEW lost \in BOOLEAN, ChangeAnswered(k, lost),
           losses' \in 0..Losses,
           UNCHANGED <<user, session, ticked, open, server, drawn, handed, acts>>
    PROVE  Belonging'
<1>1. CASE lost \/ ~calls[k].live
  BY <1>1, MissedKeeps DEF ChangeAnswered
<1>2. CASE ~lost /\ calls[k].live
  <2> USE DEF Belonging
  <2>1. /\ calls[k].kind \in {"upload", "delete"} /\ behind' = behind
        /\ calls' = Sending(Closed(k), user, "list", 0, {})
        /\ turns' = turns /\ items' = items /\ listed' = listed
    BY <1>2 DEF ChangeAnswered
  <2>2. user \in People
    BY <1>2, <2>1 DEF Hands, Shape, CallShaped
  <2>3. calls \in [Slots -> CallRec] /\ session \in 0..Sessions
    BY BrowserPageAssumption DEF Shape
  <2>4. PICK m \in Slots, c \in CallRec : ClosesAndAsks(k, m, c)
    BY <2>1, <2>2, <2>3, AsksAgainIs
  <2>5. Requests(m) /\ ItemsStay
    BY <2>2, <2>4, CloseAndAskRequests
  <2>6. \A j \in Slots : calls'[j].kind = "list" /\ calls'[j].phase = "served" =>
          /\ calls[j].kind = "list" /\ calls[j].phase = "served"
          /\ calls'[j].list = calls[j].list
    BY <2>4 DEF ClosesAndAsks, Stays, Emptied, NewCall
  <2>7. Settling'
    <3>1. Asked' /\ \E j \in Slots : calls'[j].kind = "list"
      BY <2>4 DEF Asked, ClosesAndAsks, NewCall
    <3>. QED
      BY <3>1 DEF Settling
  <2>8. calls' \in [Slots -> CallRec] /\ behind' \in BOOLEAN
    BY <2>1, <2>4 DEF ClosesAndAsks, Shape
  <2>. QED
    BY <2>1, <2>5, <2>6, <2>7, <2>8, PanelAnswerKeeps
<1>. QED
  BY <1>1, <1>2

-----------------------------------------------------------------------------
(* The invariant.                                                          *)

LEMMA SendingKeeps ==
    ASSUME Belonging, OpenHistory \/ Poll \/ \E f \in Files : Upload(f) \/ Delete(f),
           acts' \in 0..Acts, acts <= acts', losses' = losses
    PROVE  Belonging'
<1>1. /\ user \in People /\ HasSlot /\ user' = user /\ Shape
      /\ UNCHANGED <<user, session, turns, ticked, items, listed, server, ghosts>>
      /\ open' \in BOOLEAN /\ 0 \in Nat
  BY DEF OpenHistory, Poll, PollDue, Upload, Delete, page, Belonging, Shape
<1>2. CASE OpenHistory
  <2>1. PICK k \in Slots, c \in CallRec : Sends(k, c, "history", 0, {})
    BY <1>1, <1>2, Fetches DEF OpenHistory, Kinds
  <2>. QED
    BY <1>1, <2>1, SendKeeps
<1>3. CASE Poll
  <2>1. PICK k \in Slots, c \in CallRec : Sends(k, c, "list", 0, {})
    BY <1>1, <1>3, Fetches DEF Poll, Kinds
  <2>. QED
    BY <1>1, <2>1, SendKeeps
<1>4. ASSUME NEW f \in Files, Upload(f) PROVE Belonging'
  <2>1. PICK k \in Slots, c \in CallRec : Sends(k, c, "upload", 0, {f})
    BY <1>1, <1>4, Fetches DEF Upload, Kinds
  <2>2. \E g \in Files :
          /\ {f} = {g} /\ owner[g] = Nobody
          /\ \A j \in Slots : calls[j].kind = "upload" => g \notin calls[j].files
    BY <1>4 DEF Upload
  <2>. QED
    BY <1>1, <2>1, <2>2, SendKeeps
<1>5. ASSUME NEW f \in Files, Delete(f) PROVE Belonging'
  <2>1. PICK k \in Slots, c \in CallRec : Sends(k, c, "delete", 0, {f})
    BY <1>1, <1>5, Fetches DEF Delete, Kinds
  <2>. QED
    BY <1>1, <2>1, SendKeeps
<1>. QED
  BY <1>2, <1>3, <1>4, <1>5

LEMMA PersonActsKeeps == ASSUME Belonging, PersonActs PROVE Belonging'
<1>1. /\ acts < Acts /\ acts' = acts + 1 /\ losses' = losses
      /\ acts' \in 0..Acts /\ acts <= acts'
  BY BrowserPageAssumption DEF PersonActs, Belonging, Shape
<1>2. CASE SignOut
  BY <1>1, <1>2, SignOutKeeps
<1>3. CASE StartNewChat
  BY <1>1, <1>3, StartNewChatKeeps
<1>4. CASE SubmitQuestion
  BY <1>1, <1>4, SubmitKeeps
<1>5. CASE OpenHistory \/ \E f \in Files : Upload(f) \/ Delete(f)
  BY <1>1, <1>5, SendingKeeps
<1>6. CASE CloseHistory
  <2>1. /\ user \in People /\ open' \in BOOLEAN
        /\ \A f \in ticked' : f \in Files /\ (f \in ticked \/ listed[f] = "ready")
        /\ UNCHANGED <<user, session, turns, items, listed, calls, server, ghosts>>
    BY <1>6 DEF CloseHistory, Belonging, Shape
  <2>. QED
    BY <1>1, <2>1, PageKeeps
<1>7. ASSUME NEW s \in 1..drawn, Resume(s) PROVE Belonging'
  BY <1>1, <1>7, ResumeKeeps
<1>8. ASSUME NEW f \in Files, Toggle(f) PROVE Belonging'
  <2>1. /\ user \in People /\ open' \in BOOLEAN
        /\ \A g \in ticked' : g \in Files /\ (g \in ticked \/ listed[g] = "ready")
        /\ UNCHANGED <<user, session, turns, items, listed, calls, server, ghosts>>
    BY <1>8 DEF Toggle, Belonging, Shape
  <2>. QED
    BY <1>1, <2>1, PageKeeps
<1>. QED
  BY <1>2, <1>3, <1>4, <1>5, <1>6, <1>7, <1>8 DEF PersonActs

LEMMA ServeKeeps == ASSUME Belonging, NEW k \in Slots, Serve(k) PROVE Belonging'
<1>1. calls[k].phase = "sent" /\ UNCHANGED <<page, ghosts, acts, losses>>
  BY DEF Serve
<1>. QED
  BY <1>1, ServeAskKeeps, ServeHistoryKeeps, ServeListKeeps, ServeUploadKeeps,
     ServeDeleteKeeps DEF Serve

LEMMA AnswerKeeps ==
    ASSUME Belonging, NEW k \in Slots, NEW lost \in BOOLEAN, Answer(k, lost)
    PROVE  Belonging'
<1>1. /\ lost \/ calls[k].phase = "served"
      /\ UNCHANGED <<user, session, ticked, open, server, drawn, handed, acts>>
  BY DEF Answer
<1>2. losses' \in 0..Losses
  BY BrowserPageAssumption DEF Answer, Belonging, Shape
<1>. QED
  BY <1>1, <1>2, AskAnsweredKeeps, HistoryAnsweredKeeps, ListAnsweredKeeps,
     ChangeAnsweredKeeps DEF Answer

LEMMA StutterKeeps == ASSUME Belonging, UNCHANGED vars PROVE Belonging'
<1> USE DEF Belonging
<1>1. /\ user' = user /\ session' = session /\ turns' = turns /\ calls' = calls
      /\ ticked' = ticked /\ open' = open /\ items' = items /\ listed' = listed
      /\ owner' = owner /\ status' = status /\ later' = later
      /\ attached' = attached /\ log' = log
      /\ drawn' = drawn /\ handed' = handed /\ behind' = behind
      /\ acts' = acts /\ losses' = losses
  BY DEF vars, page, server, ghosts
<1>2. Shape'
  BY <1>1 DEF Shape, CallShaped
<1>3. Threads'
  BY <1>1 DEF Threads
<1>4. Hands' /\ Lists'
  BY <1>1 DEF Hands, Lists, Shown
<1>5. OneHand'
  BY <1>1 DEF OneHand, BelongsTo, CallBelongs, Own
<1>6. Settling'
  BY <1>1, VisibleStays DEF Settling, Current, Changed, Asked, Newer
<1>. QED
  BY <1>2, <1>3, <1>4, <1>5, <1>6

\* Whatever the page and the server do, in whatever order answers arrive.
THEOREM BelongingInvariant == Spec => []Belonging
<1>1. Init => Belonging
  BY BelongingInit
<1>2. Belonging /\ [Next]_vars => Belonging'
  <2> SUFFICES ASSUME Belonging, [Next]_vars PROVE Belonging'
    OBVIOUS
  <2>1. CASE \E u \in People : SignIn(u)
    BY <2>1, SignInKeeps
  <2>2. CASE PersonActs
    BY <2>2, PersonActsKeeps
  <2>3. CASE Poll
    <3>1. acts' \in 0..Acts /\ acts <= acts' /\ losses' = losses
      BY <2>3, BrowserPageAssumption DEF Poll, Belonging, Shape
    <3>. QED
      BY <2>3, <3>1, SendingKeeps
  <2>4. CASE \E f \in Files : Process(f)
    BY <2>4, ProcessKeeps
  <2>5. CASE \E k \in Slots : Serve(k) \/ \E lost \in BOOLEAN : Answer(k, lost)
    BY <2>5, ServeKeeps, AnswerKeeps
  <2>6. CASE UNCHANGED vars
    BY <2>6, StutterKeeps
  <2>. QED
    BY <2>1, <2>2, <2>3, <2>4, <2>5, <2>6 DEF Next
<1>. QED
  BY <1>1, <1>2, PTL DEF Spec

\* TypeOK: the page and the server keep their types, a slot is taken exactly
\* while its request is on its way, and no two turns on display share the id
\* by which their answers find them.
THEOREM PageTypeCorrect == Spec => []TypeOK
<1>1. Belonging => TypeOK
  <2> SUFFICES ASSUME Belonging PROVE TypeOK
    OBVIOUS
  <2> USE DEF Belonging
  <2>1. /\ user \in People \cup {Nobody} /\ session \in 1..drawn /\ drawn <= Sessions
        /\ ticked \subseteq Files /\ open \in BOOLEAN /\ behind \in BOOLEAN
        /\ handed \subseteq 1..drawn /\ acts <= Acts /\ losses <= Losses
        /\ listed \in [Files -> Status] /\ status \in [Files -> Status]
        /\ owner \in [Files -> People \cup {Nobody}] /\ later \in [Files -> SUBSET Files]
    BY DEF Shape
  <2>2. \A k \in Slots : calls[k].by # Nobody <=> ~Idle(k)
    BY DEF Shape, CallShaped, Idle
  <2>3. \A i, j \in DOMAIN turns : turns[i].question = turns[j].question => i = j
    BY DEF Threads, Thread
  <2>. QED
    BY <2>1, <2>2, <2>3 DEF TypeOK
<1>. QED
  BY <1>1, BelongingInvariant, PTL

\* TurnsBelong (FR-FV10-054, FR-FV10-055): the thread on display is of the
\* session the next question goes to and of the person signed in, and every
\* answer stands under its own question, however late it comes.
THEOREM TurnsAlwaysBelong == Spec => []TurnsBelong
<1>1. Belonging => TurnsBelong
  BY DEF Belonging, Threads, Thread, Hands, TurnsBelong
<1>. QED
  BY <1>1, BelongingInvariant, PTL

\* ListSettles: the files panel comes to rest on the server's list, unless an
\* answer was lost or overtaken (FilesPanel, refresh).
THEOREM ListsSettle == Spec => []ListSettles
<1>1. Belonging => ListSettles
  <2> SUFFICES ASSUME Belonging, user # Nobody, ~PollDue,
                      \A k \in Slots : calls[k].kind \in {"none", "ask", "history"}
               PROVE  listed = Visible(user) \/ behind
    BY DEF ListSettles
  <2> USE DEF Belonging
  <2>1. behind \/ Current(listed)
    BY DEF Settling, Changed
  <2>2. Current(listed) => \A f \in Files : listed[f] = Visible(user)[f]
    BY DEF Current, PollDue
  <2>3. listed \in [Files -> Status] /\ Visible(user) \in [Files -> Status]
    BY DEF Shape, Visible, Status
  <2>. QED
    BY <2>1, <2>2, <2>3
<1>. QED
  BY <1>1, BelongingInvariant, PTL

-----------------------------------------------------------------------------
(* Refused questions.                                                      *)

\* Only chat_query_v2 refuses a question.
LEMMA OnlyServed ==
    ASSUME Belonging, [Next]_vars, NEW k \in Slots, calls[k].kind = "ask",
           calls[k].result # "refused", calls'[k].result = "refused"
    PROVE  calls[k].phase = "sent" /\ ServeAsk(k)
<1> USE DEF Belonging
<1>1. ASSUME NEW j \in Slots, NEW c \in CallRec, NEW kind, NEW q, NEW files,
             Sends(j, c, kind, q, files)
      PROVE  FALSE
  BY <1>1 DEF Sends, NewCall, Shape, CallShaped
<1>2. calls' # calls
  OBVIOUS
<1>3. ASSUME NEW u \in People, SignIn(u) PROVE FALSE
  <2>1. PICK j \in Slots, c \in CallRec : Sends(j, c, "list", 0, {})
    BY <1>3, Fetches DEF SignIn, Kinds
  <2>. QED
    BY <1>1, <2>1
<1>4. CASE PersonActs
  <2>1. CASE SignOut
    <3>1. calls'[k] = NoCall \/ calls'[k] = [calls[k] EXCEPT !.live =
                                               calls[k].kind \notin {"upload", "delete"}]
      BY <2>1 DEF SignOut, Unmounted
    <3>2. calls[k] \in CallRec
      BY DEF Shape
    <3>. QED
      BY <3>1, <3>2, NoCallIs DEF CallRec
  <2>2. CASE StartNewChat \/ CloseHistory \/ (\E s \in 1..drawn : Resume(s))
             \/ \E f \in Files : Toggle(f)
    BY <1>2, <2>2 DEF StartNewChat, CloseHistory, Resume, Toggle
  <2>3. CASE SubmitQuestion
    <3>1. user \in People /\ acts + 1 \in Nat /\ ticked \in SUBSET Files
      BY <2>3, BrowserPageAssumption DEF SubmitQuestion, Shape
    <3>2. PICK j \in Slots, c \in CallRec : Sends(j, c, "ask", acts + 1, ticked)
      BY <2>3, <3>1, Fetches DEF SubmitQuestion, Kinds
    <3>. QED
      BY <1>1, <3>2
  <2>4. CASE OpenHistory
    <3>1. PICK j \in Slots, c \in CallRec : Sends(j, c, "history", 0, {})
      BY <2>4, Fetches DEF OpenHistory, Kinds, Shape
    <3>. QED
      BY <1>1, <3>1
  <2>5. ASSUME NEW f \in Files, Upload(f) PROVE FALSE
    <3>1. PICK j \in Slots, c \in CallRec : Sends(j, c, "upload", 0, {f})
      BY <2>5, Fetches DEF Upload, Kinds, Shape, page
    <3>. QED
      BY <1>1, <3>1
  <2>6. ASSUME NEW f \in Files, Delete(f) PROVE FALSE
    <3>1. PICK j \in Slots, c \in CallRec : Sends(j, c, "delete", 0, {f})
      BY <2>6, Fetches DEF Delete, Kinds, Shape, page
    <3>. QED
      BY <1>1, <3>1
  <2>. QED
    BY <1>4, <2>1, <2>2, <2>3, <2>4, <2>5, <2>6 DEF PersonActs
<1>5. CASE Poll
  <2>1. PICK j \in Slots, c \in CallRec : Sends(j, c, "list", 0, {})
    BY <1>5, Fetches DEF Poll, PollDue, Kinds, Shape, page
  <2>. QED
    BY <1>1, <2>1
<1>6. ASSUME NEW f \in Files, Process(f) PROVE FALSE
  BY <1>2, <1>6 DEF Process
<1>7. ASSUME NEW j \in Slots, Serve(j) PROVE calls[k].phase = "sent" /\ ServeAsk(k)
  <2>1. CASE ServeAsk(j)
    <3>1. \E result \in {"done", "refused", "failed"} : calls' = Served(j, result)
      BY <2>1 DEF ServeAsk
    <3>2. j = k
      BY <1>7, <3>1, ServedIs DEF Serve
    <3>. QED
      BY <1>7, <2>1, <3>2 DEF Serve
  <2>2. ASSUME calls[j].kind # "ask" PROVE calls'[k] = calls[k]
    <3>1. j # k
      BY <2>2
    <3>. QED
      BY <1>7, <2>2, <3>1 DEF Serve, ServeAsk, ServeHistory, ServeList, ServeUpload,
         ServeDelete, Served, Shape
  <2>. QED
    BY <1>7, <2>1, <2>2 DEF Serve, ServeHistory, ServeList, ServeUpload, ServeDelete
<1>8. ASSUME NEW j \in Slots, NEW lost \in BOOLEAN, Answer(j, lost) PROVE FALSE
  <2>1. ASSUME Closes(j) PROVE FALSE
    <3>1. CASE j = k
      BY <2>1, <3>1 DEF Closes, Emptied
    <3>2. CASE j # k
      BY <2>1, <3>2 DEF Closes, Stays
    <3>. QED
      BY <3>1, <3>2
  <2>2. ASSUME NEW m \in Slots, NEW c \in CallRec, ClosesAndAsks(j, m, c) PROVE FALSE
    BY <2>2 DEF ClosesAndAsks, NewCall, Stays, Emptied
  <2>3. CASE AskAnswered(j, lost) \/ HistoryAnswered(j, lost)
    BY <2>1, <2>3, ClosesIs DEF AskAnswered, HistoryAnswered, Shape
  <2>4. ASSUME Missed(j) PROVE FALSE
    BY <2>1, <2>4, MissedIs
  <2>5. CASE ListAnswered(j, lost)
    <3>1. calls \in [Slots -> CallRec] /\ calls[j].before \in SUBSET Slots
      BY DEF Shape, CallRec
    <3>2. \/ Missed(j)
          \/ calls' = [i \in Slots |->
                         [Closed(j)[i] EXCEPT !.late = @ \/ i \in calls[j].before]]
      BY <2>5 DEF ListAnswered
    <3>. QED
      BY <2>1, <2>4, <3>1, <3>2, ClosesLateIs
  <2>6. CASE ChangeAnswered(j, lost)
    <3>1. \/ Missed(j)
          \/ /\ calls[j].kind \in {"upload", "delete"} /\ calls[j].live
             /\ calls' = Sending(Closed(j), user, "list", 0, {})
      BY <2>6 DEF ChangeAnswered
    <3>2. user' = user /\ calls \in [Slots -> CallRec] /\ session \in 0..Sessions
      BY <1>8, BrowserPageAssumption DEF Answer, Shape
    <3>3. calls[j].kind \in {"upload", "delete"} /\ calls[j].live => user \in People
      BY DEF Hands, Shape, CallShaped
    <3>. QED
      BY <2>2, <2>4, <3>1, <3>2, <3>3, AsksAgainIs
  <2>. QED
    BY <1>8, <2>3, <2>5, <2>6 DEF Answer
<1>. QED
  BY <1>2, <1>3, <1>4, <1>5, <1>6, <1>7, <1>8 DEF Next, vars

\* RefusalsAreExplained: a question is refused for its files only after one of
\* them was deleted under it (handleDelete leaves it ticked, and the server in
\* its session), or in a session that was handed over.
THEOREM RefusalsExplained == Spec => RefusalsAreExplained
<1> DEFINE Explained ==
      \A k \in Slots :
         /\ calls[k].kind = "ask" /\ calls[k].result # "refused"
         /\ calls'[k].result = "refused"
         => \/ calls[k].session \in handed
            \/ \E f \in attached'[calls[k].session] :
                 owner[f] = calls[k].by /\ status[f] = "none"
<1>1. Belonging /\ [Next]_vars => [Explained]_vars
  <2> SUFFICES ASSUME Belonging, [Next]_vars, NEW k \in Slots,
                      calls[k].kind = "ask", calls[k].result # "refused",
                      calls'[k].result = "refused", calls[k].session \notin handed
               PROVE  \E f \in attached'[calls[k].session] :
                        owner[f] = calls[k].by /\ status[f] = "none"
    OBVIOUS
  <2> USE DEF Belonging
  <2> DEFINE files == IF calls[k].files # {} THEN calls[k].files
                      ELSE attached[calls[k].session]
  <2>1. calls[k].phase = "sent" /\ ServeAsk(k)
    BY OnlyServed
  <2>2. /\ calls[k].session \in 1..Sessions /\ calls \in [Slots -> CallRec]
        /\ attached \in [1..Sessions -> SUBSET Files]
    BY BrowserPageAssumption DEF Shape, CallShaped
  <2>3. attached'[calls[k].session] = files
    BY <2>1, <2>2 DEF ServeAsk
  <2>4. \E f \in files : owner[f] # calls[k].by \/ status[f] # "ready"
    <3>1. \/ \E f \in files : owner[f] # calls[k].by \/ status[f] # "ready"
          \/ calls' = Served(k, "done") \/ calls' = Served(k, "failed")
      BY <2>1 DEF ServeAsk
    <3>. QED
      BY <2>1, <3>1, ServedIs
  <2>5. PICK u \in People \cup {Nobody} : BelongsTo(calls[k].session, u)
    BY <2>2 DEF OneHand
  <2>6. calls[k].by = u /\ \A f \in files : Own(u, f)
    BY <2>2, <2>5 DEF BelongsTo, CallBelongs
  <2>. QED
    BY <2>3, <2>4, <2>6 DEF Own
<1>2. Spec => [][Explained]_vars
  BY <1>1, BelongingInvariant, PTL DEF Spec
<1>. QED
  BY <1>2 DEF RefusalsAreExplained

=============================================================================
