----------------------------- MODULE LLMGateway -----------------------------
(***************************************************************************)
(* LLMGateway.complete: one call of a provider, its retries, and the       *)
(* circuit breaker all calls of that provider share.  A call reads the     *)
(* breaker's state before it starts, and once more for the trace event     *)
(* when it is refused or has failed; either read may half-open it.         *)
(*                                                                         *)
(* Calls run in the threads of the request pool and the breaker has no     *)
(* lock.  CPython switches threads at a call, a function entry or a loop's *)
(* jump back, never between two plain assignments: record_success is one   *)
(* step, record_failure two (around clock()), and the state property up to *)
(* three (its entry, _cooldown_elapsed, and what follows clock()).         *)
(* Time moves only while a thread is not between two such steps: they are  *)
(* milliseconds apart, the cooldown is thirty seconds.                     *)
(***************************************************************************)
EXTENDS Naturals, FiniteSets

CONSTANTS
    Calls,         \* calls of complete() (bound)
    MaxRetries,    \* route.max_retries
    Threshold,     \* failure_threshold
    Cooldown,      \* cooldown_seconds
    MaxTime,       \* the clock stops here (bound)
    NoBreaker, NoTime

Times == 0..MaxTime

ASSUME LLMGatewayAssumption ==
    /\ IsFiniteSet(Calls)
    /\ MaxRetries \in Nat /\ MaxTime \in Nat
    /\ Threshold \in Nat \ {0} /\ Cooldown \in Nat \ {0}
    /\ NoBreaker \notin Calls /\ NoTime \notin Nat

States == {"closed", "open", "half_open"}

\* A breaker is known by the call that made it.
Breaker == [state : States, failures : Nat, openedAt : Nat \cup {NoTime}]
NewBreaker == [state |-> "closed", failures |-> 0, openedAt |-> NoTime]

VARIABLES
    now,
    registered, \* _circuit_breakers[provider]
    breaker,    \* the breaker objects
    pc,         \* per call: where its thread is
    held,       \* per call: the breaker it was given
    attempt,    \* per call: attempts made
    at,         \* per call: the clock reading it holds
    reading,    \* per call: what its read of the state is for
    lastFailure \* when a failed call was last recorded, per breaker (history)

vars == <<now, registered, breaker, pc, held, attempt, at, reading, lastFailure>>

\* "cooldown" and "elapsed" are inside the state property, "opening" is inside
\* record_failure.
PCs == {"new", "create", "check", "cooldown", "elapsed", "calling", "failing",
        "opening", "succeeded", "failed", "refused", "crashed", "raised"}
Ended == {"succeeded", "failed", "refused", "crashed", "raised"}
BetweenStores == {"cooldown", "elapsed", "opening"}
Readings == {"before_call", "refused", "failed"}

Goto(c, label) == pc' = [pc EXCEPT ![c] = label]
B(c) == breaker[held[c]]

Init ==
    /\ now = 0
    /\ registered = NoBreaker
    /\ breaker = [c \in Calls |-> NewBreaker]
    /\ pc = [c \in Calls |-> "new"]
    /\ held = [c \in Calls |-> NoBreaker]
    /\ attempt = [c \in Calls |-> 0]
    /\ at = [c \in Calls |-> NoTime]
    /\ reading = [c \in Calls |-> "before_call"]
    /\ lastFailure = [c \in Calls |-> NoTime]

Tick ==
    /\ now < MaxTime
    /\ \A c \in Calls : pc[c] \notin BetweenStores
    /\ now' = now + 1
    /\ UNCHANGED <<registered, breaker, pc, held, attempt, at, reading, lastFailure>>

-----------------------------------------------------------------------------
(* circuit_breaker_for: look up, make one, insert it. *)

LookUpBreaker(c) ==
    /\ pc[c] = "new"
    /\ IF registered = NoBreaker
       THEN Goto(c, "create") /\ UNCHANGED held
       ELSE held' = [held EXCEPT ![c] = registered] /\ Goto(c, "check")
    /\ UNCHANGED <<now, registered, breaker, attempt, at, reading, lastFailure>>

\* Another call may have inserted its own since the look-up.
InsertBreaker(c) ==
    /\ pc[c] = "create"
    /\ registered' = c
    /\ held' = [held EXCEPT ![c] = c]
    /\ Goto(c, "check")
    /\ UNCHANGED <<now, breaker, attempt, at, reading, lastFailure>>

-----------------------------------------------------------------------------
(* The state property, in before_call and for the trace event. *)

\* What a read of the state leads to: only before_call heeds it, and a call it
\* refuses reads once more.
Returns(c, state) ==
    /\ Goto(c, CASE reading[c] = "before_call" /\ state = "open" -> "check"
                 [] reading[c] = "before_call" /\ state # "open" -> "calling"
                 [] OTHER -> reading[c])
    /\ reading' = [reading EXCEPT ![c] =
                     IF @ = "before_call" /\ state = "open" THEN "refused" ELSE @]

Check(c) ==
    /\ pc[c] = "check"
    /\ IF B(c).state = "open" THEN Goto(c, "cooldown") /\ UNCHANGED reading
       ELSE Returns(c, B(c).state)
    /\ UNCHANGED <<now, registered, breaker, held, attempt, at, lastFailure>>

\* _cooldown_elapsed: an unset _opened_at ends it; _state is read again.
CooldownElapsed(c) ==
    /\ pc[c] = "cooldown"
    /\ IF B(c).openedAt = NoTime
       THEN Returns(c, B(c).state) /\ UNCHANGED at
       ELSE at' = [at EXCEPT ![c] = now] /\ Goto(c, "elapsed") /\ UNCHANGED reading
    /\ UNCHANGED <<now, registered, breaker, held, attempt, lastFailure>>

Cooled(c) == at[c] >= B(c).openedAt + Cooldown

\* clock() - _opened_at is a TypeError when a success has cleared it meanwhile.
HalfOpen(c) ==
    /\ pc[c] = "elapsed"
    /\ at' = [at EXCEPT ![c] = NoTime]
    /\ IF B(c).openedAt = NoTime
       THEN Goto(c, "crashed") /\ UNCHANGED <<breaker, reading>>
       ELSE IF Cooled(c)
       THEN /\ breaker' = [breaker EXCEPT ![held[c]] = [B(c) EXCEPT !.state = "half_open"]]
            /\ Returns(c, "half_open")
       ELSE Returns(c, B(c).state) /\ UNCHANGED breaker
    /\ UNCHANGED <<now, registered, held, attempt, lastFailure>>

-----------------------------------------------------------------------------
(* The attempts, and what their end does to the breaker. *)

\* Mutant: only the trial of a half-open breaker closes it.
Closed_FromHalfOpen(b) ==
    IF b.state = "half_open" THEN NewBreaker ELSE [b EXCEPT !.failures = 0, !.openedAt = NoTime]
Closed(b) == NewBreaker

\* record_success
Succeeds(c) ==
    /\ pc[c] = "calling"
    /\ breaker' = [breaker EXCEPT ![held[c]] = Closed(B(c))]
    /\ Goto(c, "succeeded")
    /\ UNCHANGED <<now, registered, held, attempt, at, reading, lastFailure>>

\* Mutant: a retry counts as a failure of its own.
AttemptFails_Counts(c) ==
    /\ pc[c] = "calling"
    /\ attempt' = [attempt EXCEPT ![c] = attempt[c] + 1]
    /\ breaker' = [breaker EXCEPT ![held[c]].failures = B(c).failures + 1]
    /\ Goto(c, IF attempt[c] < MaxRetries THEN "calling" ELSE "failing")
    /\ UNCHANGED <<now, registered, held, at, reading, lastFailure>>

\* LLMProviderError or a timeout; the breaker is not asked before a retry.
AttemptFails(c) ==
    /\ pc[c] = "calling"
    /\ attempt' = [attempt EXCEPT ![c] = attempt[c] + 1]
    /\ Goto(c, IF attempt[c] < MaxRetries THEN "calling" ELSE "failing")
    /\ UNCHANGED <<now, registered, breaker, held, at, reading, lastFailure>>

\* Any other exception of the provider passes through unrecorded.
AttemptRaises(c) ==
    /\ pc[c] = "calling"
    /\ Goto(c, "raised")
    /\ UNCHANGED <<now, registered, breaker, held, attempt, at, reading, lastFailure>>

\* Mutant: a failure more than the threshold.
Opens_OneLater(b) == b.state = "half_open" \/ b.failures > Threshold
Opens(b) == b.state = "half_open" \/ b.failures + 1 >= Threshold

\* The trace event of a failed call reads the state.
Reports(c) == Goto(c, "check") /\ reading' = [reading EXCEPT ![c] = "failed"]

\* record_failure up to clock(): the count, the test, the state.
RecordFailure(c) ==
    /\ pc[c] = "failing"
    /\ lastFailure' = [lastFailure EXCEPT ![held[c]] = now]
    /\ IF Opens(B(c))
       THEN /\ breaker' = [breaker EXCEPT ![held[c]] =
                             [B(c) EXCEPT !.failures = B(c).failures + 1, !.state = "open"]]
            /\ at' = [at EXCEPT ![c] = now]
            /\ Goto(c, "opening") /\ UNCHANGED reading
       ELSE /\ breaker' = [breaker EXCEPT ![held[c]].failures = B(c).failures + 1]
            /\ Reports(c) /\ UNCHANGED at
    /\ UNCHANGED <<now, registered, held, attempt>>

\* ... and what comes after clock(): _opened_at.
StoreOpenedAt(c) ==
    /\ pc[c] = "opening"
    /\ breaker' = [breaker EXCEPT ![held[c]] = [B(c) EXCEPT !.openedAt = at[c]]]
    /\ at' = [at EXCEPT ![c] = NoTime]
    /\ Reports(c)
    /\ UNCHANGED <<now, registered, held, attempt, lastFailure>>

Step(c) ==
    \/ LookUpBreaker(c) \/ InsertBreaker(c)
    \/ Check(c) \/ CooldownElapsed(c) \/ HalfOpen(c)
    \/ Succeeds(c) \/ AttemptFails(c) \/ AttemptRaises(c)
    \/ RecordFailure(c) \/ StoreOpenedAt(c)

Next == Tick \/ \E c \in Calls : Step(c)

Spec == Init /\ [][Next]_vars
=============================================================================
