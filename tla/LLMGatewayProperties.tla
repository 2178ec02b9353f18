------------------------ MODULE LLMGatewayProperties ------------------------
(* What the circuit breaker promises to the calls of a provider. *)
EXTENDS LLMGateway

\* Breakers and locals keep their types, and a failed call counts once for its
\* breaker, whatever it retried.
TypeOK ==
    /\ now \in Times
    /\ registered \in Calls \cup {NoBreaker}
    /\ breaker \in [Calls -> [state : States, failures : 0..Cardinality(Calls),
                              openedAt : Times \cup {NoTime}]]
    /\ pc \in [Calls -> PCs]
    /\ held \in [Calls -> Calls \cup {NoBreaker}]
    /\ attempt \in [Calls -> 0..MaxRetries + 1]
    /\ at \in [Calls -> Times \cup {NoTime}]
    /\ reading \in [Calls -> Readings]
    /\ lastFailure \in [Calls -> Times \cup {NoTime}]

Opening(b) == \E c \in Calls : pc[c] = "opening" /\ held[c] = b

\* An open breaker knows since when, or the thread that opened it is about to
\* write it down: it is never left open for good, however a success that began
\* earlier clears it in between.
OpenKnowsWhen ==
    \A b \in Calls :
        breaker[b].state = "open" => breaker[b].openedAt # NoTime \/ Opening(b)

\* A breaker that is not closed has seen the threshold of failures since its
\* last success: a thread that computed the cooldown before that success cannot
\* half-open it afterwards.
TrippedByFailures ==
    \A b \in Calls : breaker[b].state # "closed" => breaker[b].failures >= Threshold

\* A breaker that is not closed has earned it, and its wait has an end.
OpenIsEarned == OpenKnowsWhen /\ TrippedByFailures

Enters(c, label) == pc[c] # label /\ pc'[c] = label

\* With the threshold of failures since its last success, a breaker lets calls
\* through only half open, and is so only after the cooldown since the last of
\* them, unless a thread that found it elapsed overtakes one that is reopening it.
TrippedStep ==
    /\ \A c \in Calls :
         Enters(c, "calling") /\ B(c).failures >= Threshold
             => breaker'[held[c]].state = "half_open"
    /\ \A b \in Calls :
         breaker[b].state # "half_open" /\ breaker'[b].state = "half_open"
             => \/ lastFailure[b] # NoTime /\ now >= lastFailure[b] + Cooldown
                \/ Opening(b)

\* FR-FV06-003: the breaker refuses while it should.
TrippedHolds == [][TrippedStep]_vars

\* A call is refused only within the cooldown of a recorded failure: the
\* provider is tried again afterwards.
RefusalStep ==
    \A c \in Calls :
        reading[c] = "before_call" /\ reading'[c] = "refused" =>
            /\ lastFailure[held[c]] # NoTime
            /\ now < lastFailure[held[c]] + Cooldown

\* The breaker refuses no longer than it should.
RefusedOnlyWhileCooling == [][RefusalStep]_vars

\* The breaker refuses while it should, and no longer.
BreakerIsTimely == TrippedHolds /\ RefusedOnlyWhileCooling
=============================================================================
