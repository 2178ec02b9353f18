---------------------------- MODULE GatewayProofs ----------------------------
(***************************************************************************)
(* Proofs about LLMGateway, for every set of calls, number of retries,     *)
(* threshold, cooldown and clock range.                                    *)
(*                                                                         *)
(* Neither TypeOK nor OpenIsEarned is inductive.  A breaker counts no more *)
(* failures than calls have recorded (Counted), because a call records its *)
(* failure once.  What keeps a thread that computed the cooldown from      *)
(* acting on a breaker that a success has closed meanwhile is that no time *)
(* passes between its steps: an opening time it finds then is either gone  *)
(* or the present (Overtaken).                                             *)
(***************************************************************************)
EXTENDS LLMGatewayProperties, FiniteSetTheorems, TLAPS

\* The calls that have recorded their failure.
Counted == {c \in Calls : pc[c] = "opening" \/ reading[c] = "failed"}

\* What a call holds at each of its program points.
CallShape(c) ==
    /\ pc[c] \notin {"new", "create"} => held[c] \in Calls
    /\ pc[c] \in {"elapsed", "opening"} => at[c] = now
    /\ pc[c] \in {"new", "create", "calling", "failing", "opening"} =>
         reading[c] = "before_call"
    /\ pc[c] \in {"new", "create", "check", "cooldown", "elapsed", "calling"}
         /\ reading[c] = "before_call" => attempt[c] <= MaxRetries

\* A success has closed the breaker of a thread that computes the cooldown: the
\* opening time that thread will find is unset, or set just now.
Overtaken(c) ==
    pc[c] \in {"cooldown", "elapsed"} /\ B(c).state = "closed" =>
        B(c).openedAt \in {NoTime, now}

\* What a breaker remembers of its failures.
BreakerShape(b) ==
    /\ breaker[b].failures <= Cardinality(Counted)
    /\ breaker[b].state = "closed" <=> breaker[b].failures < Threshold
    /\ breaker[b].openedAt # NoTime =>
         lastFailure[b] # NoTime /\ breaker[b].openedAt <= lastFailure[b]
    /\ breaker[b].state # "closed" /\ breaker[b].openedAt # NoTime =>
         breaker[b].openedAt = lastFailure[b] \/ Opening(b)
    /\ Opening(b) => lastFailure[b] = now
    /\ lastFailure[b] # NoTime => lastFailure[b] <= now

BreakerTypes ==
    breaker \in [Calls -> [state : States, failures : Nat,
                           openedAt : Times \cup {NoTime}]]

Types ==
    /\ now \in Times
    /\ registered \in Calls \cup {NoBreaker}
    /\ BreakerTypes
    /\ pc \in [Calls -> PCs]
    /\ held \in [Calls -> Calls \cup {NoBreaker}]
    /\ attempt \in [Calls -> 0..MaxRetries + 1]
    /\ at \in [Calls -> Times \cup {NoTime}]
    /\ reading \in [Calls -> Readings]
    /\ lastFailure \in [Calls -> Times \cup {NoTime}]

IInv ==
    /\ Types
    /\ \A c \in Calls : CallShape(c) /\ Overtaken(c)
    /\ \A b \in Calls : BreakerShape(b)
    /\ OpenKnowsWhen

-----------------------------------------------------------------------------
(* The count of recorded failures.                                         *)

LEMMA CountedIsFinite ==
    IsFiniteSet(Counted) /\ Cardinality(Counted) \in Nat
BY LLMGatewayAssumption, FS_Subset, FS_CardinalityType DEF Counted

LEMMA RecordedOnce ==
    ASSUME IInv, NEW c \in Calls, RecordFailure(c)
    PROVE  Cardinality(Counted)' = Cardinality(Counted) + 1
<1>1. c \notin Counted /\ Counted' = Counted \cup {c}
  BY DEF IInv, Types, Counted, RecordFailure, CallShape, Goto, Reports
<1>. QED
  BY <1>1, CountedIsFinite, FS_AddElement

LEMMA ReturnsTyped ==
    ASSUME Types, NEW c \in Calls, NEW state, Returns(c, state)
    PROVE  pc' \in [Calls -> PCs] /\ reading' \in [Calls -> Readings]
<1>1. reading[c] \in Readings /\ Readings \ {"before_call"} \subseteq PCs
  BY DEF Types, Readings, PCs
<1>2. pc' = [pc EXCEPT ![c] = pc'[c]] /\ pc'[c] \in PCs
  BY DEF Types, Returns, Goto, PCs, Readings
<1>3. reading' = [reading EXCEPT ![c] = reading'[c]] /\ reading'[c] \in Readings
  BY DEF Types, Returns, Readings
<1>. QED
  BY <1>2, <1>3 DEF Types

LEMMA HeldBreaker ==
    ASSUME IInv, NEW c \in Calls, pc[c] \notin {"new", "create"}
    PROVE  /\ held[c] \in Calls
           /\ B(c) \in [state : States, failures : Nat, openedAt : Times \cup {NoTime}]
BY DEF IInv, Types, BreakerTypes, CallShape, B

LEMMA TimesUpdated ==
    ASSUME NEW f \in [Calls -> Times \cup {NoTime}], NEW x \in Calls, NEW t \in Times
    PROVE  [f EXCEPT ![x] = t] \in [Calls -> Times \cup {NoTime}]
OBVIOUS

LEMMA FailureRecorded ==
    ASSUME IInv, NEW c \in Calls, RecordFailure(c)
    PROVE  /\ held[c] \in Calls /\ B(c) = breaker[held[c]]
           /\ \A b \in Calls \ {held[c]} : breaker'[b] = breaker[b]
           /\ breaker'[held[c]].failures = B(c).failures + 1
           /\ breaker'[held[c]].openedAt = B(c).openedAt
           /\ breaker'[held[c]].state = IF Opens(B(c)) THEN "open" ELSE B(c).state
<1>1. /\ held[c] \in Calls /\ B(c) = breaker[held[c]]
      /\ B(c) \in [state : States, failures : Nat, openedAt : Times \cup {NoTime}]
  BY HeldBreaker DEF RecordFailure, B
<1>2. CASE Opens(B(c))
  <2> DEFINE new == [B(c) EXCEPT !.failures = B(c).failures + 1, !.state = "open"]
  <2>1. /\ new.failures = B(c).failures + 1 /\ new.state = "open"
        /\ new.openedAt = B(c).openedAt
    OBVIOUS
  <2>2. breaker' = [breaker EXCEPT ![held[c]] = new]
    BY <1>2 DEF RecordFailure
  <2>. HIDE DEF new
  <2>. QED
    BY <1>1, <1>2, <2>1, <2>2 DEF IInv, Types, BreakerTypes
<1>3. CASE ~Opens(B(c))
  <2>1. breaker' = [breaker EXCEPT ![held[c]] =
                      [breaker[held[c]] EXCEPT !.failures = B(c).failures + 1]]
    BY <1>3 DEF RecordFailure
  <2>. QED
    BY <1>1, <1>3, <2>1 DEF IInv, Types, BreakerTypes
<1>. QED
  BY <1>2, <1>3

LEMMA InitIInv == Init => IInv
BY LLMGatewayAssumption, CountedIsFinite
   DEF Init, IInv, Types, BreakerTypes, Times, PCs, Readings, States,
       NewBreaker, CallShape, Overtaken, BreakerShape, Opening, OpenKnowsWhen

LEMMA NextIInv == IInv /\ [Next]_vars => IInv'
<1> SUFFICES ASSUME IInv, [Next]_vars PROVE IInv'
  OBVIOUS
<1> USE LLMGatewayAssumption DEF IInv
<1>1. ASSUME NEW c \in Calls, LookUpBreaker(c) PROVE IInv'
  <2>0. Counted' = Counted
    BY <1>1 DEF LookUpBreaker, Counted, Types, Goto
  <2>1. Types'
    <3>1. "create" \in PCs /\ "check" \in PCs
      BY DEF PCs
    <3>. QED
      BY <1>1, <3>1 DEF LookUpBreaker, Types, BreakerTypes, Goto
  <2>2. (\A d \in Calls : CallShape(d) /\ Overtaken(d))'
    BY <1>1 DEF LookUpBreaker, Types, Goto, B, CallShape, Overtaken
  <2>3. (\A b \in Calls : BreakerShape(b))'
    BY <1>1, <2>0, CountedIsFinite
       DEF LookUpBreaker, Types, Goto, BreakerShape, Opening
  <2>4. OpenKnowsWhen'
    BY <1>1 DEF LookUpBreaker, Types, Goto, Opening, OpenKnowsWhen
  <2>. QED
    BY <2>1, <2>2, <2>3, <2>4
<1>2. ASSUME NEW c \in Calls, InsertBreaker(c) PROVE IInv'
  <2>0. Counted' = Counted
    BY <1>2 DEF InsertBreaker, Counted, Goto
  <2>1. Types'
    BY <1>2 DEF InsertBreaker, Types, BreakerTypes, PCs, Goto
  <2>2. (\A d \in Calls : CallShape(d) /\ Overtaken(d))'
    BY <1>2 DEF InsertBreaker, Types, Goto, B, CallShape, Overtaken
  <2>3. (\A b \in Calls : BreakerShape(b))'
    BY <1>2, <2>0 DEF InsertBreaker, Goto, BreakerShape, Opening
  <2>4. OpenKnowsWhen'
    BY <1>2 DEF InsertBreaker, Goto, Opening, OpenKnowsWhen
  <2>. QED
    BY <2>1, <2>2, <2>3, <2>4
<1>3. ASSUME NEW c \in Calls, Check(c) PROVE IInv'
  <2>0. Counted' = Counted
    BY <1>3 DEF Check, Returns, Counted, Types, Goto, Readings
  <2>1. Types'
    BY <1>3
       DEF Check, Returns, Types, BreakerTypes, PCs, Readings, States, Goto
  <2>2. (\A d \in Calls : CallShape(d) /\ Overtaken(d))'
    BY <1>3 DEF Check, Returns, Types, Readings, Goto, B, CallShape, Overtaken
  <2>3. (\A b \in Calls : BreakerShape(b))'
    BY <1>3, <2>0
       DEF Check, Returns, Types, Readings, Goto, BreakerShape, Opening
  <2>4. OpenKnowsWhen'
    BY <1>3 DEF Check, Returns, Types, Goto, Opening, OpenKnowsWhen
  <2>. QED
    BY <2>1, <2>2, <2>3, <2>4
<1>4. ASSUME NEW c \in Calls, CooldownElapsed(c) PROVE IInv'
  <2>0. Counted' = Counted
    BY <1>4 DEF CooldownElapsed, Returns, Counted, Types, Goto, Readings
  <2>1. Types'
    <3>1. "elapsed" \in PCs
      BY DEF PCs
    <3>2. pc' \in [Calls -> PCs] /\ reading' \in [Calls -> Readings]
      BY <1>4, <3>1, ReturnsTyped DEF CooldownElapsed, Goto, Types
    <3>. QED
      BY <1>4, <3>2 DEF CooldownElapsed, Types, BreakerTypes
  <2>2. (\A d \in Calls : CallShape(d) /\ Overtaken(d))'
    BY <1>4
       DEF CooldownElapsed, Returns, Types, Readings, Goto, B, CallShape,
           Overtaken
  <2>3. (\A b \in Calls : BreakerShape(b))'
    BY <1>4, <2>0
       DEF CooldownElapsed, Returns, Types, Readings, Goto, BreakerShape,
           Opening
  <2>4. OpenKnowsWhen'
    BY <1>4 DEF CooldownElapsed, Returns, Types, Goto, Opening, OpenKnowsWhen
  <2>. QED
    BY <2>1, <2>2, <2>3, <2>4
<1>5. ASSUME NEW c \in Calls, HalfOpen(c) PROVE IInv'
  <2>0. Counted' = Counted
    BY <1>5 DEF HalfOpen, Returns, Counted, Types, Goto, Readings
  <2>1. Types'
    <3>1. "crashed" \in PCs
      BY DEF PCs
    <3>2. pc' \in [Calls -> PCs] /\ reading' \in [Calls -> Readings]
      BY <1>5, <3>1, ReturnsTyped DEF HalfOpen, Goto, Types
    <3>3. held[c] \in Calls
      BY <1>5, HeldBreaker DEF HalfOpen
    <3>4. [B(c) EXCEPT !.state = "half_open"] \in
             [state : States, failures : Nat, openedAt : Times \cup {NoTime}]
      BY <1>5, HeldBreaker DEF HalfOpen, States
    <3>5. breaker' \in [Calls -> [state : States, failures : Nat,
                                 openedAt : Times \cup {NoTime}]]
      BY <1>5, <3>4 DEF HalfOpen, Types, BreakerTypes
    <3>. QED
      BY <1>5, <3>2, <3>5 DEF HalfOpen, Types, BreakerTypes
  <2>2. (\A d \in Calls : CallShape(d) /\ Overtaken(d))'
    <3>1. \A d \in Calls : CallShape(d)'
      BY <1>5 DEF HalfOpen, Returns, Goto, Types, Readings, CallShape
    <3>2. \A d \in Calls : pc'[d] \in {"cooldown", "elapsed"} => pc'[d] = pc[d]
      BY <1>5 DEF HalfOpen, Returns, Goto, Types, Readings
    <3>3. held[c] \in Calls /\ breaker[held[c]] = B(c)
      BY <1>5, HeldBreaker DEF HalfOpen, B
    <3>4. \A b \in Calls : /\ breaker'[b].openedAt = breaker[b].openedAt
                           /\ breaker'[b].state = "closed" => breaker[b].state = "closed"
      <4>1. CASE breaker' = breaker
        BY <4>1
      <4>2. CASE breaker' = [breaker EXCEPT ![held[c]] = [B(c) EXCEPT !.state = "half_open"]]
        BY <3>3, <4>2 DEF Types, BreakerTypes
      <4>. QED
        BY <1>5, <4>1, <4>2 DEF HalfOpen
    <3>5. now' = now /\ held' = held
      BY <1>5 DEF HalfOpen
    <3>6. \A d \in Calls : Overtaken(d)'
      <4> SUFFICES ASSUME NEW d \in Calls, pc[d] \in {"cooldown", "elapsed"}
                   PROVE  Overtaken(d)'
        BY <3>2 DEF Overtaken
      <4>1. held[d] \in Calls
        BY DEF CallShape
      <4>. QED
        BY <3>4, <3>5, <4>1 DEF Overtaken, B
    <3>. QED
      BY <3>1, <3>6
  <2>3. (\A b \in Calls : BreakerShape(b))'
    <3>1. held[c] \in Calls /\ breaker[held[c]] = B(c)
      BY <1>5, HeldBreaker DEF HalfOpen, B
    <3>2. \A b \in Calls : Opening(b)' <=> Opening(b)
      BY <1>5 DEF HalfOpen, Opening, Types, Goto, Returns, Readings
    <3>3. CASE breaker' = breaker
      BY <1>5, <2>0, <3>2, <3>3 DEF HalfOpen, BreakerShape
    <3>4. CASE B(c).openedAt # NoTime /\ Cooled(c)
      <4>1. B(c).state # "closed"
        BY <1>5, <3>4 DEF HalfOpen, Overtaken, CallShape, Cooled, Types, Times
      <4>2. \A b \in Calls :
              /\ breaker'[b].failures = breaker[b].failures
              /\ breaker'[b].openedAt = breaker[b].openedAt
              /\ breaker'[b].state = "closed" <=> breaker[b].state = "closed"
        BY <1>5, <3>1, <4>1 DEF HalfOpen, Types, BreakerTypes
      <4>. QED
        BY <1>5, <2>0, <3>2, <4>2 DEF HalfOpen, BreakerShape
    <3>. QED
      BY <1>5, <3>3, <3>4 DEF HalfOpen
  <2>4. OpenKnowsWhen'
    BY <1>5
       DEF HalfOpen, Returns, Types, BreakerTypes, Goto, B, Opening,
           OpenKnowsWhen
  <2>. QED
    BY <2>1, <2>2, <2>3, <2>4
<1>6. ASSUME NEW c \in Calls, Succeeds(c) PROVE IInv'
  <2>0. Counted' = Counted
    BY <1>6 DEF Succeeds, Counted, Goto
  <2>1. Types'
    BY <1>6
       DEF Succeeds, Closed, NewBreaker, Types, BreakerTypes, PCs, States,
           Goto, CallShape
  <2>2. (\A d \in Calls : CallShape(d) /\ Overtaken(d))'
    BY <1>6 DEF Succeeds, Closed, NewBreaker, Goto, B, CallShape, Overtaken
  <2>3. (\A b \in Calls : BreakerShape(b))'
    BY <1>6, <2>0, CountedIsFinite
       DEF Succeeds, Closed, NewBreaker, Goto, BreakerShape, Opening
  <2>4. OpenKnowsWhen'
    BY <1>6 DEF Succeeds, Closed, NewBreaker, Goto, Opening, OpenKnowsWhen
  <2>. QED
    BY <2>1, <2>2, <2>3, <2>4
<1>7. ASSUME NEW c \in Calls, AttemptFails(c) PROVE IInv'
  <2>0. Counted' = Counted
    BY <1>7 DEF AttemptFails, Counted, Goto
  <2>1. Types'
    BY <1>7 DEF AttemptFails, Types, BreakerTypes, PCs, Goto, CallShape
  <2>2. (\A d \in Calls : CallShape(d) /\ Overtaken(d))'
    BY <1>7 DEF AttemptFails, Types, Goto, B, CallShape, Overtaken
  <2>3. (\A b \in Calls : BreakerShape(b))'
    BY <1>7, <2>0 DEF AttemptFails, Goto, BreakerShape, Opening
  <2>4. OpenKnowsWhen'
    BY <1>7 DEF AttemptFails, Goto, Opening, OpenKnowsWhen
  <2>. QED
    BY <2>1, <2>2, <2>3, <2>4
<1>8. ASSUME NEW c \in Calls, AttemptRaises(c) PROVE IInv'
  <2>0. Counted' = Counted
    BY <1>8 DEF AttemptRaises, Counted, Goto
  <2>1. Types'
    BY <1>8 DEF AttemptRaises, Types, BreakerTypes, PCs, Goto
  <2>2. (\A d \in Calls : CallShape(d) /\ Overtaken(d))'
    BY <1>8 DEF AttemptRaises, Goto, B, CallShape, Overtaken
  <2>3. (\A b \in Calls : BreakerShape(b))'
    BY <1>8, <2>0 DEF AttemptRaises, Goto, BreakerShape, Opening
  <2>4. OpenKnowsWhen'
    BY <1>8 DEF AttemptRaises, Goto, Opening, OpenKnowsWhen
  <2>. QED
    BY <2>1, <2>2, <2>3, <2>4
<1>9. ASSUME NEW c \in Calls, RecordFailure(c) PROVE IInv'
  <2>1. Types'
    <3>1. held[c] \in Calls /\ B(c).failures + 1 \in Nat
      BY <1>9, HeldBreaker DEF RecordFailure
    <3>2. "opening" \in PCs /\ "check" \in PCs /\ "failed" \in Readings
      BY DEF PCs, Readings
    <3>3. /\ [B(c) EXCEPT !.failures = B(c).failures + 1, !.state = "open"] \in
             [state : States, failures : Nat, openedAt : Times \cup {NoTime}]
          /\ [B(c) EXCEPT !.failures = B(c).failures + 1] \in
             [state : States, failures : Nat, openedAt : Times \cup {NoTime}]
      BY <1>9, <3>1, HeldBreaker DEF RecordFailure, States
    <3>4. breaker' \in [Calls -> [state : States, failures : Nat,
                                 openedAt : Times \cup {NoTime}]]
      BY <1>9, <3>1, <3>3 DEF RecordFailure, Types, BreakerTypes, B
    <3>5. /\ pc' \in [Calls -> PCs] /\ reading' \in [Calls -> Readings]
          /\ at' \in [Calls -> Times \cup {NoTime}]
          /\ lastFailure' \in [Calls -> Times \cup {NoTime}]
      <4>1. /\ lastFailure' = [lastFailure EXCEPT ![held[c]] = now]
            /\ at' = at \/ at' = [at EXCEPT ![c] = now]
            /\ reading' = reading \/ reading' = [reading EXCEPT ![c] = "failed"]
            /\ \/ pc' = [pc EXCEPT ![c] = "opening"]
               \/ pc' = [pc EXCEPT ![c] = "check"]
        BY <1>9 DEF RecordFailure, Goto, Reports
      <4>2. pc' \in [Calls -> PCs] /\ reading' \in [Calls -> Readings]
        BY <3>2, <4>1 DEF Types
      <4>3. /\ lastFailure' \in [Calls -> Times \cup {NoTime}]
            /\ at' \in [Calls -> Times \cup {NoTime}]
        BY <3>1, <4>1, TimesUpdated DEF Types
      <4>. QED
        BY <4>2, <4>3
    <3>. QED
      BY <1>9, <3>4, <3>5 DEF RecordFailure, Types, BreakerTypes
  <2>2. (\A d \in Calls : CallShape(d) /\ Overtaken(d))'
    <3>1. held[c] \in Calls /\ breaker[held[c]] = B(c)
      BY <1>9, HeldBreaker DEF RecordFailure, B
    <3>2. \A d \in Calls : CallShape(d)'
      BY <1>9 DEF RecordFailure, Reports, Types, CallShape, Goto
    <3>3. \A d \in Calls : d # c => pc'[d] = pc[d]
      BY <1>9 DEF RecordFailure, Reports, Types, Goto
    <3>4. pc'[c] \notin {"cooldown", "elapsed"}
      BY <1>9 DEF RecordFailure, Reports, Types, Goto
    <3>5. \A b \in Calls : /\ breaker'[b].openedAt = breaker[b].openedAt
                           /\ breaker'[b].state = "closed" => breaker[b].state = "closed"
      BY <1>9, FailureRecorded
    <3>6. now' = now /\ held' = held
      BY <1>9 DEF RecordFailure
    <3>7. \A d \in Calls : Overtaken(d)'
      <4> SUFFICES ASSUME NEW d \in Calls, pc[d] \in {"cooldown", "elapsed"}, d # c
                   PROVE  Overtaken(d)'
        BY <3>3, <3>4 DEF Overtaken
      <4>1. held[d] \in Calls /\ Overtaken(d)
        BY DEF CallShape
      <4>2. held'[d] = held[d] /\ breaker'[held[d]].openedAt = breaker[held[d]].openedAt
            /\ (breaker'[held[d]].state = "closed" => breaker[held[d]].state = "closed")
        BY <3>5, <3>6, <4>1
      <4>. QED
        BY <3>6, <4>2 DEF Overtaken, B
    <3>. QED
      BY <3>2, <3>7
  <2>3. (\A b \in Calls : BreakerShape(b))'
    <3>1. held[c] \in Calls /\ breaker[held[c]] = B(c) /\ now' = now /\ held' = held
      BY <1>9, HeldBreaker DEF RecordFailure, B
    <3>2. SUFFICES ASSUME NEW b \in Calls PROVE BreakerShape(b)'
      OBVIOUS
    <3>3. CASE b # held[c]
      <4>1. breaker'[b] = breaker[b] /\ lastFailure'[b] = lastFailure[b]
        BY <1>9, <3>3 DEF RecordFailure, Types, BreakerTypes
      <4>2. Opening(b)' <=> Opening(b)
        BY <1>9, <3>3 DEF RecordFailure, Opening, Types, Goto, Reports
      <4>. QED
        BY <3>1, <4>1, <4>2, RecordedOnce, CountedIsFinite, <1>9
           DEF BreakerShape, Types, BreakerTypes
    <3>4. CASE b = held[c]
      <4>1. /\ breaker'[b].failures = breaker[b].failures + 1
            /\ breaker'[b].openedAt = breaker[b].openedAt
            /\ breaker'[b].state = IF Opens(B(c)) THEN "open" ELSE breaker[b].state
            /\ lastFailure'[b] = now
        <5>1. lastFailure' = [lastFailure EXCEPT ![held[c]] = now]
          BY <1>9 DEF RecordFailure
        <5>. QED
          BY <1>9, <3>4, <5>1, FailureRecorded DEF Types
      <4>2. Opens(B(c)) => Opening(b)'
        BY <1>9, <3>4 DEF RecordFailure, Opening, Types, Goto
      <4>3. /\ breaker[b].failures \in Nat /\ breaker[b].state \in States
            /\ breaker[b].openedAt \in Times \cup {NoTime} /\ now \in Times
            /\ lastFailure[b] \in Times \cup {NoTime}
        BY DEF Types, BreakerTypes
      <4>. QED
        BY <3>1, <3>4, <4>1, <4>2, <4>3, RecordedOnce, CountedIsFinite, <1>9
           DEF BreakerShape, Opens, Times
    <3>. QED
      BY <3>3, <3>4
  <2>4. OpenKnowsWhen'
    <3>1. SUFFICES ASSUME NEW b \in Calls, breaker'[b].state = "open",
                          breaker'[b].openedAt = NoTime
                   PROVE  Opening(b)'
      BY DEF OpenKnowsWhen
    <3>2. CASE b = held[c] /\ Opens(B(c))
      BY <1>9, <3>2 DEF RecordFailure, Opening, Types, Goto
    <3>3. CASE ~(b = held[c] /\ Opens(B(c)))
      <4>1. Opening(b)
        BY <3>1, <3>3, <1>9, FailureRecorded DEF OpenKnowsWhen
      <4>. QED
        BY <4>1, <1>9 DEF RecordFailure, Reports, Opening, Types, Goto
    <3>. QED
      BY <3>2, <3>3
  <2>. QED
    BY <2>1, <2>2, <2>3, <2>4
<1>10. ASSUME NEW c \in Calls, StoreOpenedAt(c) PROVE IInv'
  <2>0. Counted' = Counted
    BY <1>10 DEF StoreOpenedAt, Reports, Counted, Types, Goto
  <2>1. Types'
    BY <1>10
       DEF StoreOpenedAt, Reports, Types, BreakerTypes, Times, PCs, Readings,
           Goto, B, CallShape
  <2>2. (\A d \in Calls : CallShape(d) /\ Overtaken(d))'
    BY <1>10 DEF StoreOpenedAt, Reports, Types, Goto, B, CallShape, Overtaken
  <2>3. (\A b \in Calls : BreakerShape(b))'
    BY <1>10, <2>0
       DEF StoreOpenedAt, Reports, Types, BreakerTypes, Goto, B, CallShape,
           BreakerShape, Opening
  <2>4. OpenKnowsWhen'
    BY <1>10
       DEF StoreOpenedAt, Reports, Types, BreakerTypes, Times, Goto,
           CallShape, Opening, OpenKnowsWhen
  <2>. QED
    BY <2>1, <2>2, <2>3, <2>4
<1>11. ASSUME Tick PROVE IInv'
  <2>0. Counted' = Counted
    BY <1>11 DEF Tick, Counted
  <2>1. Types'
    BY <1>11 DEF Tick, Types, BreakerTypes, Times
  <2>2. (\A d \in Calls : CallShape(d) /\ Overtaken(d))'
    BY <1>11 DEF Tick, BetweenStores, CallShape, Overtaken
  <2>3. (\A b \in Calls : BreakerShape(b))'
    BY <1>11, <2>0
       DEF Tick, BetweenStores, Types, Times, BreakerShape, Opening
  <2>4. OpenKnowsWhen'
    BY <1>11 DEF Tick, Opening, OpenKnowsWhen
  <2>. QED
    BY <2>1, <2>2, <2>3, <2>4
<1>12. CASE UNCHANGED vars
  <2>1. Counted' = Counted
    BY <1>12 DEF vars, Counted
  <2>. QED
    BY <1>12, <2>1
       DEF vars, Types, BreakerTypes, CallShape, Overtaken, B, BreakerShape,
           Opening, OpenKnowsWhen
<1>. QED
  BY <1>1, <1>2, <1>3, <1>4, <1>5, <1>6, <1>7, <1>8, <1>9, <1>10, <1>11, <1>12
     DEF Next, Step
-----------------------------------------------------------------------------
\* The invariant behind everything below.
LEMMA InvariantHolds == Spec => []IInv
BY InitIInv, NextIInv, PTL DEF Spec

\* Breakers and locals keep their types, and a breaker counts a call at most once.
THEOREM GatewayTypeCorrect == Spec => []TypeOK
<1>1. IInv => TypeOK
  <2> SUFFICES ASSUME IInv PROVE TypeOK
    OBVIOUS
  <2>1. Cardinality(Counted) <= Cardinality(Calls) /\ Cardinality(Calls) \in Nat
    BY LLMGatewayAssumption, FS_Subset, FS_CardinalityType DEF Counted
  <2>2. \A b \in Calls : breaker[b].failures \in 0..Cardinality(Calls)
    BY <2>1, CountedIsFinite DEF IInv, Types, BreakerTypes, BreakerShape
  <2>3. breaker \in [Calls -> [state : States, failures : 0..Cardinality(Calls),
                               openedAt : Times \cup {NoTime}]]
    BY <2>2 DEF IInv, Types, BreakerTypes
  <2>. QED
    BY <2>3 DEF IInv, Types, TypeOK
<1>. QED
  BY <1>1, InvariantHolds, PTL

\* A breaker that is not closed has seen the threshold of failures since its last
\* success, and an open one knows since when or is about to.
THEOREM TrippedBreakersEarnedIt == Spec => []OpenIsEarned
<1>1. IInv => OpenIsEarned
  BY LLMGatewayAssumption
     DEF IInv, Types, BreakerTypes, BreakerShape, OpenIsEarned,
         TrippedByFailures
<1>. QED
  BY <1>1, InvariantHolds, PTL

\* What a step that computes the cooldown finds.
LEMMA CooledIsEarned ==
    ASSUME IInv, NEW c \in Calls, HalfOpen(c), B(c).openedAt # NoTime
    PROVE  /\ lastFailure[held[c]] # NoTime
           /\ Cooled(c) =>
                \/ now >= lastFailure[held[c]] + Cooldown
                \/ Opening(held[c])
           /\ ~Cooled(c) => now < lastFailure[held[c]] + Cooldown
<1>1. /\ held[c] \in Calls /\ B(c) = breaker[held[c]] /\ at[c] = now
      /\ B(c).openedAt \in Times /\ now \in Times
  BY HeldBreaker DEF IInv, Types, HalfOpen, CallShape, B
<1>2. /\ lastFailure[held[c]] \in Times
      /\ B(c).openedAt <= lastFailure[held[c]]
  BY <1>1 DEF IInv, Types, BreakerShape
<1>3. Cooled(c) => B(c).state # "closed"
  BY <1>1, LLMGatewayAssumption DEF IInv, Overtaken, HalfOpen, Cooled, Times
<1>4. B(c).state # "closed" =>
        B(c).openedAt = lastFailure[held[c]] \/ Opening(held[c])
  BY <1>1 DEF IInv, BreakerShape
<1>. QED
  BY <1>1, <1>2, <1>3, <1>4, LLMGatewayAssumption DEF Cooled, Times

\* A tripped breaker lets calls through only half open, after the cooldown.
LEMMA NextTrips == IInv /\ [Next]_vars => [TrippedStep]_vars
<1> SUFFICES ASSUME IInv, Next PROVE TrippedStep
  OBVIOUS
<1> USE LLMGatewayAssumption DEF IInv, TrippedStep, Enters, Goto
<1>a. \A b \in Calls :
        breaker[b].failures >= Threshold => breaker[b].state \in {"open", "half_open"}
  BY DEF Types, BreakerTypes, BreakerShape, States
<1>1. ASSUME NEW c \in Calls, Check(c) \/ CooldownElapsed(c) PROVE TrippedStep
  <2>1. /\ held[c] \in Calls /\ breaker' = breaker
        /\ \A d \in Calls : d # c => pc'[d] = pc[d]
    BY <1>1, HeldBreaker DEF Check, CooldownElapsed, Returns, Types
  <2>2. pc'[c] = "calling" => B(c).state # "open"
    BY <1>1 DEF Check, CooldownElapsed, Returns, Types, Readings
  <2>. QED
    BY <1>a, <2>1, <2>2 DEF B
<1>2. ASSUME NEW c \in Calls, HalfOpen(c) PROVE TrippedStep
  <2>1. /\ held[c] \in Calls /\ B(c) = breaker[held[c]]
        /\ \A d \in Calls : d # c => pc'[d] = pc[d]
    BY <1>2, HeldBreaker DEF HalfOpen, Returns, Types, B
  <2>2. CASE B(c).openedAt # NoTime /\ Cooled(c)
    <3>1. /\ breaker'[held[c]].state = "half_open"
          /\ \A b \in Calls : b # held[c] => breaker'[b] = breaker[b]
      BY <1>2, <2>1, <2>2 DEF HalfOpen, Types, BreakerTypes
    <3>. QED
      BY <1>2, <2>1, <2>2, <3>1, CooledIsEarned
  <2>3. CASE ~(B(c).openedAt # NoTime /\ Cooled(c))
    <3>1. breaker' = breaker /\ (pc'[c] = "calling" => B(c).state # "open")
      BY <1>2, <2>3 DEF HalfOpen, Returns, Types, Readings
    <3>. QED
      BY <1>a, <2>1, <3>1
  <2>. QED
    BY <2>2, <2>3
<1>3. ASSUME NEW c \in Calls,
             LookUpBreaker(c) \/ InsertBreaker(c) \/ AttemptFails(c) \/ AttemptRaises(c)
      PROVE  TrippedStep
  BY <1>3 DEF LookUpBreaker, InsertBreaker, AttemptFails, AttemptRaises, Types
<1>4. ASSUME NEW c \in Calls, Succeeds(c) PROVE TrippedStep
  BY <1>4 DEF Succeeds, Closed, NewBreaker
<1>5. ASSUME NEW c \in Calls, RecordFailure(c) PROVE TrippedStep
  <2>1. \A d \in Calls : pc'[d] = "calling" => pc[d] = "calling"
    BY <1>5 DEF RecordFailure, Reports, Types
  <2>. QED
    BY <1>5, <2>1, FailureRecorded
<1>6. ASSUME NEW c \in Calls, StoreOpenedAt(c) PROVE TrippedStep
  <2>1. \A d \in Calls : pc'[d] = "calling" => pc[d] = "calling"
    BY <1>6 DEF StoreOpenedAt, Reports
  <2>2. \A b \in Calls : breaker'[b].state = breaker[b].state
    BY <1>6 DEF StoreOpenedAt, B
  <2>. QED
    BY <2>1, <2>2
<1>7. ASSUME Tick PROVE TrippedStep
  BY <1>7 DEF Tick
<1>. QED
  BY <1>1, <1>2, <1>3, <1>4, <1>5, <1>6, <1>7 DEF Next, Step

\* A call is refused only within the cooldown of a recorded failure.
LEMMA NextRefuses == IInv /\ [Next]_vars => [RefusalStep]_vars
<1> SUFFICES ASSUME IInv, Next, NEW c \in Calls,
                    reading[c] = "before_call", reading'[c] = "refused"
             PROVE  /\ lastFailure[held[c]] # NoTime
                    /\ now < lastFailure[held[c]] + Cooldown
  BY DEF RefusalStep
<1> USE LLMGatewayAssumption DEF IInv
<1>1. Check(c) \/ CooldownElapsed(c) \/ HalfOpen(c)
  <2>1. PICK d \in Calls : Step(d)
    BY DEF Next, Tick
  <2>2. reading' # reading /\ reading'[c] \notin {"before_call", "failed"}
    OBVIOUS
  <2>3. Check(d) \/ CooldownElapsed(d) \/ HalfOpen(d)
    BY <2>1
       DEF Step, LookUpBreaker, InsertBreaker, Succeeds, AttemptFails,
           AttemptRaises, RecordFailure, Reports, StoreOpenedAt, Types
  <2>4. \A e \in Calls : e # d => reading'[e] = reading[e]
    BY <2>3 DEF Check, CooldownElapsed, HalfOpen, Returns, Types
  <2>. QED
    BY <2>3, <2>4
<1>2. ~Check(c)
  BY DEF Check, Returns, Types
<1>3. CASE CooldownElapsed(c)
  <2>1. B(c).openedAt = NoTime /\ B(c).state = "open"
    BY <1>3 DEF CooldownElapsed, Returns, Types
  <2>2. held[c] \in Calls /\ B(c) = breaker[held[c]]
    BY <1>3, HeldBreaker DEF CooldownElapsed, B
  <2>3. lastFailure[held[c]] = now
    BY <2>1, <2>2 DEF OpenKnowsWhen, BreakerShape
  <2>. QED
    BY <2>3 DEF Types, Times
<1>4. CASE HalfOpen(c)
  <2>1. B(c).openedAt # NoTime /\ ~Cooled(c)
    BY <1>4 DEF HalfOpen, Returns, Types
  <2>. QED
    BY <1>4, <2>1, CooledIsEarned
<1>. QED
  BY <1>1, <1>2, <1>3, <1>4

\* The breaker refuses while it should, and no longer.
THEOREM BreakerKeepsTime == Spec => BreakerIsTimely
<1>1. Spec => TrippedHolds
  BY NextTrips, InvariantHolds, PTL DEF Spec, TrippedHolds
<1>2. Spec => RefusedOnlyWhileCooling
  BY NextRefuses, InvariantHolds, PTL DEF Spec, RefusedOnlyWhileCooling
<1>. QED
  BY <1>1, <1>2 DEF BreakerIsTimely
=============================================================================
