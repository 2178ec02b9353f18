-------------------------- MODULE QueryProperties --------------------------
(* What a caller of the chat query route may rely on. *)
EXTENDS QueryRequests

Entry == [by : Requests \cup {NoRequest}, code : Codes, expires : 0..MaxTime + Minute,
          body : {<<>>} \cup {Fingerprint(b) : b \in Bodies}]

\* Every store and every local keeps its type, and no window ever holds more
\* events than its limit, whatever threads overwrite each other.
TypeOK ==
    /\ now \in Times /\ overlap \in BOOLEAN
    /\ tables \subseteq Files
    /\ rows \in [Files -> {"ready", "deleted", "gone"}]
    /\ inherited \in [Sessions -> Files \cup {NoFile}]
    /\ window \in [Scopes -> SUBSET Events]
    /\ \A k \in Scopes : Cardinality(window[k]) <= Limit(k)
    /\ cache \in [Users \X Keys -> Entry]
    /\ meta \in [Requests -> {"none", "accepted", "succeeded", "failed"}]
    /\ turns \subseteq Requests
    /\ pc \in [Requests -> PCs] /\ req \in [Requests -> Local]

AdmittedTo(scope) == {r \in Requests : \E t \in Times : <<scope, t>> \in req[r].admitted}
At(r, scope) == CHOOSE t \in Times : <<scope, t>> \in req[r].admitted

\* A request is refused only when the limit of admitted requests lies within
\* the minute before it: a refusal neither counts itself nor outlives the
\* minute, even when threads put back lists they read earlier.
RefusalsAreEarned ==
    \A r \in Requests : \A k \in req[r].limited :
        Cardinality({q \in AdmittedTo(k) : req[r].at < At(q, k) + Minute}) >= Limit(k)

Ran(r) == req[r].by = r /\ req[r].used = NoFile

\* When requests come one at a time, no minute sees more of a scope's requests
\* admitted than its limit.
WithinRate ==
    ~overlap => \A k \in Scopes, t \in Times : Limit(k) > 0 =>
        Cardinality({q \in AdmittedTo(k) : At(q, k) <= t /\ t < At(q, k) + Minute}) <= Limit(k)

\* FR-FV06-004 ("API requests MUST be rate-limited by user and organization"):
\* both, of the windows of users and of organizations.
RateWindowsHold == RefusalsAreEarned /\ WithinRate

Replayed(r) == req[r].by \notin {NoRequest, r}

\* An answer served again was computed for the same user, key and body, at most
\* a minute before, however requests overlap and entries are replaced.
ReplayFits ==
    \A r \in Requests : Replayed(r) =>
        LET q == req[r].by IN
        /\ Fingerprint(req[q].body) = Fingerprint(req[r].body)
        /\ req[q].body.key = req[r].body.key
        /\ req[r].looked <= req[q].stored + Minute
        /\ req[r].code = req[q].code

Twins(r, q) ==
    /\ req[r].body.key = req[q].body.key /\ req[r].body.key # NoKey
    /\ Fingerprint(req[r].body) = Fingerprint(req[q].body)

\* One at a time, a question repeated under its key within the minute does not
\* run again, unless the first run raised and left no answer.
RepeatRunsOnce ==
    ~overlap => \A r, q \in Requests :
        r < q /\ Twins(r, q) /\ Ran(r) /\ Ran(q) =>
            req[r].code = "raised" \/ req[q].looked > req[r].stored + Minute

\* FR-06-006 (an Idempotency-Key answers its question once within 60 seconds):
\* both, of the keys callers send.
KeysAreIdempotent == ReplayFits /\ RepeatRunsOnce

\* No answer is read from another user's file, whatever file the session had
\* inherited from whoever used it before.
FileAnswersAreOwn ==
    \A r \in Requests : req[r].used # NoFile => Owner[req[r].used] = req[r].body.user

=============================================================================
