SPECIFICATION Spec
CONSTANTS
    Traces = {t1}
    Execs = {e1}
    Questions <- MCQuestions
    NoTrace = NoTrace NoExec = NoExec
CHECK_DEADLOCK FALSE
INVARIANT OnlyApprovedSqlRuns
