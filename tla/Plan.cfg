SPECIFICATION FairSpec
CONSTANTS
    Traces = {t1}
    Execs = {e1, e2}
    Questions <- MCQuestions
    NoTrace = NoTrace NoExec = NoExec
CHECK_DEADLOCK FALSE
INVARIANTS TypeOK FanoutAfterSql SucceededIsComplete
PROPERTIES ReplayKeepsResults RequestsComeToRest
