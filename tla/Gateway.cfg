SPECIFICATION Spec
CONSTANTS
    Calls = {c1, c2, c3, c4}
    MaxRetries = 1
    Threshold = 2
    Cooldown = 1
    MaxTime = 2
    NoBreaker = NoBreaker NoTime = NoTime
CHECK_DEADLOCK FALSE
SYMMETRY Symm
INVARIANTS TypeOK OpenIsEarned
PROPERTIES BreakerIsTimely
