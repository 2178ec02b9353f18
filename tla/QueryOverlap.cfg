SPECIFICATION Spec
CONSTANTS
    u1 = u1 u2 = u2 o1 = o1 s1 = s1 k1 = k1 f1 = f1
    Carried <- MCCarried
    Files = {f1}
    Owner <- MCOwner
    Org <- MCOrg
    Workers = 2
    UserLimit = 1 OrgLimit = 2
    Minute = 1 MaxTime = 2
    NoKey = NoKey NoFile = NoFile
CHECK_DEADLOCK FALSE
INVARIANTS TypeOK RateWindowsHold KeysAreIdempotent FileAnswersAreOwn
