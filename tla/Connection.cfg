SPECIFICATION Spec
CONSTANTS
    Calls = {c1, c2, c3}
    NoCall = NoCall
    Many = 2
CHECK_DEADLOCK FALSE
SYMMETRY Symm
INVARIANTS TypeOK AcknowledgedIsDurable AllOrNothing AnswersAreOwn
