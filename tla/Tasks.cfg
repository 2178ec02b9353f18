SPECIFICATION Spec
CONSTANTS
    Calls = {c1, c2, c3}
    MaxTasks = 2
    Documents = {"d"}
    Requests <- MCRequests
    RagTexts <- MCRagTexts
    Series <- MCSeries
    NoCall = NoCall None = None NoKey = NoKey Legacy = Legacy
CHECK_DEADLOCK FALSE
SYMMETRY Symm
INVARIANTS TypeOK SucceededIsFound CitesItsVersion KeysNameOneTask
