SPECIFICATION FairSpec
CONSTANTS
    csv = csv pdf = pdf c1 = c1 c2 = c2 big = big bad = bad blank = blank
    Files = {f1, f2}
    Docs = {d1, d2}
    Owners = {o1}
    Names = {csv, pdf}
    StructuredNames = {csv}
    Contents = {c1, big, bad, blank}
    Scopes = {"user"}
    Outcome <- MCOutcome
    Reqs = {r1}
    Uploads = {}
    Quota = 5
    Overlap = FALSE
    StorageFails = FALSE
    MayRestart = FALSE
    Free = Free Sweeper = Sweeper NoUpload = NoUpload NoInput = NoInput
    NoSession = NoSession NoFile = NoFile NoDoc = NoDoc NoRow = NoRow NoInfo = NoInfo
CHECK_DEADLOCK FALSE
INVARIANT KnowledgeMatchesRows
PROPERTIES BackgroundWorkEnds
