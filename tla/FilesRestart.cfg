SPECIFICATION Spec
CONSTANTS
    csv = csv pdf = pdf c1 = c1 c2 = c2 big = big bad = bad blank = blank
    Files = {f1, f2}
    Docs = {}
    Owners = {o1}
    Names = {csv}
    StructuredNames = {csv}
    Contents = {c1}
    Scopes = {"user"}
    Outcome <- MCOutcome
    Reqs = {r1, r2}
    Uploads = {u1}
    Quota = 5
    Overlap = TRUE
    StorageFails = TRUE
    MayRestart = TRUE
    Free = Free Sweeper = Sweeper NoUpload = NoUpload NoInput = NoInput
    NoSession = NoSession NoFile = NoFile NoDoc = NoDoc NoRow = NoRow NoInfo = NoInfo
SYMMETRY Symm
CHECK_DEADLOCK FALSE
INVARIANT BytesKept
