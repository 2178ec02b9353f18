SPECIFICATION Spec
CONSTANTS
    csv = csv pdf = pdf c1 = c1 c2 = c2 big = big bad = bad blank = blank
    Files = {f1, f2}
    Docs = {d1}
    Owners = {o1}
    Names = {pdf}
    StructuredNames = {}
    Contents = {c1}
    Scopes = {"user"}
    Outcome <- MCOutcome
    Reqs = {r1, r2}
    Uploads = {}
    Quota = 5
    Overlap = TRUE
    StorageFails = FALSE
    MayRestart = FALSE
    Free = Free Sweeper = Sweeper NoUpload = NoUpload NoInput = NoInput
    NoSession = NoSession NoFile = NoFile NoDoc = NoDoc NoRow = NoRow NoInfo = NoInfo
SYMMETRY Symm
CHECK_DEADLOCK FALSE
INVARIANTS TypeOK RowsAreBacked VersionChains
PROPERTY ArchivingIsSound
