SPECIFICATION Spec
CONSTANTS
    People = {u1, u2}
    Files = {f1, f2}
    Sessions = 2
    Acts = 4
    Losses = 1
    Calls = 2
    HistoryPage = 2
    FilesPage = 1
    Nobody = Nobody
CHECK_DEADLOCK FALSE
SYMMETRY Symm
INVARIANTS TypeOK TurnsBelong 
PROPERTIES RefusalsAreExplained
