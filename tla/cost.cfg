SPECIFICATION Spec
CONSTANTS
    None = None
    Quotes = {1, 2}
    Requests = {b1, b2}
    Texts <- MCTexts
    BuyerOps = {"create", "edit", "run", "decide"}
    HistoryLimit = 1
    MaxRuns = 3
    MaxDecisions = 1
    MaxEdits = 2
    MayRestart = FALSE
PROPERTIES
    AwardedAtItsPrice
SYMMETRY Alike
CHECK_DEADLOCK FALSE
