SPECIFICATION Spec
CONSTANTS
    None = None
    Quotes = {1, 2}
    Requests = {b1, b2}
    Texts <- MCTexts
    BuyerOps = {"create", "import", "edit", "submit", "delete", "run", "open", "decide", "status"}
    HistoryLimit = 1
    MaxRuns = 3
    MaxDecisions = 1
    MaxEdits = 2
    MayRestart = TRUE
INVARIANTS
    TypeOK
    LatestIsCurrent
    RecommendsWhatExists
    DecisionsCiteTheirRun
    DecisionsAudited
    CostWasOffered
PROPERTIES
    NothingAutoAwarded
SYMMETRY Alike
CHECK_DEADLOCK FALSE
