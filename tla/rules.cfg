SPECIFICATION RulesSpec
CONSTANTS
    None = None
    Intervals <- MCIntervals
    BeforeDeadline = 2
    MaxFollowups = 2
    MaxIncomplete = 2
    MaxTime = 7
    Workers = {1, 2}
    Addresses = {1}
    Links = {1}
    PerMinute = 0
    PerHour = 2
    Minute = 1
    Hour = 2
    Second = 2
    Pause = 1
INVARIANTS
    ChaseBounded
    DashboardAgrees
    LastCall
    CheaperNeverWorse
    DominatedNeverAhead
    RestatedOfferCostsTheSame
    RecommendationExplained
    FormOutranksGuess
    NothingTypedIsLost
    AskedExactlyForGaps
    QuestionsEscalated
    WindowsHold
    RetryAfterHonest
PROPERTIES
    DueStaysDue
CHECK_DEADLOCK FALSE
