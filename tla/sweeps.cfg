SPECIFICATION Spec
CONSTANTS
    None = None
    Intervals <- MCIntervals
    BeforeDeadline = 1
    MaxFollowups = 2
    MaxIncomplete = 1
    Invitations = {1, 2}
    Submissions = {p1}
    Requests = {}
    Sweeps = {cron}
    Timers = {}
    MaxRows = 3
    MaxMail = 2
    MaxRefusals = 1
    MaxTime = 2
    Deadline = 3
    Grace = 1
    LinkTTL = 2
    HighRisk = {2}
    Answers <- MCOpenEnded
    BuyerOps = {"delete", "deleteQuote", "rfq"}
    AutoSend = TRUE
    MayRestart = TRUE
    SweepLimit = 5
    StartInvitation <- MCSentInvitation
INVARIANTS
    NeverMailedTwice
    AskedOnlyWhatIsMissing
CHECK_DEADLOCK FALSE
