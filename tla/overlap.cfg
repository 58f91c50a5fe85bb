SPECIFICATION Spec
CONSTANTS
    None = None
    Intervals <- MCIntervals
    BeforeDeadline = 1
    MaxFollowups = 2
    MaxIncomplete = 1
    Invitations = {1}
    Submissions = {}
    Requests = {}
    Sweeps = {timer, cron}
    Timers = {timer}
    MaxRows = 3
    MaxMail = 2
    MaxRefusals = 1
    MaxTime = 4
    Deadline = None
    Grace = 1
    LinkTTL = 2
    HighRisk = {}
    Answers <- Quote
    BuyerOps = {}
    AutoSend = TRUE
    MayRestart = FALSE
    SweepLimit = 5
    StartInvitation <- MCSentInvitation
INVARIANTS
    NeverMailedTwice
CHECK_DEADLOCK FALSE
