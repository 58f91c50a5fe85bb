SPECIFICATION Spec
CONSTANTS
    None = None
    Intervals <- MCIntervals
    BeforeDeadline = 1
    MaxFollowups = 2
    MaxIncomplete = 1
    Invitations = {1}
    Submissions = {}
    Requests = {b1, b2}
    Sweeps = {cron}
    Timers = {}
    MaxRows = 2
    MaxMail = 2
    MaxRefusals = 1
    MaxTime = 1
    Deadline = None
    Grace = 1
    LinkTTL = 2
    HighRisk = {}
    Answers <- MCUnblocked
    BuyerOps = {"approve", "reject", "manual", "delete"}
    AutoSend = FALSE
    MayRestart = TRUE
    SweepLimit = 5
    StartInvitation <- MCSentInvitation
INVARIANTS
    NothingMailedUnasked
    RemindersNeverOvercounted
    NoDuplicateDrafts
SYMMETRY MCAlike
CHECK_DEADLOCK FALSE
