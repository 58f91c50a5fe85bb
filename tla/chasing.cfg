SPECIFICATION FairSpec
CONSTANTS
    None = None
    Intervals <- MCIntervals
    BeforeDeadline = 0
    MaxFollowups = 2
    MaxIncomplete = 1
    Invitations = {1}
    Submissions = {p1}
    Requests = {b1}
    Sweeps = {timer}
    Timers = {timer}
    MaxRows = 3
    MaxMail = 1
    MaxRefusals = 1
    MaxTime = 2
    Deadline = 3
    Grace = 0
    LinkTTL = 2
    HighRisk = {}
    Answers <- MCLeftBlank
    BuyerOps = {"editQuote", "cancel", "invite"}
    AutoSend = TRUE
    MayRestart = FALSE
    SweepLimit = 5
    StartInvitation <- MCSentInvitation
PROPERTIES
    SweepsEnd
    SilentSupplierReminded
    IncompleteQuoteChased
CHECK_DEADLOCK FALSE
