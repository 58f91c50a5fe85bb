SPECIFICATION Spec
CONSTANTS
    None = None
    Intervals <- MCIntervals
    BeforeDeadline = 1
    MaxFollowups = 2
    MaxIncomplete = 1
    Invitations = {1}
    Submissions = {p1, p2}
    Requests = {b1}
    Sweeps = {cron}
    Timers = {}
    MaxRows = 2
    MaxMail = 2
    MaxRefusals = 1
    MaxTime = 2
    Deadline = 2
    Grace = 1
    LinkTTL = 2
    HighRisk = {}
    Answers <- MCUnblocked
    BuyerOps = {"invite", "resend", "cancel", "delete", "approve"}
    AutoSend = FALSE
    MayRestart = FALSE
    SweepLimit = 5
    StartInvitation <- AbsentInvitation
INVARIANTS
    TypeOK
    OneQuotePerInvitation
    AnsweredMeansQuoted
    ChasedMeansInvited
PROPERTIES
    ContactsOnRecord
SYMMETRY MCAlike
CHECK_DEADLOCK FALSE
