SPECIFICATION ServicesSpec
CONSTANTS
    Invitations = {i1, i2}
    Uploads = {u1, u2}
    Keys = {k1, k2, k3}
    MaxTracked = 2
    Calls = {1, 2, 3}
    Private = {1}
    RPM = 1
    Period = 1
    MaxConcurrency = 1
    MaxRetries = 1
    MaxDelay = 0
    Emails = {"a", "b"}
    Sheets <- MCSheets
    MaxSuppliers = 4
    SchedulerEnabled = TRUE
INVARIANTS
    FilesAreTheirOwn
    LatestUploadsClaimable
    SlotsWithinLimit
    ReportIsTrue
PROPERTIES
    CallsEnd
    SweepsGoOn
CHECK_DEADLOCK FALSE
