\* Deduplication, rate limits, retention, migrations, replies and the admin process.
SPECIFICATION OpsSpec
CONSTANTS
    k1 = k1
    k2 = k2
    k3 = k3
    DedupKeys = {k1, k2, k3}
    Ttl = 2
    MaxEntries = 2
    ClockSkew = 1
    DedupHorizon = 4
    LimitedUsers = {"u1"}
    LimitKeys = {"status", "support"}
    MaxRequests <- MCMaxRequests
    Window <- MCWindow
    RateHorizon = 5
    o1 = o1
    o2 = o2
    d1 = d1
    Rows = {o1, o2, d1}
    TableOf <- MCTableOf
    j1 = j1
    j2 = j2
    j3 = j3
    Cleanups = {j1, j2}
    AuditCleanups = {j3}
    RetentionTtl = 1
    AuditDays = 1
    BatchLimit = 1
    MaxRounds = 2
    JobSkew = 1
    LastDay = 2
    MaxInserts = 3
    FileCount = 3
    Checksums = {"c1", "c2"}
    Runners = {"older", "newer"}
    Checksum <- MCChecksum
    MaxRuns = 3
    LastDate = 2
    MaxChanges = 1
    MaxRows = 2
SYMMETRY MCSymmetry
INVARIANTS
    LimitedButNotStarved
    ReportsAddUp
    LedgerMatchesSchema
    FinishedMeansRecorded
    ReplyMatchesState
    DisclosureIsRecordedAndTrue
PROPERTIES
    NoDuplicateWithinTtl
    ForgottenAfterTtl
    OnlyOldFinishedRowsGo
\* A migration run or an admin call that ended has nothing left to do.
CHECK_DEADLOCK FALSE
