\* Two overlapping reconcile jobs, started again and again, and the health check, while
\* access is issued and paid.
SPECIFICATION ReconcileSpec
CONSTANTS
    b1 = b1
    b2 = b2
    a1 = a1
    a2 = a2
    job1 = job1
    job2 = job2
    Null = Null
    Users = {u1}
    IssueKeys = {ensureKey, i1}
    EnsureKey = ensureKey
    BotCalls = {}
    AdminCalls = {}
    Jobs = {job1, job2}
    Cooldown = 2
    MaxInterval = 1
    MaxTime = 3
    MaxPayments = 2
    MaxFailures = 1
INVARIANTS
    HealthMeansReconciled
PROPERTIES
    ExpiredAccessIsRevoked
    JobSparesPaidAccess
