\* Ensure access issues for a window that has ended.
SPECIFICATION Spec
CONSTANTS
    b1 = b1
    b2 = b2
    a1 = a1
    a2 = a2
    job1 = job1
    job2 = job2
    Null = Null
    Users = {u1}
    IssueKeys = {ensureKey, i1}
    EnsureKey = ensureKey
    BotCalls = {}
    AdminCalls = {a1}
    Jobs = {}
    Cooldown = 2
    MaxInterval = 1
    MaxTime = 3
    MaxPayments = 2
    MaxFailures = 1
PROPERTIES
    EnsureGatesOnWindow
