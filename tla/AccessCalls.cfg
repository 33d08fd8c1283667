\* Two calls of the bot, or of ensure access, at a time, with billing and the operator.
SPECIFICATION CallsSpec
CONSTANTS
    b1 = b1
    b2 = b2
    a1 = a1
    a2 = a2
    job1 = job1
    job2 = job2
    Null = Null
    Users = {u1}
    IssueKeys = {ensureKey, i1}
    EnsureKey = ensureKey
    BotCalls = {b1, b2}
    AdminCalls = {a1, a2}
    Jobs = {}
    Cooldown = 2
    MaxInterval = 1
    MaxTime = 2
    MaxPayments = 2
    MaxFailures = 1
INVARIANTS
    TypeOK
    OneResendPerCooldown
PROPERTIES
    ReadyAnswersAreTrue
    RevokedForGood
    BotGatesOnWindow
SYMMETRY CallSymmetry
