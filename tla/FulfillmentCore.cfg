\* Two payments of one user, two workers, failures and duplicate deliveries, a provider
\* that retries and requests that run on.
SPECIFICATION FairSpec
CONSTANTS
    u1 = u1
    u2 = u2
    e1 = e1
    e2 = e2
    e3 = e3
    Users = {u1}
    NoUser = NoUser
    Events = {e1, e2}
    Payloads <- TwoPayments
    OperatorFacts <- NoFacts
    OperatorApplies = {}
    Workers = {w1, w2}
    Null = Null
    MaxFailures = 2
    MaxDuplicates = 1
CHECK_DEADLOCK FALSE
INVARIANTS
    TypeOK
    WindowIsPaidFor
    EndlessWindowIsUnacknowledged
    OkMeansApplied
    AtMostOneNotice
PROPERTIES
    EveryPaymentIsHonoured
    EndlessWindowCloses
