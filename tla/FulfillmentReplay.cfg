\* docs/architecture/30 says a replay has no lifecycle effect: it restores an older window.
SPECIFICATION Spec
CONSTANTS
    u1 = u1
    u2 = u2
    e1 = e1
    e2 = e2
    e3 = e3
    Users = {u1}
    NoUser = NoUser
    Events = {e1, e2}
    Payloads <- TwoPayments
    OperatorFacts <- NoFacts
    OperatorApplies = {}
    Workers = {w1, w2}
    Null = Null
    MaxFailures = 2
    MaxDuplicates = 1
CHECK_DEADLOCK FALSE
PROPERTIES
    ReplayHasNoEffect
