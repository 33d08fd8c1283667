\* docs/architecture/30 says an ignored or duplicate fact does not activate: the ingress upserts all the same.
SPECIFICATION Spec
CONSTANTS
    u1 = u1
    u2 = u2
    e1 = e1
    e2 = e2
    e3 = e3
    Users = {u1}
    NoUser = NoUser
    Events = {e1}
    Payloads <- Payment1
    OperatorFacts <- HandIgnored
    OperatorApplies = {e1}
    Workers = {w1, w2}
    Null = Null
    MaxFailures = 2
    MaxDuplicates = 1
CHECK_DEADLOCK FALSE
INVARIANTS
    ActivationIsBacked
