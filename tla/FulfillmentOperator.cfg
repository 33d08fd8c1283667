\* The provider and the operator work on the same tables.
SPECIFICATION Spec
CONSTANTS
    u1 = u1
    u2 = u2
    e1 = e1
    e2 = e2
    e3 = e3
    Users = {u1}
    NoUser = NoUser
    Events = {e1, e2, e3}
    Payloads <- Payment1
    OperatorFacts <- HandIngested
    OperatorApplies = {e1, e2, e3}
    Workers = {w1, w2}
    Null = Null
    MaxFailures = 1
    MaxDuplicates = 1
INVARIANTS
    ActivationIsBacked
    AuditMatchesRecords
PROPERTIES
    RecordsAreFinal
    RefinesApplyOnce
