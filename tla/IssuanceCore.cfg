\* The deployed composition over one key, and one service process asked by its contract
\* over two keys.
SPECIFICATION CompositionSpec
CONSTANTS
    u1 = u1
    i1 = i1
    i2 = i2
    update1 = update1
    update2 = update2
    revoke1 = revoke1
    bot = bot
    admin = admin
    command = command
    service = service
    b1 = b1
    a1 = a1
    a2 = a2
    o1 = o1
    s1 = s1
    s2 = s2
    ref1 = ref1
    ref2 = ref2
    Users = {u1}
    Null = Null
    IssueKeys = {i1, i2}
    RequestIds = {update1, update2, revoke1}
    Refs = {ref1, ref2}
    OneShot = {command}
    Processes <- AllProcesses
    Calls <- AllCalls
    ProcessOf <- CallsProcess
    Asks <- Requests
    MaxFailures = 1
INVARIANTS
    TypeOK
    AnswersMatchRows
    NoDeliveryAfterRevoke
    MemoryFollowsRows
PROPERTIES
    RowsMoveForward
SYMMETRY CompositionSymmetry
