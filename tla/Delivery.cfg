\* Polling and webhook: two /start and a mutating command of one user.
SPECIFICATION FairSpec
CONSTANTS
    u1 = u1
    t1 = t1
    t2 = t2
    Null = Null
    Updates <- MCUpdates
    Starts <- MCStarts
    Mutating <- MCMutating
    Resends <- MCResends
    Users = {u1}
    Sender <- MCSender
    Tasks = {t1, t2}
    Poller = t1
    BatchSize = 2
    MaxFaults = 2
    MaxRestarts = 1
INVARIANTS
    DeliveryTypeOK
    TablesTellTheTruth
    NothingTwiceWithoutFault
    ConfirmedMeansHandled
    DispatchedOnce
PROPERTIES
    DeliveryRowsMoveForward
    EveryUpdateConfirmed
\* With every update confirmed the webhook has nothing left to do.
CHECK_DEADLOCK FALSE
