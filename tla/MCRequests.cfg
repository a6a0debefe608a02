SPECIFICATION MCRequestsSpec
CONSTANTS
    Calls = {e1, e2, e3, e4}
    MaxBatch = 3
    Callers = {c1, c2, c3}
    Keys = {k1, k2}
    Deadlines = {2, 5}
    None = None
    MinInterval = 2
    MaxWait = 3
    CoolOff = 2
    ValueTTL = 2
    NoRouteTTL = 1
    LastCall = 1
    MaxTime = 5
    Publics <- MCPublics
    Customs <- MCCustoms
    Keyed <- MCKeyed
    Requests = {r1, r2}
    RotationCalls = 1
    Hedge = 2
    MaxAttempts = 4
INVARIANTS
    RequestsTypeOK
    EachInOnePlace
    AnswersAreTheProviders
    EndpointsInOrder
PROPERTIES
    StartsInTime
    ImplementsDirect
    EveryRequestAnswered
CHECK_DEADLOCK FALSE
