SPECIFICATION MCSpec
CONSTANTS
    k1 = k1
    k2 = k2
    t1 = t1
    t2 = t2
    All = All
    Keys = {k1, k2}
    Amounts = {1, 3}
    InitialCredits = 4
    Price = 1
    TopUpAmount = 2
    Ttls = {1, 2}
    MaxPerKey = 2
    MaxHoldClock = 3
    MaxRequests = 3
    MaxCharges = 2
    MaxEvents = 1
    Priorities = {1, 2}
    Lives = {0, 1, 2}
    Percents = {50}
    MaxGrants = 3
    MaxGrantClock = 2
    Limit = 2
    Portions = {50, 100}
    Caps = {1, 9}
    MaxOps = 4
    MaxTime = 3
INVARIANTS  GrantsAddUp ManagersAddUp LimitersHonoured
PROPERTIES SpendsInOrder
CHECK_DEADLOCK FALSE
