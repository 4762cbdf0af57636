SPECIFICATION MCFairSpec
CONSTANTS
    Calls <- ThreeCalls
    Keys <- TwoKeys
    KeyOf <- MixedKeys
    ArgsOf <- TwoArgs
    CacheKey <- TopOnly
    Price = 1
    Surcharges = {0, 2}
    Initial = 2
    MaxPerKey = 1
    MaxPerTool = 2
    Ttl = 1
    MaxEntries = 1
    HasTimeout = TRUE
    RefundOnFailure = TRUE
    Last = 3
    Threshold = 2
    Cooldown = 2
    DayLength = 2
    HourLength = 2
    DailyCallCap = 2
    DailyCreditCap = 2
    HourlyCallCap = 1
    BreachSuspends = TRUE
    ResumeAfter = 1
    Tool = Tool
    None = None
    c1 = c1
    c2 = c2
    c3 = c3
    k1 = k1
    k2 = k2
    k3 = k3
INVARIANTS  TakenAsTold 
PROPERTIES BreakerHonoured HitsAreFresh  Settles
CHECK_DEADLOCK FALSE
