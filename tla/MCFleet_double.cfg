SPECIFICATION MCSpec
CONSTANTS
    Parts <- KeysOnly
    Initial = 1
    Budgets <- TwoCallsOrIdle
    Instances <- Two
    Price = 1
    TopUpAmount = 3
    Cmds <- ThreeCmds
    Sockets <- TwoSockets
    None = None
    Mixed = Mixed
    c1 = c1
    c2 = c2
    c3 = c3
    i1 = i1
    i2 = i2
    g1 = g1
    k1 = k1
INVARIANTS NoDoubleSpend
CHECK_DEADLOCK FALSE
