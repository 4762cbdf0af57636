SPECIFICATION MCSpec
CONSTANTS
    Parts <- AllParts
    Events <- ThreeEvents
    BatchSize = 2
    MaxRetries = 1
    MaxDeadLetters = 1
    MaxPauses = 1
    MaxReplays = 1
    MaxTimeouts = 1
    e1 = e1
    e2 = e2
    e3 = e3
INVARIANTS OneCopy RetriesBounded ManagersDeliver
PROPERTIES Settles
CHECK_DEADLOCK FALSE
