SPECIFICATION MCSpec
CONSTANTS
    Requests <- Three
    Ids <- ThreeIds
    IdsOf <- AnyId
    None = None
    Size <- Sizes
    Kind <- Kinds
    MaxRestarts = 1
    Tasks <- Three
    MaxTasks = 2
    Price = 2
    Fund = 6
    TaskFund = 8
    r1 = r1
    r2 = r2
    r3 = r3
INVARIANTS Tracked OwnAnswer  ReportsHonoured
PROPERTIES CancelSticks AllSettle
CHECK_DEADLOCK FALSE
