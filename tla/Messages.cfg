SPECIFICATION MessagesSpec
CONSTANTS
    Cardinalities <- SmallCardinalities
    MaxLevels = 3
    MaxHistory = 5
    Requests <- SmallRequests
    TasksOf <- SmallTasks
    Registered <- SmallRegistered
    MaxInFile = 2
CHECK_DEADLOCK FALSE
INVARIANTS SupersededIsRejected RestoredAsWritten
PROPERTIES VersionNeverDecreases
