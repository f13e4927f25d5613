SPECIFICATION Spec
CONSTANTS
    MaxRecords = 3
    MaxAttempts = 3
    BatchSize = 2
    MaxDelay = 3
    Pause = 1
    MaxFaults = 2
INVARIANTS
    TypeOK
    PostsAccounted
    DeliveredWasAnswered
PROPERTIES
    SettledIsFinal
    EveryRecordSettles
