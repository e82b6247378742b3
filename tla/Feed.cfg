CONSTANTS
    LogInterval = 2
    MaxMsgs = 5
SPECIFICATION FairSpec
INVARIANTS
    BackoffDoubles
    CompleteWhileUp
PROPERTY
    KeepsReading
