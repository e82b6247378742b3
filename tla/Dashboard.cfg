CONSTANTS
    Queries = 2
    HistorySize = 2
    NoData <- NoQuantileYet
    ServedGroups <- OperatorGroup
    MaxOpen = 2
    MaxNow = 3
    MaxFaults = 2
SPECIFICATION FairSpec
INVARIANTS
    SnapshotIsReal
PROPERTIES
    Recovers
    OutageIsReported
