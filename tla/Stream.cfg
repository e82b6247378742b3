CONSTANTS
    p1 = p1
    p2 = p2
    k1 = k1
    k2 = k2
    t1 = t1
    t2 = t2
    l1 = l1
    n1 = n1
    b1 = b1
    Nobody = Nobody
    Publishers <- TwoPublishers
    Consumers <- TwoConsumers
    Events <- OneOfEach
    Type <- TypeOf
    SubjectOf <- TradesAndLogs
    Alarming <- TwoLevels
    MaxAckPending = 2
    MaxFaults = 1
    MaxCrashes = 1
SPECIFICATION FairSpec
CHECK_DEADLOCK FALSE
INVARIANTS
    StoredOnce
    AckedIsHandled
    RepeatsNeedFaults
PROPERTY
    StoredIsAcked
