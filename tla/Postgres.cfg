CONSTANTS
    w1 = w1
    w2 = w2
    t1 = t1
    t2 = t2
    l1 = l1
    l2 = l2
    n1 = n1
    Flusher = Flusher
    Closer = Closer
    Type <- TypeOf
    BatchSize = 2
    Writers <- TwoWriters
    Events <- FiveEvents
    PoolSize = 2
SPECIFICATION FairSpec
INVARIANTS
    BatchBound
    OnePlace
    AtMostOneRow
    ReportedIsStored
    BatchAtomic
PROPERTY
    EventuallyFlushed
