CONSTANTS
    c1 = c1
    c2 = c2
    c3 = c3
    w1 = w1
    w2 = w2
    Conns <- OneConn
    Workers <- TwoWorkers
    QueueDepth = 1
    MaxConns = 1
    Sink = "nats"
    MaxFrames = 3
    MaxPanics = 2
    Kind <- AllKinds
SPECIFICATION FairSpec
INVARIANTS
    ExactlyOnePlace
    
PROPERTIES
    ImplementsDelivery
    ShutdownEnds
    SlotReturned
    QueuedIsSettled
