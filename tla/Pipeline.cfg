CONSTANTS
    c1 = c1
    w1 = w1
    Flusher = Flusher
    Closer = Closer
    Conns <- OneConn
    Workers <- OneWorker
    QueueDepth = 1
    MaxConns = 1
    Sink = "postgres"
    MaxFrames = 3
    MaxPanics = 0
    Kind <- Mixed
    BatchSize = 2
    PoolSize = 1
SPECIFICATION PipeSpec
INVARIANTS
    StoredOrReported
    CountedBeforeStored
PROPERTIES
    ImplementsServer
    ImplementsSink
    ReadIsFlushed
