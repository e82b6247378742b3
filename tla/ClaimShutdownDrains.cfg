CONSTANTS
    c1 = c1
    c2 = c2
    c3 = c3
    w1 = w1
    w2 = w2
    Conns <- TwoConns
    Workers <- OneWorker
    QueueDepth = 1
    MaxConns = 2
    Sink = "stdout"
    MaxFrames = 1
    MaxPanics = 0
    Kind <- OnlyTrades
SPECIFICATION Spec
INVARIANT
    ShutdownDrains
