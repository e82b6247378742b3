CONSTANTS
    c1 = c1
    c2 = c2
    c3 = c3
    w1 = w1
    w2 = w2
    Conns <- ThreeConns
    Workers <- OneWorker
    QueueDepth = 2
    MaxConns = 2
    Sink = "stdout"
    MaxFrames = 2
    MaxPanics = 1
    Kind <- BadThenTrade
SPECIFICATION Spec
SYMMETRY Symmetry
CONSTRAINT FewFrames
VIEW ControlView
INVARIANTS
    TypeOK
    SlotAccounting
    PerConnectionOrder
    SinkClosedAfterDrain
PROPERTY
    RejectOnlyWhenFull
