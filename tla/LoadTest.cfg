CONSTANTS
    c1 = c1
    c2 = c2
    Conns <- TwoConns
    First = c1
    Target = 2
    SockBuf = 1
    Earlier <- OldCounts
    MaxOthers = 1
    MaxDrops = 1
    MaxRestarts = 1
    MaxBad = 1
SPECIFICATION FairSpec
INVARIANTS
    ReportIsTrue
PROPERTY
    ToolEnds
