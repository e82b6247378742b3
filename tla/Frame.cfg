CONSTANTS
    Base = 2
    Payloads <- SmallPayloads
    MaxWrites = 3
SPECIFICATION FairSpec
INVARIANTS
    RoundTrip
PROPERTIES
    TornFrameEnds
