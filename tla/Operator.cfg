CONSTANTS
    None = None
    Specs <- FourSpecs
    MaxEdits = 3
    MaxFailures = 1
SPECIFICATION FairSpec
INVARIANTS
    RunsAsAsked
PROPERTIES
    StatusFitsSpec
    ChildrenConverge
    StatusConverges
