\* Two requests of different runs; a receiver may outlive its request.
SPECIFICATION FairSpec
CONSTANTS
    c1 = c1
    c2 = c2
    p1 = p1
    p2 = p2
    None = None
    Call = {c1, c2}
    Partition = {p1, p2}
    Positions <- SomePositions
    Wanted <- OneWanted
    MaxLog = 1
    ThreadFaults = {"receiver"}
INVARIANTS
    TypeOK
    NoOrphan
PROPERTIES
    KeepsPromise
    StoppedMeansFenced
    Answered
    OnlyUnstartedBlocks
CHECK_DEADLOCK FALSE
