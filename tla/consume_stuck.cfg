\* A receiver's thread that cannot be started.
SPECIFICATION FairSpec
CONSTANTS
    c1 = c1
    c2 = c2
    p1 = p1
    p2 = p2
    None = None
    Call = {c1}
    Partition = {p1, p2}
    Positions <- BothPositions
    Wanted <- OneWanted
    MaxLog = 1
    ThreadFaults = {"receiver"}
PROPERTY
    Readmitted
CHECK_DEADLOCK FALSE
