\* Liveness: an operator who keeps asking gets every phase verified.
SPECIFICATION FairSpec
CONSTANTS
    a1 = a1
    a2 = a2
    p1 = p1
    p2 = p2
    w1 = w1
    w2 = w2
    None = None
    Worker = {w1, w2}
    Rows <- TwoRows
    Partition = {p1, p2}
    PartitionOf <- TwoPartitions
    MaxPhase = 2
    MaxLog = 5
    MaxFaults = 1
PROPERTY
    EventuallyVerified
CHECK_DEADLOCK FALSE
