\* Two requests on one run: leases expire, calls fail, servers die.
SPECIFICATION Spec
CONSTANTS
    a1 = a1
    a2 = a2
    p1 = p1
    p2 = p2
    w1 = w1
    w2 = w2
    None = None
    Worker = {w1, w2}
    Rows <- TwoRows
    Partition = {p1}
    PartitionOf <- OnePartition
    MaxPhase = 2
    MaxLog = 5
    MaxFaults = 2
SYMMETRY Symmetric
INVARIANTS
    TypeOK
    NoFalseSuccess
    NothingSkipped
    NothingQuarantined
    StageCountsCompleted
PROPERTY
    ImplementsPromise
CHECK_DEADLOCK FALSE
