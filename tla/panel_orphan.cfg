\* A step orphaned by a dead host or a lost lease, seen from the panel.
SPECIFICATION PanelFairSpec
CONSTANTS
    a1 = a1
    p1 = p1
    w1 = w1
    w2 = w2
    None = None
    Worker = {w1, w2}
    Rows <- OneRow
    Partition = {p1}
    PartitionOf <- OnePartition
    MaxPhase = 2
    MaxLog = 4
    MaxFaults = 1
PROPERTY
    OrphanRecovers
CHECK_DEADLOCK FALSE
