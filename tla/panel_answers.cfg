\* The panel and another client on one run: late, lost and failed answers.
SPECIFICATION PanelSpec
CONSTANTS
    a1 = a1
    p1 = p1
    w1 = w1
    w2 = w2
    None = None
    Worker = {w1, w2}
    Rows <- OneRow
    Partition = {p1}
    PartitionOf <- OnePartition
    MaxPhase = 2
    MaxLog = 4
    MaxFaults = 1
SYMMETRY Symmetric
INVARIANTS
    NoSuccessPresumed
    RefusedOnlyIfOutdated
PROPERTY
    ViewNeverGoesBack
CHECK_DEADLOCK FALSE
