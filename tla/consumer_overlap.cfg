\* Two hosts that overlap on one partition of one account.
SPECIFICATION Spec
CONSTANTS
    a1 = a1
    h1 = h1
    h2 = h2
    p1 = p1
    x = x
    y = y
    Tombstone = Tombstone
    Garbage = Garbage
    Absent = Absent
    Untrusted = Untrusted
    Account = {a1}
    Image = {x, y}
    Message <- OneAccountMessages
    Partition = {p1}
    PartitionOf <- OnePartition
    Host = {h1, h2}
    MaxAttempts = 2
    MaxLog = 3
    MaxFaults = 1
SYMMETRY Symmetric
INVARIANTS
    CheckpointSafe
    UnbrokenChain
    HaltedHostIsQuiet
    SecondRoundSettles
PROPERTY
    ImplementsSink
CHECK_DEADLOCK FALSE
