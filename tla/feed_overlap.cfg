\* Two overlapping hosts; two publishers that replay, from its start, a file that
\* may hold changes before their predecessor, twice, or late.
SPECIFICATION FeedSpec
CONSTANTS
    a1 = a1
    h1 = h1
    h2 = h2
    p1 = p1
    w1 = w1
    w2 = w2
    x = x
    y = y
    Tombstone = Tombstone
    Garbage = Garbage
    Absent = Absent
    Untrusted = Untrusted
    Account = {a1}
    Image = {x, y}
    Message <- Changes
    Partition = {p1}
    PartitionOf <- OnePartition
    Host = {h1, h2}
    MaxAttempts = 2
    MaxLog = 4
    MaxFaults = 2
    Publisher = {w1, w2}
    MaxCaptures = 2
SYMMETRY Symmetric
INVARIANTS
    OnlyGapsQuarantined
    DrainedMeansReconciled
CHECK_DEADLOCK FALSE
