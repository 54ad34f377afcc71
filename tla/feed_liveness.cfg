\* Liveness: a file that may hold one change too early, twice or made unusable, or a
\* fault; one publisher, two hosts, one account, apply tries once.
SPECIFICATION FairFeedSpec
CONSTANTS
    a1 = a1
    h1 = h1
    h2 = h2
    p1 = p1
    w1 = w1
    w2 = w2
    x = x
    y = y
    Tombstone = Tombstone
    Garbage = Garbage
    Absent = Absent
    Untrusted = Untrusted
    Account = {a1}
    Image = {x, y}
    Message <- OneContentAndUnusable
    Partition = {p1}
    PartitionOf <- OnePartition
    Host = {h1, h2}
    MaxAttempts = 1
    MaxLog = 6
    MaxFaults = 1
    Publisher = {w1}
    MaxCaptures = 2
INVARIANT
    TypeOK
PROPERTIES
    EventuallyReconciled
    EventuallySettled
CHECK_DEADLOCK FALSE
