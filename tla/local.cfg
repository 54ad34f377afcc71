\* The local emulator, driven by anybody or by the demo's script.
SPECIFICATION DemoSpec
CONSTANTS
    a = a
    b = b
    img = img
    Account = {a, b}
    Image = {img}
    Tombstone = Tombstone
    Garbage = Garbage
    Absent = Absent
    Untrusted = Untrusted
    Stream = Stream
    Message <- AllMessages
    Sample <- Changes
    Script <- RunDemo
    MaxLog = 4
    MaxFaults = 1
INVARIANTS
    ClaimsTruthful
    NoDifferenceHidden
PROPERTIES
    KeepsSink
    CheckpointInOrder
    EventuallyCheckpointed
    InvariantsPassed
CHECK_DEADLOCK FALSE
