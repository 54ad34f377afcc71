----------------------------- MODULE MCSyncDemo -----------------------------
(* The script of run_demo (sync_demo.py:105-153), and a few messages for   *)
(* the driver without one.                                                 *)
EXTENDS SyncDemo, TLC

CONSTANTS a, b, img

UpsertOf(account, version, prev) ==
    [account |-> account, version |-> version, prev |-> prev, body |-> img]

Seed == UpsertOf(a, 1, 0)
SeedB == UpsertOf(b, 1, 0)
Update == UpsertOf(a, 3, 1)
Interrupted == UpsertOf(a, 4, 3)
Predecessor == UpsertOf(a, 7, 4)
Gap == UpsertOf(a, 8, 7)
Corrupt == [UpsertOf(a, 9, 8) EXCEPT !.body = Garbage]
TransientB == UpsertOf(b, 3, 1)
Delete == [UpsertOf(a, 10, 8) EXCEPT !.body = Tombstone]
Dropped == UpsertOf(b, 5, 3)

DemoMessages == {Seed, SeedB, Update, Interrupted, Predecessor, Gap, Corrupt,
                 TransientB, Delete, Dropped}

(* a is created, updated and deleted, its versions not contiguous; b is    *)
(* created; one message is unusable.                                       *)
Changes ==
    {Seed, SeedB, Update, [Interrupted EXCEPT !.body = Tombstone],
     [Update EXCEPT !.body = Garbage]}

AllMessages == DemoMessages \cup Changes

Cap(event) == [do |-> "capture", event |-> event]
Del(event, expected) == [do |-> "deliver", event |-> event, expected |-> expected,
                         fault |-> "none", again |-> FALSE]
Failing(event, fault, expected) == [Del(event, expected) EXCEPT !.fault = fault]
Again(event, expected) == [Del(event, expected) EXCEPT !.again = TRUE]
Check(mismatches, pending) == [do |-> "check", mismatches |-> mismatches, pending |-> pending]

(* The schema quarantine's message is unusable as the corrupt one is.      *)
RunDemo == <<
    Cap(Seed), Del(Seed, "applied"),
    Cap(SeedB), Del(SeedB, "applied"),
    Cap(Update), Del(Update, "applied"),
    Del(Update, "duplicate"),
    Del(Seed, "stale"),
    Cap(Interrupted), Failing(Interrupted, "crash", "crash"),
    Again(Interrupted, "duplicate"),
    Cap(Predecessor), Cap(Gap),
    Del(Gap, "quarantined"), Del(Predecessor, "applied"), Del(Gap, "applied"),
    [do |-> "resolve", event |-> Gap],
    Del(Corrupt, "quarantined"), Del(Corrupt, "quarantined"),
    Cap(TransientB), Failing(TransientB, "transient", "transient-failure"),
    Again(TransientB, "applied"),
    Cap(Delete), Del(Delete, "applied"),
    Del(Update, "stale"),
    Cap(Dropped),
    Check({b}, 2),
    Del(Dropped, "applied"),
    Check({}, 2) >>
=============================================================================
