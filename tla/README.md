# Verification of the mainframe offload demo

TLA+ models, TLC configurations and TLAPS proofs for the Python programs under
`src/src/vsam_offload`: a synthetic capture of account records, their transport
over Event Hubs, and their application to a Cosmos DB container.

Every definition is translated from the source; `PROJECT.json` ("map") names the
lines. Paths below are relative to `src/src/vsam_offload`.

## 1. The system

| Component | State it keeps | Operations | Interacts with | What is hard | What makes it correct |
| --- | --- | --- | --- | --- | --- |
| Contract and decision (`sync_contract.py`, `sync_engine.py`) | none; a document carries `_sync` (version, hash, epoch) | `validate_envelope`, `make_event`, `process`, `transition`, `poison` | called by every sink writer | arbitrary arrival orders; equal versions with other contents; tombstones; documents without `_sync` | a document moves only along predecessor links; nothing old or conflicting replaces it |
| Cosmos store (`sync_store.py`, `CosmosStore`) | balances and quarantine containers | `get`, `apply` (compare-and-set loop), `quarantine` | consumer hosts, guided pipeline, verify | lost races, lost answers, the SDK's own retries | no lost update; at most one envelope per predecessor; idempotent quarantine |
| Consumer host (`eventhub_consumer.py`) | `failed`, `error`, the lock; Blob checkpoints | `on_event`, `on_error`, `fail`, `run_consumer`, restart | Event Hubs SDK threads, Cosmos store, checkpoint store | three stores without a transaction; SDK swallows exceptions; rebalancing; threads | a checkpoint covers accounted-for deliveries only; after an error nothing more is checkpointed; everything is eventually accounted for |
| Publisher and capture (`eventhub_publisher.py`, `sync_contract.py:make_event`, `sync_demo.py`) | the file of deliveries, the source image | `capture`, `deliver` (its line of the file), `publish`, `reconcile` | the hub | a change written before its predecessor, twice, late or not at all; ambiguous sends, replays, two publishers | a captured change is refused only where it comes out of order; a drained sink equals the source |
| Local store and demo (`sync_store.py`, `sync_engine.py:_finish`, `sync_demo.py`) | four SQLite tables | `apply`, `quarantine`, `resolve_quarantine`, `save_checkpoint`, `audit` | scripted demo | crash between commits | redelivery is a duplicate; resolution follows a replay |
| Guided pipeline (`guided_pipeline.py`) | the run's manifest: phase, stage, steps, starting positions, received events, checkpoints | `create_run`, `step` (six steps), `change`, `artifact` | lease, blobs, hub, Cosmos store | crash mid-step, two requests on one run, lease expiry, retries | no success is invented; no event of the run is skipped; verify means equal |
| Manifest lease (`guided_cloud.py`, `ManifestLease`, `lock`) | lease, etag, `failure` | acquire, renew, check, load, save, release | pipeline, renewal thread | a paused worker whose lease has gone; ambiguous uploads | one writer at a time; a fenced worker changes nothing |
| Guided consume (`guided_cloud.py`, `consume`) | receivers, gate, `_closing` | receive, callback, fail, close | SDK threads | deadline against callbacks; receivers that come up late or never | no callback after the answer; a receiver that is left has a supervisor; nobody is admitted beside it |
| Guided panel (`guided_ui.html`, `guided_app.py`) | the browser's copy of the run, `busy`, `uncertain` | execute, change, refresh, resume, reload, login | routes | time-outs while the server works on; a session that ends | a run that can go on can be driven on |
| COMP-3 and copybook (`copybook.py`) | none | `pack_comp3`, `unpack_comp3`, `parse_copybook`, `record_length`, `parse_record` | capture, engine, conversion | zero, padding, limits; layouts made by hand | unpack inverts pack; nothing is rounded; every byte belongs to one field |
| Sample and conversion (`generate_sample.py`, `parse_vsam.py`) | the record file, the documents written so far | `build_record`, `iter_records`, `convert_file` | copybook | a file that is cut or changed | nothing is truncated; damage shows |
| Access session (`guided_app.py`) | a signed cookie | login, logout, the check of each request | panel | it ends between any two requests | what the panel needs of it: `GuidedPanel` |
| Legacy splitter (`cdc_simulator.py`), balance API, bootstrap, infrastructure, mainframe specification | none | | | | not modelled, see section 7 |

## 2. Modules

| Module | Models |
| --- | --- |
| `SyncContract` | messages, documents and the decision (`Transition`) every sink writer takes |
| `SyncSink` | the abstract promise: atomic `Apply`, `Quarantine`, `Checkpoint` steps and when each is allowed |
| `CosmosConsumer` | hosts, SDK threads, remote calls, faults; `INSTANCE SyncSink` as the specification it implements |
| `CosmosConsumerProofs` | theorems about `CosmosConsumer` |
| `CaptureFeed` | `CosmosConsumer` composed with the capture, the file of deliveries and its publishers instead of an arbitrary producer |
| `CaptureFeedProofs` | theorems about `CaptureFeed` |
| `GuidedPromise` | the abstract promise of a guided run: steps completed in order, never taken back, accounts changed only by `apply` |
| `GuidedRun` | one run's manifest, its lease and the requests that work on it; `INSTANCE GuidedPromise` as the specification it implements |
| `GuidedRunProofs` | theorems about `GuidedRun` |
| `GuidedPanel` | the browser panel composed with `GuidedRun` |
| `GuidedPanelProofs` | theorems about `GuidedPanel` |
| `ConsumePromise` | the abstract promise of `AzureCloud.consume` to its callers |
| `GuidedConsume` | receivers, gate, supervisors and `_closing`; `INSTANCE ConsumePromise` as the specification it implements |
| `GuidedConsumeProofs` | theorems about `GuidedConsume` |
| `LocalStore` | `SyncEngine` over `SQLiteStore`, commit by commit, with the source, the operator and reconciliation around it; implements `SyncSink` |
| `SyncDemo` | `LocalStore` driven by anybody, or by a script as `run_demo` follows one |
| `LocalStoreProofs` | theorems about `LocalStore`, as `SyncDemo` drives it |
| `Comp3`, `Comp3Check` | packed decimals, and their check against arithmetic |
| `RecordLayout`, `Copybook` | layouts and the decoding of a record; `parse_copybook` line by line |
| `CopybookProofs` | induction over numbers; lemmas about `Copybook` |
| `FileConversion` | rows built into records, a file that may be damaged, `convert_file` |
| `Records` | the three record parts as one specification |
| `RecordProofs` | lemmas about `Comp3`, fields and files of records; theorems about `Records` |
| `MC...` | the instances TLC checks; `MCSyncDemo` also holds the script of `run_demo` |

### How the model corresponds to the code

*Messages.* An envelope is reduced to account, version, predecessor and body.
`Valid` is what `validate_envelope`, the record parser and the two mismatch checks
accept; every other defect (not JSON, wrong epoch, undecodable record, duplicate
field) is the body `Garbage`, because the code treats them alike: `poison`. A
document is a function of the envelope that wrote it and its `eventHash` is that
envelope's fingerprint, so a document is modelled by its envelope. `Untrusted`
is a document without trustworthy `_sync`, such as the legacy loader writes.

*Hosts.* `pc[h]` names the remote call the callback is about to make: `read`,
`write`, `quarantine`, `checkpoint`. Between two calls any other step may
happen. The handler's lock is the fact that a host has one `pc` for all its
partitions; `ReceiveError` needs `Idle` because `fail` takes the lock, and
`Interrupt` does not because the supervisor's `finally` sets the latch without it.

| Action | Code |
| --- | --- |
| `Deliver`, `Ignore` | `on_event`, with the gate open or closed |
| `Read` | `CosmosStore.get`, then `transition` |
| `Write`, `WriteConflict` | `create_item` / `replace_item` with the etag; 409 or 412 |
| `WriteEcho` | the SDK's own retry of a write whose answer was lost |
| `Quarantine` | `poison`, or `store.quarantine` after a refusal; a second write of the same id is absorbed |
| `UpdateCheckpoint` | `context.update_checkpoint`; the blob is overwritten, also backwards |
| `CallFails` | any other exception of a remote call, before or after its effect |
| `ReceiveError`, `Interrupt`, `Exit`, `Crash` | `on_error` / `receive` raising; the supervisor; process end and restart |
| `Claim`, `Lose` | partition ownership, as the SDK gives and takes it (external) |

An event without offset, and a collision of quarantine ids (two payloads of
equal SHA-256), end in `Fail` like a failed call and are covered by `CallFails`.
`event is None` does nothing. Printing is left out.

*Capture.* `Capture` is `run_demo.capture`: the envelope of a committed change is built once
(`make_event`), names the version it follows (`Succeeds`) and is kept in `captured`, whole, for
every later delivery. `file` is `events.jsonl`, to which `deliver` appends a line before it does
anything else, so its lines are in the order of the deliveries and not of the commits: a change
may stand before its predecessor (`sync_demo.py:125`), again (redelivery, duplicate, stale, gap
replay), unusable (`sync_demo.py:129-134`), or not be there (the dropped one). `WriteLine` writes any
of these. A change is `Owed` when the file does not hold it in order although it holds all it builds
on; that is what reconciliation points at and what the replay of a gap writes. `InOrder(s, i)` says
that element *i* of a file or of a partition has the changes it builds on before it, back to the account's
first one.

`Send` is one batch of `publish`; `Abort` is `send_batch` raising, before or after the hub took
the batch, or the process dying; `Open` runs the publisher from the file's first line, which is
all the program can do; `Republish` is an operator's superfluous run. A publisher reads the lines
that are there when it starts (`last`). `Stray` is an unusable message of somebody else.

*Guided run.* A worker is one request (`step` or `change`) in some server process.
`run[w]` is its local copy of the manifest, which it alters and saves; `pc[w]` names
the remote call it is about to make. The manifest is reduced to phase, stage, the
status of each step, `_publish.startingPositions`, `_received` and `_checkpoints`;
the artifacts' contents are functions of the phase, so a blob is only there or not.
The event of account *a* in phase *n* carries version *n*. An etag is modelled by
what `save` asks of it: `current[w]` says that the one `w` holds is the manifest's.

| Action | Code |
| --- | --- |
| `Request`, `Release`, `Expire`, `Renew` | `lock`, its `finally`, the service's sixty seconds, the renewal thread |
| `Load`, `LoadRefused` | `control.load` with the checks on the manifest and the entry of "running" |
| `Saved`, `SaveRefused` | every `control.save`: before the work (`begin`), the starting positions (`mark`), each received event (`record`), completion (`complete`), failure (`journal`), the next phase (`alter`) |
| `CheckFails` | `control.check` |
| `Put` | `_source`, `_transfer`, `_parse`; a step's uploads are one action, since each is idempotent and nothing reads between them |
| `PutEvents`, `ReadPositions`, `Send`, `Published` | `_publish` |
| `Attach`, `Receive`, `ReceiveFenced`, `Consumed`, `Timeout` | `_apply` with `AzureCloud.consume`; `SyncEngine.process` is one step here, as the compare-and-set that `CosmosConsumer` justifies |
| `Verify` | `_verify`, one point read at a time |
| `CallFails`, `Crash` | any remote call raising before or after its effect; death of the server |

Inside `step`'s `try` an exception leads to `journal`, elsewhere to the end of the
request (`Raise`). The receivers of `consume` are reduced to the next message of a
partition: their threads share one gate. Messages that do not concern the run
move no checkpoint and are passed over. Reading, listing and downloading change
nothing. The guided app is taken as the only writer of the run's accounts, which
`allocate_accounts` reserves for it.

*Panel.* `view` is `state.run`, `waiting` the request of `state.busy`, `uncertain` is
`state.uncertain`. `Click` and `ClickFails` are the handlers of "execute" and "change",
guarded as the buttons are; `Respond` is the end of the request, shown only if the
panel still waits; `Abandon` is the time-out of 180 seconds; `Refresh` stands for the
refresh button and for resuming by identifier. `Elsewhere` is another tab or client.
A session may end between any two requests (eight hours, a logout in another tab, a
new key), so `Unauthorized` is possible for every request the idle panel makes; the
server checks a request only when it comes, so a step at work is not affected.
`requireLogin` forgets the run but not `uncertain`; `Reload` forgets both. `Initialize`
is login, "reconnect" or the loading of the page with a valid session: the
identifier in the address finds the run again. The panel shows one run.

*Guided consume.* `pc[c]` is where the call is: making receivers (`starting`), past
the wait (`stopping`), about to make supervisors (`closing`), waiting for them
(`joining`), about to answer (`checking`). `thread` is a receiver's thread with its
client, `gate[c]` the partition whose callback holds the lock.

| Action | Code |
| --- | --- |
| `Admit` | `_closing` filtered by `is_alive()`, the refusal, the early return if nothing is missing |
| `StartReceiver` | one turn of the loop: client, lists, thread; each may raise |
| `Awake`, `Stop`, `Supervise`, `Joined`, `Answer` | the end of `stopped.wait`, then the `finally` block and the answers behind it |
| `Enter`, `Leave` | `callback`, from taking the gate to releasing it; `on_message` may raise |
| `OnError`, `EndReceive` | `on_error`; `receive()` returning after `close()`, or raising |
| `Close`, `Join` | `close_receiver` after `ready` |

Of the SDK it is assumed that a receiver that was started comes up or fails, that one
that was told to close returns, and that a `close()` that raises has stopped its
client. `close()` on a client that has not come up does nothing, as the comment at
`guided_cloud.py:260` says. `cursor` counts messages and not times: deadlines may pass
at any step. `ThreadFaults` says which threads the process may fail to start.

*Local store.* `pc` names the commit that comes next: `apply`, `quarantine`, `audit`
(sink-durable), `save`, `saved` (the checkpoint's audit entry). `Die` may come
between any two and the database is opened again. `Transient` and `SimulatedCrash` are
the two exceptions `run_demo.deliver` knows. A quarantine document is known by the
offset that made it; `resolve_quarantine` marks those of equal event hash, which is
equal envelope here. `Replayed` is when an operator resolves: after the audit shows
the event applied or duplicate, as the demo does. `applied` is a history variable.
Delivery is serial and a delivery without checkpoint is made again before the next
one, as `deliver` is used; the store keeps no lock of its own for anything else.

*Demo.* A line of the script captures, delivers (with an injected failure or again),
resolves or checks; `RunDemo` in `MCSyncDemo` is the list of `sync_demo.py:105-153` with the
contents of records reduced to one image. `line = 0` is a driver without script.

*Records.* A value of COMP-3 is a `Decimal.as_tuple()`, packed bytes are nibbles; what
may raise `ValueError` returns a set that is then empty. The copybook's lines are what
its regular expressions see in them: ignored (blank or comment), group, field with
name and clause, other. `Lower` is `str.lower`. `Odd` stands for the three letters that
`re.IGNORECASE` takes for ASCII ones and `lower()` does not turn into them (dotted capital I,
dotless i, long s): `parse_copybook` accepts a name with one, `record_length` then refuses the layout.
The Kelvin sign is a fourth that matches, but `lower()` makes it a k.
`Make` is a caller that changes an attribute of a parsed field. In a file a text byte
is its cp037 nibbles; `Cut` and `Change` are the damage a transfer does.

## 3. Runs

Deadlock checking is off in all runs: with the log full and the faults spent, the
feed drained, the requests answered, the script at its end, or the record checked,
the modelled system has nothing left to do.

| Run | Bounds | Question |
| --- | --- | --- |
| `consumer_overlap` | 2 hosts, 1 partition, 1 account, 5 message kinds, 3 deliveries, 1 fault, `max_attempts` 2 | every interleaving of two hosts on one partition |
| `feed_overlap` | 2 hosts, 2 publishers, 1 account with a change in two contents on 1 partition, 2 captured changes, 4 messages in the hub, 2 faults or lines out of turn | only gaps are refused, drained means equal |
| `feed_liveness` | 2 hosts, 1 publisher, 1 account, 2 changes, an unusable message, 6 messages in the hub, 1 fault or line out of turn, `max_attempts` 1 | nothing is left unaccounted for, what was written too early is replayed, documents converge to the source |
| `guided_overlap` | 2 requests, 2 accounts on 1 partition, 2 phases, 5 messages, 2 faults | every interleaving of two requests on one run |
| `guided_liveness` | the same with a partition per account, 1 fault | a client that keeps asking gets the run verified |
| `panel_answers` | 2 requests, 1 account, 2 phases, 1 fault, panel and another client | what the panel shows and asks for |
| `panel_liveness` | the same, the panel alone | what can block the operator; which phase a click runs in |
| `panel_orphan` | the same | expected to be violated, see section 6 |
| `consume` | 2 requests, one with 2 partitions and one with 1, 1 message each, one event wanted, receivers' threads may fail to start | every interleaving of two overlapping calls |
| `consume_stuck` | 1 request with 2 partitions, the same fault | expected to be violated, see section 6 |
| `local` | 5 messages over 2 accounts, 4 offsets, 1 failure or death; and the script, 27 lines | commits apart, deliveries in any order; the demo's report |
| `records` | packing: up to 3 digits, exponents of 2, 9 nibbles; copybooks: up to 4 of 12 lines; files: up to 2 of 49 rows over a layout with a field of each kind, any cut, 6 byte values at any place | the record algorithms against reference definitions |

*Why the bounds are enough to be interesting.* The message kinds of
`consumer_overlap` hold a conflict (two contents of version 1), a successor, a
tombstone, a resurrection after it, and garbage; any order of three of them may
be in the log, so gaps, stale versions and duplicates all occur. Two hosts and
one fault suffice for the overlaps the code speaks of: a host that lost its
partition in the middle of a callback, a rewound checkpoint, a write echoed as
conflict, a crash between any two calls. With one attempt `apply` does raise on
a lost race (`feed_liveness`); with two it never needs the second write, which
`SecondRoundSettles` states and a theorem proves for any number. In
`feed_liveness` the log bound leaves room for every replay the fault or the line can cause, so that
fairness never asks for a step the bound forbids. A line of the file that is not owed counts as a
fault, which bounds them. One is enough for a gap: the successor of two changes first, then, owed, its
predecessor and the successor again; `feed_overlap` has one more, for a lost partition, a failed call or
a superfluous replay at the same time, and two publishers interleave their replays of all of it. In the guided runs the
second phase is the first with history: an account at an earlier version, messages
of another phase before the starting position, `change` as an alternative. Two
requests and a lost lease give the paused worker that goes on while another one
works; the second fault lets a call of either fail as well. Five messages leave
room for a complete second publish of the first phase. A worker that is not at
work loses nothing when its lease expires, so that is not counted as a fault.

No run has a host with two partitions, or two accounts on one partition of the feed: that one lock
and one latch span them, and that accounts do not disturb each other, is part of the theorems of section 4, which hold for any number of hosts and partitions.

In `consume` the second request may be admitted while the receivers of the first are
starting, receiving, closing or left behind; one of its partitions has the event, the
other only messages of others, so that `done()` depends on one receiver while the gate
is shared. Resuming with everything already received is an initial state. In `local`
four offsets suffice for the demo's hardest case, a gap that is quarantined, its
predecessor, the gap again and a resolution, in every other order as well; the
script runs on its own bounds. In `records` three digits give odd and even precision,
with the pad nibble, and values one digit too long; the copybooks have a name in two
cases, a reserved, an odd and a duplicate one, each kind of clause and an empty one.

*Fairness.* A host owes the steps of a running callback, the claim of a free
partition, the delivery of the next message and the end of a process whose latch
is set (the supervisor polls it, and a container platform restarts the process).
A publisher that is due is run and goes on, and a captured change that the file does not hold in
order is written in the end (`Owed`): the demo's operator replays what `reconcile` reports missing and
what was quarantined as a gap. Publishing by others, capturing, superfluous lines and
faults owe nothing; faults are bounded, so they stop.

In `FairSpec` (guided) a server that lives works on or times out (`consume` has a
deadline), an abandoned lease expires, and the operator's request for the step that
is due is accepted if it can be again and again (strong fairness: in between another
request may hold the lease). `PanelFairSpec` asks instead that the operator refreshes
and clicks what can be clicked; nothing is asked of the operator that the panel does
not offer. It also asks that the operator opens the panel again after a reload or an ended
session, however often these come. `Renew` owes nothing.

In `GuidedConsume` the thread of a request and its supervisors go on when nothing holds
them, deadlines pass, `on_message` returns, and the SDK does what is assumed above. No
message need arrive and no request need come. In `SyncDemo` the process runs and
whoever drives the engine redelivers what failed; a script goes on.

### Properties

* `CheckpointSafe`: each delivery at or below a checkpoint is in quarantine, wrote its
  document, or is superseded by a later version.
* `UnbrokenChain`: the envelopes written to an account form one chain from nothing to
  its document.
* `HaltedHostIsQuiet`: a host with an error runs no callback.
* `SecondRoundSettles`: no compare-and-set loop writes in a second round.
* `ImplementsSink`: refinement of `SyncSink`; a message is applied or quarantined only when all
  before it are settled, and a valid one is refused only by a document that
  reflects every earlier delivery of its account.
* `EventuallySettled`: every published message is eventually accounted for. It is stated
  with `Settled` and not with the checkpoint, because a host that has lost the
  partition may move the checkpoint back for good; that costs a redelivery only.
* `OnlyGapsQuarantined`: a delivery that has the changes it builds on before it in its partition is never
  quarantined. A captured change may be: the file of the demo holds version 8 before its predecessor 7, and
  publishing it quarantines that line, as `docs/demo-guide.md` says; the same line again, after 7, is applied.
  It needs the envelope to be kept: one that is built again for a replay (the mutant) has another
  commit time and is refused although it comes in order.
* `DrainedMeansReconciled`: once the file holds every account's last change in order, a publisher has sent the
  whole of it and every partition is checkpointed to its end, the documents are the source, whatever was
  refused on the way. `EventuallyReconciled`: they become and stay so.

* `NoFalseSuccess`, `NothingSkipped`, `NothingQuarantined`: the manifest against the stores. What
  it calls received is in Cosmos, what it calls published is in the hub, what it
  calls verified still is so; an event not yet received lies behind the position
  apply starts from; no event of the run is refused.
* `StageCountsCompleted`, `ImplementsPromise`: the manifest against itself and its past.
* `EventuallyVerified`: no fault leaves a run that the API cannot finish.
* `NoSuccessPresumed`, `ViewNeverGoesBack`, `RefusedOnlyIfOutdated`: the panel's copy against the
  manifest. The last one is as weak as the code makes it: a POST names no phase, so
  a click on an outdated copy may meet another phase.
* `RunsInPhaseSeen`: with the panel alone, the step that a click runs is of the phase the operator sees, although
  changes and clicks before it were given up, answered late or refreshed over. With another client at work it
  may not be (hazard at `guided_ui.html:555`): nothing in the code prevents that.
* `OnlyOrphansBlock`: nothing but a step that says "running" and is run by nobody can keep
  the panel from finishing. `OrphanRecovers`: such a step is temporary. It is not.

* `KeepsPromise`: refinement of `ConsumePromise`: no message after the answer, success only with
  everything received and no receiver left, nobody admitted beside the receivers of
  an answered request. `StoppedMeansFenced`, `NoOrphan`, `Answered`: how.
* `OnlyUnstartedBlocks`: the process becomes ready for the next request, unless a receiver's
  thread could not be started. `Readmitted`: it does in any case. It does not.
* `KeepsSink`: refinement of the same `SyncSink` the Cosmos consumer implements.
  `EventuallyCheckpointed`: redelivery gets every delivery to its checkpoint.
* `CheckpointInOrder`: the local checkpoint is the last offset saved, not the highest; yet each change of it is to the next
  offset, and that delivery is accounted for. It is serial delivery that makes this so.
* `ClaimsTruthful`: the audit and the resolutions against the documents (`TimelineTruthful` and
  `ResolvedIsReflected`).
* `NoDifferenceHidden` (`ReconcileExact` and `DifferenceIsPending`): reconciliation is equal exactly if every captured
  change was applied; once all were delivered, a difference has a pending quarantine.
* `InvariantsPassed`: the script comes to its end and every check of its report passes.
* `PacksWhatFits`, `Inverse` (`RoundTrip` and `OneSpelling`): `pack_comp3` accepts what a field can hold and nothing
  else; unpacking inverts it; a number has one spelling but for the sign F.
* `ReadsCopybooks` (`AcceptsWellFormed` and `LayoutIsUsable`), `FieldsTileRecord`: the copybooks that are accepted, and what
  `record_length` guarantees of any layout.
* `NothingLost`: rows come back as they mean or are refused. `Expected` says what a row means in its own terms (the padded
  field is the row's digits with zeros in front), not by what `convert_file` does to a record. A file cut in the
  middle of a record is an error; a cut at the end of a record cannot be told from a whole file, and what is
  written is then a prefix.
* `ChangeShows`: a changed byte is refused, or changes the value of its own field and of no other. `SameMeaning` names
  the only changes that show nothing: a packed byte whose sign is written F instead of C with the same
  digit, and one blank in place of another in a text, since `strip` drops both.

Every property of a passing run has a mutant in `PROJECT.json`: a plausible bug in a mapped
definition that makes TLC report the property violated.

## 4. Proofs

### Cosmos consumer

`CosmosConsumerProofs` proves, for all values of the constants, the type invariant, the
four safety invariants above and the refinement. Assumptions:
`MessageAssumption`, `SentinelAssumption` (`SyncContract`) and `ConsumerAssumption`.

The safety invariants are not inductive alone. `Inductive` adds what a callback
knows between its remote calls:

* `WriteJudged`: an envelope waits to be written only after a document it follows was
  read, and the document can only have moved past it since;
* `SecondRoundIsLate`: a second round starts with the predecessor's version gone;
* `CallbackInOrder`: everything before the delivery at work is settled, and at the
  checkpoint so is the delivery itself;
* `PassedIsSettled`: what a host with an open gate has moved past is settled, except for the
  delivery its callback works on (the reason why the latch must be set before
  the lock is released);
* `RefusalJudged`: a refusal is based on a document the account has had, which reflects
  every earlier delivery that is not in quarantine;
* `DocumentsApplied`: a trusted document is one of the envelopes applied to its account.

Each conjunct has a lemma that a step keeps it; they rest on lemmas on how one
step changes the stores (`DocumentMoves`: a document only moves forward, to an
envelope that follows it) and that what is settled stays settled. The
refinement then maps each step to one of the sink's or to a stutter.

The feed, the panel and the demo compose a component with what drives it; their proofs
take the component's lemmas as they are and only add what the composition adds.

### Capture feed

`CaptureFeedProofs` proves over `FeedSpec`, for any hosts, publishers, partitions, accounts and
number of captured changes and lines (`FeedAssumption` besides the above), `OnlyGapsQuarantined`,
`DrainedMeansReconciled` and, once more, `ImplementsSink`. The producer of `CosmosConsumer` may publish
any message, and the lemma `Arrives` shows that all a host sees of a publisher's steps is such
an arrival, so `Inductive` carries over. `FeedInvariant` adds what this producer guarantees:

* `CapturesChain`, `SourceIsLast`: the captured envelopes of an account follow one another, and the last
  one is the source;
* `OnlyCapturedWritten`, `OnlyCapturedSent`, `OnlyCapturedApplied`: what a consumer can use, in the file, in the
  hub and in the documents, was captured. Order is not among the guarantees;
* `PublishersInOrder`: what the file holds in order among the lines a publisher has sent, the hub holds
  in order (`Reached`). This is what opening the file from its first line after each failure is for.

A delivery that is in order is then never refused, by induction along its predecessors: by
`RefusalJudged` the document it was judged against reflects every earlier delivery of the account that is
not in quarantine. Its predecessor is an earlier delivery and in order too, so it is not in quarantine,
and the document reflects it; a document of the same chain that reflects the predecessor makes the
envelope applied, duplicate or stale. That copies of the predecessor were refused, further up,
does not matter. `DrainedMeansReconciled` follows: the last change of each account is in order in the
file, so it is in order in the hub, so its delivery was applied and no later one replaces it.

### Local store

`LocalStoreProofs` proves over `DemoSpec`, with or without a script, for any sample, log and number
of faults (`LocalAssumption`, `ScriptAssumption`), `TypeOK`, `ClaimsTruthful`, `NoDifferenceHidden`, `CheckpointInOrder` and that the
separate commits implement `SyncSink`. `LocalInvariant` adds:

* `SerialDelivery`: the checkpoint is at the delivery in progress or the one before it;
* `ProcessKnows`: what `process` knows between two commits: the document has not moved since
  `apply` looked at it, as nothing else writes it;
* `CapturedChain`, `AppliedPrefix`: what is captured of an account is one chain without gaps,
  and what was applied of it is the part up to its document, so that an equal document
  means that nothing of the account is missing;
* `DeliveredCaptured`: what is delivered was captured before.

A claim once true stays true because a document never moves back along the chain.

### Guided run and panel

`GuidedRunProofs` proves, for any requests, rows, partitions, phases and faults (`RunAssumption`), `TypeOK`,
`NoFalseSuccess`, `NothingSkipped`, `NothingQuarantined`, `StageCountsCompleted` and that a run implements
`GuidedPromise`. The proofs show that the lease is not what makes this true: a worker may have lost it
at any point. `RunInvariant` says what a worker knows, whether or not it is still alone:

* `CopyTrue`: what holds of the manifest and of any copy a worker works on, however old, since
  log and documents only grow;
* `CopyResumes`: nothing is missing up to where apply would start; only for copies that can
  still be saved, because another worker may go on from a later position;
* `CopyCurrent`: a copy whose etag is the manifest's differs from it by what the step did since;
* `CopyBehind`: any other copy is behind, and what was due at its step has been done;
* `LoopFits`: what the loops of publish, apply and verify have been through;
* `LogFits`, `DocsFit`: events of a phase are in the hub only after its starting positions were
  saved; accounts are at the version of the previous phase before apply is due and at that of
  this phase after it.

From `CopyBehind` and `DocsFit` follows why a fenced worker does no harm: an event it sends again is
one the hub already holds or the current step sends as well, and one it applies is a
duplicate. The step lemmas are in two halves: what an action does to the shared state
(`Effect`: log, documents and manifest only move on) keeps every other worker's
knowledge, and the acting worker's own is looked at action by action.

`RunAssumption` asks, besides the types of the constants, that `None` is neither a worker nor a
cursor, as a model value is neither for TLC.

`GuidedPanelProofs` proves over `PanelSpec` `NoSuccessPresumed`, `RefusedOnlyIfOutdated` and the action property
`ViewNeverGoesBack`. `PanelInvariant` adds to `RunInvariant` that the view, and each answer under way, was
the manifest at some time (`ViewFits`, `AnswerFits`), and that the request the panel waits for was due by
the view it was clicked in and will not answer with an older one (`WaitingFits`).

TLC checked each of these invariants on a small instance like that of its component's run before it was
proved (`feed_overlap`, `local`, `guided_overlap`, `panel_answers`).

### Guided consume

`GuidedConsumeProofs` proves, for any requests, partitions, positions and events waited
for (`ConsumeAssumption`), `TypeOK` and `StoppedMeansFenced`; and, where supervisors can
be started (`"supervisor" \notin ThreadFaults`, see section 6 for why it is needed),
`NoOrphan` and that `consume` implements `ConsumePromise`. Starting a receiver may
fail in all of them. The inductive invariant is at the end of `GuidedConsume`:

* `GateHeld`: who holds the gate runs, for a request that is neither stopped nor
  past its wait. It is what makes it matter that `consume` takes the gate to set
  `stopped`: without it a callback that has looked goes on after the answer;
* `Unadmitted`: before admission there are no receivers;
* `FencedSince`: a receiver that runs past the wait finds `stopped` set, so that no
  callback can begin after the answer;
* `Supervised`: past the closing it has a supervisor in `_closing`. `NoOrphan` says that of
  answers only and is not inductive; the answer "ok" needs it before, while the request
  still looks at its supervisors.

The refinement lemmas follow the code's parts: admission, the later steps of a request,
and the threads.

### Records

`RecordProofs` proves over the specification of `Records`, for any lines and pictures (`CopybookAssumption`: a
field line has a picture of the form `_picture_layout` reads) and any digits, nibbles and bounds
(`CheckAssumption`), `ReadsCopybooks`, `FieldsTileRecord`, `PacksWhatFits` and `Inverse`; and, for any rows and
damage (`FileAssumption`), `NothingLost` and `ChangeShows`. `FileAssumption` asks that the layout
`build_record` is written for is one `record_length` accepts, that its decimals have an S (`pack_comp3` writes
any sign, and `parse_record` refuses a negative value in a field without an S, `copybook.py:137-138`), that
the padded field is a zoned one, that `strip` removes spaces, and that a row has text, digits or a decimal
where its field is of that kind, or nothing.

`CopybookInvariant` (TLC checked it, and `PackInvariant`, on the instance of `records`) says that the fields
so far are those of the lines read, each at the end of the one before (`FieldsFollow`, `LinesRead`), so that a
line is refused exactly when `WellFormed` fails for it. `FieldsTileRecord` does not rest on that: it holds of any
layout `record_length` accepts, since offsets that follow each other leave no gap and no overlap.

`PackInvariant` only says that each state holds a value and what it was packed into, or bytes and what
they were unpacked into. The proof is in the lemmas on `Comp3`, which hold for any decimal:

* `NumberStep`, `NumberConcat`, `NumberBounds`: what digits are worth. `Number` is a recursive function of a length;
  `NumberIs` shows that the function exists, and the rest goes by induction on lengths;
* `DecimalFits` (`ZeroFits`, `WholeFits`, `FractionFits`): the text `digit_text` finds is the value times
  10^scale, and it finds one exactly if that is a whole number below 10^digits. In the last case the
  digits that are cut off are zeros exactly if their power of ten divides the number;
* `StrippedIs`: leading zeros dropped by `Decimal` are those `zfill` puts back;
* `NibblesPacked`, `PackedOnce`, `UnpackIs`: packed bytes are the ones `unpack_comp3` takes, and digits and sign
  determine them.

`FileInvariant` (TLC checked it on the instance of `records` too) is what the two properties about files need:

* `FileHoldsRows`: the file is the rows' records one after the other, cut at some byte or different at one.
  `FlattenPlaces` shows where each part of joined parts is, by induction on their number, and serves twice: for fields
  in a record and records in a file; `Places` gives each byte of the file its one place in one record;
* `ReadSoFarWritten`: the bytes read are those of the documents written. Without it the next chunk could
  begin in the middle of a record, and neither property is inductive;
* the lemmas on a field's bytes: `TextPart`, `ZonedPart`, `PackedPart` (`PartHolds`): they fill the field and decode to
  what the value means, and to nothing else; `ZonedChange`, `PackedChange` (`PartChange`): with another byte they are
  refused or decode to another number, but for the sign.

`NextDocument` puts these together for a record, whatever happened to the file, and `NextDocumentThere`
shows that a whole record of an undamaged file parses, so that a conversion fails only on damage.

The library states induction with an operator as a parameter, which the provers cannot instantiate.
`CopybookProofs` therefore shows from the well-foundedness of the natural numbers that a set which holds 0 and
with each number the next holds all of them (`Induct`), and the lemmas say of a set of lengths that it is one.

### Only model-checked

* The liveness properties, which are out of the prover's reach: `EventuallySettled`, `EventuallyReconciled`,
  `EventuallyVerified`, `OnlyOrphansBlock`, `Answered`, `OnlyUnstartedBlocks`, `EventuallyCheckpointed`.
* `RunsInPhaseSeen`, an invariant of the panel without other clients.
* `InvariantsPassed`, which is about one script, the one of `run_demo`, and asks that it comes to its end.

## 5. Plan

Every component that has behaviour of its own is modelled, and every safety property of it but
`RunsInPhaseSeen` is proved.
What could follow is in the parts that section 7 leaves out.

## 6. Findings

*The panel cannot resume an orphaned step* (`panel_orphan`, `OrphanRecovers`). A step saves
"running" before it works (`guided_pipeline.py:144`). If the host dies, the lease is lost,
or that save or the failure journal gets no answer, the manifest goes on saying
so. `GuidedPipeline.step` would run the step again, and `EventuallyVerified` shows that a
client that asks for it finishes the run. But `serverRunning` (`guided_ui.html:550-556`)
disables "execute" as long as any step says "running", and a refresh reads the same
manifest again. That contradicts `guided_cloud.py:172` ("Finite leases recover after host
death"), the message of `guided_cloud.py:43` ("tente novamente") and `README.md:595`, which
says that the state is kept in Storage for inspection and resumption.
`OnlyOrphansBlock` shows that this is the only way the panel gets stuck.

*A receiver that cannot be started blocks the process* (`consume_stuck`, `Readmitted`).
`consume` puts client, event and worker into their lists and then calls `worker.start()`
(`guided_cloud.py:272-276`). If that raises, the `finally` block makes a supervisor for it too,
and `close_receiver` waits in `ready.wait()` (line 262) for an event that only the receiver
sets. The supervisor stays in `_closing`, and every later call of the process is told "Um
consumidor anterior ainda está encerrando; aguarde para retomar." (line 215), for good.
`OnlyUnstartedBlocks` shows that nothing else has this effect.

*A supervisor that cannot be started* (no run). The supervisors are put into `_closing` and
started one after the other (lines 285-287). If `closer.start()` raises, its receiver and
those of the supervisors after it are never closed, and the next request drops them from
the list because `is_alive()` is false (line 213). With `"supervisor"` in `ThreadFaults`,
TLC reports `NoOrphan` violated within seconds; the run `consume` assumes that supervisors
can be started.

## 7. Not modelled

The balance API and the legacy loader are one read and one create per call. The legacy
splitter `cdc_simulator.py` is one pass over a record file that writes an envelope without predecessor for
each record; run twice, it builds its envelopes again, against what `make_event` asks for. The
templates and scripts are declarative deployment. The mainframe capture
specification is a requirements draft whose pseudocode says that it is not compiled.
Of the access session only its effect on the panel is modelled: signature, expiry and
origin checks are stateless predicates over strings, which their tests cover.
`unpack_comp3` without a declared precision has no caller outside the tests. The
characters of a copybook line are abstracted to what its patterns see.

The real hub, Cosmos DB and Blob Storage are modelled from how the code uses them: an
append-only log per partition, conditional writes on one document, an overwritten
blob. Cosmos DB answers "conflict" only where there is one, or where the SDK's own retry meets its first
write: `test_sync_core.py:200-229` injects conflicts without a competing write and sees `apply` write a second
time, which `SecondRoundSettles` excludes under this reading of the service. Event retention is not modelled: the log never drops messages.
