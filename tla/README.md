# Market Hunt: TLA+ models, checks and proofs

The repository is a market scanner that runs as a chain of GitHub Actions runs
against one PostgreSQL database.  It ingests bars and catalysts, captures a boundary
in the warehouse, lets some thirty stages compute datasets from what was visible at
that boundary, and publishes all of them at once for a dashboard.  A second program,
the V4 worker, polls live candidates and turns state changes of signals into
alerts.  On top of the published inputs, paper books, models and research ledgers
decide from documents that survive failed runs.  The arithmetic of the scores is
sequential and tested; what is hard in this code is what happens *between* the
statements of several processes and *between* the runs of the chain: row and
advisory locks, READ COMMITTED statements that see different moments, transactions
that die, documents saved before a run fails, records copied from an older run,
messages whose replies are lost.  The models are about that.

## Contents

| Module | Models | Proofs | Runs (`MC*.cfg`) |
| --- | --- | --- | --- |
| `LeaseRecord` | what the lease promises of a scope (abstract) | | |
| `PipelineLease` | recovery ownership of a scope; implements `LeaseRecord` | `PipelineLeaseProofs` | `MCPipelineLease` |
| `PublicationRegister` | what publication promises its readers (abstract) | | |
| `PublicationControl` | runs, stages, versions, `publish`, head; implements `PublicationRegister` | `PublicationControlProofs` | `MCPublicationFresh`, `...Seed` |
| `ProductionWorkflow` | the chain of production runs | `ProductionWorkflowProofs` | `MCProductionWorkflow` |
| `SnapshotReads` | transaction visibility of warehouse reads | `BoundaryProofs` | `MCSnapshotReads` |
| `Ingestion` | the live refresh: prefetch, watermarks, commits, deadline | `WarehouseProofs` | `MCIngestion` |
| `MarketClock` | the exchange calendar and the freshness rule, pure operators | `WarehouseProofs` | |
| `WarehouseGate` | the coverage gate, its evidence, the publication check, reads at T0; uses `MarketClock` | `WarehouseProofs` | `MCWarehouseGate` |
| `CatalystWarehouse` | catalyst revisions and checks, their locks, reads at a boundary | `BoundaryProofs` | `MCCatalystWarehouse` |
| `SignalLifecycle` | the V4 state machine, a pure function | | |
| `SignalWorker` | V4 workers, reduction, alert routing; uses `SignalLifecycle` | `SignalWorkerProofs` | `MCSignalWorker`, `...Live` |
| `OutcomeBook` | what the outcome ledger promises of a trade (abstract) | | |
| `OutcomeLedger` | the V4 ledger: worker, daily resolver, market; implements `OutcomeBook`, uses `SignalLifecycle` | `OutcomeLedgerProofs` | `MCOutcomeLedger` |
| `ModelCutover` | shadow cohorts, model fits, monitor, activation and rollback | | |
| `PaperBooks` | daily pick, V3.1 challenger, order flow, quant shadow | | |
| `TradeDesk` | the V3 intraday monitor, its journal, its messages | | |
| `CriteriaResearch` | V7 criteria optimizer and challenger | | |
| `PaperAllocation` | V7 paper allocator | | |
| `PilotReview` | V8/V9 health, scorecard, readiness, pilot packet | | |
| `DecisionPlane` | the composition of the six above | `DecisionPlaneProofs` | `MCDecisionPlane` |

To check: `tlc -config MCPipelineLease.cfg MCPipelineLease`; to prove:
`tlapm PipelineLeaseProofs.tla`.  Definitions named for a slip (`KeptAfter`,
`AnySession`, `MarksAll`...) stand before the definition they vary.  They are
the plausible bugs each property is known to catch; no specification uses them.

## Inventory

Paths are relative to the repository's root.

### Pipeline lease (`scanner/pipeline_lease.py`, `sql/003`)
State: one row per scope (owner, generation, status, expiry), an append-only
history.  Operations: `acquire`, `heartbeat`, `assert_owned`, `finish`; the
caller publishes on the cursor of `assert_owned`.  Hard: the WHERE clause of an
UPDATE is evaluated before the wait for the row's lock; owners die; two
supervisors take over.  Correct if a superseded owner commits nothing, every
generation runs once and ends once, and a dead owner does not block the scope.
The wiring in the workflow is not there yet (docs/audit-2026-09-26.md).

### Publication control plane (`scanner/control_plane.py`, `sql/002`, `stage_contract`, `signal_freshness`, `publication_bounds`, `production_telemetry`)
State: `pipeline_run`, `pipeline_stage`, `dataset_version`/`dataset_row`,
`publication_snapshot`/`publication_dataset`, `publication_head`;
`state_document` and `event_record` for the worker.  Operations: `start_run`,
`fail_run`, `stage_started`, `stage_finished`, `write_dataset` (and its batch),
`seed_from_publication`, `publish`, reads.  Hard: `publish` is a transaction of
a dozen statements at READ COMMITTED under row locks while background stages
write; rows expire while it runs; a watchdog may close its connection at any
point, or during the commit; a live run starts from the published versions.
Correct if readers always see one complete publication that a manifest describes
exactly, none of its rows was excluded as expired, no publication is undone by a
late failure, and none brings an older one back.

### Production workflow (`.github/workflows/production.yml`, `run_policy`, `market_cutoff`, `workflow_continuation`)
State: GitHub's concurrency group (one running, one pending), the run's inputs
(mode, recovery attempt), its start time, the publication head.  Hard: a run
started in one session may publish in another; a live run reuses the daily
artifacts of a publication that reused them itself; the plan for the successor
sleeps five minutes; the pending run is replaced by later requests.  Correct if
daily artifacts and T0 stand for the same session, failures in a row are
bounded, no successor is queued too late, and a failure does not strand the
session.

### Transaction visibility (`bitemporal_warehouse`, `consumer_snapshot`, `catalogue_snapshot`, `sql/006`, `sql/007`)
State: append-only observations and instrument revisions stamped with the
writer's transaction id; frozen universes; a boundary (time and `pg_snapshot`)
per run.  Hard: transactions that were open at the capture commit later with
older times; the universe may be rewritten between the statements of the gate.
Correct if a read at the boundary is repeatable and equals what was visible at
the capture.

### V4 signal worker (`scanner/v4/`)
State: the state document `v4/signal_state`, the event log, the audit events,
the dispatch document, the runtime counter.  Operations: `run_cycle` (load,
shortlist, poll, `process_batch`, ledger, `route`, datasets, health).  Hard: the
workflow's one-shot cycle and a permanent worker may overlap; every call may
fail or be the last one; the dispatch document is loaded, changed and saved as a
whole; a message may arrive although its send raised.  Correct if each signal's
history is one path of its lifecycle, an observation moves it once, and alerts
are sent at most once and booked only where they arrived.

### V4 outcome ledger (`v4/outcomes.py`, `v4_outcomes.py`)
State: the document `v4_outcomes/signals`, one record per signal with its entry,
ending, excursions and returns.  Operations: `observe_many` after each reduction,
`resolve_daily_histories` at night; both load, change and save the whole document.
Hard: the reduction and the ledger are separate transactions; engine and resolver
both end trades and do not tell each other; histories are missing on some nights;
a bar is seen again after the entry; the boundaries of the five-session window.
Correct if a booked entry or ending stays, no evidence counts that came before the
entry, inside its bar or after the exit, and a trade ends at its first touching bar.

### Warehouse ingestion (`live_ingestion`, `warehouse_refresh`, `ingestion_fetch`, `ingestion_deadline`)
State: the observations in the warehouse, a row of `warehouse_run_log` per refresh;
in memory the prefetcher's futures, the frames not yet committed, the watermarks.
Operations: a refresh of the live universe in chunks, one recovery refresh of the
required symbols, the deadline that kills the process group.  Hard: answers come in
any order and may be empty; the clock is read after the fetch, so a bar may be stored
before its last prices are known; batches below a threshold wait for a later commit; commits fail
with or without effect.  Correct if a refresh that says AVAILABLE has stored what it
was given, an unfinished bar is revised, and the prefetcher ends by itself.

### Warehouse gate (`warehouse_gate`, `warehouse`, `market_cutoff`)
State: the run's `warehouse_coverage` and `warehouse_snapshot` datasets, the frozen
universe of each boundary.  Operations: capture, evaluate five tiers, write both; validate
before publication; `provide` and `frames` for consumers.  Hard: two datasets are
written one after the other by a gate that can crash and run again; the rows age
while the stages work, over a close, a night or a holiday; consumers decide by code
of their own whether the rows serve them: they read back by a period, refuse gaps
that a tolerant tier accepts, and judge daily bars by the run's start.  Correct if what is
published passes on the rows of its own boundary at the time of the check, and the
consumers that need what the gate requires are served.

### Catalyst plane (`catalyst_warehouse`, `catalyst_bulk`, `catalyst_ingestion`, `catalyst_data_plane`, `catalyst_contract`, `catalyst_pipeline`)
State: revisions of events with their knowledge times, checks with the events they
vouch for, advisory locks.  Operations: collect, lock, supersede, commit; context and
state at a boundary.  Hard: the scheduled collector and a production run write the
same provider at once, one in a single transaction, one per ticker; knowledge time
is read under a lock while the check carries the time of its fetch; boundaries fall
between commits.  Correct if a visible check's events can be read, revisions follow each other
without gap, nobody waits in a circle, and a boundary's answers do not change.

### V4 cutover and evidence (`v4/shadow_validation`, `v4/evidence`, `v4/calibration`, `v4/model_monitor`, `v4/cutover`, `v4_cutover`)
State: the shadow ledger of daily cohorts, the model document, the active model, the
cutover state, the published monitor and evidence records.  Operations: record and
resolve a cohort, fit, monitor, evaluate, activate, roll back.  Hard: the ledger is saved even if its run
fails; an operator activates while the chain retrains; histories are missing.  Correct if
cohorts and settled labels do not change, retraining does not change what is served,
and a degraded model does not stay primary.

### V3 desk and paper books (`intraday`, `v3_live`, `high_conviction_alerts`, `performance`; `daily_pick`, `v31_challenger`, `order_flow_validation`, `quant_shadow`)
State: the monitor's states per ticker, its log, the paper journal, the log of alerts;
one document (or two) per book.  Hard: documents are saved one after the other and
survive a failed run; the same day is decided again by a rerun; messages are sent
before the log is saved; bars are missing on some runs.  Correct if outcomes follow
entries, a day has one selection, a trade ends at its first touching bar and not
after its period, and a ticker is announced once a session.

### Paper allocation and criteria research (`v7/allocator`, `v7/criteria_optimizer`, `v7/challenger`)
State: the portfolio of a run; the challenger's document and its published record.
Hard: limits that are consumed row by row; a challenger frozen from the past and
judged on sessions that mature later, over runs that save it and publish nothing.
Correct if the plan keeps every limit and one pass is enough, and if a verdict rests
only on sessions after the registration and is never taken back.

### Operations, scorecard and pilot review (`readiness`, `v8_operations`, `v8_scorecard`, `v9_readiness`, `v9_pilot`)
State: the records of the last stages.  Hard: each reads records of other stages,
which a live run copies from the publication and of which it rewrites two, the paper
validation (`readiness`) and the outcome ledger (`v4_worker`).  Correct if a
packet is published only by one full run in which every gate passed.

### Other components
- Dashboard and product feed: readers of the publication head.
- Scores, patterns, themes, calibration curves, the commercial API, the drafting of
  social content: see "Not modelled, and why".

## The modules

### LeaseRecord, PipelineLease
The abstract record has neither clocks nor locks: a generation begins, and ends the
one that is still held as abandoned; a held one publishes, or ends with an outcome.
`PipelineLease` implements it (`ImplementsRecord`): `Holder` is the owner of a running
row, `acquire` is `Begin`, `finish` is `End`, a fenced commit is `Publish`, and all the
rest, waits, heartbeats, expiries and crashes, is a stutter.  With `LockIsEnough`, an
`assert_owned` that does not look again after its wait, a superseded owner publishes.

One scope.  `row` is its table row; time is the database's, kept as the time
*left*, so `Tick` is the only action that needs a clock.  A statement that may
wait for the row's lock is two steps, a scan and an effect; `fresh` says the row
scanned has not been changed since, in which case PostgreSQL does not evaluate
the condition again.  `Crash` drops an owner's sessions and its `Lease` object.

`MCPipelineLease` (two owners, lease lengths 1 and 2, three generations) covers
an expiry, a takeover while the old owner waits or holds the lock, a takeover
from the new owner, and heartbeats that wait across each of them.  A third owner
adds no new kind of conflict: the row has one holder, and the loser's steps do
not depend on who the winner is.  The run assumes WF of `Tick` only: the database
clock moves whatever the processes do.  `OrphanLapses` then says a dead owner's
lease lapses.  It would fail if a heartbeat did not compare the generation.

The model has a behaviour that the source's docstring excludes: a heartbeat that was
found live, waited behind its own owner's fenced transaction, and revives the lease
after its expiry.  Only that owner's own lease can be revived, which is why the
fencing properties still hold.

### PublicationRegister, PublicationControl
The abstract register holds a publication or nothing, and only a new complete
publication replaces it.  `PublicationControl` has one action per transaction of
`control_plane.py`, and one per statement of `publish`, since each statement
sees what others committed meanwhile.  A dataset is its set of rows and a row is
its symbol: hash and count stand for the content, so listing and verifying are
compared by content.  A `dataset_version` that a filter pass changed is locked
until the commit.  `Expire` is the passing of time for one symbol.  `after`
keeps the only thing `validate_stages` needs of the stage times: who had
completed when a stage began.  The order in which stages begin is the shell's
(`&` and `wait_stage` in production.yml) and is left open: the contract of
`stage_contract.py` is a second statement of it, and the publication relies on that one
(`PublishedInOrder`).

Two constants describe the environment.  `Serial` is the workflow's concurrency
group; `Reruns` says whether a stage is begun again, which the functions allow
and the workflow does not do.

- `MCPublicationFresh`: one run, three passes, three non-critical symbols that
  may expire in any order plus a critical one, a signal dataset, one that
  repeats its symbols, one that is neither.  Three passes need three expiries.  Two
  stages begin in any order and run beside each other; one is the other's parent.
- `MCPublicationSeed`: three runs, so that a run can be overtaken by two
  publications.  One stage, without a parent: it seeds, writes and passes; the order of
  stages is the other run's.  Checks the
  refinement (`Published` is the view of readers) and `NothingCarriedBack`, which
  rests on the concurrency group alone: with `AnyRunner` TLC shows a run seeded
  from a replaced head.

Both have `Reruns` FALSE.  With it, a stage that is begun again rewrites the rows
of a published version: neither `stage_started` nor `write_dataset` asks for the
run's status.  The theorems say which properties do not depend on it.

### ProductionWorkflow
The exchange calendar is a parameter: the last completed session at each time
and the times at which another run still fits.  A run's steps are those that
read a clock or decide something; all the stages in between are one.  `failed`
is a history variable for `FailuresBounded`, `dropped` one for `NeverStranded`: the run
was cancelled, or its `gh workflow run` failed (`QueueFails`).

`MCProductionWorkflow` has two days of six ticks and the morning of a third,
three cron requests, two recoveries (the code's three only lengthen the same
chain), cancellation and a request for the successor that fails; a day has room for a success, a failure and its
recoveries in either order, and the nights lie between days so that runs can cross
them.  It assumes WF of `Tick` and of `RunStep`: stages and the job have time
limits.  The model's time ends while a run still fits, because otherwise every
session's end would make `NeverStranded` true.  A job that reaches its limit counts
as cancelled and does not continue the chain, which the workflow accepts; nor does
one whose last step cannot reach GitHub.  The next request of cron does.

### SnapshotReads
Transactions have ids in the order of their first write; a boundary is a time and
the `low:high:active` triple of `pg_current_snapshot`.  The statement's
timestamp and the snapshot are taken one after the other (`State`, `Pin`), so a
commit may fall in between.  `shown` is a history variable: what the database
showed the capturing transaction, in its own snapshot.  `Observe` may carry any
time up to the server's (`ingested_at` is the fetch's time, not the commit's).

`MCSnapshotReads` has two writers, two instruments, two symbols, two
transaction ids and three rows: two transactions that overlap the capture from
either side, and a rename or deletion together with an observation of each.

### SignalLifecycle, SignalWorker
The state machine is kept as the code's cascade, over a snapshot's facts (a
breach, the target, the trigger...) instead of prices; `Legal` is what the
architecture document promises of a path.  A worker's cycle is cut at each
database or network call: `Poll`, `Reduce` (the whole `update_state_events`
transaction), `StartRoute`, `Send`, `Save`; `Abandon` is the exception or the
end of the process, anywhere.  `inbox`, `repeats` and `failed` are history.

`MCSignalWorker` has one signal, two interchangeable workers that both send to
Telegram, three snapshots and the snapshots that end a trade: two workers can
reduce the same bar, an older bar after a newer one, and save over each other's
document.  Signals do not interact in the reduction, so one is enough for the
safety properties; `MCSignalWorkerLive` has two because a batch can bring both.
Its fairness: a worker begins cycles (`run_forever` waits a bounded time), and a
call that is made again and again is answered now and then (SF; a cycle may be
abandoned, but not always at the same point).  `Faults` is FALSE there: with
failures an audit insert can be lost for good, because the event is not reduced
again.  For the same reason an alert whose send raised is never offered again.

### OutcomeBook, OutcomeLedger
`OutcomeBook` is the promise: per signal an entry time and an outcome, either of
which may be booked once, the outcome closing both.  `OutcomeLedger` has the
market (`NextBar`, `Quote`, `CloseDay`), the worker's cycle (`Poll`, `Reduce`,
`Load`, `SaveObserved`), the resolver's (`Collect`, `Load`, `SaveResolved`) and
`Abandon`, the exception or the end of a process at any step.  `tape` is what the
provider shows of a signal and `daily` what the warehouse holds; the engine's
state and the recorded events are as in `SignalWorker`, without alerts.

Prices are replaced by what decides: a snapshot's facts, and whether a daily bar
touches the stop, the target, both or neither.  A record keeps *which*
observations counted for its excursions (`path`) instead of their maximum and
minimum, so that `NoLookAhead` can ask where each of them came from.  Time is in
slots, so that a daily bar (stamped with midnight) and an intraday row are ordered
as their timestamps are.  Histories are complete up to the last closed session or
absent; holes inside a history, bars without prices, and records without a usable
entry trigger, stop or target are not modelled.

`Serial` is production.yml's concurrency group, together with the daily lane that
runs the worker and then the resolver; docs/V4_ARCHITECTURE.md calls a permanent
worker single-instance.  The code has nothing else that keeps two runs apart:
`append_state` orders saves but does not notice that the document has changed
since it was loaded, and with `AnyTime` in place of `MayStart` TLC shows a booked
ending that is overwritten.  Records only meet in the document's saves, so one
signal is enough when runs are serial.

`MCOutcomeLedger` has four sessions and a window of two for the code's five, so that
trades are resolved inside, at the end of, and after the window; two rows per signal
and two slots per day (midnight and one bar, which can be read again).  Processes may
stop anywhere.

Deadlock is not checked in any run: every model ends at its bounds (the clock, the
number of runs, the market), where the system would go on.

### Ingestion
Bar b is closed at time b and an answer given at time t holds bar t + 1 as it looks
so far.  The main thread is cut where `ordered_prefetch` and `refresh` test or wait:
`Submit`, `Collect`, `TakeChunk`, `Drain`, `Commit`.  A provider thread is one
`Answer`, with rows from any bar on, or none.  A commit may fail before or after it took effect, and
the deadline may kill the process anywhere.  `store` keeps of a version only whether it is final and
from which bar its answer began.

`UnfinishedIsRevised` speaks of the step that stores a later bar, not of the rows in
the store at some later time.  As a state invariant (no unfinished row is older than
the newest one, but for an answer that began late) it holds while there are only a few
bars, and is false in general: the newest bar may come from an answer that began late,
and the next answer begins at that bar and leaves the gap behind it.

`MCIngestion`: three symbols in chunks of one, one worker, a flush at two, a period of
two bars, two processes one after the other.  One worker and chunks of one are enough for the
lookahead limit to bind, because the limits are relative to both.  The flush at two
leaves a tail batch.  Fairness: the main thread runs, and every provider call ends
(`download_symbol` bounds its retries); `Kill` and `CommitFails` are not fair, so
`RefreshEnds` does not lean on the deadline.

### MarketClock, WarehouseGate
`MarketClock` is the calendar and the freshness rule over any set of sessions.  The
gate's run is five steps (capture, coverage, snapshot, loading, validation) between
which the clock moves, rows are ingested, the universe is planned again and the gate
crashes.  The hash in the snapshot is the evidence itself.

The five tiers of `build_tiers` keep what tells them apart: the universe (`Master`; `Core`
and `Theme`; `Strict`, the core and the rotation's required symbols; `Theme`; the frozen
live universe), the time frame, the share of symbols, the number of bars and the age.
The gate counts all rows up to the boundary.  A consumer reads the rows of its period
(`Since`, `InPeriod`), refuses a symbol with a gap, judges daily bars by the run's start
(`OldFor`), and then either raises for one bad symbol (`Provide`, for `provide`, `history`
and complete `frames`) or leaves it out (`Frames`).  What the gate promises is therefore
said per consumer:

- `RotationServed`: a strict intraday read of critical symbols gets all of them;
- `RankingServed`: so does a strict daily one;
- `ThemesServed`: the themes keep their share, unless one of them has a gap in the
  period, which the tier tolerates and `provide` does not;
- `DiscoveryServed`: a batch of the daily universe gets every symbol the gate has counted.

Each is under `Reaches`: the period goes back to the last completed session.  Three
calendar days from the morning after a long weekend do not, and the discovery's read
of the benchmark (`broad_breakout.py:68`) is then empty until the first bar.

`MCWarehouseGate`: days of five bars with a session of three, three sessions and a day
without one; three symbols: one of the core, which the rotation requires, one theme,
and two in the master universe.  Thresholds of 100, 50 and 0 percent, ages of one and two bars, periods of
two days and of one.  The run starts while a
session is open, over a warehouse in which one bar may be missing or invalid; one row
arrives late, the gate runs twice, and the clock ends on the day without a session.  So
the rows age over an open session, its close, and into that day, and the gate passes with
a stale theme, a theme with a gap, a gap in the master universe, and an invalid bar that
only the period cuts off.  With one theme its tier can only tolerate none or all (0
percent).  The next morning is beyond the clock; `StaleStays` and `OnlyAges` cover it.

### CatalystWarehouse
Two styles of writing.  A bulk writer holds the locks of all tickers and events in one
transaction; a ticker writer has one transaction per ticker.  `keys[w]` is the set of
locks a transaction has yet to take, and each step takes one that none of the others
precedes (`Due`).  The code sorts in `catalyst_bulk` only: there batch locks come first,
then event locks by number.  A ticker's transaction takes its batch lock and then the
event locks in the order of the provider's answer (`Precedes`), which may be any; it is
the batch lock that keeps two of them apart.  `rev` and `check` are in the order in
which they became visible, so a boundary is a time and two lengths.  The unique index
on active revisions is in `Commit`.

`MCCatalystWarehouse`: two writers (interchangeable), two tickers with one event each,
dates that leave the consumer's window, three revisions, one boundary.  A circle of two locks
needs two keys of each kind, which two tickers give.  Several events of one ticker,
and the order of an answer, are the proof's.

### The decision plane
`DecisionPlane` has one instance of six modules that share no state.  `Init` picks a
lane and only its component moves: the state graph is the disjoint union of six, so
that one run answers for the components that decide from published inputs.

- `ModelCutover`: a production chain, stage by stage, and an operator.  State documents
  outlive a failed run; records appear with the publication.  Metrics and fits are
  abstracted to which rows they use.  Six sessions, a horizon of two, one failure and one
  order: enough to record, label, fit, publish, activate, degrade and roll back.
  Fairness: a run that has started goes on or fails (`RunStep`).
- `PaperBooks`: a behaviour keeps one of four books.  Time is in bars, of which the
  first of a day is before the open; a bar is known by the levels its range touches.  Three days with
  a weekend, two runs that may be lost between two saves, delayed bars, histories that
  are not available and come back, between days and within one (`Refresh`).
- `TradeDesk`: a monitor cycle saves states, log and journal one after the other and
  may stop in between; the alert stage sends before it saves.  The observed rows
  are one for each branch of `_derive_state`.
- `CriteriaResearch`: cohorts for, against and above the criterion, or none; six
  sessions, so that a proposal is made, frozen, judged and met by later sessions.
- `PaperAllocation`: all sequences of up to four rows out of eight that meet each limit.
  The allocator's loop is one step per row.
- `PilotReview`: every record with the statuses that its stage may report, full and
  live runs, failures.  A live run copies the published records and writes the paper
  validation and the outcome ledger anew, in either order (`LiveRecords`).  At most one record falls short of its best (`MaxShort`), which is
  enough to show that each gate is needed.

## What is proved

The theorems hold for every value of the constants under the named assumptions;
TLC evaluates those in each run.

- `PipelineLeaseProofs`: the invariant joins the type invariant, the history and
  the fence with what they need: no token is ahead of the row's generation, a
  token of the current generation belongs to the row's owner, a waiting
  transaction that is still `fresh` was checked against the current row, and
  `committed` is behind any lock holder's generation.  From it: `HistoryIsExact`,
  `FenceHolds`, `FencedCommits`.  `RecordKept` is the refinement of
  `LeaseRecord`, one case per action.  `OrphansRunDown` is the safety under
  `OrphanLapses`: a live lease whose owner has lost its token stays orphaned, keeps its
  generation, is never extended, not even by a heartbeat that was waiting, and is
  shorter after every tick.
- `PublicationControlProofs`: `TypeCorrect` and `Finished` need nothing more.
  `Completeness`, `Ordered`, `Exclusion` and the refinement `Refinement` are proved under
  `~Reruns`.  Their invariant says that a validated transaction has only passed
  stages, each begun after its parents, hence none begins again and nobody writes its run's versions any more; that from the list
  on, what the transaction holds is what the versions are apart from the filter's
  own changes; and that a published run has no running stage and no transaction.
  The refinement then has one step: `PublishCommit` maps to `Publish`, every
  other action to a stutter.  `NothingUndone` (`NothingCarriedBack`) needs `Serial`,
  the workflow's one runner at a time, and no more: what the live run still carries
  equals what the head holds, because the head changes by that run's own commit only.
- `ProductionWorkflowProofs`: for every calendar, the head's daily artifacts
  stand for its T0's session.  The invariant carries the same for the run in
  progress, phase by phase, using only that completed sessions never go back.
  `failed` is bounded through the attempt number of the run and of the pending
  request.
  `ChainEndsWithSession` (`NoLateSuccessor`) needs only that recovery tests the
  closing buffer again after its sleep, and that a run after a success is queued by
  the same test.  `SuccessorNotDropped` is the safety under `NeverStranded`: inside the
  window no step drops a successor that a finished or a sleeping run owes, unless the run
  is cancelled or cannot queue it.  A sleeping
  run has a recovery left (`Counted`), so that what it queues is a request.
- `SignalWorkerProofs`: the log is a path because the state document and the log
  change in one transaction; an event in `seen` has no second transition; a
  transition is in the hands of at most one worker and, once it was sent, is in
  nobody's list, whatever the dispatch document says.  That, not the document,
  is what makes `SentOnce` true.  `AlertsAreRecorded` says that nothing is audited,
  sent or tried that is not in the log.  `CarriedToTheAudit` is the safety under
  `EveryMoveAudited`: without faults a recorded entry or ending is in the audit, or in the
  hands of the worker that recorded it and has yet to route it.  It leans on
  `MarkedIsDelivered`: routing skips an alert only if its mark is true.
- `OutcomeLedgerProofs`: `TypeCorrect` carries along that a row in a worker's
  hands is on the tape.  `BookKept` shows, under `Serial`, that `OutcomeLedger`
  implements `OutcomeBook`.  The type invariant is not enough for it.  `Alone`
  and `Fresh` say that the loaded copy is still the document.  `AtRest` and
  `Decided` tie a transition in a worker's hands to the engine's state.  `Sealed`
  covers the one case the handlers do not guard: `observe_many` would book an
  entry on a closed record, but only a trade that ended without an entry is
  closed and not entered, and the engine, which ended it, never leaves a terminal
  state.  `WalkedType` gives the case of the resolver: it closes, and only an
  entered, open trade.  `EvidenceHonest` (`NoLookAhead`) and `FirstBarDecides`
  (`FirstTouch`) need more, `EvidenceInv`.  The days counted for an open trade are
  quiet up to the last of them, so no later resolution can find an exit before
  them.  A row that enters or ends a trade is live, and it was polled in a session
  of which no daily bar has counted; a session may close while the cycle is half-way,
  but the resolver cannot have run.  `HonestStays` says that the market only appends.
- `WarehouseProofs`, the gate.  `StaleStays` is about the freshness rule alone, for every set
  of sessions: what is stale stays stale one bar later, at an open, at a close, over
  nights and days without a session.  It needs the age limit to be shorter than the
  time from midnight to the next open and a day (`AgeIsIntraday`; the code's limits
  are 20 to 120 minutes).  With more, a bar of the last session would be stale at
  night and fresh again in the morning.  `OnlyAges` (`InputsOnlyAge`) applies it to
  the evidence in a snapshot, `FreshPublication` is `PublishedOnFreshInputs`.  Their
  invariant says that rows end before they are stored, that no row is stored under a
  frozen boundary, and that the evidence, the snapshot and what the publication check
  has in memory are each what is found at their own boundary.
  `GateServes` (`ConsumersServed`) adds to it that a passed snapshot's tiers pass on what
  is found at its boundary (`ServeInv`), and is proved under `AgeIsIntraday`.  Gate and
  consumer have to agree although they compute differently.  A symbol that the gate
  counts is fresh, so its newest bar is of the last completed session or later
  (`FreshReaches`), and a period that reaches that session has a row of it; its rows
  are valid in the period because they are valid without it; and the daily bars are not old
  by the run's start, whose completed session is not after the capture's (`UsableFits`).
  A tier of 100 percent counts all its symbols (`StrictUsesAll`), so a strict read of any of
  them raises for none (`StrictFits`); the tolerant tiers give the share (`ThemesServed`) and
  the counted symbols of a batch (`DiscoveryServed`).
- `WarehouseProofs`, the refresh, for every universe without duplicates, size of chunk
  and batch, number of workers and order of the answers.  `IngestInv` ties memory to
  the store: `HeldIs`, the rows in the batch are those of the answers from the watermark on;
  `WatermarkHolds`, a watermark is the newest stored bar of its symbol until
  its chunk is taken, and still while that chunk's rows wait in the batch;
  `TakenIsKept`, a closed bar that was taken is final in the store or in the batch;
  `AllTaken`, the end is reached with nothing held.  `AvailableMeansStored` follows
  from the last two.  `RevisedInTime` (`UnfinishedIsRevised`) follows from
  `HeldIs` and `WatermarkHolds`: the batch that stores a later bar holds the newest one as
  well, unless the answer began after it, and final, since the answer reached beyond it.
  Two theorems are the safety under `RefreshEnds`.  `SomethingToWaitFor`: a fetching
  refresh has a chunk to take, a task it may submit, or an answer to wait for; the task
  of the chunk it waits for is never held back, because earlier tasks are of no later
  chunk and the lookahead begins at that chunk.  `RefreshIsFinite`: `StepsLeft`, a natural
  number, gets smaller with every step but the passing of time and the beginning of the
  recovery, of which there is one.
- `DecisionPlaneProofs`: each component has an invariant of its own; the lemma
  `Composition` (a behaviour of the plane is one of each component) brings them together.
  - `CriteriaResearch` (`FutureOnly`, `VerdictsStand`): what was known at the registration is
    not after `after`, and the published record is at most one run behind the
    challenger's document.
  - `TradeDesk` (`AnnouncedOnce`, `OutcomesAreOfEntries`): a delivery is one that the log or
    the running stage knows of, or one of a stage that stopped (`Accounted`); the
    entry of a signal is in the journal, is about to be, or its cycle stopped (`Booked`).
  - `PilotReview` (`PacketsAreWhole`): gate by gate, what a record's status says of the
    records it was computed from (`Linked`), and that a head has the records of one
    full run but for the two that live runs renew, of which the ledger keeps its rows (`Whole`).
  - `ModelCutover` (`CohortsAreImmutable`, `LabelsAreSettled`, `ServedStays`): a label in reach
    was measured on the first sessions after its cohort, all of them past (`Labels`);
    another measurement of the same sessions gives the same.  `RolledBackAtPublication` is
    the safety under `DegradedIsRolledBack`: a run with a monitor or an evidence record other than
    HEALTHY leaves the cutover in shadow when it enforces its verdict, because the verdict
    was made from the records it will publish (`VerdictOnWork`); until it is published only an
    operator's activation changes that.
  - `PaperBooks` (`FirstTouchIsOutcome`, `HoldingPeriodsEnd`, `SelectedOnce`): a trade is open as
    long as no saved run had a touch of it in view (`NothingMissed`), and a closed one was
    closed by a run that is over (`ClosedByThen`), so that whatever later runs
    see is not before that.  Since the challenger saves twice, `Selections` counts: the
    trades of a day are at most its torn runs, and one more once its decision is saved.
  - `PaperAllocation` (`OnePassIsEnough`): the invariant of the pass (`PlanInv`) has the
    sum of the risks of the rows taken, the limits they keep, and that every ranked row that was
    looked at could not be given one more share (`Blocked`): by itself, or by what was taken before or
    at it.  That does not pass, since each row taken only raises the sum and the counts
    (`ConsiderStep`).
    The sum over a sequence is a recursive function of its length; that such a function exists
    is an induction over numbers, which `SumsExist` makes with the set of lengths for
    which it fails and its smallest element.
- `BoundaryProofs`, the warehouse: a read at a pinned boundary is what was shown.  The
  invariant says that a transaction counted as visible had committed at the
  capture and that rows of such transactions are complete: new rows belong to
  transactions that are open or come later.
- `BoundaryProofs`, the catalyst plane, for any finite sets of tickers and events and
  any number of writers.  `CatalystInv`: the locks a writer holds and those it still
  wants are those of its transaction, and each held one precedes each wanted one
  (`LocksOrdered`); a writer holds the revision it read with a knowledge time not
  before it (`RevisionRead`); only the last revision of an event is active
  (`LastIsActive`); the events of a check have a revision, at every boundary that
  shows the check (`ChecksBacked`).  Mutual exclusion over a read revision is not in
  it: a commit whose revision has been superseded meanwhile is refused by the unique
  index, and that is enough for `HistoryHolds` (`HistoryContiguous`) and `ChecksAreEvidence`
  (`ManifestReadable`).  `AnswersStay` (`BoundaryStable`) holds because a commit appends
  behind what the boundary's snapshot shows and changes of the rows before it only
  their `known_to`, which a read at a boundary does not look at.  `NoCircle` (`NoLockCycle`) has two arguments, as the code has: in bulk
  style the greatest key that is waited for has a holder that waits for a greater one;
  in ticker style one who waits for an event's lock holds the ticker's batch lock,
  and so nobody else is between these two locks.

## Only model-checked

Liveness, which is out of the prover's reach.  For each of the five properties the
safety it rests on is a theorem; what is left to TLC is that fairness turns it into
progress, on the instances of the runs.

| Property | Proved | Left to TLC |
| --- | --- | --- |
| `OrphanLapses` | `OrphansRunDown` | the database's clock ticks |
| `NeverStranded` | `SuccessorNotDropped` | time passes and the runner goes on |
| `EveryMoveAudited` | `CarriedToTheAudit` | a worker that has reduced goes on to route |
| `RefreshEnds` | `SomethingToWaitFor`, `RefreshIsFinite` | the main thread and the provider's calls go on |
| `DegradedIsRolledBack` | `RolledBackAtPublication` | runs start and go on |

The theorems without a run (`HistoryIsExact`, `FenceHolds`, `FencedCommits`, `Finished`,
`BoundedRecovery`, `FrozenWithBoundary`, `LifecycleIntegrity`, `Idempotence`,
`AlertsAreRecorded`, `StaleStays`, those of the table and the type
invariants) state what the ones about the runs' properties rest on.

## Where the documents differ from the code

Met while modelling; the models follow the code.

1. A heartbeat that waited behind its own owner's fenced transaction revives an
   expired lease; `pipeline_lease.py:3-4` says it cannot.
2. An alert whose send raised is never offered again, since its event is recorded;
   `V4_ARCHITECTURE.md:99-100` calls failed channels retryable.
3. The resolver ends a trade without telling the engine, whose next transition
   changes `current_state` of a closed record; `V4_ARCHITECTURE.md:48` calls the
   terminal states final.
4. Rows of sessions after a late resolved exit stay in MFE/MAE;
   `V4_ARCHITECTURE.md:158` says they stop at the exit.
5. A bar that closes while its chunk is on the way is stored as it was before its
   close; `warehouse_refresh.py:93` says such bars are never kept.  The batch that
   first stores a later bar of the symbol revises it (`UnfinishedIsRevised`).
6. News is collected 72 hours back and read 48 hours back: an event in between makes a
   fresh clean check unavailable, which `gate3-catalyst-fastio.md:28-29` does not expect.
7. The models are fitted before the stage that writes the daily snapshots they are
   meant to be fitted on (`V4_ARCHITECTURE.md:391-392`), so they never are.
8. Manual activation reads the model again after the evaluation;
   `V4_ARCHITECTURE.md:344` says it copies the eligible one.
9. No worker reads the cutover's state; `V4_ARCHITECTURE.md:302` says it loads the
   active model.
10. `performance.py:37` counts `INVALIDATED` as not entered; the monitor writes
    `PRE_ENTRY_INVALIDATED` for those rows.

## Not modelled, and why

At the edges of what is modelled:

- Reads that the gate does not vouch for.  The live discovery (`broad_breakout.py:86`), the
  members of `sector_rotation` and the catalyst adapters read the live universe at 10
  minutes, in batches, leaving bad symbols out, while `LIVE_INTRADAY` passes at 15
  (config.py:84-88): no service is promised to them, and a batch without any fresh
  symbol raises.  Nor is one promised to the strict reads of candidates that were taken
  from lenient ones (`main.py:366`, `momentum_signals.py:128`).
- The backfill of the benchmark inside the live ingestion (`live_ingestion.py:115-131`), a
  refresh of its own before the one in `Ingestion`.
- Bars in view of `PaperBooks` are complete; an unfinished one that is revised later
  (`UnfinishedIsRevised`) is not.
- `CriteriaResearch` is fitted on daily cohorts alone, not on the trigger outcomes of
  `v4/evidence.py:80-108`; those it would add precede the registration.

And elsewhere:

Formatting, hashing (a hash is its content), SQL retries, pool size, the 20 000
entry bound of the dispatch document (an entry is never looked up again), clock
skew between runner and server, provider back-off, `migrate` (it runs before
anything else, under an advisory lock), health observations (written, not read
by a decision modelled here).

- Scoring, pattern, theme and calibration models, `legendary_agents`, and the
  classification of catalysts (`v4/catalysts.py`): floating point and text over one data frame, with no
  state between calls.  `ModelCutover` has when they are fitted, published and used.
- `daily_repair` and the OHLCV quality rules: numeric work inside one chunk or one row.
- The commercial API: it reads one exported file and keeps nothing between requests.
- The drafting of social content: formatting; its health record is in `PilotReview`.
- The WARM rotation of the V4 worker and its back-off: which names are polled is a
  choice in `SignalWorker`.
- `app.py`, the dashboard: it reads the publication head, as `PublicationRegister`'s
  readers do.

## What is left

- Liveness of the WARM rotation: each name is polled within a bounded number of cycles.
- `CatalystWarehouse` as a refinement of the repeatable read of `SnapshotReads`.
- A bound on the steps of a publication transaction and of a worker's cycle, as `StepsLeft` is
  one of a refresh.
