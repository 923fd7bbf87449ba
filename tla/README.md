# Verification of QASight

QASight runs test cycles (pytest, Behave, Playwright, ...), records their results and serves
them on a dashboard. Two packages carry its logic: `qasight` (the engine, the services and
the command line) and `qasight_api` (the server). This folder holds TLA+ models of the parts
where processes, threads, crashes and timeouts meet, their TLC runs, and TLAPS proofs.

    tlc -workers 2 -config leases.cfg MCLeases   # any run: its cfg and module are in PROJECT.json
    tlapm LeaseProofs.tla                        # proofs; so do the other seven *Proofs modules

| run | module | what | distinct states | ends |
|---|---|---|---|---|
| `leases` | `MCLeases` | leases, section 3 | 870,326 | no error |
| `leases_served` | `MCLeases` | liveness of leases, 3 | 13,424 | no error |
| `leases_default` | `MCLeases` | the default timings, 9 |  | violated, as section 9 says |
| `executions` | `MCServer` | the server, 4, and what runs beside it, 7 | 244,849 | no error |
| `executions_cancel_race` | `MCExecutions` | 9 |  | violated, as section 9 says |
| `events` | `MCEventStream` | the event stream, 5 | 145,057 | no error |
| `events_overrun`, `events_redacted` | `MCEventStream` | 9 |  | violated, as section 9 says |
| `stages` | `MCPlanRun` | a run of stages, 6 | 217,051 | no error |
| `parts` | `MCParts` | twenty-two parts without shared state, 8 | 2,576,970 | no error |
| `upgrade_race`, `page_outcome` | `MCParts` | 9 |  | violated, as section 9 says |

Contents: 1 inventory, 2 plan, 3 leases, 4 executions, 5 event stream, 6 plan runs, 7 beside
the executions, 8 parts, 9 where code and documentation disagree, 10 what is not modelled.

## 1. Inventory

**Lease store and lease client** (`qasight/resources/store.py`, `client.py`). A *resource pool*
is a list of keys (accounts, devices, ports) that test processes share.

* State: the tables `resource_lease` (a row per held key, with `expires_at`), `resource_waiter`
  (the queue, with a heartbeat) and `resource_item` (`disabled`, `clean`); in each client its
  thread, its heartbeat thread and `HeldLease.lost`.
* Operations: `take`, `heartbeat`, `release`, `leave`, `set_disabled`, `force_release`; on the
  client `acquire`, `HeldLease.release`, the heartbeat loop and the hooks.
* Interaction: only through the database, or the team server in front of it. Nobody holds a
  database lock while a test runs; a lease is a row with a time to live.
* Hard: several transactions per call, hooks that outlast leases, clients that die or freeze,
  heartbeats that fail, administrators that take keys back.
* Correct when: a key has one user; a clean mark is true; a living holder keeps its key; a
  lease that ran out stays out; the queue is fair; every request ends.

**Execution manager and run queue** (`qasight_api/cycle_execution_manager.py`, `run_queue.py`).

* State: `_states`, `_active_by_cycle`, `_finished`, the FIFO; per execution `status`, `done`
  and a stop switch; with `TESTO_RUN_QUEUE=db` the table `queued_run`.
* Operations: `create_execution`, `cancel`, `recover_queued`, the worker loop, `_finish`.
* Interaction: request threads and worker threads of a server, other servers on the same
  database. A run itself is `CycleRunService.run()`.
* Hard: registration, row and FIFO entry of one execution are three steps; a cancel races the
  worker and the writer of the row; a restart queues rows again.
* Correct when: a cycle has one run at a time on a server; no execution starts twice; an
  accepted one survives a restart; a cancelled one never starts; cycles are freed.

**Live event stream** (`qasight_api/execution_events.py`). One file of events per cycle,
appended by every run of the cycle and rewritten by redaction; a viewer tails it from the offset
where its run began to the one where it ended. Hard: evictions, the next run, lines half
written. Correct when a viewer gets the events of its run, all, in order, and nothing else.

**Orchestrator, executor, stop switch** (`qasight/engine/orchestrator.py`, `executor.py`,
`interrupt.py`). Run the stages of a plan in sequence or in a pool, with `fail_fast`, timeouts
and a stop scope that signals every registered process. Hard: a stop that comes while a process
starts, ends or is recorded. Correct when no process escapes a stop, no run is left with
processes, and what is recorded fits what ran.

**Cycle lock and run marker** (`qasight/engine/cycle_lock.py`, `history/maintenance.py`).
`flock` on a file whose text is the marker of the run that holds it; a marker that is left over
stands for a run that died, and is recorded as failed by whoever locks next, or by the server
when it starts. Hard: crashes between recording and clearing. Correct when runs of a cycle do
not overlap and a dead run is recorded once.

**Cycle run** (`qasight/services/cycle_run.py`). Trigger, lock, run, reports, archive, issues,
quarantine, trigger snapshot, in this order. Hard: what the trigger looked at may change before
its snapshot is stored.

**Runner service** (`qasight/engine/backends/runner_service.py`, `container.py`). Stages in
containers behind HTTP: a bounded number of slots, frames with heartbeats, signals by run name.
Hard: a signal for a run that still waits for a slot, an idle timeout while nothing is sent.

**Run history** (`qasight/persistence`, `history/`, `repository/`). A run is a row, a snapshot of
its results, metadata and test rows, written one after the other; retention and people delete
runs; a backup reads the tables one by one and then the folders; processes that start together
upgrade the schema together. Hard: a crash between any two writes, a row deleted while
somebody holds what he read of it. Correct when a row points to a whole copy, the newest runs
stay, a deleted one does not come back, a backup restores what was settled when it was taken.

**After a run: quarantine, flaky issues, alerts** (`services/quarantine_store.py`,
`flaky_service.py`, `flaky_issues.py`, `run_failures.py`, `run_alerts.py`; the GitHub action;
`reporting/reporters/reportportal*.py`). Passes over the history that read, decide and write
outside the lock of the cycle, to a table, to GitHub, to ReportPortal. Hard: passes of two runs,
an answer that is lost, an error in the middle. Correct when the verdict on a test follows from
its own runs, a test has one issue and a cycle one comment, and what was published is true.

**Before a run: triggers, watch, selection** (`config/triggers.py`, `cli/commands/watch.py`,
`services/affected_tests.py`, `test_split.py`, `failed_first.py`, `pytest_plugin.py`). Correct
when no change is left untested and the shards of a matrix run each picked test once.

**What a stage says** (`engine/log_buffer.py`, `crash_signatures.py`, `quarantine.py`,
`exit_codes.py`, `reporting/junit_import.py`). Output in chunks, crashes found in it, the waiver
of quarantined failures, reports written elsewhere. Correct when a failure is never told as a
success and the exit code says the worst that happened.

**Accounts and sign-in** (`qasight/accounts.py`, `qasight_api/security.py`,
`login_throttle.py`). Rows, cookies that carry a tag of the row, windows of failed sign-ins.
Correct when a change of an account signs its user out and nothing else does, and failures
beyond the limit are refused.

**Commands with keys** (`cli/commands/lease.py`, `pool.py`, `resources/provider.py`). A command
that holds a key while another process runs, and commands that make and destroy keys.

**The run page** (`frontend/src/features/execution`). A stream, polls and a cancel whose answers
may be about another run. Correct when the page shows the end of the run it names.

**Pure functions and presentation.** `if:` expressions, plan resolution, formats, analytics,
digests, other views: no protocol state. `PROJECT.json` lists every component, and under
`hazards` what is hard to test in them, line by line, with the properties that watch it.

## 2. Plan

The order is by what a mistake costs the user: wrong test results first (two tests on one
account), then lost or doubled runs, then what the user is shown.

| # | module | models | abstract specification, proofs |
|---|---|---|---|
| 1 | `LeaseStore` | the tables of leases and each transaction on them | types proved |
| 2 | `LeaseClient` (extends 1) | all clients, with hooks, heartbeats, crashes, time | `KeyPool`; `LeaseProofs`: safety and refinement |
| 3 | `Executions` | execution manager over the run queue, one or more servers | `ServerProofs`: safety |
| 4 | `EventStream` | the events file, its writers and its viewers | `RunFeed`; `EventProofs`: safety and refinement |
| 5 | `PlanRun` | a run of stages and the stop scope | `PlanRunProofs`: all its safety |
| 6 | `CycleLock` | flock, marker, recovery at startup, crashes anywhere | `LockProofs`: safety |
| 7 | `RunnerService` | slots, containers, heartbeats, signals by name | `RunnerProofs`: safety |
| 8 | `RunHistory` | run row, snapshot, test rows, retention, deletion | `HistoryProofs`: safety |
| 9 | `Backup`, `SchemaUpgrade` | copy and restore beside a live server; racing migrations | `LeaseProofs`, `PartsProofs`: safety |
| 10 | `FlakyPolicy`, `Quarantine`, `FlakyIssues`, `ActionJob`, `LaunchReport`, `RunCompare` | verdicts on tests and what is published of them | |
| 11 | `CycleTrigger`, `Watch`, `TestSelection` | which runs and tests there are | `PartsProofs`: the first two |
| 12 | `RunOutput`, `CrashScan`, `StageVerdict`, `ResultImport` | from output and reports to an exit code | |
| 13 | `Accounts`, `LoginThrottle`, `LeaseRun`, `PoolProvider`, `RunPage` | sign-in, commands with keys, the page | `PartsProofs`: `LeaseRun` and `PoolProvider` |

All of these are written and checked; the safety of 1 to 8 is proved, and so are that of their
composition `MCServer` (`ServerProofs`) and of eight parts of `MCParts` (`PartsProofs`). No proved
module, nor any that it uses, has a recursive operator.

`LeaseClient` composes with `LeaseStore` by extension: one action of a client is one transaction
of the store and the change of the client's thread. The modules from 6 on share no state with
each other or with the executions; `MCServer` and `MCParts` check them side by side, a behaviour
being one of one part. Where one is a step of another, that step is the same in both: the run
inside the lock (`CycleLock`), the run of an execution (`Executions`), the stages of a run
(`PlanRun`), the process of a stage (`RunnerService`), its output (`RunOutput`), and what is
recorded of it (`RunHistory`).

Every module has its parameters as CONSTANTS, one action per critical section, transaction,
call or system call, and those of the first five name their assumptions. Definitions whose
comment begins with "Mistake:" are not part of any specification. Each is a way the definition
after it could be wrong; with it in that definition's place, TLC finds a property violated, and
`PROJECT.json` (`mutants`) says which.

## 3. Leases: `LeaseStore`, `LeaseClient`, `KeyPool`, `LeaseProofs`

**Correspondence.** `leases[k]` is the row of key k with its lease id and `left`, the ticks until
`expires_at`; `waiters[c]` the waiter row of client c with the labels it wants, the age of its
heartbeat and who came `before` it; `disabled` and `clean` the flags of `resource_item`. A
client's thread is at `pc[c]` (the list is at the head of `LeaseClient`). `take()` is several
steps because the code is: a first transaction removes what expired, queues the caller and picks
the free keys it may have (`TakeNoItems`, `TakeLimit`, `TakeEnqueue`), then each insert is a
transaction that the primary key decides (`InsertLease`, `InsertTaken`), then the last one leaves
the queue and clears the clean flag (`Granted`). A heartbeat and a release read in one statement
and write by (pool, item) in a later one (`BeatRead`/`BeatDone`, `GiveRead`/`GiveWrite`), so
anything may come in between. `Crash` ends a process anywhere outside a transaction, and stands
as well for a release whose call failed and was only logged. `Tick` lets time pass.

**Time.** One clock, in ticks; `TTL`, `ReuseDelay`, `WaiterTTL`, `Interval` and the longest hooks
`PrepareTicks` and `ResetTicks` are constants. `Prompt = TRUE` says that a scheduled process does
before the tick is over what is due (`InTime`); with `FALSE` any process may freeze between two
calls for any time. A transaction does not span a tick, and one that fails was not committed. The
clocks of several machines are not modelled (with a team server there is one, the server's).

**Runs.**

* `leases`: three clients, two of one account, two keys, a limit of one key per account. The
  hooks fit the lease. Checked: `OneUserPerKey`, `CleanMeansReset`, `AliveKeepsKey` (with one
  failed heartbeat in a row), `OldestFirst`, `OwnRowOnly`, and that the whole implements
  `KeyPool`. TTL 2 with a heartbeat each tick is the shortest lease that survives one failed
  heartbeat; `ReuseDelay` 1 makes the state "run out, not yet free" occur; `ResetTicks` 3 is as
  long as the lease and its delay allow. Three clients are needed so that one waits behind
  another that waits. The two clients of one account are interchangeable, hence the symmetry.
* `leases_served`: two clients, one key, fair scheduling, crashes, and an administrator who takes
  keys back and disables them: `EveryRequestEnds`, behind waiters that died, leases that ran out
  and hooks that fail.
* the part "frozen" of `parts` (section 8): any process may freeze, an administrator interferes.
  Then a key can have two users (nothing in the code can prevent it: the test does not ask before
  each use), and what still holds is `NeverRevived` (in `KeysSafe`): whoever lost a key learns it.
* `leases_default` (violated): the code's default timings, a tick being 40 s: lease 120 s, delay
  40 s, up to 300 s for each hook. See section 9.

**Fairness** (`FairSpec`). Weak fairness of each client's steps: its threads are scheduled, its
hooks have timeouts, and tests end. Strong fairness of `Tick`: time passes though it waits for
transactions to end. Strong fairness of `Settled`: a key whose hooks fail for ever is some time
disabled, because `set_disabled` does not fail for ever. Administrators stop interfering some time
(`<>[][~AdminStep]_vars`): one who takes keys back for ever keeps everybody waiting, and no
code prevents it. `Crash` and `Request` are not fair.

**Proofs** (`LeaseProofs`, for all clients, keys, labels, accounts, limits and timings; the rest of
that module is about three modules of section 8).

* `TypeCorrect` and `NoRevival` hold in every environment. The invariant of `NoRevival`
  (`AgeInv`) says that an open heartbeat session found a row that had not run out, and since no
  tick passes within a transaction the row it extends still has not.
* `Exclusive`, `AliveKeeps`, `WritesOwnRow`, `CleanIsReset` and `LeasesRefinePool` need `Timely`:
  processes are prompt, no administrator acts, `PrepareTicks + Slack(0) <= TTL` and
  `ResetTicks <= TTL + ReuseDelay`, where `Slack(b)` is the time a holder with b failed
  heartbeats may still need, `(Blips - b + 1) * Interval`. This is the condition the defaults do not meet.
* The inductive invariant `SafeInv`: whoever is between the insert and the end of the release has
  the row of its key under its own id, with at least as many ticks left as it may still need where
  it is (`Slack`), and whoever is in a transaction has ticked nothing since it read. One user per
  key is not inductive by itself: two users are excluded because both would have their id in one
  row, and the row is there because of the time left. `MarkInv` adds that a client about to write
  the clean mark has reset the key and that no other touched it.
* The refinement maps the user of a key to the client whose thread is between the end of `take()`
  and its release; every step of a client is a grant, a return or a stutter of `KeyPool`.

* `OldestServed` (`OldestFirst`) needs `OldestGoFirst`: `Timely`, finitely many clients and keys,
  and `Alike`, two clients want the same keys or none in common. TLC finds `OldestFirst` violated
  without each of them: with frozen processes, with an administrator, with labels that overlap in
  part (section 9). The argument is a count that must survive what others do between a client's
  look at the queue and its insert, two transactions later. `QueueInv`, on top of `SafeInv`, says
  that `before` is one strict order of all waiters (`Line`), that a waiter's row keeps every key it
  may have (`WaiterFact`), and that a client in `insert` still has more open keys than waiters
  before it that may take one (`Spare`). When another client inserts a key of the same class,
  either it is one of those waiters and both numbers fall by one, or the first client is before it
  and the other's own `Spare` counted it, so that a key is left over. A failed hook cannot upset the
  count because the key it disables is held (`OwnRow`), and a queue row in `insert` cannot be
  purged because no tick has passed since its heartbeat.

Only model-checked: `EveryRequestEnds` (liveness).

## 4. Executions: `Executions`, `ServerProofs`

**Correspondence.** `known`, `active`, `fifo`, `finished` are the manager's four collections,
`status`, `done`, `stopped` the fields of a state, `rows` the table `queued_run`, `todo` the rows
a restarted server has read and not yet queued. `at[s][i]` is where the request thread or worker
that has execution i is; `cancelling[s][i]` where a cancel of it is. One action is one critical
section of `_lock` or `state.lock`, one call of the run store or one operation on the FIFO, in the
code's order: `_start()` is `Create`, `AddRow` (or `AddFail`, with its undo) and `Put`; a worker
is `Pick`, `Claim`, `RunEnd`, `FinishFree`, `FinishMark`; `cancel()` is `CancelQueued`,
`CancelClaim`, `CancelFree`, `CancelMark`. `Crash` ends a process, `Restart` reads the rows,
`Recover` and `RecoverDrop` queue or drop them before requests are served. Ids are in the order
of `created_at`. `accepted`, `started`, `refused` and `told` only remember what was promised.

**Runs.**

* `executions` (module `MCServer`; the other parts of this run are in section 7): one server with
  the durable queue, two cycles, two workers, crashes, a registry of one finished execution. Two
  executions are what it takes for one to be refused, wait behind, or evict another; the registry
  of one makes evictions happen. Checked: `OneRunPerCycle`, `RegistrySound` (an accepted run is
  known or has its row until it is over; a cycle is busy only while its run is not; the registry
  forgets only runs that are over), `CancelledNeverStarts`, and `Progress` (under fairness every
  queued run gets a worker and every cycle is freed).
* the part "shared" of `parts`: two servers on one database, each of which may crash, find the
  other's rows and meet failing calls: `StartsOnce`, which rests on the delete of `claim()`.
* `executions_cancel_race` (violated): see section 9. Here clients also cancel an id that a
  refused request named (`Peek`).

**Fairness.** Workers and request threads are scheduled, and runs end: by themselves, by their
timeouts or by a stop. Crashes and failures of the database are never forced.

**Proofs** (`ServerProofs`, for all servers, cycles, workers, executions and registry sizes).

* `SafeInv` holds in every environment. It says what a server knows: nothing of an id that nobody
  asked for (`FreshInv`), nothing of an execution it neither created nor recovered (`SeenInv`), and,
  while it restores, nothing of the rows it has still to queue, which are distinct because
  `pending()` sorts them (`QuietInv`). And what a row is worth: only the server that was asked
  writes it, once, before anyone can start it (`RowInv`).
* `DoneIsFree` (`DoneFrees`): whoever is done, or about to say so, does not have its cycle
  (`GivenUp`). It is not inductive without `QuietInv`: a restart registers old ids again, and
  must not meet one that is over.
* `RunsOnePerCycle` (`OneRunPerCycle`): who is between the claim and the end of its run has its
  cycle under its own id (`OwnInv`), so two would have one entry. To be there it must have
  it when a worker takes it: who waits has its cycle or was cancelled. The theorem assumes
  `UndoSafe`: clients name no id from a 409 answer, or the store does not fail. Without either
  the undo of a failed insert frees the cycle of another execution, and TLC finds two runs of one
  cycle (section 9).
* `NoneStartsTwice` (`StartsOnce`, with the durable queue): a row is there only while the run was
  never started, and a claim takes it.
* `AcceptedIsKept` (`NothingLost`): a restart drops no row. The rows of a server that is up are of
  executions that have their cycle, one per cycle, or are still to be queued, and then their cycle
  is free (`KeepRowInv`); and it queues every row there is, a fact about sorted sequences
  (`RestoresAll`). A row goes with its start or a cancellation (`GoneRowInv`). The theorem assumes
  `Alone`: one server, a store that does not fail, clients that cancel only what they were answered for.
  Section 9 shows what happens without the last two.
* `RegistryIsBounded` (`RegistryBounded`, in every environment): whoever is over and known is in
  `finished`, and who falls off it is forgotten (`BoundInv`).

* `CancelledStays` (`CancelledNeverStarts`): only a claim starts a run, and who was told that its
  execution never starts is withdrawn (`WithdrawnInv`). With rows this is about one row: the cancel
  took it, and no server writes it again, whatever they have read of it before. In memory it is about
  one server (`MemoryInv`), whose worker passes over what was stopped. The theorem assumes `RowsGoFirst`:
  in memory, or a store that does not fail and clients that cancel only what they were answered for;
  `executions_cancel_race` shows why the last, and a delete that raises leaves the row.

Only model-checked: `Progress`.

## 5. Event stream: `EventStream`, `RunFeed`

**Correspondence.** `file` is the events file as a sequence of cells, so that an offset can lie
inside a line: a line has a head, perhaps a secret, and a newline. `startAt` and `endAt` are the
offsets the server samples, `opened` says that a state knows the path. `place[r]` is where a run is;
`Outside` are runs of the command line on the same folder, which take the lock of the cycle but
no part in the offsets. Runs in `Long` write a line in two pieces (`WriteHalf`, `WriteRest`), the
others in one (`WriteLine`). A viewer polls: `AskEnd` is `end_offset()`, `Read` or `Drain` the read
after it, two steps because the read runs in another thread. `Redact` and `Rewrite` are the
emptying and rewriting of the file by redaction, `Evict` the loss of a finished state.

**Abstract specification.** `RunFeed`: a viewer has a prefix of its run's events and the stream is
closed only when the run is over and the prefix is all of them. `FeedsTheRun` checks that
`EventStream` implements it, whatever other runs write before, between and after.

**Runs.**

* `events`: two runs of the server, one of the command line, one viewer, an event per run besides
  the error event, evictions, a secret of the first run whose mask is as long as itself: no later run
  rewrites the file (section 9 says what happens otherwise). Viewers do not touch
  anything another actor reads, so one stands for all. Two server runs are needed for an earlier
  and a later one; the third writer is the one whose offsets nobody samples. The instance stops
  when all runs are over, so deadlock is not checked.
* `events_overrun`, `events_redacted` (violated): see section 9.

Assumed: a short line reaches the file in one piece and a long one (a stage event) in two; here
the lines of the command line's run are short, and section 9 says what a long one does; only stage
events hold secrets; an exception leaves a run outside its stages, since a stage that raises is
made a result (`orchestrator.py:326`).

**Fairness.** Runs go on and end, one that waits for the lock takes it when it is free, and a
viewer that stays connected goes on reading.

**Proofs** (`EventProofs`, for any number of runs, events and viewers): `EventTypes` (`TypeOK`),
`Ordered` (`InOrder`), `OthersComeAfter` (`OthersOnlyAfter`), `RefinesFeed` (`FeedsTheRun`) and
`ClosedStreams` (`LastEventSent`).

* What the proofs are about is `Log`: the file, or, while redaction has it empty, what will be
  written back. A step changes it in one of four ways (`LogStep`): it hides secrets where they are, or
  it adds a line, the first part of one, or its end. `LogSteps` shows it of each action, and the rest
  needs only these four.
* `StreamInv` is inductive. Runs of the server follow each other (`RunsInv`). The lines are whole but
  for the one that is being written (`LinesInv`), all that a run wrote is there, once and in its order
  (`WrittenInv`), and every offset that was sampled lies between two lines, behind all earlier runs
  and, the end, behind the run itself (`OrderInv`). A viewer stands between two lines (`ViewInv`), and
  was sent exactly what its run has before that place (`SentInv`). `InOrder` alone says nothing of
  where the viewer stands: a read from a wrong place would break it.
* `Ordered` and `OthersComeAfter` assume that masks are as long as secrets (`SameSize`) and that runs of
  the command line write short lines without secrets (`PlainOutside`). The refinement needs in
  addition that only the first run of the server rewrites the file (`FirstRedacts`): `Drain` reads
  without a lock, and would find the file empty (`FeedInv`). TLC has a counterexample without each
  of the three (`events_redacted`, and two instances in section 9), so they are where the code ends to be right,
  not where the proof gives up. `EventTypes` has no hypothesis.

Only model-checked: `StreamEnds` (liveness).

## 6. Plan runs: `PlanRun`, `PlanRunProofs`

**Correspondence.** `pc` is the run's own thread in `_run_sequential` or `_run_parallel` and the
tail of `run_plan`; `step[i]` the thread of stage i in `run_stage`, `alive` its process, `rc` how
it ended, `results[i]` what the loop knows. `registered`, `count` and `sending` are the stop scope:
a request counts under the scope's lock (`Request`), later takes the lock again and signals what is
registered by then (`StopAll`). Pass, fail, missing command, timeout, stopped and internal error
are the ends the code tells apart; commands, logs, reports and coverage are left out, and so are
the quarantine waiver, the children a stage leaves in its process group, and a third Ctrl-C.

**Runs.**

* `stages`: three stages, at most two at a time or in sequence, with and without `fail_fast`, one
  stage with a timeout, launches that fail, two stop requests at any moment. Three stages are
  needed for one to end, one to run and one to wait; two requests for the second to kill.
  Checked: no process escapes a stop (`NoneEscapes`), slots (`AtMostMaxParallel`), no run is left
  with processes (`NothingLeftBehind`), what is recorded fits the stages (`RecordFits`), nothing
  starts after a failure with `fail_fast` (`FailFastStops`), a stopped run ends (`StopEnds`).

**Fairness.** Threads are scheduled, and a process that is sent SIGTERM and does not ignore it
ends. Nothing else ends a process for sure: a stage without a timeout may run for ever.

**Proofs** (`PlanRunProofs`, for any plan, any number of stages and slots, any timeouts and any
number of stop requests): `PlanTypes`, `StopReachesAll` (`NoneEscapes`), `LeavesNothing`
(`NothingLeftBehind`), `SlotsKept` (`AtMostMaxParallel`), `HistoryFits` (`RecordFits`), `FailsFast`
(`FailFastStops`). The inductive invariant ties the thread of a stage to what others see of it:
a thread that waits for its process is on the scope, and a process has a thread that can still
reap it (`PlacesInv`); a loop that runs in sequence waits for one stage, one that left waits for
none (`LoopInv`); who was aborted was asked to stop or saw a failure, and what a finished loop
left out has such a reason (`ResultInv`); slots count the stages the loop waits for, and live
processes are among these (`SlotsInv`). `NothingLeftBehind` follows: where no stage is waited for
there is no thread, hence no process. Only model-checked: `StopEnds` (liveness).

## 7. Beside the executions: `CycleLock`, `RunHistory`, `RunnerService` in `MCServer`, and their proofs

The run `executions` chooses at the start which part takes its steps; `In(p, Act)` is a step of
part p, and all other parts stay as they began. So one run checks each of them alone, under the
fairness of its own module.

* `CycleLock`. `holder` is who has `flock`, `marker` the text of the lock file, `found` what a
  process read when it took the lock, `recorded` how often a run was written to the history as
  one that did not finish. A run waits, takes, records the marker it found, empties the file,
  writes its own, runs, clears and unlocks; the server, when it starts, takes the lock only if it
  is free and records after it has given it back. Any of them may die between two steps, with
  its lock. Three runs, the server, two crashes, a run that does not persist, failing writes.
  `LockSafe`: the holder is inside and only dead runs are recorded as unfinished; every dead
  one is, unless a failed write, a run that does not persist or a death of the server lost it;
  one is recorded again only after a crash in between. `Progress`: who waits gets the lock.
* `RunHistory`. `row`, `metadata`, `tests`, `folder` are what a run leaves; `at` how far
  `persist()` is; `remover` how far each deletion is (people, the retention timer); `patch` a
  reader of metadata about to write them back; `server`, `orphans` and `reviewed` the sweep at
  start, which writes back the metadata it listed, so that a review made since is lost. Three
  runs of two cycles, two of them left RUNNING by an earlier release, one run kept per cycle,
  failing copies and deletions, a crash of each. `HistorySafe`: a row points to a whole copy; a
  copy or test rows without a row are explained by a failure or a run deleted before it was
  recorded; retention keeps the newest; a deleted run does not come back. `Progress`: in the end
  each cycle has no more than it keeps.
* `RunnerService`. `handler`, `container`, `slots`, `active` are the service, `client` the
  executor's side, `open`, `sent`, `code` the connection. Two stages, one slot, one stage that
  never ends, both ignore SIGTERM, one crash of the service with its containers left behind.
  `RunnerSafe`: no more containers than slots; an exit code is that of a stage that is over.
  `Progress`: a container without a client is stopped, a kill ends its stage, every stage ends
  that can. Docker is outside: it creates a container some time after it is asked. It is taken to
  answer: where its commands fail, a restart leaves containers behind and says so in its log
  (`runner_service.py:384`), and a kill that fails is not repeated (`:374`); then none of this holds.

**Proofs**, each for any number of runs, stages and crashes. They name what they assume of the
constants (`Distinct`, `Finite`, `Numbered`): different names for different things, finitely many
of them.

* `LockProofs`. `OneAtATime`: whoever is inside has the lock, and nobody else. `RecordsOnlyTheDead`
  needs what the file says (`MarkerInv`: the run that goes on, a killed one, or nobody) and that what a
  process found is still in the file until it empties it (`FoundInv`). `TheDeadAreNoticed` adds that
  the file is emptied only when its run was recorded or the record was lost. `OncePerCrash` counts: a
  run is recorded once more than processes died between recording and emptying, and not
  once more while nobody is there (`CountInv`). `LockTypes`: the types, whose bound on `recorded`
  is `OncePerCrash` with a count of all dead runs (`CrashInv`).
* `RunnerProofs`. `RunnerTypes`: the semaphore is what the threads did not take (`SlotsInv`).
  `BoundedRuns`: while the service is up a container that runs has its thread, which has a slot
  (`ContainerInv`); a crash keeps the containers and starts none, a restart removes them all before
  the first request. `ExitMeansOver`: an exit code is sent or read only of a container that is over, by
  a thread that starts no other.
* `HistoryProofs`. The base (`RowInv`): nothing is there of a run that did not come yet, what is
  deleted had ended, whoever deletes a folder has deleted the row. `DeletedForGood` follows. For
  `RowsPointToWhole` the pointer is followed into the hands of those who read metadata and write
  them back later (`CopyInv`); for `LeftoversExplained` the runs deleted while they record
  themselves are told apart (`ExplainInv`); for `NewestAreKept` the newer runs of a cycle, with those
  a person has picked, only grow between the timer's list and its deletion (`KeepInv`).

* `ServerProofs` is about the composition. `LockSpec`, `HistorySpec`, `RunnerSpec` and
  `ExecutionsSpec` say that a behaviour of `ServerSpec`, seen through the variables of one part, is a
  behaviour of that part: each action of `ServerNext` is an action of one module and leaves the
  variables of the others alone. So what is proved of each module for all its constants holds here:
  `LocksSafe`, `HistoryIsSafe`, `RunnersSafe`, `RegistryIsSound` (which assumes `Alone`, as
  `AcceptedIsKept` does; the run has it) and `AllTypes`. The constants of the first three are those
  `MCServer` names, those of the executions are any. `Progress` is only model-checked.

The fairness of these parts: processes that hold or wait for a lock are scheduled and runs end;
the retention timer fires; threads of the service and Docker go on, the service starts again, and
an idle timeout comes where heartbeats do not. Crashes, failures and requests are never forced.

## 8. Parts: `MCParts`

Twenty-two small instances that share no state, in one run. Its variables are registers `r1` to
`r19`: a part binds its own variables to the first of them, in order, and leaves the rest 0.
`In(part, n, Step)` is a step of a part with n variables. No part has fairness here: what is
checked is safety, and that every step can happen. The two servers of "shared" are alike, hence
the symmetry; they appear in no other part. Deadlock is not checked: parts come to rest.

| part | module | instance | what holds (property) |
|---|---|---|---|
| shared | `Executions` | two servers, one cycle, two runs, crashes, failing calls | no execution starts twice (`StartsOnce`) |
| frozen | `LeaseClient` | two clients, one key, processes that freeze, an administrator | an expired lease is never revived (`KeysSafe`) |
| wrapper | `LeaseRun` | two Ctrl-C and two SIGTERM at any point of `qasight lease run` | the key outlives the command, but for a second Ctrl-C or one inside `Popen` (`KeysSafe`) |
| provider | `PoolProvider` | two people, three keys, room for two, `add`, `remove`, `sweep` | no key is destroyed that was held or pooled when the command looked; `max_items`; every command is logged (`KeysSafe`) |
| trigger | `CycleTrigger` | two runs, two edits or removals, commits, merges, files that glob, match or both accept, a `git ls-files` that fails | by snapshot, a skipped run would test nothing but what changed under a run that passed; by Git, nothing that differs from HEAD, or at HEAD from `since_ref` (`ChangesGetRun`) |
| watch | `Watch` | three changes, timers that `cancel()` no longer stops | after the last change a run starts (`ChangesGetRun`) |
| selection | `TestSelection` | two shards, one of two workers, three tests, a file that changes or is deleted and a new run meanwhile | each picked test once, changes tested, shards balanced, workers agree, failures first (`ShardsAddUp`) |
| flaky | `FlakyPolicy` | every history of up to four outcomes on two branches | a regression is not flaky, a broken test is not, a run blames only its own lane (`FlakyFair`) |
| quarantine | `Quarantine` | two overlapping passes, four runs | release is earned; a released test comes back only for a new failure (`QuarantineHonest`) |
| issues | `FlakyIssues` | two tests, two overlapping passes, one issue per pass, errors | no more open issues of a test than passes were on at once; who has none met an error, the limit or an old list (`PublishedOnce`) |
| action | `ActionJob` | three jobs of two cycles, with one history or one each, cancelled anywhere; a run that is not stored | two comments of a cycle only by jobs that overlapped; each is of a recorded run, no older than the job's own if that is recorded, or of the one before all; with a shared history it goes back only by jobs that overlapped; comments of people stay (`PublishedOnce`) |
| launch | `LaunchReport` | two stages, three tests, a call refused or its answer lost | the launch is closed, "passed" is all of a passed run (`PublishedOnce`) |
| accounts | `Accounts` | one name, two commands, three changes, a rotated token | a change signs the user out, nothing else does (`SignInsSafe`) |
| throttle | `LoginThrottle` | two requests, two names, two addresses, room for three keys | failures stay near the limit, Retry-After is right, the oldest are dropped (`SignInsSafe`) |
| backup | `Backup` | a run that was there, one that comes, one of the target's | what was settled comes back whole; no two histories mix (`BackupComesBack`) |
| upgrade | `SchemaUpgrade` | two processes, three revisions, both databases, a crash | a stamped database is whole, revisions only go forward (`UpgradesWhole`) |
| output | `RunOutput` | four chunks, a process left behind, a reader given up | the log has no gap, the result knows all of it, a closed log stays (`OutcomeTold`) |
| scan | `CrashScan` | every text of five cells, cut in every way | however it is cut, the same crash is found (`OutcomeTold`) |
| verdict | `StageVerdict` | two stages, two tests, one quarantined, crash, timeout, stop, no program, no container, no key | green is green, a crash is told, the exit code says the worst (`OutcomeTold`) |
| import | `ResultImport` | every two files of a suite of two attempts, of two tests, one quarantined; uploads of three files | green only if nothing but quarantined tests failed for good; a failure is in the history, but for a test in several suites with different results; each file is read (`OutcomeTold`) |
| compare | `RunCompare` | every history of three runs of thirty shapes | never compared with a foreign branch; page and comment agree; silence means the same (`OutcomeTold`) |
| page | `RunPage` | two runs, one after the other, streams that break, late answers | the page tells the end of the run it names (`OutcomeTold`) |

Why the bounds are enough. Where actors race, two of a kind are there and a third of another
(two commands and a sign-in, two passes and the runs they read). Counters stop one beyond the
limit the code compares with (a window of three with four ticks, one issue per pass with two
tests, a ring of three bytes with chunks of two). Where a pure function decides, all inputs of a
bounded size are enumerated, as data of `Init` or one step at a time: the histories of
`FlakyPolicy` and `RunCompare`, the texts of `CrashScan`, the files of `ResultImport`. The
definition it is checked against is written apart from it (`Told` over whole lines in
`CrashScan`, `Bad` per suite in `ResultImport`, the best of all splits in `TestSelection`).

A promise that the code keeps only under a condition has the condition in the property, and
the condition is a fact about what happened (`overlapped`, `excused`, `moved`, `together`, `astray`),
not about the result. These variables are histories: nothing else reads them. Where the condition
takes out what the documentation promises, the promise itself, without the condition, is a definition
of `MCParts` that TLC finds violated (section 9): `NothingChanged` for `moved`, `CommentIsAlone` and
`ChangesSignOut` for `overlapped`, `IssueIsAlone` for `together`, `RestIsNext` for `excused`.

What the parts take for granted. `CycleTrigger`: an edit changes the time or the size of its file,
a catalog is read at one moment, a new file enters Git's index with its commit and none is ignored,
and Git is installed (where it is not, the evaluation ends with an error, not with a decision).
`StageVerdict`: a runner exits with 0 or 5 only if no test failed, and with 1 only if one did.
`TestSelection`: the shards of a matrix read the same times; no more is promised ("every shard that
sees the same history picks the same tests", "Command Reference.md", line 859), and nothing makes them.

**Proofs** (`PartsProofs`). The sizes of six of the eight parts are constants of `MCParts`, related
by the assumptions named there alone; the theorems hold for all of their values. "frozen" and
"shared" are instances of modules whose theorems (sections 3 and 4) hold for all values. The
proofs about `Backup`, `SchemaUpgrade` and `PoolProvider` are in `LeaseProofs`, over variables of
their own. `PartsProofs` instances `LeaseProofs` and `ServerProofs` over the registers and shows that
a part begins as its component does and that each of its steps is one of the component
(`BackupActs`, `UpgradeActs`, `ProviderActs`, `FrozenActs`, `SharedSteps`).

* `BackupsComeBack` (`BackupComesBack`): a run that is settled when the backup begins is read with
  its test rows, and stays on the list of folders to add until its folder is whole in the copy
  (`DumpInv`); so a published file has all of it (`OutInv`), and what a restore has loaded is in the
  target or still to be extracted (`RestoreInv`). The invariant needs the order in which the server
  records a run and takes it back (`RecordedInv`).
* `ChangesAreTested` (`ChangesGetRun`), for both ways the trigger decides. By snapshot: a file is as
  the run that is on began with it, or is in that run's `moved` (`OnInv`); so each file of the
  catalog that is remembered is as a run that passed began with it, or moved under that run
  (`SnapshotInv`), and a run is skipped only for such a catalog. By Git: what `git diff` told is
  still so when `git ls-files` answers, but for files that moved between the two (`GitInv`); so a
  run is skipped only if no matched file differs (`NoDifference`). That is all Git mode promises: a
  change that is committed, or with a `since_ref` one that is not, is no difference, and is skipped
  even if it was never tested or its run failed. It is the documented design ("diff against
  `since_ref` or default ref", "QA Strategies.md", line 153), not a promise that changes are tested.
  For the watcher: as long as no run has started after the last change, an event is to be handled or
  a timer is on its way (`OnItsWay`), whatever a late `_fire` does to the slot.
* `UpgradesAreWhole` (`UpgradesWhole`), for any revisions that each create something of their own:
  the row of `alembic_version` moves once, from the revision `k` where it was to the newest
  (`UpgradeInv`). Until it does, everybody has what the revision it has reached needs, in the schema or
  in its own transaction (`OnItsWay`), and who has written the row in its transaction is alone
  (`Racing`): it holds the whole database on SQLite; on PostgreSQL the row itself, or, when the database
  has none of our tables, a table of the first revision, which nobody else can create then. So who
  commits leaves all of the newest revision and one row.
* `KeysAreSafe` (`KeysSafe`). That an expired lease stays so is `NoRevival` of section 3, here with
  clients that freeze. For `lease run`, the place of the wrapper bounds which signals have come
  (`WrapperInv`): it gives a key back with the command running only after a second Ctrl-C, or one
  inside `Popen`. For `pool`: what a command has read of the pool and of the provider is still so,
  but for keys noted in `moved` and for people noted in `crowded` (`LookedInv`); so what it still has
  to destroy was nobody's (`DestroyInv`), there is room for all it still has to create (`CreateInv`,
  which counts the keys there and those to come), and at most its last step is not in the log (`LogInv`).
* `SharedStartsOnce` (`StartsOnce`): `NoneStartsTwice` of section 4, with two servers on one database
  that die and start again.

## 9. Where code and documentation disagree

Runs of this project that TLC reports as violated, each with the line of the repository it
contradicts in `PROJECT.json` (`findings`):

* `leases_default`: with the default timings two tests use one key. The heartbeat thread starts
  after `on_take` and `on_check` and stops before `on_release`; each may take 300 s, the lease 120 s.
* `executions_cancel_race`: a request refused with 409 names an execution whose row is not
  written yet. A cancel of it is answered, the row is written afterwards, and the execution
  starts after the next restart.
* `events_overrun`: the end offset is set before the cycle is freed, but a viewer sees it only when `done`
  is set, later. One that asked just before that reads on into the next run.
* `events_redacted`: a mask that is shorter than the secret moves the rest of the file; the
  viewer's offset then lies inside a later event, which is dropped.
* `upgrade_race`: of two processes that upgrade one database, the one that finds every item there
  and then updates a revision that has moved on gets Alembic's CommandError, which nobody
  catches.
* `page_outcome`: a page whose stream breaks asks for the status, which has no exit code: a run
  that failed is shown as passed.

Found with TLC, reproducible by changing a configuration, and not among the runs:

* `UserLimit` in `leases.cfg`: two clients of one account both stay below `max_per_user` in their
  first transaction and both insert (`store.py:202`; "Most keys one user may hold at once").
* `leases.cfg` with `Admin = TRUE`: a heartbeat or a release writes to a row that was taken back
  and given to another in between (`store.py:319`); `OwnRowOnly` and with it `OneUserPerKey` are
  violated.
* `Wants` not all keys in `leases.cfg`: a waiter that wants either of two keys may take the one
  that an earlier waiter needs (`store.py:237`); `OldestFirst` is violated.
* `executions.cfg` with `DbErrors = TRUE`: a claim that raises (`cycle_execution_manager.py:413`, or
  `:372` in a cancel) leaves the row. After a restart that row is queued first, and the row of a later
  execution of the same cycle, accepted meanwhile, is dropped: `NothingLost` (in `RegistrySound`)
  is violated.
* `OneRunPerCycle` in `executions_cancel_race.cfg` with `MaxRuns = 3`, `MaxConcurrent = 2`,
  `DbErrors = TRUE`, `Crashes = FALSE`, deadlock not checked: an execution is cancelled before its
  row is written and the cycle is taken by a second one; the insert of the first fails, its undo
  (`cycle_execution_manager.py:342`) removes the second one's registration, and a third starts
  beside the second ("a cycle runs at most once at a time", line 184).
* `NothingLost` with `Peek = TRUE`, met while proving it: an execution named by a 409 answer is
  cancelled before its row is written; the row comes all the same (`cycle_execution_manager.py:337`), beside
  that of the next execution of the cycle. A restart queues the cancelled one first and drops the
  other, which was accepted.
* `CancelledIsRecorded` in `stages.cfg`: a stop that comes while results are recorded or reported
  makes the execution cancelled (`cycle_execution_manager.py:536`, against line 356); its run is
  recorded as completed.
* `SecondCallEnds` in `stages.cfg` with `Stubborn = {1}` and `Timed = {}`: a process that is
  registered after the second request has sent its signals is sent SIGTERM only
  (`executor.py:410`), though "a second call kills them" (`cycle_execution_manager.py:355`).
* `events.cfg` with `Long = {3}`: a stage event of the command line's run is half written when the
  server's run appends its trigger verdict (`execution_events.py:56` takes no lock); both
  lines are lost to viewers, and `InOrder` is violated.
* `events.cfg` with `Outside = {2}` and a secret in run 2: the command line's run has emptied the
  file to rewrite it (`redaction.py:184`). A server run that opens meanwhile takes 0 for its start and
  its viewers are sent an older run's events (`OthersOnlyAfter` is violated); a viewer of a run that
  is over reads an empty file and misses its events (`LastEventSent` is violated).
* In `parts.cfg`, with the part named alone in `Parts` and one of these definitions of `MCParts` in
  place of its properties:
  * "trigger", `NothingChanged`: the snapshot is taken after the run (`cycle_run.py:246`), so an edit
    made while the run was on is remembered as if it had been tested, and the next run is skipped
    ("skip unless these paths changed", `README.md:203`).
  * "action", `CommentIsOfThisRun`: plan_finished is printed before the run is persisted
    (`orchestrator.py:195`, `219`) and a write that fails is swallowed (`db_backend.py:213`). The job
    takes the event for a recorded run (`run_testo_action.py:722`) and comments on the cycle's latest
    one, not "the run that just finished" (line 231): an earlier job's, from the cache, or with a
    shared `DATABASE_URL` also a later job's.
  * "action", `CommentIsAlone`: two jobs of one cycle each read the comments before the other posts
    one (`run_testo_action.py:286`; "one comment per cycle", `action.yml:59`).
  * "issues", `IssueIsAlone`, `RestIsNext`: two passes list the open issues before either opens one
    (`flaky_issues.py:311`; "never a duplicate", "CI-CD Pipeline Setup.md", line 82); a test beyond
    the limit of issues per pass is not newly flaky in the next one, and gets none (line 302,
    against line 16).
  * "verdict", `OthersKeepFailing`: a result file that cannot be read is no failure to the quarantine,
    so the stage of an unquarantined test whose file was cut off is waived (`quarantine.py:61`,
    against line 10).
  * "accounts", `ChangesSignOut`: two changes of one account that read the same version lose one bump
    (`accounts.py:207`, against line 196), and a cookie given in between stays valid.
  * "quarantine", `LeavesClean`: a run that needed a retry is recorded between the look and the
    removal, and its test leaves quarantine (`quarantine_store.py:296`).
  * "upgrade", `NewestIsBuilt`: on SQLite a process dies between a table and its index; the next
    upgrade returns early and stamps the newest revision without the index
    (`0003_test_results.py:29`, against `migrations/__init__.py:104`).

Met while reading, each a condition in a property above or left out of a model:

* The start offset of an event stream is sampled before the lock is held, so events of a
  command-line run that still writes may be shown to a viewer.
* In Git mode the trigger skips a change that was committed and never tested, or whose run failed,
  and one that is not committed when there is a `since_ref` (`triggers.py:168`); a `git ls-files` that
  fails counts as no new files (line 179). `SkipsTested` says what is promised.
* A kill before the container exists, or while the stage waits for a slot, finds no name and does
  nothing (`runner_service.py:326`, `374`). An error of the service becomes exit 125 of the stage and
  1 of the run (`exit_codes.py:44`), where the troubleshooting guide has 3 for it.
* A worker of pytest-xdist that dies with a quarantined failure beside it leaves a stage that is
  waived to green, and no crash is told (`executor.py:455`).
* A shard without tests exits 5 (`pytest_plugin.py:321`, `657`), which is a failure.
* Automatic quarantine goes by the last outcome seen, which may be before the run that triggered it
  (`quarantine_store.py:342`).
* The page stays at "running" when its stream breaks and the status says the run is at work
  (`useCycleExecution.ts:127`); a late answer about an earlier run changes what is shown of the
  next (lines 97 and 147).
* `lease run`: a SIGTERM before the command is started is swallowed (`lease.py:186`); Ctrl-C
  just before the `try` or during the release leaves the key to expire.
* `pool remove` and `pool sweep` destroy by what they saw before they asked (`pool.py:196`), though
  "destroy never touches a key ... someone holds" (`provider.py:14`).
* Uploads named "002-a.xml", "a.xml", "a.xml": the number put before the third makes it the first's
  name, and the first is lost (`junit_ingest.py:126`).
* Results are read unsorted and the last one of a test stays (`allure_cases.py:189`): a red stage may
  show no failing test. A torn report beside a readable one is ignored (`executor.py:550`).
* The page and the comment choose their baselines by different rules (environments, runs without a
  branch, renamed tests), though `run_failures.py:9` says "as in the PR comment"; an alert "on change"
  is silent for a failing test that is new in a cycle that was red before (`run_alerts.py:67`).
* ReportPortal: a launch whose start was served but not answered stays open, as does one
  interrupted by Ctrl-C; one whose end was served but not answered may be closed again as failed
  (`reportportal_client.py:182`, `222`).

## 10. What is not modelled

Whole components: the parsing of pool configuration, `if:` expressions and plan resolution, other
reporters and exports, analytics, digests and AI services, other commands, the rest of the
frontend. They transform data without state or protocol, and their unit tests enumerate them; a
model would repeat the code. They are also most of the code: the mapped definitions stand for
about a tenth of it, the part where order, failure and concurrency decide.

Of the modelled components: the provider log of the lease store (append only), a `take`
without a waiter (nobody in the code calls it so), the HTTP layer in front of the store (the same
calls, as JSON), rows of the run queue that cannot be read, poll intervals and keep-alives of the
event stream, everything about a stage that is not its process, its end, its slot and its output,
the limit of closes per pass over issues, expiry dates of quarantine rules, the roles of accounts
and the age of a cookie, texts and times of what is published. `PROJECT.json` says so for each
component.

Proved are the theorems of `LeaseProofs`, `ServerProofs`, `EventProofs`, `PlanRunProofs`,
`LockProofs`, `RunnerProofs`, `HistoryProofs` and `PartsProofs`. All else is model-checked, for
the instances given: of the safety properties, the types of the parts of `MCParts`
(`PartsTypesOK`) and its other fourteen parts (`ShardsAddUp`, `FlakyFair`, `QuarantineHonest`,
`PublishedOnce`, `SignInsSafe`, `OutcomeTold`).
Liveness (`EveryRequestEnds`, `StreamEnds`, `StopEnds`, `Progress`) is out of the reach of the
prover, which has no ENABLED, and so is what a fold or a recursive function computes for
every input (`CrashScan`, `TestSelection`, `FlakyPolicy`, `ResultImport`), which needs induction.
