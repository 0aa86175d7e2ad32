# A verification of XR's execution core

XR is an AI assistant runtime: agents, workflows, chat surfaces, a daemon and a
command line that act on a user's machine. Whatever asks for an action, the
action goes through one path, `ExecutionService.execute()`
(`src/src/execution/service.ts`), and leaves a durable record in a SQLite file
that several XR processes share. This directory models that path and what stands
around it: the leases that keep processes apart, the recovery after a crash, the
workflow engine, the human approvals, the triggers, the budget of delegated work,
the migration of the shared file and the updater. TLC checks the models on small
instances, TLAPS proves theorems about them for every instance.

Paths below are relative to the repository root's `src/` unless they start with
`docs/` or name a file of this directory.

## 1. Inventory

| part | state it keeps | operations | hard because | correct when |
|---|---|---|---|---|
| leases `execution/lease.ts` | one row of `execution_leases` per target | acquire (select, decide, delete, insert), renew, release, pid probe | several processes, no transaction around the four statements, crashes leave rows | one owner per target; a dead owner's lease is taken over; nobody loses a live lease |
| lifecycle tables `execution/state-machine.ts`, `checkpoint.ts`, `retry-classification.ts` | none | transition, checkpoint safety, retry decision | the tables must agree with each other and with their callers | every event a caller fires exists; no unsafe retry |
| execution fabric `execution/service.ts`, `repository.ts`, `state/idempotency.ts` | live record, cancel flags, record row, checkpoint rows, idempotency slot | execute, cancel, onStop, persist, settle, finalize | crash between any two writes; late results; timers; cancel flags; best-effort writes; two calls with one key | success is durable and backed by an effect; an unsafe effect runs once; failures say what they do not know |
| recovery `execution/recovery.ts`, `service.ts` | decision rows, cancellation rows, environments | startupRecovery, resumeRecoverable, classify, verifyRecoveryBasis | works from a snapshot, beside live runs, and can crash itself | no unknown effect is resumed; cancellations hold; every interrupted record gets a decision |
| command line `commands/execution.ts` | none of its own | `--resume`, `--cancel` | writes records and cancellations beside live calls, without a lease | a reported success survives it; a cancellation stays |
| workflow engine `execution/workflow/engine.ts`, `daemon/workflow-runtime.ts` | the run object in memory and its row, loops, decisions | execute, advance, human decision, pause, resume, cancel | verbs and results arrive while a tick awaits its nodes and start further loops over one run | no node behind an approval starts without it; no node runs twice; no run is stuck or lost |
| approvals `control/approval-store.ts`, `control/approvals.ts` | pending rows, waiters, TTL timers, pollers | request, decide, expire, wait, close | several channels and processes decide one row while timers run | one decision, and every waiter hears that one |
| triggers `automation/triggers.ts`, `state/repos/trigger-repo.ts` | trigger rows, in-flight map | tick, create, enable, delete, pause | a tick awaits agents; the next does not wait for it; a failed write leaves an entry in the map | one fire per occurrence, none twice at once, none starved |
| budget `cost/governor.ts`, `state/repos/partition-repo.ts`, `services/multi-agent-orchestration.ts` | envelopes, reservations, consumption | fund, admit, settle, sweep | parallel workers, steps that exceed their estimate or outlive the TTL, crashes | the ledger is honest; the envelope is a limit |
| migration lock `state/migration-lock.ts`, `state/migrations.ts` | lock file, schema table | acquire, refuse itself, evict, migrate, release | dead and slow holders, pids given out again, eviction by path | one migrator, and no opener shut out |
| updater `update/atomic-updater.ts`, `selfheal.ts`, `npm-channel.ts`, `channels.ts` | staged, current and backup copies | install, self-test, activate, undo | crash or failure at any file operation, two updates at once | a version that boots is always there; the user is told the truth |
| trust and isolation `runtime/trust/` | environments, verdicts | classify, place, run, verify, destroy | runs the action before the fabric knows | fail closed, no leaked environment |
| lifecycle `core/lifecycle.ts`, `core/service-registry.ts`, `core/app.ts` | phase of each service | start, stop, rollback | failures half way | stop undoes start in reverse |
| agents, providers, surfaces, connectors, memory, research, desktop, mobile, cloud | see `PROJECT.json` | | mostly sequential I/O and rendering | out of scope |

How they interact. A surface, a trigger, the workflow engine or a delegated worker
calls `execute()`, which takes the workflow lease, asks budget and approvals, may
hand the action to the trust service, claims the idempotency slot, runs the action
in a promise it races against a timer and a cancellation watchdog, and writes the
record, checkpoints and slot as it goes. All of that is in one SQLite file, which
an opener first migrates under the lock file. When a process starts,
`XRApp.start()` awaits `startupRecovery()`, which takes the recovery lease, reads
the records that are not terminal and decides about each. The updater works on the
files XR itself consists of, while any of this may run.

`PROJECT.json` lists the hazards, each at its line, with the properties that watch
it or the reason none does.

## 2. Plan

| order | modules | what they add | state |
|---|---|---|---|
| 1 | `Lease`, `LeaseProofs` | the lease table under interleaved SQL and crashes | done |
| 2 | `ExecutionStates`, `ExecutionFabric`, `MCFabric`, `FabricProofs` | one call of `execute()`, many at once | done; the trust gate is seen from outside only |
| 3 | `Recovery`, `MCRecovery`, `FabricProofs` | recovery over what the fabric leaves | done |
| 4 | `Commands`, `MCCommands`, `FabricProofs` | the command line over recovery and live calls | done |
| 5 | `WorkflowStates`, `Workflow`, `MCWorkflow`, `WorkflowProofs` | one run under several loops | done |
| 6 | `Consent`, `Approvals`, `ApprovalProofs` | an abstract promise and the store that implements it | done |
| 7 | `Triggers`, `TriggerProofs` | overlapping ticks | done |
| 8 | `Partitions`, `MCPartitions`, `PartitionProofs` | one delegated tree and its ledger | done |
| 9 | `Migrations`, `MCMigrations`, `MigrationProofs` | openers of one workspace | done |
| 10 | `Updater`, `UpdaterProofs` | four layouts, file by file | done |
| 11 | a module for the trust service | environments: place, run, verify, destroy, quarantine | left |
| 12 | a module for `core/lifecycle.ts` | ordered start, rollback and stop | left |
| 13 | single-task reservations, write gate | `reservation-repo.ts`, nested transactions | left |

Which module composes which: `ExecutionFabric` uses the tables of
`ExecutionStates`; `Recovery` extends the fabric, so that what it recovers is what
the fabric's calls have left; `Commands` extends `Recovery`. `Approvals` refines
`Consent`. The others share no state in the code and none here.

Every invariant and every action property that a run checks is a theorem; what is left to
prove belongs to the modules that are left to write.

## 3. The modules

### Lease
An element of `Proc` is one incarnation of a `LeaseManager` (its
`ownerInstanceId`), started at most once and possibly killed. `acquire()` is the
sequence of locations `idle` (SELECT), `inspect`, `deleteReleased` or `markStale`
and `deleteStale`, `insert`, `owner`: one action for each SQL statement, since each
commits on its own. `Release` is the UPDATE by target in the `finally` of
`executeInner` and of `startupRecovery`. `ProcessDead` is `kill(pid, 0)`.
`PidReuse` says whether the operating system may give a dead process's pid to a
new one. The history variable `raced` remembers that a DELETE by target removed a
row that was not released. The TTL is written and never read by `acquire()`, so it
is left out.

### ExecutionStates
`Transitions` is the table `TRANSITIONS`, event by event; `CanFire` is the
condition under which `transition()` does not throw. `IsSideEffectSafe` and
`DecideRetry` are the functions of those names; error classification is reduced to
its verdict.

### ExecutionFabric
An element of `Runs` is one call of `executeInner`, in a process of its own. Where
the code runs synchronously between two awaits, one action does all of it and
queues the SQL statements it issues in `todo[r]`; `Write` performs them one by one.
So a run cannot be overtaken by itself, but other runs and crashes come between
any two statements. (The statements of the claim are part of `Dedup`, `Claim`, `Flag`,
since their results decide what follows.) `WriteFailed` is a statement that throws
and whose caller swallows it.

| location | code | leaves by |
|---|---|---|
| `policy` | `applyPolicy` | budget stop, budget error, no approver, ask, allow |
| `approval` | `await opts.approve` | granted, denied, thrown |
| `trust`, `environment` | `runTrustGate` | not isolated, blocked, ran, thrown |
| `queue`, `dedup`, `claim`, `flag` | action built, slot claimed first | claimed, replayed, refused, flagged |
| `start`, `launch`, `acting` | one attempt under `runWithGuards` | result, error, timer, watchdog; a retry goes back to `start` |
| `settle`, `returned` | slot settled, `finalize`, `finally` | |

`effect[r]` is the world outside: what the action has really done. The code never
reads it; the properties compare the records with it. `Crash` loses the memory of
one process and cuts its action off. `Shutdown` is `onStop`, possible where the
constant `Graceful` allows it. The three history variables say whether a write has
failed (`faulty`), whether a failed slot has been claimed again (`reclaimed`), and
count the `incidents` that `MaxIncidents` bounds.

All runs are for one capability and share one key, hence one `slot`. That is the
interesting case; calls with different keys touch no common state.

### Recovery
Extends the fabric with one recovering process at a time (the recovery lease of
`Lease`). `Discover` is the query, `Decide` one round of the loop up to the recorded
decision, `Verify`, `MarkResumed` and `Retry` the parts of `resumeRecoverable` between
its SQL statements, `Finish` the `finally`. The audit-chain and authority hooks are
external and may accept or refuse at each call. With `Concurrent = FALSE` one
process runs at a time: it recovers, then accepts calls, then crashes. With TRUE
another process may recover while calls are alive.

### Commands
Extends recovery with `xr execution --resume` and `--cancel`: processes of their
own that read in one step and write in another, a person in between. `--cancel`
inserts a cancellation and then acknowledges every cancellation of the run;
`--resume` saves the record it read as queued.

### WorkflowStates, Workflow
`WorkflowStates` holds the engine's tables: run events, node events, and the second
table run transitions are checked against. `Workflow` is one run of one published
definition: any graph that `IsDefinition` describes, which is what `validateGraph` and the
linter let through (`daemon/routes/workflows.routes.ts:55` and `:104`). Each stretch of JavaScript between two awaits is one action:

| action | code |
|---|---|
| `Execute`, `resumeRun`, `pauseRun`, `cancelRun`, `submitHumanDecision` | the control verbs, up to their first await |
| `Internal(l)` | loop `l`: top of the `while` of `advanceRun()`, start of every ready node up to its first await, end of a tick |
| `Returns(l, n)` | an agent, tool or timer that loop `l` awaits returns, or throws |
| `Crash` | the daemon dies; the row stays |

`Loops` are the calls of `advanceRun()` that may be active over the run: a decision
or a resume during a tick starts another. `live`, `objs` and `stored` are the object
the engine's map names, the objects loops hold, and the row, because verbs work on
one or another of them. `StartNext` starts one ready node up to its first await, and `AllStarted` is that for
the nodes of the definition one after the other. Nodes of kind `instant` stand for the kinds whose
`executeNode` ends without an await. Assumptions taken from the daemon: its execution recorder
swallows its errors; its `waitForEvent()` always rejects. What a branch decides is
arbitrary; a human node that it skips stops nobody, which `ApprovalGates` allows for. A completion
whose outcome is not a success fires `partial_complete` instead of `complete` (`Completes`); the
recompute at the end of the tick then makes of the run what its nodes say.

### Consent, Approvals
`Consent` is the promise in the header of `approval-store.ts`: verdicts are final,
an asker hears the recorded verdict or that its time is up. `Approvals` is the
store in several processes over one table. A promise is a waiter with a timer and
a poller; `reg` is the map entry, of which each process has one for each approval,
so that `cleanup()` of one waiter can take another's timer; `entry` is the
`ApprovalQueue` in front. Deciding, expiring, polling, closing and crashing are an
action each. The refinement mapping is `verdict <- row`, `heard <- told` and, for
the question of a waiter, the approval it is `at`.

### Triggers
A tick takes one snapshot of clock, pause flag and table (`StartTick`) and walks it,
awaiting each fire; from the end of one fire to the next nothing comes in between
(`EndFire`), so a running tick is always at a fire, the head of its `todo`.
`setInterval` starts ticks whether or not earlier ones have ended. Edits go to the
table; the snapshot stays. `inflight` is the map of the service. `fireOne()` enters a trigger
there, writes the audit record, and only then comes to the `try` whose `finally` takes it out: when
that write throws, at the first fire of a tick (`StartFails`) or a later one (`GoOnFails`), the tick
rejects and the entry stays until the daemon starts again (`Crash`). `RecordFails` is a fire
whose recording throws, inside the `try`: the entry goes. Event triggers fire from `notify()`,
which nothing calls.

### Partitions
A root envelope is cut into one partition for each task (`Fund`), task by task in `Slice`,
since each share depends on what the ones before it have taken. A worker settles
its last step and asks for the next in one stretch (`Settle`, `Admit`); the provider
answers later (`Answer`), possibly above the estimate by up to `MaxOver`. `Age` is a
step that outlives the TTL, after which any admission sweeps its row. `real` is what the
provider has charged; the code never reads it. What `settle()` and the sweep have written stays
when the ledger then refuses the next step (`Refuse`).

### Migrations
`Create`, `WritePid`, `Condemn`, `Evict` are the calls on the lock file; `evicting` is
the gap between judging a file and unlinking whatever is at its path by then. `Bar` is
`heldByThisProcessPid()`: an opener that finds its own pid in the file throws, before it probes
the holder or looks at the age. Live processes have different pids; one that is dead or
through (`Exit`) may have left its pid to another, and then the probe finds that other alive.
`Migrate` is one migration's transaction. Time passes only when no live opener can
do anything but wait.

### Updater
`at` says which inode each name has, `text` what is in an inode: renaming moves the
name, `Bun.write` to an existing name truncates the inode it has. Binaries are
staged under the version's name beside one backup, clones and their backups have
random names; `npm` and other managers replace what is in place (`Put`, `PutHalf`).
A canary that is wrong about a version that boots is a fault, like a call that
fails and a crash. git's canary demands that `doctor` ends with 0 where the
binary's also accepts 1; both are `Boots`. A clone may hold a newer version than the one
chosen. `clashed` remembers who ran beside another, `unrestored` whose undoing failed.

### MC modules
`MCFabric`, `MCRecovery`, `MCCommands`, `MCWorkflow`, `MCPartitions`, `MCMigrations` name the sets of
options, the twelve workflow definitions, the amounts and the symmetry that the
configurations use.

## 4. What the runs show

| run | instance | checks |
|---|---|---|
| `lease` | 3 processes, 3 pids, 3 leases | exclusion but for the one race, owners keep their rows, abandoned leases are reclaimed |
| `lease_race` | the same | finding: `LeaseExclusive` fails |
| `fabric` | 2 calls of four kinds on one key, 2 attempts, 2 incidents | seven properties of `execute()` |
| `slot_reclaim` | 3 unsafe calls, no incident | finding: `NoBlindReplay` fails |
| `recovery` | 2 calls, unsafe or repeatable, 2 incidents, 1 pass, one process at a time | running records are decided, cancellations hold, no unsafe resume |
| `commands` | 1 call of any kind, 2 attempts, 2 incidents, 1 pass and commands beside it | it returns; its success is kept |
| `workflow` | twelve definitions, 3 loops, 2 pauses, 1 crash | eight properties of a run |
| `approvals` | 2 processes, 2 approvals, 2 waiters, 1 crash | `Consent` is implemented; waits end |
| `triggers` | 2 triggers, 2 ticks, time 0..3, 1 edit, 1 fault | one fire at a time and per occurrence; changes are seen, except behind an entry that a failed write has left |
| `partitions` | 2 workers of weights 1 and 3, 3 rows, overshoot 1, 1 late step, 1 crash | honest ledger, envelope, caps |
| `migrations` | 3 openers up or down, 3 pids, 2 versions, 2 deaths, stall of up to 3 | one migrator; nobody is shut out but who has the pid of a dead opener |
| `updater` | 3 updates, 3 versions, 2 faults, four layouts | a copy that boots; a true report |

Why the bounds suffice.
* Lease: a race takes the reader of an old row, the process that replaced it and, for
  the takeover, the dead owner; hence three. Migrations are alike: the holder, the
  evictor and the one that was evicted under; three pids, since fewer keep one of them from starting,
  and each may be given out again.
* Slot: the first claimer and a second; a third is needed only for the reclaim of a
  failed slot, which has its own run. One retry distinguishes first and later attempts.
* Incidents, faults, crashes: one event and a second one during what undoes the first.
  `workflow`, `approvals`, `partitions` allow one crash, since what a second could
  find is what the first left.
* Workflow: three loops are the tick, one started by a decision during it and one by
  another; each definition is one way in which nodes meet.
* Partitions: one share below and one above the floor, in two dimensions, one of which
  may have no ceiling; three rows so that a swept, a settled and an active one coexist.
* Triggers: two ticks overlap, with one trigger at the fire and one behind it; four units of
  time are two minutes. One fault is enough, as an entry that a failed write leaves is removed by a
  restart only.
* Updater: two that overlap and one before or after them; three versions so that the
  target of one is not the target of the next.

Runs of the fabric with the same options are interchangeable, and nothing picks
among `Runs` except by `accepted` order, so permuting them is a symmetry; so are openers and
pids of `Migrations`. It is used only where no liveness property is checked.

`CHECK_DEADLOCK FALSE` throughout: when all calls have returned or died and the
bounds are used up, nothing is left to do.

### Fairness
* `Lease`: a live process finishes the synchronous `acquire()` it is in, tries again,
  and releases (`finally`).
* `ExecutionFabric`, and `Commands` with it: a live run takes its next step; while it
  waits, the timer ends the action, the approval TTL ends the wait for the approver,
  and the environment's own limits end `evaluate()`.
* `Approvals`: deadlines pass and timers that are set fire. Nobody has to answer.
* `Triggers`: the interval timer goes on. No agent run has to end.
* `Workflow`: the event loop goes on; agents, tools and timers return. Nobody has to decide.

Nothing forces a process to start, a call to arrive, a user to act or a process to
crash. `Partitions`, `Migrations` and `Updater` state safety only; `Recovery` inherits the
fabric's fairness and checks safety.

### Properties that TLC refutes and no run lists
A module keeps some properties that a text of the repository states and the code
does not keep, beside the weaker one that holds. To see the counterexample:

| property | add it to | with |
|---|---|---|
| `ReturnedIsTerminal` | `Fabric.cfg` | |
| `EveryRecordDecided` | `Recovery.cfg` | |
| `UnsafeNeverResumedInProcess` | is in `Recovery.cfg` | `Graceful = TRUE` |
| `CancelSurvives` | `Commands.cfg` | |
| `SuccessIsReal` | `Fabric.cfg` | |
| `FirstWriterWins` | `Approvals.cfg` | |
| `PauseStopsNewFires` | `Triggers.cfg` | |
| `ChangeSeenEver` | `Triggers.cfg` | |
| `NeverWedged` | `Migrations.cfg` | |
| `NeverRerunEver` | `Workflow.cfg` | `Definitions <- ChainOnly` |
| `EventFails` | `Workflow.cfg` | `Definitions <- EventOnly` |
| `CurrentStays` | `Updater.cfg` | |

## 5. Findings

`PROJECT.json` quotes each with its lines and the text it disagrees with.

* Leases: two processes can hold one lease after a release, because the released row is
  deleted by target and not by `lease_id`.
* Slots: a slot in state `failed` is not moved to `pending` when it is claimed, so two
  calls claim it.
* Fabric: `execute()` can return with its record in a state that recovery treats as
  interrupted. A dry run completes the slot of its key, and a later call that is to act
  replays it: it is reported as a success with nothing done.
* Recovery: it fires `retry` where the table has none, and one such record ends every
  startup's pass. `onStop` writes an always-safe checkpoint for a running record before
  the cancellation that would block its resumption. A comment on `findInterrupted`
  states another order than its SQL.
* Commands: `--cancel` acknowledges its own cancellation and all earlier ones, so recovery
  resumes the run; `--resume` asks neither the recovery basis nor the table.
* Workflow: after a crash, nodes that had completed run again; a node that waits for an
  event stays waiting when the wait fails. `NeverStranded` states two more ends that nothing moves
  on: a run is left running when an approval expires while another node works, and waiting when
  a timer starts in the same tick behind a node that had moved the run.
* Approvals: the queue goes ahead on its local answer although the row says otherwise; a
  second wait for one approval in one process can lose its timer and hang.
* Triggers: with overlapping ticks an occurrence fires twice; a pause does not stop a tick
  that is under way; a failed audit write at the start of a fire leaves the trigger in the map, and it
  is passed over for as long as the daemon lives.
* Partitions: lifting a share to the floor can make the caps exceed the root; the spend
  may exceed the envelope by one overshoot for each worker, not one in all.
* Migrations: two processes migrate at once after a death or a stall. An opener that has the pid of
  one that died with the lock throws at once, however old the file is; the first process of a
  restarted container always has that pid.
* Updater: a crash between the two renames leaves nothing in place; two overlapping
  updates of a binary can leave nothing that boots; a rollback that failed is reported as
  "kept the current version".

## 6. What is proved

The theorems hold for all values of the constants that satisfy the modules' named
assumptions (each a type of a constant, what a validation of the code lets through, or
that a model value is not a member of a set). Every proof has the same outline: an inductive invariant, one step for each
action, and the listed properties from it. Steps that many actions share are lemmas.

* `LeaseProofs`. `ExclusiveUnlessRaced` is not inductive: nothing in it says why the DELETE
  by `lease_id` of a takeover cannot hit a live owner's row. `LeaseInv` adds that a process
  past the probe has read a row whose owner is dead, and the dead stay dead (`SeenRow`);
  that rows name processes that have lived (`RowsOK`); that a lease id has one owner
  (`IdsUnique`); that only live processes are inside `acquire()` (`BusyAlive`). Then two
  owners would be two owners of the one row.
* `FabricProofs`: `LaunchedOnce`, `EffectVisible`, `ReportedIsDurable`, `HonestFailure`,
  `DurableTerminalFinal`. `FInv` has two parts. `MInv` is the type invariant, for each run `Memory`
  (which lifecycle states a location allows, which writes are still queued there and what
  the record owes to the effect), and for the slot `SlotInv` (at most one winner, unless
  a failed slot has been claimed again). `DInv` says of each run what the row and the queued
  writes show while only the call writes its record (`Recorded`). A step of `execute()` keeps
  the first whatever else is in the store (`StepKeeps`). `BeforeStep` and `AttemptEnds` are the common steps.
  `SuccessIsBacked` and `UnknownClosesSlot` come from a second invariant on top of `FInv`. `EInv`
  says that whatever reports a success (a live record, a row, a queued save or settlement, a
  completed slot) has an action behind it that is done and goes to no further attempt
  (`Backed`); that the rows the lookup reads are of accepted calls (`Known`, which makes the
  newest of them exist); and that a slot is settled by the first write of the end of the call
  that claimed it, which `SlotInv` makes the only one (`Closing`). The steps up to an outcome are
  all cases of `Walks`.

  Recovery, over the same calls: `RunningDecided`, `CancelBlocksResume` and
  `UnsafeNeverResumedInProcess`, under `~Concurrent`. With nobody alive beside the pass, what it has
  read stays what is there (`PassInv`), and the record it is at is the one of lowest rank
  that is left (`NextIsOne`), so it comes to the records with a possible side effect first. The
  pass can only throw where `retry` is fired on an interrupted state, and the records found
  running are decided by then. For the third, `SafeInv` adds that each call says durably what it
  is about to do: before an unsafe action is launched, an unsafe checkpoint is in the table or
  the last of the queued ones, unless a cancellation is (`Foretold`). It also assumes `~Graceful`:
  `onStop` leaves a safe checkpoint of kind `recovery_decided` behind, with which the run's
  basis looks clean (a finding above).

  The command line, with recovery alone or beside live calls: `SuccessKept`, `LaunchedOnce`,
  `SuccessIsBacked` and `UnknownClosesSlot` of `CSpec`, and type correctness in `CmdInv`. Here a record
  is written by others than its call, from what they read earlier, so `DInv` does not hold and
  `MInv` and `EInv` carry the proof. The table lets a pass queue again only a record that was
  failed or timed out when it was read; the call writes such a record last, when it returns
  without a success (`Old`), and it stays so. What a command queues again is in `requeued`.
  The record a pass is at stays the same one, whoever is accepted meanwhile (`NextStays`).
* `ApprovalProofs`: type correctness and `ApprovalsImplementConsent`. `PInv` adds to the type
  invariant that a wait which is not over is for a question that has been asked (`Placed`)
  and that a map entry is of a wait of that process and question which is not over
  (`Registered`). The refinement has one step for each action;
  all that settle waiters go through the lemma `Settling`. `QueueFollowsRow` comes from `QInv`: a
  row has a decider when it has a verdict (`Owned`), and the wait of an entry that is still open is
  the one its process would tell (`Attended`), unless it was `Outpaced`.
* `PartitionProofs`: `LedgerHonest`, from `LInv`: an open row is the worker's own (`OwnRow`), and
  while nothing is lost it is active (`NothingLost`). `WithinEnvelope` from `EInv`: what is settled
  plus what is in flight at its estimate is within each partition and, summed over the workers,
  within the root, but for one overshoot for each worker that has nothing in flight (`InCap`,
  `InRoot`). `CapsFit`: after each task that is cut, the shares add up to at most the headroom,
  or one of them is at the floor (`Fitting`). Both need sums over the workers. What a sum or
  a cut does is shown from a smallest set, or a first task, for which it fails.
* `MigrationProofs`: type correctness and `LockHolds`. Until a death or a stall, the evictors'
  judgement is never true (`Undisturbed`, `Fresh`, `AgeIsBusy`), so who runs made the file that
  is there (`HolderHasFile`), and who runs alone keeps the schema without a gap (`Prefix`).
  `NotWedged`: in the model time passes only while everybody can but wait. With one death and
  no slow holder that is at a lock which its maker left without a pid, or with one that another
  process has by now; nobody waits longer than that file is old, and one unit past the threshold
  whoever has another pid evicts it (`Waits`). Who throws at once instead has read its own pid,
  which no other live process has (`PidInv`), so the maker of the file is a dead one.
* `TriggerProofs`: `OneInFlight` (what a tick is at is in the map, and a tick starts nothing that is
  there), type correctness, and `OncePerOccurrence` for schedules of
  whole minutes (`Every >= PerMinute`; the code also accepts "every 0 minutes", which fires on
  each tick). `TInv` says that ids are unique and remembered times past (`Typed`), and, while no
  ticks have overlapped and nothing has failed, that at most one tick runs (`Alone`), that the
  table remembers every fire but the one in flight (`InTable`), and that so do the rows the tick
  has yet to look at (`Ahead`).
* `UpdaterProofs`: `AlwaysACopy` and `LiveBoots`. `UInv` says who still has which name (`Apart`)
  and, unless two binary updates have met, that an inode has one name, that a stage past its
  test boots (`Proven`), that every backup boots (`Kept`), and that an empty place has
  its backup with whoever emptied it (`InPlace`). `ReportIsTrue`, of all four layouts, comes from
  `RInv`, which says for each location of an update that met no other what the names
  stand for there (`Stands`).
* `WorkflowProofs`: `ApprovalGates`, `RestIsSaved`, `HumanWaitOpen`, `NeverRerun`, `CancelWins` and
  type correctness, for any graph. In `WInv`, every run object, in memory or stored, has at most
  one node that waits for a person, in a run that takes the decision, and no human node that is
  over without an approval (`Sound`); a loop has an object, which is not queued (`Control`); what
  rests is saved (`Rest`); and until the daemon dies there is one object (`Lineage`), in
  which a node that works is started once and is in flight in one loop (`Counted`). Most
  handlers rewrite one object; all they may do to it is the relation `Moves`.

  `NeverStranded`, until the daemon dies, from a second invariant on top (`SInv`). A recompute makes
  of a run what its nodes say, so it says where they are (`Placed`): a node that runs is in flight,
  and a timer that waits is in flight or started in a tick after another node had moved the run.
  At most one loop goes on by itself (`Busy`), and it does not stop on a paused run, or on a waiting
  one with nothing that waits. When it finds no node ready in a run that is still running, and
  none runs elsewhere, then one expired: of the nodes that are not over, one has no dependency
  among them, since `validateGraph` admits no cycle, and it would be ready (`RecomputedParks`).
  `TickPlaces` is the start of a tick, in the definition's order. The two exceptions of the
  property are runs that the code does leave behind.

Only model-checked:
* the liveness properties `AbandonedReclaimed`, `AcceptedReturns`, `ComesToRest`, `AlwaysSettles` and
  `ChangeSeen`: fairness and ENABLED are outside the proof system's reach;
* the two findings, which are counterexamples.

Induction over data is out of reach too, since no installed prover can instantiate an
induction theorem. No module declares a RECURSIVE operator; the recursive functions of `Workflow`
(`AllStarted`), `Partitions` (`Slice`) and the library's sums are reasoned about by
way of a smallest counterexample, whose existence is a fact about natural numbers.

## 7. What is not modelled

* SQLite itself: a statement or a write transaction is atomic and durable once it has
  returned. A crash is the end of a process, not of the machine's disk. The write gate,
  which nests transactions of one process, is taken as atomic.
* The content of plans, prompts, observations, costs and audit entries; time, beyond
  the fact that timers may fire whenever they are armed.
* Several pid namespaces over one file: in `Lease` and `Migrations` live processes have different
  pids. A write of the pid that throws leaves the lock file as a death between the two calls does.
* A restart of the daemon after a failed audit write, in one behaviour: `Triggers.cfg` has one fault.
* The workflow lease inside the fabric's runs: `Lease` treats it alone.
* The trust service from within. What `execute()` does around it is in `ExecutionFabric`,
  where two hazards of the environment path show: nothing is durable before
  `evaluate()` returns, and an exception from it is reported as a failure without side
  effect. `EffectVisible` and `HonestFailure` leave that path out, and say so.
* In the fabric: `SuccessIsBacked` counts a dry run as an action that is done, since the slot does
  not tell them apart (a finding above; `SuccessIsReal` does not count it). A second claimer flags a pending slot in a later transaction; a checkpoint that
  fails to be written leaves an older, safe one. The model takes these steps, but no
  property is about them alone.
* Quarantine of dirty environments, checkpoint pruning; definition editing, validation and
  schedules of workflows; `notify()`, `purgeSession()`, `close()` and `release()` of partitions,
  which have no caller; token buckets of triggers; single-task reservations.
* The components listed as `not_modelled` in `PROJECT.json`. They are most of the
  repository's lines: user interfaces, generated clients, providers, connectors and data
  transformations, whose questions are about content and not about the order of steps. The
  part mapped here is the part in which several actors meet over shared, durable state.
