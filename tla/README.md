# Verification of transiva

TLA+ models of the concurrent and failure-prone parts of transiva: the daemon's
job manager, priority queue, cron scheduler, job dependencies, retry policies,
backups and WebSocket hub; the pool of vSphere sessions, the retryer and the
network monitor it asks; the resumable vSphere export and the command line around
it; and two reconcilers of the Kubernetes operator. TLC checks them on small
instances; TLAPS proves theorems about eight of them for every size. Paths below
are relative to the repository's root; `PROJECT.json` maps each definition to the
source lines it stands for, and lists hazards, mutants, theorems and a finding.

## 1. The system

transiva exports virtual machines from vSphere and other hypervisors and clouds
to open formats. The same packages are used by a command-line tool
(`cmd/hyperexport`) and a daemon (`cmd/hypervisord`) with a REST and WebSocket
API, schedules, webhooks, queues, caches and backups, and by a Kubernetes
operator (`pkg/operator`).

| Component | State | Operations | What makes it correct |
|---|---|---|---|
| Job manager `daemon/jobs/manager.go` | job table under `m.mu`; one goroutine per job; WaitGroup; context | SubmitJob, CancelJob, executeJob, updateProgress, Shutdown | a job is accepted once and resolved once; status, result and goroutine agree; Shutdown knows what still runs |
| Priority queue `daemon/queue/queue.go` | heap under `q.mu`; workers; results channel; metrics | Enqueue, Dequeue, retry, collect, Shutdown | no job lost, in two places, or run more often than allowed; limits respected; counters balance |
| Session pool `providers/vsphere/pool.go` | slice under `p.mu`; channel; `inUse`, `lastUsed` | Get, Put, health check, Close | one user per session; no leak; no logout under a user; waiters served |
| Scheduler `daemon/scheduler/scheduler.go` and store `daemon/store/schedule_store.go` | schedule table under `s.mu`; cron entries; rows | add, remove, update, enable, disable, trigger, fire, restart | table, cron and store agree, also after a restart |
| Resumable export `providers/vsphere/export.go`, `providers/common/checkpoint.go` | files and checkpoint on disk; one goroutine per file; a counting channel; `checkpointMux` | start or resume, range download, retry, mark, save, package, clean up | success means whole files; a crash loses nothing; the checkpoint never claims too much |
| Retry policies `daemon/scheduler/retry.go` | attempts under `rm.mu`; one goroutine per pending retry | ShouldRetry, ScheduleRetry, executeRetry, ClearRetry, ClearOldRetries | attempts are bounded; what a chain submits is counted; no entry is forgotten |
| Dependencies `daemon/scheduler/dependencies.go` | job states and waiters under `dt.mu` | wait, check, update, clear | a job runs only after what it depends on; who can run is told |
| Time windows and slot queue `timewindow.go`, `advanced.go` | windows; running count | next start; take and give back a slot | the next start lies in a window |
| Daemon wiring `cmd/hypervisord/main.go`, `daemon/api/enhanced_server.go` | two schedulers, one manager | start, serve, stop in order | the API and cron see the same schedules |
| WebSocket hub `daemon/api/websocket.go` | client set under `h.mu`; three channels; four goroutines per connection | register, unregister, broadcast, both pumps, Shutdown | no send on a closed channel; dead clients leave; a shutdown closes all |
| Webhooks `daemon/webhooks/webhooks.go` | one goroutine per delivery | send with retries | order and number of deliveries |
| Retryer `retry/retry.go`, network monitor `network/monitor.go` | attempt; state, listeners, two loops | retry with pauses; wait for the network; Stop | a caller waits in vain only for news it missed; a cancelled one returns |
| Batch orchestrator `providers/common/batch_orchestrator.go` | results; parallel migrations | Execute, retry | every migration reported |
| Cache `daemon/cache/cache.go`, rate limits `daemon/ratelimit/ratelimit.go` | entries and sizes; slots | get, set, evict; acquire, release | within the limit; released only by the holder |
| Backups `daemon/backup/backup.go` | backup table under `m.mu`; archives and metadata on disk | create, restore, delete, retention, load | only whole archives are restored; what was reported is kept |
| Command line `cmd/hyperexport/main.go`, `encryption.go`, `cloud_*.go` | export directory, its encrypted sibling, the bucket | export, package, verify, encrypt, replace, upload, remove | the last whole copy survives; nothing to be encrypted stays or leaves in the clear |
| CLI downloader `cmd/hyperexport/parallel_download.go` | checkpoint saved every few seconds; worker pool | download, resume | no byte twice after a crash |
| Incremental exports `providers/incremental/tracker.go` | metadata files | decide, record | an incremental export has its base |
| Operator `pkg/operator/controllers` | custom resources, lagging caches, a pod | reconcile machines and operations | verdicts match effects and are final; the machine settles |
| Exporters, providers, formats, REST handlers, authentication, audit, metrics, dashboard, job store | remote or none | calls | no protocol of their own; see section 9 |

How they interact: REST handlers and cron call `Manager.SubmitJob`; the manager
runs the export in a goroutine that calls an exporter, which calls a provider;
the manager calls webhooks and (through handlers) the hub; a provider takes
sessions from the pool and uses the retryer, which may wait for the network
monitor; the scheduler writes its rows to the store and reads them at start. On
a signal `main.go` stops the server, the scheduler, the manager, the pool and the
database, in this order.

`hyperexport` calls the same provider once per run; the operator's two
reconcilers meet only in the objects of the API server.

What is hard: critical sections with an unlock in the middle (SubmitJob,
executeJob, Get), goroutines that hold a pointer others replaced (cron closures),
two ways of waking one waiter, values read under a lock and used after it,
retries that meet a limit or a shutdown, crashes between a file and its
checkpoint, data left by earlier runs, and effects repeated because the status
that would have prevented it was read too early.

## 2. Modules

| Module | Models | Shape |
|---|---|---|
| `JobContract` | what a client of the manager may rely on | absent, accepted, completed or failed |
| `JobManager` | `daemon/jobs/manager.go` | one action per section under `m.mu`, per call out, and per side of Shutdown's select |
| `QueueContract` | what the queue promises of a job | absent, waiting, running, finished |
| `JobQueue` | `daemon/queue/queue.go` | workers as a program counter; the heap as a set with minimum |
| `ConnectionPool` | `providers/vsphere/pool.go` | Get as its sections: channel, decide, create or wait, claim |
| `Scheduler` | scheduler and store | one action per handler; closures hold objects |
| `ExportContract` | what a caller of ExportOVF may rely on | how much of each file there is; idle, running, done, failed |
| `ResumableDownload` | export and checkpoint | one program counter per file; memory is lost in a crash, the disk is not |
| `HyperExport` | `cmd/hyperexport`, one machine | the stages of `run` over `ExportContract` |
| `NetworkMonitor` | `network/monitor.go` | two loops and Start's check, each in the sections of updateState |
| `Retryer` | `retry/retry.go`, and WaitForNetwork | callers over `NetworkMonitor` |
| `WebSocketHub` | `daemon/api/websocket.go` | hub, handlers and pumps; a rendezvous is one step |
| `VMOperator` | the reconcilers of machines and operations | one action per call of the API server |
| `DependencyTracker` | `daemon/scheduler/dependencies.go` | runs in the select of WaitForDependencies |
| `RetryManager` | `daemon/scheduler/retry.go` | chains of retries, one action per locked section |
| `BackupManager` | `daemon/backup/backup.go` | calls as program counters; chunks of archives on disk |
| `JobManagerProofs`, `JobQueueProofs`, `ResumableDownloadProofs`, `HyperExportProofs`, `VMOperatorProofs` | | theorems about the module named |
| `ConnectionProofs` | | theorems about `ConnectionPool`, `Retryer` and `NetworkMonitor` |
| `SchedulerProofs` | | theorems about `Scheduler`, `DependencyTracker` and `RetryManager` |
| `DaemonProofs` | | theorems about `WebSocketHub` and `BackupManager` |
| `MC*` | | instances: functions and sets a cfg cannot write, symmetry |

Composition: `Retryer` EXTENDS `NetworkMonitor`, and their steps interleave.
`HyperExport` EXTENDS `ExportContract`: the step `export` of the command line is the
contract's steps, and `ResumableDownload` implements that contract, so what is shown
of the command line does not depend on how a file arrives. `JobManager` and `JobQueue`
implement `JobContract` and `QueueContract`.

### Job manager
`status`, `result`, `completedAt` and `progress` are the fields of `models.Job`;
`pc[j]` is where `SubmitJob` and then the goroutine `executeJob` of the job is;
`wg` and `cancelled` are `m.wg` and `m.ctx`; `sent` records the calls to the
webhook manager. `SubmitJob` and `SpawnJob` are separate because the code unlocks
before `m.wg.Add`. `CancelJob` only writes the table: nothing in the code stops
the goroutine. The exporter is external: it reports any progress up to `Reports`
times and returns a result or an error, cancelled or not. `outcome` maps the
state to `JobContract`. A job ID is submitted once, which is what the table
enforces: a second submission of it is refused and changes nothing.

### Queue
`at`, `holds` and `verdict` are a worker's locals. `Dequeue` takes a job no other
precedes under `Less`; equal jobs are picked at random, as the heap may. A
handler may fail or expire; `HandlerReturns` decides on the retry, `ReEnqueue`
follows the pause and falls through to a result when the queue is full, and
`SendResult` drops the result when the channel is full. Durations and the count of
timeouts are left out: an expired deadline is a failed run. `runs`, `finished` and
`dropped` are history variables. `Shutdown` is a cancellation that workers and
collector notice when their select does. `Proceed` is what a worker does by itself;
the handler is external and need not return: its deadline is a context it may ignore.

### Connection pool
`popped` separates the receive from the channel from the lock that marks the
session in use; `empty`, `create` and `wait` are the sections behind it.
`GrowStale` is the passage of `IdleTimeout`. Sessions that were logged out keep
their place in the slice or the channel exactly where the code leaves them. `panic`
is a send on, or a nil received from, the closed channel.

### Scheduler
An object of `Objs` is a `*models.ScheduledJob`: cron closures and running
goroutines keep the one they were created with. A row of the store is a one-element
set. `Restart` is a crash followed by `LoadSchedules`; the entry IDs cron then gives
out depend on the order of rows and are chosen freely. The validation entry
`AddScheduledJob` leaves in cron is modelled (`noop`). Each store call may fail,
which the code logs before it goes on ("Continue anyway"), and `main.go` goes on
with an empty table when `LoadSchedules` fails: `Written` and `Refused` are what
becomes of a row. Two histories name what is left behind: `unstored` the IDs whose
last save, delete or load was refused, `leaked` the cron entries of a schedule whose
ID was added again. Removed objects nothing points at are reused, which keeps the
instance finite.

### Resumable export
A file on disk is the sequence of source offsets written to it; the source is
`<<1, ..., Size>>`. `RequestAccepted` asks for what the disk lacks, `CopyChunk`
appends one unit, `CopyBreaks` and `RequestFails` lead to `Retry` or `GiveUp`.
`MarkCompleted` and `SaveCheckpoint` run under `checkpointMux`, which is why a
goroutine in `save` blocks the others (`MuxFree`). `Checkpoint.Save` renames a
temporary file and is one step, which may fail. `Crash` forgets everything but
`disk` and `saved`; a later `StartExport` may resume or start fresh, with any of
`Options`. `HonoursRange` says whether the host answers a range request with the
range (206) or with the whole file (200). `Amount` and `Held` map the
disk to `ExportContract`: nothing, a part, or the whole of a file.

### Command line
`stage` is where `run` is. `dir` (of the contract), `sealed`, `box` and `remote` say
how much of each file is in the export directory in the clear and encrypted, in
`<dir>-encrypted`, and in the bucket. Every walk over a directory visits its files
one by one, and every write passes through a part, so a failure or a crash finds
each intermediate state; the next run starts from it, possibly with other flags.
`RemoveEnds` may come before everything is removed, which the code only warns about;
`Rename` then fails, since its target is still there. Errors of `Close` are ignored by
the code and left out here.

### Network monitor and retryer
`updateState` writes under the lock (`WriteState`) and notifies after it
(`NotifyListeners`), so `hand` and `notify` are its locals; netlink and the ticker
may be between the two at the same time. `Look`, `Subscribe` and `Hear` are the
three steps of WaitForNetwork, and `missed` is the history of a state that was told
when the caller could not hear. A channel is never given back, as in the code. The
operation may succeed, fail for good, fail for a while, or not return.

### WebSocket hub
The channels `register` and `unregister` are unbuffered, so one action is both
sides. `Deliver` marks clients with full buffers, and the hub then sends to itself
(`hub = "unregistering"`), which nothing can receive. Shutdown closes the channels of
the clients and empties the map; the handler may still be sending its two initial
messages.

### Operator
`op` and `vm` are the objects on the server, `opCache` and `vmCache` what the
informer has seen; `opFresh`, `vmFresh` and `seenFresh` say whether the copy a
worker holds would still be accepted. `Program(kind)` lists the calls an executor
makes (get, load, note, effect); the effects are the writes of the machine. A clone
is one of a snapshot, which notes its progress before it reads the snapshot and its
machine: the longest branch of `executeClone`. `refused` is the history of
operations one of whose calls failed or whose write of the machine was refused. Pods
and the kubelet are external.

### Dependencies
`WaitForDependencies` registers, then selects among the caller's context, the context
`UpdateJobState` cancels, and a ticker; `sat` and `early` are histories.
`removewaitingJob` removes by the job's ID, and so also the registrations of other
runs of that job, which the module keeps.

### Retry policies
`Call` is ShouldRetry, whose lock is given back before ScheduleRetry takes it again,
so chains may pass together; `robbed` and `left` record the entries deleted under a
chain or left by one. Delays are any.

### Backups
A maker writes an archive chunk by chunk into the file it opened (`linked` says
whether that file still has the name), computes the checksum, enters the backup in
the table and saves its metadata. Two in one second have one name and so one file.
`lock` and `restoring` are the fields; retention blocks itself on the lock and stays.

## 3. Runs

Each passing run visits the whole reachable state space of its instance.

| Run | Instance | What it shows |
|---|---|---|
| `job_manager` | 2 jobs, webhooks, 1 report, exporters that may hang | status, goroutine and webhook calls agree in every interleaving with cancellation and shutdown; the manager implements its contract; every job is resolved when exporters return; Shutdown returns even when they do not |
| `job_queue` | 3 jobs, 2 workers, queue of 2, channel of 1, 2 ticks | one place per job, balanced counters, first runs in order, contract; without a shutdown every accepted job finishes whose own handler does not hang, as long as one worker's handlers return |
| `connection_pool` | 3 clients, 4 sessions, 2 places | one user per session, no leak, no logout under a user |
| `scheduler` | 1 ID, 2 objects, 2 goroutines, 4 entries, store calls that fail | table and cron agree but for the entry of an ID added twice, table and store but for an ID whose last save, delete or load was refused |
| `download` | files of 2, 1 and 1 units, 2 slots, 2 attempts, 2 exports on the directory | files stay prefixes, success means whole, the checkpoint is never ahead, the export keeps its contract and ends |
| `hyper_export` | 2 files, 5 combinations of flags, 3 runs | the last whole copy survives; nothing to be encrypted stays or leaves in the clear |
| `retryer` | 1 caller, 3 attempts, channel of 1 | who waits though the network is up missed the news; a cancelled caller returns |
| `websocket_hub` | 2 connections, buffers of 1 | clients in the map have open channels; dead clients leave; shutdown closes connections |
| `ws_full_buffer` | 1 connection, buffers of 1 | a statement of the code that fails, see below |
| `vm_operator` | 1 operation of 4 kinds, 1 edit, 1 fault | verdicts match effects and are final; a migration ends or was cut short by a refusal or a cancellation; the machine settles |
| `dependencies` | 1 job with 2 dependencies and a timeout, 2 overlapping runs | who runs had its dependencies met; a missed report is an earlier one; the satisfied are served |
| `backup` | 2 creations, 2 restores or deletions, 2 chunks, 2 seconds, room for 1 backup, 1 fault | only whole archives are restored; what was reported is kept; lock and restore flag belong to who works |

Why these bounds are enough to meet the hard cases:

- Jobs of the manager share only the WaitGroup and Shutdown, so two give every
  pair of interleavings. One report beside "connecting" lets progress arrive before
  and after each other step; more reports only repeat it.
- In the queue j1 has a retry, j3 has a higher priority than the other two, and
  two places for three jobs make the queue full, also for a retry. One place in the
  results channel (100 in the code) makes a full channel reachable; two ticks give
  equal and different stamps.
- In the pool three clients for two places means that somebody always waits or is
  refused; four sessions allow two replacements after expiry.
- In the scheduler two objects for an ID are the current one and one that was
  replaced while somebody still held it; two goroutines meet within one second.
  Four entries allow an ID added twice, enabled.
- In the export one file has a middle, so a transfer can break in it; three files
  for two slots make the loop wait for a slot, and two exports on one directory
  let the second meet whatever a crash or a failure of the first left. The options
  of the instance are the ones that allow most: with checkpoints, a load may fail
  (a fresh start), a save may be skipped, and a cleanup may remove no file.
- On the command line two files let each walk stop between them, and three runs let
  one meet what two others left, with the flags of either.
- The retrying caller has a channel per attempt: it may wait twice, the second time
  with a channel it left full behind. A channel of one place (10 in the code) fills
  at once. The changes of the network are not bounded.
- Two connections are a slow one and another; buffers of one message (256 in the
  code) fill at once; the messages are not bounded.
- The four kinds of operation make an object (CloneSnapshot), change the machine twice
  (Migrate, Restart), or remove it (Delete); with one edit and one fault every conflict and
  every interruption occurs once. Restart and Delete have HA, which restarts a
  failed machine.
- Two runs of one job share its registrations, which is where they can rob each
  other. The states reported of a dependency may change for ever.
- Two backups for one place and two seconds: names collide or not, and retention
  has something to remove.

`CHECK_DEADLOCK FALSE` is set where these systems do stop: all jobs done and shut
down, a bound used up, or a process that nobody restarts. Runs with a liveness
property use no symmetry. `vm_operator` takes about three minutes, the
others less than one or two.

### Disagreements between the code and what it says

`websocket.go:135` says "Unregister clients with full buffers". Run then sends to
`h.unregister`, an unbuffered channel only Run receives from: the hub waits for
itself, and nobody is registered, unregistered or served again. The run
`ws_full_buffer` shows it; `websocket_hub` states its properties for the time before.

The models keep the following behaviours too; they are stated here, and the
properties say what holds in spite of them:

- Cancelling a job changes its status only: `executeJob` writes running, completed
  or failed over it.
- A job accepted by SubmitJob before `wg.Add`, or after Shutdown, still starts; the
  graceful branch only waits for goroutines that were counted.
- A retry that the queue accepts after Shutdown is never run.
- A session the health check logged out may be in the pool's channel, or in the hands
  of a Get that has received it and not yet marked it in use; Get hands it out.
- A schedule ID added twice leaves a cron entry nobody can remove (`leaked`). Enable and
  Disable are not stored, so a restart brings the older flag back. An update with a
  malformed expression returns an error and leaves the schedule changed, enabled and
  without an entry.
- The scheduler logs a refused store call and goes on: a schedule whose save was refused
  is lost at the next start, one whose deletion was refused comes back, and when the
  schedules cannot be loaded the daemon starts with none (`unstored`).
- A handler that ignores its deadline keeps its worker for good, and more urgent jobs
  starve less urgent ones as long as they come.
- WaitForDependencies may report the dependencies satisfied when its caller cancelled:
  both cases of the select are ready. WaitForNetwork looks before it subscribes, and
  a change in between is news it misses.
- An operation fails when a write of the machine is refused or a call fails: a migration
  half done then stays in phase Migrating, and so does one that is cancelled there.
- A host that ignores a range request (200) gets its whole file appended to the
  part: the theorems about the export assume that it does not (`HonoursRange`).
- `hyperexport` says "Existing export found - will be overwritten"
  (`validation.go`), but the export appends to what it finds: a directory that is
  whole without a checkpoint is requested from its end, which the host refuses (416)
  in every later run, and a part may stem from an earlier state of the machine.
- `run` looks at `*batchFile` first, and the batch mode calls `run` for each machine,
  which starts the batch again.
- The history of `hyperexport` names `uploaded_to` although the upload failed;
  failures of packaging, verification, encryption and renaming are not reported to
  the task and the migration log; a torn history file is "starting fresh"; two
  processes on one directory have no lock.
- Retention calls DeleteBackup with the lock it takes (`backup_test.go:798` notes
  it); `TestRetentionPolicy` passes because its backups share one second.
- With HA, a machine in `Creating` whose pod is dead is not restarted: no reconciler
  leaves that state. Start and Stop, which leave no note, may run again on a stale
  copy of the operation.
- The batch orchestrator ignores priorities and returns early without
  `continue_on_error`.

## 4. Properties

Every property relates state that different actors write, or a state to an earlier
one; types are checked within one of them, or proved.

- Manager: `StatusMatchesGoroutine`, `WebhookStory`, `GracefulSeesNoJob`,
  `ImplementsContract`, `EveryJobResolves`, `ShutdownReturns`.
- Queue: `OnePlace`, `MetricsBalance`, `FifoWithinPriority`, `ImplementsContract`,
  `EveryJobFinishes`.
- Pool: `Exclusive`, `SessionsBounded`, `NotClosedUnderUser`.
- Scheduler: `EntriesOwned`, `StoredIffKnown`, `EnabledIsScheduled`.
- Export: `PrefixOnDisk`, `SuccessIsWhole`, `CheckpointNotAhead`,
  `ImplementsContract`, `ExportEnds`.
- Command line: `ExportKept` (from the first success on, each file is whole
  somewhere: in the clear, encrypted, or in the bucket), `NoClearCopyLeft`,
  `ClearStaysHome`.
- Retryer: `WaitsOnlyIfMissed`, `CancelledReturns`.
- Hub: `MapIsOpen`, `DeadClientsLeave`, `ConnectionsClose`.
- Operator: `VerdictMatchesEffect`, `TerminalIsFinal`, `MigrationEnds`,
  `MachineSettles`. `MigrationEnds` excepts only a migration that was cancelled, or had
  a call fail or a write of the machine refused: edits, restarts of the operator and
  pods that die half way are not excuses. `MachineSettles` names the states that the
  code abandons: such a migration, a failed machine without HA, one whose pod died
  while it was being created.
- Dependencies: `RunsOnlyAfter`, `MissesOnlyEarlier`, `Served`.
- Backups: `RestoredIsWhole`, `CreatedIsKept`, `HeldWhileBusy`.

For each of them `PROJECT.json` names a mutant: a plausible bug in the code's step,
under which TLC finds the property violated. The definitions marked as mutants in
the modules are these.

Refinement: `JobManager` implements `JobContract` through `outcome`, `JobQueue`
implements `QueueContract` through `phase`, `ResumableDownload` implements
`ExportContract` through `Held` and the phase of the call. Cancellation is not in
the first contract because it stops nothing.

## 5. Fairness

- `JobManager!FairSpec`: weak fairness of each goroutine's own steps and of
  Shutdown's select. Go's scheduler runs every goroutine that can run, and the 30
  second timer of the select fires. No client has to submit or cancel, and an
  exporter may hang: `ShutdownReturns` holds all the same, and `EveryJobResolves`
  names the return of exporters as its hypothesis, since the code does not
  enforce it.
- `JobQueue!FairSpec`: workers and collector keep going. A handler may hang, since the
  deadline `processJob` gives it is a context it may ignore: `EveryJobFinishes` has the
  return of one worker's handlers as its hypothesis, and excepts a job whose own handler
  hangs. Nobody must enqueue or shut down. Jobs are finitely many, so starvation by an
  endless stream of more urgent ones, which the code allows, is outside the run.
- `ResumableDownload!FairSpec`: goroutines and the exporting call keep going; every
  request ends because it carries the context. Crashes need not happen.
- `Retryer`: a caller goes on, though its operation need not return; a goroutine
  inside `updateState` goes on. A loop's way out (`LoopExit`) has strong fairness:
  a select picks a closed channel in the end, though its ticker is ready again and
  again.
- `WebSocketHub`: a select takes a case that stays ready, a write returns by its
  deadline, a reader notices that its connection was closed. Live readers, handlers
  of new connections and broadcasts owe nothing.
- `VMOperator`: the two workers, the informers and the kubelet go on. Users and
  faults owe nothing.
- `DependencyTracker`: a run in its select does not stay where a side is ready for
  good (its ticker comes back). Jobs owe no report.
- `ConnectionPool`, `Scheduler`, `BackupManager`, `HyperExport` and `RetryManager` have
  safety properties only: nothing in the pool and in backups has to be served, and
  a command line may be killed for good.

## 6. Proofs

Every theorem is for all values of the constants; the assumptions are the named
`ASSUME`s of the component modules (finite sets of identities, non-empty bounds,
well-typed sizes and options, identities that are none of the marks a variable may
hold in their place) and the hypotheses of the theorems.

`JobManagerProofs`: `TypeSafe`, `StatusSafe`, `ResultSafe`, `WaitGroupSafe`,
`GracefulSafe`, `Refinement`, `StorySafe`. There are three inductive invariants. `TableInv` joins
the types, `StatusMatchesGoroutine` and `ResultTracksStep`, which says which
result and stamp each program counter implies: `ResultMatchesStatus` alone is not
inductive, because the result is stored before the final status is written.
`CountInv` joins the types and `WaitGroupCounts`; its step needs that adding or
removing one tracked job changes a finite cardinality by one. `GracefulSafe` follows
because a count of zero means an empty set; `Refinement` shows that `SubmitJob` is
`Accept`, `FinishJob` is `Resolve` and all else is a stutter. `StoryInv`, for
`WebhookStory`, bounds the events sent by where the goroutine is (`StoryOf`): nothing
has started before the goroutine did, and `CancelJob` can have been accepted once
before `executeJob` marks the job running over it and once after (`Cancels`), never
after the end, because it refuses jobs that ended.

`JobQueueProofs`: `TypeSafe`, `PlaceSafe`, `CapacitySafe`, `MetricsSafe`, `FifoSafe`,
`LostSafe`, `Refinement`. `PlaceInv` joins the types, `OnePlace` and where a worker's job
is; `FifoWithinPriority` needs `FirstRun` (a job that was accepted and never ran is in the
queue, and no stamp is ahead of the clock) and `RunsCounted`; the refinement needs `RunsCounted` for
the bound on runs. `MetricsBalance` is proved through `Balanced`, which counts the
same jobs as sums of cardinalities: each step moves one job from one set to
another.

`ConnectionProofs`, of the pool: `PoolTypesSafe`, `ExclusiveSafe`, `BoundedSafe`,
`InUseSafe`, `DeadSafe`, `NotClosedSafe`. The invariant adds `HoldsWhere` (a client
holds a session exactly between the receive and the Put) and `DeadLoose` (until the
pool is closed, a session that was logged out and keeps its place in the slice is
neither in the channel nor held).

Of the retryer: `MissedSafe`. `WaitsOnlyIfMissed` needs that a caller that waits is a
listener until Stop has closed the listeners (`WaitersHear`), since only then does the
monitor tell it or note that it could not; that a caller who waits or is about to has
an attempt left (`AttemptsLeft`), so that the channel of its attempt is one nobody has
used; and that Start looks before the loops run and Stop returns after they ended
(`LoopsInOrder`), so that no state is written without somebody to tell it.

`ResumableDownloadProofs`: `TypeSafe`, `PrefixSafe`, `SuccessSafe`, `CheckpointSafe`,
`BytesSafe`, `ImplementsExport`. None of the properties is inductive. `PrefixOnDisk`
needs `Aligned`: a transfer delivers the offset the disk lacks, which is where
`HonoursRange` is assumed. `CheckpointNotAhead` needs that memory is not ahead either
(`MemoryNotAhead`) and that a goroutine past its transfer has a whole file
(`Delivered`), and `SuccessIsWhole` needs that nothing is being transferred outside
the downloading phase (`Quiescent`), that packaging begins only when every goroutine
was awaited and succeeded (`Awaited`), and that what was packaged was whole
(`Packaged`). Under the same invariant every step is a step of `ExportContract` or a
stutter. `TypeSafe` and `BytesSafe` do not assume that ranges are honoured.

`HyperExportProofs`: `TypesSafe`, `KeptSafe`, `NoClearSafe`, `ClearHomeSafe`. `ExportKept`
is not inductive: removing a copy is safe because of what the stage implies. `Safe`
says which copies are whole at each stage that removes one, `Sent` what the bucket
holds while the run uploads, `Walked` that what is being written has yet to be
ticked off, `Clear` that past the rename nothing is left in the clear, and
`CallState` ties the stage to the state of the call of ExportOVF.

`DaemonProofs`, of the hub: `HubTypesSafe`, `OpenSafe`, `GaugeSafe`; the invariant adds
that a connection not yet registered has no trace (`Fresh`) and that nobody is
forgotten before Shutdown is done (`NoneForgotten`).

Of the backup manager: `RestoreSafe`, `CreatedSafe`, `BusySafe`, for any number of
creations, restores and deletions, chunks of an archive, seconds and crashes.
`RestoredIsWhole` is not inductive: RestoreBackup believes the checksum, so the
checksum must be of a whole archive; that one is computed from what is read back, so
what is at the path must be what was written; and an open file is the file at the path
unless a deletion took the name away (`FilesLinked`). `CreatedIsKept` needs the same of
the other direction: who is creating a backup is the manager's entry of its name
(`KeptOf`). The properties except collisions of names, so the invariant tells the story
of each backup that is alone under its name (`Alone`, `BackupStory`), and each step is
shown to touch the story of at most one name. `OneAtATime` ties the restore's place and
the lock to the calls inside.

`SchedulerProofs`, of the scheduler: `OwnedSafe`, `StoredSafe`, `ScheduledSafe`. A
handler finds a schedule by its ID and takes out the entry it has noted, so the
invariant adds that an object is held under the one ID it carries (`ObjectsPlaced`) and
that entry IDs were given out, to one schedule each (`EidsIssued`). The five handlers
all replace the entry of one ID by at most one new one (`Replaces`), and one lemma
shows that this keeps cron and the table in agreement (`TableReplaced`). An entry of an
object the table no longer holds is among the `leaked`, which is what AddScheduledJob
records of the object it replaces. A restart rebuilds both from the rows it could read and
gives each an entry ID, which is why `BoundsNat` asks for as many entry IDs as
schedules; whatever it could not read is `unstored` from then on.

Of the dependency tracker: `TrackerTypesSafe`, `OnlyAfterSafe`, `MissesSafe`,
`RobbedSafe`, `LeftSafe`; the invariant adds that who has its dependencies met while it
waits is in the history (`SatSeen`), and so is who was told (`SignalledSat`).

Of the retry manager, for every policy and any number of chains: `AttemptsSafe`,
`TriesSafe`, `EntrySafe`, `RetryTypesSafe`. The attempts exceed the limit by less than
the chains that may pass ShouldRetry together; `PassedBounded` counts those that have
passed and not yet been counted, and `Counted` says that a chain with a timer has an
attempt more than submissions, unless its entry was deleted under it.

`VMOperatorProofs`, for any number of operations and faults: `VerdictSafe`,
`TerminalSafe`. The reconcilers run on copies from a cache. `CopiesCurrent` says that a
copy whose write the server will accept is the server's; `PastNoteHeld`, that an
executor past its first note of progress can have lost the operation only to a
deletion; `CompleteIsTold`, that an operation which is complete, while nothing failed,
is with the worker that completed it or has been told of. Under the same invariant no
step changes a terminal phase (`TerminalIsFinal`).

Only proved, of the state the runs visit too but without a pair of their own:
`ResultMatchesStatus`, `WaitGroupCounts`, `CapacityRespected`, `LostOnlyInQueue`,
`InUseMatchesClients`, `DeadNotReturned`, `GaugeCounts`, `BytesKept`,
`RegisteredOrRobbed`, `LeftOnlyByTick`, and the types; and all of `RetryManager`, which
has no run (only tests use it), though TLC was run on a small instance of it before
the proof.

Every safety property of every run, invariants, step properties and refinements alike,
is stated by a theorem. Only model-checked: liveness (out of this prover's reach, like
ENABLED and induction over data), which is `EveryJobResolves`, `ShutdownReturns`,
`EveryJobFinishes`, `ExportEnds`, `CancelledReturns`, `DeadClientsLeave`,
`ConnectionsClose`, `MigrationEnds`, `MachineSettles` and `Served`. The inductive
invariants were checked by TLC as invariants before they were proved; for the operator
with one operation and with two.

## 7. How to run

    tlc -config JobManager.cfg JobManager.tla
    tlc -config HyperExport.cfg MCHyperExport.tla
    tlapm JobManagerProofs.tla

and likewise for the other pairs of module and cfg in `PROJECT.json`.

## 8. Plan

What remains, the ones where the code is most exposed first:

1. Contracts for the backup manager and the scheduler, as for jobs and exports (a backup
   is absent, kept or gone; a schedule known or not, through restarts), and the proof
   that the modules implement them.
2. `Daemon`: composes the job manager's contract with the two schedulers
   `main.go` and `enhanced_server.go` create, and the order of shutdown. Property:
   what the API answers is what cron runs.
3. A version of the source per run in `ResumableDownload` and `HyperExport`.
4. `CliDownloader`: an append-mode file and a checkpoint that lags behind it, under
   the same contract as `ResumableDownload`.
5. `BatchOrchestrator` and `Webhooks`: early return, unordered deliveries.
6. `Cache`, `RateLimiter`, `IncrementalTracker`.
7. Pure algorithms against reference definitions: next start of a time window,
   back-off delay with 64-bit overflow, choice of the export method.

## 9. Not modelled, and why

- Exporters and provider clients: they call remote services and programs; the
  models keep what the caller sees (progress, success, failure, silence). The
  libvirt handlers run virsh, whose semantics are not this code's.
- REST handlers, authentication, roles, audit, secrets, metrics, tracing,
  dashboard, formats, manifest, cost estimates, generated API types: translation of
  requests, maps behind one lock, or reporting; no protocol across steps.
- The operator's other controllers: those of backups, restores and schedules are
  placeholders whose steps are TODO comments, and the machine's reconcilers are not
  started by `cmd/hypersdk-operator/main.go` either.
- Parts no program starts: `RetryManager`, `DependencyTracker` and `BackupManager` are
  libraries with tests, and the daemon makes a session pool but nobody calls Get.
  They are modelled as their tests use them.
- In the modelled components: `Manager`'s choice of an exporter and its queries,
  the pool's statistics, the scheduler's `Stop`, its history table and next-run
  times, the export's descriptor, manifest, conversion pipeline and throttling, the
  retries' delays, the command line's interactive, batch, daemon and Nutanix modes.
- A virtual machine that runs between two exports: the source has one version.
- Clocks other than the queue's stamps, the scheduler's seconds and the backups'.

Seen while reading, and covered by no property: the queue's average time is weighed
with the count after it (`daemon/queue/queue.go:301`); two executions of a schedule in
one second make one job ID (`scheduler.go:384`); a file whole on disk but not in the
checkpoint is requested from its end in every later export (`export.go:821`); an
exponential delay overflows from the 34th attempt (`daemon/scheduler/retry.go:216`);
the cache's size (`cache.go:381`), the release of a slot by somebody else
(`ratelimit.go:287`), the paths of an archive (`backup.go:722`), the API's own
scheduler without the store (`enhanced_server.go:133`), the early return of a batch
(`batch_orchestrator.go:206`), one deadline for all attempts of a webhook
(`webhooks.go:84`) and the downloader's lagging checkpoint
(`cmd/hyperexport/parallel_download.go:449`).
