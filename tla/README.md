# Codex Remote Proxy in TLA+

Codex Remote Proxy (CRP) runs two kinds of long-lived process on the user's
machine. The **Supervisor** holds the configuration, the credentials and the
local API; it forks one **Worker**, the HTTP proxy on the fixed port Codex
talks to, feeds it configuration snapshots over IPC, drains it, and recovers it
when it crashes. This directory models that program: what each part may do in
every interleaving of calls, messages, timers, exits and crashes, what it
promises, and which of those promises are proved for every size of the system.

Contents: [inventory](#inventory) · [modules](#modules) ·
[runs](#runs) · [fairness](#fairness) · [proofs](#proofs) ·
[findings](#where-the-code-and-its-texts-disagree) ·
[not modelled](#what-is-not-modelled) · [plan](#plan)

Paths are relative to `src/node/src/` unless they start with `src/`.

## Inventory

### The parts and their state

| Part | Source | State it keeps | Operations |
|---|---|---|---|
| WorkerManager | `supervisor/worker-manager.mjs` | phase, child and epoch, confirmed generation, account revision and snapshot, operation in flight, waiters, crash times, recovery timer | start, applySnapshot, applyAccountState, stop, restart, close; handlers of message, exit, timers; recovery |
| Worker process | `worker/worker-entry.mjs`, `worker/` | generation, settings, account revision, phase, drains, server | configure, account-state, drain, shutdown, fatal, signals |
| ProviderService | `supervisor/provider-service.mjs` | confirmed generation and snapshot, FIFO of operations | create, edit, replace a secret, test, delete, activate, weight, routing mode, groups, Capture and its details, host, start, stop, restart, each with a rollback |
| ProviderRegistry | `providers/` | the document on disk: Providers, groups, settings | edits of each, compare-and-set, validation |
| Proxy server | `server.mjs`, `http/` | one closure per request, routing state shared by all | accept, route, attempt, fall back, fail over, stream, abort, finish |
| ProviderScheduler | `routing/provider-scheduler.mjs` | failures and cooldown per provider | plan, markResponse, markTransportFailure |
| Account routing | `routing/account-routing.mjs` | the account's block | decide, read quota headers |
| AccountMonitor | `supervisor/account-monitor.mjs` | app-server child, pending requests, account state | start, refresh, poll, notifications, close |
| AccessKeyStore | `access-key-store.mjs` | SQLite table of client keys | create, update, delete, authorize |
| Capture store | `capture-store.mjs` | state, accepting flag, pending tasks, index generation | apply config, begin and save a record, close |
| MetricsStore | `supervisor/metrics-store.mjs` | hourly and daily buckets, flush timer | record, prune, flush, close |
| ActivityStore and the other lock-file stores | `supervisor/activity-store.mjs`, `credentials/`, `providers/provider-model-cache.mjs` | one file behind a lock file | lock, read, replace, release |
| Codex integration | `codex/` | Codex' config, history files, a pending journal | inspect, apply, repair, resume |
| Migration | `supervisor/migration.mjs` | legacy files, journal, quarantine | migrate, resume |
| Supervisor | `supervisor/supervisor.mjs` | account routing state and revision, state file, readiness gate | start up, subscribe, runWhenReady, shut down |
| AdminServer, session auth | `supervisor/admin-server.mjs`, `supervisor/session-auth.mjs` | login codes and sessions | HTTP API over the services |
| Supervisor client, CLI | `supervisor/supervisor-client.mjs`, `src/node/bin` | the state file they find a Supervisor by | start, shut down, update, calls of the API |
| AutoStartService | `supervisor/autostart-service.mjs` | the login startup item | enable, disable, inspect |
| Web UI | `src/node/ui-src` | mode, CSRF token and workspace of each tab | launch, load, poll, change, resume |
| Scripts | `src/node/scripts` | none | packaging |

### How they interact

```
 CLI / UI --HTTP--> AdminServer --> ProviderService --calls--> WorkerManager
                                      |        |                 |  ^
                       ProviderRegistry   credentials       IPC  |  | IPC, exit
 AccountMonitor --subscription--> Supervisor --applyAccountState-+  |
                                                                 v  |
 Codex --HTTP--> Worker: server.mjs -- scheduler, account routing, keys, capture
```

* The ProviderService serialises its own calls, but the account subscription and
  the WorkerManager's own recovery run beside them and share the WorkerManager's
  one operation slot.
* The WorkerManager and the Worker are two processes: each message between them
  may be late, and either side may die with messages in flight.
* In the Worker, any number of requests share the scheduler, the account block
  and the current settings, which an IPC message may replace between two events
  of a request.
* Several processes (Supervisor, Worker, CLI) share the SQLite files and the
  stores behind lock files.

### What is hard, and what makes each part correct

* **WorkerManager and Worker.** Coalesced operations, late acknowledgements,
  exits at any point, kill timeouts, recovery racing calls. Correct when there
  is never a second Worker (they share a port), a stop and a close are final,
  what is called confirmed is what the Worker serves, account updates never go
  back, and every wait ends.
* **ProviderService.** Each operation changes the registry, a credential and the
  Worker, and any may fail after the others have succeeded. Correct when, idle
  and not reported degraded, the running Worker serves the registry's
  configuration, and generations never repeat.
* **Proxy request.** Events of an abandoned attempt, the client and timers race.
  Correct when a request ends once, is never replayed after an upstream may have
  seen it (with the exception of a 429 of the account route), and never reaches
  a provider its settings exclude.
* **Scheduler, account routing.** Concurrent responses out of order. Correct when
  a model that somebody serves has somebody to serve it, whatever is cooling, and no
  request goes to the account while it is blocked.
* **AccountMonitor.** Notifications between a request and its answer. Correct when
  the account it ends up with is the one Codex has, and no child is forgotten alive.
* **Stores.** Crashes between two file operations, several processes, settings and
  clocks that change under way. Correct when no committed record is lost, a lock
  that stays has somebody who knows, and counts are of what happened.
* **Codex repair, migration.** Crashes at any step. Correct when a later start
  can go on wherever one died, nothing is overwritten without a backup, and nothing
  half done is called ready.
* **Supervisors, commands, tabs.** Starts, removals, updates and requests overlap.
  Correct when the state file names who serves, an update reports what runs, and a
  tab shows its own changes.

Every one of these is a line of `hazards` in `PROJECT.json`, with the properties
that cover it, or the reason why none does.

## Modules

| Module | What it is |
|---|---|
| `WorkerProcess` | One Worker process seen from its IPC channel. |
| `WorkerManager` | EXTENDS `WorkerProcess`: the Supervisor's end, its callers, the composition of both. |
| `WorkerSlot` | What the WorkerManager promises its caller: the abstract specification. |
| `WorkerManagerSlot` | EXTENDS `WorkerManager`: the refinement mapping to `WorkerSlot`. |
| `WorkerManagerProofs` | EXTENDS `WorkerManagerSlot`: types, one Worker, what is stopped stays stopped, what is confirmed is what is served; the refinement, and the order of the account states. |
| `ProviderService` | The transactions of the ProviderService, over an INSTANCE of `WorkerSlot`. |
| `ProviderServiceProofs` | Theorems about what these transactions leave in the registry, in the credential store and in the Worker. |
| `ProviderScheduler`, `AccountRouting` | The choice of an upstream: candidates, order and cooldowns of the custom Providers; when the account may be used. |
| `ProxyRequest` | EXTENDS both: one request of the proxy among others, from its head to its end. |
| `RoutePreview` | EXTENDS `ProxyRequest`: what the preview says, against what a request does. |
| `ProxyRequestProofs` | EXTENDS `RoutePreview`: theorems about requests, scheduler, account and preview. |
| `LockedStore` | The four files that are changed under a lock file, call by call, by several processes. |
| `ProviderRegistry` | The registry's document and all of its edits. |
| `AccessKeys`, `CaptureManager`, `MetricsStore`, `AutoStart` | The client keys, the Forwarding Records, the totals of the Overview, the login startup item. |
| `CodexBootstrap` | The bootstrap of Codex' configuration with the repair of its history. |
| `Migration` | The legacy migration. |
| `RegistryProofs`, `MigrationProofs` | Theorems about the registry and the migration. |
| `SupervisorLifecycle` | Supervisor processes and the commands that start, stop and replace them. |
| `AccountMonitor` | The app-server child and the account it tells of. |
| `Console` | The tabs of the web UI and the sessions they hold. |
| `MCWorkerManager`, `MCProviderService`, `MCProxyRequest` | The instances for TLC: symmetry, requests, configurations. |
| `MCStorage`, `MCRecovery`, `MCControl` | Components that do not interact, in one run each: a behaviour chooses one of them at its start (`part`), the variables of the others stay `Off`. |
| `StorageProofs` | Theorems about `LockedStore`, `AccessKeys`, `CaptureManager` and `AutoStart`; these and the registry's carried over to `MCStorage`. |
| `RecoveryProofs` | Theorems about `CodexBootstrap`; these and the migration's carried over to `MCRecovery`. |
| `ControlProofs` | Theorems about `SupervisorLifecycle`, `AccountMonitor` and `Console`, carried over to `MCControl`. |

The components meet where the code makes them meet. `WorkerManager` composes two
processes and their channel; `ProviderService` is composed with the abstraction of
that, `WorkerSlot`, which `WorkerManagerProofs` proves to be implemented; a request is
composed with the scheduler and the account routing, and the preview with all of
them; `CodexBootstrap` is the configuration, the history and the status the
readiness gate reads; `SupervisorLifecycle` is the Supervisors, the commands and
the state file; `Console` is the browser and the server's sessions.

### WorkerProcess

`procs[e]` is the module state of the Worker that was forked in epoch `e`;
`toWorker[e]` and `toManager[e]` are its two IPC queues. IPC between a parent and
its child is a FIFO without loss while both live, so reordering and duplication
are not modelled; loss is: everything in the queues goes when the process dies,
except what the manager's side has already received.

| Action | Code |
|---|---|
| `StartWorker` | `startWorker`: the handlers are installed and `ready` is sent |
| `Configure`, `ConfigureFails` | `configure`: a new generation replaces settings and account revision |
| `ApplyAccountState`, `ApplyAccountStateFails` | the account-state handler |
| `BeginDrain`, `Drained` | `drain`; the second when the last request has ended |
| `Shutdown`, `FailWorker`, `FinishProcess` | shutdown, fatal and the exit they lead to |
| `UncaughtException`, `Signalled`, `Crash` | how a process dies on its own |

A handler is one action because the Worker chains them on one promise. Settings
are an element of `Configs`: nothing the properties say depends on their content.

### WorkerManager

The public methods share one slot, `#operation`: a method that finds it taken
returns the promise of whatever is in it. `operation` is that slot: which method
runs in it (`fn`), the await it is blocked in (`step`), and what it needs
afterwards. JavaScript runs to the next await without interruption, so the code
between two awaits is one action, and every event that may be delivered at an
await (a message, a timeout, the exit of the child, an answer of the health
probe, a port probe) is an action enabled at that step.

| State | Code |
|---|---|
| `phase`, `child`, `epoch`, `childExited`, `expectedExit` | `#phase`, `#child` (its epoch, 0 for null), `#epoch`, `exitCode`/`signalCode`, `#expectedEpochs` |
| `generation`, `accountRevision`, `lastSnapshot` | the confirmed facts of the same names |
| `crashTimes`, `recovery` | the crash window; the chain timer → port probe → gate → attempt |
| `operation`, `requestSequence` | `#operation`, `#requestSequence` |
| `closing` | `close()` and its result |
| `call`, `reply` | the ProviderService call that awaits the slot, and what its last one was answered |
| `accountRoutingRevision`, `accountWaiting`, `accountReady` | the subscription of `supervisor.mjs`, the updates chained on the slot and those about to try again |

`Next` has three parts: `ManagerStep` (operation, recovery and child events of the
manager), `CallerStep` (calls of the ProviderService, account changes, close) and
`ProcessStep` (the Workers). A promise continuation that is ready runs before any
other event: `MicrotaskPending` gives those actions priority, as the event loop
does.

Named abstractions:

* The delay between `send()` and its callback is left out; a send fails exactly
  when the child is gone or going.
* Timeouts may fire at any time their wait lasts: no clock is modelled, only the
  order of events.
* `CrashesAge` says whether crash times may leave the window; `SnapshotLag` and
  `GenerationLag` say how old the account state and the generation number of a
  snapshot may be when it is used. They stand for the ProviderService, which
  builds snapshots over awaits.

### WorkerSlot

The WorkerManager has some sixty actions and two processes with queues between
them. All the ProviderService can see of that is: one slot for one job; a call
that finds the slot free begins a job, one that does not gets the answer of the
job that is there; a Worker that serves a snapshot, takes what is sent to it in
order, and may be gone; an answer with the phase and the generation the manager
calls confirmed. `WorkerSlot` says this and nothing else, and
`WorkerManagerSlot` maps each variable: `inbox` is the `configure` messages on
their way to a Worker that is not stopping, `job` is the operation without its
steps, `recovery` keeps only whether the job is an attempt to recover. The
account revision is dropped: the ProviderService does not read it.

### ProviderService

`#runExclusive` runs one operation at a time, so the module has one record, `op`,
for the operation that runs: `op.step` is the await it is blocked in, and the
other fields are its local variables (`prior` is `previousSnapshot`, `prev` the
document before it, `gen` and `cand` the candidate, `persisted`, `attempted`,
`warned` and `broken` the flags and errors of the same meaning). The code is six
copies of one shape, and the actions are that shape:

| Actions | Code |
|---|---|
| `Activate`, `SetProviderWeight`, `SetRoutingMode`, `SetCaptureEnabled`, `SetCaptureDetailsEnabled`, `SetProxyHost`, `UpdateProvider`, `UpdateSecret`, `SetProviderSupportedModels`, the edits of mapping and rule groups, `SetApiKeyAuthEnabled`, `DeleteProvider`, `CreateProvider`, `TestProvider`, `StartProxy`, `StopProxy` | the guards of each method, and what it reads before its first await |
| `SetCredential`, `ResetTest`, `Commit`, `Fallback`, `Build`, `BuildFails`, `CallWorker`, `WorkerConfirms`, `WorkerRefuses`, `WorkerStopped`, `ForgetCredential`, `Recorded`, `RecordFails` | forward: credential, commit, snapshot, Worker, activity log, in the order each method has |
| `Probed`, `SelectInitial`, `SelectionRecorded`, `ClearSelection` | a test and the first selection |
| `Undo`, `RestoreSecret`, `UndoCall`, `UndoAnswered`, `Cleanup`, `CleanedUp`, `UndoCredential`, `RestoreTest` | backward |
| `Manager`, `ManagerFails` | what the slot does of its own accord |

A commit of the registry is synchronous, and so is the code after an answer of
the manager; such steps are `Urgent` and nothing of the environment comes between
them. A stretch of code is several actions only so that each branch has a name.

Each thing outside that may go wrong is a fault, counted by `Blame` and bounded
by `MaxFaults`: a commit or a credential that is refused, or done and reported
as an error (a lock that could not be released; it then may stay and refuse all
later commits), a credential that cannot be read, a log entry that cannot be
written, an acknowledgement that does not come, a Worker that dies, a fork that
fails. That a Worker refuses a stale snapshot is no fault: the service sent it.

Data is abstracted to what rollbacks must restore. Each setting has two values;
"rules" stands for everything the hot mutation edits without a side effect, "group"
for edits that no snapshot shows; the
preferred provider of a snapshot is the first of the pool, as between equal
weights. `secret` is whether the replacement is in use. `outcome` keeps what the
caller was told: "failed" (a plain failure), "degraded" (the rollback failed, and
the error says so), "committed" (done, with a warning), "unrecorded" (done, the
log failed). `trusted` is a history variable: false from a degraded end until an
operation builds a snapshot from the whole document again.

### ProxyRequest, ProviderScheduler, AccountRouting, RoutePreview

`createServer` makes a closure for each request; `requests[r]` is that closure,
and each callback Node may run for it is an action.

| Action | Code |
|---|---|
| `Accept`, `Refuse` | the request handler up to its first callback: access keys, the decision, how the body is taken ("preflight", "transform", "stream") |
| `BodyOverflows`, `TransformOverflows`, `FirstChunk`, `BodyEnds` | the data and end handlers |
| `Connects`, `Timeout`, `UpstreamErrors` | the handlers of an upstream request, with the failover |
| `AccountResponds`, `ProviderResponds` | `onUpstreamResponse`, with the fallback from a 429 of the account |
| `ResponseData`, `ResponseEnds`, `DownstreamFinishes`, `ResponseBreaks`, `BrokenErrors`, `ClientAborts` | the answer and its ends |
| `Configure`, `ApplyAccountState` | IPC messages that replace what requests share |
| `OtherResponds`, `OtherErrors` | what requests that are not followed do to cooldowns and block |

A request reads the settings and the account state once, at its head, and the
block, the cooldowns and the clock whenever it decides: the record keeps `cfg` and
`account`, the rest is shared. Every callback of an attempt first compares it with
the current one, so an attempt that was given up has no actions. `delivered`,
`captured` and `metered` are what the outside sees of a request. A body is its
model, whether that can be read, where it stands and whether it outgrows the replay
buffer; an event stream is whether its end was seen, and as what.

### The stores

`LockedStore` is one protocol with four variants: the activity log, the credential
file, the registry and the model cache open a lock file with "wx", write a token,
load, replace by rename, and each releases in its own way. Each file call is a step
of one process; it may fault, and a process may die between any two.
`CaptureManager` writes the calls as operators from a manager to a manager, since
one event makes many of them; threads of the index end at any later time.
`MetricsStore` keeps the clock as a variable that may go back. `AccessKeys` has the
edit of a row and the count of a request interleaved statement by statement.
`ProviderRegistry` has one action per edit of the document, each followed by the
validation of the whole copy; it is instantiated five times (`Pool`, `Groups`,
`Clocks`, `Choices`, `Settings`) with the part of the document an instance is about.
`AutoStart` has each call of the file system as a step, with inodes, so that the
file which was inspected need not be the one that is written.

### CodexBootstrap and Migration

Programs of file operations that may fail or die at each, with several of them at
once. `pc` is the next operation; a configuration is its hash, an owner a process
and its life, a journal what it is bound to. `CodexBootstrap` also has the user who
edits the configuration, a Codex that appends to its sessions, and the status,
which reads lock, journal, configuration and history one after the other while a
bootstrap goes on. The backup of the rollouts is of what was read of them; a database is
backed up under the transaction that later changes it, so that Codex may write to it until
then and not after. In `Migration` a file is who wrote it, what it is and what it is
about, which is its inode and its content at once.

### SupervisorLifecycle, AccountMonitor, Console

`SupervisorLifecycle` has the system calls on `supervisor.json` and its `.stale`
name, the probes and the bound shutdown, of Supervisors and commands that may die;
an update is a command that goes through shutdown, installation, start and
possibly the way back. A process that is signalled twice, or before it has a handler, ends
where it is, and a close that got stuck is tried again by the next SIGTERM. `AccountMonitor` has the children it ever spawned, each with
its requests and its lines; the account is a version, so that an old answer can be
told. `Console` has the cookie of a browser, its tabs with the refs of `app.tsx`,
and the requests on their way, each with the cookie it took along and the answer it
was given; the data of the Supervisor is the number of its changes.

## Runs

Every constant that ends a run is marked "bound" where it is declared and has its
value in the cfg. Deadlock is not checked: at the bounds, and after a close, the
system may stop.

| Run | Question | Instance, and why it is enough |
|---|---|---|
| `WorkerLifecycle` | Never two Workers (`AtMostOneWorker`) nor one the manager forgot (`NoOrphan`); a stop and a close are final (`StaysStopped`); the WorkerManager implements `WorkerSlot` (`ImplementsSlot`) | 3 forks, 2 generations, 3 crashes: a crash, its recovery and a restart that races it fit in one behaviour, and the third crash is the one that gives up. |
| `WorkerSnapshots` | What is confirmed is what the Worker serves (`ConfirmedIsServed`); account states are applied in order, and none ends its Worker as stale (`AccountStateInOrder`) | 1 Worker, 2 configurations, 3 generations, 2 account revisions, snapshots one revision late, 3 requests: a timed-out acknowledgement, its late arrival and a third request that could mistake it; an account update in flight and a configure that carries an older one. |
| `WorkerProgress` | Every operation, call, backoff and close ends (`NothingHangs`) | 2 forks, so that an operation can end in a recovery and a later call; crashes that never age, so that the budget of 2 is used up. |
| `ServiceSettings` | Registry and Worker agree (`Agreement`), one fault is undone (`OneFaultIsUndone`), what is reported done is applied (`CommittedIsApplied`), every operation ends (`TransactionEnds`) | 1 Provider, 5 generations (three operations that reach the Worker, or two with a rollback), 1 fault anywhere; the proxy is started by its restart. |
| `ServiceProviders` | Each configured Provider has its credential (`ProvidersHaveCredentials`); a failure changes nothing (`FailedChangesNothing`) | 2 Providers up to symmetry, first none preferred: create, test, select, edit, replace a secret, delete, with the proxy stopped or in service. |
| `ServiceActivation` | A failed activation leaves the old Provider in both places (`Agreement`) | 2 Providers, account updates in the slot, 1 fault, edits of rules, groups, Capture and its details between. The log works and nothing is stopped: see the observations. |
| `Proxy` | At most one upstream has a body (`DeliveredOnce`), one true record of a request (`OneTrueRecord`), sent under its own settings (`SentAsConfigured`), a blocked account is left alone (`AccountLeftAlone`), nobody is left out (`NobodyLeftOut`), the preview is true (`PreviewTellsTruth`), every request ends (`RequestEnds`) | 1 request of 6 kinds, 2 Providers, 3 models, 2 configurations and 2 account states that may replace each other at any time, one answer or error of another request, a clock that moves on once. Requests share only block, cooldowns, settings and account state, and whatever another request can do to them is an action of its own. Two Providers are enough for each branch of a failover, a rule that prefers one of them, and a tie of weights. |
| `Storage` | `NoLostWrite`, `LeftLockIsKnown`; `GrantsCounted`; `RecordsGoHome`, `CaptureSettles`; `HeatmapCoversHours`; `EditsStayValid`; `StartupItemIsTrue` | 2 processes, 3 changes of 3 keys with room for 2 (the third event drops the oldest, the third model list is refused), 2 faults and a death; 4 requests and 3 edits of a key; 4 applied settings over 2 databases and 2 records; a clock of 3 hours that is longer than the retention; 2 Providers or groups; 2 changes of the startup item among 2 of other programs. |
| `Recovery` | `RepairIsSafe`, `LeftLockRecoverable`; `QuarantineResumes`, `UnlockedIsWhole` | 2 bootstraps over a rollout and a database with one fault, one death, one edit and one reading of the status; 3 migrations at 2 places with one fault and one death. A second rollout is handled as the first. |
| `Control` | `RunningIsNamed`, `UpdateKeepsItsWord`; `QuietIsTrue`, `ForgottenIsEnded`; `ReadsOwnChanges` | 3 Supervisors, 2 commands at once, a fault and a death; 2 children, 2 changes of the account, 2 refreshes, 2 faults; 2 tabs, 3 sessions, a change, a poll, a fault. |
| `ServiceSecretWarned`, `ConsoleTerminal` | Statements of the repository that the code does not keep | see below |

The `Service` runs have one fault each because the code promises to undo one; two
may leave a state it reports as degraded, which `trusted` takes out, or, without
a report, the second generation that is used twice (see the observations).
`OneFaultIsUndone` is checked without account updates in the slot: with them a hot
update may be answered with the result of an account update, is rolled back
although nothing failed, and its rollback may meet the next one. It leaves out the
replaced secret and the Capture details: their rollback waits for the credential
store, a recovery gets in between, and one fault is reported as degraded.

`TypeOK` and every other property has a mutant: a change of one mapped operator,
of the kind a plausible edit would make, under which the run finds it violated.
The mutants stand beside the operator they replace, with their own comment.

The history variables that take a case out of a property each stand for one of the
observations below, and are named for it: `trusted`, `overtaken`, `mixed`,
`crossed`, `raced`, `stale`, `redisabled`, and `blind` and `lost` of
the startup item.

## Fairness

`FairSpec` of `WorkerManager` assumes weak fairness of three things only: promise
continuations that are ready (`Microtask`), the events of the operation in flight
that come from the runtime itself (timers, which the code arms for every wait, and
the port and health probes, which have timeouts of their own), and the same for the
recovery. The guards put continuations first, so weak fairness of the others is
what an event loop gives. Nothing is assumed of anybody else: callers need not
call, a Worker need not answer, a client need not end its request (so `Drained` may
never happen), and a process need not die of a signal. `NothingHangs` holds against
all of that. That a close ends means "done" or "retry": a child that survives
SIGKILL makes `close()` reject, as in the code. That a backoff ends needs crashes
that stay in the window: with crashes that age, a Worker that keeps crashing slowly
is recovered for ever, which is intended.

`FairSpec` of `ProviderService` assumes weak fairness of the operation that runs
(its file accesses end) and of `Manager`, the steps of the slot that need no luck:
`NothingHangs` of the WorkerManager is the reason. Nothing is assumed of `Calls`
and `ManagerFails`.

`FairSpec` of `ProxyRequest` assumes that a client sends the rest of its body or
goes, while nobody waits for an upstream (Node ends a request that does not come),
and that it takes a finished answer or goes; that the timer of an attempt fires
unless the attempt ends; and that a destroyed socket has its event. Upstreams need
not connect, answer, or end an answer, and while one is waited for the client need
not go: `RequestEnds` holds by the timers.

## Proofs

Each theorem holds for every value of the constants that the assumptions of its
modules admit: any number of Workers, requests, Providers, keys, processes, crashes
and faults. TLC checked each inductive invariant on an instance before it was proved.

| Module | Theorem | Says |
|---|---|---|
| `WorkerManagerProofs` | `TypeCorrect` | `Spec => []TypeOK`, messages in flight included |
| | `NoOrphanEver` | `Spec => []NoOrphan`: a live Worker is the child the manager holds |
| | `OneWorker` | `Spec => []AtMostOneWorker` |
| | `StopsStay` | `Spec => []StaysStopped`: nothing runs after a stop or a close |
| | `ConfirmedServed` | `GenerationLag = 0 => (Spec => []ConfirmedIsServed)` |
| | `SlotImplemented` | `Spec => ImplementsSlot`: WorkerManager implements `WorkerSlot` |
| | `AccountStatesInOrder` | `Spec => AccountStateInOrder`, an action property |
| `ProviderServiceProofs` | `ProvidersKeepCredentials` | `Spec => []ProvidersHaveCredentials` |
| | `FailuresUndo` | `Spec => [][FailureUndoes]_vars`: what is left after a plain failure |
| | `FailuresChangeNothing` | `Spec => FailedChangesNothing`, where "details" is not in `Operations` |
| | `SuccessesApply` | `Spec => [][SuccessApplies]_vars`: what is left after a success |
| | `CommitsAreApplied` | `Spec => CommittedIsApplied`, where "secret" is not in `Operations` |
| | `WorkerAgrees` | `Spec => []Agreement`, where the operations are `InStep` |
| | `OneFaultUndone` | `Spec => OneFaultIsUndone`, an action property, without account updates |
| `ProxyRequestProofs` | `BodiesDeliveredOnce` | `Spec => []DeliveredOnce` |
| | `RecordsAreTrue` | `Spec => []OneTrueRecord` |
| | `AlwaysSentAsConfigured` | `Spec => []SentAsConfigured` |
| | `AccountIsLeftAlone` | `Spec => AccountLeftAlone`, an action property |
| | `PlanLeavesNobodyOut` | `Spec => []NobodyLeftOut` |
| | `PreviewIsTrue` | `Spec => []PreviewTellsTruth` |
| `StorageProofs` | `StoresLoseNothing` | `Spec => NoLostWrite`, an action property |
| | `LeftLocksAreKnown` | `Spec => []LeftLockIsKnown` |
| | `KeysAreCounted` | `Spec => []GrantsCounted` |
| | `RecordsStayHome` | `Spec => []RecordsGoHome` |
| | `CaptureEndsAsAsked` | `Spec => []CaptureSettles` |
| | `StartupItemStaysTrue` | `Spec => StartupItemIsTrue`, an invariant and an action property |
| | `RegistryEditsAreMade` | `Spec => []EditsStayValid`, in each of the five registry parts |
| `RecoveryProofs` | `BootstrapsAreSafe` | `Spec => RepairIsSafe`, an invariant and an action property |
| | `DeadLocksCanBeTaken` | `Spec => []LeftLockRecoverable` |
| | `InterruptedQuarantinesResume` | `Spec => []QuarantineResumes` |
| | `ImportsAreAllOrNothing` | `Spec => []UnlockedIsWhole` |
| `RegistryProofs` | `EditsAreNotRefused` | `ConstantsFit => (Spec => []EditsStayValid)`, of the registry by itself |
| `ControlProofs` | `ServingIsNamed` | `Spec => []RunningIsNamed` |
| | `UpdatesAreTrue` | `Spec => []UpdateKeepsItsWord` |
| | `MonitorIsTrue` | `Spec => []QuietIsTrue` |
| | `NoChildIsForgotten` | `Spec => []ForgottenIsEnded` |
| | `TabsReadTheirChanges` | `Spec => []ReadsOwnChanges` |

They rest on the assumptions declared with the constants and on the hypotheses named here.
`ConfirmedServed` needs `GenerationLag = 0`: a snapshot is built on the generation
that is confirmed then, which the ProviderService ensures by running its operations
one at a time; with a lag, a generation may be used twice with other settings. The
theorems about `LockedStore` need `NamesApart` (no process is called "nobody" or
"absent"), those about `CaptureManager` need `PathsApart` (no database is named as
what stands for none), those about the registry `ConstantsFit` (null is no
Provider and no group), those about the Supervisors `ClientsApart` (no
command is numbered like a Supervisor), those about the monitor `ChildrenFit`; `MCStorage`
and `MCControl` assume them and TLC evaluates them. `FailuresChangeNothing` leaves
out the change of the Capture details and `CommitsAreApplied` the replacement of a
secret: with them the properties are false, by two faults and by the run
`ServiceSecretWarned`. `FailuresUndo` and `SuccessesApply` say what holds of all
operations, these two included. `WorkerAgrees` is about any number of faults, and leaves
out (`InStep`) activations, changes of the Capture details, and a routing mode
whose log entry may fail: with each of them `Agreement` is false once enough goes wrong
(a stop and one fault, two faults, three; the observations say how). With one fault, and
without the stop, the runs `ServiceSettings` and `ServiceActivation` find it true of
them, too. `OneFaultUndone` is about every operation, activations included, and needs two
things: that there are no account updates in the slot (`~AccountUpdates`: with them the
property is false, as said of its run) and that "no snapshot" is not a snapshot
(`NoConfig \notin Configurations`, null in the code).

**One Worker.** `AtMostOneWorker` is not inductive: `Fork` makes a process alive
and never looks at the older ones; that they are dead is a fact about the path
that led there. `NoOrphan` says where a live process may be (it is `child`, and
has not been seen to exit) and gives `AtMostOneWorker` at once, but is not
inductive either, for `Fork` replaces `child`. What makes forks safe is that
`start` forks only from the phase "stopped", and `restart` only after its port
probe. `OneWorkerInv` adds exactly those facts:

* `child` is 0 or the current epoch;
* in the phase "stopped" there is no child;
* a restart that probes the port has no child, or one that has exited.

The recovery's own guard (`CanRecover`: backoff and no child) carries its fork.
Each action then either leaves the processes alone (`KeepsOneWorker`), only lets
one die, or forks with nobody alive (`NoneBorn` states the two halves).
`NoOrphan` is the reason `KillTimeout` must keep `#child`: the mutant that
releases it breaks the theorem and the run alike.

**A stop is final.** `StoppedInv` ties the last answer, the phase, the operation in
the slot and the recovery together: when the last answer was "stopped", the phase is
still that, nothing runs in the slot, and no recovery attempt has just been refused
(its handler would set the phase); when a close is done there is no child and no
operation. Every operation keeps it through `SettleKeepsStopped` and
`ThrownKeepsStopped`, the two ways one can end.

**Confirmed is served.** A fact about both ends of a channel. `BooksInv` is what the
manager has written down: which operation waits for what, in which phase there is a
child, that the confirmed facts belong to one snapshot, and that a caller who joined
an operation of somebody else wants a generation which that operation cannot confirm.
`ServiceInv` is about what was said: a request with the id of the operation carries
its snapshot, an answer with that id means that the Worker has got that far. Late
answers are harmless because the ids differ, and that is where the proof uses
`requestSequence`.

**The slot.** `SlotImplemented` is what lets `ProviderService` be checked over
`WorkerSlot` instead of the manager. Step by step it needs the invariants above,
and one thing they do not say: when a start or an apply succeeds, the Worker has
taken the snapshot and nothing else is on its way to it (`ServesOrGone`). `SlotInv`
gets there from the request ids: the queue to a Worker is in their order, the
`configure` of the operation in flight carries the last id given out, and an
acknowledgement means that its `configure` was taken before everything still queued;
so the queue is empty (`AcknowledgedTaken`). The `inbox` of the slot is the `n`-th
`configure` of that queue for each `n`; the first lemmas say how these ranks move
when a queue grows at its end or is read at its head (`SnapsAppend`, `SnapsTail`).
It holds without `GenerationLag = 0`: the slot promises an answer with what is
confirmed, not that it is what the caller wanted.

**Account states.** `applyAccountState` compares an update only with the revision the
Worker has confirmed, while a `configure` may bring it a newer one that is not confirmed
yet; a Worker that got an update no newer than what it has would end itself.
`RevisionsInv` says why it never does. What is in a queue to a Worker is older than
an update behind it (`OrderInv`), and nothing is newer than the latest revision of the
Supervisor (`SentInv`). An update that waits for the operation in flight is either
newer than all the Worker has or was sent, or that operation confirms it: by then the
comparison drops it (`PendingInv`). An operation that fails confirms nothing, and the
updates that waited for it are gone with it. Those that wait no more call again in
ascending order, before the next event of the manager. No bound on the lag of a
snapshot is needed.

**Transactions.** The Worker and its manager may do anything here: their steps leave
the stores and the operation alone, and an answer decides only where the operation
goes. `TransactionInv` says of each step which operation can be there (`KindsInv`) and
how the registry stands to the documents `prev` and `next` of the operation
(`DocumentInv`): as before, as asked, or as before again unless the rollback is known to
be broken. `Asked` is why the partial rollbacks are enough: what an operation changes of
the document is what its rollback writes back (`UndoneIsBefore`). The secret and the
credentials have an invariant each; the order matters for both, since a created
provider is in the registry only when its credential is stored, and the credential of a
deleted one goes only when the registry has let go of it. One lemma for each action
shows the invariant and what an end of the operation must be (`Kept`). The number of
faults is not used: after several an operation may be degraded, but a plain failure is
still one that changed nothing.

**Registry and Worker.** `LinkInv` is about any number of faults, so it cannot say what an
answer will be; it says what an answer means. What is confirmed in the manager is what the
service knows of, but for a candidate just taken (`ConfirmedInv`), since the generation
of a candidate is new (`GenerationInv`) and a call that joined somebody else's job is
answered with what that job confirms, never with the candidate. So an operation that calls
the Worker is in one of three states: the candidate is taken, and served (`Taken`); it
may be served, and the operation is on its way to its rollback (`Tried`); or what is
confirmed stands for the document from which the operation began (`BasisInv`). A rollback that
is confirmed makes the last of the second, because what it goes back to stands for the document
that was (`PriorInv`), to which `TransactionInv` says that the registry returned; one that is
not ends degraded, and then nothing is promised until a snapshot is built from the
whole document again (`trusted`). A start that fails or a stop has no second state:
it leaves a Worker that is gone or that serves what it served. What may bring a Worker back
without a call, a recovery, starts what is confirmed (`SlotShape`), which is why
`BasisInv` speaks of the backoff as well (`Live`); and an operation that began while nothing
ran finds nothing that could come back, for its document is in no snapshot
(`AttemptInv`). The steps of the manager need one lemma each (`ManagerSteps`): they confirm
nothing but what was confirmed, or the candidate of the call that waits for it.

**One fault.** The property is about a count, so its invariant is in two halves (`FaultInv`).
While nothing has gone wrong, but for a lock that was left behind (`Intact`; the lock makes
the next commit fail without another fault), `Good` says that no operation is on a way back,
but for the deletion of the last provider (`StepGood`), and why none can get there: between
calls the manager rests and the Worker serves what is confirmed (`Resting`), so a call finds
the slot free and takes its way to the answer that was asked for (`Flying`, `Landed`),
under a generation that is new to the Worker (`GenGood`); what ran when the operation began
still runs (`PhaseGood`); and the preferred provider of a Worker in service is tested and has
its credential, so a snapshot can be built (`DocGood`). A step that is refused
therefore has had its fault. From then on, and as long as it is the only one, `UndoInv` says
that the rollback has the slot for itself and cannot be broken, that the Worker is asked for a
generation it has not seen (`RollbackIsNew`), and that the answer either confirms the
rollback or finds no Worker (`Lost`); a registry whose lock stayed behind cannot be
in the way, for that was the fault. Three operations are left out (`Special`), for which the
property does not speak. `BackInv` keeps, for any number of faults, what a rollback needs to
be asked for: a snapshot to go back to, and documents that are in order. Each action has a lemma
(`Sound`): it keeps `FaultInv`, and if it ends an operation degraded after one fault, the
Worker is gone.

**Requests.** A request is untouched, going or settled (`RequestsSound`). One that
goes is aimed at somebody who may have it as soon as it has an attempt, its capture
context names that target, and until a socket of the current attempt is established
nobody has the body but accounts that turned it away. One lemma for each function of
`server.mjs` says that it leads from there to a going or a settled request; the three
invariants are what those two words mean. For the scheduler, a finite set that
is strictly ordered can be sorted (`SortingExists`), so the plan exists and has each
candidate, which `NobodyLeftOut` and the preview need. The account is left alone
because every way to it reads the block in the same step (`AccountFree`). For the
preview both sides are computed: `DecisionForm` says when the preview decides for the
account, `HeadedForm` what the head of a request leaves, and `SamePlan` that the plan
for no model is the plan for any where the model decides nothing.

**Stores.** `GrantsInv` adds to the count that an edit is of a key which is still
there, since only edits remove keys and they are one at a time. `StoreInv` has one
writer between the making and the removal of the lock (`OneWriter`), whose `seen` is
the file as it is; and, until a process dies, somebody who answers for each lock and
gate (`Answered`), a process at work or a store that says it left one. The four
variants share one lemma on what a step of one process must not do to the others
(`AllowedKeeps`).

**Registry.** `#commit` refuses a document that is not valid, so that the registry stays
valid whatever an edit does; what is proved is that an edit never makes another one.
`RegistryInv` adds to `Valid(registry)` only the types and that the groups can be counted,
for their number is limited and validated. Each edit has a lemma on the document it makes:
what a deletion leaves refers to nothing that is gone (`RemovedKeeps`, `PrunedIs`), names
stay distinct when one is added or changed (`DistinctWith`), and an edit writes the present
as its stamp, which is why a clock behind a stamp is the only excuse.

**Capture and the startup item.** `CaptureInv` says of the manager what holds between
two events. What is on its way is wanted (`AttemptOK`): a thread whose preparation is
neither cancelled nor settled and is of the database the settings name, or an attempt
that waits for other threads, never both, and only in the state "enabling". The
database stands for the requests in flight (`DatabaseStands`): one is open exactly while
Capture records or is being disabled, and then it is the one they began under. And the
state is one that the settings ask for or is on its way there (`SettingsStand`). Each
call of the manager has a lemma on the fields of what it returns; an event is a few of
them in a row. In the middle of an `Apply` the attempt on its way may be of the settings
before, which is why `AttemptLives` is what `EnableFromConfig` needs. Without the
exclusion `redisabled` the invariant fails at once: a second disabling in the state
"disabling" sets "disabled" and leaves the database open. `ItemInv` follows one call of
`setEnabled`: the file that was inspected or opened is the item still, or there is none,
or another program's is there (`Replaced`), and what the call has opened was managed by
CRP when it was opened; so nothing foreign is written. Until the contents are written
an item that is to be enabled is enabled only if it was before (`BeforeInv`).

**Bootstrap.** The argument is about the journal. As long as a configuration that asks
for no repair stands beside a history that needs one, there is a journal (`Renames`); a
run that may publish has written or found one, and only a run that found the whole
history repaired takes it away (`Journalled`). The status reads the journal under both
its names after the configuration, in the order in which it is renamed, so that what it
has read so far binds what is there (`Read`). What is rewritten was backed up in the
version it has, or is held by a transaction (`Backed`). An edit by the user in the
middle of a status takes the configuration out of its hands: `status.edited` says so,
and `ReadyIsRepaired` is about the others. The proof does not use the bound on writes.

The lock a dead bootstrap leaves (`LockInv`): at every step of a run, lock, journal and
configuration agree (`GoesBy`), so that it may die after any of them. This holds while
nobody else changes them, which is so as long as the lock is in its place and was taken
on a true look at the journal with nobody else at work; the history variable `stale`
says when it was not, and the property is about the other locks. A journal names the
configuration that was there, or the patched one is in place (`JournalFacts`): what a
resumed run writes into its lock rests on it.

**Migration.** `IInv` says who owns what as long as nothing was raced for. A start that
has come as far as the registry holds both locks with its own token (`OwnLocks`); the
journal is the one it has written, or there is none (`OwnJournal`); what a resuming start
has seen in the locks was left by starts that are no more (`SeenInv`); what an import has
written is what its rollback knows of (`OwnImport`). Two parts belong to nobody, since
the starts they are about may be dead. `JournalInv`: a whole journal is about one invalid
registry that lies beside it, under its own name or as the marker, and about no lock of
another start; that is what `QuarantineResumes` reads off. `BrokenInv`: an import in pieces
lies under two locks of the start that left it, no journal of that start and no resume
can take them away, and if that start lives it is undoing the import or has given up;
`UnlockedIsWhole` follows at once. An import whose file is "forgotten" is none of these
pieces, for its rollback does not know of it: the invariant counts the "scrubbed" files,
which each start that has not ended knows. Every step is shown to keep this for the start
that takes it, and to be a `Deed`: one of the few things a start may do to the files,
none of which the invariant of another start minds (`OthersOwn`). A file may be taken
away in one step and found to be the wrong one in the next; the history variable `raced`
is set when that happens, and the invariant ends there.

**Supervisors and updates.** `NamedInv` follows the name of the Supervisor that serves. Only
one listens, for the port is one; a removal past its look at the file is of a Supervisor that
is dead, or of its own (`DeadOrOwn`); and as long as no two removals crossed there is one at
a time (`OneRemoves`). So the file of the one that serves can only be renamed by a removal
that has not looked yet, which puts it back (`Named`). `UpdateInv` gives each place of an
update its stage (`Stage`), and each stage what it knows (`Versions`): while it stops the old
one, whoever else lives was started after the installation; when that has ended, all that
live run the new version, and so does whoever is found. A behaviour has one update, for two at
a time would install over each other, and `mixed` is set when another start falls into an
installation. Both rest on what time does to a Supervisor (`Aged`): nobody comes back, and whoever is new runs
what is installed.

**Account monitor.** What is true of the monitor is said of the lines that are on their way
to it. A line was true when it was written, or a line that announces the change is behind it
(`LinesTrue`); a line or a request that carries the number of the one that waits is an answer
of its kind (`Meant`), so that an answer which comes late, or after a restart, is not taken
for another. From both it follows that what a refresh has read is the account, as long as
no announcement is on its way (`ReadTrue`); `overtaken` is the one case in which it is not.

**Tabs.** `ConsoleInv` is about each tab and the requests it has on their way (`TabInv`), so
that a step of one tab, or of the server, needs to be looked at for that tab only. A load
that is on its way, or a poll that will still be taken (its number is the latest), has read
the data, or will read them, after the last change of its tab (`ReadOk`): a change is
known to the tab in the step that begins the load after it, which cuts off the load before
and takes a new number. Which requests a tab may have at once is
said per mode (`KindOk`, `PairOk`): the first load is alone, and a resume is not beside a
change. `Shown` is the property, for tabs that have not ended.

**From component to run.** The runs `Storage`, `Recovery` and `Control` check a composition in
which a behaviour is one component's. Their proof modules show that such a behaviour
satisfies the component's `Spec` (`LockedPart`, `BootstrapPart`, `LifecyclePart` and so on)
and use what is proved of it, through the INSTANCE, so that the definition which is proved
is the one the run checks.

**Model-checked only.**

* All liveness: `NothingHangs`, `TransactionEnds`, `RequestEnds` (fairness and
  ENABLED are beyond the prover).
* `ConfirmedIsServed` for snapshots built on an older generation.
* `Agreement` for the operations that `WorkerAgrees` leaves out, within the bounds of
  their runs.
* `HeatmapCoversHours` of `MetricsStore`: it compares sums over sequences, which only an
  induction over data could prove.
* The cited types of `ProxyRequest` are parts of its invariants; its whole state has
  no type theorem of its own.

## Where the code and its texts disagree

Two runs end in a violation of what a text of the repository says.

1. **A warned test reset swallows the update** (`ServiceSecretWarned`). A secret is
   replaced, the reset of the test is committed with a warning, the other fields of
   the update are never written, and the message says "The provider update was
   saved".
2. **The terminal page is left** (`ConsoleTerminal`). A first load that is answered
   401 ends the tab, and the end of the initialization it was part of puts it back
   to read-only: a page with a refresh that can only fail. The README of the
   repository says "A failed launch exchange or later business-session/CSRF failure
   is terminal for that tab."

### Observations

What the models show beside these. None has a run of its own; where one would
violate a property, the property names the case it leaves out.

**WorkerManager.**
* `stop()` returns the promise of the operation in flight. If that is an account
  update or the start of a recovery, it resolves with the phase "running", the
  Worker runs on, and `stopProxy` records a success (worker-manager.mjs:290;
  src/README.md:169 says "`crp stop` stops only the proxy Worker").
* A recovery starts with the account state of the last confirmed snapshot: an update
  that was lost with the crashed Worker, or came in the backoff, is in none
  (worker-manager.mjs:797). The comment at supervisor.mjs:628 says "The latest state
  remains in the next Worker snapshot when no Worker is running."
* A Worker that exits between its health answer and the phase "running" is put in
  service dead, and no recovery replaces it (worker-manager.mjs:420). A test says
  "an unexpected exit backs off 250 ms" (worker-manager.test.mjs:812).

**ProviderService.**
* `activate` takes the candidate for confirmed and then records its success, in the
  same try block (provider-service.mjs:1191). If the log cannot be written, the
  registry goes back, the rollback snapshot is a copy of the candidate, and the
  Worker keeps a Provider the registry does not prefer, which src/README.md:83
  excludes. `ServiceActivation` therefore has `Recording = FALSE`.
* Only the starts and the rollbacks look at what was used beyond
  `confirmedGeneration`: after two lost acknowledgements the next candidate has a
  generation that is stale for the Worker, which ends itself. Two faults, so no run.
* A failed activation starts a stopped proxy with old settings: after a stop and an
  edit, an activation whose start fails restarts the snapshot that was confirmed
  before the stop. `ServiceActivation` shows it as a violation of `Agreement` when
  "stop" is added to its `Operations`.
* `setRoutingMode` takes its candidate for confirmed only when the log has it. When the
  log fails and the Worker then does not confirm the rollback, the candidate's
  generation is used but not counted; if the Worker dies, its recovery starts that candidate,
  and the next operation, whose candidate gets the same generation and whose call
  joins the recovery, takes it for its own and reports a success with the mode in service
  that was rolled back. Three faults, so no run; `WorkerAgrees` names the case.
* The rollback of a replaced secret and of the Capture details waits for the
  credential store, so that the recovery of a Worker that died gets in between, and
  one fault is reported as degraded.
* The rollback of the Capture details writes back only the details
  (provider-service.mjs:1727), although `#executeHotRegistryMutation` may have made
  another Provider the preferred one before the snapshot was built (:2295). With a
  preferred Provider whose test failed while the Worker was down, a change of the details
  that cannot build its snapshot reports a plain failure and leaves the other Provider
  preferred, which is not the one in service. It takes two faults and "test" beside "details" in `Operations`, so no run;
  `FailuresUndo` and `WorkerAgrees` name the case.
* `setCaptureDetails` and `updateProvider` let the failure of the activity log out
  as it is, although the change is applied.

**Registry.** With the clock set back behind a record's `createdAt`, `updatedAt` or
`lastTestAt`, edits of it are refused as PROVIDER_REGISTRY_INVALID ("Restore a valid
provider registry or remove it") until the clock has caught up. Edits of a mapping
group do not reset the tests of the Providers that use it.

**Proxy.** A custom request that is answered 413 before it is sent is metered under
a Provider that was never contacted. In the configuration handler of the Worker,
Capture is applied with the path it was started with (worker-entry.mjs:193).

**Stores.** Disabling Capture a second time while records are pending leaves the
database open (`redisabled`). The reason a key is refused for is read by a second
statement and falls through to LIMIT_EXCEEDED when an edit came between. The release
of the activity log's lock may rename a claim over a newer lock; `NoLostWrite` holds
all the same.

**Startup item.** A death between the creation or truncation of the file and its
writing leaves an empty file without marker: every later change answers
AUTOSTART_CONFLICT. A verification that cannot read reports a conflict although the
item is enabled (`blind`); a rollback that fails is swallowed (`lost`); a failed
change of a stale item leaves it disabled; and what another program writes into the
same file between the read and the truncation is not noticed.

**Codex bootstrap.** A death between the creation of the lock and its token, or a
"crp-blocked" marker, leaves a lock that no later bootstrap takes. A lock taken on a
look at the journal that was out of date by then is outside `LeftLockRecoverable`
(`stale`); the answer `changed: false` may come from such a look too. With three
Supervisors, two of which take away the lock of a dead one, the slower renames away the
new lock of a run at work. A third run that takes the lock in that moment works beside
the second, which may write its journal without looking at its lock again
(codex-history-repair.mjs:2258); if both die there, the lock says "acquired" beside a
journal, and no bootstrap takes it away. The proof of `LeftLockRecoverable` met this
(the run `Recovery` has two Supervisors); `stale` names it.

**Migration.** A start that dies in an upgrade or import (also after its commit,
before the locks are released), or between creating a lock or the journal and
writing it, leaves files that every later start refuses; the credentials of a dead
import stay in the store. A start that fails, cannot release the registry's lock and
gives back the migration's, beside another that takes the migration's lock then and dies
before it finds the registry's, leaves locks of two starts: no later start resumes them,
and all find the registry locked. It takes two faults; the proof met it, and
`QuarantineResumes` is about what one start has left. Two starts at the same quarantine (`raced`) may leave a
journal that does not match, or put a file back over a newer one, for which
the comment of `restoreClaim` (migration.mjs:357) has no room. A legacy file that was
replaced but cannot be looked at after the rename (migration.mjs:1001) is not
remembered, for only a failed flush of the folder carries its identity (`Told`): the
rollback removes the registry and the credentials, leaves this file scrubbed and gives
the locks back. One fault is enough. `src/README.md:200` says that the sources modified
in the attempt are restored and that a degraded rollback keeps the locks; the secret
is then only in the private backup. Such a file is "forgotten" in `Scrub`, and
`UnlockedIsWhole` is about the others. The upgrade has the same gap (`Upgrade`), but
nothing is lost: the new registry stays in place of the old one.

**Supervisor and commands.** An update accepts the Supervisor that a start finds
without looking at its version (crp.mjs:2964): with another `crp start` between, it
can report UPDATE_ROLLED_BACK while the new version runs, and "updated" while the old
one does (`mixed`). Two removals of the state file at once can delete that of a
running Supervisor, and one that is cut off after it renamed another's leaves it
only in `.stale`, where later starts fail on it (`crossed`). The Worker's process
number in supervisor.json is always null. A start whose wait ends sends SIGTERM to
its child even when another command has already been answered by it. A close that
fails after the Admin server is closed leaves a process that nobody reaches.

**AccountMonitor.** An exit or a protocol failure while the limits are requested
still ends "ready", with no child. An account announced between the answer to
account/read and the end of the refresh is overwritten (`overtaken`). After a
protocol failure there is one SIGTERM and no SIGKILL, and the next start forgets the
child; a broken input forgets it without a signal. Lines after a broken one are
still read.

**Web UI.** A read in the background with the old cookie, answered after the tab was
resumed, ends it. Resuming while the tab is being ended leaves the terminal page for
a writable one. A late answer that clears the cookie can clear a newer one, and a
reload loses a session that was rotated meanwhile. A refresh is not guarded by the
pending operation; the eight requests of a load may see different states, and a poll
that overlaps a load can show an older status for a moment.

## What is not modelled

In the modelled components: `previewRoute` of the WorkerManager (read-only), the
preview of a route while no Worker runs (`#buildConfiguredRoutePreview`: it reads the
document by the filter, order and rules of `#buildSnapshot` written twice, so that
nothing that happens can make them differ; the decision over the pool is `RoutePreview`), the
metrics and generation attribution of messages, messages of the child that fail
validation (the "protocol invalid" termination) and snapshots that fail validation
(both ends are this repository, and both reject before any state changes), the delay
of the send callback, the death of the Supervisor itself (the Worker exits on
disconnect), and the check for a `configured` of another generation than asked for,
which a Worker of this repository never sends.

In the ProviderService: the fetching and caching of model lists; a start, stop or
restart that is given the promise of the lifecycle call before it
(`#runLifecycleOperation`), which adds no state; calls with invalid input and calls
that change nothing; another process that writes the registry, so that every
compare-and-set succeeds; the shutdown of the Supervisor in the middle of an
operation; the health check the service makes after the manager's own, which by
default reads the same state. A call is not taken between the failure of a recovery
attempt and its handler, which the runtime runs at once. The account states are left
to the WorkerManager.

In the proxy: headers and their rewriting, compression, WebSocket upgrades (always
refused), backpressure, and the parsing of bodies, of multipart forms and of event
streams: what is read of them is chosen at random. In the registry: texts, lengths
and URLs of profiles. In the Codex bootstrap a configuration that is missing is taken
together with one that is not bound, and reading a file for the last time and renaming
over it are one step: what is written between the two would be lost.

Not at all, for the reasons `PROJECT.json` gives: the keychain stores (a native
library), the rows and queries of the Forwarding Records (SQL over one connection),
the routing, projection and validation of the local API beside its sessions, the
views of the web UI, the commands that only call the API and print, shared helpers,
and build and release scripts.

## Plan

The model is complete as far as it is meant to go, and nearly all that its runs check is
proved. No module that theorems are about uses a RECURSIVE operator, in its own text
or through the modules it uses. What is left:

1. **ProviderService**: `Agreement` with activations, under the hypothesis that
   nothing is edited between a stop and a start.
2. **MetricsStore**: `HeatmapCoversHours` compares sums over sequences, which only an
   induction over data could prove; it stays with TLC.
