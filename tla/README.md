# A TLA+ verification of ssh-mcp

ssh-mcp lets a local MCP client run commands, read files, deploy binaries and
run SQL on registered targets. A bridge process (`ssh-mcp serve`) speaks MCP on
stdio and forwards calls over a Unix socket to a daemon, which holds the
unlocked vault, reviews each call with a policy, and performs it over SSH, SFTP,
MySQL or PostgreSQL. A terminal interface (`ssh-mcp manage`) administers the
daemon over a control socket: it unlocks, locks, edits targets, rotates keys.

The correctness of the daemon is a matter of concurrency and of failures. Every
MCP call and every control request runs in a goroutine of its own. They meet in
a handful of small synchronisation components, each protected by a mutex that is
dropped before anything slow happens; daemons, clients and a stop command meet
in the file system; a deployment meets a server that may serve a request late.
On top of that a policy decides about shell programs and SQL without executing
them. This project models these parts, checks them with TLC on small instances,
and proves the safety of all of them but the policy with TLAPS, for any number of
goroutines, targets, processes, archives or deployments.

Contents: [inventory](#inventory), [modules](#modules), [runs](#runs),
[bounds](#bounds), [fairness](#fairness), [proofs](#proofs),
[disagreements](#disagreements-between-code-and-documentation),
[what is not modelled](#what-is-not-modelled), [plan](#plan).

## Inventory

Paths are relative to `src/internal/`.

| Component | State it keeps | Operations | Meets | What makes it correct |
|---|---|---|---|---|
| Target lanes `runner/target_lane.go` | per target: reader count, writer flag, queue; map of lanes | acquire, release, cancel while queued | every remote operation, for its whole duration | writes exclude, arrival order, no lost wake-up, no leaked lane |
| Dispatch barrier `runner/dispatch_barrier.go` | locked flag, count of dispatched operations, drain channel | Acquire, BeginDispatch, FinishDispatch, Lock, Block, Unlock | the engine on one side, lock / force stop / Close on the other | when Lock returns nothing is past its dispatch point; Lock returns |
| Work sessions `worksession/session.go` | map of sessions, one-token gate, dispatch flag and expiry timer each; memory of expired ones | open, acquire, set context, begin/finish dispatch, release, close, clear by target / owner / all, expire | the engine; the SSH pool through `onInvalidated`; the bridge through owners | one command at a time; a session is torn down after its command, once; idle sessions end |
| Database authorization `runner/database_authorization.go` | per target: generation, blocked flag, dispatch count and channel | acquireTarget, Begin/FinishDispatch, RevokeTarget, ActivateTarget | RunSQL and ListDatabases; control operations on database targets | no query runs while its row is being changed; what is sent is decided on the current row |
| SSH pool `sshservice/isolated_connections.go` | per target gate (generation, flags, in-flight count), map of connections, suspended / closed flags | AcquireTarget, acquire with a shared dial, execute, discard, invalidate, close, suspend, resume | the engine; control operations on SSH targets; lock and Close | commands use the current configuration only; connections are closed exactly once; nobody stays blocked |
| Runtime `app/runtime.go` | lifecycle mutex, activity, maintenance flag | unlock, lock, keys.rotate, backup.restore, force stop, Close | barrier, pool, vault, work sessions | after lock nothing is remote; after unlock everything works; control requests return |
| Vault and unlock `session/manager.go`, `store/vault.go` | vault object, failure count, next attempt time | Unlock, Lock, Credential | runtime, engine | a locked vault decrypts nothing; rate limit |
| Engine `runner/runner.go` | none of its own | RunSSH, ExecuteSSHSession, ReadSSHFile, DeploySSHBinary, ListDatabases, RunSQL | all of the above, policy, limiter, audit | order of review, audit, lane, limiter, lease, dispatch, terminal audit |
| Policy `policy/*.go` | limiter slots | evaluate command / SQL / path, limiter | engine | the directory it believes in is the true one, the class it gives is what happens, bounded concurrency |
| Control service `control/service.go` | per-kind target mutexes | upsert, enable, delete, settings, backup | store, pool, authorizer | a failed change leaves the old configuration usable |
| Store `store/*.go` | SQLite rows with revisions, credentials and owners, schema version, backups | target CRUD, migration, backup, restore | control, engine | revision moves with every change; owner consistency |
| Audit log `auditlog/log.go` | bounded queue, writer goroutine, file and archives | Record, Close, rotation | engine, runtime | what Record acknowledged is on disk and stays; Close is final; nobody waits for a blocked disk |
| Bridge server `bridge/bridge.go` | sessions, reference count per owner process | open, close, call, heartbeat, expiry, owner monitor | runtime, work sessions | an owner's work sessions end with its last bridge session, also when it dies, and not before |
| Deployment `sshtransport/deploy.go` | remote files | upload, verify, backup, swap, roll back | engine, pool | no live file is lost; the reported outcome is true |
| Daemon start `app/daemon.go`, `app/bridge_executor.go`, `instance/lock.go` | lock file, pid marker, socket; the client's shared connection | start, connect, retire, stop, clean | cmd | the daemon that serves is the one clients reach; a stop that succeeds is true |
| IPC `ipc`, `unixtransport` | connections | framed calls, cancellation at disconnection | bridge, control | |
| Transports, secrets, redaction, UI, command line | - | I/O, cryptography, presentation | | |

How an operation passes through them, for SSH: review, vault, limiter, lane,
barrier lease, "started" audit, work-session dispatch, `BeginDispatch` at the
barrier, target lease of the pool, credential decryption, dial or reuse, the
command, then everything is given back in reverse by `defer`.

What is hard here: a context may end at any wait; a grant, a dial or a timer may
arrive just after it was given up; state read before a wait is used after it
(row, vault, connection, session record); revocations and lock must wait for
exactly the operations that are past the point of no return; channels are
closed outside the mutex; a control operation may fail half way. The `hazards`
of `PROJECT.json` list these with their lines.

## Modules

An action is one critical section of the component's mutex, or one step taken
outside it (a dial, a close, a receive from a channel, a rename, a database
transaction). Contexts end by actions of their own or by the "gives up" branch
of a wait.

| Module | Models | Notes |
|---|---|---|
| `TargetLanes` | the whole of `target_lane.go` | lane objects have identities, since a caller keeps a pointer to a lane that may have been deleted from the map |
| `DispatchBarrier` | the whole of `dispatch_barrier.go` | channels have identities; `FinishDispatch` and `CloseDrained` are the two halves of the last finisher; `unbroken` records that no Block or Unlock touched a Lock since it began |
| `WorkSessions` | `worksession/session.go` and the order in which the engine uses a lease | discrete time; a timer callback fires and enters the mutex in two steps |
| `DispatchBarrierState`, `WorkSessionsState`, `AuditLogState` | constants, variables and safety properties of the three modules they are named for | apart from the actions, so that the proofs of a component that uses the part can state what the part promises without its `Init` and `Next` |
| `DatabaseTargets` | authorizer + RunSQL/ListDatabases steps + control operations + rows | one target; the start row is any row |
| `SSHPool` | pool + `sshservice` steps + control operations on SSH targets + rows | entries have identities; users share dials; a row has a configuration and counts its registrations, since revisions start over when a target is deleted and added again |
| `RuntimeLock` | lock, unlock, rotation, force stop, Close | has the barrier's state as a part of its own and composes `DispatchBarrier` by `INSTANCE`, using its actions unchanged, with the control requests for its lockers; an operation is pooled, of a work session, on a database, or a candidate's test; what it needs beyond the barrier is its `right`: a lease that a suspension of the pool revokes (which is what `SSHPool` justifies), a session that `Clear` revokes or somebody else ends, or nothing |
| `Engine` | the path of an operation through `runner/runner.go`, and `policy.Limiter` | lanes and limiter are queues in arrival order, which is what `TargetLanes` and Go's channels give; the barrier is its flag; review, audit log and remote side are oracles; a result is its status, `RemoteExecuted` and `AuditOutcome` |
| `AuditLog` | `auditlog/log.go`: `Record`, `Close`, the writer goroutine, sync and rotation, a new `Logger` after a crash | every `select` of `Record` is a step; the disk may refuse, tear a line or never answer; after a crash lines not synced are lost or kept, and the directory may be back at any of its states since it was last synced (`past`); `fresh` and `lost` record the lines this can take |
| `Deployment` | `DeployBinary` of `sshtransport/deploy.go` under `DeploySSHBinary` | each SFTP request is sent, served and answered in separate steps; one that was given up may be served later (`late`); `effect` and `wasLive` record what really happened to the live file |
| `Bridge` | `bridge/bridge.go`, and maintenance, request counting, idle exit, Start and Close of `app/runtime.go` | the callback that clears an owner runs after the mutex is dropped (`notices`); `early` counts the requests that began before Start had ended |
| `Daemon` | `app/daemon.go`, `bridge_executor.go`, `instance/lock.go`, the daemon's Start and Close as other processes see them | a daemon is a PID with its start time; the lock dies with its holder, socket and marker stay behind; the call that closes a capability is a step of its own, after the executor's mutex is dropped, and may fail |
| `ShellPolicy`, `SQLPolicy` | the rules of `policy/policy.go`, `policy/path_context.go` and the `pg_parser_*.go` as operators on parsed programs and statements, and a reference semantics of the shell and the database | SQL has three routes: MySQL, PostgreSQL's tree (builds with cgo), and the lexical rules of the builds without (`portable`); the reference semantics is external: it says what `cd`, `&&`, subshells, wrappers, redirects and statements do, and where a command may fail |
| `Policy` | a request meets `EvaluateSSH` / `EvaluateSQL` and is then executed | compares the verdict with every possible run |
| `TargetLanesProofs`, `DatabaseTargetsProofs`, `RuntimeLockProofs`, `SSHPoolProofs`, `EngineProofs`, `DeploymentProofs`, `DaemonProofs`, `BridgeProofs` | theorems | each extends the module of its name; `RuntimeLockProofs` also holds the theorems of `DispatchBarrier` and of `WorkSessions`, `EngineProofs` those of `AuditLog` |
| `MC*` | instances for TLC; `MCPolicy` holds the programs and statements, `MCSSHPool` a symmetry set | |

Definitions named `X_Something` just before a definition `X` are deliberate
faults; replacing `X` by one of them must break the property `PROJECT.json`
pairs with it, which shows that the property depends on that code.

## Runs

| Run | Checks | Shows |
|---|---|---|
| `MCTargetLanes` | `WriteExclusive` `QueueHasOwner` `EventuallyServed` | exclusion per target across lane objects; no lost wake-up; every waiter is served or gives up |
| `MCDispatchBarrier` | `SealedIsQuiescent` `WaiterWillBeWoken` `CloseOnce` `LockReturns` | a successful Lock means quiescence; its channel will be closed, once; Lock returns |
| `MCWorkSessions` | `EndIsReportedRight` `NoEarlyExpiry` `SessionsSettle` | a session's end is reported once and after its command; stale timers do nothing; idle sessions end and every end is reported |
| `MCDatabaseTargets` | `QuietWhileRevoked` `SentIsCurrent` `EnabledIsUsable` | a row changes only while no query runs; queries match the row; failures leave targets usable |
| `MCRuntimeLock` | `LockedHasNoSSH` `UnlockedIsUsable` `ControlReturns` | after lock no pooled and no session command is remote, but for one whose session somebody else ended; nothing strands an unlocked daemon; no circular wait among barrier, mutex and pool |
| `MCSSHPool` | `CommandIsCurrent` `SuspendedIsQuiet` `NoLeakedConnection` `NoLostWakeUp` | commands run on the stored configuration, the reviewed one unless the target was deleted since; suspended means quiet; connections do not leak; flushes and dial waiters have somebody who will wake them |
| `MCEngine` | `WritesAreAlone` `AuditIsTruthful` `Returns` | the six operations through limiter, lane, audits and dispatch: writes alone, the reported audit outcome true; every operation returns unless lane and limiter form a circle |
| `MCAuditLog` | `AckedIsKept` `ClosedIsFinal` `CallsReturn` | an acknowledged event stays in the files through failed rotations and crashes until retention removes it, oldest first, unless its file was created since a rotation last synced the directory; Close leaves nothing unanswered; no call outlives its context for a blocked disk |
| `MCDeployment` | `NothingIsLost` `OutcomeIsTrue` `Recoverable` | no live file is destroyed, even by a late rename; a known failure has changed nothing and will change nothing; an interrupted swap leaves both files |
| `MCBridge` | `MaintenanceIsExclusive` `ClearSparesOthers` `IdleExitIsIdle` `DeadOwnerIsCleared` | while a maintenance operation runs no second one starts and no request but the exempt ones is let in, whoever else tries meanwhile; whose work a callback can end; when the daemon may leave with requests running; a dead client is cleaned up |
| `MCDaemon` | `ServingIsReachable` `StopIsHonest` `CapabilityLife` `CallsReturn` | socket and marker belong to the daemon that serves; success of stop is true; shared connections live as long as they are used; every call returns |
| `MCPolicy` | `KnownIsTrue` `ChainIsStopped` `SQLVerdictHolds` | the analysis never believes in a wrong directory; followed chains from a known start do not reach a base tree or a raw device; as far as each SQL route reaches, a request classed `read_query` changes nothing and no statement of a request is an unrestricted write (what the routes miss is listed [below](#disagreements-between-code-and-documentation)) |

Each module also has a type invariant `TypeOK`, which the runs do not list: in
the modules with proofs it is a theorem.

`CHECK_DEADLOCK FALSE` is used where the system may stop: `RuntimeLock`,
`SSHPool`, `AuditLog` and `Bridge` after their Close, `Daemon` when every call
has returned, `Policy` when its request was executed, and everywhere when a
bounded supply (vault objects, revisions, generations, connection objects,
events, deployments, sessions, processes) is used up.

## Bounds

- `Callers`, `Users`, `Requests`, `Controls`, `Admins`: two or more of each kind
  that can conflict. Lanes use four callers so that a holder, a queued write and
  two readers around it exist together; the barrier three callers and two
  lockers, so that a lock can overlap another and a new dispatch. `RuntimeLock`
  has one operation, repeated without end, against two control requests: its
  hazards are between control requests, and counting several operations is the
  barrier's part; two drain channels, of which one may be waited for while the
  other is made.
- `Lanes`, `Chans`, `Entries`: addresses of objects. An address is reused once
  nobody refers to it, and the sets are as large as the number of objects that
  can be referred to at one time needs.
- `MaxRevision`, `MaxGeneration` (counts of row changes and revocations):
  guards stop further changes. Two or three are enough for "changed", "deleted
  and registered again" and one revocation after that. `SSHPool` has two
  configurations (`Configs`), so that a row registered anew at the old revision
  can differ from the old one, two specification versions (`Specs`), so that two
  users may need connections of their own, and three entries.
- `MaxVaults`: two vault objects, so that an operation can hold the old one.
- `MaxTime`, `IdleTimeout`: the clock covers one deadline, its extension and the
  firing of the old timer after it.
- `Engine`: two operations of any kind with a limiter of one and of two slots,
  so that both the limiter and the lane are waited for, and in both orders. Three
  operations of all kinds exceed TLC's reach. `Offered` is the set of kinds a
  run uses.
- `AuditLog`: a queue of one, so that it is full when the second caller comes;
  one line to a file, two archives, two files (`Earlier`) left full by an earlier
  process and up to three new lines (`MaxEvents` counts the old ones too), so that every new line rotates
  and the oldest archive is removed; one crash (`MaxCrashes`), at any moment and
  back to any directory since the last synced one.
- `Deployment`: two deployments one after the other, so that a late request of
  the first is served during the second, and two changes by other users
  (`MaxDeployments`, `MaxChanges`).
- `Bridge`: one client process with two capabilities (`MaxSessions`), two
  requests and two maintenance goroutines, so that one is refused while the other
  runs; each request is made once. Clients share nothing but the request count.
- `Daemon`: two daemon processes (`MaxDaemons`), so that a new one meets what the
  old one left; one of them may end unasked (`MaxExits`); two calls, of one
  process or of two; one stop command.
- `Policy`: programs of up to three commands from eight ways of moving, six of
  destroying by a relative path and three others, under `&&`, `||`, pipes, lists,
  subshells, blocks, branches, `sh -c`, negation, background and functions, also
  beside an embedded text the parser refuses, from two declared directories and
  from none; one sample for every other rule; SQL requests of up to two statements
  for each of the three routes, with unions, INTO, locks, writes in WITH, every form
  of EXPLAIN's ANALYZE, and conditions of up to three atoms with parentheses. A wrong belief about a directory takes a move, a construct
  that undoes or does not undo it, and a command: three commands have it.
- Symmetry is used only in `MCSSHPool`, which checks invariants, over
  interchangeable goroutines and object addresses.

## Fairness

Liveness properties assume weak fairness of the steps a goroutine takes when it is
able to run, and that a remote operation ends: it runs under a context with a
timeout and gives everything back by `defer`. Entering an operation is never
fair, except in `Daemon`, whose calls are each made once. Strong fairness appears
where Go serves waiters in turn: a goroutine receiving from a session's gate, and
Close receiving from the audit log's gate (channels queue their receivers);
`lock` waiting for `sshLifecycleMu`, and a call waiting for the executor's mutex
(`sync.Mutex` hands over to a starving waiter). Timers fire and time passes in
`WorkSessions`. `ControlReturns` excuses a request waiting at a barrier that
another request has opened in the meantime: new operations may then keep the
count above zero, and Close waits there without a deadline. `Returns` in
`Engine` assumes no client ever disconnects, and excuses the circle of lane and
limiter described below, the only one TLC finds. `AuditLog` asks nothing of the
disk or of the writer: its callers return although the disk never answers.
`Bridge` asks that the monitor's ticker ticks, that a callback which is due runs
and that the time to live of a dead client's capability passes. In `Daemon`
connecting, starting and polling have deadlines, so a call's steps are fair; the
daemons' own steps are not. The request that closes a capability has no deadline
(`app/bridge_executor.go:196`): here the assumption is that the daemon answers it, or
its connection breaks.

## Proofs

Each proof module follows one scheme. `IInv` is an inductive invariant, a
conjunction of named parts; TLC has checked it on an instance at least as large
as the run's before it was proved. Lemmas describe the operators of the model,
then one lemma per action, or per group of actions that disturb the same parts,
shows that `IInv` is preserved, and each theorem takes its property from `IInv`.
None of the properties is inductive alone; what has to be added is said below.

The assumptions are those on the constants, named in the modules that declare
them and evaluated by TLC in the runs: finiteness of the sets that are counted
(goroutines), distinctness of the sentinel values, bounds that are natural
numbers. The bounds of the models (`MaxVaults`, `MaxRevision`, `MaxGeneration`,
`MaxDeployments`, `MaxChanges`, `MaxDaemons`, `MaxExits`, `MaxSessions`, `MaxTime`,
`MaxEvents`, `MaxCrashes`) stay constants in the theorems, which therefore hold for
every value of them.

Three components are proved beside the component that uses them: the barrier, as the
instance `Barrier` of `RuntimeLock`, and the work sessions, which lock and Close clear
(`Work == INSTANCE WorkSessions`), in `RuntimeLockProofs`; the audit log (`Log ==
INSTANCE AuditLog`) in `EngineProofs`. `Work` and `Log` have variables of their own
there: nothing ties their steps to the daemon's or the engine's. The proof module
extends the `...State` module, whose assumptions and properties the theorems use, so
`Work!Spec => []EndIsReportedRight` is about the very formula the run checks.

| Module | Theorems | For |
|---|---|---|
| `TargetLanesProofs` | `LanesTypeCorrect`, `WritesExclude`, `WakeUpsNotLost`, `LanesNotLeaked` | any targets and lane objects, finitely many callers |
| `DatabaseTargetsProofs` | `TypeCorrect`, `RevocationDrains`, `DispatchIsCurrent`, `EnabledIsOpen` | finitely many requests, any engines |
| `RuntimeLockProofs`, the barrier | `BarrierTypeCorrect`, `LockQuiesces`, `LockIsWoken`, `ChannelClosedOnce` | finitely many callers, any lockers and channels |
| `RuntimeLockProofs`, the daemon | `BarrierIsUsedRight`, `LockDrainsTheDaemon`, `TypeCorrect`, `LockKeepsSSHOut`, `NobodyIsStranded` | finitely many operations, any control requests |
| `RuntimeLockProofs`, the work sessions | `WorkTypeCorrect`, `EndsAreReported`, `ExpiryIsNotEarly` | any users, sessions, targets, timeouts |
| `SSHPoolProofs` | `TypeCorrect`, `RunsOnCurrentRow`, `SuspensionDrains`, `ConnectionsAreOwned`, `WakeUpsArrive` | any targets, entries and administrators, finitely many users, each goroutine of one kind |
| `EngineProofs`, the engine | `TypeCorrect`, `WritersAreAlone`, `OutcomesAreTruthful` | finitely many requests, any targets and capacities |
| `EngineProofs`, the audit log | `LogTypeCorrect`, `AckedStays`, `CloseIsFinal` | any callers, archives, file sizes, queue sizes, events and crashes |
| `DeploymentProofs` | `TypeCorrect`, `LiveFilesSurvive`, `MovedIsRecoverable`, `TellsTheTruth` | any number of deployments and of changes by others |
| `DaemonProofs` | `TypeCorrect`, `ServingStaysReachable`, `StopReportsTruth`, `CapabilityIsKept` | any number of daemons, calls and exits |
| `BridgeProofs` | `TypeCorrect`, `MaintenanceExcludes`, `OthersAreSpared`, `IdleExitIsCounted` | any clients, capabilities and maintenance goroutines, finitely many requests |

**`TargetLanesProofs`.** Exclusion says nothing about lane objects, so the
invariant adds: `RequestLane` (whoever is queued or admitted uses the lane the
map has for its target), `OneTargetPerLane`, `QueueIsWaiters` (a queue lists
exactly the waiting requests, each once), `LaneCounts` (the reader count is the
number of admitted readers, the writer flag says that one writer is admitted, and
the two exclude each other), `OwnedQueue` and `OwnedLane`. Lemmas describe what
`grantLocked` admits: the longest run of reads at the head, or one write.

**`DatabaseTargetsProofs`.** The row changes only in `Commit`, and nobody holds the
right to dispatch then. `CountIsDispatching` makes the authorizer's counter the
number of requests past `BeginDispatch`, so that a revocation that has waited for
zero has waited for all of them; `OperationIsAlone` says that a target the
operation found stays blocked and drained until its end, and `AbsentIsQuiet` that a
target that is not registered meets no dispatch. `ReadIsPast` says of the row a
request has read that its revision has not run ahead of the stored one and that an
equal revision means an equal configuration, unless the target was deleted
meanwhile; with it the revision check before sending gives `SentIsCurrent`.
`EndReopens` carries `EnabledIsUsable` over the deferred activation.

**The barrier in `RuntimeLockProofs`.** The invariant (`BarrierIInv`) adds
`CountIsStarted` (the counter is the number of dispatched leases),
`ChannelIffInFlight`, `ClosingChannel` (the channel a finisher is about to close
is open, is no longer the current one and belongs to that finisher alone),
`WaiterChannel` and `UnbrokenLock` (while nothing reopened the barrier no lease
starts, so a waiter's channel closes only at zero).

**The daemon in `RuntimeLockProofs`.** `BarrierIsUsedRight` is a refinement: every
step of an operation or of a control request is a step of `DispatchBarrier` or
leaves its variables alone, so what was proved of the barrier holds in the daemon;
`LockDrainsTheDaemon` draws that conclusion for `SealedIsQuiescent`. `ControlInv`
says which states of a control request hold the mutex, that a suspension lasts
while its owner waits, and that a closed barrier or a suspended pool has somebody
still running who will open it, or the vault is locked, which only the unlock that
reopens both can undo (`LockedIsHandled`, `SuspendedIsHandled`): this gives
`UnlockedIsUsable`. `LockedHasNoSSH` is not a matter of the suspension alone,
since a rotation that fails resumes the pool of a locked daemon, and session
commands do not use the pool: `OperationInv` says that no lease is valid while the
pool is suspended (`SuspendedIsOld`), so every lease from before the lock is old;
that from the clearing on no vault is open, no pooled operation that has its
credential has a valid lease, and no session whose command holds a vault is valid
(`ClearLasts`), since a new session command finds no vault; and that when the
clearing has been waited for, a command still past its session's dispatch has had
its session ended by somebody else (`LockKeeps`).

**The work sessions in `RuntimeLockProofs`.** `SenderDispatches`: whoever sends has the
dispatch flag of its own record, and no two senders share one. `EndedWaits`: a session
that ended under a command in flight has its reporter waiting and has not been
reported. `ReportedOnce`: the duty to report is held by one goroutine until it is done.
`FiredIsPast` and `TimerIsArmed` describe the timer, whose callbacks may outlive the
deadline they were armed for. None follows from the property, whose first half needs
the first two.

**`SSHPoolProofs`.** `FlightInv`: the in-flight count of a gate is the number of
its busy users; whoever flushes a target waits for those; one administrator
configures at a time, and its target is blocked and has busy users only while it
waits for them. `LeaseInv`: a lease is never newer than its gate, is not of the
current generation while the gate is blocked, and if it is current and checked,
the row it was checked against, with its configuration, is the stored one.
`ReadIsPast` relates the row that was reviewed, before the lease: as long as the
target is not deleted its revision has only grown and an equal revision means an
equal configuration; of a target that was deleted it says nothing, which is the
exception `CommandIsCurrent` makes. `EntryInv`: an entry has
at most one dialer, a waiter's entry has one or is ready, and a goroutine with
connections to close is at a step where it will close them. The four properties
are the visible part of these.

**The engine in `EngineProofs`.** `LanesInOrder` ties the lanes to the requests:
whoever is queued is blocked there, once, whoever holds a lane asked for it, and a
writer that holds it is alone; `SlotsInOrder` is the same for the limiter, since a
slot handed to a request that had already left would run it twice.
`DispatchedHolds` says that the lane is kept from the audit of the start to the
end. `AuditInv` says in addition to the property that nothing is recorded before
the end. Lemmas describe the queues: granting takes a front of it, giving up one
place.

**The audit log in `EngineProofs`.** `AckedIsKept` relates three sets and says nothing
of order, of what is synced or of a rotation under way; `LogIInv` adds that. `LogGate`
and `LogClose`: whoever is past the first `select` holds the gate, and Close takes it
to close `stop`, so nobody is about to send then and the writer that drains sees all
there is; this is `ClosedIsFinal`. `LogOrder`: events are numbered when they are queued
and written in that order, so a line is newer than all that was ever written.
`FilesInOrder`: each file is older than the one before it and removed lines are older
still, torn lines aside; a rotation, which moves files one by one and may stop anywhere,
keeps this. `LogSafe`: what was acknowledged is synced, hence in a file that no crash
cuts short, or was removed, or went with its fresh file; the file a rotation moves to
is empty, so a rename overwrites nothing. `LogPast`: every earlier directory that a
crash may bring back is in order too and holds every acknowledged event that is not
fresh. `LogLive`: while one may come back, lines go to a live file that is fresh. `LogFull`: until a rotation is cut short, archives are full and
without a gap except the one that the rotation is about to fill (`Hole`), from which
the count of lines in `AckedIsKept` follows.

**`DeploymentProofs`.** A request that was sent is pending until it is served, also
when the deployment gave it up. `FileInv` relates the pending requests to the
directory: a pending rename has not taken effect and is the only pending request of
its deployment; a temporary file is written or removed only while the live file is
in place, and what it holds was never live, so that destroys nothing. `JobInv` says
what the running deployment has done at each of its steps and which of its requests
may still be served, and `ResultInv` relates what callers were told to both, which
is what a late rename threatens.

**`DaemonProofs`.** `ProcessInv`: a daemon holds the instance lock from `NewRuntime`
to its death, the stop command while it cleans, and nobody else touches socket and
marker (`LockIsHeld`, `SocketIsHolders`, `MarkerIsHolders`); processes are born in
order, so whoever is killed by number exists and a new one is new; `StopSaw` is
what a stop has been promised and has seen at each of its steps. `ClientInv`: a call
that connects holds its executor's mutex while the executor has no connection, the
users of a connection are the calls at work on it, and a connection whose closing
has not begun is being verified, shared, or retired and in use.

**`BridgeProofs`.** `OpenedInOrder` and `OwnersCount`: capabilities are
numbered as they are opened and the owners map counts the open ones, so a callback
becomes due exactly when an owner has none left. `NoticesAreOld`: what its owner has
open now was therefore opened later, which is the exception `ClearSparesOthers`
allows, and the only one. `RunningIsCounted`: the requests that run are at most the
counted ones and the early ones together, which bounds those under which an idle exit
can happen. `MaintenanceInv`: whoever runs maintenance is alone and the flag is set,
although others that were refused return meanwhile; with it a request that meets the
flag is exempt, which gives `MaintenanceIsExclusive`.

Changes to the models for the proofs, none of which loses a behaviour of the code:
queues in `Engine` are cut with `SubSeq` and closed up position by position
instead of filtered by `SelectSeq`, whose definition the provers cannot use;
`Daemon` and `Deployment` name their record types, as does `Bridge`; the counters
of `SSHPool`'s gates are typed as natural numbers; a crash in `AuditLog` cuts
every file off somewhere behind its last synced line, as a file system does,
instead of dropping lines anywhere; the number of lines is counted over positions;
`Earlier`, a constant, says how many files an earlier process left, which was two;
the state and the safety properties of `DispatchBarrier`, `WorkSessions` and
`AuditLog` are in modules of their own; assumptions on constants that the proofs
need are named (`Bridge`, `AuditLog`, `WorkSessions`).

Only model-checked:

- all liveness (`EventuallyServed`, `LockReturns`, `ControlReturns`, `Returns`,
  `CallsReturn`, `SessionsSettle`, `DeadOwnerIsCleared`): fairness and ENABLED are
  outside the prover;
- the three invariants of `Policy`: `ShellPolicy` and `SQLPolicy` walk syntax trees
  with RECURSIVE operators, which the SMT backend does not take, and what they
  compute for every program needs induction over data.

Every other invariant and action property of the runs is a theorem.

## Disagreements between code and documentation

The following are behaviours of the models, and of the code at the lines named,
that a comment, a document or a test's name contradicts. The properties say what
holds nevertheless, and some of them carry an exception for one of these, as narrow
as the code allows: `LockedHasNoSSH` and `ControlReturns` (a reopened barrier),
`Returns` (lane and limiter), `SentIsCurrent` and `CommandIsCurrent` (a target
registered anew), `AckedIsKept` (a file created since the directory was synced),
`IdleExitIsIdle` (early requests), `ClearSparesOthers` (a late callback),
`StopIsHonest` (a stale marker), and `KnownIsTrue`, `ChainIsStopped` and
`SQLVerdictHolds` (what the analysis does not follow).

- **Cancelled write in a lane** (`runner/target_lane.go:137`). A read runs, a
  write queues behind it, a read queues behind the write; the write is cancelled.
  `grantLocked` returns because a reader is active, and the read stays queued
  until the first one ends. The comment at line 13 says that consecutive reads
  run in parallel, and a test is named for cancelled waiters not blocking
  following work. Only delay, no hang (`EventuallyServed` holds).
- **lock overlapping unlock** (`app/runtime.go:471`). `lock` seals the barrier
  and then waits for the lifecycle mutex; the unlock that holds it reopens the
  barrier. `lock` reports success with a database operation in flight, although
  `docs/operations.md:95` wants a new unlock before remote operations. SSH commands
  are out all the same (`LockedHasNoSSH`): the pool is suspended and drained, and
  `workSessions.Clear` waits for the commands of the sessions it ends, which do not
  use the pool (`ExecuteIsolated` and `Execute`, `runner/runner.go:1446`). Two things
  remain: a session command whose session its owner, its timer or a target change
  had already ended, which `Clear` does not find; and the test of a candidate target
  (`sshservice/service.go:66`), which holds the barrier and nothing else.
- **unlock after force stop** (`app/runtime.go:505`). Force stop seals the
  barrier (comment at line 711); an unlock in progress, or a lock whose wait
  fails, opens it again.
- **Lane before limiter** (`runner/runner.go:1583`). `RunSQL` takes the write lane
  of a script before it asks for a slot; every other operation holds its slot
  while it waits for a lane, and its timeout starts only after both. A script
  with the lane and queries with all the slots wait for each other until a
  client disconnects (`ListDatabases` alone leaves after 30 s), and operations
  on all other targets wait for a slot with them. A test is named for different
  targets proceeding independently; the limiter is said to bound dispatches, and
  here it counts operations that are not dispatched. `Returns` excuses this
  circle and no other.
- **Maintenance beside a request** (`app/runtime.go:539` and 547). The sessions
  are counted and the flag is set in two steps: a session opened, and a request
  begun, in between runs beside the maintenance, although the error at line 47
  says "exclusive maintenance requires no active bridge sessions". So does a
  request that outlives its capability, which is no longer counted.
  `MaintenanceIsExclusive` says that nothing joins once the maintenance runs.
- **A target registered anew** (`sshservice/service.go:291`,
  `dbservice/service.go:118`). A target that is deleted and added again is at
  revision 1 like the first one. An SSH request that was reviewed with the old row
  (`runner/runner.go:559`) and takes its pool lease afterwards (`service.go:158`)
  passes the revision check and runs on the new configuration, although the comment
  at `isolated_connections.go:68` says that a request that has read the old
  configuration cannot send a command. The same holds for database requests.
- **The directory entry of audit.log** (`auditlog/log.go:402`). A rotation syncs the
  directory (351) before the next line is written, but the file that line creates is
  only synced itself (309): until the next rotation a crash of the machine may lose
  it with lines whose Record returned nil. No document promises more; it is the limit
  of what the sync before the answer gives. The model assumes that changes of a
  directory reach the disk in the order of the calls.
- **What the shell analysis lets through.** A `sh -c` text that does not parse ends
  the whole analysis (`policy/policy.go:1431`, 1464), and the command is then let
  through without the hard stops (174); the comment there speaks of syntax the remote
  shell will refuse, but what stands before it runs. `sudo -i`, which goes to the
  user's home, is taken to stay in place (`policy/path_context.go:278`). In
  `sh -c -- text` the option `--` is analysed as the text. Without a declared
  directory a chain is followed only from its first absolute `cd`.
- **What the SQL rules let through.** The rule against unrestricted writes looks at
  the statements of a request alone: `UPDATE` and `DELETE` without a condition pass
  in a WITH query and under EXPLAIN ANALYZE (`policy/policy.go:1277`). PostgreSQL
  keeps the INTO of a union in its left arm, where `postgresReadOnlyStatement` does
  not look (461). The released builds have no cgo (`Makefile:47`,
  `.github/workflows/release.yml:31`) and use the lexical rules of
  `pg_parser_common.go`: there SELECT INTO and EXPLAIN (ANALYZE) count as reading,
  the conditions `2=2` and `(TRUE) OR c` as restricting, and CREATE OR REPLACE
  FUNCTION is not stopped. Requests classed as reading run in a read-only
  transaction (`dbtransport/native.go:180`, 348), in which the database refuses
  those writes; `Policy` does not count on it.
- **Requests before Start has ended** (`app/runtime.go:529`). A request served
  between `bridge.Start` and `started = true` is not counted when it begins and
  is subtracted when it ends, so the daemon may leave for idleness under as many
  counted requests (`IdleExitIsIdle`).
- **A late callback** (`bridge/bridge.go:293`). It ends the work sessions of an
  owner that has opened a new capability since (`ClearSparesOthers` allows only
  that), and a request that outlives its capability may open a work session
  after it.
- **The token of the terminal interface** (`app/runtime.go:851`, not modelled).
  `clearTUIActivity` reads the current token, so a late "tui.disconnected" of an
  old interface concerns the newer one, which the comment rules out.
- **Ordinary stop and a new session** (`app/daemon.go`). A session opened between
  the status and the shutdown is cut off, although `docs/operations.md:15` says
  that an ordinary stop refuses while sessions are active. Stop may also succeed
  on the exit of the process of a stale marker while the daemon it is connected
  to has only promised to leave, and a starter whose timeout fires as the child
  reports ready kills a ready child (`StopIsHonest`, `ServingIsReachable` hold).

Other observations: a request that has read its row but not acquired
its lease is admitted after a revocation, although the comment on
`ActivateTarget` (`runner/database_authorization.go:64`) speaks of requests
created after it; the revision check before sending stops it (`SentIsCurrent`),
unless the target was deleted and registered again, when revisions restart at 1,
and `SentIsCurrent` therefore speaks of the configuration only for requests that
did not live through a deletion; the terminal audit of a command is skipped
when its "started" audit failed (the result then says so, `AuditIsTruthful`); the
terminal audits of file operations use the request's context, so they fail when
the client has left, while the others have a second of their own; a stopped
deployment is logged as rejected and reported as not dispatched; a session
command waits at the session's gate without its context; `keys.rotate` leaves the
pool suspended until the next unlock; a failed rotation on a locked daemon resumes
the pool (nothing is decrypted, so nothing runs); a log rotation that is cut short
or retried costs one more of the oldest archives, and a torn write leaves a
fragment with which the next line merges; the removal of a deployment's temporary
file and the closing of its writer are not bound by the context.

## What is not modelled

- The parser of shell text and those that yield SQL trees, which are libraries, and
  in `pg_parser_common.go`, which is the repository's own, the splitting into
  statements and tokens, quoting and comments (its rules on the tokens are in
  `SQLPolicy`); letter case and white space; the argument grammars of `ssh`, `scp`, `rsync` and the like, of
  which `ShellPolicy` keeps the destination they yield; byte limits; side effects of functions the text does not show. A statement
  that is only a redirect has no recorded directory, and `SQLVerdictHolds` leaves
  conditions with NOT aside, as the rule does.
- Redaction and masking, cryptography, wire protocols and framing, the terminal
  UI, platform glue and path handling: no state shared between steps, or
  presentation only. The Windows variants of process control and transport.
- SQLite transactions are atomic steps; migrations, backups and credential
  ownership happen inside one. The doubling delay of failed unlocks.
- In `Daemon`, the close that follows a verification that failed.
- A candidate's validation against the remote host is an oracle that succeeds or
  fails, and so are SSH dials and database drivers.

`PROJECT.json` lists each part with its reason.

## Plan

1. (done) Lanes, barrier, with proofs; work sessions; database targets; SSH
   pool; runtime lock; the operation pipeline.
2. (done) Audit log with crashes; bridge server with maintenance and idle exit;
   deployment with late requests; daemon start and stop; shell and SQL policy.
3. (done) Proofs of the safety of every component but the policy, with the
   refinement of the barrier by the daemon.
4. An abstract specification of a target's read-write lock implemented by
   `TargetLanes`, and of a revocable right implemented by `DatabaseTargets` and
   `SSHPool`.
5. The token of the terminal interface; backup and restore; the unlock delay.
