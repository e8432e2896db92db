# TLA+ specifications of go-spring

TLA+ models of the core of go-spring, the TLC runs that check them on small
instances, and proofs, checked by TLAPS, that the most important properties
hold for every instance. Paths in this file are relative to `src/`, and
`gs_core/`, `gs_app/`, `gs_dync/`, `gs_conf/` and so on are short for
`spring/gs/internal/gs_core/` etc.

    tlc -workers 2 -config MCDynRefresh.cfg MCDynRefresh.tla   # one run
    tlapm DynRefreshProofs.tla                                 # one proof module

`PROJECT.json` lists the components, the runs, the source lines behind every
definition, the hazards, the findings and the theorems. A definition that is
introduced by "Mutant:" is a plausible bug in the operation after it; the
property paired with it in `PROJECT.json` finds it.

## 1. The system

go-spring is an IoC container for Go with layered configuration, hot refresh
and an application lifecycle (`spring/`), a logging library (`log/`), a kit of
primitives for services in a cloud (`cloud/`) and adapters to third-party
libraries (`starter/`).

| Component | State | Operations | Interacts with |
|---|---|---|---|
| Resolving, `gs_core/resolving` | the list of definitions; a status per definition | Provide, applyModules, scanConfigurations, resolveBeans, resolveBean, Find, checkDuplicateBeans | conditions (`gs_cond`), which call back into Find; hands the survivors to injecting |
| Injecting, `gs_core/injecting` | status of the beans, the wiring path, lazy fields, beanDepMap, the destroyers | Refresh, wireBean, getBean, getBeans, autowire, Close | registers dynamic fields with the properties; calls constructors, Init and Destroy callbacks |
| Container, `gs_core/core.go` | the two phases above | Provide, Refresh, RefreshProperties, Close | the application |
| Dynamic properties, `gs_dync` | prop, the registered objects, their values and listeners, an RWMutex | RefreshField, Refresh, Value, OnChanged | read by everybody without a lock |
| Application configuration, `gs_conf` | the layered storage; the providers with their watchers | Refresh, CloseProviders | files, environment, remote providers |
| Application, `gs_app` | root context, wait group of the servers, readiness barrier, `started`, `refreshMu`, the facade `currentApp` | Start, WaitForShutdown, RefreshProperties, ShutDown | container, servers, runners, signals |
| Application shell, `spring/gs` | signal handler, stoppers, the built-in HTTP server | Run, RunAsync, teardown, RegisterStopper | the application |
| Saga transactions, `cloud/experimental/transaction` | the saga log in a store | Execute, Recover | recoveryRunner (`starter/experimental/starter-transaction-saga`) at startup |
| TCC transactions, `.../transaction/tcc` | the decision log in a store | Execute, Recover | recoveryRunner (`starter-transaction-tcc`) at startup; participants |
| AT transactions, `.../transaction/at` | active transactions and their branches, the global row locks; undo logs in the databases | Begin, Register, Commit, Rollback, Acquire, Release; beforeMutate, afterMutate, restore | gorm callbacks, branches and recovery of `starter-transaction-at-gorm` |
| Lock and election, `cloud/lock` | the current hold of each key: token, deadline, renew loop | TryAcquire, Acquire, renewLoop, Unlock, Close; Election.Run, serveTerm | scheduling |
| Outbox, `cloud/experimental/outbox` | records with status, attempts, the time of the next try, a lease | Add, Fetch, MarkSent, MarkFailed, MarkDead; Relay.Run, deliver, fail | the broker; the gorm store of `starter-outbox-gorm` |
| Scheduling, `cloud/scheduling` | the tasks, their runs in flight and queued | Schedule, Start, Stop, dispatch, runOnce | lock |
| Batch, resilience, limiters, load balancing, discovery, governance, cache, session, messaging | see `PROJECT.json` | | |
| Logging, code generators, starters, website | see `PROJECT.json` | | |

Calls go down the table in startup (application, configuration, container) and
up again in callbacks: conditions ask the container for beans, listeners are
called with the locks of a refresh held, servers report readiness or failure
from goroutines of their own, providers' watchers and operators call
`RefreshProperties` from any goroutine through the facade.

### What is hard, and what makes each part correct

* *Resolving.* `resolveBean` and `Find` call each other while conditions are
  half evaluated; the only guard is a status per definition. Correct: every
  definition is decided, a decision keeps its evidence, and when conditions are
  not circular the outcome is the only one that agrees with all of them.
* *Injecting.* Field cycles are legal, constructor cycles are not; the
  dependency graph that is sorted at the end must have no cycle all the same.
  Correct: order of initialization and of destruction, no half-built bean is
  handed out, `Refresh` returns, errors swallowed with
  `spring.force-autowire-is-nullable` do no harm to the order.
* *Refresh.* Sources change while they are read, refreshes overlap, binding
  fails, listeners panic. Correct: all or nothing, never back to older values,
  success means fresh, locks are given back.
* *Lifecycle.* Servers get ready, fail or return at any moment; a signal and a
  refresh arrive at any other. Correct: the barrier, the order of the shutdown,
  that both come to an end.
* *Saga.* Crashes between any two steps, a log that is written with errors
  ignored, recovery that is itself interrupted. Correct: all or nothing,
  reverse order, finished once.
* *TCC.* The log is a decision: before it recovery goes back, after it forward,
  and its save may fail like any other. Correct: one direction, all or nothing,
  no reservation that stays.
* *AT.* Statements commit locally, long before the transaction is decided; what
  protects a row in between is a lock in memory, what restores it an undo log
  on disk, and a crash loses the one and keeps the other. Correct: rows with a log in
  flight are locked, rollback restores, recovery finishes, locks come free; a row that
  the before-image lacks is not locked, and has to be excused.
* *Lock and election.* A lease expires by itself, its renewal may be late, its
  holder learns of a loss only from the next one who asks. Correct: who has
  lost the key is told, the work of two leaders overlaps only after an expiry,
  nobody keeps the key from the others.
* *Outbox.* Relays share the records, each call may fail, a delivery may have
  happened although it failed. Correct: nothing is lost, a duplicate has a
  reason, outcomes are final, everything is settled.

The hazards, each at its line and with the properties that cover it, are in
`PROJECT.json`; those without a property say why.

## 2. Modules

| Module | Models | Extends or composes |
|---|---|---|
| `BeanResolving` | `gs_core/resolving/resolving.go`, `gs_cond/cond.go`, `gs_init/init.go` | |
| `BeanInjecting` | `gs_core/injecting/injecting.go` | |
| `ConfigRegister` | abstract: what hot refresh promises | |
| `DynRefresh` | `App.RefreshProperties`, `AppConfig.Refresh`, `gs_dync/dync.go` | refines `ConfigRegister` |
| `AppLifecycle` | `gs_app/app.go`, `gs_app/signal.go`, `spring/gs/app.go`, `http.go`, `stopper.go` | the inside of a refresh is `DynRefresh` |
| `Saga` | `transaction/coordinator.go`, `store.go`, `starter-transaction-saga/recovery.go` | |
| `Tcc` | `transaction/tcc/coordinator.go`, `store.go`, `starter-transaction-tcc/recovery.go` | |
| `AutoTx` | `transaction/at/coordinator.go`, `lock.go`, `global.go`; `starter-transaction-at-gorm/plugin.go`, `branch.go`, `undolog.go`, `recovery.go` | |
| `MemoryLocker` | `lock/memory.go`, for one key | |
| `Election` | `lock/election.go` | composes several elections with `MemoryLocker` |
| `Outbox` | `outbox/relay.go`, `memstore.go`; `starter-outbox-gorm/store.go`, `publish.go` | |
| `MC...` | instances for TLC | each its component |
| `...Proofs` | theorems | each its component; those of `Election` and `Outbox` share `ReplicaProofs` |

### BeanResolving

The recursion is an explicit stack: a frame per call of `resolveBean`, a frame
per condition being evaluated, and `ret`, what the callee just returned. A
selector is the set of definitions `isBeanMatched` accepts. `ResolveNext` is the
loop of `resolveBeans`, `MatchNext`, `Accept` and `Reject` are `resolveBean`,
`FindStep` and `FindReturn` are `Find`, `GroupStep` is the `Matches` of Not, Or,
And and None with their early exits. The registration (global definitions,
modules with their own conditions and errors, configuration beans and their
children, duplicates) comes before and after. `Nesting` says how deep the groups
in a condition are nested, for a condition is built from operands that exist.
What the conditions mean, without any order of evaluation, is `Truth` and
`Meaning`: whether a condition of a definition holds when a set of definitions is
active. `Consistent` sets agree with all conditions; an application is
`Stratified` when the conditions of no definition come back to it (`Asked`).

### BeanInjecting

The stack holds the beans on the wiring path, each with the stage of `wireBean`
it has reached. A program says what each bean needs: `DependsOn`, constructor
arguments, fields, whether its constructor or Init callback fails. An injection
point is the list of candidates `getBean` or `getBeans` finds for it, whether
it takes many, is nullable, is lazy. `err` carries an error up the path until
someone swallows it. The sort of the destroyers is any order that is
topological for the recorded dependencies, for a Go map decides which one the
code finds. `finish` and `clock` record in which order calls of `wireBean`
returned.

### ConfigRegister, DynRefresh

A configuration is the version it has of every source. Sources change on their
own; a refresher takes `refreshMu`, reads one source after the other, any of
which may fail, publishes the snapshot as `Layered`, takes the lock of the
properties, validates every object, commits one object per step and calls one
listener per step. A field is read without a lock, so every state is one that
a reader may see. The abstract register says that a configuration in force is
only replaced as a whole, by one that can be bound and is older in no source;
`InForce`, the refinement mapping, is what is in force: the old configuration
until validation ends, the new one after.

### AppLifecycle

The main goroutine, one goroutine per server and the two halves of its
shutdown, the signal, and one refresh (the one past `refreshMu`). The barrier
is `pending` (the wait group of `ReadySignalImpl`), `released` (its channel) and
`intercepted` (its mark), each changed in a step of its own, as in the code.

### Saga

One saga, the processes that share its store, and the store. `SaveIntent`,
`ActionSucceeds`, `ActionFails` and `SaveConfirm` are the loop of `Execute`,
`Compensate` is one turn of `compensateOrdered`, `Commit` and `SaveOutcome` are
`finish`; `Scan`, `Recover` and `LoadFails` are what a starting process does.
`Crash` happens between any two steps, and during an action or a compensation
with or without its effect. Every call of the store may fail and is ignored
when it does. The steps that are missing from the log because of that are
history (`missing`), so that the properties can say what may go wrong in that
case and what may not.

### Tcc

As `Saga`, with one process: `SaveIntent`, `TrySucceeds`, `TryFails` and
`SaveTried` are the loop of `Execute`, `Decide` is the save of `StatusConfirming`
(142), `Confirm` and `Cancel` one turn of the second phase, `Finish` is `finish`.
`Recover` takes its direction from the log alone. A participant may refuse its
second phase (`refused`), which is counted and does not stop the others. What
a failed save keeps from the log is history (`unrecorded`, and `lost` after a
crash).

### AutoTx

Transactions run statements on rows of several databases. `Image` and `Acquire`
are `beforeMutate` (the before-image is read before the row is locked, as in the
code), `Register` and `LocalCommit` are `afterMutate` with the commit of the
local transaction, `LocalAbort` is its failure. An update or a delete may find
no row when the image is read (`Blind`): it then has no key to lock, takes no
lock, and goes on all the same; if the row has come into being by the time it
runs, it writes it. It is recorded with an empty image (`staged`) or not at all
(`bare`), as `Recorded` says. `Resolve` is `GlobalAT`;
`CommitBranch`, `LoadLogs`, `Restore`, `DropLogs` and `RollbackFails` are the
branches under the retry policy, `Release` the deferred release of the locks.
`Crash` loses coordinator and locks and keeps rows and undo logs; `Boot`,
`Recover`, `Recovered` and `Serve` are the recovery runner. A row's value is the
transaction that wrote it.

### MemoryLocker, Election

`MemoryLocker` holds the current generation of one key and the ticks that are
left of its lease; its operations are `TryAcquire`, `Unlock`, `RenewTick`,
`LoopEnds`, `Close` and `Tick`. `Election` composes it with several elections:
`Check`, `Win`, `Contended`, `Error` and `Wake` are the loop of `Run` with the polling
of `Acquire`, `StartTerm`, `Resign`, `AwaitWork` and `Release` are `serveTerm`, and
`WorkReturns` is the goroutine of `OnStartedLeading`. Its definitions are named
`Election...`, and the place in the code is `place`, where other modules have
`Next`, `Spec` and `pc`. A hold that nobody refers
to any more may be used for the next generation, which keeps the instance
finite without a bound on the number of terms.

### Outbox

`Add` is the business transaction, `Fetch` to `MarkDead` are one relay each at a
step of `runBatch`, `deliver` and `fail`; `Refail` is the way back of a record whose
dead letter could not be published. `durable` chooses between the two stores: the
one in memory hides what it hands out behind a lease that may run out while the
relay is still at work (`LeaseExpires`), the gorm one does not hide it. A
message may be taken by the broker although `Publish` failed.

## 3. Runs

| Run | Instance | Checked |
|---|---|---|
| `resolving` | three definitions with all combinations of ten condition lists in every order; assembled applications with four definitions | `DecisionsAreWitnessed`, `OneDefaultSurvives`, `StratifiedOutcome`, `ResolvingTerminates` |
| `injecting` | three beans in a ring, each of seven shapes, two kinds of roots, both modes, failing callbacks, unsatisfiable points | `DependenciesFinishFirst`, `InitializedInOrder`, `EagerInjectionsAreBuilt`, `DestroyedInReverse`, `RefreshReturns` |
| `dyn_refresh` | two refreshers, two sources with two changes and one, two fields; one version cannot be bound | `ValuesMatchProperties`, `RefreshIsFresh`, `ListenersFollow`, `ImplementsRegister`, `RefreshReturns` |
| `lifecycle` | three servers, one of them a PreStopper, one runner | `StartedMeansAllReady`, `NobodyServesEarly`, `ContainerOutlivesServers`, `FailureShutsDown`, `StartReturns`, `SignalEndsApp` |
| `saga` | one process, three steps of which any may be irreversible, three crashes, eight failing store calls | `AllOrNothing`, `UndoneInReverse`, `OverIsOver`, `Settles` |
| `tcc` | three participants, three crashes, eight failing store calls | `AllOrNothing`, `OneDirection`, `DecisionStands`, `ReservationsEnd` |
| `at` | two transactions, two databases with a row each, two statements, two attempts, a crash, two failing calls | `LogsAreLocked`, `AllOrNothing`, `RecoveryFinishes`, `LocksAreReleased` |
| `election` | two elections, three generations at once, leases of two ticks, one error | `DeposedAreTold`, `WorkIsCovered`, `CancelledReturn`, `SomebodyLeads` |
| `outbox` | two relays, two records in one batch, both stores, two attempts, three failing calls, a stop or crash | `NothingIsLost`, `DuplicatesHaveAReason`, `OutcomeStands`, `EverythingSettles` |

Three more runs look for the violation of a statement made by a comment, and
find one:

| Run | Statement | What the code does |
|---|---|---|
| `saga_replicas` | committed means that no compensation ran (`StatusCommitted`) | a replica that starts compensates the sagas others are executing: the log has no owner and no lease |
| `at_committed` | a commit that fails to drop its undo logs is a cleanup failure, not a consistency loss (`StatusCommitFailed`) | the recovery of the next start takes the undo logs for those of an undecided transaction and rolls it back |
| `outbox_same_row` | two relays never fetch the same pending row (`Store`, `gormStore.Fetch`) | the row locks of `FOR UPDATE SKIP LOCKED` end with the statement, as it runs in no transaction |

The type invariant of every component is a theorem (section 4), and is listed in
no configuration.

### Other differences between the code and its documentation

Met while modelling, each a state or a step of the models, without a run of its own:

* After the injection phase all beans are said to be created and initialized
  (`website/en/docs/2.guides/02-ioc-container.md:1668`). A bean that only lazy
  fields ask for is injected as registered, because `getBean` no longer wires
  once the state is Refreshed (`injecting.go:325`).
* The comment of `Close` (`injecting.go:172-173`) says that beans are destroyed
  after the beans they depend on; they are destroyed before them (946-950), the
  sensible order.
* The guide (`website/en/docs/2.guides/01-configuration.md:880`) promises no
  intermediate state with partial updates; fields are committed one by one and
  read without a lock (`dync.go:213`). A single field is atomic.
* `Stopper` (`spring/gs/stopper.go:27-29`) is said to run after all servers have
  stopped and the container is closed; after a failed start nobody stops the
  one or closes the other (`app.go:346-349`).
* An app that is mid-close must not be refreshed (`app.go:405-407`), but a refresh
  in flight is neither awaited nor stopped (237-254).
* AT "on rollback restores exactly" what a row looked like before the write
  (`at/at.go:28-31`). The before-image is read before the row is locked
  (`plugin.go:126`, 131). If another transaction commits the row and releases it
  in between, and the database lets the write through (read committed does),
  the rollback restores what the row was before the other one's commit.
  `AllOrNothing` excuses exactly those rows (`stale`).
* "While a global transaction holds the lock on a row, another global transaction
  that touches the same row is rejected, so two in-flight transactions cannot both
  stage conflicting changes to one row" (`at/at.go:33-36`), and the image is the
  rows the write will touch (`USAGE.md:232-233` of the gorm starter). The keys to
  lock are those of the before-image (`plugin.go:126-135`), but the statement runs
  on its own WHERE. If the image is empty, nothing is locked, and a row that
  another transaction in flight has inserted and committed locally in between is
  written although that one holds its lock. An update is recorded with an
  empty image when its re-read, which for want of keys is of the whole table
  (157), finds anything; a delete never is (168-170): rolling back does not
  undo the write. A WHERE that more rows match than its image had does the
  same to the rows the image lacks; the model, whose statements have one row, has
  it for rows that were not there. `LogsAreLocked` and `AllOrNothing` excuse the
  rows it happens to (`stale` again), and `LogsAreLocked` does not ask for a lock
  of a log with an empty image. Without either excuse TLC finds the case.
* The rollback of an AT branch "must be idempotent" and may "run against rows
  already restored" (`at/at.go:240-241`, 255). Rows are restored and logs deleted by
  separate statements (`branch.go:62-67`), and a row that was deleted is restored by
  an insertion, which fails when a crash has come in between and the row is
  back; its logs then stay (`Refused`, the exception in `RecoveryFinishes`).
* `StatusCancelling` (`tcc.go:173`, `store.go:46-48`) is never written: a
  transaction that is being cancelled is in the log as `StatusTrying`, which
  recovery treats the same.
* `MaxAttempts` (`outbox.go:113-114`) is the number of deliveries before a record is
  dead-lettered; when `MarkFailed` fails and dead letters are off, `fail` goes on
  to `MarkDead` after any attempt (`relay.go:208-216`).

### Bounds, and why they are enough

* *Resolving.* The interesting cases need a definition that is asked for by
  two others, and cycles of conditions of length one to three: three definitions
  have both. A fourth occurs as the child of a configuration bean.
* *Injecting.* With three beans in a ring, every kind of dependency (DependsOn,
  constructor, field, collection, lazy, optional) meets every other on cycles
  of two and three beans and outside of cycles.
* *Refresh.* `MaxVersion` and `Last` bound the changes of the sources: the first
  version of the file that appears cannot be bound, so that there is a refused
  refresh between two that succeed, and the second source changes between the
  reads of two refreshers. Calls of `RefreshProperties` are not bounded.
* *Lifecycle.* A server that is ready, one that fails and one that is late are
  three. The number of servers and runners has no bound in the proofs.
* *Saga.* Three steps: one completed, one in flight, one to come. Three crashes
  interrupt the execution, the recovery and its repetition. The eight
  failing calls are more than one execution makes after its first save, so the
  log may lag behind by any distance.
* *Replicas.* Two processes and two steps, without a crash or a failing call.
* *TCC.* As the saga.
* *AT.* Two statements are enough for two on one row of one transaction, for one on
  each database, and for two transactions that meet on a row; two attempts and
  two failures for a branch that is given up. They are also enough for a write
  without a lock: one transaction inserts the row that the other has not found.
  What needs a third transaction (a row that was stale, and is again as somebody
  found it) was explored once for the invariants and those of the proofs, with
  three transactions and four statements on one row (14 million states).
* *Election.* A holder, its successor and one generation that only a renew loop
  refers to any more. Terms, cancellations and expirations are not bounded.
* *Outbox.* Two records are a batch of which one can fail while the other waits;
  three failures are one more than the attempts, so that a record runs through
  retry, dead letter and the failure of that. `copies` stops counting at two.

No run uses symmetry, constraints or views. Deadlock is checked everywhere: a
finished system stutters by an explicit action.

### Fairness

* The resolving and injecting phases are one goroutine: weak fairness of the
  next step.
* A refresher that runs is scheduled, and listeners return (`WF` of `Proceed`);
  a Go mutex hands itself to a waiter that has waited too long, so whoever waits
  for `refreshMu` gets it (`SF` of `LockRefresh`). Nobody has to call a refresh,
  and no source has to change, fail or recover.
* The main goroutine is scheduled and runners return. A server keeps the
  promises of its interface: it gets ready or returns, returns once it is
  stopped, and its Stop returns. Nothing makes a server fail or a signal
  arrive. A server that returns nil before it is ready leaves Start waiting for
  ever; `early` records those, and the liveness properties that it would break
  are stated for runs without any.
* Processes are restarted and scheduled, actions and compensations return
  (`WF` of `Proceed`). Crashes and failing calls are never forced. The same holds
  of TCC and of AT, where statements need not be run. For AT this includes that
  the business method returns: when it panics, `GlobalAT` neither commits nor rolls
  back (`global.go:74-83`), and the transaction keeps its locks and its place in
  the coordinator until the process ends. `LocksAreReleased` excludes that; the
  invariants do not, for such a transaction is one that never leaves `business`.
* `Run` of an election goes on, and the work of a term returns when its context is
  done, as the documentation of `OnStartedLeading` asks (`WF` of `Finish`); renewals
  may be late, and time need not pass. Nobody has to be cancelled.
* Relays are scheduled and restarted, and time passes, so that back-offs and leases
  end (`WF` of `TimePasses`).

## 4. Proofs

| Module | Theorems |
|---|---|
| `DynRefreshProofs` | `Typing`, `ExclusionHolds`, `ValuesFollow`, `ValuesMatch`, `Freshness`, `RefreshedIsFresh`, `ListenersAreTold`, `Implementation` |
| `BeanResolvingProofs` | `Typing`, `Witnesses`, `Survivor`, `Stratification`, `SoleOutcome`, `RecursionIsBounded` |
| `BeanInjectingProofs` | `WiringTyping`, `DependenciesFinish`, `DependenciesRank`, `InjectionsAreBuilt`, `InitializedOrder`, `Typing`, `DestroyedReverse`, `SortSucceeds`, `BeansAreWiredOnce`, `WiringIsBounded` |
| `AppLifecycleProofs` | `Typing`, `Lifecycle`, `StartedReady`, `NoEarlyService`, `ServersLeaveFirst`, `RefreshNeedsContainer` |
| `SagaProofs` | `Typing`, `Invariants`, `AllOrNothingHolds`, `ReverseOrder`, `NothingAfterTheEnd` |
| `TccProofs` | `Directed`, `Typing`, `OneDirectionOnly`, `DecisionsStand`, `Phases`, `AllOrNothingHolds` |
| `AutoTxProofs` | `Typing`, `Locking`, `LogsStayLocked`, `Books`, `Coverage`, `RowsAreRight`, `AllOrNothingHolds`, `Finishes` |
| `ReplicaProofs` | of the outbox `Invariants`, `NoLoss`, `DuplicatesExplained`, `OutcomesStand`, `OutboxTyping`; of the election `Terms`, `LeadersAreTold`, `WorkStaysCovered` |

They rest on the named assumptions about the constants in the modules
(`CondAssumption`, `NestingAssumption`, `ProgramAssumption`,
`RefreshAssumption`, `InjectingAssumption`, `LifecycleAssumption`,
`SagaAssumption`, `TccAssumption`, `AutoTxAssumption`, `LockerAssumption`,
`ElectionAssumption`, `OutboxAssumption`), which TLC evaluates in the runs, and on
nothing else; the last three theorems about the saga, and its invariant, also assume that one
process works on it, without which they are false (`saga_replicas`).

*Refresh.* `ValuesMatchProperties` speaks of the states between refreshes. It
becomes inductive with `Exclusion`: at most one refresher is past `refreshMu`, it
alone holds the lock of the properties, and `at`, `old` and the fields already
committed are what its place in the code says. Freshness needs an invariant
about time: what is in force is never newer than the sources, and what the
holder of `refreshMu` has read of a source is neither older than what is in
force nor than what it found there when it was called. From that follow `RefreshIsFresh`, and the refinement: the step
that ends a validation maps to `Install`, every other to a stutter.
`ListenersFollow` speaks of the moments without a refresh; during one, an object
that has been committed may be ahead of its listener, but only as long as the
loop has still to come to it (`Due`).

*Resolving.* Three layers, each inductive on top of the one before. All read the
stack from the bottom, for there a frame keeps its level as long as it lives.

The first (`Inv`) holds for any conditions, circular ones too. Calls are
disciplined: no definition is resolved by two calls at a time
(`ResolvedOnce`), each one under way has a call (`HasCall`), and a result waits
exactly where someone is to take it (`Answered`). Decisions keep their evidence: what
a Find holds is active (`FoundIsActive`), what `resolveBean` has behind it rests
on an active definition (`PassedIsBacked`, `AnswerIsBacked`), and so does every
decision (`DecisionsBacked`, from which `DecisionsAreWitnessed` follows). Among
defaults that yield to each other, as long as none is active a Find has passed
over only those whose calls lie below it (`NoneTaken`), so that the innermost
becomes active; once one is, every Find comes upon it (`OneTaken`). So one is
taken and never a second: `OneDefaultSurvives`.

The second (`Layout`) is about groups: which operand a frame evaluates, and that
whatever is asked on behalf of a definition is in what its conditions ask for.

The third (`AllRight`) is for applications without circular conditions. Take any
set of definitions with which all conditions agree: what every frame has behind
it, the result that waits for it and every decision are as that set has them.
The heart is `Fresh`: a Find never comes upon another definition that is still
being resolved, for this would close a circle of conditions. That a set that agrees
exists is independent of the run; it is built by the lemma `Recursion`, which
turns a definition along a well-founded dependency into a function, over the
nesting of conditions for `Meaning` and over the definitions for the set itself.
`StratifiedOutcome` follows, and `SoleOutcome` with it: at the end, what is
active is the one and only consistent set, whatever the order of registration.

`RecursionIsBounded` follows from the first two layers, without any assumption about
circles. A definition is on the path at most once (`ResolvedOnce`), every frame
works for one of the definitions on it (`Owner`), and of the frames that work for the
same one each condition is less deeply nested than the one that asks for it
(`Descends`); so definition and nesting tell every frame from all others. This is the
safety half of `ResolvingTerminates`.

*Injecting.* A bean's status alone does not say why the dependency graph has no
cycle. The invariant is about the path: a bean has at most one frame, a bean
with a frame has not finished, and while a bean is on the path whatever is
recorded for it has finished, except the one bean that lies right above it.
Errors that are swallowed only remove frames. `DependenciesRank` draws the conclusion: when
the path is empty, `finish` ranks the graph. A finite set can
be put in the order of any ranking (`RankedOrder`), so the sort of the destroyers
never meets a cycle (`SortSucceeds`).
For `EagerInjectionsAreBuilt` the invariant (`BuiltInv`) follows the frames: a bean
that counts as created has a value, and each candidate that a frame has passed
has one, or is the bean of the frame right above, which will have one when it
returns. It holds where errors are not swallowed; where they are, the property
is not claimed.
For `InitializedInOrder` one has to say what "depends on" means for beans that are
half wired. `MetInv` does: each frame has met what lies behind it (`Met`), that
is, each candidate it has passed is wired and recorded, or needs the frame's own
bean because it waits for it further down the path; the bean right above will be
wired when its frame returns; and a bean on the path is needed by all that are
below it (`CalledBelow`). It holds where errors are not swallowed, and so does
the property. `DestroyedInReverse` follows from it and from `DestroyInv`: the callbacks that have
run, followed by those still to run, put each bean before those it is recorded
to depend on.
`BeansAreWiredOnce` is an action property that also holds where errors are swallowed.
Its invariant, `StageInv`, says that the status of a bean on the path is the one that the
stage of its frame asks for, and that only a finished bean is wired; a bean that a
swallowed error has left half wired is passed over from then on, never built
again. `WiringIsBounded` follows from the invariant about the path, as no bean
is on it twice; it is the safety half of `RefreshReturns`.

*Lifecycle.* One inductive invariant, `LifecycleInv`, in three parts: the barrier
(a server that was launched is still waited for, has got ready, or has left the
wait group after setting the mark), the phases of the main goroutine, and the container.
The four safety properties are its consequences.

*Saga.* `AllOrNothing` speaks of settled states and says nothing about how they
are reached. `SagaInv` adds the way there: before Execute there is nothing
(`Before`); on the way forward exactly the steps up to `done` are applied, and the one at hand
is in the log or in `missing` (`Forward`); a compensation has undone the steps
behind it or counts as failed (`Reverse`); what the log would not let recovery
find is in `missing`, or was lost in a crash (`Logged`); and a saga that is left
alone is whole, empty, or known to have failed (`Outcome`). A crash turns a
non-empty `missing` into `lost`, so that recovery, when it starts, covers every
applied step.

*TCC.* The invariant is the direction: nothing is released when the log or the
coordinator is past the decision, nothing is confirmed before it, and only a
crash after a failed save can part the two. All or nothing needs what has been
done on the way (`PhaseInv`): the log, or what a failed save has kept from it,
covers whatever is reserved; a confirmation has confirmed the participants
behind it, a cancellation has left nothing on those behind it, and both end with
all of them.

*AT.* Who is past `Acquire` owns the row of its statement, every undo log of a
transaction in flight is on a row it owns, unless the image was empty in the one
case or the other, and during recovery nobody is past anything. `LogsAreLocked`
follows, together with the next invariant. `CoverInv` says who will take care of an undo
log: its transaction, one of the branches it has still to resolve, or the
recovery; a log of which that is not true is on an orphaned row. With the lock it
follows that the logs of a row that have something to put back all belong to the
last transaction that wrote it, unless the row is stale. It ceases to be stale only
when a transaction that has no log on it yet writes it, with its lock and from
an image that is right; an invariant that let any such write clear the mark is
false, since the older transaction's logs may still be there.
`RowInv` is about rows that are half rolled back. A replay starts again from the
newest log after every interruption, so a row may be in any state the
transaction went through, and an update that is replayed on a row that is gone
does nothing. What makes the replay end right all the same is this: the oldest
log has the original row; a row whose remaining logs are all updates is there;
and an image taken after nothing but updates is of a row that was there. A log with an
empty image puts nothing back and does not count.
`AllOrNothing` and `RecoveryFinishes` follow.

*Election.* `TermInv` says which generation each election refers to, that no two
refer to the same, and that a generation that is not current any more but still
referred to has been told so and was taken over after its lease had expired.

*Outbox.* `Core` has the types and says that a relay has records in hand exactly
when it is at work; `Kept`, that what it is about to mark sent has been delivered
and what it is about to mark dead is at the dead-letter destination; `Sole`, that
a record without an excuse is in at most one hand, is pending there, and has been
delivered at most once. `OutboxTyping` needs a count: the attempts of a
pending row and the relays that still owe it one (`Owing`) were all paid for by
faults (`Paid`).

Every safety and action property of a passing run, and the refinement of
`ConfigRegister`, is thus a theorem. Only model-checked are the liveness properties,
which are beyond the prover: `ResolvingTerminates`, `RefreshReturns` (twice),
`FailureShutsDown`, `StartReturns`, `SignalEndsApp`, `Settles`, `ReservationsEnd`,
`LocksAreReleased`, `CancelledReturn`, `SomebodyLeads` and `EverythingSettles`. Induction
on an operator is beyond it too; where one is needed (sequences, functions by
recursion) the proofs use a set of numbers that has each number whose smaller
ones it has (`AllNumbers`), or the least element of a well-founded order.

## 5. What is abstracted

* Reflection, types, names and tags: a selector is what it selects, a field is
  the source it is bound to. Error texts, logging and metrics are left out.
* In `BeanResolving` the answer of an `OnFunc` condition is a constant. Its function
  is given the `ConditionContext` (`gs_cond/cond.go:58-59`) and could itself call
  `Find`, which the model does not follow.
* In `DynRefresh` every refresh finds at least one registered object (without any,
  `Refresh` returns early, `gs_dync/dync.go:199`), a converter does not panic, and
  `OnChanged` is one step.
* In `AppLifecycle` one refresh is followed, a server that panics is one that
  fails, an application without servers is up at once, the stoppers are one step.
* In `Saga` one saga is followed and is executed once; the retries of a phase,
  results, definitions that are missing at recovery and a coordinator without a
  store are left out. An action does not take effect after the process that
  called it died.
* In `Tcc` one transaction and one process are followed. A `Try` may fail after it
  has reserved something (`leaked`); `Execute` then cancels the participants before
  it and not that one (`coordinator.go:124-131`), so neither `AllOrNothing` nor
  `ReservationsEnd` counts what it has left.
* In `AutoTx` a statement changes one row, which it finds by its key, and the rows of
  a database are one table.
* In `MemoryLocker` tokens are unique and there is one key, in
  `Outbox` contents, observers and the cache of publishers are left out.

Not modelled are the components that `PROJECT.json` lists as such: reading and
binding of configuration, log output, wrappers of third-party libraries and
code generators, which are I/O or sequential code with table tests, and those
that the plan below still has.

## 6. Plan

The order is by how much of the system rests on the part. 1 to 9 and 11 are done.

1. `DynRefresh` with `ConfigRegister`: model, run, proofs of safety and
   refinement.
2. `BeanInjecting`: model, run, proof of the order of dependencies.
3. `BeanResolving`: model and run (proofs: 11).
4. `AppLifecycle`: model, run, proofs of safety.
5. `Saga`: model, runs, proofs of its safety properties.
6. `MemoryLocker` and `Election`: model, run, proofs for any number of elections.
7. `Outbox`: model, runs, proofs for any number of relays and records.
8. `AutoTx`: model, runs, proofs of its safety properties.
9. `Tcc`: model, run, proofs of its safety properties.
10. `Scheduling`: overlap policies, the queued run, Stop; the lock of item 6 for
    runs that must be single.
11. `BeanResolving` proofs: the stack discipline, evidence, defaults that yield, and
    the outcome when conditions are not circular.
12. The Redis lock of AT, whose entries expire.
13. Restart of batch chunks, the breaker and the bulkhead, governance rules.
14. Pure algorithms: the topological sort with its grouping (`gs_util/util.go`),
    the selection of candidates by tag (`getBeans`), rate limiters against
    their definition over bounded histories.
15. Two applications that share the facade, providers that are armed again
    after they were closed, `OnChanged` in two steps (the second of two
    concurrent listeners replaces the first, `dync.go:93`), converters that
    panic.
