-------------------------------- MODULE Saga --------------------------------
(***************************************************************************)
(* One saga and its log                                                    *)
(* (cloud/experimental/transaction/coordinator.go, store.go).              *)
(*                                                                         *)
(* Execute runs the steps in order and records in the store, before and    *)
(* after each, how far it has come; when an action fails it compensates    *)
(* the steps that succeeded in reverse.  A process may crash at any point. *)
(* When one starts, the recovery runner                                    *)
(* (starter/experimental/starter-transaction-saga/recovery.go) hands every *)
(* saga whose log says that it is running to Recover, which compensates    *)
(* whatever the log says may have happened.  The store is durable; each of *)
(* its calls may fail, and the coordinator ignores it when it does.        *)
(*                                                                         *)
(* Steps are completed in order, so a snapshot's Completed is modelled by  *)
(* its length and a step by its place.  Results, retries of a phase and    *)
(* the observer are left out.                                              *)
(***************************************************************************)
EXTENDS Naturals

CONSTANTS
    Process,        \* processes that share the store
    N,              \* how many steps the saga has
    MaxCrashes,     \* bound on crashes
    MaxFaults       \* bound on store calls that fail

ASSUME SagaAssumption ==
    /\ N \in Nat \ {0}
    /\ MaxCrashes \in Nat
    /\ MaxFaults \in Nat

Step == 1..N

VARIABLES
    irreversible,   \* steps with a nil Compensate; never changes
    log,            \* the stored snapshot
    pc,             \* where each process is
    done,           \* completed: how many steps, as the process knows it
    at,             \* the step being run, or the next one to compensate
    outcome,        \* Result.Status of the compensation in progress
    executing,      \* the process that is inside Execute
    effect,         \* what the actions and compensations have done
    returned,       \* what Execute has returned, or "none"
    submitted,      \* Execute has been called
    missing,        \* history: completed steps, or the one being run, whose saves failed
    lost,           \* history: a process crashed when there were such steps
    botched,        \* history: steps whose compensation has failed
    crashes,
    faults

vars == <<irreversible, log, pc, done, at, outcome, executing, effect, returned,
          submitted, missing, lost, botched, crashes, faults>>

NoLog == [status |-> "none", completed |-> 0, inProgress |-> 0]

Snapshot == [status : {"none", "running", "compensated", "failed"},
             completed : 0..N, inProgress : 0..N]

TypeOK ==
    /\ irreversible \in SUBSET Step
    /\ log \in Snapshot
    /\ pc \in [Process -> {"down", "booting", "loading", "idle", "intent", "action",
                           "confirm", "compensating"}]
    /\ done \in [Process -> 0..N]
    /\ at \in [Process -> 0..N + 1]
    /\ outcome \in [Process -> {"compensated", "failed"}]
    /\ executing \in SUBSET Process
    /\ effect \in [Step -> {"none", "applied", "leaked", "undone"}]
    /\ returned \in {"none", "committed", "compensated", "failed"}
    /\ submitted \in BOOLEAN /\ lost \in BOOLEAN
    /\ missing \in SUBSET Step /\ botched \in SUBSET Step
    /\ crashes \in 0..MaxCrashes
    /\ faults \in 0..MaxFaults

Init ==
    /\ irreversible \in SUBSET Step
    /\ log = NoLog
    /\ pc = [p \in Process |-> "down"]
    /\ done = [p \in Process |-> 0]
    /\ at = [p \in Process |-> 0]
    /\ outcome = [p \in Process |-> "compensated"]
    /\ executing = {}
    /\ effect = [s \in Step |-> "none"]
    /\ returned = "none"
    /\ submitted = FALSE /\ lost = FALSE
    /\ missing = {} /\ botched = {}
    /\ crashes = 0 /\ faults = 0

Goto(p, l) == pc' = [pc EXCEPT ![p] = l]

\* A call of the store succeeds and leaves snap, or it fails.
Saved(snap)  == log' = snap /\ UNCHANGED faults
StoreFails   == faults < MaxFaults /\ faults' = faults + 1 /\ UNCHANGED log

Running(completed, inProgress) ==
    [status |-> "running", completed |-> completed, inProgress |-> inProgress]

-----------------------------------------------------------------------------
(* Execute. *)

Submit(p) ==
    /\ pc[p] = "idle" /\ ~submitted
    /\ submitted' = TRUE
    /\ executing' = executing \cup {p}
    /\ done' = [done EXCEPT ![p] = 0]
    /\ at' = [at EXCEPT ![p] = 1]
    /\ Goto(p, "intent")
    /\ UNCHANGED <<irreversible, log, outcome, effect, returned, missing, lost, botched,
                   crashes, faults>>

\* Mutant: the step in flight is not recorded.
SaveIntentBlank(p) ==
    /\ pc[p] = "intent" /\ at[p] <= N
    /\ \/ Saved(Running(done[p], 0)) /\ missing' = {}
       \/ StoreFails /\ missing' = missing \cup {at[p]}
    /\ Goto(p, "action")
    /\ UNCHANGED <<irreversible, done, at, outcome, executing, effect, returned,
                   submitted, lost, botched, crashes>>

SaveIntent(p) ==
    /\ pc[p] = "intent" /\ at[p] <= N
    /\ \/ Saved(Running(done[p], at[p])) /\ missing' = {}
       \/ StoreFails /\ missing' = missing \cup {at[p]}
    /\ Goto(p, "action")
    /\ UNCHANGED <<irreversible, done, at, outcome, executing, effect, returned,
                   submitted, lost, botched, crashes>>

ActionSucceeds(p) ==
    /\ pc[p] = "action"
    /\ effect' = [effect EXCEPT ![at[p]] = "applied"]
    /\ Goto(p, "confirm")
    /\ UNCHANGED <<irreversible, log, done, at, outcome, executing, returned, submitted,
                   missing, lost, botched, crashes, faults>>

\* An action that returns an error may have had its effect all the same; its
\* step does not count as completed and is not compensated.
ActionFails(p) ==
    /\ pc[p] = "action"
    /\ \E e \in {"none", "leaked"} : effect' = [effect EXCEPT ![at[p]] = e]
    /\ at' = [at EXCEPT ![p] = done[p]]
    /\ outcome' = [outcome EXCEPT ![p] = "compensated"]
    /\ missing' = missing \ {at[p]}
    /\ Goto(p, "compensating")
    /\ UNCHANGED <<irreversible, log, done, executing, returned, submitted, lost, botched,
                   crashes, faults>>

SaveConfirm(p) ==
    /\ pc[p] = "confirm"
    /\ done' = [done EXCEPT ![p] = at[p]]
    /\ at' = [at EXCEPT ![p] = at[p] + 1]
    /\ \/ Saved(Running(at[p], 0)) /\ missing' = {}
       \/ StoreFails /\ UNCHANGED missing
    /\ Goto(p, "intent")
    /\ UNCHANGED <<irreversible, outcome, executing, effect, returned, submitted, lost,
                   botched, crashes>>

\* finish of a committed saga: its log is deleted.
Commit(p) ==
    /\ pc[p] = "intent" /\ at[p] > N
    /\ \/ Saved(NoLog) /\ missing' = {}
       \/ StoreFails /\ UNCHANGED missing
    /\ returned' = "committed"
    /\ executing' = executing \ {p}
    /\ Goto(p, "idle")
    /\ UNCHANGED <<irreversible, done, at, outcome, effect, submitted, lost, botched, crashes>>

-----------------------------------------------------------------------------
(* compensateOrdered, and finish of a saga that did not commit. *)

\* Mutant: the completed steps are compensated in the order they were run in.
CompensateForward(p) ==
    LET s == done[p] + 1 - at[p] IN
    /\ pc[p] = "compensating" /\ at[p] \in Step
    /\ at' = [at EXCEPT ![p] = @ - 1]
    /\ \/ /\ s \notin irreversible
          /\ effect' = [effect EXCEPT ![s] = "undone"]
          /\ UNCHANGED <<outcome, botched>>
       \/ /\ s \in irreversible
          /\ UNCHANGED effect
          /\ outcome' = [outcome EXCEPT ![p] = "failed"]
          /\ botched' = botched \cup {s}
    /\ UNCHANGED <<irreversible, log, pc, done, executing, returned, submitted, missing,
                   lost, crashes, faults>>

\* The next step is compensated.  What fails, or cannot be undone, is counted
\* and does not keep the steps before it from being compensated.
Compensate(p) ==
    LET s == at[p] IN
    /\ pc[p] = "compensating" /\ s \in Step
    /\ at' = [at EXCEPT ![p] = @ - 1]
    /\ \/ /\ s \notin irreversible
          /\ effect' = [effect EXCEPT ![s] = "undone"]
          /\ UNCHANGED <<outcome, botched>>
       \/ /\ IF s \in irreversible THEN UNCHANGED effect
             ELSE \E e \in {effect[s], "undone"} : effect' = [effect EXCEPT ![s] = e]
          /\ outcome' = [outcome EXCEPT ![p] = "failed"]
          /\ botched' = botched \cup {s}
    /\ UNCHANGED <<irreversible, log, pc, done, executing, returned, submitted, missing,
                   lost, crashes, faults>>

\* Mutant: the outcome is saved while the compensation is going on.
SaveOutcomeEarly(p) ==
    /\ pc[p] = "compensating"
    /\ \/ /\ Saved([status |-> outcome[p], completed |-> done[p], inProgress |-> 0])
          /\ at[p] > 0 /\ log.status = "running"
          /\ UNCHANGED <<pc, executing, returned>>
       \/ /\ at[p] = 0
          /\ UNCHANGED <<log, faults>>
          /\ Goto(p, "idle")
          /\ executing' = executing \ {p}
          /\ returned' = IF p \in executing THEN outcome[p] ELSE returned
    /\ UNCHANGED <<irreversible, done, at, outcome, effect, submitted, missing, lost,
                   botched, crashes>>

SaveOutcome(p) ==
    /\ pc[p] = "compensating" /\ at[p] = 0
    /\ \/ Saved([status |-> outcome[p], completed |-> done[p], inProgress |-> 0])
       \/ StoreFails
    /\ Goto(p, "idle")
    /\ executing' = executing \ {p}
    /\ returned' = IF p \in executing THEN outcome[p] ELSE returned
    /\ UNCHANGED <<irreversible, done, at, outcome, effect, submitted, missing, lost,
                   botched, crashes>>

-----------------------------------------------------------------------------
(* Crashes, and recovery when a process starts. *)

\* What the process was doing when it died may have been done or not.
Crash(p) ==
    /\ pc[p] # "down" /\ crashes < MaxCrashes
    /\ crashes' = crashes + 1
    /\ Goto(p, "down")
    /\ \/ UNCHANGED effect
       \/ pc[p] = "action" /\ effect' = [effect EXCEPT ![at[p]] = "applied"]
       \/ /\ pc[p] = "compensating" /\ at[p] \in Step \ irreversible
          /\ effect' = [effect EXCEPT ![at[p]] = "undone"]
    /\ lost' = (lost \/ missing # {})
    /\ executing' = executing \ {p}
    /\ done' = [done EXCEPT ![p] = 0]
    /\ at' = [at EXCEPT ![p] = 0]
    /\ UNCHANGED <<irreversible, log, outcome, returned, submitted, missing, botched, faults>>

Boot(p) ==
    /\ pc[p] = "down"
    /\ Goto(p, "booting")
    /\ UNCHANGED <<irreversible, log, done, at, outcome, executing, effect, returned,
                   submitted, missing, lost, botched, crashes, faults>>

\* recoveryRunner.Run: the scan for running sagas; an error ends it.
Scan(p) ==
    /\ pc[p] = "booting"
    /\ \/ Goto(p, IF log.status = "running" THEN "loading" ELSE "idle") /\ UNCHANGED <<log, faults>>
       \/ Goto(p, "idle") /\ StoreFails
    /\ UNCHANGED <<irreversible, done, at, outcome, executing, effect, returned,
                   submitted, missing, lost, botched, crashes>>

\* Mutant: recovery forgets the step in flight.
RecoverCompleted(p) ==
    /\ pc[p] = "loading"
    /\ IF log.status = "running"
       THEN /\ done' = [done EXCEPT ![p] = log.completed]
            /\ at' = [at EXCEPT ![p] = log.completed]
            /\ outcome' = [outcome EXCEPT ![p] = "compensated"]
            /\ Goto(p, "compensating")
       ELSE Goto(p, "idle") /\ UNCHANGED <<done, at, outcome>>
    /\ UNCHANGED <<irreversible, log, executing, effect, returned, submitted, missing,
                   lost, botched, crashes, faults>>

\* Mutant: recovery declines a saga with a step in flight.
RecoverConfirmed(p) ==
    /\ pc[p] = "loading"
    /\ IF log.status = "running" /\ log.inProgress = 0
       THEN /\ done' = [done EXCEPT ![p] = log.completed]
            /\ at' = [at EXCEPT ![p] = log.completed]
            /\ outcome' = [outcome EXCEPT ![p] = "compensated"]
            /\ Goto(p, "compensating")
       ELSE Goto(p, "idle") /\ UNCHANGED <<done, at, outcome>>
    /\ UNCHANGED <<irreversible, log, executing, effect, returned, submitted, missing,
                   lost, botched, crashes, faults>>

\* Recover: the step in flight is compensated first, then the completed ones.
Recover(p) ==
    /\ pc[p] = "loading"
    /\ IF log.status = "running"
       THEN /\ done' = [done EXCEPT ![p] = log.completed]
            /\ at' = [at EXCEPT ![p] = IF log.inProgress # 0 THEN log.inProgress
                                       ELSE log.completed]
            /\ outcome' = [outcome EXCEPT ![p] = "compensated"]
            /\ Goto(p, "compensating")
       ELSE Goto(p, "idle") /\ UNCHANGED <<done, at, outcome>>
    /\ UNCHANGED <<irreversible, log, executing, effect, returned, submitted, missing,
                   lost, botched, crashes, faults>>

\* The log cannot be loaded: the saga is left for the next start.
LoadFails(p) ==
    /\ pc[p] = "loading"
    /\ StoreFails
    /\ Goto(p, "idle")
    /\ UNCHANGED <<irreversible, done, at, outcome, executing, effect, returned,
                   submitted, missing, lost, botched, crashes>>

-----------------------------------------------------------------------------

\* What a process does by itself.
Proceed(p) ==
    \/ SaveIntent(p) \/ ActionSucceeds(p) \/ ActionFails(p) \/ SaveConfirm(p) \/ Commit(p)
    \/ Compensate(p) \/ SaveOutcome(p)
    \/ Boot(p) \/ Scan(p) \/ Recover(p) \/ LoadFails(p)

\* Everybody waits for the next request.
Resting == (\A p \in Process : pc[p] = "idle") /\ submitted /\ UNCHANGED vars

Next == (\E p \in Process : Submit(p) \/ Proceed(p) \/ Crash(p)) \/ Resting

\* Processes are scheduled and restarted, actions and compensations return.
Spec == Init /\ [][Next]_vars /\ \A p \in Process : WF_vars(Proceed(p))

-----------------------------------------------------------------------------
(* Properties. *)

Applied == {s \in Step : effect[s] = "applied"}

\* Nobody works on the saga, and recovery would leave it alone.
Settled ==
    /\ \A p \in Process : pc[p] \in {"idle", "down", "booting"}
    /\ log.status # "running"

\* All or nothing, through crashes at any point, of the recovery too, and
\* although failed writes of the log are ignored: a settled saga has had all of
\* its effects or none is left, unless a compensation failed and the log or the
\* caller of Execute was told so, or a process crashed when the step it was
\* running, or one it had completed, was missing from the log because it could
\* not be saved.
AllOrNothing ==
    (Settled /\ ~lost /\ log.status # "failed" /\ returned # "failed") =>
        Applied \in {{}, Step}

\* Steps are undone in reverse over any number of interrupted attempts: nothing
\* is undone before what was built on it, unless that failed.
UndoneInReverse ==
    ~lost => \A s, t \in Step :
        (s < t /\ effect[s] = "undone" /\ effect[t] = "applied") => t \in botched

\* Once the log says that a saga is over, nothing touches it again: neither a
\* second recovery nor the rest of the first.
Over == log.status \in {"compensated", "failed"}

OverIsOver == [][Over => log' = log /\ effect' = effect]_vars

\* However often it is interrupted, the saga settles, unless the store failed
\* on the way.
Settles == (log.status = "running") ~> (log.status # "running" \/ faults > 0)

\* The comment of StatusCommitted (transaction.go:126): every action
\* succeeded and no compensation ran.
CommittedMeansUncompensated ==
    returned = "committed" => \A s \in Step : effect[s] # "undone"
=============================================================================
