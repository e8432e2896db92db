----------------------------- MODULE SagaProofs -----------------------------
(***************************************************************************)
(* Proofs about a saga of any number of steps, of which any may be         *)
(* irreversible, with any number of crashes and of failed store calls.     *)
(* All but the types are about a single process: when processes share the  *)
(* store, the recovery of one interferes with another.                     *)
(***************************************************************************)
EXTENDS Saga, TLAPS

Places == {"down", "booting", "loading", "idle", "intent", "action", "confirm", "compensating"}

\* The types without those of the Boolean variables.
Types ==
    /\ irreversible \in SUBSET Step
    /\ log \in Snapshot
    /\ pc \in [Process -> Places]
    /\ done \in [Process -> 0..N]
    /\ at \in [Process -> 0..N + 1]
    /\ outcome \in [Process -> {"compensated", "failed"}]
    /\ executing \in SUBSET Process
    /\ effect \in [Step -> {"none", "applied", "leaked", "undone"}]
    /\ returned \in {"none", "committed", "compensated", "failed"}
    /\ missing \in SUBSET Step /\ botched \in SUBSET Step
    /\ crashes \in 0..MaxCrashes /\ faults \in 0..MaxFaults
    /\ \A p \in Process :
        /\ pc[p] \in {"intent", "action", "confirm"} => at[p] = done[p] + 1
        /\ pc[p] \in {"action", "confirm"} => at[p] <= N
        /\ pc[p] = "compensating" => at[p] <= N

Flags == submitted \in BOOLEAN /\ lost \in BOOLEAN

-----------------------------------------------------------------------------
(* A single process. *)

One == CHOOSE p \in Process : TRUE

Place == pc[One]

Forwards == {"intent", "action", "confirm"}

Resting1 == {"down", "booting", "idle"}

\* The last step that recovery would compensate.
Reach ==
    IF log.status # "running" THEN 0
    ELSE IF log.inProgress # 0 THEN log.inProgress ELSE log.completed

\* Before Execute is called, there is nothing.
Before ==
    ~submitted =>
        /\ log = NoLog /\ returned = "none" /\ missing = {}
        /\ \A s \in Step : effect[s] = "none"
        /\ Place \in Resting1

\* Execute has run the steps before the one it is at, and those only.
Forward ==
    Place \in Forwards =>
        /\ submitted /\ One \in executing
        /\ log.status \in {"none", "running"}
        /\ \A s \in Step : IF s <= done[One] THEN effect[s] = "applied"
                           ELSE IF s = at[One] /\ Place = "confirm" THEN effect[s] = "applied"
                           ELSE effect[s] = "none"
        /\ Place \in {"action", "confirm"} => at[One] <= Reach \/ at[One] \in missing

\* A compensation has undone the steps behind it, or counts as failed.
Reverse ==
    Place = "compensating" =>
        /\ submitted
        /\ log.status \in {"none", "running"}
        /\ log.status = "none" => One \in executing
        /\ ~lost => \A s \in Step : s > at[One] /\ effect[s] = "applied" =>
                        outcome[One] = "failed" /\ s \in botched

\* What the log does not say is missing from it, or lost.
Logged ==
    /\ (~lost /\ (log.status = "running" \/ (log.status = "none" /\ returned = "none"))) =>
        \A s \in Step : effect[s] = "applied" => s <= Reach \/ s \in missing
    /\ ~lost /\ Place \in {"down", "booting", "loading"} => missing = {}
    /\ One \in executing => returned = "none"

\* What a saga that is left alone has come to.
Outcome ==
    /\ Place = "loading" => submitted /\ log.status = "running"
    /\ Over => submitted /\ Place \in Resting1
    /\ ~lost /\ log.status = "none" /\ Place \in Resting1 =>
        Applied \in {{}, Step} \/ returned = "failed"
    /\ ~lost /\ log.status = "compensated" => Applied = {}

Course == Before /\ Forward /\ Reverse /\ Logged /\ Outcome /\ UndoneInReverse

SagaInv == Types /\ Flags /\ Course

-----------------------------------------------------------------------------
\* A step of the specification is one of its actions.
LEMMA Actions ==
    ASSUME [Next]_vars
    PROVE  \/ \E p \in Process :
                \/ Submit(p) \/ SaveIntent(p) \/ ActionSucceeds(p) \/ ActionFails(p)
                \/ SaveConfirm(p) \/ Commit(p) \/ Compensate(p) \/ SaveOutcome(p)
                \/ Boot(p) \/ Scan(p) \/ Recover(p) \/ LoadFails(p) \/ Crash(p)
           \/ UNCHANGED vars
  BY DEF Next, Proceed, Resting

\* What a call of the store leaves.
LEMMA Stored ==
    ASSUME Types, NEW snap \in Snapshot, Saved(snap) \/ StoreFails
    PROVE  log' \in Snapshot /\ faults' \in 0..MaxFaults
  BY SagaAssumption DEF Saved, StoreFails, Types

\* Every step keeps the types, with any number of processes.
LEMMA StepTypes == Types /\ [Next]_vars => Types'
<1> SUFFICES ASSUME Types, [Next]_vars PROVE Types'
  OBVIOUS
<1> USE SagaAssumption DEF Step, Places, Goto, Saved, StoreFails
<1>1. ASSUME NEW p \in Process, Submit(p) PROVE Types'
  BY <1>1 DEF Submit, Types
<1>2. ASSUME NEW p \in Process, SaveIntent(p) PROVE Types'
  <2>1. Running(done[p], at[p]) \in Snapshot
    BY <1>2 DEF SaveIntent, Running, Snapshot, Types
  <2>2. log' \in Snapshot /\ faults' \in 0..MaxFaults
    BY <1>2, <2>1, Stored DEF SaveIntent
  <2>3. missing' \in SUBSET Step
    <3>1. at[p] \in Step
      BY <1>2 DEF SaveIntent, Types
    <3>2. missing' = {} \/ missing' = missing \cup {at[p]}
      BY <1>2, Zenon DEF SaveIntent
    <3> QED
      BY <3>1, <3>2 DEF Types
  <2> HIDE DEF Saved, StoreFails
  <2> QED
    BY <1>2, <2>2, <2>3 DEF SaveIntent, Types
<1>3. ASSUME NEW p \in Process, ActionSucceeds(p) PROVE Types'
  BY <1>3 DEF ActionSucceeds, Types
<1>4. ASSUME NEW p \in Process, ActionFails(p) PROVE Types'
  <2>1. effect' \in [Step -> {"none", "applied", "leaked", "undone"}]
    BY <1>4 DEF ActionFails, Types
  <2>2. /\ at' \in [Process -> 0..N + 1] /\ at'[p] <= N
        /\ \A q \in Process \ {p} : at'[q] = at[q]
    BY <1>4 DEF ActionFails, Types
  <2>3. outcome' \in [Process -> {"compensated", "failed"}] /\ missing' \in SUBSET Step
    BY <1>4 DEF ActionFails, Types
  <2> QED
    BY <1>4, <2>1, <2>2, <2>3 DEF ActionFails, Types
<1>5. ASSUME NEW p \in Process, SaveConfirm(p) PROVE Types'
  <2>1. Running(at[p], 0) \in Snapshot
    BY <1>5 DEF SaveConfirm, Running, Snapshot, Types
  <2>2. log' \in Snapshot /\ faults' \in 0..MaxFaults
    BY <1>5, <2>1, Stored DEF SaveConfirm
  <2>3. missing' \in SUBSET Step
    BY <1>5 DEF SaveConfirm, Types
  <2> HIDE DEF Saved, StoreFails
  <2> QED
    BY <1>5, <2>2, <2>3 DEF SaveConfirm, Types
<1>6. ASSUME NEW p \in Process, Commit(p) PROVE Types'
  <2>1. NoLog \in Snapshot
    BY DEF NoLog, Snapshot
  <2>2. log' \in Snapshot /\ faults' \in 0..MaxFaults
    BY <1>6, <2>1, Stored DEF Commit
  <2>3. missing' \in SUBSET Step
    BY <1>6 DEF Commit, Types
  <2> HIDE DEF Saved, StoreFails
  <2> QED
    BY <1>6, <2>2, <2>3 DEF Commit, Types
<1>7. ASSUME NEW p \in Process, Compensate(p) PROVE Types'
  <2>1. effect' \in [Step -> {"none", "applied", "leaked", "undone"}]
    BY <1>7 DEF Compensate, Types
  <2>2. at' \in [Process -> 0..N + 1] /\ at'[p] <= N
    BY <1>7 DEF Compensate, Types
  <2>3. outcome' \in [Process -> {"compensated", "failed"}] /\ botched' \in SUBSET Step
    BY <1>7 DEF Compensate, Types
  <2> QED
    BY <1>7, <2>1, <2>2, <2>3 DEF Compensate, Types
<1>8. ASSUME NEW p \in Process, SaveOutcome(p) PROVE Types'
  <2>1. [status |-> outcome[p], completed |-> done[p], inProgress |-> 0] \in Snapshot
    BY DEF Snapshot, Types
  <2>2. returned' \in {"none", "committed", "compensated", "failed"}
    BY <1>8 DEF SaveOutcome, Types
  <2>3. log' \in Snapshot /\ faults' \in 0..MaxFaults
    BY <1>8, <2>1, Stored DEF SaveOutcome
  <2> HIDE DEF Saved, StoreFails
  <2> QED
    BY <1>8, <2>2, <2>3 DEF SaveOutcome, Types
<1>9. ASSUME NEW p \in Process, Boot(p) \/ Scan(p) \/ LoadFails(p) PROVE Types'
  <2>1. log' \in Snapshot /\ faults' \in 0..MaxFaults
    BY <1>9 DEF Boot, Scan, LoadFails, Types
  <2>2. PICK l \in {"booting", "loading", "idle"} : pc' = [pc EXCEPT ![p] = l]
    BY <1>9 DEF Boot, Scan, LoadFails
  <2> HIDE DEF Goto, Saved, StoreFails
  <2> QED
    BY <1>9, <2>1, <2>2 DEF Boot, Scan, LoadFails, Types
<1>10. ASSUME NEW p \in Process, Recover(p) PROVE Types'
  <2>1. log.completed \in 0..N /\ log.inProgress \in 0..N
    BY DEF Snapshot, Types
  <2>2. CASE log.status = "running"
    <3>1. PICK a \in 0..N : at' = [at EXCEPT ![p] = a]
      BY <1>10, <2>1, <2>2 DEF Recover
    <3>2. /\ done' = [done EXCEPT ![p] = log.completed]
          /\ outcome' = [outcome EXCEPT ![p] = "compensated"]
          /\ pc' = [pc EXCEPT ![p] = "compensating"]
      BY <1>10, <2>2 DEF Recover
    <3> QED
      BY <1>10, <2>1, <3>1, <3>2 DEF Recover, Types
  <2>3. CASE log.status # "running"
    BY <1>10, <2>3 DEF Recover, Types
  <2> QED
    BY <2>2, <2>3
<1>11. ASSUME NEW p \in Process, Crash(p) PROVE Types'
  <2>1. effect' \in [Step -> {"none", "applied", "leaked", "undone"}]
    BY <1>11 DEF Crash, Types
  <2> QED
    BY <1>11, <2>1 DEF Crash, Types
<1>12. CASE UNCHANGED vars
  BY <1>12 DEF vars, Types
<1> QED
  BY <1>1, <1>2, <1>3, <1>4, <1>5, <1>6, <1>7, <1>8, <1>9, <1>10, <1>11, <1>12, Actions

LEMMA StepFlags == Flags /\ [Next]_vars => Flags'
<1> SUFFICES ASSUME Flags, [Next]_vars PROVE Flags'
  OBVIOUS
<1>1. submitted' \in {submitted, TRUE}
  BY Actions DEF vars, Submit, SaveIntent, ActionSucceeds, ActionFails, SaveConfirm, Commit,
     Compensate, SaveOutcome, Boot, Scan, Recover, LoadFails, Crash
<1>2. lost' = lost \/ lost' = (lost \/ missing # {})
  BY Actions DEF vars, Submit, SaveIntent, ActionSucceeds, ActionFails, SaveConfirm, Commit,
     Compensate, SaveOutcome, Boot, Scan, Recover, LoadFails, Crash
<1> QED
  BY <1>1, <1>2, Zenon DEF Flags

\* The variables of the model have their types.
THEOREM Typing == Spec => []TypeOK
<1>1. Init => Types /\ Flags
  <2> SUFFICES ASSUME Init PROVE Types /\ Flags
    OBVIOUS
  <2>1. Types
    BY SagaAssumption DEF Init, Types, Places, NoLog, Snapshot, Step
  <2>2. Flags
    BY Zenon DEF Init, Flags
  <2> QED
    BY <2>1, <2>2
<1>2. Types /\ Flags /\ [Next]_vars => Types' /\ Flags'
  BY StepTypes, StepFlags
<1>3. Types /\ Flags => TypeOK
  BY DEF Types, Flags, TypeOK, Places
<1> QED
  BY <1>1, <1>2, <1>3, PTL DEF Spec

-----------------------------------------------------------------------------
\* With a single process.

\* A compensation leaves behind it what is undone or has failed, and applies nothing.
LEMMA Compensated ==
    ASSUME Process = {One}, Types, Types', Course, Compensate(One)
    PROVE  Reverse' /\ Logged' /\ UndoneInReverse'
<1>1. /\ Place = "compensating" /\ Place' = "compensating" /\ at[One] \in Step
      /\ at'[One] = at[One] - 1
      /\ log' = log /\ returned' = returned /\ missing' = missing
      /\ executing' = executing /\ botched \subseteq botched'
      /\ outcome'[One] \in {outcome[One], "failed"}
  BY DEF Compensate, Place, Types
<1>2. lost' = lost /\ submitted' = submitted
  BY Zenon DEF Compensate
<1>3. \A s \in Step : effect'[s] = "applied" => effect[s] = "applied"
  BY DEF Compensate, Types
<1>4. \A s \in Step \ {at[One]} : effect'[s] = effect[s]
  BY <1>1 DEF Compensate, Types
<1>5. effect'[at[One]] = "applied" => outcome'[One] = "failed" /\ at[One] \in botched'
  BY <1>1 DEF Compensate, Types
<1>6. Reverse'
  <2>1. ASSUME ~lost', NEW s \in Step, s > at'[One], effect'[s] = "applied"
        PROVE  outcome'[One] = "failed" /\ s \in botched'
    <3>1. CASE s = at[One]
      BY <2>1, <3>1, <1>5
    <3>2. CASE s # at[One]
      <4>1. s > at[One]
        BY <1>1, <2>1, <3>2, SagaAssumption DEF Step
      <4>2. outcome[One] = "failed" /\ s \in botched
        BY <1>1, <1>2, <1>3, <2>1, <4>1 DEF Course, Reverse
      <4> QED
        BY <1>1, <4>2
    <3> QED
      BY <3>1, <3>2
  <2>2. /\ submitted' /\ log'.status \in {"none", "running"}
        /\ log'.status = "none" => One \in executing'
    BY <1>1, <1>2 DEF Course, Reverse
  <2> QED
    BY <2>1, <2>2, Zenon DEF Reverse
<1>7. Logged'
  <2>1. Reach' = Reach
    BY <1>1 DEF Reach
  <2> QED
    BY <1>1, <1>2, <1>3, <2>1 DEF Course, Logged
<1>8. UndoneInReverse'
  <2> SUFFICES ASSUME ~lost', NEW s \in Step, NEW t \in Step, s < t,
                      effect'[s] = "undone", effect'[t] = "applied"
               PROVE  t \in botched'
    BY DEF UndoneInReverse
  <2>1. CASE t = at[One]
    BY <1>5, <2>1
  <2>2. CASE t # at[One] /\ s = at[One]
    BY <1>1, <1>2, <1>3, <2>2, SagaAssumption DEF Course, Reverse, Step
  <2>3. CASE t # at[One] /\ s # at[One]
    BY <1>1, <1>2, <1>4, <2>3 DEF Course, UndoneInReverse
  <2> QED
    BY <2>1, <2>2, <2>3
<1> QED
  BY <1>6, <1>7, <1>8
\* No step is the zeroth.
LEMMA Zero == \A s \in Step : ~(s <= 0)
  BY SagaAssumption DEF Step

\* A crash in the middle of a step or of its compensation leaves either outcome.
LEMMA CrashKeeps ==
    ASSUME Process = {One}, Types, Types', Course, Crash(One)
    PROVE  Course'
<1>1. /\ Place # "down" /\ Place' = "down"
      /\ log' = log /\ submitted' = submitted /\ returned' = returned
      /\ missing' = missing /\ botched' = botched
      /\ executing' = executing \ {One}
  BY DEF Crash, Goto, Place, Types
<1>2. ~lost' => ~lost /\ missing = {}
  BY Zenon DEF Crash
<1>3. \/ effect' = effect
      \/ Place = "action" /\ effect' = [effect EXCEPT ![at[One]] = "applied"]
      \/ /\ Place = "compensating" /\ at[One] \in Step
         /\ effect' = [effect EXCEPT ![at[One]] = "undone"]
  BY DEF Crash, Place
<1> USE SagaAssumption DEF Step, Course
<1>4. Before'
  BY <1>1, <1>3 DEF Before, Forward, Reverse, Forwards, Resting1, Types
<1>5. Forward' /\ Reverse'
  BY <1>1 DEF Forward, Reverse, Forwards
<1>6. Logged'
  <2>1. ASSUME ~lost', NEW s \in Step, effect'[s] = "applied",
               log.status = "running" \/ (log.status = "none" /\ returned = "none")
        PROVE  s <= Reach
    <3>1. CASE effect[s] = "applied"
      BY <1>2, <2>1, <3>1 DEF Logged
    <3>2. CASE effect[s] # "applied"
      <4>1. Place = "action" /\ s = at[One]
        BY <1>3, <2>1, <3>2 DEF Types
      <4> QED
        BY <1>2, <2>1, <4>1 DEF Forward, Forwards
    <3> QED
      BY <3>1, <3>2
  <2>2. Reach' = Reach /\ ~(One \in executing')
    BY <1>1 DEF Reach
  <2>3. /\ ~lost' => missing' = {}
    BY <1>1, <1>2
  <2>4. ASSUME ~lost', log'.status = "running" \/ (log'.status = "none" /\ returned' = "none"),
               NEW s \in Step, effect'[s] = "applied"
        PROVE  s <= Reach' \/ s \in missing'
    BY <1>1, <2>1, <2>2, <2>4
  <2> QED
    BY <2>2, <2>3, <2>4, Zenon DEF Logged
<1>7. Outcome'
  <2>1. ASSUME ~lost', log.status = "none" PROVE Applied' \in {{}, Step} \/ returned' = "failed"
    <3>1. CASE Place \in Resting1
      <4>1. effect' = effect
        BY <1>3, <3>1 DEF Resting1
      <4>2. Applied \in {{}, Step} \/ returned = "failed"
        BY <1>2, <2>1, <3>1, Zenon DEF Outcome
      <4> QED
        BY <1>1, <4>1, <4>2 DEF Applied
    <3>2. CASE Place \in Forwards \cup {"compensating"}
      <4>1. Reach' = 0 /\ missing' = {} /\ log'.status = "none"
        BY <1>1, <1>2, <2>1 DEF Reach
      <4>2. One \in executing
        BY <2>1, <3>2 DEF Forward, Reverse, Forwards
      <4>3. returned' = "none"
        BY <1>1, <4>2 DEF Logged
      <4>4. \A s \in Step : effect'[s] # "applied"
        BY <1>6, <2>1, <4>1, <4>3, Zero, Zenon DEF Logged
      <4> QED
        BY <4>4, Zenon DEF Applied
    <3>3. CASE Place = "loading"
      BY <2>1, <3>3 DEF Outcome
    <3> QED
      BY <1>1, <3>1, <3>2, <3>3 DEF Types, Places, Place, Resting1, Forwards
  <2>2. ASSUME ~lost', log.status = "compensated" PROVE Applied' = {}
    <3>1. effect' = effect
      BY <1>3, <2>2 DEF Outcome, Over, Resting1
    <3>2. Applied = {}
      BY <1>2, <2>2, Zenon DEF Outcome
    <3> QED
      BY <3>1, <3>2 DEF Applied
  <2>3. /\ Place' # "loading" /\ log'.status = log.status
        /\ Over' => submitted' /\ Place' \in Resting1
    BY <1>1 DEF Outcome, Over, Resting1
  <2> QED
    BY <2>1, <2>2, <2>3, Zenon DEF Outcome
<1>8. UndoneInReverse'
  BY <1>1, <1>2, <1>3 DEF UndoneInReverse, Forward, Reverse, Forwards, Types
<1> QED
  BY <1>4, <1>5, <1>6, <1>7, <1>8

\* Every step of the only process keeps the course of the saga.
LEMMA StepCourse ==
    ASSUME Process = {One}, Types, Types', Course, [Next]_vars
    PROVE  Course'
<1> USE SagaAssumption DEF Step, Place, Goto, Saved, StoreFails
<1>1. ASSUME Submit(One) PROVE Course'
  <2> USE <1>1 DEF Course, Submit
  <2>1. Before'
    BY DEF Before
  <2>2. Forward'
    BY DEF Types, Before, Forward, NoLog
  <2>3. Reverse'
    BY DEF Reverse
  <2>4. Logged'
    BY DEF Before, Logged
  <2>5. Outcome'
    BY DEF Outcome, Resting1, Over, Applied
  <2>6. UndoneInReverse'
    BY DEF UndoneInReverse
  <2> QED
    BY <2>1, <2>2, <2>3, <2>4, <2>5, <2>6
<1>2. ASSUME SaveIntent(One) PROVE Course'
  <2> USE <1>2 DEF Course, SaveIntent
  <2>1. Before'
    BY DEF Before, Resting1
  <2>2. Forward'
    BY DEF Types, Forward, Forwards, Reach, Running
  <2>3. Reverse'
    BY DEF Reverse
  <2>4. Logged'
    BY DEF Types, Forward, Logged, Forwards, Reach, Running
  <2>5. Outcome'
    BY DEF Outcome, Resting1, Over, Running
  <2>6. UndoneInReverse'
    BY DEF UndoneInReverse
  <2> QED
    BY <2>1, <2>2, <2>3, <2>4, <2>5, <2>6
<1>3. ASSUME ActionSucceeds(One) PROVE Course'
  <2> USE <1>3 DEF Course, ActionSucceeds
  <2>1. Before'
    BY DEF Before, Resting1
  <2>2. Forward'
    BY DEF Types, Forward, Forwards, Reach
  <2>3. Reverse'
    BY DEF Reverse
  <2>4. Logged'
    BY DEF Forward, Logged, Forwards, Reach
  <2>5. Outcome'
    BY DEF Outcome, Resting1, Over
  <2>6. UndoneInReverse'
    BY DEF Forward, UndoneInReverse, Forwards
  <2> QED
    BY <2>1, <2>2, <2>3, <2>4, <2>5, <2>6
<1>4. ASSUME ActionFails(One) PROVE Course'
  <2> USE <1>4 DEF Course, ActionFails
  <2>1. Before'
    BY DEF Before, Resting1
  <2>2. Forward'
    BY DEF Types, Forward, Forwards
  <2>3. Reverse'
    BY DEF Types, Forward, Reverse, Forwards
  <2>4. Logged'
    BY DEF Types, Logged, Reach
  <2>5. Outcome'
    BY DEF Outcome, Resting1, Over
  <2>6. UndoneInReverse'
    BY DEF UndoneInReverse
  <2> QED
    BY <2>1, <2>2, <2>3, <2>4, <2>5, <2>6
<1>5. ASSUME SaveConfirm(One) PROVE Course'
  <2> USE <1>5 DEF Course, SaveConfirm
  <2>1. Before'
    BY DEF Before, Resting1
  <2>2. Forward'
    <3>1. at[One] = done[One] + 1 /\ done[One] \in 0..N
      BY DEF Types
    <3>2. Place' = "intent" /\ (done[One])' = at[One] /\ effect' = effect
      BY DEF Types
    <3>3. submitted /\ One \in executing /\ log.status \in {"none", "running"}
      BY DEF Forward, Forwards
    <3>4. (submitted /\ One \in executing /\ log.status \in {"none", "running"})'
      BY <3>3 DEF Running, Saved, StoreFails
    <3>5. \A s \in Step : effect[s] = IF s <= at[One] THEN "applied" ELSE "none"
      <4> SUFFICES ASSUME NEW s \in Step
                   PROVE  effect[s] = IF s <= at[One] THEN "applied" ELSE "none"
        OBVIOUS
      <4>1. s \in Nat /\ (s <= at[One] <=> s <= done[One] \/ s = at[One])
        BY <3>1, SagaAssumption DEF Step
      <4>2. effect[s] = IF s <= done[One] \/ s = at[One] THEN "applied" ELSE "none"
        BY DEF Forward, Forwards
      <4> QED
        BY <4>1, <4>2
    <3> QED
      BY <3>2, <3>4, <3>5 DEF Forward
  <2>3. Reverse'
    BY DEF Reverse
  <2>4. Logged'
    BY DEF Types, Forward, Logged, Forwards, Reach, Running
  <2>5. Outcome'
    BY DEF Outcome, Resting1, Over, Running
  <2>6. UndoneInReverse'
    BY DEF UndoneInReverse
  <2> QED
    BY <2>1, <2>2, <2>3, <2>4, <2>5, <2>6
<1>6. ASSUME Commit(One) PROVE Course'
  <2> USE <1>6 DEF Course, Commit
  <2>1. Before'
    BY DEF Before, Resting1
  <2>2. Forward'
    BY DEF Types, Forward, Forwards
  <2>3. Reverse'
    BY DEF Reverse
  <2>4. Logged'
    BY DEF Logged, Reach, NoLog
  <2>5. Outcome'
    BY DEF Types, Forward, Outcome, Forwards, Over, Applied, NoLog
  <2>6. UndoneInReverse'
    BY DEF UndoneInReverse
  <2> QED
    BY <2>1, <2>2, <2>3, <2>4, <2>5, <2>6
<1>7. ASSUME Compensate(One) PROVE Course'
  <2> USE <1>7 DEF Course, Compensate
  <2>1. Before'
    BY DEF Before, Resting1
  <2>2. Forward'
    BY DEF Forward, Forwards
  <2>3. Reverse'
    BY <1>7, Compensated
  <2>4. Logged'
    BY <1>7, Compensated
  <2>5. Outcome'
    BY DEF Outcome, Resting1, Over
  <2>6. UndoneInReverse'
    BY <1>7, Compensated
  <2> QED
    BY <2>1, <2>2, <2>3, <2>4, <2>5, <2>6
<1>8. ASSUME SaveOutcome(One) PROVE Course'
  <2> USE <1>8 DEF Course, SaveOutcome
  <2>1. Before'
    BY DEF Before, Resting1
  <2>2. Forward'
    BY DEF Forward, Forwards
  <2>3. Reverse'
    BY DEF Types, Reverse
  <2>4. Logged'
    BY DEF Reverse, Logged, Reach
  <2>5. Outcome'
    BY DEF Types, Reverse, Outcome, Resting1, Applied
  <2>6. UndoneInReverse'
    BY DEF UndoneInReverse
  <2> QED
    BY <2>1, <2>2, <2>3, <2>4, <2>5, <2>6
<1>9. ASSUME Boot(One) PROVE Course'
  <2> USE <1>9 DEF Course, Boot
  <2>1. Before'
    BY DEF Before, Resting1
  <2>2. Forward'
    BY DEF Forward, Forwards
  <2>3. Reverse'
    BY DEF Reverse
  <2>4. Logged'
    BY DEF Logged, Reach
  <2>5. Outcome'
    BY DEF Outcome, Resting1, Over, Applied
  <2>6. UndoneInReverse'
    BY DEF UndoneInReverse
  <2> QED
    BY <2>1, <2>2, <2>3, <2>4, <2>5, <2>6
<1>10. ASSUME Scan(One) PROVE Course'
  <2> USE <1>10 DEF Course, Scan
  <2>1. Before'
    BY DEF Types, Before, Resting1, NoLog
  <2>2. Forward'
    BY DEF Types, Forward, Forwards
  <2>3. Reverse'
    BY DEF Types, Reverse
  <2>4. Logged'
    BY DEF Logged, Reach
  <2>5. Outcome'
    BY DEF Types, Before, Outcome, Resting1, Over, Applied, NoLog
  <2>6. UndoneInReverse'
    BY DEF UndoneInReverse
  <2> QED
    BY <2>1, <2>2, <2>3, <2>4, <2>5, <2>6
<1>11. ASSUME Recover(One) PROVE Course'
  <2> USE <1>11 DEF Course, Recover
  <2>1. Before'
    BY DEF Before, Resting1
  <2>2. Forward'
    BY DEF Types, Forward, Forwards
  <2>3. Reverse'
    BY DEF Types, Reverse, Logged, Outcome, Reach
  <2>4. Logged'
    BY DEF Logged, Reach
  <2>5. Outcome'
    BY DEF Outcome, Over
  <2>6. UndoneInReverse'
    BY DEF UndoneInReverse
  <2> QED
    BY <2>1, <2>2, <2>3, <2>4, <2>5, <2>6
<1>12. ASSUME LoadFails(One) PROVE Course'
  <2> USE <1>12 DEF Course, LoadFails
  <2>1. Before'
    BY DEF Before, Resting1
  <2>2. Forward'
    BY DEF Forward, Forwards
  <2>3. Reverse'
    BY DEF Reverse
  <2>4. Logged'
    BY DEF Logged, Reach
  <2>5. Outcome'
    BY DEF Outcome, Over
  <2>6. UndoneInReverse'
    BY DEF UndoneInReverse
  <2> QED
    BY <2>1, <2>2, <2>3, <2>4, <2>5, <2>6
<1>13. ASSUME Crash(One) PROVE Course'
  BY <1>13, CrashKeeps
<1>14. CASE UNCHANGED vars
  BY <1>14 DEF vars, Course, Before, Forward, Reverse, Logged, Outcome, UndoneInReverse,
     Reach, Over, Applied
<1> QED
  <2>1. \/ Submit(One) \/ SaveIntent(One) \/ ActionSucceeds(One) \/ ActionFails(One)
        \/ SaveConfirm(One) \/ Commit(One) \/ Compensate(One) \/ SaveOutcome(One)
        \/ Boot(One) \/ Scan(One) \/ Recover(One) \/ LoadFails(One) \/ Crash(One)
        \/ UNCHANGED vars
    BY Actions, Zenon
  <2> QED
    BY <2>1, <1>1, <1>2, <1>3, <1>4, <1>5, <1>6, <1>7, <1>8, <1>9, <1>10, <1>11, <1>12, <1>13, <1>14

LEMMA InitCourse ==
    ASSUME Process = {One}, Init
    PROVE  Types /\ Flags /\ Course
<1>1. Types
  BY SagaAssumption DEF Init, Types, Places, NoLog, Snapshot, Step
<1>2. Flags
  BY Zenon DEF Init, Flags
<1>3. Before /\ Forward /\ Reverse
  BY DEF Init, Before, Forward, Reverse, Place, Forwards, Resting1
<1>4. Logged /\ Outcome /\ UndoneInReverse
  <2>1. /\ Place = "down" /\ log.status = "none" /\ executing = {} /\ missing = {}
        /\ \A s \in Step : effect[s] = "none"
    BY DEF Init, NoLog, Place
  <2>2. Applied = {}
    BY <2>1 DEF Applied
  <2>3. Logged
    BY <2>1 DEF Logged
  <2>4. Outcome
    <3>1. Place # "loading" /\ ~Over /\ log.status # "compensated"
      BY <2>1 DEF Over
    <3> QED
      BY <2>2, <3>1, Zenon DEF Outcome
  <2>5. UndoneInReverse
    BY <2>1 DEF UndoneInReverse
  <2> QED
    BY <2>3, <2>4, <2>5
<1> QED
  BY <1>1, <1>2, <1>3, <1>4 DEF Course

\* The inductive invariant of a saga that a single process works on.
THEOREM Invariants == (Process = {One}) => (Spec => []SagaInv)
<1> SUFFICES ASSUME Process = {One} PROVE Spec => []SagaInv
  OBVIOUS
<1>1. Init => SagaInv
  BY InitCourse DEF SagaInv
<1>2. SagaInv /\ [Next]_vars => SagaInv'
  BY StepTypes, StepFlags, StepCourse DEF SagaInv
<1> QED
  BY <1>1, <1>2, PTL DEF Spec

\* A settled saga of a single process has had all of its effects or none is left,
\* unless somebody was told that it failed or a save was lost in a crash: for any
\* number of steps, crashes and failed store calls.
THEOREM AllOrNothingHolds == (Process = {One}) => (Spec => []AllOrNothing)
<1> SUFFICES ASSUME Process = {One} PROVE Spec => []AllOrNothing
  OBVIOUS
<1>1. SagaInv => AllOrNothing
  <2> SUFFICES ASSUME SagaInv, Settled, ~lost, log.status # "failed", returned # "failed"
               PROVE  Applied \in {{}, Step}
    BY DEF AllOrNothing
  <2>1. Place \in {"idle", "down", "booting"} /\ log.status \in {"none", "compensated"}
    BY DEF SagaInv, Types, Snapshot, Settled, Place
  <2> QED
    BY <2>1 DEF SagaInv, Course, Outcome, Resting1
<1> QED
  BY <1>1, Invariants, PTL

\* Over any number of interrupted attempts of a single process nothing is undone
\* before what was built on it, unless that could not be undone.
THEOREM ReverseOrder == (Process = {One}) => (Spec => []UndoneInReverse)
<1>1. SagaInv => UndoneInReverse
  BY DEF SagaInv, Course
<1> QED
  BY <1>1, Invariants, PTL

\* Once the log says that the saga is over, a single process never touches it again.
THEOREM NothingAfterTheEnd == (Process = {One}) => (Spec => OverIsOver)
<1> SUFFICES ASSUME Process = {One} PROVE Spec => OverIsOver
  OBVIOUS
<1>1. SagaInv /\ [Next]_vars => [Over => log' = log /\ effect' = effect]_vars
  <2> SUFFICES ASSUME SagaInv, [Next]_vars, Over PROVE log' = log /\ effect' = effect
    OBVIOUS
  <2>1. Place \in Resting1 /\ log.status # "running" /\ submitted
    BY DEF SagaInv, Course, Outcome, Over
  <2>2. \/ Submit(One) \/ SaveIntent(One) \/ ActionSucceeds(One) \/ ActionFails(One)
        \/ SaveConfirm(One) \/ Commit(One) \/ Compensate(One) \/ SaveOutcome(One)
        \/ Boot(One) \/ Scan(One) \/ Recover(One) \/ LoadFails(One) \/ Crash(One)
        \/ UNCHANGED vars
    BY Actions, Zenon
  <2> QED
    BY <2>1, <2>2 DEF Submit, SaveIntent, ActionSucceeds, ActionFails, SaveConfirm, Commit,
       Compensate, SaveOutcome, Boot, Scan, Recover, LoadFails, Crash, StoreFails, Place,
       Resting1, vars
<1> QED
  BY <1>1, Invariants, PTL DEF OverIsOver, Spec
=============================================================================
