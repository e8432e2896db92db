----------------------------- MODULE TccProofs ------------------------------
(***************************************************************************)
(* Proofs about a try/confirm/cancel transaction of any number of          *)
(* participants, with any number of crashes and of failed saves: it goes   *)
(* in one direction, and a recorded decision to commit stands.             *)
(***************************************************************************)
EXTENDS Tcc, TLAPS

First == {"intent", "try", "record", "decide"}

Resource == {"free", "reserved", "leaked", "confirmed", "released"}

\* The types without those of the Boolean variables, and where at points.
Types ==
    /\ log \in Snapshot
    /\ pc \in First \cup {"down", "booting", "loading", "idle", "confirming", "cancelling"}
    /\ tried \in 0..N /\ at \in 0..N + 1
    /\ status \in Second
    /\ resource \in [Participant -> Resource]
    /\ refused \in SUBSET Participant
    /\ crashes \in 0..MaxCrashes /\ faults \in 0..MaxFaults
    /\ pc \in {"intent", "try", "record"} => at \in Participant
    /\ pc = "confirming" => at > 0
    /\ pc = "cancelling" => at <= N

Flags == unrecorded \in BOOLEAN /\ lost \in BOOLEAN /\ submitted \in BOOLEAN

TypeInv == Types /\ Flags

\* No resource has come to r.
Nobody(r) == \A i \in Participant : resource[i] # r

\* Nothing has come of the transaction while it is being tried, and before.
Before ==
    /\ pc \in First =>
        log.status \in {"none", "trying"} /\ Nobody("confirmed") /\ Nobody("released")
    /\ pc \in First => submitted
    /\ ~submitted =>
        /\ log.status = "none" /\ Nobody("confirmed") /\ Nobody("released")
        /\ pc \in {"down", "booting", "idle"}

\* Going forward, nothing has been released, and the log does not say that the
\* transaction is still being tried, or this could not be saved.
Forward ==
    /\ pc = "confirming" => status \in {"committed", "confirmFailed"} /\ Nobody("released")
    /\ pc = "confirming" => log.status # "trying" \/ unrecorded
    /\ log.status = "confirming" => Nobody("released")

\* Going backward, nothing has been confirmed and no decision is recorded.
Reverse ==
    /\ pc = "cancelling" => log.status \in {"none", "trying"}
    /\ ~lost /\ ~Nobody("confirmed") =>
        pc # "cancelling" /\ (log.status # "trying" \/ unrecorded)

\* What the log lacked when the process died is lost when it starts again.
Gone == unrecorded /\ pc \in {"down", "booting", "loading"} => lost

OneWay == ~lost => Nobody("confirmed") \/ Nobody("released")

DirectionInv == TypeInv /\ Before /\ Forward /\ Reverse /\ Gone /\ OneWay

-----------------------------------------------------------------------------
\* A save leaves the snapshot that was there or the one it was given.
LEMMA Saves ==
    ASSUME NEW snap \in Snapshot, Types, Persist(snap) \/ PersistNews(snap)
    PROVE  log' \in Snapshot /\ faults' \in 0..MaxFaults
  BY TccAssumption DEF Persist, PersistNews, StoreFails, Types

\* A resource is given one of its values.
LEMMA SetType ==
    ASSUME Types, NEW r, Set(at, r),
           r \in Resource \/ (at \in Participant /\ r = resource[at])
    PROVE  resource' \in [Participant -> Resource]
  BY DEF Set, Types

\* Every step keeps the types of the variables that are not Boolean.
LEMMA StepTypes == Types /\ [Next]_vars => Types'
<1> SUFFICES ASSUME Types, [Next]_vars PROVE Types'
  OBVIOUS
<1> USE TccAssumption DEF Participant, First
<1>1. CASE Submit
  BY <1>1 DEF Submit, Types
<1>2. CASE SaveIntent
  <2>1. Trying(tried, at) \in Snapshot
    BY <1>2 DEF SaveIntent, Trying, Snapshot, Types
  <2>2. log' \in Snapshot /\ faults' \in 0..MaxFaults
    BY <1>2, <2>1, Saves DEF SaveIntent
  <2> QED
    BY <1>2, <2>2 DEF SaveIntent, Types
<1>3. CASE TrySucceeds
  <2>1. resource' \in [Participant -> Resource]
    BY <1>3, SetType DEF TrySucceeds, Resource
  <2> QED
    BY <1>3, <2>1 DEF TrySucceeds, Types
<1>4. CASE TryFails
  <2>1. resource' \in [Participant -> Resource]
    BY <1>4, SetType DEF TryFails, Resource
  <2>2. status' \in Second
    BY <1>4 DEF TryFails, Second
  <2> QED
    BY <1>4, <2>1, <2>2 DEF TryFails, Types
<1>5. CASE SaveTried
  <2>1. Trying(tried, 0) \in Snapshot
    BY DEF Trying, Snapshot, Types
  <2>2. log' \in Snapshot /\ faults' \in 0..MaxFaults
    BY <1>5, <2>1, Saves DEF SaveTried
  <2> QED
    BY <1>5, <2>2 DEF SaveTried, Types
<1>6. CASE Decide
  <2>1. [status |-> "confirming", tried |-> tried, inProgress |-> 0] \in Snapshot
    BY DEF Snapshot, Types
  <2>2. log' \in Snapshot /\ faults' \in 0..MaxFaults
    BY <1>6, <2>1, Saves DEF Decide
  <2>3. status' \in Second
    BY <1>6 DEF Decide, Second
  <2> QED
    BY <1>6, <2>2, <2>3 DEF Decide, Types
<1>7. CASE Confirm \/ Cancel
  <2>1. at \in Participant
    BY <1>7 DEF Confirm, Cancel, Types
  <2>2. PICK r \in Resource \cup {resource[at]} : Set(at, r)
    BY <1>7 DEF Confirm, Cancel, Resource
  <2>3. resource' \in [Participant -> Resource]
    BY <2>1, <2>2, SetType
  <2>4. status' \in Second /\ refused' \in SUBSET Participant
    BY <1>7, <2>1 DEF Confirm, Cancel, Second, Types
  <2>5. at' \in 0..N + 1 /\ (pc = "confirming" => at' > 0)
    BY <1>7, <2>1 DEF Confirm, Cancel, Types
  <2>6. pc = "cancelling" => at' <= N
    BY <1>7, <2>1 DEF Confirm, Cancel, Types
  <2> QED
    BY <1>7, <2>3, <2>4, <2>5, <2>6 DEF Confirm, Cancel, Types
<1>8. CASE Finish
  <2>1. (IF status = "committed" THEN NoLog
         ELSE [status |-> status, tried |-> tried, inProgress |-> 0]) \in Snapshot
    BY DEF NoLog, Snapshot, Types
  <2>2. log' \in Snapshot /\ faults' \in 0..MaxFaults
    BY <1>8, <2>1, Saves DEF Finish
  <2> QED
    BY <1>8, <2>2 DEF Finish, Types
<1>9. CASE Crash
  <2>1. resource' \in [Participant -> Resource]
    <3>1. CASE UNCHANGED resource
      BY <3>1 DEF Types
    <3>2. CASE \E r \in Resource : Set(at, r)
      BY <3>2, SetType
    <3> QED
      BY <1>9, <3>1, <3>2 DEF Crash, Resource
  <2>2. crashes' \in 0..MaxCrashes
    BY <1>9 DEF Crash, Types
  <2> QED
    BY <1>9, <2>1, <2>2 DEF Crash, Types
<1>10. CASE Boot \/ Scan
  BY <1>10 DEF Boot, Scan, Types
<1>11. CASE LoadFails
  BY <1>11 DEF LoadFails, StoreFails, Types
<1>12. CASE Recover
  <2>1. log.inProgress \in 0..N /\ log.tried \in 0..N
    BY DEF Types, Snapshot
  <2>2. tried' \in 0..N /\ at' \in 0..N + 1 /\ status' \in Second
        /\ pc' \in {"confirming", "cancelling"} /\ (pc' = "confirming" => at' > 0)
        /\ (pc' = "cancelling" => at' <= N)
    BY <1>12, <2>1 DEF Recover, Backward, Second
  <2> QED
    BY <1>12, <2>2 DEF Recover, Types
<1>13. CASE UNCHANGED vars
  BY <1>13 DEF vars, Types
<1> QED
  BY <1>1, <1>2, <1>3, <1>4, <1>5, <1>6, <1>7, <1>8, <1>9, <1>10, <1>11, <1>12, <1>13
     DEF Next, Proceed, Resting

\* And of those that are.
LEMMA StepFlags == Flags /\ [Next]_vars => Flags'
<1> SUFFICES ASSUME Flags, [Next]_vars PROVE Flags'
  OBVIOUS
<1>1. submitted' \in {submitted, TRUE}
  BY DEF Next, Proceed, Resting, vars, Submit, SaveIntent, TrySucceeds, TryFails, SaveTried,
         Decide, Confirm, Cancel, Finish, Crash, Boot, LoadFails, Scan, Recover
<1>2. lost' = lost \/ lost' = (lost \/ unrecorded)
  BY DEF Next, Proceed, Resting, vars, Submit, SaveIntent, TrySucceeds, TryFails, SaveTried,
         Decide, Confirm, Cancel, Finish, Crash, Boot, LoadFails, Scan, Recover
<1>3. unrecorded' = unrecorded \/ unrecorded' = FALSE \/ unrecorded' = TRUE
  BY DEF Next, Proceed, Resting, vars, Submit, SaveIntent, TrySucceeds, TryFails, SaveTried,
         Decide, Confirm, Cancel, Finish, Crash, Boot, LoadFails, Scan, Recover,
         Persist, PersistNews
<1> QED
  BY <1>1, <1>2, <1>3, Zenon DEF Flags

\* What a save that works, and one that fails, makes of the log.
LEMMA SaveOutcomes ==
    ASSUME NEW snap, Persist(snap) \/ PersistNews(snap)
    PROVE  \/ log' = snap
           \/ log' = log /\ (unrecorded => unrecorded') /\ (PersistNews(snap) => unrecorded')
  BY DEF Persist, PersistNews

\* Every step keeps the direction.
LEMMA StepDirection == DirectionInv /\ [Next]_vars => DirectionInv'
<1> SUFFICES ASSUME DirectionInv, [Next]_vars PROVE DirectionInv'
  OBVIOUS
<1>0. Types /\ TypeInv'
  BY StepTypes, StepFlags DEF DirectionInv, TypeInv
<1> DEFINE Rest == Before /\ Forward /\ Reverse /\ Gone /\ OneWay
<1>a. Rest
  BY DEF DirectionInv
<1> HIDE DEF Rest
<1> USE DEF First, Before, Forward, Reverse, Gone, OneWay, Nobody
<1>1. ASSUME Submit PROVE Rest'
  BY <1>0, <1>a, <1>1 DEF Submit, Rest
<1>2. ASSUME SaveIntent PROVE Rest'
  <2>1. log'.status \in {"none", "trying"}
    BY <1>a, <1>2, SaveOutcomes DEF SaveIntent, Trying, Rest
  <2> QED
    BY <1>a, <1>2, <2>1 DEF SaveIntent, Rest
<1>3. ASSUME TrySucceeds PROVE Rest'
  <2>1. Nobody("confirmed")' /\ Nobody("released")'
    BY <1>0, <1>a, <1>3 DEF TrySucceeds, Set, Types, Rest
  <2> QED
    BY <1>a, <1>3, <2>1 DEF TrySucceeds, Rest
<1>4. ASSUME TryFails PROVE Rest'
  <2>1. Nobody("confirmed")' /\ Nobody("released")'
    BY <1>0, <1>a, <1>4 DEF TryFails, Set, Types, Rest
  <2> QED
    BY <1>a, <1>4, <2>1 DEF TryFails, Rest
<1>5. ASSUME SaveTried PROVE Rest'
  <2>1. log'.status \in {"none", "trying"}
    BY <1>a, <1>5, SaveOutcomes DEF SaveTried, Trying, Rest
  <2> QED
    BY <1>a, <1>5, <2>1 DEF SaveTried, Rest
<1>6. ASSUME Decide PROVE Rest'
  <2>1. log'.status = "confirming" \/ (log' = log /\ unrecorded')
    BY <1>6, SaveOutcomes DEF Decide
  <2>2. Nobody("confirmed") /\ Nobody("released") /\ UNCHANGED resource
    BY <1>a, <1>6 DEF Decide, Rest
  <2> QED
    BY <1>a, <1>6, <2>1, <2>2 DEF Decide, Rest
<1>7. ASSUME Confirm PROVE Rest'
  <2>1. PICK r \in {"confirmed", resource[at]} : Set(at, r)
    BY <1>7 DEF Confirm
  <2>2. Nobody("released") => Nobody("released")'
    BY <1>0, <2>1 DEF Set, Types
  <2>3. status' \in {"committed", "confirmFailed"}
    BY <1>a, <1>7 DEF Confirm, Rest
  <2>4. Nobody("released")'
    BY <1>a, <1>7, <2>2 DEF Confirm, Rest
  <2> QED
    BY <1>a, <1>7, <2>3, <2>4 DEF Confirm, Rest
<1>8. ASSUME Cancel PROVE Rest'
  <2>1. PICK r \in {"released", resource[at]} : Set(at, r)
    BY <1>8 DEF Cancel
  <2>2. Nobody("confirmed") => Nobody("confirmed")'
    BY <1>0, <2>1 DEF Set, Types
  <2> QED
    BY <1>a, <1>8, <2>2 DEF Cancel, Rest
<1>9. ASSUME Finish PROVE Rest'
  <2>1. PICK snap : /\ Persist(snap)
                    /\ snap.status \in {"none", status}
                    /\ pc = "confirming" => snap.status \in {"none", "confirmFailed"}
    BY <1>a, <1>9 DEF Finish, NoLog, Rest
  <2>2. log' = snap \/ (log' = log /\ (unrecorded => unrecorded'))
    BY <2>1, SaveOutcomes
  <2> QED
    BY <1>0, <1>a, <1>9, <2>1, <2>2 DEF Finish, Rest, Types, Second
<1>10. ASSUME Crash PROVE Rest'
  <2>1. CASE UNCHANGED resource
    BY <1>a, <1>10, <2>1 DEF Crash, Rest
  <2>2. CASE pc = "try" /\ Set(at, "reserved")
    <3>1. Nobody("confirmed")' /\ Nobody("released")'
      BY <1>0, <1>a, <2>2 DEF Set, Types, Rest
    <3> QED
      BY <1>a, <1>10, <2>2, <3>1 DEF Crash, Rest
  <2>3. CASE pc = "confirming" /\ Set(at, "confirmed")
    <3>1. Nobody("released")'
      BY <1>0, <1>a, <2>3 DEF Set, Types, Rest
    <3> QED
      BY <1>a, <1>10, <2>3, <3>1 DEF Crash, Rest
  <2>4. CASE pc = "cancelling" /\ Set(at, "released")
    <3>1. Nobody("confirmed") => Nobody("confirmed")'
      BY <1>0, <2>4 DEF Set, Types
    <3> QED
      BY <1>a, <1>10, <2>4, <3>1 DEF Crash, Rest
  <2> QED
    BY <1>10, <2>1, <2>2, <2>3, <2>4 DEF Crash
<1>11. ASSUME Boot \/ Scan \/ LoadFails PROVE Rest'
  BY <1>a, <1>11 DEF Boot, Scan, UnderWay, LoadFails, Rest
<1>12. ASSUME Recover PROVE Rest'
  BY <1>a, <1>12 DEF Recover, Backward, Rest
<1>13. ASSUME UNCHANGED vars PROVE Rest'
  BY <1>a, <1>13 DEF vars, Rest
<1>14. Rest'
  BY <1>1, <1>2, <1>3, <1>4, <1>5, <1>6, <1>7, <1>8, <1>9, <1>10, <1>11, <1>12, <1>13
     DEF Next, Proceed, Resting
<1> QED
  BY <1>0, <1>14 DEF DirectionInv, Rest

LEMMA InitDirection == Init => DirectionInv
<1> SUFFICES ASSUME Init PROVE DirectionInv
  OBVIOUS
<1>1. Types
  BY TccAssumption DEF Init, Types, NoLog, Snapshot, Second, Resource, First
<1>2. Flags
  BY Zenon DEF Init, Flags
<1>3. Before /\ Forward /\ Reverse /\ Gone /\ OneWay
  BY DEF Init, NoLog, Before, Forward, Reverse, Gone, OneWay, Nobody, First
<1> QED
  BY <1>1, <1>2, <1>3 DEF DirectionInv, TypeInv

\* Every state of a transaction, of any length and after any number of crashes
\* and failed saves, has the direction it started in, and its types.
THEOREM Directed == Spec => []DirectionInv
  BY InitDirection, StepDirection, PTL DEF Spec

\* The variables of the model have their types.
THEOREM Typing == Spec => []TypeOK
<1>1. DirectionInv => TypeOK
  BY DEF DirectionInv, TypeInv, Types, Flags, TypeOK, First, Resource
<1> QED
  BY <1>1, Directed, PTL

\* Nobody is confirmed when somebody is released (coordinator.go Recover goes
\* forward from a recorded decision and backward without one), unless the
\* process crashed when what it had failed to save was needed.
THEOREM OneDirectionOnly == Spec => []OneDirection
<1>1. DirectionInv => OneDirection
  BY DEF DirectionInv, OneWay, OneDirection, Nobody, In
<1> QED
  BY <1>1, Directed, PTL

\* A recorded decision to commit stands, with faults of any kind: the log goes
\* from it only to the end of the confirmation, and nothing is released.
THEOREM DecisionsStand == Spec => DecisionStands
<1> DEFINE Stands == log.status = "confirming" =>
                        /\ In("released")' = In("released")
                        /\ log'.status \in {"confirming", "confirmFailed", "none"}
<1>1. DirectionInv /\ DirectionInv' /\ [Next]_vars => [Stands]_vars
  <2> SUFFICES ASSUME DirectionInv, DirectionInv', [Next]_vars, log.status = "confirming"
               PROVE  /\ In("released")' = In("released")
                      /\ log'.status \in {"confirming", "confirmFailed", "none"}
    OBVIOUS
  <2>1. /\ Nobody("released") /\ pc \notin First /\ pc # "cancelling"
        /\ pc = "confirming" => status \in {"committed", "confirmFailed"}
        /\ submitted
    BY DEF DirectionInv, Before, Forward, Reverse
  <2>2. log' = log \/ log'.status \in {"confirmFailed", "none"}
    <3>1. CASE Finish
      BY <2>1, <3>1 DEF Finish, Persist, NoLog
    <3>2. CASE ~Finish
      BY <2>1, <3>2 DEF First, Next, Proceed, Resting, vars, Submit, SaveIntent, TrySucceeds,
           TryFails, SaveTried, Decide, Confirm, Cancel, Crash, Boot, LoadFails, Scan, Recover
    <3> QED
      BY <3>1, <3>2
  <2>3. Nobody("released")'
    <3>1. CASE Confirm \/ Crash
      <4>1. UNCHANGED resource \/ \E r \in {"confirmed", resource[at]} : Set(at, r)
        BY <2>1, <3>1 DEF Confirm, Crash, First
      <4> QED
        BY <2>1, <4>1 DEF Nobody, Set, DirectionInv, TypeInv, Types
    <3>2. CASE ~(Confirm \/ Crash)
      <4>1. UNCHANGED resource
        BY <2>1, <3>2 DEF First, Next, Proceed, Resting, vars, Submit, SaveIntent, TrySucceeds,
             TryFails, SaveTried, Decide, Cancel, Finish, Boot, LoadFails, Scan, Recover
      <4> QED
        BY <2>1, <4>1 DEF Nobody
    <3> QED
      BY <3>1, <3>2
  <2>4. In("released") = {} /\ In("released")' = {}
    BY <2>1, <2>3 DEF In, Nobody
  <2> QED
    BY <2>2, <2>4
<1> QED
  BY <1>1, Directed, PTL DEF Spec, DecisionStands

-----------------------------------------------------------------------------
(* What has been done of each phase. *)

\* Nothing that i reserved or confirmed is left, or its second phase failed.
Clean(i) == resource[i] \notin {"reserved", "confirmed"} \/ i \in refused

CleanAbove(k) == \A i \in Participant : i > k => Clean(i)

ConfirmedBelow(k) == \A i \in Participant : i < k => resource[i] = "confirmed" \/ i \in refused

\* The participants that recovery would cancel.
Reach == IF log.inProgress # 0 THEN log.inProgress ELSE log.tried

\* The first phase takes the participants in order, the log a step ahead of it.
Trial ==
    /\ ~submitted => CleanAbove(0)
    /\ pc \in First => CleanAbove(tried)
    /\ pc \in {"intent", "try"} => at = tried + 1
    /\ pc = "record" => at = tried
    /\ pc = "decide" => tried = N
    /\ pc = "try" => unrecorded \/ (log.status = "trying" /\ Reach = at)
    /\ pc \in First /\ log.status = "none" /\ ~unrecorded => CleanAbove(0)

\* What recovery would cancel is all that has been reserved.
Covered == log.status = "trying" /\ ~unrecorded /\ ~lost => CleanAbove(Reach)

\* A confirmation is of all participants and has done those before the next.
Confirming ==
    /\ log.status = "confirming" => log.tried = N
    /\ pc = "confirming" => /\ tried = N /\ ConfirmedBelow(at)
                            /\ log.status = "confirming" \/ unrecorded

\* A cancellation has done those after the next.
Cancelling ==
    pc = "cancelling" => /\ log.status = "trying" \/ unrecorded
                         /\ ~lost => CleanAbove(at)

\* At the end every participant is confirmed, or every one is clean.
Ended ==
    pc \in {"down", "booting", "loading", "idle"} /\ ~UnderWay /\ ~lost =>
        CleanAbove(0) \/ ConfirmedBelow(N + 1)

PhaseInv == Trial /\ Covered /\ Confirming /\ Cancelling /\ Ended

\* What has come of one participant is all that a step changes.
LEMMA SetChanges ==
    ASSUME Types, NEW r, Set(at, r)
    PROVE  \A i \in Participant : resource'[i] = IF i = at THEN r ELSE resource[i]
  BY DEF Set, Types

\* The first phase: a participant is tried when the log names it.
LEMMA TrialSteps ==
    ASSUME DirectionInv, PhaseInv, Submit \/ SaveIntent \/ TrySucceeds \/ TryFails
    PROVE  PhaseInv'
<1> USE TccAssumption DEF Participant, First
<1>0. /\ Types /\ Before /\ Trial /\ Covered /\ Confirming
      /\ tried \in 0..N /\ at \in 0..N + 1 /\ log \in Snapshot
      /\ pc \in {"intent", "try", "record"} => at \in 1..N
  BY DEF DirectionInv, TypeInv, PhaseInv, Types
<1>1. CASE Submit
  <2>1. CleanAbove(0)' /\ log'.status = "none" /\ pc' = "intent" /\ tried' = 0 /\ at' = 1
    BY <1>0, <1>1 DEF Submit, Before, Trial, CleanAbove, Clean
  <2>2. submitted' /\ UNCHANGED <<log, unrecorded, lost>>
    BY <1>1 DEF Submit
  <2> QED
    BY <2>1, <2>2 DEF PhaseInv, Trial, Covered, Confirming, Cancelling, Ended
<1>2. CASE SaveIntent
  <2>1. /\ pc = "intent" /\ pc' = "try" /\ at = tried + 1 /\ submitted'
        /\ UNCHANGED <<tried, at, resource, refused, lost>>
    BY <1>0, <1>2 DEF SaveIntent, Trial, Before
  <2>2. CleanAbove(tried)'
    BY <1>0, <2>1 DEF Trial, CleanAbove, Clean
  <2>3. \/ log' = Trying(tried, at)
        \/ log' = log /\ unrecorded'
    BY <1>2, SaveOutcomes DEF SaveIntent
  <2>4. log'.status # "confirming"
    BY <1>0, <2>1, <2>3 DEF Trying, Before
  <2>5. unrecorded' \/ (log'.status = "trying" /\ Reach' = at)
    BY <1>0, <2>1, <2>3 DEF Trying, Reach
  <2>6. CleanAbove(at)'
    BY <1>0, <2>1, <2>2 DEF CleanAbove
  <2> QED
    BY <2>1, <2>2, <2>4, <2>5, <2>6 DEF PhaseInv, Trial, Covered, Confirming, Cancelling, Ended
<1>3. CASE TrySucceeds
  <2>1. /\ pc = "try" /\ pc' = "record" /\ at = tried + 1 /\ tried' = at /\ submitted'
        /\ UNCHANGED <<log, at, refused, unrecorded, lost>> /\ Set(at, "reserved")
    BY <1>0, <1>3 DEF TrySucceeds, Trial, Before
  <2>2. CleanAbove(at)'
    BY <1>0, <2>1, SetChanges DEF Trial, CleanAbove, Clean
  <2>3. unrecorded \/ (log.status = "trying" /\ Reach = at /\ Reach' = at)
    BY <1>0, <2>1 DEF Trial, Reach
  <2>4. log.status # "confirming"
    BY <1>0, <2>1 DEF Before
  <2> QED
    BY <2>1, <2>2, <2>3, <2>4 DEF PhaseInv, Trial, Covered, Confirming, Cancelling, Ended
<1>4. CASE TryFails
  <2>1. /\ pc = "try" /\ pc' = "cancelling" /\ at = tried + 1 /\ at' = tried /\ submitted'
        /\ UNCHANGED <<log, tried, refused, unrecorded, lost>>
    BY <1>0, <1>4 DEF TryFails, Trial, Before
  <2>2. PICK r \in {"free", "leaked"} : Set(at, r)
    BY <1>4 DEF TryFails
  <2>3. CleanAbove(tried)' /\ CleanAbove(at)'
    BY <1>0, <2>1, <2>2, SetChanges DEF Trial, CleanAbove, Clean
  <2>4. unrecorded \/ (log.status = "trying" /\ Reach = at /\ Reach' = at)
    BY <1>0, <2>1 DEF Trial, Reach
  <2>5. log'.status = "trying" /\ ~unrecorded' /\ ~lost' => CleanAbove(Reach)'
    <3>1. SUFFICES ASSUME ~unrecorded PROVE CleanAbove(Reach)'
      BY <2>1
    <3>2. Reach' = tried + 1
      BY <2>1, <2>4, <3>1
    <3> QED
      BY <1>0, <2>1, <2>3, <3>2 DEF CleanAbove
  <2>6. log.status # "confirming"
    BY <1>0, <2>1 DEF Before
  <2> QED
    BY <2>1, <2>3, <2>4, <2>5, <2>6 DEF PhaseInv, Trial, Covered, Confirming, Cancelling, Ended
<1> QED
  BY <1>1, <1>2, <1>3, <1>4

\* The end of the first phase: the log covers all, or names the decision.
LEMMA RecordSteps ==
    ASSUME DirectionInv, PhaseInv, SaveTried \/ Decide
    PROVE  PhaseInv'
<1> USE TccAssumption DEF Participant, First
<1>0. /\ Types /\ Before /\ Trial /\ Covered /\ Confirming
      /\ tried \in 0..N /\ at \in 0..N + 1 /\ log \in Snapshot
      /\ pc \in {"intent", "try", "record"} => at \in 1..N
  BY DEF DirectionInv, TypeInv, PhaseInv, Types
<1>1. CASE SaveTried
  <2>1. /\ pc = "record" /\ pc' = (IF at = N THEN "decide" ELSE "intent")
        /\ at = tried /\ at' = tried + 1 /\ submitted'
        /\ UNCHANGED <<tried, resource, refused, lost>>
    BY <1>0, <1>1 DEF SaveTried, Trial, Before
  <2>2. CleanAbove(tried)'
    BY <1>0, <2>1 DEF Trial, CleanAbove, Clean
  <2>3. \/ log' = Trying(tried, 0)
        \/ log' = log /\ unrecorded' = unrecorded
    BY <1>1 DEF SaveTried, Persist
  <2>4. log'.status # "confirming"
    BY <1>0, <2>1, <2>3 DEF Trying, Before
  <2>5. Covered'
    <3>1. CASE log' = Trying(tried, 0)
      <4>1. Reach' = tried
        BY <3>1 DEF Trying, Reach
      <4> QED
        BY <2>1, <2>2, <4>1 DEF Covered, CleanAbove
    <3>2. CASE log' = log /\ unrecorded' = unrecorded
      BY <1>0, <2>1, <3>2 DEF Covered, CleanAbove, Clean, Reach
    <3> QED
      BY <2>3, <3>1, <3>2
  <2>6. log'.status = "none" /\ ~unrecorded' => CleanAbove(0)'
    BY <1>0, <2>1, <2>3 DEF Trial, Trying, CleanAbove, Clean
  <2>7. pc' \in {"decide", "intent"} /\ (pc' = "decide" => tried' = N)
    BY <2>1
  <2> QED
    BY <2>1, <2>2, <2>4, <2>5, <2>6, <2>7 DEF PhaseInv, Trial, Confirming, Cancelling, Ended
<1>2. CASE Decide
  <2>1. /\ pc = "decide" /\ pc' = "confirming" /\ tried = N /\ at' = 1 /\ submitted'
        /\ UNCHANGED <<tried, resource, refused, lost>>
    BY <1>0, <1>2 DEF Decide, Trial, Before
  <2>2. \/ log' = [status |-> "confirming", tried |-> tried, inProgress |-> 0]
        \/ log' = log /\ unrecorded'
    BY <1>2, SaveOutcomes DEF Decide
  <2>3. ConfirmedBelow(1)'
    BY DEF ConfirmedBelow
  <2>4. log'.status = "confirming" => log'.tried = N
    BY <1>0, <2>1, <2>2 DEF Confirming
  <2>5. log'.status = "confirming" \/ unrecorded'
    BY <2>2
  <2> QED
    BY <2>1, <2>3, <2>4, <2>5 DEF PhaseInv, Trial, Covered, Confirming, Cancelling, Ended,
       ConfirmedBelow
<1> QED
  BY <1>1, <1>2

\* The second phase goes on past the participants that fail.
LEMMA SecondPhaseSteps ==
    ASSUME DirectionInv, PhaseInv, Confirm \/ Cancel \/ Finish
    PROVE  PhaseInv'
<1> USE TccAssumption DEF Participant, First
<1>0. /\ Types /\ Before /\ Trial /\ Covered /\ Confirming /\ Cancelling
      /\ tried \in 0..N /\ at \in 0..N + 1 /\ log \in Snapshot /\ status \in Second
  BY DEF DirectionInv, TypeInv, PhaseInv, Types, Before, Confirm, Cancel, Finish
<1>s. submitted
  BY DEF DirectionInv, Before, Confirm, Cancel, Finish
<1>1. CASE Confirm
  <2>1. /\ pc = "confirming" /\ at' = at + 1 /\ at \in 1..N /\ tried = N /\ submitted'
        /\ UNCHANGED <<log, pc, tried, unrecorded, lost>>
    BY <1>0, <1>s, <1>1 DEF Confirm, Confirming, Types
  <2>2. PICK r \in {"confirmed", resource[at]} : Set(at, r)
    BY <1>1 DEF Confirm
  <2>3. refused \subseteq refused' /\ (resource'[at] = "confirmed" \/ at \in refused')
    BY <1>0, <1>1, <2>1, SetChanges DEF Confirm
  <2>4. ConfirmedBelow(at)'
    BY <1>0, <2>1, <2>2, <2>3, SetChanges DEF Confirming, ConfirmedBelow
  <2>5. log.status = "confirming" \/ unrecorded
    BY <1>0, <2>1 DEF Confirming
  <2> QED
    BY <1>0, <2>1, <2>4, <2>5 DEF PhaseInv, Trial, Covered, Confirming, Cancelling, Ended,
       ConfirmedBelow
<1>2. CASE Cancel
  <2>1. /\ pc = "cancelling" /\ at' = at - 1 /\ at \in 1..N /\ submitted'
        /\ UNCHANGED <<log, pc, tried, unrecorded, lost>>
    BY <1>0, <1>s, <1>2 DEF Cancel, Types
  <2>2. PICK r \in {"released", resource[at]} : Set(at, r)
    BY <1>2 DEF Cancel
  <2>3. refused \subseteq refused' /\ (resource'[at] = "released" \/ at \in refused')
    BY <1>0, <1>2, <2>1, SetChanges DEF Cancel
  <2>4. \A i \in Participant : Clean(i) \/ i = at => Clean(i)'
    BY <1>0, <2>2, <2>3, SetChanges DEF Clean
  <2>5. ~lost' => CleanAbove(at)'
    BY <1>0, <2>1, <2>4 DEF Cancelling, CleanAbove
  <2>6. Covered'
    BY <1>0, <2>1, <2>4 DEF Covered, CleanAbove, Reach
  <2>7. log.status = "trying" \/ unrecorded
    BY <1>0, <2>1 DEF Cancelling
  <2>8. Confirming'
    BY <1>0, <2>1 DEF Confirming
  <2> QED
    BY <2>1, <2>5, <2>6, <2>7, <2>8 DEF PhaseInv, Trial, Cancelling, Ended
<1>3. CASE Finish
  <2>1. PICK snap : Persist(snap) /\ snap.status \in {"none"} \cup Second
    BY <1>0, <1>3 DEF Finish, NoLog
  <2>2. log' = snap \/ (log' = log /\ unrecorded' = unrecorded)
    BY <2>1 DEF Persist
  <2>3. pc' = "idle" /\ submitted' /\ UNCHANGED <<tried, at, resource, refused, lost>>
    BY <1>s, <1>3 DEF Finish
  <2>4. ~lost => CleanAbove(0)' \/ ConfirmedBelow(N + 1)'
    <3>1. CASE pc = "confirming" /\ at > tried
      BY <1>0, <2>3, <3>1 DEF Confirming, ConfirmedBelow
    <3>2. CASE pc = "cancelling" /\ at = 0
      BY <1>0, <2>3, <3>2 DEF Cancelling, CleanAbove, Clean
    <3> QED
      BY <1>3, <3>1, <3>2 DEF Finish
  <2>5. log'.status \notin {"trying", "confirming"} \/ (log' = log /\ unrecorded' = unrecorded)
    BY <2>1, <2>2 DEF Second
  <2>6. Covered'
    BY <1>0, <2>3, <2>5 DEF Covered, CleanAbove, Clean, Reach
  <2>7. log'.status = "confirming" => log'.tried = N
    BY <1>0, <2>5 DEF Confirming
  <2> QED
    BY <2>3, <2>4, <2>6, <2>7 DEF PhaseInv, Trial, Confirming, Cancelling, Ended
<1> QED
  BY <1>1, <1>2, <1>3

\* A crash may finish what the process was doing.
LEMMA CrashStep ==
    ASSUME DirectionInv, PhaseInv, Crash
    PROVE  PhaseInv'
<1> USE TccAssumption DEF Participant, First
<1>0. /\ Types /\ Before /\ Trial /\ Covered /\ Confirming /\ Cancelling /\ Ended
      /\ tried \in 0..N /\ at \in 0..N + 1 /\ log \in Snapshot
  BY DEF DirectionInv, TypeInv, PhaseInv, Types
<1>1. /\ pc' = "down" /\ UNCHANGED <<log, refused, submitted, unrecorded>>
      /\ ~lost' => ~lost /\ ~unrecorded
  BY DEF Crash
<1>2. log'.status = "confirming" => log'.tried = N
  BY <1>0, <1>1 DEF Confirming
<1>3. CASE UNCHANGED resource
  <2>1. ~submitted' => CleanAbove(0)'
    BY <1>0, <1>1, <1>3 DEF Trial, CleanAbove, Clean
  <2>2. Covered'
    BY <1>0, <1>1, <1>3 DEF Covered, CleanAbove, Clean, Reach
  <2>3. Ended'
    <3>1. SUFFICES ASSUME ~lost, ~unrecorded, log.status \notin {"trying", "confirming"}
                   PROVE  CleanAbove(0) \/ ConfirmedBelow(N + 1)
      BY <1>1, <1>3 DEF Ended, UnderWay, CleanAbove, Clean, ConfirmedBelow
    <3>2. CASE pc \in First
      BY <1>0, <3>1, <3>2 DEF Before, Trial
    <3>3. CASE pc \in {"confirming", "cancelling"}
      BY <1>0, <3>1, <3>3 DEF Confirming, Cancelling
    <3>4. CASE pc \in {"down", "booting", "loading", "idle"}
      BY <1>0, <3>1, <3>4 DEF Ended, UnderWay
    <3> QED
      BY <1>0, <3>2, <3>3, <3>4 DEF Types
  <2> QED
    BY <1>1, <1>2, <2>1, <2>2, <2>3 DEF PhaseInv, Trial, Confirming, Cancelling
<1>4. CASE pc = "try" /\ Set(at, "reserved")
  <2>1. submitted' /\ at = tried + 1 /\ (unrecorded \/ (log.status = "trying" /\ Reach = at))
    BY <1>0, <1>1, <1>4 DEF Before, Trial
  <2>2. \A i \in Participant : i > at => Clean(i)'
    BY <1>0, <1>1, <1>4, <2>1, SetChanges DEF Trial, CleanAbove, Clean
  <2>3. Reach' = Reach
    BY <1>1 DEF Reach
  <2> QED
    <3>1. Covered'
      BY <1>0, <1>1, <2>1, <2>2, <2>3 DEF Covered, CleanAbove
    <3> QED
      BY <1>1, <1>2, <2>1, <3>1 DEF PhaseInv, Trial, Confirming, Cancelling, Ended, UnderWay
<1>5. CASE pc = "confirming" /\ Set(at, "confirmed")
  <2>1. submitted' /\ (log.status = "confirming" \/ unrecorded)
    BY <1>0, <1>1, <1>5 DEF Before, Confirming
  <2> QED
    BY <1>1, <1>2, <2>1
       DEF PhaseInv, Trial, Covered, Confirming, Cancelling, Ended, UnderWay
<1>6. CASE pc = "cancelling" /\ Set(at, "released")
  <2>1. submitted' /\ (log.status = "trying" \/ unrecorded)
    BY <1>0, <1>1, <1>6 DEF Before, Cancelling
  <2>2. \A i \in Participant : Clean(i) => Clean(i)'
    BY <1>0, <1>1, <1>6, SetChanges DEF Clean
  <2>3. Covered'
    BY <1>0, <1>1, <2>2 DEF Covered, CleanAbove, Reach
  <2> QED
    BY <1>1, <1>2, <2>1, <2>3 DEF PhaseInv, Trial, Confirming, Cancelling, Ended, UnderWay
<1> QED
  BY <1>3, <1>4, <1>5, <1>6 DEF Crash

\* Recovery takes up what the log names.
LEMMA RecoverySteps ==
    ASSUME DirectionInv, PhaseInv, Boot \/ LoadFails \/ Scan \/ Recover \/ UNCHANGED vars
    PROVE  PhaseInv'
<1> USE TccAssumption DEF Participant, First
<1>0. /\ Types /\ Before /\ Gone /\ Trial /\ Covered /\ Confirming /\ Cancelling /\ Ended
      /\ tried \in 0..N /\ at \in 0..N + 1 /\ log \in Snapshot
  BY DEF DirectionInv, TypeInv, PhaseInv, Types
<1>1. CASE Boot \/ LoadFails \/ Scan
  <2>1. /\ pc \in {"down", "booting", "loading"} /\ pc' \in {"booting", "loading", "idle"}
        /\ UNCHANGED <<log, tried, at, resource, submitted, refused, unrecorded, lost>>
    BY <1>1 DEF Boot, LoadFails, Scan
  <2> QED
    BY <1>0, <2>1 DEF PhaseInv, Trial, Covered, Confirming, Cancelling, Ended, UnderWay,
       CleanAbove, Clean, ConfirmedBelow, Reach
<1>2. CASE Recover
  <2>1. /\ pc = "loading" /\ submitted' /\ (unrecorded => lost)
        /\ UNCHANGED <<log, resource, submitted, refused, unrecorded, lost>>
    BY <1>0, <1>2 DEF Recover, Before, Gone
  <2>2. Covered' /\ (log'.status = "confirming" => log'.tried = N)
    BY <1>0, <2>1 DEF Covered, Confirming, CleanAbove, Clean, Reach
  <2>3. CASE /\ log.status = "confirming" /\ tried' = log.tried /\ at' = 1
             /\ pc' = "confirming"
    BY <2>1, <2>2, <2>3 DEF PhaseInv, Trial, Confirming, Cancelling, Ended, ConfirmedBelow
  <2>4. CASE log.status = "trying" /\ Backward
    <3>1. pc' = "cancelling" /\ at' = Reach
      BY <2>4 DEF Backward, Reach
    <3>2. ~lost' => CleanAbove(at)'
      BY <1>0, <2>1, <2>4, <3>1 DEF Covered, CleanAbove, Clean
    <3> QED
      BY <2>1, <2>2, <2>4, <3>1, <3>2 DEF PhaseInv, Trial, Confirming, Cancelling, Ended
  <2> QED
    BY <1>2, <2>3, <2>4 DEF Recover
<1>3. CASE UNCHANGED vars
  BY <1>0, <1>3 DEF vars, PhaseInv, Trial, Covered, Confirming, Cancelling, Ended, UnderWay,
     CleanAbove, Clean, ConfirmedBelow, Reach
<1> QED
  BY <1>1, <1>2, <1>3

LEMMA InitPhase == Init => PhaseInv
  BY DEF Init, NoLog, PhaseInv, Trial, Covered, Confirming, Cancelling, Ended, UnderWay,
     CleanAbove, Clean, First

\* What has been done of each phase is what the log and the process say.
THEOREM Phases == Spec => []PhaseInv
<1>1. DirectionInv /\ PhaseInv /\ [Next]_vars => PhaseInv'
  BY TrialSteps, RecordSteps, SecondPhaseSteps, CrashStep, RecoverySteps
     DEF Next, Proceed, Resting
<1> QED
  BY <1>1, InitPhase, Directed, PTL DEF Spec

\* All or nothing, for any number of participants, crashes and failed saves: a
\* transaction that nobody works on and recovery leaves alone has confirmed
\* everybody, or holds nothing (coordinator.go confirm, cancel, Recover).
THEOREM AllOrNothingHolds == Spec => []AllOrNothing
<1>1. DirectionInv /\ PhaseInv => AllOrNothing
  <2> SUFFICES ASSUME DirectionInv, PhaseInv, Settled, ~lost
               PROVE  \/ Participant \ refused \subseteq In("confirmed")
                      \/ (In("confirmed") \cup In("reserved")) \subseteq refused
    BY DEF AllOrNothing
  <2>1. CleanAbove(0) \/ ConfirmedBelow(N + 1)
    BY DEF PhaseInv, Ended, Settled
  <2> QED
    BY <2>1, TccAssumption DEF CleanAbove, Clean, ConfirmedBelow, In, Participant
<1> QED
  BY <1>1, Directed, Phases, PTL
=============================================================================
