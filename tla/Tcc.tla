-------------------------------- MODULE Tcc ---------------------------------
(***************************************************************************)
(* One try/confirm/cancel transaction and its log                          *)
(* (cloud/experimental/transaction/tcc/coordinator.go, store.go).          *)
(*                                                                         *)
(* Execute tries the participants in order; when all have been tried it    *)
(* records the decision to commit and confirms them in order, and when one *)
(* refuses it cancels those before it in reverse.  The process may crash   *)
(* at any point; when it starts again the recovery runner                  *)
(* (starter/experimental/starter-transaction-tcc/recovery.go) hands a      *)
(* transaction that its log says is under way to Recover, which goes       *)
(* forward when the decision is there and backward when it is not.  The    *)
(* log is durable; each call of the store may fail and the coordinator     *)
(* ignores it when it does.                                                *)
(*                                                                         *)
(* Participants are tried in order, so the tried ones are modelled by      *)
(* their number.  They keep what the package asks of them: Confirm and     *)
(* Cancel may be repeated, and Cancel may come for a reservation that was  *)
(* never made.  Try results, retries of a phase and the observer are left  *)
(* out.                                                                    *)
(***************************************************************************)
EXTENDS Naturals

CONSTANTS
    N,              \* how many participants the transaction has
    MaxCrashes,     \* bound on crashes
    MaxFaults       \* bound on store calls that fail

ASSUME TccAssumption ==
    /\ N \in Nat \ {0}
    /\ MaxCrashes \in Nat
    /\ MaxFaults \in Nat

Participant == 1..N

VARIABLES
    log,            \* the stored snapshot
    pc,             \* where the process is
    tried,          \* how many participants the coordinator counts as tried
    at,             \* the participant whose phase is next
    status,         \* Result.Status of the second phase
    resource,       \* what each participant's resource has come to
    submitted,      \* Execute has been called
    refused,        \* history: participants whose second phase has failed
    unrecorded,     \* history: the log lacks a participant that may have been tried,
                    \* or the decision, because the save of it failed
    lost            \* history: the process crashed while the log lacked something

VARIABLES crashes, faults

vars == <<log, pc, tried, at, status, resource, submitted, refused, unrecorded, lost,
          crashes, faults>>

NoLog == [status |-> "none", tried |-> 0, inProgress |-> 0]

Second == {"committed", "confirmFailed", "cancelled", "cancelFailed"}

Snapshot == [status : {"none", "trying", "confirming"} \cup Second,
             tried : 0..N, inProgress : 0..N]

TypeOK ==
    /\ log \in Snapshot
    /\ pc \in {"down", "booting", "loading", "idle", "intent", "try", "record", "decide",
               "confirming", "cancelling"}
    /\ tried \in 0..N /\ at \in 0..N + 1
    /\ status \in Second
    /\ resource \in [Participant -> {"free", "reserved", "leaked", "confirmed", "released"}]
    /\ submitted \in BOOLEAN /\ lost \in BOOLEAN
    /\ refused \in SUBSET Participant
    /\ unrecorded \in BOOLEAN
    /\ crashes \in 0..MaxCrashes /\ faults \in 0..MaxFaults

Init ==
    /\ log = NoLog
    /\ pc = "down"
    /\ tried = 0 /\ at = 0
    /\ status = "committed"
    /\ resource = [i \in Participant |-> "free"]
    /\ submitted = FALSE /\ lost = FALSE
    /\ refused = {}
    /\ unrecorded = FALSE
    /\ crashes = 0 /\ faults = 0

\* persist and finish write the snapshot, or the store fails and nobody cares.
StoreFails == faults < MaxFaults /\ faults' = faults + 1

Persist(snap) ==
    \/ log' = snap /\ unrecorded' = FALSE /\ UNCHANGED faults
    \/ StoreFails /\ UNCHANGED <<log, unrecorded>>

\* What the log would say with snap is not in it when this save fails.
PersistNews(snap) ==
    \/ log' = snap /\ unrecorded' = FALSE /\ UNCHANGED faults
    \/ StoreFails /\ unrecorded' = TRUE /\ UNCHANGED log

Trying(k, inProgress) == [status |-> "trying", tried |-> k, inProgress |-> inProgress]

Set(i, r) == resource' = [resource EXCEPT ![i] = r]

-----------------------------------------------------------------------------
(* Execute. *)

Submit ==
    /\ pc = "idle" /\ ~submitted
    /\ submitted' = TRUE
    /\ tried' = 0 /\ at' = 1
    /\ pc' = "intent"
    /\ UNCHANGED <<log, status, resource, refused, unrecorded, lost, crashes, faults>>

\* Mutant: the participant in flight is not recorded.
SaveIntentBlank ==
    /\ pc = "intent" /\ at <= N
    /\ PersistNews(Trying(tried, 0))
    /\ pc' = "try"
    /\ UNCHANGED <<tried, at, status, resource, submitted, refused, lost, crashes>>

SaveIntent ==
    /\ pc = "intent" /\ at <= N
    /\ PersistNews(Trying(tried, at))
    /\ pc' = "try"
    /\ UNCHANGED <<tried, at, status, resource, submitted, refused, lost, crashes>>

TrySucceeds ==
    /\ pc = "try"
    /\ Set(at, "reserved")
    /\ tried' = at
    /\ pc' = "record"
    /\ UNCHANGED <<log, at, status, submitted, refused, unrecorded, lost, crashes, faults>>

\* A Try that returns an error may have reserved something all the same; its
\* participant is not among those that Execute cancels.
TryFails ==
    /\ pc = "try"
    /\ \E r \in {"free", "leaked"} : Set(at, r)
    /\ at' = tried
    /\ status' = "cancelled"
    /\ pc' = "cancelling"
    /\ UNCHANGED <<log, tried, submitted, refused, unrecorded, lost, crashes, faults>>

SaveTried ==
    /\ pc = "record"
    /\ Persist(Trying(tried, 0))
    /\ at' = at + 1
    /\ pc' = IF at = N THEN "decide" ELSE "intent"
    /\ UNCHANGED <<tried, status, resource, submitted, refused, lost, crashes>>

\* Mutant: the decision is not recorded.
DecideSilently ==
    /\ pc = "decide"
    /\ at' = 1
    /\ status' = "committed"
    /\ pc' = "confirming"
    /\ UNCHANGED <<log, tried, resource, submitted, refused, unrecorded, lost, crashes, faults>>

\* The decision to commit.
Decide ==
    /\ pc = "decide"
    /\ PersistNews([status |-> "confirming", tried |-> tried, inProgress |-> 0])
    /\ at' = 1
    /\ status' = "committed"
    /\ pc' = "confirming"
    /\ UNCHANGED <<tried, resource, submitted, refused, lost, crashes>>

-----------------------------------------------------------------------------
(* The second phase. *)

\* confirm goes on to the next participant whether or not this one fails.
Confirm ==
    /\ pc = "confirming" /\ at <= tried
    /\ at' = at + 1
    /\ \/ Set(at, "confirmed") /\ UNCHANGED <<status, refused>>
       \/ /\ \E r \in {resource[at], "confirmed"} : Set(at, r)
          /\ status' = "confirmFailed"
          /\ refused' = refused \cup {at}
    /\ UNCHANGED <<log, pc, tried, submitted, unrecorded, lost, crashes, faults>>

\* Mutant: the first failure ends the cancelling.
CancelUntilFailure ==
    /\ pc = "cancelling" /\ at > 0
    /\ \/ at' = at - 1 /\ Set(at, "released") /\ UNCHANGED <<status, refused>>
       \/ /\ at' = 0
          /\ \E r \in {resource[at], "released"} : Set(at, r)
          /\ status' = "cancelFailed"
          /\ refused' = refused \cup {at}
    /\ UNCHANGED <<log, pc, tried, submitted, unrecorded, lost, crashes, faults>>

\* cancel likewise, from the last of the tried participants to the first.
Cancel ==
    /\ pc = "cancelling" /\ at > 0
    /\ at' = at - 1
    /\ \/ Set(at, "released") /\ UNCHANGED <<status, refused>>
       \/ /\ \E r \in {resource[at], "released"} : Set(at, r)
          /\ status' = "cancelFailed"
          /\ refused' = refused \cup {at}
    /\ UNCHANGED <<log, pc, tried, submitted, unrecorded, lost, crashes, faults>>

\* finish: the log of a committed transaction is deleted, any other is kept.
Finish ==
    /\ \/ pc = "confirming" /\ at > tried
       \/ pc = "cancelling" /\ at = 0
    /\ Persist(IF status = "committed" THEN NoLog
               ELSE [status |-> status, tried |-> tried, inProgress |-> 0])
    /\ pc' = "idle"
    /\ UNCHANGED <<tried, at, status, resource, submitted, refused, lost, crashes>>

-----------------------------------------------------------------------------
(* Crashes, and recovery when the process starts. *)

\* What the process was doing when it died may have been done or not.
Crash ==
    /\ pc # "down" /\ crashes < MaxCrashes
    /\ crashes' = crashes + 1
    /\ pc' = "down"
    /\ \/ UNCHANGED resource
       \/ pc = "try" /\ Set(at, "reserved")
       \/ pc = "confirming" /\ at <= tried /\ Set(at, "confirmed")
       \/ pc = "cancelling" /\ at > 0 /\ Set(at, "released")
    /\ lost' = (lost \/ unrecorded)
    /\ tried' = 0 /\ at' = 0
    /\ UNCHANGED <<log, status, submitted, refused, unrecorded, faults>>

Boot ==
    /\ pc = "down"
    /\ pc' = "booting"
    /\ UNCHANGED <<log, tried, at, status, resource, submitted, refused, unrecorded, lost,
                   crashes, faults>>

UnderWay == log.status \in {"trying", "confirming"}

\* The store fails when the runner scans it, or when Recover loads the log: the
\* transaction is left for the next start.
LoadFails ==
    /\ pc \in {"booting", "loading"}
    /\ StoreFails
    /\ pc' = "idle"
    /\ UNCHANGED <<log, tried, at, status, resource, submitted, refused, unrecorded, lost,
                   crashes>>

\* recoveryRunner.Run: the scan for transactions that are under way.
Scan ==
    /\ pc = "booting"
    /\ pc' = IF UnderWay THEN "loading" ELSE "idle"
    /\ UNCHANGED <<log, tried, at, status, resource, submitted, refused, unrecorded, lost,
                   crashes, faults>>

\* The participant that was being tried is cancelled first.
Backward ==
    LET upTo == IF log.inProgress # 0 THEN log.inProgress ELSE log.tried IN
    /\ tried' = upTo /\ at' = upTo
    /\ status' = "cancelled"
    /\ pc' = "cancelling"

\* Mutant: recovery always goes backward.
RecoverBackward ==
    /\ pc = "loading"
    /\ Backward
    /\ UNCHANGED <<log, resource, submitted, refused, unrecorded, lost, crashes, faults>>

\* Recover: forward when the decision was recorded, backward when it was not.
Recover ==
    /\ pc = "loading"
    /\ \/ /\ log.status = "confirming"
          /\ tried' = log.tried /\ at' = 1 /\ status' = "committed"
          /\ pc' = "confirming"
       \/ log.status = "trying" /\ Backward
    /\ UNCHANGED <<log, resource, submitted, refused, unrecorded, lost, crashes, faults>>

-----------------------------------------------------------------------------
\* What the process does by itself.
Proceed ==
    \/ SaveIntent \/ TrySucceeds \/ TryFails \/ SaveTried \/ Decide
    \/ Confirm \/ Cancel \/ Finish
    \/ Boot \/ LoadFails \/ Scan \/ Recover

\* The process waits for the next request.
Resting == pc = "idle" /\ submitted /\ UNCHANGED vars

Next == Submit \/ Proceed \/ Crash \/ Resting

\* The process is scheduled and restarted, the phases return.
Spec == Init /\ [][Next]_vars /\ WF_vars(Proceed)

-----------------------------------------------------------------------------
(* Properties. *)

In(r) == {i \in Participant : resource[i] = r}

\* Nobody works on the transaction, and recovery would leave it alone.
Settled == pc \in {"idle", "down", "booting"} /\ ~UnderWay

\* All or nothing, through crashes at any point, of the recovery too, and
\* although failed writes of the log are ignored: a settled transaction has
\* confirmed every participant or holds and has confirmed nothing, but for the
\* participants whose second phase failed, unless the process crashed when the
\* log lacked the decision or a participant it may have tried.  What a Try
\* reserved before it failed ("leaked") does not count: Execute cancels only the
\* participants before it, and leaves that one to its own Try.
AllOrNothing ==
    Settled /\ ~lost =>
        \/ Participant \ refused \subseteq In("confirmed")
        \/ (In("confirmed") \cup In("reserved")) \subseteq refused

\* No participant is confirmed and another, or the same, released: whatever
\* recovery finds, it goes in the direction of the first attempt, unless the
\* record of that direction was lost.
OneDirection == ~lost => In("confirmed") = {} \/ In("released") = {}

\* A recorded decision to commit is never undone, whatever fails after it.
DecisionStands ==
    [][log.status = "confirming" =>
        /\ In("released")' = In("released")
        /\ log'.status \in {"confirming", "confirmFailed", "none"}]_vars

\* A reservation does not stay for ever: it is confirmed or released however
\* often the process is interrupted, unless the store failed on the way or the
\* participant refuses.  What a Try reserved before it failed is not counted
\* here either.
ReservationsEnd ==
    \A i \in Participant :
        (resource[i] = "reserved") ~> (resource[i] # "reserved" \/ i \in refused \/ faults > 0)
=============================================================================
