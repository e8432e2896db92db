------------------------------ MODULE Election ------------------------------
(***************************************************************************)
(* Leader election (cloud/lock/election.go) on a MemoryLocker.             *)
(*                                                                         *)
(* Several elections campaign for one key.  The one that acquires it is    *)
(* the leader: it starts OnStartedLeading on a goroutine and waits until   *)
(* its lock is lost or its context is done; it then resigns, waits for the *)
(* work to return, calls OnStoppedLeading, releases the lock and campaigns *)
(* again.                                                                  *)
(*                                                                         *)
(* The specification and its like have names of their own, as in the       *)
(* locker's, so that this module can be extended beside others.            *)
(***************************************************************************)
EXTENDS MemoryLocker

CONSTANTS
    Node,           \* the elections
    MaxErrors       \* bound on transient errors of the locker

ASSUME ElectionAssumption == MaxErrors \in Nat

VARIABLES
    place,          \* where the Run of each election is
    mine,           \* the hold behind its Lock
    leader,         \* Election.leader
    working,        \* its OnStartedLeading is running
    cancelled,      \* elections whose context is done
    errors

node == <<place, mine, leader, working>>
election == <<locker, node, cancelled, errors>>

ElectionTypeOK ==
    /\ LockerTypeOK
    /\ place \in [Node -> {"checking", "acquiring", "sleeping", "backoff", "elected", "leading",
                        "resigning", "releasing", "returned"}]
    /\ mine \in [Node -> Hold \cup {NoHold}]
    /\ leader \in [Node -> BOOLEAN]
    /\ working \in [Node -> BOOLEAN]
    /\ cancelled \in SUBSET Node
    /\ errors \in 0..MaxErrors

ElectionInit ==
    /\ LockerInit
    /\ place = [n \in Node |-> "checking"]
    /\ mine = [n \in Node |-> NoHold]
    /\ leader = [n \in Node |-> FALSE]
    /\ working = [n \in Node |-> FALSE]
    /\ cancelled = {}
    /\ errors = 0

MoveTo(n, l) == place' = [place EXCEPT ![n] = l]

\* Holds that something still refers to.
InUse == {cur} \cup loops \cup {mine[n] : n \in Node}

-----------------------------------------------------------------------------
(* The campaign. *)

\* Run looks at its context before each campaign.
Check(n) ==
    /\ place[n] = "checking"
    /\ MoveTo(n, IF n \in cancelled THEN "returned" ELSE "acquiring")
    /\ UNCHANGED <<locker, mine, leader, working, cancelled, errors>>

Win(n) ==
    /\ place[n] = "acquiring"
    /\ \E h \in Hold \ InUse :
        /\ h = CHOOSE k \in Hold \ InUse : TRUE
        /\ TryAcquire(h)
        /\ mine' = [mine EXCEPT ![n] = h]
    /\ MoveTo(n, "elected")
    /\ UNCHANGED <<leader, working, cancelled, errors>>

\* Acquire polls: it sleeps for the retry interval when the key is held.
Contended(n) ==
    /\ place[n] = "acquiring" /\ Held
    /\ MoveTo(n, "sleeping")
    /\ UNCHANGED <<locker, mine, leader, working, cancelled, errors>>

\* The locker fails for a reason of its own.
Error(n) ==
    /\ place[n] = "acquiring" /\ errors < MaxErrors
    /\ errors' = errors + 1
    /\ MoveTo(n, "backoff")
    /\ UNCHANGED <<locker, mine, leader, working, cancelled>>

\* Mutant: the sleep does not end with the context.
WakeRegardless(n) ==
    /\ place[n] \in {"sleeping", "backoff"}
    /\ MoveTo(n, "acquiring")
    /\ UNCHANGED <<locker, mine, leader, working, cancelled, errors>>

\* The sleep is over, or the context is.
Wake(n) ==
    /\ place[n] \in {"sleeping", "backoff"}
    /\ MoveTo(n, IF n \in cancelled THEN "returned"
               ELSE IF place[n] = "sleeping" THEN "acquiring" ELSE "checking")
    /\ UNCHANGED <<locker, mine, leader, working, cancelled, errors>>

-----------------------------------------------------------------------------
(* The term: serveTerm. *)

StartTerm(n) ==
    /\ place[n] = "elected"
    /\ leader' = [leader EXCEPT ![n] = TRUE]
    /\ working' = [working EXCEPT ![n] = TRUE]
    /\ MoveTo(n, "leading")
    /\ UNCHANGED <<locker, mine, cancelled, errors>>

\* The leader's work returns, in its own time or because its context is done.
WorkReturns(n) ==
    /\ working[n]
    /\ working' = [working EXCEPT ![n] = FALSE]
    /\ UNCHANGED <<locker, place, mine, leader, cancelled, errors>>

Resign(n) ==
    /\ place[n] = "leading"
    /\ n \in cancelled \/ mine[n] \in lost
    /\ leader' = [leader EXCEPT ![n] = FALSE]
    /\ MoveTo(n, "resigning")
    /\ UNCHANGED <<locker, mine, working, cancelled, errors>>

\* Mutant: the work is not waited for.
AwaitNobody(n) ==
    /\ place[n] = "resigning"
    /\ MoveTo(n, "releasing")
    /\ UNCHANGED <<locker, mine, leader, working, cancelled, errors>>

\* OnStoppedLeading runs when the work is over, before the lock is released.
AwaitWork(n) ==
    /\ place[n] = "resigning" /\ ~working[n]
    /\ MoveTo(n, "releasing")
    /\ UNCHANGED <<locker, mine, leader, working, cancelled, errors>>

\* The context is stripped of its cancellation, so the release is made even
\* when Run is being stopped.
Release(n) ==
    /\ place[n] = "releasing"
    /\ Unlock(mine[n])
    /\ mine' = [mine EXCEPT ![n] = NoHold]
    /\ MoveTo(n, "checking")
    /\ UNCHANGED <<leader, working, cancelled, errors>>

-----------------------------------------------------------------------------
Cancel(n) ==
    /\ cancelled' = cancelled \cup {n}
    /\ n \notin cancelled
    /\ UNCHANGED <<locker, node, errors>>

LockerStep ==
    /\ \/ \E h \in Hold : RenewTick(h) \/ LoopEnds(h)
       \/ Close
       \/ Tick
    /\ UNCHANGED <<node, cancelled, errors>>

\* What the Run of an election does.
Run(n) ==
    \/ Check(n) \/ Win(n) \/ Contended(n) \/ Error(n) \/ Wake(n) \/ StartTerm(n)
    \/ Resign(n) \/ AwaitWork(n) \/ Release(n)

AllReturned ==
    /\ \A n \in Node : place[n] = "returned"
    /\ UNCHANGED election

ElectionNext ==
    \/ \E n \in Node : Run(n) \/ WorkReturns(n) \/ Cancel(n)
    \/ LockerStep
    \/ AllReturned

Finish(n) == place[n] = "resigning" /\ WorkReturns(n)

LoopStep(h) == LoopEnds(h) /\ UNCHANGED <<node, cancelled, errors>>

\* Run goes on, the work returns when its context is done (which is what its
\* documentation asks of it), and a renew loop sees that it has been ended.
\* Nobody has to be cancelled, and a renewal may be late.
ElectionSpec == ElectionInit /\ [][ElectionNext]_election
             /\ (\A n \in Node : WF_election(Run(n)))
             /\ (\A n \in Node : WF_election(Finish(n)))
             /\ (\A h \in Hold : WF_election(LoopStep(h)))

-----------------------------------------------------------------------------
(* Properties. *)

\* At most one election leads without having been told that it has lost the
\* key: whoever leads and is not the current holder finds its lost channel
\* closed.  An expired lease, a late renewal and a superseded handle that is
\* unlocked late do not change that.
DeposedAreTold ==
    \A n \in Node : leader[n] /\ mine[n] # cur => mine[n] \in lost

\* The key is never handed on while the work of a term is running, unless the
\* lease had expired: the work of two leaders overlaps only then.
WorkIsCovered ==
    \A n \in Node : working[n] /\ mine[n] # cur => mine[n] \in deposed

\* An election whose context is done returns from Run, whether it sleeps,
\* waits for the key, leads or resigns.
CancelledReturn == \A n \in Node : (n \in cancelled) ~> (place[n] = "returned")

\* When an election is waiting for the key, somebody leads after a while,
\* unless it is cancelled: no path leaves the key held by nobody.
SomebodyLeads ==
    \A n \in Node : (place[n] = "sleeping") ~> (n \in cancelled \/ \E m \in Node : leader[m])
=============================================================================
