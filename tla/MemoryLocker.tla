---------------------------- MODULE MemoryLocker ----------------------------
(***************************************************************************)
(* The in-process locker (cloud/lock/memory.go), for one key.              *)
(*                                                                         *)
(* A hold is one generation of the key's lease: acquiring makes a new one, *)
(* and a hold that has been superseded or released is never used again.  A *)
(* renew loop extends the lease of its hold for as long as that is the     *)
(* current one; its renew channel is closed when the hold stops being the  *)
(* current one, and only then.  An expired lease stays where it is until   *)
(* somebody else asks for the key; only then is its holder told.           *)
(*                                                                         *)
(* Time is the number of ticks that are left of the current lease.  Tokens *)
(* are random, so a handle's token is that of the current hold only if it  *)
(* is its own hold.  Hold is a pool: a hold that nobody refers to any more *)
(* stands for a new one.                                                   *)
(***************************************************************************)
EXTENDS Naturals

CONSTANTS
    Hold,           \* the pool of holds
    NoHold,
    TTL,            \* ticks of a lease
    Renewing        \* RenewInterval is positive

ASSUME LockerAssumption ==
    /\ NoHold \notin Hold
    /\ TTL \in Nat \ {0}
    /\ Renewing \in BOOLEAN

VARIABLES
    cur,            \* the key's entry in MemoryLocker.locks
    lease,          \* ticks until it expires
    lost,           \* holds whose lost channel is closed
    loops,          \* renew loops that are running
    stopped,        \* the locker's stop channel is closed
    deposed         \* history: holds that were taken over after they had expired

locker == <<cur, lease, lost, loops, stopped, deposed>>

LockerTypeOK ==
    /\ cur \in Hold \cup {NoHold}
    /\ lease \in 0..TTL
    /\ lost \in SUBSET Hold /\ loops \in SUBSET Hold
    /\ stopped \in BOOLEAN
    /\ deposed \in SUBSET Hold

LockerInit ==
    /\ cur = NoHold /\ lease = 0
    /\ lost = {} /\ loops = {} /\ deposed = {}
    /\ stopped = FALSE

Held == cur # NoHold /\ lease > 0

\* The hold that TryAcquire drops, if the key has an expired one.
Expired == {cur} \ {NoHold}

\* Mutant: the holder of an expired lease is not told.
TryAcquireQuietly(h) ==
    /\ ~Held
    /\ lost' = lost \ {h}
    /\ deposed' = (deposed \ {h}) \cup Expired
    /\ cur' = h /\ lease' = TTL
    /\ loops' = IF Renewing THEN loops \cup {h} ELSE loops
    /\ UNCHANGED stopped

\* TryAcquire gives a free or expired key to a new hold h; the generation it
\* supersedes ends and its holder is told.
TryAcquire(h) ==
    /\ ~Held
    /\ lost' = (lost \ {h}) \cup Expired
    /\ deposed' = (deposed \ {h}) \cup Expired
    /\ cur' = h /\ lease' = TTL
    /\ loops' = IF Renewing THEN loops \cup {h} ELSE loops
    /\ UNCHANGED stopped

\* Mutant: the key is not given back.
UnlockLost(h) ==
    /\ lost' = lost \cup {h}
    /\ UNCHANGED <<cur, lease, loops, stopped, deposed>>

\* Unlock of the handle of h: nothing but the signal when the key is free or
\* has been taken over.
Unlock(h) ==
    /\ IF cur = h
       THEN cur' = NoHold /\ lease' = 0
       ELSE UNCHANGED <<cur, lease>>
    /\ lost' = lost \cup {h}
    /\ UNCHANGED <<loops, stopped, deposed>>

\* A tick of the renew loop of h: it extends the lease, expired or not, and
\* stops when the hold is not the current one.
RenewTick(h) ==
    /\ h \in loops
    /\ IF cur = h THEN lease' = TTL /\ UNCHANGED loops
                  ELSE loops' = loops \ {h} /\ UNCHANGED lease
    /\ UNCHANGED <<cur, lost, stopped, deposed>>

\* The renew loop of h sees one of the channels that end it: its own renew
\* channel, which is closed with the end of the hold, or the locker's.
LoopEnds(h) ==
    /\ h \in loops /\ (h # cur \/ stopped)
    /\ loops' = loops \ {h}
    /\ UNCHANGED <<cur, lease, lost, stopped, deposed>>

\* Close ends the renew loops; what is held stays held.
Close ==
    /\ ~stopped
    /\ stopped' = TRUE
    /\ UNCHANGED <<cur, lease, lost, loops, deposed>>

\* Time passes.
Tick ==
    /\ lease > 0
    /\ lease' = lease - 1
    /\ UNCHANGED <<cur, lost, loops, stopped, deposed>>
=============================================================================
