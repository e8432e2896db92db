------------------------------- MODULE Outbox -------------------------------
(***************************************************************************)
(* The transactional outbox (cloud/experimental/outbox/relay.go) over its  *)
(* two stores: the one in memory (memstore.go), which leases the records   *)
(* it hands out, and the durable one                                       *)
(* (starter/experimental/starter-outbox-gorm/store.go), which does not.    *)
(*                                                                         *)
(* A business transaction leaves a pending record.  Relays fetch batches   *)
(* of records that are due, publish each and mark it sent; a failure is    *)
(* counted and retried later until the attempts are used up, and then the  *)
(* record is copied to the dead-letter destination and marked dead.  Every *)
(* call of the store and of the broker may fail, the broker's also after   *)
(* it has taken the message; a relay may stop between two records, and one *)
(* on the durable store may crash anywhere.                                *)
(*                                                                         *)
(* The row locks that the durable store asks for end with its SELECT,      *)
(* which runs in no transaction, so they hide nothing from a later Fetch.  *)
(* Contents, observers and the publishers' cache are left out, and so is a *)
(* Fetch that fails, after which the relay polls again.                    *)
(***************************************************************************)
EXTENDS Naturals, FiniteSets

CONSTANTS
    Relay,
    Record,         \* the IDs of the records
    BatchSize,
    MaxAttempts,
    DeadLetters,    \* DLQSuffix is not empty
    MaxFaults,      \* bound on calls that fail
    MaxStops        \* bound on relays that stop or crash

ASSUME OutboxAssumption ==
    /\ Record \subseteq Nat
    /\ BatchSize \in Nat \ {0}
    /\ MaxAttempts \in Nat \ {0}
    /\ DeadLetters \in BOOLEAN
    /\ MaxFaults \in Nat /\ MaxStops \in Nat

VARIABLES
    durable,        \* which of the two stores it is; never changes
    status,         \* of each row
    attempts,
    due,            \* rows whose next retry is not in the future
    leased,         \* rows that are hidden by a lease
    pc,             \* where each relay is
    hand,           \* the records of its batch that it has not finished
    known,          \* the attempts these had when they were fetched
    copies,         \* how often a record has reached its destination; 2 is more than once
    letters,        \* records with a copy at the dead-letter destination
    excused,        \* history: records with a reason to be delivered again
    faults,
    stops

rows == <<status, attempts, due, leased>>
vars == <<durable, rows, pc, hand, known, copies, letters, excused, faults, stops>>

TypeOK ==
    /\ durable \in BOOLEAN
    /\ status \in [Record -> {"none", "pending", "sent", "dead"}]
    /\ attempts \in [Record -> 0..MaxFaults]
    /\ due \in SUBSET Record /\ leased \in SUBSET Record
    /\ pc \in [Relay -> {"polling", "publish", "sent", "failed", "letter", "refail", "dead",
                         "stopped"}]
    /\ hand \in [Relay -> SUBSET Record]
    /\ known \in [Relay -> [Record -> 0..MaxFaults]]
    /\ copies \in [Record -> 0..2]
    /\ letters \in SUBSET Record /\ excused \in SUBSET Record
    /\ faults \in 0..MaxFaults /\ stops \in 0..MaxStops

Init ==
    /\ durable \in BOOLEAN
    /\ status = [r \in Record |-> "none"]
    /\ attempts = [r \in Record |-> 0]
    /\ due = {} /\ leased = {}
    /\ pc = [p \in Relay |-> "polling"]
    /\ hand = [p \in Relay |-> {}]
    /\ known = [p \in Relay |-> [r \in Record |-> 0]]
    /\ copies = [r \in Record |-> 0]
    /\ letters = {} /\ excused = {}
    /\ faults = 0 /\ stops = 0

Fault == faults < MaxFaults /\ faults' = faults + 1

Goto(p, l) == pc' = [pc EXCEPT ![p] = l]

\* The record in flight: batches are delivered in the order of the IDs.
First(ids) == CHOOSE r \in ids : \A q \in ids : r <= q

Current(p) == First(hand[p])

\* deliver returns and runBatch takes the next record.
Advance(p) ==
    /\ hand' = [hand EXCEPT ![p] = @ \ {Current(p)}]
    /\ known' = [known EXCEPT ![p][Current(p)] = 0]
    /\ Goto(p, IF hand[p] = {Current(p)} THEN "polling" ELSE "publish")

Stay(p, l) == Goto(p, l) /\ UNCHANGED <<hand, known>>

Deliver(r) == copies' = [copies EXCEPT ![r] = IF @ < 2 THEN @ + 1 ELSE 2]

-----------------------------------------------------------------------------
(* The store. *)

\* A business transaction commits with a record.
Add(r) ==
    /\ status[r] = "none"
    /\ status' = [status EXCEPT ![r] = "pending"]
    /\ due' = due \cup {r}
    /\ UNCHANGED <<durable, attempts, leased, pc, hand, known, copies, letters, excused, faults, stops>>

\* The records that Fetch would return were there no limit.
Ready == {r \in Record : status[r] = "pending" /\ r \in due /\ r \notin leased}

\* markSent etc. find the row pending; if they do not, the store in memory says
\* so and the durable one (but for MarkDead) updates no row and is content.
Pending(r) == status[r] = "pending"

\* Mutant: the state of the row is not looked at.
MarkedFailedAnyway(r) ==
    /\ attempts' = [attempts EXCEPT ![r] = IF @ < MaxFaults THEN @ + 1 ELSE @]
    /\ due' = due \ {r}
    /\ leased' = leased \ {r}
    /\ status' = [status EXCEPT ![r] = "pending"]

MarkedFailed(r) ==
    IF Pending(r)
    THEN /\ attempts' = [attempts EXCEPT ![r] = @ + 1]
         /\ due' = due \ {r}
         /\ leased' = leased \ {r}
         /\ UNCHANGED status
    ELSE UNCHANGED rows

\* A store call is content: it does what it should, or has nothing to do and
\* does not say so.
Content(r) == Pending(r) \/ durable

-----------------------------------------------------------------------------
(* The relay. *)

\* Fetch takes the first records that are ready, and leases them if the store is
\* the one in memory.  That somebody else has a record in hand is a reason to
\* deliver it twice.
Fetch(p) ==
    LET taken == {r \in Ready : Cardinality({q \in Ready : q < r}) < BatchSize} IN
    /\ pc[p] = "polling" /\ Ready # {}
    /\ hand' = [hand EXCEPT ![p] = taken]
    /\ known' = [known EXCEPT ![p] = [r \in Record |-> IF r \in taken THEN attempts[r] ELSE 0]]
    /\ leased' = IF durable THEN leased ELSE leased \cup taken
    /\ excused' = excused \cup (taken \cap UNION {hand[q] : q \in Relay})
    /\ Goto(p, "publish")
    /\ UNCHANGED <<durable, status, attempts, due, copies, letters, faults, stops>>

\* publish: the broker takes the message, or it says that it has not, which
\* need not be true.
Publish(p) ==
    LET r == Current(p) IN
    /\ pc[p] = "publish"
    /\ \/ Deliver(r) /\ Stay(p, "sent") /\ UNCHANGED <<excused, faults>>
       \/ Fault /\ Stay(p, "failed") /\ UNCHANGED <<copies, excused>>
       \/ Fault /\ Stay(p, "failed") /\ Deliver(r) /\ excused' = excused \cup {r}
    /\ UNCHANGED <<durable, rows, letters, stops>>

\* Mutant: a published record is left to the next run without an error.
MarkSentSkipped(p) ==
    /\ pc[p] = "sent"
    /\ Advance(p)
    /\ UNCHANGED <<durable, rows, copies, letters, excused, faults, stops>>

\* A record that cannot be marked sent has failed, although it was published.
MarkSent(p) ==
    LET r == Current(p) IN
    /\ pc[p] = "sent"
    /\ \/ /\ Content(r)
          /\ status' = [status EXCEPT ![r] = IF Pending(r) THEN "sent" ELSE @]
          /\ Advance(p)
          /\ UNCHANGED <<excused, faults>>
       \/ ~Content(r) /\ Stay(p, "failed") /\ UNCHANGED <<status, excused, faults>>
       \/ Fault /\ Stay(p, "failed") /\ excused' = excused \cup {r} /\ UNCHANGED status
    /\ UNCHANGED <<durable, attempts, due, leased, copies, letters, stops>>

\* fail: the attempt is counted, as an attempt after those the record had when
\* it was fetched, and retried later; when that was the last one, or it cannot
\* be counted, the record is to be given up.
Fail(p) ==
    LET r == Current(p)
        last == known[p][r] + 1 >= MaxAttempts
    IN
    /\ pc[p] = "failed"
    /\ \/ ~last /\ Content(r) /\ MarkedFailed(r) /\ Advance(p) /\ UNCHANGED faults
       \/ ~last /\ ~Content(r) /\ Stay(p, "letter") /\ UNCHANGED <<rows, faults>>
       \/ ~last /\ Fault /\ Stay(p, "letter") /\ UNCHANGED rows
       \/ last /\ Stay(p, "letter") /\ UNCHANGED <<rows, faults>>
    /\ UNCHANGED <<durable, copies, letters, excused, stops>>

\* Mutant: the record is given up whether or not its copy was taken.
DeadLetterUnseen(p) ==
    LET r == Current(p) IN
    /\ pc[p] = "letter"
    /\ \/ /\ letters' = (IF DeadLetters THEN letters \cup {r} ELSE letters)
          /\ UNCHANGED faults
       \/ DeadLetters /\ Fault /\ UNCHANGED letters
    /\ Stay(p, "dead")
    /\ UNCHANGED <<durable, rows, copies, excused, stops>>

\* publishDLQ, unless there is no dead-letter destination.
DeadLetter(p) ==
    LET r == Current(p) IN
    /\ pc[p] = "letter"
    /\ \/ /\ letters' = (IF DeadLetters THEN letters \cup {r} ELSE letters)
          /\ Stay(p, "dead")
          /\ UNCHANGED faults
       \/ DeadLetters /\ Fault /\ Stay(p, "refail") /\ UNCHANGED letters
    /\ UNCHANGED <<durable, rows, copies, excused, stops>>

\* The copy was not taken: the record stays pending and is retried later, or at
\* once when that cannot be said either.
Refail(p) ==
    /\ pc[p] = "refail"
    /\ \/ MarkedFailed(Current(p)) /\ UNCHANGED faults
       \/ Fault /\ UNCHANGED rows
    /\ Advance(p)
    /\ UNCHANGED <<durable, copies, letters, excused, stops>>

MarkDead(p) ==
    LET r == Current(p) IN
    /\ pc[p] = "dead"
    /\ \/ /\ status' = [status EXCEPT ![r] = IF Pending(r) THEN "dead" ELSE @]
          /\ leased' = IF Pending(r) THEN leased \ {r} ELSE leased
          /\ UNCHANGED faults
       \/ Fault /\ UNCHANGED <<status, leased>>
    /\ Advance(p)
    /\ UNCHANGED <<durable, attempts, due, copies, letters, excused, stops>>

-----------------------------------------------------------------------------
(* Time, shutdown and crashes. *)

BackoffEnds(r) ==
    /\ status[r] = "pending" /\ r \notin due
    /\ due' = due \cup {r}
    /\ UNCHANGED <<durable, status, attempts, leased, pc, hand, known, copies, letters, excused,
                   faults, stops>>

\* Mutant: a lease has no end.
LeaseStands(r) == FALSE /\ r \in leased /\ UNCHANGED vars

\* The store in memory does not ask whether the holder is still at work.
LeaseExpires(r) ==
    /\ r \in leased /\ status[r] = "pending"
    /\ leased' = leased \ {r}
    /\ UNCHANGED <<durable, status, attempts, due, pc, hand, known, copies, letters, excused,
                   faults, stops>>

Drop(p) ==
    /\ hand' = [hand EXCEPT ![p] = {}]
    /\ known' = [known EXCEPT ![p] = [r \in Record |-> 0]]
    /\ Goto(p, "stopped")

\* Run sees that its context is done, before a record or between two polls.
Stop(p) ==
    /\ pc[p] \in {"polling", "publish"} /\ stops < MaxStops
    /\ stops' = stops + 1
    /\ Drop(p)
    /\ UNCHANGED <<durable, rows, copies, letters, excused, faults>>

\* A crash anywhere; the message in flight may have been taken.
Crash(p) ==
    /\ durable /\ stops < MaxStops
    /\ pc[p] \notin {"polling", "stopped"}
    /\ stops' = stops + 1
    /\ \/ UNCHANGED <<copies, letters>>
       \/ pc[p] = "publish" /\ Deliver(Current(p)) /\ UNCHANGED letters
       \/ /\ pc[p] = "letter" /\ DeadLetters
          /\ letters' = letters \cup {Current(p)} /\ UNCHANGED copies
    /\ excused' = excused \cup {Current(p)}
    /\ Drop(p)
    /\ UNCHANGED <<durable, rows, faults>>

Start(p) ==
    /\ pc[p] = "stopped"
    /\ Stay(p, "polling")
    /\ UNCHANGED <<durable, rows, copies, letters, excused, faults, stops>>

-----------------------------------------------------------------------------
\* What a relay does by itself.
Proceed(p) ==
    \/ Fetch(p) \/ Publish(p) \/ MarkSent(p) \/ Fail(p) \/ DeadLetter(p) \/ Refail(p)
    \/ MarkDead(p) \/ Start(p)

TimePasses(r) == BackoffEnds(r) \/ LeaseExpires(r)

\* Nothing is left to deliver.
Drained ==
    /\ \A r \in Record : status[r] \in {"sent", "dead"}
    /\ \A p \in Relay : pc[p] = "polling"
    /\ UNCHANGED vars

Next ==
    \/ \E r \in Record : Add(r) \/ TimePasses(r)
    \/ \E p \in Relay : Proceed(p) \/ Stop(p) \/ Crash(p)
    \/ Drained

\* Relays are scheduled and restarted, and time passes.
Spec == Init /\ [][Next]_vars
             /\ (\A p \in Relay : WF_vars(Proceed(p)))
             /\ (\A r \in Record : WF_vars(TimePasses(r)))

-----------------------------------------------------------------------------
(* Properties. *)

\* A record is only marked sent when the broker has taken it, and only given up
\* when its copy is at the dead-letter destination, if there is one: no store
\* or broker error, crash, stop, or second relay on the same record loses a
\* message.
NothingIsLost ==
    \A r \in Record :
        /\ status[r] = "sent" => copies[r] > 0
        /\ status[r] = "dead" => r \in letters \/ ~DeadLetters

\* A message reaches its destination twice only for a reason: an error of the
\* broker or of MarkSent after it was taken, a crash, or two relays that had it
\* in hand at once.
DuplicatesHaveAReason == \A r \in Record : copies[r] > 1 => r \in excused

\* What is sent or dead stays so, with another relay still at work on the same
\* record too.
OutcomeStands ==
    [][\A r \in Record : status[r] \in {"sent", "dead"} => status'[r] = status[r]]_vars

\* Every record is delivered or given up after a while: one that fails does not
\* keep the others waiting, and neither do stops, crashes and leases.
EverythingSettles ==
    \A r \in Record : (status[r] = "pending") ~> (status[r] \in {"sent", "dead"})

\* The contract of Store.Fetch (outbox.go:82-85, store.go:54-57): two relays
\* never have the same pending record.
RecordsAreNotShared ==
    \A p, q \in Relay : p # q /\ hand[p] \cap hand[q] # {} => ~durable
=============================================================================
