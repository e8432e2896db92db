---------------------------- MODULE ReplicaProofs ---------------------------
(***************************************************************************)
(* Proofs about what the replicas of an application do on storage they     *)
(* share: the relays of an outbox, and the candidates of an election.      *)
(*                                                                         *)
(* The outbox, with any number of relays, records, faults and stops: no    *)
(* message is lost, an outcome stands, and a message is delivered twice    *)
(* only when there is a reason.  The election, of any number of            *)
(* candidates: a leader who has lost the key has been told, and the key    *)
(* changes hands under running work only when its lease had expired.       *)
(***************************************************************************)
EXTENDS Outbox, Election, FiniteSetTheorems, WellFoundedInduction, TLAPS

Busy == {"publish", "sent", "failed", "letter", "refail", "dead"}

\* What the arguments need of the types; a relay has records in hand exactly
\* when it is at work on one.
Core ==
    /\ status \in [Record -> {"none", "pending", "sent", "dead"}]
    /\ copies \in [Record -> 0..2]
    /\ letters \in SUBSET Record
    /\ pc \in [Relay -> Busy \cup {"polling", "stopped"}]
    /\ hand \in [Relay -> SUBSET Record]
    /\ \A p \in Relay : hand[p] # {} <=> pc[p] \in Busy

-----------------------------------------------------------------------------
\* A set of IDs that is not empty has a first one.
LEMMA FirstIsLeast ==
    ASSUME NEW ids \in SUBSET Record, ids # {}
    PROVE  First(ids) \in ids /\ \A q \in ids : First(ids) <= q
<1>1. \E x \in ids : \A y \in ids : ~ <<y, x>> \in OpToRel(<, Nat)
  BY NatLessThanWellFounded, WFMin, OutboxAssumption
<1>2. \E x \in ids : \A y \in ids : x <= y
  <2>1. PICK x \in ids : \A y \in ids : ~ <<y, x>> \in OpToRel(<, Nat)
    BY <1>1
  <2>2. ASSUME NEW y \in ids PROVE x <= y
    <3>1. ~(y < x)
      BY <2>1, OutboxAssumption DEF OpToRel
    <3> QED
      BY <3>1, OutboxAssumption
  <2> QED
    BY <2>2
<1> QED
  BY <1>2 DEF First

\* The record in flight is one that the relay has in hand.
LEMMA CurrentInHand ==
    ASSUME Core, NEW p \in Relay, pc[p] \in Busy
    PROVE  Current(p) \in hand[p] /\ Current(p) \in Record
  BY FirstIsLeast DEF Core, Current

\* A Fetch of a store with records that are ready takes at least one.
LEMMA FetchTakes ==
    ASSUME Ready # {}
    PROVE  {r \in Ready : Cardinality({q \in Ready : q < r}) < BatchSize} # {}
<1>1. PICK f \in Ready : \A q \in Ready : f <= q
  BY FirstIsLeast DEF Ready
<1>2. {q \in Ready : q < f} = {}
  <2>1. \A q \in Ready : q \in Nat
    BY OutboxAssumption DEF Ready
  <2>2. \A q \in Ready : ~(q < f)
    BY <1>1, <2>1
  <2> QED
    BY <2>2
<1>3. Cardinality({q \in Ready : q < f}) < BatchSize
  BY <1>2, FS_EmptySet, OutboxAssumption
<1> QED
  BY <1>1, <1>3

-----------------------------------------------------------------------------
\* Where the relays are and what they have in hand, and whether this agrees.
Places ==
    /\ pc \in [Relay -> Busy \cup {"polling", "stopped"}]
    /\ hand \in [Relay -> SUBSET Record]
    /\ \A p \in Relay : hand[p] # {} <=> pc[p] \in Busy

LEMMA StayPlaces ==
    ASSUME Core, NEW p \in Relay, pc[p] \in Busy, NEW l \in Busy, Stay(p, l)
    PROVE  Places'
  BY DEF Core, Places, Stay, Goto

LEMMA AdvancePlaces ==
    ASSUME Core, NEW p \in Relay, pc[p] \in Busy, Advance(p)
    PROVE  Places'
<1>1. Current(p) \in hand[p]
  BY CurrentInHand
<1>2. hand' \in [Relay -> SUBSET Record]
  BY DEF Core, Advance
<1>3. pc' \in [Relay -> Busy \cup {"polling", "stopped"}]
  BY DEF Core, Advance, Goto, Busy
<1>4. hand'[p] # {} <=> pc'[p] \in Busy
  BY <1>1 DEF Core, Advance, Goto, Busy
<1>5. \A q \in Relay : q # p => hand'[q] = hand[q] /\ pc'[q] = pc[q]
  BY DEF Core, Advance, Goto
<1> QED
  BY <1>2, <1>3, <1>4, <1>5 DEF Core, Places

LEMMA StepCore == Core /\ [Next]_vars => Core'
<1> SUFFICES ASSUME Core, [Next]_vars PROVE Core'
  OBVIOUS
<1>0. \A p \in Relay : pc[p] \in Busy => Current(p) \in Record
  BY CurrentInHand
<1> USE DEF rows
<1>1. ASSUME NEW r \in Record, Add(r) PROVE Core'
  BY <1>1 DEF Add, Core
<1>2. ASSUME NEW r \in Record, TimePasses(r) PROVE Core'
  BY <1>2 DEF TimePasses, BackoffEnds, LeaseExpires, Core
<1>3. ASSUME NEW p \in Relay, Fetch(p) PROVE Core'
  <2> DEFINE taken == {r \in Ready : Cardinality({q \in Ready : q < r}) < BatchSize}
  <2>1. taken # {} /\ taken \in SUBSET Record
    BY <1>3, FetchTakes DEF Fetch, Ready
  <2>2. hand' = [hand EXCEPT ![p] = taken] /\ Goto(p, "publish")
    BY <1>3 DEF Fetch
  <2>3. UNCHANGED <<status, copies, letters>>
    BY <1>3 DEF Fetch
  <2> HIDE DEF taken
  <2> QED
    BY <2>1, <2>2, <2>3 DEF Core, Goto, Busy
<1>4. ASSUME NEW p \in Relay, Publish(p) PROVE Core'
  <2>1. Places'
    BY <1>4, StayPlaces DEF Publish, Busy
  <2>2. copies' \in [Record -> 0..2]
    BY <1>4 DEF Publish, Deliver, Core
  <2> QED
    BY <1>4, <2>1, <2>2 DEF Publish, Core, Places
<1>5. ASSUME NEW p \in Relay, MarkSent(p) PROVE Core'
  <2>1. Places'
    BY <1>5, StayPlaces, AdvancePlaces DEF MarkSent, Busy
  <2>2. status' \in [Record -> {"none", "pending", "sent", "dead"}]
    BY <1>5 DEF MarkSent, Core
  <2> QED
    BY <1>5, <2>1, <2>2 DEF MarkSent, Core, Places
<1>6. ASSUME NEW p \in Relay, Fail(p) PROVE Core'
  <2>1. Places'
    BY <1>6, StayPlaces, AdvancePlaces DEF Fail, Busy
  <2>2. UNCHANGED <<status, copies, letters>>
    BY <1>6 DEF Fail, MarkedFailed
  <2> QED
    BY <2>1, <2>2 DEF Core, Places
<1>7. ASSUME NEW p \in Relay, DeadLetter(p) PROVE Core'
  <2>1. Places'
    BY <1>7, StayPlaces DEF DeadLetter, Busy
  <2>2. letters' \in SUBSET Record
    BY <1>0, <1>7 DEF DeadLetter, Core, Busy
  <2> QED
    BY <1>7, <2>1, <2>2 DEF DeadLetter, Core, Places
<1>8. ASSUME NEW p \in Relay, Refail(p) PROVE Core'
  <2>1. Places'
    BY <1>8, AdvancePlaces DEF Refail, Busy
  <2>2. UNCHANGED <<status, copies, letters>>
    BY <1>8 DEF Refail, MarkedFailed
  <2> QED
    BY <2>1, <2>2 DEF Core, Places
<1>9. ASSUME NEW p \in Relay, MarkDead(p) PROVE Core'
  <2>1. Places'
    BY <1>9, AdvancePlaces DEF MarkDead, Busy
  <2>2. status' \in [Record -> {"none", "pending", "sent", "dead"}]
    BY <1>9 DEF MarkDead, Core
  <2> QED
    BY <1>9, <2>1, <2>2 DEF MarkDead, Core, Places
<1>10. ASSUME NEW p \in Relay, Stop(p) \/ Start(p) PROVE Core'
  BY <1>10 DEF Stop, Start, Stay, Drop, Goto, Core, Busy
<1>11. ASSUME NEW p \in Relay, Crash(p) PROVE Core'
  <2>1. Places'
    BY <1>11 DEF Crash, Drop, Goto, Core, Places, Busy
  <2>2. copies' \in [Record -> 0..2]
    BY <1>11 DEF Crash, Deliver, Core
  <2>3. letters' \in SUBSET Record
    BY <1>0, <1>11 DEF Crash, Core, Busy
  <2> QED
    BY <1>11, <2>1, <2>2, <2>3 DEF Crash, Core, Places
<1>12. ASSUME UNCHANGED vars PROVE Core'
  BY <1>12 DEF vars, Core
<1> QED
  BY <1>1, <1>2, <1>3, <1>4, <1>5, <1>6, <1>7, <1>8, <1>9, <1>10, <1>11, <1>12
     DEF Next, Proceed, Drained

-----------------------------------------------------------------------------
Acts(p) == Proceed(p) \/ Stop(p) \/ Crash(p)

\* What a relay does moves nobody else, and a record in flight stays the same
\* as long as the hand does.
LEMMA OnlyOne ==
    ASSUME Core, NEW p \in Relay, Acts(p)
    PROVE  \A q \in Relay \ {p} :
               pc'[q] = pc[q] /\ hand'[q] = hand[q] /\ Current(q)' = Current(q)
<1>1. \A q \in Relay \ {p} : pc'[q] = pc[q] /\ hand'[q] = hand[q]
  <2>1. CASE Proceed(p)
    BY <2>1 DEF Proceed, Fetch, Publish, MarkSent, Fail, DeadLetter, Refail, MarkDead,
                Start, Stay, Advance, Goto, Core
  <2>2. CASE Stop(p) \/ Crash(p)
    BY <2>2 DEF Stop, Crash, Drop, Goto, Core
  <2> QED
    BY <2>1, <2>2 DEF Acts
<1> QED
  BY <1>1 DEF Current

\* Copies and dead letters are never taken back.
LEMMA Grows ==
    ASSUME Core, [Next]_vars
    PROVE  /\ letters \subseteq letters'
           /\ \A r \in Record : copies[r] > 0 => copies'[r] > 0
<1>0. \A r, c \in Record : Deliver(c) => (copies[r] > 0 => copies'[r] > 0)
  BY DEF Deliver, Core
<1>1. ASSUME NEW r \in Record, Add(r) \/ TimePasses(r) PROVE UNCHANGED <<copies, letters>>
  BY <1>1 DEF Add, TimePasses, BackoffEnds, LeaseExpires
<1>2. ASSUME NEW p \in Relay, Acts(p)
      PROVE  /\ UNCHANGED copies \/ (pc[p] = "publish" /\ Deliver(Current(p)))
             /\ UNCHANGED letters \/ letters' = letters \cup {Current(p)}
  <2>1. CASE Proceed(p)
    BY <2>1 DEF Proceed, Fetch, Publish, MarkSent, Fail, DeadLetter, Refail, MarkDead, Start
  <2>2. CASE Stop(p) \/ Crash(p)
    BY <2>2 DEF Stop, Crash
  <2> QED
    BY <1>2, <2>1, <2>2 DEF Acts
<1>3. \A p \in Relay : pc[p] = "publish" => Current(p) \in Record
  BY CurrentInHand DEF Busy
<1> QED
  BY <1>0, <1>1, <1>2, <1>3 DEF Next, Acts, Drained, vars

\* What is needed for NothingIsLost to be kept: before a relay marks a record
\* sent the broker has it, and before it gives one up the copy is there.
Kept ==
    /\ NothingIsLost
    /\ \A p \in Relay : pc[p] = "sent" => copies[Current(p)] > 0
    /\ \A p \in Relay : pc[p] = "dead" => Current(p) \in letters \/ ~DeadLetters

LEMMA StepKept == Core /\ Kept /\ [Next]_vars => Kept'
<1> SUFFICES ASSUME Core, Kept, [Next]_vars PROVE Kept'
  OBVIOUS
<1>0. /\ letters \subseteq letters'
      /\ \A r \in Record : copies[r] > 0 => copies'[r] > 0
      /\ \A p \in Relay : pc[p] \in Busy => Current(p) \in Record
      /\ Core'
  BY Grows, CurrentInHand, StepCore
<1>1. ASSUME NEW r \in Record, Add(r) \/ TimePasses(r) PROVE Kept'
  <2>1. UNCHANGED <<pc, hand, copies, letters>>
    BY <1>1 DEF Add, TimePasses, BackoffEnds, LeaseExpires
  <2>2. \A x \in Record : status'[x] \in {"sent", "dead"} => status'[x] = status[x]
    BY <1>1 DEF Add, TimePasses, BackoffEnds, LeaseExpires, Core
  <2>3. \A p \in Relay : Current(p)' = Current(p)
    BY <2>1 DEF Current
  <2> QED
    BY <2>1, <2>2, <2>3 DEF Kept, NothingIsLost
<1>2. ASSUME NEW p \in Relay, Acts(p) PROVE Kept'
  <2>0. \A q \in Relay \ {p} : pc'[q] = pc[q] /\ Current(q)' = Current(q)
    BY <1>2, OnlyOne
  <2>1. /\ pc'[p] = "sent" => copies'[Current(p)'] > 0
        /\ pc'[p] = "dead" => Current(p)' \in letters' \/ ~DeadLetters
    <3>1. CASE Publish(p)
      <4>1. pc[p] \in Busy /\ pc'[p] \in {"sent", "failed"} /\ Current(p)' = Current(p)
        BY <3>1 DEF Publish, Stay, Goto, Core, Current, Busy
      <4>2. pc'[p] = "sent" => copies'[Current(p)] > 0
        BY <1>0, <3>1, <4>1 DEF Publish, Deliver, Core, Stay, Goto
      <4> QED
        BY <4>1, <4>2
    <3>2. CASE DeadLetter(p)
      <4>1. pc'[p] \in {"dead", "refail"} /\ Current(p)' = Current(p)
        BY <3>2 DEF DeadLetter, Stay, Goto, Core, Current
      <4>2. pc'[p] = "dead" => Current(p) \in letters' \/ ~DeadLetters
        BY <3>2 DEF DeadLetter, Stay, Goto, Core
      <4> QED
        BY <4>1, <4>2
    <3>3. CASE ~Publish(p) /\ ~DeadLetter(p)
      <4>1. pc'[p] \in {"polling", "publish", "failed", "letter", "stopped"}
        BY <1>2, <3>3 DEF Acts, Proceed, Fetch, MarkSent, Fail, Refail, MarkDead, Start,
                          Stop, Crash, Stay, Advance, Drop, Goto, Core
      <4> QED
        BY <4>1
    <3> QED
      BY <3>1, <3>2, <3>3
  <2>2. NothingIsLost'
    <3>1. \A r \in Record : status'[r] = status[r] \/
              /\ status'[r] = "sent" => copies[r] > 0
              /\ status'[r] = "dead" => r \in letters \/ ~DeadLetters
      <4>1. CASE MarkSent(p)
        BY <4>1 DEF MarkSent, Core, Kept
      <4>2. CASE MarkDead(p)
        BY <4>2 DEF MarkDead, Core, Kept
      <4>3. CASE ~MarkSent(p) /\ ~MarkDead(p)
        BY <1>2, <4>3 DEF Acts, Proceed, Fetch, Publish, Fail, DeadLetter, Refail, Start,
                          Stop, Crash, MarkedFailed, rows
      <4> QED
        BY <4>1, <4>2, <4>3
    <3> QED
      BY <1>0, <3>1 DEF NothingIsLost, Kept
  <2> QED
    BY <1>0, <2>0, <2>1, <2>2 DEF Kept, Busy
<1>3. ASSUME UNCHANGED vars PROVE Kept'
  BY <1>3 DEF vars, rows, Kept, NothingIsLost, Current
<1> QED
  BY <1>1, <1>2, <1>3 DEF Next, Acts, Drained

-----------------------------------------------------------------------------
\* A record without an excuse is in one hand at most, is pending while it is
\* there, and has reached its destination at most once; after that it is over
\* or the relay that has it is about to mark it sent.
Single == \A p, q \in Relay : p # q => hand[p] \cap hand[q] \subseteq excused

Open == \A p \in Relay : \A r \in hand[p] \ excused : status[r] = "pending"

Through(r) ==
    status[r] \in {"sent", "dead"} \/ \E p \in Relay : pc[p] = "sent" /\ Current(p) = r

Once == \A r \in Record \ excused : copies[r] > 0 => copies[r] = 1 /\ Through(r)

Sole == Single /\ Open /\ Once

\* Publish delivers a record without an excuse for the first time.
LEMMA FirstDelivery ==
    ASSUME Core, Sole, NEW p \in Relay, pc[p] = "publish", Current(p) \notin excused
    PROVE  copies[Current(p)] = 0
<1>1. Current(p) \in hand[p] /\ Current(p) \in Record
  BY CurrentInHand DEF Busy
<1>2. status[Current(p)] = "pending"
  BY <1>1 DEF Sole, Open
<1>3. ASSUME NEW w \in Relay, pc[w] = "sent", Current(w) = Current(p) PROVE FALSE
  <2>1. w # p /\ Current(p) \in hand[w]
    BY <1>3, CurrentInHand DEF Busy
  <2> QED
    BY <1>1, <2>1 DEF Sole, Single
<1>4. ~ Through(Current(p))
  BY <1>2, <1>3 DEF Through
<1>5. ~(copies[Current(p)] > 0)
  BY <1>1, <1>4 DEF Sole, Once
<1> QED
  BY <1>1, <1>5 DEF Core

LEMMA StepSole == Core /\ Sole /\ [Next]_vars => Sole'
<1> SUFFICES ASSUME Core, Sole, [Next]_vars PROVE Sole'
  OBVIOUS
<1>1. ASSUME NEW r \in Record, Add(r) \/ TimePasses(r) PROVE Sole'
  <2>1. UNCHANGED <<pc, hand, copies, excused>>
    BY <1>1 DEF Add, TimePasses, BackoffEnds, LeaseExpires
  <2>2. \A x \in Record : status'[x] = status[x] \/ (status[x] = "none" /\ status'[x] = "pending")
    BY <1>1 DEF Add, TimePasses, BackoffEnds, LeaseExpires, Core
  <2>3. \A p \in Relay : Current(p)' = Current(p)
    BY <2>1 DEF Current
  <2>4. Open'
    BY <2>1, <2>2 DEF Sole, Open, Core
  <2>5. Once'
    BY <2>1, <2>2, <2>3 DEF Sole, Once, Through
  <2> QED
    BY <2>1, <2>4, <2>5 DEF Sole, Single
<1>2. ASSUME NEW p \in Relay, Acts(p) PROVE Sole'
  <2>0. \A q \in Relay \ {p} : pc'[q] = pc[q] /\ hand'[q] = hand[q] /\ Current(q)' = Current(q)
    BY <1>2, OnlyOne
  <2>1. pc[p] \in Busy => Current(p) \in hand[p] /\ Current(p) \in Record
    BY CurrentInHand
  <2>2. excused \subseteq excused'
    BY <1>2 DEF Acts, Proceed, Fetch, Publish, MarkSent, Fail, DeadLetter, Refail, MarkDead,
                Start, Stop, Crash
  <2>3. CASE Fetch(p)
    <3> DEFINE taken == {r \in Ready : Cardinality({q \in Ready : q < r}) < BatchSize}
    <3>1. \A r \in taken : status[r] = "pending"
      BY DEF Ready
    <3>2. /\ hand'[p] = taken /\ pc[p] = "polling" /\ UNCHANGED <<status, copies>>
          /\ excused' = excused \cup (taken \cap UNION {hand[q] : q \in Relay})
      BY <2>3 DEF Fetch, Core
    <3> HIDE DEF taken
    <3>3. Single'
      BY <2>0, <3>2 DEF Sole, Single
    <3>4. Open'
      BY <2>0, <3>1, <3>2 DEF Sole, Open
    <3>5. \A w \in Relay : pc[w] = "sent" => pc'[w] = "sent" /\ Current(w)' = Current(w)
      BY <2>0, <3>2
    <3>6. Once'
      BY <3>2, <3>5 DEF Sole, Once, Through
    <3> QED
      BY <3>3, <3>4, <3>6 DEF Sole
  <2>4. CASE ~Fetch(p)
    <3>1. hand'[p] \subseteq hand[p]
      BY <1>2, <2>4 DEF Acts, Proceed, Publish, MarkSent, Fail, DeadLetter, Refail, MarkDead,
                        Start, Stop, Crash, Stay, Advance, Drop, Goto, Core
    <3>2. Single'
      BY <2>0, <2>2, <3>1 DEF Sole, Single
    <3>3. \A r \in Record : status'[r] = status[r] \/
             /\ r = Current(p) /\ status[r] = "pending"
             /\ r \notin hand'[p] /\ status'[r] \in {"sent", "dead"}
      <4>1. CASE MarkSent(p) \/ MarkDead(p)
        BY <2>1, <4>1 DEF MarkSent, MarkDead, Advance, Pending, Core, Busy
      <4>2. CASE ~MarkSent(p) /\ ~MarkDead(p)
        BY <1>2, <2>4, <4>2 DEF Acts, Proceed, Publish, Fail, DeadLetter, Refail, Start,
                          Stop, Crash, MarkedFailed, rows
      <4> QED
        BY <4>1, <4>2
    <3>4. \A q \in Relay \ {p} : \A r \in hand[q] \ excused : r # Current(p) \/ pc[p] \notin Busy
      BY <2>1 DEF Sole, Single
    <3>5. \A r \in Record : status'[r] # status[r] => pc[p] \in Busy
      BY <1>2, <2>4 DEF Acts, Proceed, Publish, MarkSent, Fail, DeadLetter, Refail, MarkDead,
                        Start, Stop, Crash, MarkedFailed, rows, Busy
    <3>6. Open'
      BY <2>0, <2>2, <3>1, <3>3, <3>4, <3>5 DEF Sole, Open, Core
    <3>7. ASSUME NEW r \in Record, r \notin excused', copies'[r] > 0, r # Current(p)
          PROVE  copies'[r] = 1 /\ Through(r)'
      <4>1. copies'[r] = copies[r]
        BY <1>2, <3>7, <2>4 DEF Acts, Proceed, Publish, MarkSent, Fail, DeadLetter, Refail,
             MarkDead, Start, Stop, Crash, Deliver, Core
      <4>2. copies[r] = 1 /\ Through(r)
        BY <2>2, <3>7, <4>1 DEF Sole, Once
      <4>3. status'[r] = status[r]
        BY <3>3, <3>7
      <4> QED
        BY <2>0, <3>7, <4>1, <4>2, <4>3 DEF Through
    <3>8. ASSUME NEW r \in Record, r \notin excused', copies'[r] > 0, r = Current(p)
          PROVE  copies'[r] = 1 /\ Through(r)'
      <4>1. CASE Publish(p)
        <5>1. copies[r] = 0
          BY <2>2, <3>8, <4>1, FirstDelivery DEF Publish
        <5>2. Deliver(r) /\ Stay(p, "sent")
          BY <3>8, <4>1, <5>1 DEF Publish
        <5>3. copies'[r] = 1
          BY <3>8, <5>1, <5>2 DEF Deliver, Core
        <5>4. pc'[p] = "sent" /\ UNCHANGED hand
          BY <5>2 DEF Stay, Goto, Core
        <5>5. Current(p)' = r
          BY <3>8, <5>4 DEF Current
        <5> QED
          BY <5>3, <5>4, <5>5 DEF Through
      <4>2. CASE MarkSent(p)
        <5>1. status[r] = "pending"
          BY <2>1, <2>2, <3>8, <4>2 DEF MarkSent, Sole, Open, Busy
        <5>2. status'[r] = "sent" /\ UNCHANGED copies
          BY <3>8, <4>2, <5>1 DEF MarkSent, Content, Pending, Core
        <5>3. copies[r] = 1
          BY <2>2, <3>8, <5>2 DEF Sole, Once
        <5> QED
          BY <5>2, <5>3 DEF Through
      <4>3. CASE ~Publish(p) /\ ~MarkSent(p)
        <5>1. UNCHANGED copies /\ pc[p] # "sent"
          BY <1>2, <2>4, <3>8, <4>3 DEF Acts, Proceed, Fail, DeadLetter, Refail, MarkDead,
               Start, Stop, Crash
        <5>2. copies[r] = 1 /\ Through(r)
          BY <2>2, <3>8, <5>1 DEF Sole, Once
        <5>3. status[r] \in {"sent", "dead"} => status'[r] = status[r]
          BY <3>3, <3>8
        <5> QED
          BY <2>0, <5>1, <5>2, <5>3 DEF Through
      <4> QED
        BY <4>1, <4>2, <4>3
    <3>9. Once'
      BY <3>7, <3>8 DEF Once
    <3> QED
      BY <3>2, <3>6, <3>9 DEF Sole
  <2> QED
    BY <2>3, <2>4
<1>3. ASSUME UNCHANGED vars PROVE Sole'
  BY <1>3 DEF vars, rows, Sole, Single, Open, Once, Through, Current
<1> QED
  BY <1>1, <1>2, <1>3 DEF Next, Acts, Drained

-----------------------------------------------------------------------------
LEMMA InitAll == Init => Core /\ Kept /\ Sole
<1> SUFFICES ASSUME Init PROVE Core /\ Kept /\ Sole
  OBVIOUS
<1>1. Core
  BY DEF Init, Core, Busy
<1>2. Kept
  BY DEF Init, Kept, NothingIsLost
<1>3. Sole
  BY DEF Init, Sole, Single, Open, Once
<1> QED
  BY <1>1, <1>2, <1>3

\* What holds in every state, for any stores, relays, records, faults and stops.
THEOREM Invariants == Spec => [](Core /\ Kept /\ Sole)
  BY InitAll, StepCore, StepKept, StepSole, PTL DEF Spec

\* No message is lost: a row is marked sent only after the broker took the
\* message, and dead only after its copy was taken (relay.go deliver and fail).
THEOREM NoLoss == Spec => []NothingIsLost
<1>1. Kept => NothingIsLost
  BY DEF Kept
<1> QED
  BY <1>1, Invariants, PTL

\* A message that reaches its destination twice has a reason for it: an error
\* after it was taken, a crash, or two relays with the record in hand at once
\* (memstore.go's lease ran out, or store.go's Fetch held no lock any more).
THEOREM DuplicatesExplained == Spec => []DuplicatesHaveAReason
<1>1. Core /\ Sole => DuplicatesHaveAReason
  BY DEF Core, Sole, Once, DuplicatesHaveAReason
<1> QED
  BY <1>1, Invariants, PTL

\* An outcome stands: no call of a relay that still has the record in hand
\* changes a row that is sent or dead (the stores look for a pending one).
THEOREM OutcomesStand == Spec => OutcomeStands
<1> DEFINE Stand == \A r \in Record : status[r] \in {"sent", "dead"} => status'[r] = status[r]
<1>1. Core /\ [Next]_vars => [Stand]_vars
  <2> SUFFICES ASSUME Core, [Next]_vars, NEW r \in Record, status[r] \in {"sent", "dead"}
               PROVE  status'[r] = status[r]
    OBVIOUS
  <2>1. ASSUME NEW x \in Record, Add(x) \/ TimePasses(x) PROVE status'[r] = status[r]
    BY <2>1 DEF Add, TimePasses, BackoffEnds, LeaseExpires, Core
  <2>2. ASSUME NEW p \in Relay, MarkSent(p) \/ MarkDead(p) PROVE status'[r] = status[r]
    BY <2>2 DEF MarkSent, MarkDead, Pending, Core
  <2>3. ASSUME NEW p \in Relay, Acts(p), ~MarkSent(p), ~MarkDead(p)
        PROVE  status'[r] = status[r]
    BY <2>3 DEF Acts, Proceed, Fetch, Publish, Fail, DeadLetter, Refail, Start, Stop, Crash,
                MarkedFailed, rows
  <2> QED
    BY <2>1, <2>2, <2>3 DEF Next, Acts, Drained, vars, rows
<1> QED
  BY <1>1, Invariants, PTL DEF Spec, OutcomeStands

-----------------------------------------------------------------------------
(* Types: an attempt that a row counts was paid for by a fault.              *)

\* The relays that may still count a failed attempt of a record.
Owing(r) == {p \in Relay : pc[p] \in {"failed", "refail"} /\ Current(p) = r}

\* Nobody has to do with a record before it is there, and the attempts of one
\* that is pending, those still to be counted among them, were all faults.
Paid ==
    /\ \A r \in Record : IsFiniteSet(Owing(r))
    /\ \A r \in Record :
          status[r] = "none" => attempts[r] = 0 /\ \A p \in Relay : r \notin hand[p]
    /\ \A r \in Record :
          status[r] = "pending" => attempts[r] + Cardinality(Owing(r)) <= faults

\* 1 if a relay may still count an attempt of a record.
Owes(p, r) == IF p \in Owing(r) THEN 1 ELSE 0

LEMMA OwingMoves ==
    ASSUME Core, NEW p \in Relay, Acts(p), NEW r \in Record, IsFiniteSet(Owing(r))
    PROVE  /\ IsFiniteSet(Owing(r)')
           /\ Cardinality(Owing(r))' + Owes(p, r) = Cardinality(Owing(r)) + Owes(p, r)'
<1> DEFINE Others == Owing(r) \ {p}
<1>1. Owing(r)' = IF p \in Owing(r)' THEN Others \cup {p} ELSE Others
  BY OnlyOne DEF Owing
<1>2. /\ IsFiniteSet(Others)
      /\ Cardinality(Owing(r)) = Cardinality(Others) + Owes(p, r)
      /\ Cardinality(Others) \in Nat
  <2>1. IsFiniteSet(Others)
        /\ Cardinality(Others) = IF p \in Owing(r) THEN Cardinality(Owing(r)) - 1
                                 ELSE Cardinality(Owing(r))
    BY FS_RemoveElement
  <2>2. Cardinality(Owing(r)) \in Nat /\ Cardinality(Others) \in Nat
    BY <2>1, FS_CardinalityType
  <2> HIDE DEF Others
  <2> QED
    BY <2>1, <2>2 DEF Owes
<1>3. IsFiniteSet(Others \cup {p}) /\ Cardinality(Others \cup {p}) = Cardinality(Others) + 1
  BY <1>2, FS_AddElement
<1> HIDE DEF Others
<1>4. IsFiniteSet(Owing(r)') /\ Cardinality(Owing(r)') = Cardinality(Others) + Owes(p, r)'
  BY <1>1, <1>2, <1>3 DEF Owes
<1> QED
  BY <1>2, <1>4 DEF Owes

\* A relay counts an attempt that it owes, and owes another only for a fault.
LEMMA FaultsPay ==
    ASSUME TypeOK, Core, NEW p \in Relay, Acts(p), NEW r \in Record, status[r] = "pending"
    PROVE  attempts'[r] + Owes(p, r)' + faults <= attempts[r] + Owes(p, r) + faults'
<1> USE DEF rows
<1>0. attempts[r] \in Nat /\ faults \in Nat
  BY DEF TypeOK
<1>1. CASE Fetch(p) \/ MarkDead(p) \/ Stop(p) \/ Crash(p) \/ Start(p)
  <2>1. attempts'[r] = attempts[r] /\ (faults' = faults \/ faults' = faults + 1)
    BY <1>1 DEF Fetch, MarkDead, Stop, Crash, Start, Fault
  <2>2. pc'[p] \notin {"failed", "refail"}
    BY <1>1 DEF Fetch, MarkDead, Stop, Crash, Start, Stay, Advance, Drop, Goto, Core
  <2> QED
    BY <1>0, <2>1, <2>2 DEF Owes, Owing
<1>2. CASE Publish(p) \/ DeadLetter(p)
  <2>1. attempts'[r] = attempts[r]
    BY <1>2 DEF Publish, DeadLetter
  <2>2. (faults' = faults /\ pc'[p] \notin {"failed", "refail"}) \/ faults' = faults + 1
    BY <1>2 DEF Publish, DeadLetter, Fault, Stay, Goto, Core
  <2> QED
    BY <1>0, <2>1, <2>2 DEF Owes, Owing
<1>3. CASE MarkSent(p)
  <2>1. attempts'[r] = attempts[r]
    BY <1>3 DEF MarkSent
  <2>2. \/ faults' = faults /\ pc'[p] \notin {"failed", "refail"}
        \/ faults' = faults /\ Current(p)' # r
        \/ faults' = faults + 1
    BY <1>3 DEF MarkSent, Content, Pending, Fault, Stay, Advance, Goto, Core, Current
  <2> QED
    BY <1>0, <2>1, <2>2 DEF Owes, Owing
<1>4. CASE Fail(p) \/ Refail(p)
  <2>1. pc'[p] \notin {"failed", "refail"} /\ (faults' = faults \/ faults' = faults + 1)
    BY <1>4 DEF Fail, Refail, Fault, Stay, Advance, Goto, Core
  <2>2. attempts'[r] = attempts[r] \/ (Current(p) = r /\ attempts'[r] = attempts[r] + 1)
    BY <1>4 DEF Fail, Refail, MarkedFailed, TypeOK
  <2>3. pc[p] \in {"failed", "refail"}
    BY <1>4 DEF Fail, Refail
  <2> QED
    BY <1>0, <2>1, <2>2, <2>3 DEF Owes, Owing
<1> QED
  BY <1>1, <1>2, <1>3, <1>4 DEF Acts, Proceed

\* A relay makes no record pending, and takes none in hand that is not there.
LEMMA NothingFromNothing ==
    ASSUME TypeOK, Core, NEW p \in Relay, Acts(p), NEW r \in Record
    PROVE  /\ status'[r] \in {"none", "pending"} => status'[r] = status[r]
           /\ status[r] = "none" =>
                 /\ \A q \in Relay : r \in hand'[q] => r \in hand[q]
                 /\ (\A q \in Relay : r \notin hand[q]) => attempts'[r] = attempts[r]
<1> USE DEF rows
<1>1. CASE Fetch(p) \/ Publish(p) \/ DeadLetter(p) \/ Stop(p) \/ Crash(p) \/ Start(p)
  BY <1>1 DEF Fetch, Publish, DeadLetter, Stop, Crash, Start, Ready, Stay, Drop, Core
<1>2. CASE MarkSent(p) \/ MarkDead(p)
  BY <1>2 DEF MarkSent, MarkDead, Pending, Stay, Advance, Core
<1>3. CASE Fail(p) \/ Refail(p)
  <2>1. status' = status /\ \A q \in Relay : hand'[q] \subseteq hand[q]
    BY <1>3 DEF Fail, Refail, MarkedFailed, Stay, Advance, Core
  <2>2. attempts' = attempts
        \/ (Pending(Current(p)) /\ attempts' = [attempts EXCEPT ![Current(p)] = @ + 1])
    BY <1>3 DEF Fail, Refail, MarkedFailed
  <2>3. status[r] = "none" => attempts'[r] = attempts[r]
    BY <2>2 DEF Pending, TypeOK
  <2> QED
    BY <2>1, <2>3
<1> QED
  BY <1>1, <1>2, <1>3 DEF Acts, Proceed

LEMMA StepPaid == TypeOK /\ Core /\ Paid /\ [Next]_vars => Paid'
<1> SUFFICES ASSUME TypeOK, Core, Paid, [Next]_vars PROVE Paid'
  OBVIOUS
<1>0. /\ faults \in Nat
      /\ \A r \in Record : attempts[r] \in Nat /\ Cardinality(Owing(r)) \in Nat
  BY FS_CardinalityType DEF TypeOK, Paid
<1>1. ASSUME NEW x \in Record, Add(x) PROVE Paid'
  <2>1. \A r \in Record : Owing(r)' = Owing(r)
    BY <1>1 DEF Add, Owing, Current
  <2>2. Owing(x) = {}
    BY <1>1, CurrentInHand DEF Owing, Add, Paid, Busy
  <2>3. UNCHANGED <<attempts, hand, faults>> /\ status[x] = "none"
        /\ \A r \in Record : status'[r] = IF r = x THEN "pending" ELSE status[r]
    BY <1>1 DEF Add, Core
  <2>4. Cardinality(Owing(x)) = 0 /\ attempts[x] = 0
    BY <2>2, <2>3, FS_EmptySet DEF Paid
  <2> QED
    BY <1>0, <2>1, <2>3, <2>4 DEF Paid
<1>2. ASSUME NEW p \in Relay, Acts(p) PROVE Paid'
  <2> SUFFICES ASSUME NEW r \in Record
               PROVE  /\ IsFiniteSet(Owing(r)')
                      /\ status'[r] = "none" =>
                            attempts'[r] = 0 /\ \A q \in Relay : r \notin hand'[q]
                      /\ status'[r] = "pending" =>
                            attempts'[r] + Cardinality(Owing(r))' <= faults'
    BY DEF Paid
  <2>1. IsFiniteSet(Owing(r)')
        /\ Cardinality(Owing(r))' + Owes(p, r) = Cardinality(Owing(r)) + Owes(p, r)'
    BY <1>2, OwingMoves DEF Paid
  <2>2. status'[r] = "none" => attempts'[r] = 0 /\ \A q \in Relay : r \notin hand'[q]
    BY <1>2, NothingFromNothing DEF Paid
  <2>3. ASSUME status'[r] = "pending" PROVE attempts'[r] + Cardinality(Owing(r))' <= faults'
    <3>1. status[r] = "pending"
      BY <1>2, <2>3, NothingFromNothing
    <3>2. attempts'[r] + Owes(p, r)' + faults <= attempts[r] + Owes(p, r) + faults'
      BY <1>2, <3>1, FaultsPay
    <3>3. attempts[r] + Cardinality(Owing(r)) <= faults
      BY <3>1 DEF Paid
    <3>4. Cardinality(Owing(r))' \in Nat
      BY <2>1, FS_CardinalityType
    <3>5. attempts'[r] \in Nat /\ faults' \in Nat
      BY <1>2, <1>0 DEF Acts, Proceed, Fetch, Publish, MarkSent, Fail, DeadLetter, Refail,
                        MarkDead, Start, Stop, Crash, MarkedFailed, Fault, rows, TypeOK
    <3>6. Owes(p, r) \in {0, 1} /\ Owes(p, r)' \in {0, 1}
      BY DEF Owes
    <3> QED
      BY <1>0, <2>1, <3>2, <3>3, <3>4, <3>5, <3>6
  <2> QED
    BY <2>1, <2>2, <2>3
<1>3. ASSUME (\E r \in Record : TimePasses(r)) \/ UNCHANGED vars PROVE Paid'
  BY <1>3 DEF TimePasses, BackoffEnds, LeaseExpires, vars, rows, Paid, Owing, Current
<1> QED
  BY <1>1, <1>2, <1>3 DEF Next, Acts, Drained

\* The types of the variables of which Core says nothing.
Counts ==
    /\ durable \in BOOLEAN
    /\ attempts \in [Record -> 0..MaxFaults]
    /\ due \in SUBSET Record /\ leased \in SUBSET Record
    /\ known \in [Relay -> [Record -> 0..MaxFaults]]
    /\ excused \in SUBSET Record
    /\ faults \in 0..MaxFaults /\ stops \in 0..MaxStops

\* A relay counts an attempt only when not all faults have been spent on them.
LEMMA CountsAttempt ==
    ASSUME TypeOK, Core, Paid, NEW p \in Relay, pc[p] \in {"failed", "refail"},
           MarkedFailed(Current(p))
    PROVE  /\ attempts' \in [Record -> 0..MaxFaults]
           /\ due' \in SUBSET Record /\ leased' \in SUBSET Record
<1> DEFINE r == Current(p)
<1>0. r \in Record
  BY CurrentInHand DEF Busy
<1> HIDE DEF r
<1>1. CASE Pending(r)
  <2>1. p \in Owing(r)
    BY DEF Owing, r
  <2>2. IsFiniteSet(Owing(r)) /\ attempts[r] + Cardinality(Owing(r)) <= faults
    BY <1>0, <1>1 DEF Paid, Pending
  <2>3. Cardinality(Owing(r)) \in Nat /\ Cardinality(Owing(r)) # 0
    BY <2>1, <2>2, FS_CardinalityType, FS_EmptySet
  <2>4. attempts[r] + 1 \in 0..MaxFaults
    <3>1. attempts[r] \in Nat /\ faults \in Nat /\ faults <= MaxFaults
      BY <1>0, OutboxAssumption DEF TypeOK
    <3> QED
      BY <2>2, <2>3, <3>1, OutboxAssumption
  <2> QED
    BY <1>0, <1>1, <2>4 DEF MarkedFailed, TypeOK, r
<1>2. CASE ~Pending(r)
  BY <1>2 DEF MarkedFailed, rows, TypeOK, r
<1> QED
  BY <1>1, <1>2

LEMMA StepCounts == TypeOK /\ Core /\ Paid /\ [Next]_vars => Counts'
<1> SUFFICES ASSUME TypeOK, Core, Paid, [Next]_vars PROVE Counts'
  OBVIOUS
<1> USE OutboxAssumption DEF rows
<1>0. \A p \in Relay : pc[p] \in Busy => Current(p) \in Record
  BY CurrentInHand
<1>1. ASSUME NEW r \in Record, Add(r) \/ TimePasses(r) PROVE Counts'
  BY <1>1 DEF Add, TimePasses, BackoffEnds, LeaseExpires, TypeOK, Counts
<1>2. ASSUME NEW p \in Relay, Acts(p) PROVE Counts'
  <2>1. durable' \in BOOLEAN /\ faults' \in 0..MaxFaults /\ stops' \in 0..MaxStops
    BY <1>2 DEF Acts, Proceed, Fetch, Publish, MarkSent, Fail, DeadLetter, Refail, MarkDead,
                Start, Stop, Crash, MarkedFailed, Fault, TypeOK
  <2>2. /\ attempts' \in [Record -> 0..MaxFaults]
        /\ due' \in SUBSET Record /\ leased' \in SUBSET Record
    <3>1. CASE Fail(p) \/ Refail(p)
      <4>1. pc[p] \in {"failed", "refail"}
            /\ (MarkedFailed(Current(p)) \/ UNCHANGED rows)
        BY <3>1 DEF Fail, Refail
      <4>2. CASE MarkedFailed(Current(p))
        BY <4>1, <4>2, CountsAttempt
      <4>3. CASE UNCHANGED rows
        BY <4>3 DEF TypeOK
      <4> QED
        BY <4>1, <4>2, <4>3
    <3>2. CASE ~(Fail(p) \/ Refail(p))
      BY <1>2, <3>2 DEF Acts, Proceed, Fetch, Publish, MarkSent, DeadLetter, MarkDead, Start,
                        Stop, Crash, Ready, TypeOK
    <3> QED
      BY <3>1, <3>2
  <2>3. known' \in [Relay -> [Record -> 0..MaxFaults]]
    <3>1. CASE Fetch(p)
      BY <3>1 DEF Fetch, TypeOK
    <3>2. CASE Advance(p)
      <4>1. known' = [known EXCEPT ![p] = [known[p] EXCEPT ![Current(p)] = 0]]
        BY <3>2 DEF Advance
      <4>2. known[p] \in [Record -> 0..MaxFaults] /\ 0 \in 0..MaxFaults
        BY DEF TypeOK
      <4>3. \A k \in [Record -> 0..MaxFaults] :
                [k EXCEPT ![Current(p)] = 0] \in [Record -> 0..MaxFaults]
        BY <4>2
      <4> QED
        BY <4>1, <4>2, <4>3 DEF TypeOK
    <3>3. CASE Drop(p) \/ UNCHANGED known
      BY <3>3 DEF Drop, TypeOK
    <3> QED
      BY <1>2, <3>1, <3>2, <3>3
         DEF Acts, Proceed, Publish, MarkSent, Fail, DeadLetter, Refail, MarkDead, Start, Stop,
             Crash, Stay
  <2>4. excused' \in SUBSET Record
    <3>1. CASE Fetch(p)
      BY <3>1 DEF Fetch, Ready, TypeOK
    <3>2. CASE excused' \in {excused, excused \cup {Current(p)}} /\ pc[p] \in Busy
      BY <1>0, <3>2 DEF TypeOK
    <3>3. CASE UNCHANGED excused
      BY <3>3 DEF TypeOK
    <3>4. Fetch(p) \/ UNCHANGED excused
          \/ (excused' \in {excused, excused \cup {Current(p)}} /\ pc[p] \in Busy)
      BY <1>2 DEF Acts, Proceed, Publish, MarkSent, Fail, DeadLetter, Refail, MarkDead,
                  Start, Stop, Crash, Core, Busy
    <3> QED
      BY <3>1, <3>2, <3>3, <3>4
  <2> QED
    BY <2>1, <2>2, <2>3, <2>4 DEF Counts
<1>3. ASSUME UNCHANGED vars PROVE Counts'
  BY <1>3 DEF vars, TypeOK, Counts
<1> QED
  BY <1>1, <1>2, <1>3 DEF Next, Acts, Drained

\* The variables of the outbox have their types; that the attempts of a row
\* never outnumber the faults is the part that needs Paid (markFailed counts an
\* attempt for one call of the broker or of the store that failed).
THEOREM OutboxTyping == Spec => []TypeOK
<1> DEFINE I == TypeOK /\ Core /\ Paid
<1>1. Init => I
  <2> SUFFICES ASSUME Init PROVE I
    OBVIOUS
  <2>1. Core
    BY InitAll
  <2>2. TypeOK
    BY OutboxAssumption DEF Init, TypeOK
  <2>3. \A r \in Record : Owing(r) = {}
    BY DEF Init, Owing
  <2>4. Paid
    BY <2>3, FS_EmptySet DEF Init, Paid
  <2> QED
    BY <2>1, <2>2, <2>4
<1>2. I /\ [Next]_vars => I'
  <2> SUFFICES ASSUME I, [Next]_vars PROVE I'
    OBVIOUS
  <2>1. Core' /\ Paid' /\ Counts'
    BY StepCore, StepPaid, StepCounts
  <2>2. TypeOK'
    BY <2>1 DEF Core, Counts, TypeOK, Busy
  <2> QED
    BY <2>1, <2>2
<1> QED
  BY <1>1, <1>2, PTL DEF Spec

-----------------------------------------------------------------------------
(* The election. *)

InTerm == {"elected", "leading", "resigning", "releasing"}

\* A term goes with a hold, and the work and the flag of the leader with the
\* part of the term they belong to.
TermOf(n) ==
    /\ mine[n] # NoHold <=> place[n] \in InTerm
    /\ leader[n] => place[n] = "leading"
    /\ working[n] => place[n] \in {"leading", "resigning"}

\* No two elections have one hold.
Apart(n, m) == n # m /\ mine[n] # NoHold => mine[n] # mine[m]

\* A hold that an election still has and that is not the current one was
\* taken over when it had expired, and its lost channel is closed.
Superseded(n) ==
    mine[n] # NoHold /\ mine[n] # cur => mine[n] \in lost \cap deposed

TermInv ==
    /\ ElectionTypeOK
    /\ \A n \in Node : TermOf(n)
    /\ \A n, m \in Node : Apart(n, m)
    /\ \A n \in Node : Superseded(n)

-----------------------------------------------------------------------------
\* What a renew loop, Close and the passing of time leave alone.
LEMMA LockerKeeps ==
    LockerStep => UNCHANGED <<node, cancelled, errors, cur, lost, deposed>>
<1> SUFFICES ASSUME LockerStep
             PROVE  UNCHANGED <<node, cancelled, errors, cur, lost, deposed>>
  OBVIOUS
<1>1. UNCHANGED <<node, cancelled, errors>>
  BY DEF LockerStep
<1>2. ASSUME NEW h \in Hold, RenewTick(h) \/ LoopEnds(h)
      PROVE  UNCHANGED <<cur, lost, deposed>>
  BY <1>2 DEF RenewTick, LoopEnds
<1>3. ASSUME Close \/ Tick PROVE UNCHANGED <<cur, lost, deposed>>
  BY <1>3 DEF Close, Tick
<1> QED
  BY <1>1, <1>2, <1>3 DEF LockerStep

\* Every step keeps the types of the variables: a release has a hold to unlock.
LEMMA StepType == TermInv /\ [ElectionNext]_election => ElectionTypeOK'
<1> SUFFICES ASSUME TermInv, [ElectionNext]_election PROVE ElectionTypeOK'
  OBVIOUS
<1>0. ElectionTypeOK
  BY DEF TermInv
<1> USE <1>0, LockerAssumption, ElectionAssumption
    DEF ElectionTypeOK, LockerTypeOK, election, node, locker
<1>1. ASSUME NEW n \in Node, Check(n) PROVE ElectionTypeOK'
  BY <1>1 DEF Check, MoveTo
<1>2. ASSUME NEW n \in Node, Win(n) PROVE ElectionTypeOK'
  <2>1. PICK h \in Hold : TryAcquire(h) /\ mine' = [mine EXCEPT ![n] = h]
    BY <1>2 DEF Win
  <2>2. LockerTypeOK'
    BY <2>1 DEF TryAcquire, Expired
  <2>3. mine' \in [Node -> Hold \cup {NoHold}]
    BY <2>1
  <2> QED
    BY <1>2, <2>2, <2>3 DEF Win, MoveTo
<1>3. ASSUME NEW n \in Node, Contended(n) PROVE ElectionTypeOK'
  BY <1>3 DEF Contended, MoveTo
<1>4. ASSUME NEW n \in Node, Error(n) PROVE ElectionTypeOK'
  BY <1>4 DEF Error, MoveTo
<1>5. ASSUME NEW n \in Node, Wake(n) PROVE ElectionTypeOK'
  BY <1>5 DEF Wake, MoveTo
<1>6. ASSUME NEW n \in Node, StartTerm(n) PROVE ElectionTypeOK'
  BY <1>6 DEF StartTerm, MoveTo
<1>7. ASSUME NEW n \in Node, Resign(n) PROVE ElectionTypeOK'
  BY <1>7 DEF Resign, MoveTo
<1>8. ASSUME NEW n \in Node, AwaitWork(n) PROVE ElectionTypeOK'
  BY <1>8 DEF AwaitWork, MoveTo
<1>9. ASSUME NEW n \in Node, Release(n) PROVE ElectionTypeOK'
  <2>1. mine[n] \in Hold
    BY <1>9 DEF TermInv, TermOf, InTerm, Release
  <2>2. LockerTypeOK'
    BY <1>9, <2>1 DEF Release, Unlock
  <2> QED
    BY <1>9, <2>2 DEF Release, MoveTo
<1>10. ASSUME NEW n \in Node, WorkReturns(n) PROVE ElectionTypeOK'
  BY <1>10 DEF WorkReturns
<1>11. ASSUME NEW n \in Node, Cancel(n) PROVE ElectionTypeOK'
  BY <1>11 DEF Cancel
<1>12. ASSUME LockerStep PROVE ElectionTypeOK'
  <2>1. UNCHANGED <<node, cancelled, errors, cur, lost, deposed>>
    BY <1>12, LockerKeeps
  <2>2. lease' \in 0..TTL /\ loops' \in SUBSET Hold /\ stopped' \in BOOLEAN
    <3>1. ASSUME NEW h \in Hold, RenewTick(h) PROVE <2>2!:
      BY <3>1 DEF RenewTick
    <3>2. ASSUME NEW h \in Hold, LoopEnds(h) PROVE <2>2!:
      BY <3>2 DEF LoopEnds
    <3>3. ASSUME Close PROVE <2>2!:
      BY <3>3, Zenon DEF Close
    <3>4. ASSUME Tick PROVE <2>2!:
      <4>1. lease' \in 0..TTL
        BY <3>4 DEF Tick
      <4> QED
        BY <3>4, <4>1 DEF Tick
    <3> QED
      BY <1>12, <3>1, <3>2, <3>3, <3>4 DEF LockerStep
  <2> QED
    BY <2>1, <2>2
<1>13. ASSUME UNCHANGED election PROVE ElectionTypeOK'
  BY <1>13
<1> HIDE DEF ElectionTypeOK, LockerTypeOK, election, node, locker
<1> QED
  BY <1>1, <1>2, <1>3, <1>4, <1>5, <1>6, <1>7, <1>8, <1>9, <1>10, <1>11, <1>12, <1>13
     DEF ElectionNext, Run, AllReturned

\* A step that leaves the hold of an election, its place, its flags and the
\* locker alone keeps what is said of it.
LEMMA StepTerm == TermInv /\ [ElectionNext]_election => TermInv'
<1> SUFFICES ASSUME TermInv, [ElectionNext]_election PROVE TermInv'
  OBVIOUS
<1>0. ElectionTypeOK /\ ElectionTypeOK'
  BY StepType DEF TermInv
<1> DEFINE Rest == /\ \A n \in Node : TermOf(n)'
                   /\ \A n, m \in Node : Apart(n, m)'
                   /\ \A n \in Node : Superseded(n)'
<1> USE <1>0, LockerAssumption, ElectionAssumption
    DEF ElectionTypeOK, LockerTypeOK, locker, node
<1>1. ASSUME NEW n \in Node,
             Check(n) \/ Contended(n) \/ Error(n) \/ Wake(n)
      PROVE  Rest
  BY <1>1 DEF Check, Contended, Error, Wake, MoveTo,
              TermInv, TermOf, InTerm, Apart, Superseded
<1>2. ASSUME NEW n \in Node, Win(n) PROVE Rest
  <2>1. PICK h \in Hold \ InUse : TryAcquire(h) /\ mine' = [mine EXCEPT ![n] = h]
    BY <1>2 DEF Win
  <2>2. h # cur /\ h # NoHold /\ \A m \in Node : mine[m] # h
    BY <2>1 DEF InUse
  <2>3. \A m \in Node : TermOf(m)'
    BY <1>2, <2>1, <2>2 DEF Win, MoveTo, TermInv, TermOf, InTerm
  <2>4. \A m, k \in Node : Apart(m, k)'
    BY <2>1, <2>2 DEF TermInv, Apart
  <2>5. \A m \in Node : Superseded(m)'
    <3>1. /\ lost' = (lost \ {h}) \cup Expired /\ cur' = h
          /\ deposed' = (deposed \ {h}) \cup Expired
      BY <2>1 DEF TryAcquire
    <3> QED
      BY <2>1, <2>2, <3>1 DEF TermInv, Superseded, Expired
  <2> QED
    BY <2>3, <2>4, <2>5
<1>3. ASSUME NEW n \in Node, StartTerm(n) \/ Resign(n) \/ AwaitWork(n)
      PROVE  Rest
  BY <1>3 DEF StartTerm, Resign, AwaitWork, MoveTo,
              TermInv, TermOf, InTerm, Apart, Superseded
<1>4. ASSUME NEW n \in Node, Release(n) PROVE Rest
  <2>1. \A m \in Node : TermOf(m)'
    BY <1>4 DEF Release, MoveTo, TermInv, TermOf, InTerm
  <2>2. \A m, k \in Node : Apart(m, k)'
    BY <1>4 DEF Release, TermInv, Apart
  <2>3. \A m \in Node : m # n => mine'[m] = mine[m]
    BY <1>4 DEF Release
  <2>4. mine'[n] = NoHold /\ mine[n] # NoHold
    BY <1>4 DEF Release, TermInv, TermOf, InTerm
  <2>5. \A m \in Node : m # n /\ mine[m] # NoHold => mine[m] # mine[n]
    BY DEF TermInv, Apart
  <2>6. /\ lost \subseteq lost' /\ deposed' = deposed
        /\ cur' = (IF cur = mine[n] THEN NoHold ELSE cur)
    BY <1>4 DEF Release, Unlock
  <2>7. \A m \in Node : Superseded(m)'
    BY <2>3, <2>4, <2>5, <2>6 DEF TermInv, Superseded
  <2> QED
    BY <2>1, <2>2, <2>7
<1>5. ASSUME NEW n \in Node, WorkReturns(n) PROVE Rest
  BY <1>5 DEF WorkReturns, TermInv, TermOf, Apart, Superseded
<1>6. ASSUME NEW n \in Node, Cancel(n) PROVE Rest
  BY <1>6 DEF Cancel, TermInv, TermOf, Apart, Superseded
<1>7. ASSUME LockerStep PROVE Rest
  <2>1. UNCHANGED <<node, cur, lost, deposed>>
    BY <1>7, LockerKeeps
  <2> QED
    BY <2>1 DEF TermInv, TermOf, Apart, Superseded
<1>8. ASSUME UNCHANGED election PROVE Rest
  BY <1>8 DEF election, TermInv, TermOf, Apart, Superseded
<1>9. Rest
  BY <1>1, <1>2, <1>3, <1>4, <1>5, <1>6, <1>7, <1>8
     DEF ElectionNext, Run, AllReturned
<1> QED
  BY <1>0, <1>9 DEF TermInv

\* In every state of an election of any number of candidates a term has one
\* hold, no two candidates have the same one, and a hold that was superseded
\* was taken over and its holder told.
THEOREM Terms == ElectionSpec => []TermInv
<1>1. ElectionInit => TermInv
  <2> SUFFICES ASSUME ElectionInit PROVE TermInv
    OBVIOUS
  <2>1. LockerTypeOK
    <3>1. 0 \in 0..TTL
      BY LockerAssumption
    <3>2. stopped \in BOOLEAN
      BY Zenon DEF ElectionInit, LockerInit
    <3> QED
      BY <3>1, <3>2 DEF ElectionInit, LockerInit, LockerTypeOK
  <2>2. ElectionTypeOK
    BY <2>1, LockerAssumption, ElectionAssumption DEF ElectionInit, ElectionTypeOK
  <2> QED
    BY <2>2 DEF ElectionInit, TermInv, TermOf, InTerm, Apart, Superseded
<1>2. TermInv /\ [ElectionNext]_election => TermInv'
  BY StepTerm
<1> QED
  BY <1>1, <1>2, PTL DEF ElectionSpec

\* A leader who is not the current holder of the key has been told so
\* (memory.go dropLocked before the new hold is stored; serveTerm stores the
\* flag again before the lock is released).
THEOREM LeadersAreTold == ElectionSpec => []DeposedAreTold
<1>1. TermInv => DeposedAreTold
  BY DEF TermInv, TermOf, InTerm, Superseded, DeposedAreTold
<1> QED
  BY <1>1, Terms, PTL

\* The key never passes to somebody else under running work unless the lease
\* had expired (serveTerm waits for the work before it unlocks).
THEOREM WorkStaysCovered == ElectionSpec => []WorkIsCovered
<1>1. TermInv => WorkIsCovered
  BY DEF TermInv, TermOf, InTerm, Superseded, WorkIsCovered
<1> QED
  BY <1>1, Terms, PTL
=============================================================================
