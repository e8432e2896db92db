---------------------------- MODULE AutoTxProofs ----------------------------
(***************************************************************************)
(* Proofs about AutoTx for any transactions, databases and rows, whether   *)
(* the databases notice that a row has changed or not, and for any bounds. *)
(***************************************************************************)
EXTENDS AutoTx, TLAPS

LEMMA NoStmtType == NoStmt \in [n : Nat, row : Row, kind : Kind, before : Value]
BY AutoTxAssumption DEF NoStmt, Kind, Value

LEMMA BackwardType ==
    ASSUME NEW S, NEW s \in Seq(S)
    PROVE  Backward(s) \in Seq(S)
<1>1. \A i \in 1..Len(s) : s[Len(s) + 1 - i] \in S
  OBVIOUS
<1> QED
  BY <1>1 DEF Backward

\* A transaction that replays logs has a branch to replay them on.
Replaying == \A t \in Tx : pc[t] = "replaying" => work[t] # <<>>

TypeInv == TypeOK /\ Replaying

\* A failed attempt keeps the types of what it changes.
LEMMA AttemptType ==
    ASSUME TypeInv, NEW t \in Tx, work[t] # <<>>, AttemptFails(t)
    PROVE  /\ work' \in [Tx -> Seq(Db)] /\ tries' \in [Tx -> Nat] /\ orphaned' \in SUBSET Row
           /\ \A u \in Tx \ {t} : work'[u] = work[u]
<1>1. CASE tries[t] < Attempts
  <2>1. tries' = [tries EXCEPT ![t] = @ + 1] /\ UNCHANGED <<work, orphaned>>
    BY <1>1, AutoTxAssumption DEF AttemptFails, TypeInv, TypeOK
  <2> QED
    BY <2>1 DEF TypeInv, TypeOK
<1>2. CASE ~(tries[t] < Attempts)
  <2>1. /\ work' = [work EXCEPT ![t] = Tail(@)]
        /\ tries' = [tries EXCEPT ![t] = 1]
        /\ orphaned' = orphaned \cup {e.row : e \in LogsIn(t, Head(work[t]))}
    BY <1>2 DEF AttemptFails, NextBranch
  <2>2. Tail(work[t]) \in Seq(Db)
    BY DEF TypeInv, TypeOK
  <2>3. orphaned' \in SUBSET Row
    BY <2>1 DEF TypeInv, TypeOK, LogsIn, Logs, Entry
  <2> QED
    BY <2>1, <2>2, <2>3 DEF TypeInv, TypeOK
<1> QED
  BY <1>1, <1>2

\* Every variable keeps its type, and a transaction replays the logs of a
\* branch.
THEOREM Typing == Spec => []TypeInv
<1>1. Init => TypeInv
  BY AutoTxAssumption, NoStmtType DEF Init, TypeInv, TypeOK, Replaying, Value
<1>2. TypeInv /\ [Next]_vars => TypeInv'
  <2> SUFFICES ASSUME TypeInv, [Next]_vars PROVE TypeInv'
    OBVIOUS
  <2>0. Attempts \in Nat \ {0} /\ MaxOps \in Nat /\ MaxCrashes \in Nat /\ MaxFaults \in Nat
        /\ DbOf \in [Row -> Db]
    BY AutoTxAssumption
  <2> USE <2>0 DEF TypeInv, TypeOK, Replaying, Goto, Done, Fault, NextBranch, AttemptFails,
                   LogsIn, Logs, db, coord, running, phase2, history
  <2>1. ASSUME NEW t \in Tx, Begin(t) PROVE TypeInv' BY <2>1 DEF Begin
  <2>2. ASSUME NEW t \in Tx, Image(t) PROVE TypeInv'
    <3>1. ops' \in 0..MaxOps
      BY <2>2 DEF Image
    <3>2. PICK r \in Row, k \in Kind :
              stmt' = [stmt EXCEPT ![t] = [n |-> ops', row |-> r, kind |-> k, before |-> row[r]]]
      BY <2>2 DEF Image
    <3>4. stmt' \in [Tx -> [n : Nat, row : Row, kind : Kind, before : Value]]
      BY <3>1, <3>2
    <3>3. /\ pc' = [pc EXCEPT ![t] = "lock"]
          /\ UNCHANGED <<db, coord, phase2, up, todo, history, crashes, faults>>
      BY <2>2 DEF Image
    <3> QED
      BY <3>1, <3>3, <3>4
  <2>3. ASSUME NEW t \in Tx, Acquire(t) PROVE TypeInv'
    <3>0. stmt' = stmt \/ stmt' = [stmt EXCEPT ![t] = NoStmt]
      BY <2>3 DEF Acquire
    <3>1. stmt' \in [Tx -> [n : Nat, row : Row, kind : Kind, before : Value]]
      <4>1. stmt \in [Tx -> [n : Nat, row : Row, kind : Kind, before : Value]]
        OBVIOUS
      <4> HIDE DEF TypeInv
      <4> QED
        BY <3>0, <4>1, NoStmtType
    <3>2. owner' = owner \/ \E r \in Row : owner' = [owner EXCEPT ![r] = t]
      <4>1. stmt[t].row \in Row
        OBVIOUS
      <4> QED
        BY <2>3, <4>1 DEF Acquire
    <3>3. /\ \E l \in {"write", "business"} : pc' = [pc EXCEPT ![t] = l]
          /\ UNCHANGED <<db, known, branches, ops, phase2, up, todo, history, crashes, faults>>
      BY <2>3 DEF Acquire
    <3>4. owner' \in [Row -> Tx \cup {Nobody}]
      BY <3>2
    <3> QED
      BY <3>1, <3>3, <3>4
  <2>4. ASSUME NEW t \in Tx, Register(t) PROVE TypeInv'
    <3>1. DbOf[stmt[t].row] \in Db
      OBVIOUS
    <3>2. branches' \in [Tx -> Seq(Db)]
      <4>1. \/ branches' = branches
            \/ branches' = [branches EXCEPT ![t] = Append(@, DbOf[stmt[t].row])]
        BY <2>4 DEF Register
      <4>2. branches \in [Tx -> Seq(Db)] /\ Append(branches[t], DbOf[stmt[t].row]) \in Seq(Db)
        BY <3>1
      <4> HIDE DEF TypeInv
      <4> QED
        BY <4>1, <4>2
    <3>3. /\ \E l \in {"staged", "bare"} : pc' = [pc EXCEPT ![t] = l]
          /\ UNCHANGED <<db, owner, known, stmt, ops, phase2, up, todo, history, crashes, faults>>
      BY <2>4 DEF Register
    <3> QED
      BY <3>2, <3>3
  <2>5. ASSUME NEW t \in Tx, LocalCommit(t) PROVE TypeInv'
    <3> DEFINE s == stmt[t]
    <3>1. s.row \in Row /\ LogOf(t) \in Entry
      BY DEF Entry, LogOf
    <3>2. /\ row' \in [Row -> Value] /\ orig' \in [Row -> Value] /\ left' \in [Row -> Value]
          /\ last' \in [Row -> Tx \cup {Nobody}] /\ stale' \in SUBSET Row
      <4>1. CASE Missed(t)
        BY <2>5, <4>1 DEF LocalCommit
      <4>2. CASE ~Missed(t)
        <5>1. \E v \in Value : row' = [row EXCEPT ![s.row] = v] /\ left' = [left EXCEPT ![s.row] = v]
          BY <2>5, <4>2 DEF LocalCommit, Value
        <5>2. /\ last' = [last EXCEPT ![s.row] = t]
              /\ orig' = orig \/ orig' = [orig EXCEPT ![s.row] = row[s.row]]
              /\ stale' \in {stale \cup {s.row}, stale, stale \ {s.row}}
          BY <2>5, <4>2 DEF LocalCommit
        <5>3. /\ row \in [Row -> Value] /\ orig \in [Row -> Value] /\ left \in [Row -> Value]
              /\ last \in [Row -> Tx \cup {Nobody}] /\ stale \in SUBSET Row
          OBVIOUS
        <5> HIDE DEF s, TypeInv
        <5> QED
          BY <3>1, <5>1, <5>2, <5>3
      <4> QED
        BY <4>1, <4>2
    <3>3. undo' \in SUBSET Entry
      BY <2>5, <3>1 DEF LocalCommit
    <3>4. stmt' \in [Tx -> [n : Nat, row : Row, kind : Kind, before : Value]]
      BY <2>5, NoStmtType DEF LocalCommit
    <3>5. /\ pc' = [pc EXCEPT ![t] = "business"]
          /\ UNCHANGED <<coord, ops, phase2, up, todo, decided, orphaned, crashes, faults>>
      BY <2>5 DEF LocalCommit
    <3> HIDE DEF s
    <3> QED
      BY <3>2, <3>3, <3>4, <3>5
  <2>6. ASSUME NEW t \in Tx, LocalAbort(t) PROVE TypeInv'
    <3>1. stmt' \in [Tx -> [n : Nat, row : Row, kind : Kind, before : Value]]
      BY <2>6, NoStmtType DEF LocalAbort
    <3>2. /\ pc' = [pc EXCEPT ![t] = "business"]
          /\ UNCHANGED <<db, coord, ops, phase2, up, todo, history, crashes, faults>>
      BY <2>6 DEF LocalAbort
    <3> QED
      BY <3>1, <3>2
  <2>7. ASSUME NEW t \in Tx, Resolve(t) PROVE TypeInv'
    <3>1. Backward(branches[t]) \in Seq(Db)
      BY BackwardType
    <3>2. work' \in [Tx -> Seq(Db)] /\ branches' \in [Tx -> Seq(Db)]
      <4>1. \E w \in Seq(Db) : work' = [work EXCEPT ![t] = w]
        BY <2>7, <3>1 DEF Resolve
      <4>2. branches' = [branches EXCEPT ![t] = <<>>] /\ <<>> \in Seq(Db)
        BY <2>7 DEF Resolve
      <4> QED
        BY <4>1, <4>2
    <3>3. /\ \E l \in {"committing", "rolling"} : pc' = [pc EXCEPT ![t] = l]
          /\ \E o \in {"commit", "rollback"} : decided' = [decided EXCEPT ![t] = o]
          /\ known' \in SUBSET Tx /\ tries' = [tries EXCEPT ![t] = 1]
          /\ UNCHANGED <<db, owner, stmt, ops, replay, up, todo, last, orig, left, stale,
                         orphaned, crashes, faults>>
      BY <2>7 DEF Resolve
    <3>4. \A u \in Tx : pc'[u] = "replaying" => work'[u] = work[u] /\ pc[u] = "replaying"
      BY <2>7 DEF Resolve
    <3>5. Replaying'
      BY <3>4
    <3>6. /\ pc' \in [Tx -> {"idle", "business", "lock", "write", "staged", "bare",
                              "committing", "rolling", "replaying", "over"}]
          /\ decided' \in [Tx -> {"none", "commit", "committed", "rollback"}]
          /\ known' \in SUBSET Tx /\ tries' \in [Tx -> Nat]
      BY <3>3
    <3> HIDE DEF Replaying
    <3> QED
      BY <3>2, <3>3, <3>5, <3>6
  <2>8. ASSUME NEW t \in Tx, CommitBranch(t) PROVE TypeInv'
    <3>1. /\ work' \in [Tx -> Seq(Db)] /\ tries' \in [Tx -> Nat] /\ orphaned' \in SUBSET Row
          /\ \A u \in Tx \ {t} : work'[u] = work[u]
      <4>1. CASE AttemptFails(t)
        BY <4>1, <2>8, AttemptType DEF CommitBranch
      <4>2. CASE NextBranch(t) /\ UNCHANGED <<orphaned, faults>>
        BY <4>2, <2>8 DEF CommitBranch
      <4> HIDE DEF AttemptFails, NextBranch
      <4> QED
        BY <4>1, <4>2, <2>8 DEF CommitBranch
    <3>2. /\ pc[t] = "committing" /\ undo' \in SUBSET Entry /\ faults' \in 0..MaxFaults
          /\ UNCHANGED <<row, coord, running, replay, up, todo, decided, last, orig, left, stale,
                         crashes>>
      BY <2>8 DEF CommitBranch
    <3> QED
      BY <3>1, <3>2
  <2>9. ASSUME NEW t \in Tx, LoadLogs(t) PROVE TypeInv' BY <2>9 DEF LoadLogs
  <2>10. ASSUME NEW t \in Tx, Restore(t) PROVE TypeInv'
    <3>1. PICK e \in replay[t] : /\ row' = [row EXCEPT ![e.row] = Restored(e)]
                                 /\ replay' = [replay EXCEPT ![t] = @ \ {e}]
      BY <2>10 DEF Restore
    <3>2. e \in Entry
      BY <3>1
    <3>3. Restored(e) \in Value
      BY <3>2 DEF Restored, Entry, Kind, Value
    <3> QED
      BY <2>10, <3>1, <3>2, <3>3 DEF Restore, Entry
  <2>11. ASSUME NEW t \in Tx, DropLogs(t) PROVE TypeInv'
    <3>1. /\ pc[t] = "replaying" /\ NextBranch(t)
          /\ undo' \subseteq undo /\ pc' = [pc EXCEPT ![t] = "rolling"]
          /\ UNCHANGED <<row, coord, stmt, ops, replay, up, todo, history, crashes, faults>>
      BY <2>11 DEF DropLogs
    <3>2. work[t] \in Seq(Db) /\ work[t] # <<>>
      BY <3>1
    <3>3. Tail(work[t]) \in Seq(Db)
      BY <3>2
    <3>4. /\ work' \in [Tx -> Seq(Db)] /\ tries' \in [Tx -> Nat]
          /\ \A u \in Tx \ {t} : work'[u] = work[u]
      BY <3>1, <3>3
    <3> HIDE DEF NextBranch
    <3> QED
      BY <3>1, <3>4
  <2>12. ASSUME NEW t \in Tx, RollbackFails(t) PROVE TypeInv'
    <3>1. /\ work[t] # <<>> /\ faults' \in 0..MaxFaults
          /\ AttemptFails(t)
          /\ replay' = [replay EXCEPT ![t] = {}]
          /\ pc' = [pc EXCEPT ![t] = "rolling"]
          /\ UNCHANGED <<db, coord, stmt, ops, up, todo, decided, last, orig, left, stale, crashes>>
      <4> HIDE DEF AttemptFails
      <4> QED
        BY <2>12 DEF RollbackFails
    <3>2. /\ work' \in [Tx -> Seq(Db)] /\ tries' \in [Tx -> Nat] /\ orphaned' \in SUBSET Row
          /\ \A u \in Tx \ {t} : work'[u] = work[u]
      BY <3>1, AttemptType
    <3> HIDE DEF AttemptFails
    <3> QED
      BY <3>1, <3>2
  <2>13. ASSUME NEW t \in Tx, Release(t) PROVE TypeInv' BY <2>13 DEF Release
  <2>14. ASSUME NEW t \in Tx, Recover(t) PROVE TypeInv'
    <3>1. PICK d \in Db : todo' = todo \ {<<d, t>>} /\ work' = [work EXCEPT ![t] = <<d>>]
      BY <2>14 DEF Recover
    <3>2. /\ tries' = [tries EXCEPT ![t] = Attempts] /\ pc' = [pc EXCEPT ![t] = "rolling"]
          /\ UNCHANGED <<db, coord, stmt, ops, replay, up, history, crashes, faults>>
      BY <2>14 DEF Recover
    <3>3. work' \in [Tx -> Seq(Db)] /\ \A u \in Tx \ {t} : work'[u] = work[u]
      BY <3>1
    <3>4. tries' \in [Tx -> Nat] /\ todo' \in SUBSET (Db \X Tx)
      BY <3>1, <3>2
    <3> QED
      BY <3>2, <3>3, <3>4
  <2>15. ASSUME NEW t \in Tx, Recovered(t) PROVE TypeInv' BY <2>15 DEF Recovered
  <2>16. CASE Boot
    <3>1. todo' \in SUBSET (Db \X Tx)
      BY <2>16 DEF Boot
    <3>2. orphaned' \in SUBSET Row
      BY <2>16 DEF Boot, Entry
    <3>3. /\ up' = "recovering" /\ faults' \in 0..MaxFaults
          /\ UNCHANGED <<db, coord, running, phase2, decided, last, orig, left, stale, crashes>>
      BY <2>16 DEF Boot
    <3> QED
      BY <3>1, <3>2, <3>3
  <2>17. CASE Serve BY <2>17 DEF Serve
  <2>18. CASE Crash
    <3>1. orphaned' \in SUBSET Row
      BY <2>18 DEF Crash, Entry
    <3>2. /\ crashes' \in 0..MaxCrashes /\ up' = "down" /\ todo' = {} /\ known' = {}
          /\ UNCHANGED <<db, ops, decided, last, orig, left, stale, faults>>
      BY <2>18 DEF Crash
    <3>3. /\ pc' = [t \in Tx |-> IF pc[t] = "idle" THEN "idle" ELSE "over"]
          /\ stmt' = [t \in Tx |-> NoStmt] /\ owner' = [r \in Row |-> Nobody]
      BY <2>18 DEF Crash
    <3>4. /\ branches' = [t \in Tx |-> <<>>] /\ work' = [t \in Tx |-> <<>>]
          /\ replay' = [t \in Tx |-> {}] /\ tries' = [t \in Tx |-> 0]
      BY <2>18 DEF Crash
    <3>5. stmt' \in [Tx -> [n : Nat, row : Row, kind : Kind, before : Value]]
      <4> HIDE DEF TypeInv
      <4> QED
        BY <3>3, NoStmtType
    <3>6. /\ pc' \in [Tx -> {"idle", "business", "lock", "write", "staged", "bare",
                             "committing", "rolling", "replaying", "over"}]
          /\ owner' \in [Row -> Tx \cup {Nobody}] /\ Replaying'
      BY <3>3
    <3>7. /\ branches' \in [Tx -> Seq(Db)] /\ work' \in [Tx -> Seq(Db)]
          /\ replay' \in [Tx -> SUBSET Entry] /\ tries' \in [Tx -> Nat]
      BY <3>4
    <3> QED
      BY <3>1, <3>2, <3>5, <3>6, <3>7
  <2>19. CASE UNCHANGED vars BY <2>19 DEF vars
  <2> HIDE DEF TypeInv
  <2> QED
    BY <2>1, <2>2, <2>3, <2>4, <2>5, <2>6, <2>7, <2>8, <2>9, <2>10, <2>11, <2>12, <2>13,
       <2>14, <2>15, <2>16, <2>17, <2>18, <2>19 DEF Next, Proceed, AllOver
<1> QED
  BY <1>1, <1>2, PTL DEF Spec

-----------------------------------------------------------------------------
(* The global lock covers the undo logs. *)

\* A statement that is committed locally becomes the last to write its row.  When
\* its image was empty, it writes nothing, or makes the row stale.
LEMMA CommitHistory ==
    ASSUME TypeInv, NEW t \in Tx, LocalCommit(t)
    PROVE  LET r == stmt[t].row IN
           \/ UNCHANGED <<last, stale>> /\ Blind(stmt[t])
           \/ /\ last' = [last EXCEPT ![r] = t]
              /\ \A q \in Row : q # r /\ q \notin stale' => q \notin stale
              /\ Blind(stmt[t]) => r \in stale'
<1>1. CASE Missed(t)
  BY <1>1 DEF LocalCommit, Missed
<1>2. CASE ~Missed(t)
  <2>1. Blind(stmt[t]) => row[stmt[t].row] # stmt[t].before
    BY <1>2 DEF Missed, Blind
  <2> QED
    BY <1>2, <2>1 DEF LocalCommit
<1> QED
  BY <1>1, <1>2

\* What LogsAreLocked rests on: a statement that is about to write holds the
\* lock of its row unless its image was empty, a transaction that has not begun
\* has no logs, and phase one and the commit happen only while the process is up.
LockInv ==
    /\ LogsAreLocked
    /\ \A t \in Tx :
          pc[t] \in {"write", "staged", "bare"} /\ ~Blind(stmt[t]) => owner[stmt[t].row] = t
    /\ \A e \in undo : pc[e.xid] # "idle"
    /\ \A t \in Tx :
          /\ pc[t] \in {"business", "lock", "write", "staged", "bare", "committing"} => up = "up"
          /\ up = "down" => pc[t] \in {"idle", "over"}

\* LockInv is inductive.
THEOREM Locking == Spec => []LockInv
<1>1. Init => LockInv
  BY DEF Init, LockInv, LogsAreLocked
<1>2. TypeInv /\ LockInv /\ [Next]_vars => LockInv'
  <2> SUFFICES ASSUME TypeInv, LockInv, [Next]_vars PROVE LockInv'
    OBVIOUS
  <2>0. /\ pc \in [Tx -> {"idle", "business", "lock", "write", "staged", "bare",
                          "committing", "rolling", "replaying", "over"}]
        /\ owner \in [Row -> Tx \cup {Nobody}] /\ last \in [Row -> Tx \cup {Nobody}]
        /\ stmt \in [Tx -> [n : Nat, row : Row, kind : Kind, before : Value]]
        /\ undo \in SUBSET Entry /\ Nobody \notin Tx
        /\ \A e \in undo : e.xid \in Tx /\ e.row \in Row
    BY AutoTxAssumption DEF TypeInv, TypeOK, Entry
  <2> USE <2>0 DEF LockInv, LogsAreLocked, Blind, Goto, Done, Fault, LogsIn, Logs, db, coord,
                   running, phase2, history
  <2>1. ASSUME NEW t \in Tx, Begin(t) PROVE LockInv' BY <2>1 DEF Begin
  <2>2. ASSUME NEW t \in Tx, Image(t) PROVE LockInv' BY <2>2 DEF Image
  <2>3. ASSUME NEW t \in Tx, Acquire(t) PROVE LockInv' BY <2>3 DEF Acquire
  <2>4. ASSUME NEW t \in Tx, Register(t) PROVE LockInv' BY <2>4 DEF Register
  <2>5. ASSUME NEW t \in Tx, LocalCommit(t) PROVE LockInv'
    <3> DEFINE r == stmt[t].row
               new == LogOf(t)
    <3>1. /\ pc[t] \in {"staged", "bare"} /\ pc' = [pc EXCEPT ![t] = "business"]
          /\ undo' \subseteq undo \cup {new} /\ r \in Row
          /\ \A u \in Tx \ {t} : stmt'[u] = stmt[u]
          /\ UNCHANGED <<owner, up>>
      BY <2>5 DEF LocalCommit
    <3>2. /\ new.xid = t /\ new.row = r /\ (Blind(new) <=> Blind(stmt[t]))
          /\ ~Blind(stmt[t]) => owner[r] = t
      BY <3>1 DEF LogOf
    <3>3. \/ UNCHANGED <<last, stale>> /\ Blind(stmt[t])
          \/ /\ last' = [last EXCEPT ![r] = t]
             /\ \A q \in Row : q # r /\ q \notin stale' => q \notin stale
             /\ Blind(stmt[t]) => r \in stale'
      BY <2>5, CommitHistory
    <3> HIDE DEF new, r, Blind
    <3>4. ASSUME NEW e \in undo', up' = "up", pc'[e.xid] # "over", ~Blind(e)
          PROVE  owner[e.row] = e.xid /\ (e.row \notin stale' => last'[e.row] = e.xid)
      <4>1. CASE e = new
        BY <3>1, <3>2, <3>3, <3>4, <4>1
      <4>2. CASE e \in undo
        <5>1. owner[e.row] = e.xid /\ (e.row \notin stale => last[e.row] = e.xid)
          BY <3>1, <3>4, <4>2
        <5> QED
          BY <3>1, <3>2, <3>3, <4>2, <5>1
      <4> QED
        BY <3>1, <3>4, <4>1, <4>2
    <3>5. \A e \in undo' : pc'[e.xid] # "idle"
      BY <3>1, <3>2
    <3> QED
      BY <3>1, <3>4, <3>5 DEF Blind
  <2>6. ASSUME NEW t \in Tx, LocalAbort(t) PROVE LockInv' BY <2>6 DEF LocalAbort
  <2>7. ASSUME NEW t \in Tx, Resolve(t) PROVE LockInv' BY <2>7 DEF Resolve
  <2>8. ASSUME NEW t \in Tx, CommitBranch(t) PROVE LockInv' BY <2>8 DEF CommitBranch
  <2>9. ASSUME NEW t \in Tx, LoadLogs(t) PROVE LockInv' BY <2>9 DEF LoadLogs
  <2>10. ASSUME NEW t \in Tx, Restore(t) PROVE LockInv' BY <2>10 DEF Restore
  <2>11. ASSUME NEW t \in Tx, DropLogs(t) PROVE LockInv' BY <2>11 DEF DropLogs
  <2>12. ASSUME NEW t \in Tx, RollbackFails(t) PROVE LockInv' BY <2>12 DEF RollbackFails
  <2>13. ASSUME NEW t \in Tx, Release(t) PROVE LockInv' BY <2>13 DEF Release
  <2>14. ASSUME NEW t \in Tx, Recover(t) PROVE LockInv' BY <2>14 DEF Recover
  <2>15. ASSUME NEW t \in Tx, Recovered(t) PROVE LockInv' BY <2>15 DEF Recovered
  <2>16. CASE Boot BY <2>16 DEF Boot
  <2>17. CASE Serve BY <2>17 DEF Serve, Idle
  <2>18. CASE Crash BY <2>18 DEF Crash
  <2>19. CASE UNCHANGED vars BY <2>19 DEF vars
  <2> HIDE DEF LockInv
  <2> QED
    BY <2>1, <2>2, <2>3, <2>4, <2>5, <2>6, <2>7, <2>8, <2>9, <2>10, <2>11, <2>12, <2>13,
       <2>14, <2>15, <2>16, <2>17, <2>18, <2>19 DEF Next, Proceed, AllOver
<1> QED
  BY <1>1, <1>2, Typing, PTL DEF Spec

\* As long as a transaction is in flight, nobody else holds the lock of a row
\* that it would put back, and only a statement with an empty before-image, which
\* takes no lock, writes that row (at/lock.go:47, starter-transaction-at-gorm/
\* plugin.go:126).
THEOREM LogsStayLocked == Spec => []LogsAreLocked
<1>1. LockInv => LogsAreLocked
  BY DEF LockInv
<1> QED
  BY <1>1, Locking, PTL
-----------------------------------------------------------------------------
(* All or nothing. *)

\* The undo logs that the last transaction to write a row has on it and would
\* put it back with.
Mine(r) == {e \in undo : e.row = r /\ e.xid = last[r] /\ ~Blind(e)}

\* Those of them that a rollback has still to replay.
Remaining(r) == {e \in replay[last[r]] : e.row = r /\ ~Blind(e)}

Older(e, S)  == {f \in S : f.n < e.n}
Updates(S)   == S # {} /\ \A e \in S : e.kind = "update"
PhaseOne     == {"business", "lock", "write", "staged", "bare"}
ToCommit(t)  == decided[t] \in {"commit", "committed"}
Among(d, s)  == \E i \in 1..Len(s) : s[i] = d

\* The logs are numbered in the order of the statements, an insert has found
\* nothing, a statement goes without a log only when its image is empty, and a
\* rollback replays the logs of its first branch from the newest to the oldest.
Ordered(t) ==
    IF pc[t] = "replaying"
    THEN /\ replay[t] \subseteq LogsIn(t, Head(work[t]))
         /\ \A e \in replay[t] : Older(e, LogsIn(t, Head(work[t]))) \subseteq replay[t]
    ELSE replay[t] = {}

Pending(t) ==
    pc[t] \in {"lock", "write", "staged", "bare"} =>
        /\ stmt[t].kind = "insert" => stmt[t].before = None
        /\ pc[t] = "bare" => Blind(stmt[t])
        /\ stmt[t].n <= ops
        /\ \A e \in Logs(t) : e.n < stmt[t].n

BookInv ==
    /\ \A e \in undo : (e.kind = "insert" => e.before = None) /\ e.n <= ops
    /\ \A e, f \in undo : e.xid = f.xid /\ e.n = f.n => e = f
    /\ \A t \in Tx : Pending(t) /\ Ordered(t)

\* Somebody has still to take care of a log, unless its row is orphaned.
Covered(e) ==
    /\ up = "up" =>
          \/ pc[e.xid] \in PhaseOne /\ Among(DbOf[e.row], branches[e.xid])
          \/ pc[e.xid] \in {"committing", "rolling", "replaying"} /\ Among(DbOf[e.row], work[e.xid])
    /\ up = "recovering" =>
          \/ <<DbOf[e.row], e.xid>> \in todo
          \/ pc[e.xid] \in {"rolling", "replaying"} /\ Among(DbOf[e.row], work[e.xid])

\* A log that is not orphaned is covered, and not one of a transaction that has
\* been committed.  It belongs to the last transaction that wrote the row, unless
\* a statement with an empty image has written the row without its lock, or the
\* log itself has an empty image.
Owed(e) ==
    /\ Covered(e)
    /\ ~Blind(e) /\ e.row \notin stale => e.xid = last[e.row]
    /\ ToCommit(e.xid) => pc[e.xid] = "committing"

Placed(t) ==
    /\ pc[t] = "staged" => Among(DbOf[stmt[t].row], branches[t])
    /\ pc[t] \in PhaseOne \cup {"idle"} => ~ToCommit(t)
    /\ pc[t] = "committing" => ToCommit(t)

CoverInv ==
    /\ \A e \in undo : e.row \notin orphaned => Owed(e)
    /\ \A t \in Tx : Placed(t)
    /\ \A r \in Row : last[r] # Nobody =>
          /\ pc[last[r]] # "idle"
          /\ pc[last[r]] \in PhaseOne /\ r \notin stale => Mine(r) # {}

\* What a row is, between its first change by the last transaction and the end
\* of that transaction.
RowIsRight(r) ==
    /\ Mine(r) = {} => row[r] = IF ToCommit(last[r]) THEN left[r] ELSE orig[r]
    /\ pc[last[r]] \in PhaseOne \cup {"committing"} => row[r] = left[r]
    /\ Updates(Mine(r)) => row[r] # None
    /\ \A e \in Mine(r) : IF Older(e, Mine(r)) = {} THEN e.before = orig[r]
                          ELSE Updates(Older(e, Mine(r))) => e.before # None
    /\ pc[last[r]] = "replaying" /\ Head(work[last[r]]) = DbOf[r] =>
          /\ Updates(Remaining(r)) => row[r] # None
          /\ Mine(r) # {} /\ Remaining(r) = {} => row[r] = orig[r]

RowInv == \A r \in Row \ (orphaned \cup stale) : last[r] # Nobody => RowIsRight(r)

\* Every step keeps the books.
LEMMA BookSteps ==
    ASSUME TypeInv, BookInv, [Next]_vars
    PROVE  BookInv'
<1>0. /\ pc \in [Tx -> {"idle", "business", "lock", "write", "staged", "bare",
                         "committing", "rolling", "replaying", "over"}]
      /\ stmt \in [Tx -> [n : Nat, row : Row, kind : Kind, before : Value]]
      /\ replay \in [Tx -> SUBSET Entry] /\ work \in [Tx -> Seq(Db)]
      /\ undo \in SUBSET Entry /\ ops \in Nat
      /\ \A e \in undo : e.xid \in Tx /\ e.row \in Row /\ e.n \in Nat
      /\ \A t \in Tx : stmt[t].n \in Nat
  BY AutoTxAssumption DEF TypeInv, TypeOK, Entry
<1> USE <1>0 DEF Goto, Done, db, coord, running, phase2, history
\* Nothing that the invariant speaks of changes, except for t.
<1>a. ASSUME NEW t \in Tx, UNCHANGED undo, ops' \in Nat, ops <= ops',
             Pending(t)', Ordered(t)',
             \A u \in Tx \ {t} : pc'[u] = pc[u] /\ stmt'[u] = stmt[u] /\ replay'[u] = replay[u]
                                 /\ work'[u] = work[u]
      PROVE  BookInv'
  <2>1. ASSUME NEW u \in Tx \ {t} PROVE Pending(u)' /\ Ordered(u)'
    <3>1. Pending(u) /\ Ordered(u)
      BY DEF BookInv
    <3>2. stmt[u].n <= ops => stmt[u].n <= ops'
      BY <1>a
    <3>3. Logs(u)' = Logs(u) /\ \A d : LogsIn(u, d)' = LogsIn(u, d)
      BY <1>a DEF Logs, LogsIn
    <3>4. Pending(u)'
      BY <1>a, <3>1, <3>2, <3>3 DEF Pending
    <3>5. Ordered(u)'
      BY <1>a, <3>1, <3>3 DEF Ordered
    <3> QED
      BY <3>4, <3>5
  <2>2. \A e \in undo : e.n <= ops => e.n <= ops'
    BY <1>a
  <2> QED
    BY <1>a, <2>1, <2>2 DEF BookInv
\* Logs of t are dropped while it replays none.
<1>b. ASSUME NEW t \in Tx, undo' \subseteq undo, \A e \in undo : e.xid # t => e \in undo',
             UNCHANGED <<ops, stmt>>,
             pc'[t] \in {"committing", "rolling"}, replay'[t] = {},
             \A u \in Tx \ {t} : pc'[u] = pc[u] /\ replay'[u] = replay[u] /\ work'[u] = work[u]
      PROVE  BookInv'
  <2>1. ASSUME NEW u \in Tx \ {t} PROVE Pending(u)' /\ Ordered(u)'
    <3>1. Pending(u) /\ Ordered(u)
      BY DEF BookInv
    <3>2. Logs(u)' = Logs(u) /\ \A d : LogsIn(u, d)' = LogsIn(u, d)
      BY <1>b DEF Logs, LogsIn
    <3> QED
      BY <1>b, <3>1, <3>2 DEF Pending, Ordered
  <2>2. Pending(t)' /\ Ordered(t)'
    BY <1>b DEF Pending, Ordered
  <2> QED
    BY <1>b, <2>1, <2>2 DEF BookInv
<1>1. ASSUME NEW t \in Tx, Begin(t) PROVE BookInv'
  <2>1. Pending(t)' /\ Ordered(t)'
    BY <1>1 DEF Begin, Pending, Ordered, BookInv
  <2> QED
    BY <1>1, <1>a, <2>1 DEF Begin
<1>2. ASSUME NEW t \in Tx, Image(t) PROVE BookInv'
  <2>1. PICK r \in Row, k \in Kind :
            /\ k = "insert" => row[r] = None
            /\ stmt' = [stmt EXCEPT ![t] = [n |-> ops', row |-> r, kind |-> k, before |-> row[r]]]
    BY <1>2 DEF Image
  <2>2. /\ ops' = ops + 1 /\ pc[t] = "business" /\ pc' = [pc EXCEPT ![t] = "lock"]
        /\ UNCHANGED <<undo, replay, work>>
    BY <1>2 DEF Image
  <2>3. \A e \in undo : e.n < ops'
    BY <2>2 DEF BookInv
  <2>4. stmt'[t] = [n |-> ops', row |-> r, kind |-> k, before |-> row[r]]
    BY <2>1
  <2>5. Pending(t)'
    BY <2>1, <2>2, <2>3, <2>4 DEF Pending, Logs
  <2>6. Ordered(t)'
    BY <2>2 DEF Ordered, BookInv
  <2> QED
    BY <1>a, <2>1, <2>2, <2>5, <2>6
<1>3. ASSUME NEW t \in Tx, Acquire(t) PROVE BookInv'
  <2>1. Pending(t)' /\ Ordered(t)'
    BY <1>3 DEF Acquire, Pending, Ordered, BookInv, Logs
  <2> QED
    BY <1>3, <1>a, <2>1 DEF Acquire
<1>4. ASSUME NEW t \in Tx, Register(t) PROVE BookInv'
  <2>1. Pending(t)' /\ Ordered(t)'
    BY <1>4 DEF Register, Recorded, Pending, Ordered, BookInv, Logs
  <2>2. /\ \A u \in Tx \ {t} : pc'[u] = pc[u]
        /\ UNCHANGED <<undo, ops, stmt, replay, work>>
    BY <1>4 DEF Register
  <2>3. ops' \in Nat /\ ops <= ops'
    BY <2>2
  <2> QED
    BY <1>a, <2>1, <2>2, <2>3
<1>5. ASSUME NEW t \in Tx, LocalCommit(t) PROVE BookInv'
  <2> DEFINE s == stmt[t]
             e == LogOf(t)
  <2>1. /\ undo' \in {undo, undo \cup {e}} /\ pc[t] \in {"staged", "bare"}
        /\ pc' = [pc EXCEPT ![t] = "business"]
        /\ stmt' = [stmt EXCEPT ![t] = NoStmt] /\ UNCHANGED <<ops, replay, work>>
    BY <1>5 DEF LocalCommit
  <2>2. /\ s.kind = "insert" => s.before = None
        /\ s.n <= ops /\ s.n \in Nat
        /\ \A f \in undo : f.xid = t => f.n < s.n
    BY <2>1 DEF BookInv, Pending, Logs
  <2>3. /\ e.kind = "insert" => e.before = None
        /\ e.n <= ops /\ e.xid = t
        /\ \A f \in undo : f.xid = e.xid => f.n # e.n
    BY <2>2 DEF LogOf
  <2>4. ASSUME NEW u \in Tx PROVE Pending(u)' /\ Ordered(u)'
    <3>1. CASE u = t
      BY <2>1, <3>1 DEF Pending, Ordered, BookInv
    <3>2. CASE u # t
      <4>1. Logs(u)' = Logs(u) /\ \A d : LogsIn(u, d)' = LogsIn(u, d)
        BY <2>1, <2>3, <3>2 DEF Logs, LogsIn
      <4> QED
        BY <2>1, <3>2, <4>1 DEF Pending, Ordered, BookInv
    <3> QED
      BY <3>1, <3>2
  <2> HIDE DEF e, s
  <2> QED
    BY <2>1, <2>3, <2>4 DEF BookInv
<1>6. ASSUME NEW t \in Tx, LocalAbort(t) PROVE BookInv'
  <2>1. Pending(t)' /\ Ordered(t)'
    BY <1>6 DEF LocalAbort, Pending, Ordered, BookInv
  <2> QED
    BY <1>6, <1>a, <2>1 DEF LocalAbort
<1>7. ASSUME NEW t \in Tx, Resolve(t) PROVE BookInv'
  <2>1. /\ pc[t] = "business" /\ pc'[t] \in {"committing", "rolling"}
        /\ \A u \in Tx \ {t} : pc'[u] = pc[u] /\ work'[u] = work[u]
        /\ UNCHANGED <<undo, stmt, ops, replay>>
    BY <1>7 DEF Resolve
  <2>2. Pending(t)' /\ Ordered(t)'
    BY <2>1 DEF Pending, Ordered, BookInv
  <2>3. ops' \in Nat /\ ops <= ops'
    BY <2>1
  <2> QED
    BY <1>a, <2>1, <2>2, <2>3
<1>8. ASSUME NEW t \in Tx, CommitBranch(t) PROVE BookInv'
  <2>1. /\ pc[t] = "committing" /\ undo' \subseteq undo
        /\ \A e \in undo : e.xid # t => e \in undo'
        /\ \A u \in Tx \ {t} : work'[u] = work[u]
        /\ UNCHANGED <<pc, stmt, ops, replay>>
    BY <1>8 DEF CommitBranch, AttemptFails, NextBranch, LogsIn, Logs
  <2>2. replay'[t] = {}
    BY <2>1 DEF Ordered, BookInv
  <2> QED
    BY <1>b, <2>1, <2>2
<1>9. ASSUME NEW t \in Tx, LoadLogs(t) PROVE BookInv'
  <2>1. Pending(t)' /\ Ordered(t)'
    BY <1>9 DEF LoadLogs, Pending, Ordered, Older, Logs, LogsIn
  <2> QED
    BY <1>9, <1>a, <2>1 DEF LoadLogs
<1>10. ASSUME NEW t \in Tx, Restore(t) PROVE BookInv'
  <2>1. PICK e \in replay[t] : /\ \A f \in replay[t] : f.n <= e.n
                               /\ replay' = [replay EXCEPT ![t] = @ \ {e}]
    BY <1>10 DEF Restore
  <2>2. pc[t] = "replaying" /\ UNCHANGED <<undo, pc, stmt, ops, work>>
    BY <1>10 DEF Restore
  <2>3. Ordered(t) /\ replay[t] \subseteq undo
    BY <2>2 DEF BookInv, Ordered, LogsIn, Logs
  <2>4. \A f \in replay[t] : f.n \in Nat /\ ~(e.n < f.n)
    BY <2>1, <2>3
  <2>5. Pending(t)' /\ Ordered(t)'
    BY <2>1, <2>2, <2>3, <2>4 DEF Pending, Ordered, Older, Logs, LogsIn
  <2> QED
    BY <1>a, <2>1, <2>2, <2>5
<1>11. ASSUME NEW t \in Tx, DropLogs(t) PROVE BookInv'
  BY <1>11, <1>b DEF DropLogs, NextBranch, LogsIn, Logs
<1>12. ASSUME NEW t \in Tx, RollbackFails(t) PROVE BookInv'
  <2>1. /\ pc'[t] = "rolling" /\ replay'[t] = {} /\ UNCHANGED <<undo, stmt, ops>>
        /\ \A u \in Tx \ {t} : pc'[u] = pc[u] /\ work'[u] = work[u] /\ replay'[u] = replay[u]
    BY <1>12 DEF RollbackFails, AttemptFails, NextBranch
  <2> QED
    BY <1>b, <2>1
<1>13. ASSUME NEW t \in Tx, Release(t) PROVE BookInv'
  <2>1. Pending(t)' /\ Ordered(t)'
    BY <1>13 DEF Release, Pending, Ordered, BookInv
  <2> QED
    BY <1>13, <1>a, <2>1 DEF Release
<1>14. ASSUME NEW t \in Tx, Recover(t) PROVE BookInv'
  <2>1. pc[t] # "replaying" /\ pc' = [pc EXCEPT ![t] = "rolling"]
        /\ UNCHANGED <<undo, stmt, ops, replay>> /\ \A u \in Tx \ {t} : work'[u] = work[u]
    BY <1>14 DEF Recover, Idle
  <2>2. Pending(t)' /\ Ordered(t)'
    BY <2>1 DEF Pending, Ordered, BookInv
  <2>3. ops' \in Nat /\ ops <= ops' /\ \A u \in Tx \ {t} : pc'[u] = pc[u]
    BY <2>1
  <2> QED
    BY <1>a, <2>1, <2>2, <2>3
<1>15. ASSUME NEW t \in Tx, Recovered(t) PROVE BookInv'
  <2>1. Pending(t)' /\ Ordered(t)'
    BY <1>15 DEF Recovered, Pending, Ordered, BookInv
  <2> QED
    BY <1>15, <1>a, <2>1 DEF Recovered
<1>16. CASE Boot
  BY <1>16 DEF Boot, BookInv, Pending, Ordered, Logs, LogsIn
<1>17. CASE Serve
  BY <1>17 DEF Serve, BookInv, Pending, Ordered, Logs, LogsIn
<1>18. CASE Crash
  BY <1>18 DEF Crash, BookInv, Pending, Ordered
<1>19. CASE UNCHANGED vars
  BY <1>19 DEF vars, BookInv, Pending, Ordered, Logs, LogsIn
<1> QED
  BY <1>1, <1>2, <1>3, <1>4, <1>5, <1>6, <1>7, <1>8, <1>9, <1>10, <1>11, <1>12, <1>13,
     <1>14, <1>15, <1>16, <1>17, <1>18, <1>19 DEF Next, Proceed, AllOver

\* The books are in order: what the undo logs say, and in which order a rollback
\* takes them (starter-transaction-at-gorm/branch.go:67).
THEOREM Books == Spec => []BookInv
<1>1. Init => BookInv
  BY DEF Init, BookInv, Pending, Ordered
<1> QED
  BY <1>1, BookSteps, Typing, PTL DEF Spec

\* What is in a sequence is at its head or in its tail.
LEMMA TailAmong ==
    ASSUME NEW S, NEW s \in Seq(S), s # <<>>, NEW d, Among(d, s), d # Head(s)
    PROVE  Among(d, Tail(s))
<1>1. PICK i \in 1..Len(s) : s[i] = d
  BY DEF Among
<1>2. i # 1 /\ Len(s) \in Nat \ {0} /\ Head(s) = s[1]
  BY <1>1
<1>3. i - 1 \in 1..Len(Tail(s)) /\ Tail(s)[i - 1] = s[i]
  BY <1>2
<1> QED
  BY <1>1, <1>3 DEF Among

\* A sequence and its reverse have the same elements.
LEMMA BackwardAmong ==
    ASSUME NEW S, NEW s \in Seq(S), NEW d, Among(d, s)
    PROVE  Among(d, Backward(s))
<1>1. PICK i \in 1..Len(s) : s[i] = d
  BY DEF Among
<1>2. Len(s) \in Nat /\ Len(Backward(s)) = Len(s)
  BY DEF Backward
<1>3. Len(s) + 1 - i \in 1..Len(s) /\ Len(s) + 1 - (Len(s) + 1 - i) = i
  BY <1>2
<1>4. Backward(s)[Len(s) + 1 - i] = s[i]
  BY <1>3 DEF Backward
<1> QED
  BY <1>1, <1>2, <1>3, <1>4 DEF Among

\* The branch that an attempt gives up leaves its rows orphaned.
LEMMA AttemptCovers ==
    ASSUME TypeInv, NEW t \in Tx, work[t] # <<>>, AttemptFails(t)
    PROVE  /\ orphaned \subseteq orphaned'
           /\ \A e \in Logs(t) :
                 Among(DbOf[e.row], work[t]) => Among(DbOf[e.row], work'[t]) \/ e.row \in orphaned'
<1>1. CASE UNCHANGED <<work, orphaned>>
  BY <1>1
<1>2. CASE /\ NextBranch(t)
           /\ orphaned' = orphaned \cup {e.row : e \in LogsIn(t, Head(work[t]))}
  <2>1. work[t] \in Seq(Db) /\ work'[t] = Tail(work[t])
    BY <1>2 DEF NextBranch, TypeInv, TypeOK
  <2>2. ASSUME NEW e \in Logs(t), Among(DbOf[e.row], work[t])
        PROVE  Among(DbOf[e.row], work'[t]) \/ e.row \in orphaned'
    <3>1. CASE DbOf[e.row] = Head(work[t])
      BY <1>2, <3>1 DEF LogsIn
    <3>2. CASE DbOf[e.row] # Head(work[t])
      BY <2>1, <2>2, <3>2, TailAmong
    <3> QED
      BY <3>1, <3>2
  <2> QED
    BY <1>2, <2>2
<1> QED
  BY <1>1, <1>2 DEF AttemptFails

\* Registration adds the database of the statement, unless nothing is recorded,
\* and drops none.
LEMMA RegisterAdds ==
    ASSUME TypeInv, NEW t \in Tx, Register(t)
    PROVE  /\ pc'[t] = "staged" => Among(DbOf[stmt[t].row], branches'[t])
           /\ \A d : Among(d, branches[t]) => Among(d, branches'[t])
<1> DEFINE d == DbOf[stmt[t].row]
           s == branches[t]
<1>0. s \in Seq(Db) /\ d \in Db /\ branches \in [Tx -> Seq(Db)] /\ DOMAIN s = 1..Len(s)
  BY AutoTxAssumption DEF TypeInv, TypeOK
<1>3. CASE ~Recorded(stmt[t])
  <2>1. branches' = branches /\ pc'[t] = "bare"
    BY <1>3 DEF Register, Goto, TypeInv, TypeOK
  <2> QED
    BY <2>1
<1>1. CASE Recorded(stmt[t]) /\ \E i \in DOMAIN s : s[i] = d
  <2>1. branches' = branches
    BY <1>1 DEF Register
  <2> QED
    BY <1>0, <1>1, <2>1 DEF Among
<1>2. CASE Recorded(stmt[t]) /\ ~\E i \in DOMAIN s : s[i] = d
  <2>1. branches'[t] = Append(s, d)
    BY <1>0, <1>2 DEF Register
  <2>2. /\ Len(Append(s, d)) = Len(s) + 1 /\ Len(s) \in Nat
        /\ Append(s, d)[Len(s) + 1] = d
        /\ \A i \in 1..Len(s) : Append(s, d)[i] = s[i]
    BY <1>0
  <2>3. 1..Len(s) \subseteq 1..Len(s) + 1 /\ Len(s) + 1 \in 1..Len(s) + 1
    BY <2>2
  <2> HIDE DEF s, d
  <2> QED
    BY <2>1, <2>2, <2>3 DEF Among, s, d
<1> QED
  BY <1>1, <1>2, <1>3

\* Every step keeps the logs covered.
LEMMA CoverSteps ==
    ASSUME TypeInv, LockInv, BookInv, CoverInv, [Next]_vars
    PROVE  CoverInv'
<1>0. /\ pc \in [Tx -> {"idle", "business", "lock", "write", "staged", "bare",
                         "committing", "rolling", "replaying", "over"}]
      /\ stmt \in [Tx -> [n : Nat, row : Row, kind : Kind, before : Value]]
      /\ work \in [Tx -> Seq(Db)] /\ branches \in [Tx -> Seq(Db)]
      /\ decided \in [Tx -> {"none", "commit", "committed", "rollback"}]
      /\ last \in [Row -> Tx \cup {Nobody}] /\ owner \in [Row -> Tx \cup {Nobody}]
      /\ undo \in SUBSET Entry /\ DbOf \in [Row -> Db] /\ Nobody \notin Tx
      /\ \A e \in undo : e.xid \in Tx /\ e.row \in Row
      /\ up \in {"down", "recovering", "up"}
  BY AutoTxAssumption DEF TypeInv, TypeOK, Entry
<1> USE <1>0 DEF Goto, Done, db, coord, running, phase2, history
\* A step of t that leaves the logs alone.
<1>a. ASSUME NEW t \in Tx, UNCHANGED <<undo, last, stale, up>>, orphaned \subseteq orphaned',
             \A u \in Tx \ {t} : /\ pc'[u] = pc[u] /\ stmt'[u] = stmt[u] /\ work'[u] = work[u]
                                 /\ branches'[u] = branches[u] /\ decided'[u] = decided[u]
                                 /\ \A d \in Db : <<d, u>> \in todo => <<d, u>> \in todo',
             pc'[t] # "idle", pc'[t] \in PhaseOne => pc[t] \in PhaseOne \cup {"idle"},
             Placed(t)',
             \A e \in Logs(t) : e.row \notin orphaned' /\ Owed(e)
                                  => Covered(e)' /\ (ToCommit(t)' => pc'[t] = "committing")
      PROVE  CoverInv'
  <2>1. ASSUME NEW e \in undo', e.row \notin orphaned' PROVE Owed(e)'
    <3>1. e \in undo /\ Owed(e)
      BY <1>a, <2>1 DEF CoverInv
    <3>2. CASE e.xid = t
      BY <1>a, <2>1, <3>1, <3>2 DEF Owed, Logs
    <3>3. CASE e.xid # t
      <4>1. e.xid \in Tx \ {t} /\ DbOf[e.row] \in Db
        BY <3>1, <3>3
      <4> QED
        BY <1>a, <3>1, <3>3, <4>1 DEF Owed, Covered, ToCommit
    <3> QED
      BY <3>2, <3>3
  <2>2. ASSUME NEW u \in Tx PROVE Placed(u)'
    BY <1>a DEF CoverInv, Placed, ToCommit
  <2>3. ASSUME NEW r \in Row, last'[r] # Nobody
        PROVE  /\ pc'[last'[r]] # "idle"
               /\ pc'[last'[r]] \in PhaseOne /\ r \notin stale' => Mine(r)' # {}
    <3>1. Mine(r)' = Mine(r) /\ last'[r] = last[r] /\ last[r] \in Tx
      BY <1>a, <2>3 DEF Mine
    <3>2. pc[last[r]] # "idle" /\ (pc[last[r]] \in PhaseOne /\ r \notin stale => Mine(r) # {})
      BY <2>3, <3>1 DEF CoverInv
    <3> QED
      BY <1>a, <3>1, <3>2
  <2> QED
    BY <2>1, <2>2, <2>3 DEF CoverInv
\* A branch of t drops its logs.
<1>b. ASSUME NEW t \in Tx, work[t] # <<>>, undo' = undo \ LogsIn(t, Head(work[t])),
             pc[t] \notin PhaseOne \cup {"idle"}, pc'[t] \in {"committing", "rolling"},
             pc'[t] = "committing" <=> pc[t] = "committing", pc[t] # "over",
             work'[t] = Tail(work[t]), UNCHANGED <<last, stale, up, decided, stmt, branches, orphaned, todo>>,
             \A u \in Tx \ {t} : pc'[u] = pc[u] /\ work'[u] = work[u]
      PROVE  CoverInv'
  <2>1. ASSUME NEW e \in undo', e.row \notin orphaned' PROVE Owed(e)'
    <3>1. e \in undo /\ Owed(e)
      BY <1>b, <2>1 DEF CoverInv
    <3>2. CASE e.xid = t
      <4>1. DbOf[e.row] # Head(work[t])
        BY <1>b, <2>1, <3>1, <3>2 DEF LogsIn, Logs
      <4>2. Among(DbOf[e.row], work[t]) => Among(DbOf[e.row], work'[t])
        BY <1>b, <4>1, TailAmong
      <4> QED
        BY <1>b, <3>1, <3>2, <4>2 DEF Owed, Covered, ToCommit
    <3>3. CASE e.xid # t
      BY <1>b, <3>1, <3>3 DEF Owed, Covered, ToCommit
    <3> QED
      BY <3>2, <3>3
  <2>2. ASSUME NEW u \in Tx PROVE Placed(u)'
    BY <1>b DEF CoverInv, Placed, ToCommit, PhaseOne
  <2>3. ASSUME NEW r \in Row, last'[r] # Nobody
        PROVE  /\ pc'[last'[r]] # "idle"
               /\ pc'[last'[r]] \in PhaseOne /\ r \notin stale' => Mine(r)' # {}
    <3>1. last'[r] = last[r] /\ last[r] \in Tx
      BY <1>b, <2>3
    <3>2. pc[last[r]] # "idle" /\ (pc[last[r]] \in PhaseOne /\ r \notin stale => Mine(r) # {})
      BY <2>3, <3>1 DEF CoverInv
    <3>3. CASE last[r] = t
      BY <1>b, <3>1, <3>3 DEF PhaseOne
    <3>4. CASE last[r] # t
      <4>1. Mine(r)' = Mine(r)
        BY <1>b, <3>4 DEF Mine, LogsIn, Logs
      <4> QED
        BY <1>b, <3>1, <3>2, <3>4, <4>1
    <3> QED
      BY <3>3, <3>4
  <2> QED
    BY <2>1, <2>2, <2>3 DEF CoverInv
<1>c. \A t \in Tx : Placed(t) /\ \A e \in Logs(t) : e \in undo /\ e.xid = t
  BY DEF CoverInv, Logs
<1>1. ASSUME NEW t \in Tx, Begin(t) PROVE CoverInv'
  <2>1. Logs(t) = {}
    BY <1>1 DEF Begin, LockInv, Logs
  <2>2. Placed(t)'
    BY <1>1, <1>c DEF Begin, Placed, ToCommit
  <2> QED
    BY <1>1, <1>a, <2>1, <2>2 DEF Begin, PhaseOne
<1>2. ASSUME NEW t \in Tx, Image(t) PROVE CoverInv'
  <2>1. /\ pc[t] = "business" /\ pc' = [pc EXCEPT ![t] = "lock"]
        /\ \A u \in Tx \ {t} : stmt'[u] = stmt[u]
        /\ UNCHANGED <<undo, last, stale, up, orphaned, work, branches, decided, todo>>
    BY <1>2 DEF Image
  <2>2. Placed(t)'
    BY <2>1, <1>c DEF Placed, ToCommit, PhaseOne
  <2>3. pc'[t] \in PhaseOne /\ pc[t] \in PhaseOne
    BY <2>1 DEF PhaseOne
  <2>4. ASSUME NEW e \in Logs(t), Owed(e)
        PROVE  Covered(e)' /\ (ToCommit(t)' => pc'[t] = "committing")
    BY <1>c, <2>1, <2>3, <2>4 DEF Owed, Covered, ToCommit, Placed
  <2> QED
    BY <1>a, <2>1, <2>2, <2>3, <2>4
<1>3. ASSUME NEW t \in Tx, Acquire(t) PROVE CoverInv'
  <2>1. /\ pc[t] = "lock" /\ \E l \in {"write", "business"} : pc' = [pc EXCEPT ![t] = l]
        /\ \A u \in Tx \ {t} : stmt'[u] = stmt[u]
        /\ UNCHANGED <<undo, last, stale, up, orphaned, work, branches, decided, todo>>
    BY <1>3 DEF Acquire
  <2>2. Placed(t)'
    BY <2>1, <1>c DEF Placed, ToCommit, PhaseOne
  <2>3. pc'[t] \in PhaseOne /\ pc[t] \in PhaseOne
    BY <2>1 DEF PhaseOne
  <2>4. ASSUME NEW e \in Logs(t), Owed(e)
        PROVE  Covered(e)' /\ (ToCommit(t)' => pc'[t] = "committing")
    BY <1>c, <2>1, <2>3, <2>4 DEF Owed, Covered, ToCommit, Placed
  <2> QED
    BY <1>a, <2>1, <2>2, <2>3, <2>4
<1>4. ASSUME NEW t \in Tx, Register(t) PROVE CoverInv'
  <2>1. /\ pc[t] = "write" /\ \E l \in {"staged", "bare"} : pc' = [pc EXCEPT ![t] = l]
        /\ \A u \in Tx \ {t} : branches'[u] = branches[u]
        /\ UNCHANGED <<undo, last, stale, up, orphaned, work, stmt, decided, todo>>
    BY <1>4 DEF Register
  <2>2. /\ pc'[t] = "staged" => Among(DbOf[stmt[t].row], branches'[t])
        /\ \A d : Among(d, branches[t]) => Among(d, branches'[t])
    BY <1>4, RegisterAdds
  <2>3. Placed(t)'
    BY <2>1, <2>2, <1>c DEF Placed, ToCommit, PhaseOne
  <2>4. pc'[t] \in PhaseOne /\ pc[t] \in PhaseOne
    BY <2>1 DEF PhaseOne
  <2>5. ASSUME NEW e \in Logs(t), Owed(e)
        PROVE  Covered(e)' /\ (ToCommit(t)' => pc'[t] = "committing")
    BY <1>c, <2>1, <2>2, <2>4, <2>5 DEF Owed, Covered, ToCommit, Placed
  <2> QED
    BY <1>a, <2>1, <2>3, <2>4, <2>5
<1>5. ASSUME NEW t \in Tx, LocalCommit(t) PROVE CoverInv'
  <2> DEFINE r == stmt[t].row
             new == LogOf(t)
  <2>1. /\ pc[t] \in {"staged", "bare"} /\ pc' = [pc EXCEPT ![t] = "business"] /\ r \in Row
        /\ \/ undo' = undo /\ pc[t] = "bare"
           \/ undo' = undo \cup {new} /\ pc[t] = "staged"
        /\ \A u \in Tx \ {t} : stmt'[u] = stmt[u]
        /\ UNCHANGED <<branches, work, up, todo, decided, orphaned>>
    BY <1>5 DEF LocalCommit
  <2>2. new.xid = t /\ new.row = r /\ (Blind(new) <=> Blind(stmt[t]))
    BY DEF LogOf, Blind
  <2>3. /\ up = "up" /\ ~ToCommit(t)
        /\ pc[t] = "staged" => Among(DbOf[r], branches[t])
        /\ Blind(stmt[t]) \/ owner[r] = t
        /\ pc[t] = "bare" => Blind(stmt[t])
    BY <2>1, <1>c DEF LockInv, Placed, PhaseOne, BookInv, Pending
  <2>4. \/ UNCHANGED <<last, stale>> /\ Blind(stmt[t])
        \/ /\ last' = [last EXCEPT ![r] = t]
           /\ \A q \in Row : q # r /\ q \notin stale' => q \notin stale
           /\ Blind(stmt[t]) => r \in stale'
    BY <1>5, CommitHistory
  <2> HIDE DEF new, r
  <2>5. ASSUME NEW e \in undo', e.row \notin orphaned' PROVE Owed(e)'
    <3>1. CASE e \notin undo
      <4>1. e = new /\ pc[t] = "staged"
        BY <2>1, <2>5, <3>1
      <4>2. ~Blind(e) => last'[e.row] = t
        BY <2>1, <2>2, <2>4, <4>1
      <4> QED
        BY <2>1, <2>2, <2>3, <4>1, <4>2 DEF Owed, Covered, ToCommit, PhaseOne
    <3>2. CASE e \in undo
      <4>1. Owed(e) /\ e.xid \in Tx /\ e.row \in Row
        BY <2>1, <2>5, <3>2 DEF CoverInv
      <4>2. ~Blind(e) => owner[e.row] = e.xid
        BY <2>3, <3>2, <4>1 DEF Owed, Covered, PhaseOne, LockInv, LogsAreLocked
      <4>3. ~Blind(e) /\ e.row \notin stale' => e.xid = last'[e.row]
        <5>1. CASE e.row = r /\ ~UNCHANGED <<last, stale>>
          BY <2>1, <2>3, <2>4, <4>2, <5>1
        <5>2. CASE e.row # r \/ UNCHANGED <<last, stale>>
          BY <2>4, <4>1, <5>2 DEF Owed
        <5> QED
          BY <5>1, <5>2
      <4>4. /\ e.xid = t => pc[e.xid] \in PhaseOne /\ pc'[e.xid] \in PhaseOne /\ up # "recovering"
            /\ e.xid # t => pc'[e.xid] = pc[e.xid]
        BY <2>1, <2>3, <4>1 DEF PhaseOne
      <4> QED
        BY <2>1, <4>1, <4>3, <4>4 DEF Owed, Covered, ToCommit, PhaseOne
    <3> QED
      BY <3>1, <3>2
  <2>6. ASSUME NEW u \in Tx PROVE Placed(u)'
    BY <1>c, <2>1, <2>3 DEF Placed, ToCommit, PhaseOne
  <2>7. ASSUME NEW q \in Row, last'[q] # Nobody
        PROVE  /\ pc'[last'[q]] # "idle"
               /\ pc'[last'[q]] \in PhaseOne /\ q \notin stale' => Mine(q)' # {}
    <3>1. CASE q = r /\ ~UNCHANGED <<last, stale>>
      <4>1. last'[q] = t /\ pc'[t] = "business"
        BY <2>1, <2>4, <3>1
      <4>2. q \notin stale' => new \in Mine(q)'
        BY <2>1, <2>2, <2>3, <2>4, <3>1, <4>1 DEF Mine
      <4> QED
        BY <4>1, <4>2
    <3>2. CASE q # r \/ UNCHANGED <<last, stale>>
      <4>1. last'[q] = last[q] /\ (q \notin stale' => q \notin stale)
        BY <2>4, <3>2
      <4>2. Mine(q) \subseteq Mine(q)'
        BY <2>1, <4>1 DEF Mine
      <4>3. pc[last[q]] # "idle" /\ (pc[last[q]] \in PhaseOne /\ q \notin stale => Mine(q) # {})
        BY <2>7, <4>1 DEF CoverInv
      <4> QED
        BY <2>1, <2>7, <4>1, <4>2, <4>3 DEF PhaseOne
    <3> QED
      BY <3>1, <3>2
  <2> QED
    BY <2>5, <2>6, <2>7 DEF CoverInv
<1>6. ASSUME NEW t \in Tx, LocalAbort(t) PROVE CoverInv'
  <2>1. /\ pc[t] \in {"write", "staged", "bare"} /\ pc' = [pc EXCEPT ![t] = "business"]
        /\ \A u \in Tx \ {t} : stmt'[u] = stmt[u]
        /\ UNCHANGED <<undo, last, stale, up, orphaned, work, branches, decided, todo>>
    BY <1>6 DEF LocalAbort
  <2>2. Placed(t)'
    BY <2>1, <1>c DEF Placed, ToCommit, PhaseOne
  <2>3. pc'[t] \in PhaseOne /\ pc[t] \in PhaseOne
    BY <2>1 DEF PhaseOne
  <2>4. ASSUME NEW e \in Logs(t), Owed(e)
        PROVE  Covered(e)' /\ (ToCommit(t)' => pc'[t] = "committing")
    BY <1>c, <2>1, <2>3, <2>4 DEF Owed, Covered, ToCommit, Placed
  <2> QED
    BY <1>a, <2>1, <2>2, <2>3, <2>4
<1>7. ASSUME NEW t \in Tx, Resolve(t) PROVE CoverInv'
  <2>1. /\ pc[t] = "business" /\ UNCHANGED <<undo, last, stale, up, orphaned, stmt, todo>>
        /\ \/ pc'[t] = "committing" /\ decided'[t] = "commit"
           \/ pc'[t] = "rolling" /\ decided'[t] = "rollback"
        /\ \A u \in Tx \ {t} : /\ pc'[u] = pc[u] /\ work'[u] = work[u] /\ decided'[u] = decided[u]
                                /\ branches'[u] = branches[u]
    BY <1>7 DEF Resolve
  <2>2. work'[t] \in {branches[t], Backward(branches[t])} /\ up = "up"
    BY <1>7 DEF Resolve, LockInv
  <2>3. \A d : Among(d, branches[t]) => Among(d, work'[t])
    BY <2>2, BackwardAmong
  <2>4. Placed(t)'
    BY <2>1 DEF Placed, ToCommit, PhaseOne
  <2>5. ASSUME NEW e \in Logs(t), Owed(e)
        PROVE  Covered(e)' /\ (ToCommit(t)' => pc'[t] = "committing")
    BY <1>c, <2>1, <2>2, <2>3, <2>5 DEF Owed, Covered, ToCommit
  <2>6. pc'[t] \notin PhaseOne \cup {"idle"}
    BY <2>1 DEF PhaseOne
  <2> QED
    BY <1>a, <2>1, <2>4, <2>5, <2>6
<1>8. ASSUME NEW t \in Tx, CommitBranch(t) PROVE CoverInv'
  <2>1. /\ pc[t] = "committing" /\ work[t] # <<>>
        /\ UNCHANGED <<pc, last, stale, up, decided, stmt, branches, todo>>
    BY <1>8 DEF CommitBranch
  <2>2. CASE undo' = undo \ LogsIn(t, Head(work[t])) /\ NextBranch(t) /\ UNCHANGED orphaned
    BY <1>b, <2>1, <2>2 DEF NextBranch, PhaseOne
  <2>3. CASE AttemptFails(t) /\ UNCHANGED undo
    <3>1. Placed(t)'
      BY <1>c, <2>1, <2>3 DEF Placed, ToCommit, PhaseOne
    <3>2. up = "up"
      BY <2>1 DEF LockInv
    <3>3. ASSUME NEW e \in Logs(t), e.row \notin orphaned', Owed(e) PROVE Covered(e)'
      BY <1>c, <2>1, <2>3, <3>2, <3>3, AttemptCovers DEF Owed, Covered, PhaseOne
    <3>4. /\ orphaned \subseteq orphaned' /\ pc'[t] \notin PhaseOne \cup {"idle"}
          /\ \A u \in Tx \ {t} : work'[u] = work[u]
      BY <2>1, <2>3, AttemptCovers, AttemptType DEF PhaseOne
    <3> QED
      BY <1>a, <2>1, <2>3, <3>1, <3>3, <3>4
  <2> QED
    BY <1>8, <2>2, <2>3 DEF CommitBranch
<1>9. ASSUME NEW t \in Tx, LoadLogs(t) PROVE CoverInv'
  <2>1. /\ pc[t] = "rolling" /\ pc' = [pc EXCEPT ![t] = "replaying"]
        /\ UNCHANGED <<undo, last, stale, up, orphaned, work, stmt, branches, decided, todo>>
    BY <1>9 DEF LoadLogs
  <2>2. Placed(t)'
    BY <2>1 DEF Placed, PhaseOne
  <2>3. pc[t] \notin PhaseOne /\ pc'[t] \notin PhaseOne
    BY <2>1 DEF PhaseOne
  <2>4. ASSUME NEW e \in Logs(t), Owed(e)
        PROVE  Covered(e)' /\ (ToCommit(t)' => pc'[t] = "committing")
    BY <2>1, <2>3, <2>4 DEF Owed, Covered, ToCommit, Logs
  <2> QED
    BY <1>a, <2>1, <2>2, <2>3, <2>4
<1>10. ASSUME NEW t \in Tx, Restore(t) PROVE CoverInv'
  <2>1. UNCHANGED <<pc, undo, last, stale, up, orphaned, work, stmt, branches, decided, todo>>
    BY <1>10 DEF Restore
  <2> QED
    BY <2>1 DEF CoverInv, Owed, Covered, ToCommit, Placed, Mine
<1>11. ASSUME NEW t \in Tx, DropLogs(t) PROVE CoverInv'
  <2>1. work[t] # <<>>
    BY <1>11 DEF DropLogs, TypeInv, Replaying
  <2> QED
    BY <1>11, <1>b, <2>1 DEF DropLogs, NextBranch, PhaseOne
<1>12. ASSUME NEW t \in Tx, RollbackFails(t) PROVE CoverInv'
  <2>1. /\ pc[t] \in {"rolling", "replaying"} /\ work[t] # <<>> /\ AttemptFails(t)
        /\ pc' = [pc EXCEPT ![t] = "rolling"]
        /\ UNCHANGED <<undo, last, stale, up, decided, stmt, branches, todo>>
    BY <1>12 DEF RollbackFails, TypeInv, Replaying
  <2>2. Placed(t)'
    BY <2>1 DEF Placed, PhaseOne
  <2>3. ASSUME NEW e \in Logs(t), e.row \notin orphaned', Owed(e)
        PROVE  Covered(e)' /\ (ToCommit(t)' => pc'[t] = "committing")
    BY <1>c, <2>1, <2>3, AttemptCovers DEF Owed, Covered, PhaseOne, ToCommit
  <2>4. /\ orphaned \subseteq orphaned' /\ pc'[t] \notin PhaseOne \cup {"idle"}
        /\ \A u \in Tx \ {t} : work'[u] = work[u] /\ pc'[u] = pc[u]
    BY <2>1, AttemptCovers, AttemptType DEF PhaseOne
  <2> QED
    BY <1>a, <2>1, <2>2, <2>3, <2>4
<1>13. ASSUME NEW t \in Tx, Release(t) PROVE CoverInv'
  <2>1. /\ up = "up" /\ pc[t] \in {"committing", "rolling"} /\ work[t] = <<>>
        /\ pc' = [pc EXCEPT ![t] = "over"]
        /\ decided' = [decided EXCEPT ![t] = IF @ = "commit" THEN "committed" ELSE @]
        /\ UNCHANGED <<undo, last, stale, up, orphaned, work, stmt, branches, todo>>
    BY <1>13 DEF Release
  <2>2. Placed(t)'
    BY <2>1 DEF Placed, PhaseOne
  <2>3. \A e \in Logs(t) : ~Owed(e)
    BY <1>c, <2>1 DEF Owed, Covered, PhaseOne, Among
  <2> QED
    BY <1>a, <2>1, <2>2, <2>3 DEF PhaseOne
<1>14. ASSUME NEW t \in Tx, Recover(t) PROVE CoverInv'
  <2>1. PICK d \in Db : todo' = todo \ {<<d, t>>} /\ work' = [work EXCEPT ![t] = <<d>>]
    BY <1>14 DEF Recover
  <2>2. /\ up = "recovering" /\ \A u \in Tx : pc[u] \notin {"rolling", "replaying"}
        /\ pc' = [pc EXCEPT ![t] = "rolling"]
        /\ UNCHANGED <<undo, last, stale, up, orphaned, stmt, branches, decided>>
    BY <1>14 DEF Recover, Idle
  <2>3. Placed(t)'
    BY <2>2 DEF Placed, PhaseOne
  <2>4. Among(d, work'[t])
    <3>1. work'[t] = <<d>> /\ Len(<<d>>) = 1 /\ <<d>>[1] = d /\ 1 \in 1..1
      BY <2>1
    <3> QED
      BY <3>1 DEF Among
  <2>5. ASSUME NEW e \in Logs(t), Owed(e)
        PROVE  Covered(e)' /\ (ToCommit(t)' => pc'[t] = "committing")
    BY <1>c, <2>1, <2>2, <2>4, <2>5 DEF Owed, Covered, ToCommit, LockInv
  <2> QED
    BY <1>a, <2>1, <2>2, <2>3, <2>5 DEF PhaseOne
<1>15. ASSUME NEW t \in Tx, Recovered(t) PROVE CoverInv'
  <2>1. /\ up = "recovering" /\ pc[t] = "rolling" /\ work[t] = <<>>
        /\ pc' = [pc EXCEPT ![t] = "over"]
        /\ UNCHANGED <<undo, last, stale, up, orphaned, work, stmt, branches, decided, todo>>
    BY <1>15 DEF Recovered
  <2>2. Placed(t)'
    BY <2>1 DEF Placed, PhaseOne
  <2>3. \A d : ~Among(d, work[t])
    BY <2>1 DEF Among
  <2>4. ASSUME NEW e \in Logs(t), Owed(e)
        PROVE  Covered(e)' /\ (ToCommit(t)' => pc'[t] = "committing")
    BY <1>c, <2>1, <2>3, <2>4 DEF Owed, Covered, ToCommit
  <2> QED
    BY <1>a, <2>1, <2>2, <2>4 DEF PhaseOne
<1>16. CASE Boot
  <2>1. PICK skipped \in SUBSET Db :
            /\ todo' = {p \in (Db \ skipped) \X Tx : LogsIn(p[2], p[1]) # {}}
            /\ orphaned' = orphaned \cup {e.row : e \in {f \in undo : DbOf[f.row] \in skipped}}
    BY <1>16 DEF Boot
  <2>2. up' = "recovering" /\ UNCHANGED <<undo, last, stale, pc, work, stmt, branches, decided>>
    BY <1>16 DEF Boot
  <2>3. ASSUME NEW e \in undo', e.row \notin orphaned' PROVE Owed(e)'
    <3>1. e \in undo /\ Owed(e) /\ DbOf[e.row] \in Db \ skipped
      BY <2>1, <2>2, <2>3 DEF CoverInv
    <3>2. e \in LogsIn(e.xid, DbOf[e.row])
      BY <3>1 DEF LogsIn, Logs
    <3>3. <<DbOf[e.row], e.xid>> \in todo'
      BY <2>1, <3>1, <3>2
    <3> QED
      BY <2>2, <3>1, <3>3 DEF Owed, Covered, ToCommit
  <2> QED
    BY <2>2, <2>3 DEF CoverInv, Placed, ToCommit, Mine
<1>17. CASE Serve
  <2>1. /\ up = "recovering" /\ todo = {} /\ up' = "up"
        /\ \A u \in Tx : pc[u] \notin {"rolling", "replaying"}
        /\ UNCHANGED <<undo, last, stale, pc, orphaned, work, stmt, branches, decided>>
    BY <1>17 DEF Serve, Idle
  <2>2. \A e \in undo : ~Owed(e)
    BY <2>1 DEF Owed, Covered
  <2> QED
    BY <2>1, <2>2 DEF CoverInv, Placed, ToCommit, Mine
<1>18. CASE Crash
  <2>1. /\ up' = "down" /\ pc' = [t \in Tx |-> IF pc[t] = "idle" THEN "idle" ELSE "over"]
        /\ orphaned' = orphaned \cup {e.row : e \in {f \in undo : pc[f.xid] = "committing"}}
        /\ UNCHANGED <<undo, last, stale, decided>>
    BY <1>18 DEF Crash
  <2>2. ASSUME NEW e \in undo', e.row \notin orphaned' PROVE Owed(e)'
    <3>1. e \in undo /\ Owed(e) /\ pc[e.xid] # "committing"
      BY <2>1, <2>2 DEF CoverInv
    <3> QED
      BY <2>1, <3>1 DEF Owed, Covered, ToCommit
  <2>3. ASSUME NEW t \in Tx PROVE Placed(t)'
    BY <1>c, <2>1 DEF Placed, ToCommit, PhaseOne
  <2> QED
    BY <2>1, <2>2, <2>3 DEF CoverInv, PhaseOne
<1>19. CASE UNCHANGED vars
  BY <1>19 DEF vars, CoverInv, Owed, Covered, ToCommit, Placed, Mine
<1> QED
  BY <1>1, <1>2, <1>3, <1>4, <1>5, <1>6, <1>7, <1>8, <1>9, <1>10, <1>11, <1>12, <1>13,
     <1>14, <1>15, <1>16, <1>17, <1>18, <1>19 DEF Next, Proceed, AllOver

\* Who takes care of an undo log: its transaction, the recovery, or the operator
\* (at/at.go:243, starter-transaction-at-gorm/recovery.go:90).  A log that would
\* put its row back is the last writer's, unless a statement with an empty image
\* came in between.
THEOREM Coverage == Spec => []CoverInv
<1>1. Init => CoverInv
  BY DEF Init, CoverInv, Placed, ToCommit, PhaseOne
<1> QED
  BY <1>1, CoverSteps, Typing, Locking, Books, PTL DEF Spec

\* A row is right after a step that leaves alone what it depends on.
LEMMA RowStays ==
    ASSUME NEW r \in Row, RowIsRight(r), Mine(r)' = Mine(r),
           UNCHANGED <<last[r], row[r], left[r], orig[r]>>,
           Mine(r) = {} => (ToCommit(last[r])' <=> ToCommit(last[r])),
           pc'[last[r]] \in PhaseOne \cup {"committing"} =>
               pc[last[r]] \in PhaseOne \cup {"committing"},
           pc'[last[r]] = "replaying" =>
               /\ pc[last[r]] = "replaying" /\ work'[last[r]] = work[last[r]]
               /\ Remaining(r)' = Remaining(r)
    PROVE  RowIsRight(r)'
<1>1. last'[r] = last[r] /\ row'[r] = row[r] /\ left'[r] = left[r] /\ orig'[r] = orig[r]
  OBVIOUS
<1>2. (Mine(r) = {} => row[r] = IF ToCommit(last[r]) THEN left[r] ELSE orig[r])'
  BY <1>1 DEF RowIsRight, ToCommit
<1>3. (pc[last[r]] \in PhaseOne \cup {"committing"} => row[r] = left[r])'
  BY <1>1 DEF RowIsRight
<1>4. (Updates(Mine(r)) => row[r] # None)'
  BY <1>1 DEF RowIsRight, Updates
<1>5. (\A e \in Mine(r) : IF Older(e, Mine(r)) = {} THEN e.before = orig[r]
                          ELSE Updates(Older(e, Mine(r))) => e.before # None)'
  BY <1>1 DEF RowIsRight, Updates, Older
<1>6. (pc[last[r]] = "replaying" /\ Head(work[last[r]]) = DbOf[r] =>
          /\ Updates(Remaining(r)) => row[r] # None
          /\ Mine(r) # {} /\ Remaining(r) = {} => row[r] = orig[r])'
  BY <1>1 DEF RowIsRight, Updates
<1> QED
  BY <1>2, <1>3, <1>4, <1>5, <1>6 DEF RowIsRight

\* A statement is committed locally: the row it changes is right.
LEMMA CommitKeepsRight ==
    ASSUME TypeInv, LockInv, BookInv, CoverInv, NEW t \in Tx, LocalCommit(t), ~Missed(t),
           NEW r \in Row, r = stmt[t].row, r \notin orphaned, r \notin stale',
           last[r] = t => RowIsRight(r)
    PROVE  RowIsRight(r)'
<1> DEFINE s == stmt[t]
           v == IF s.kind = "delete" \/ (s.kind = "update" /\ row[r] = None) THEN None ELSE t
           new == LogOf(t)
<1>1. /\ s.row = r /\ s.n \in Nat /\ s.kind \in Kind /\ t # None
      /\ row \in [Row -> Value] /\ last \in [Row -> Tx \cup {Nobody}]
      /\ left \in [Row -> Value] /\ orig \in [Row -> Value]
      /\ \A e \in undo : e.xid \in Tx /\ e.n \in Nat
      /\ pc \in [Tx -> {"idle", "business", "lock", "write", "staged", "bare",
                        "committing", "rolling", "replaying", "over"}]
  BY AutoTxAssumption DEF TypeInv, TypeOK, Entry
<1>3. row[r] = s.before
  <2>1. row[r] # s.before => r \in stale'
    BY DEF LocalCommit
  <2> QED
    BY <2>1
<1>a. ~Blind(s)
  BY <1>3 DEF Missed, Blind
<1>b. pc[t] = "staged"
  BY <1>a DEF LocalCommit, BookInv, Pending
<1>2. /\ pc' = [pc EXCEPT ![t] = "business"]
      /\ row' = [row EXCEPT ![r] = v] /\ undo' = undo \cup {new}
      /\ last' = [last EXCEPT ![r] = t] /\ left' = [left EXCEPT ![r] = v]
      /\ orig' = IF last[r] = t THEN orig ELSE [orig EXCEPT ![r] = row[r]]
      /\ r \notin stale \/ (last[r] # t /\ \A e \in Logs(t) : e.row # r)
  BY <1>b, <1>3 DEF LocalCommit, Goto, Done
<1>4. /\ s.kind = "insert" <=> s.before = None
      /\ \A e \in undo : e.xid = t => e.n < s.n
  BY <1>a, <1>b DEF BookInv, Pending, Logs, Blind
<1>5. \A e \in undo : e.row = r /\ ~Blind(e) /\ e.xid = t => last[r] = t
  BY <1>2 DEF CoverInv, Owed, Logs
<1> HIDE DEF s, v, new
<1>6. /\ row'[r] = v /\ last'[r] = t /\ left'[r] = v /\ pc'[t] = "business"
      /\ orig'[r] = IF last[r] = t THEN orig[r] ELSE row[r]
  BY <1>1, <1>2
<1>7. /\ new.kind = s.kind /\ new.n = s.n /\ new.before = s.before /\ new.row = r /\ new.xid = t
      /\ ~Blind(new)
  BY <1>a DEF new, LogOf, s, Blind
<1>8. s.kind = "update" => v # None
  BY <1>1, <1>3, <1>4 DEF v
<1>9. Mine(r)' = IF last[r] = t THEN Mine(r) \cup {new} ELSE {new}
  BY <1>2, <1>5, <1>6, <1>7 DEF Mine
<1>10. \A e \in Mine(r) : e \in undo /\ e.n \in Nat /\ (last[r] = t => e.n < new.n)
  BY <1>1, <1>4, <1>7 DEF Mine
<1>11. (\A e \in Mine(r) : IF Older(e, Mine(r)) = {} THEN e.before = orig[r]
                          ELSE Updates(Older(e, Mine(r))) => e.before # None)'
  <2>1. CASE last[r] # t
    <3>1. Mine(r)' = {new} /\ orig'[r] = new.before /\ new.n \in Nat
      BY <1>1, <1>3, <1>6, <1>7, <1>9, <2>1
    <3>2. Older(new, {new}) = {}
      BY <3>1 DEF Older
    <3> QED
      BY <3>1, <3>2 DEF Older
  <2>2. CASE last[r] = t
    <3>1. Mine(r) # {} /\ RowIsRight(r)
      BY <1>1, <1>2, <1>b, <2>2, AutoTxAssumption DEF CoverInv, PhaseOne
    <3>2. ASSUME NEW e \in Mine(r)
          PROVE  Older(e, Mine(r) \cup {new}) = Older(e, Mine(r))
      <4>1. ~(new.n < e.n) /\ new.n \in Nat
        BY <1>1, <1>7, <1>10, <2>2
      <4> QED
        BY <4>1 DEF Older
    <3>3. Older(new, Mine(r) \cup {new}) = Mine(r)
      BY <1>1, <1>7, <1>10, <2>2 DEF Older
    <3>4. Updates(Mine(r)) => new.before # None
      BY <1>3, <1>7, <3>1 DEF RowIsRight
    <3>5. \A e \in Mine(r) : IF Older(e, Mine(r)) = {} THEN e.before = orig'[r]
                             ELSE Updates(Older(e, Mine(r))) => e.before # None
      BY <1>6, <2>2, <3>1 DEF RowIsRight
    <3>6. \A e \in Mine(r) \cup {new} :
              IF Older(e, Mine(r) \cup {new}) = {} THEN e.before = orig'[r]
              ELSE Updates(Older(e, Mine(r) \cup {new})) => e.before # None
      BY <3>1, <3>2, <3>3, <3>4, <3>5
    <3> QED
      BY <1>9, <2>2, <3>6 DEF Older, Updates
  <2> QED
    BY <2>1, <2>2
<1>12. (Updates(Mine(r)) => row[r] # None)'
  BY <1>6, <1>7, <1>8, <1>9 DEF Updates
<1>13. (Mine(r) # {})'
  BY <1>9
<1> QED
  BY <1>6, <1>11, <1>12, <1>13 DEF RowIsRight

\* A log is replayed: its row is right.
LEMMA RestoreKeepsRight ==
    ASSUME TypeInv, BookInv, CoverInv, NEW t \in Tx, pc[t] = "replaying",
           NEW e \in replay[t], \A f \in replay[t] : f.n <= e.n, ~Refused(e), ~Blind(e),
           row' = [row EXCEPT ![e.row] = Restored(e)],
           replay' = [replay EXCEPT ![t] = @ \ {e}],
           UNCHANGED <<undo, pc, work, decided, last, orig, left>>,
           e.row \notin orphaned, e.row \notin stale, RowIsRight(e.row)
    PROVE  RowIsRight(e.row)'
<1> DEFINE r == e.row
           M == Mine(r)
           R == Remaining(r)
           O == Older(e, M)
<1>1. /\ e \in undo /\ e.xid = t /\ DbOf[r] = Head(work[t]) /\ r \in Row /\ e.kind \in Kind
      /\ row \in [Row -> Value] /\ replay \in [Tx -> SUBSET Entry]
      /\ \A f \in undo : f.n \in Nat
  BY DEF BookInv, Ordered, LogsIn, Logs, TypeInv, TypeOK, Entry
<1>2. last[r] = t
  BY <1>1 DEF CoverInv, Owed
<1>3. /\ e.kind = "insert" <=> e.before = None
      /\ \A f \in undo : f.xid = t /\ f.n = e.n => f = e
  BY <1>1 DEF BookInv, Blind
<1>4. /\ e \in M /\ e \in R /\ R = {f \in replay[t] : f.row = r /\ ~Blind(f)}
      /\ M = {f \in undo : f.row = r /\ f.xid = t /\ ~Blind(f)}
  BY <1>1, <1>2 DEF Mine, Remaining
<1>5. R \ {e} = O
  <2>1. ASSUME NEW f \in R \ {e} PROVE f \in O
    <3>1. f \in undo /\ f.xid = t /\ f.row = r /\ f.n <= e.n /\ ~Blind(f)
      BY <1>1, <1>4 DEF BookInv, Ordered, LogsIn, Logs
    <3>2. f.n # e.n /\ f.n \in Nat /\ e.n \in Nat
      BY <1>1, <1>3, <2>1, <3>1
    <3> QED
      BY <1>4, <3>1, <3>2 DEF Older
  <2>2. ASSUME NEW f \in O PROVE f \in R \ {e}
    <3>1. f \in undo /\ f.xid = t /\ f.row = r /\ f.n < e.n /\ ~Blind(f)
      BY <1>4 DEF Older
    <3>2. f \in Older(e, LogsIn(t, Head(work[t])))
      BY <1>1, <3>1 DEF Older, LogsIn, Logs
    <3>3. f \in replay[t]
      BY <3>2 DEF BookInv, Ordered
    <3>4. f # e
      BY <1>1, <3>1
    <3> QED
      BY <1>4, <3>1, <3>3, <3>4
  <2> QED
    BY <2>1, <2>2
<1>6. /\ Updates(M) => row[r] # None
      /\ IF O = {} THEN e.before = orig[r] ELSE Updates(O) => e.before # None
      /\ Updates(R) => row[r] # None
      /\ \A f \in M : IF Older(f, M) = {} THEN f.before = orig[r]
                      ELSE Updates(Older(f, M)) => f.before # None
  BY <1>1, <1>2, <1>4 DEF RowIsRight
<1> HIDE DEF r, M, R, O
<1>7. row'[r] = Restored(e) /\ row[e.row] = row[r]
  BY <1>1 DEF r
<1>8. /\ e.kind = "insert" => row'[r] = e.before
      /\ e.kind = "delete" => row'[r] = e.before
      /\ e.kind = "update" /\ row[r] # None => row'[r] = e.before
  BY <1>3, <1>7 DEF Restored
<1>9. Updates(M) => row'[r] # None
  BY <1>3, <1>4, <1>6, <1>8 DEF Updates
<1>10. Updates(O) => row'[r] # None
  <2>1. SUFFICES ASSUME Updates(O) PROVE row'[r] # None
    OBVIOUS
  <2>2. e.before # None
    BY <1>6, <2>1 DEF Updates
  <2>3. e.kind = "update" => row[r] # None
    BY <1>5, <1>6, <2>1 DEF Updates
  <2> QED
    BY <1>1, <1>8, <2>2, <2>3 DEF Kind
<1>11. O = {} => row'[r] = orig[r]
  <2>1. SUFFICES ASSUME O = {} PROVE row'[r] = orig[r]
    OBVIOUS
  <2>2. e.kind = "update" => row[r] # None
    BY <1>4, <1>5, <1>6, <2>1 DEF Updates
  <2> QED
    BY <1>1, <1>6, <1>8, <2>1, <2>2 DEF Kind
<1>12. Mine(r)' = M /\ Remaining(r)' = O
  <2>1. replay'[t] = replay[t] \ {e} /\ last'[r] = t
    BY <1>1, <1>2
  <2>2. Remaining(r)' = {f \in replay'[t] : f.row = r /\ ~Blind(f)}
    BY <2>1 DEF Remaining
  <2>3. Remaining(r)' = R \ {e}
    BY <1>4, <2>1, <2>2
  <2> QED
    BY <1>5, <2>3 DEF Mine, M
<1>13. M # {} /\ pc'[last'[r]] = "replaying" /\ orig'[r] = orig[r]
  BY <1>2, <1>4
<1>14. RowIsRight(r)'
  BY <1>6, <1>9, <1>10, <1>11, <1>12, <1>13 DEF RowIsRight, PhaseOne, Updates, Older
<1> QED
  BY <1>14 DEF r

\* Every step keeps the rows right.
LEMMA RowSteps ==
    ASSUME TypeInv, LockInv, BookInv, CoverInv, RowInv, [Next]_vars
    PROVE  RowInv'
<1>0. /\ pc \in [Tx -> {"idle", "business", "lock", "write", "staged", "bare",
                         "committing", "rolling", "replaying", "over"}]
      /\ work \in [Tx -> Seq(Db)] /\ replay \in [Tx -> SUBSET Entry]
      /\ decided \in [Tx -> {"none", "commit", "committed", "rollback"}]
      /\ row \in [Row -> Value] /\ left \in [Row -> Value] /\ orig \in [Row -> Value]
      /\ last \in [Row -> Tx \cup {Nobody}] /\ Nobody \notin Tx
      /\ stmt \in [Tx -> [n : Nat, row : Row, kind : Kind, before : Value]]
      /\ \A e \in undo : e.xid \in Tx /\ e.row \in Row
  BY AutoTxAssumption DEF TypeInv, TypeOK, Entry
<1> USE <1>0 DEF Goto, Done, db, coord, running, phase2, history
\* A step of t need only be looked at on the rows that t was the last to write.
<1>a. ASSUME NEW t \in Tx, UNCHANGED <<row, last, left, orig, stale>>, orphaned \subseteq orphaned',
             undo' \subseteq undo, \A e \in undo : e.xid # t => e \in undo',
             \A u \in Tx \ {t} : /\ pc'[u] = pc[u] /\ work'[u] = work[u]
                                 /\ replay'[u] = replay[u] /\ decided'[u] = decided[u],
             \A r \in Row \ (orphaned \cup stale) : last[r] = t /\ RowIsRight(r) => RowIsRight(r)'
      PROVE  RowInv'
  <2>1. SUFFICES ASSUME NEW r \in Row, r \notin orphaned, r \notin stale, last[r] # Nobody
                 PROVE  RowIsRight(r)'
    BY <1>a DEF RowInv
  <2>2. RowIsRight(r)
    BY <2>1 DEF RowInv
  <2>3. CASE last[r] = t
    BY <1>a, <2>1, <2>2, <2>3
  <2>4. CASE last[r] # t
    <3>1. Mine(r)' = Mine(r) /\ Remaining(r)' = Remaining(r) /\ last[r] \in Tx \ {t}
      BY <1>a, <2>1, <2>4 DEF Mine, Remaining
    <3>2. UNCHANGED <<last[r], row[r], left[r], orig[r]>>
      BY <1>a
    <3>3. ToCommit(last[r])' <=> ToCommit(last[r])
      BY <1>a, <3>1 DEF ToCommit
    <3> QED
      BY <1>a, <2>2, <3>1, <3>2, <3>3, RowStays
  <2> QED
    BY <2>3, <2>4
\* A step of t that neither restores a row nor drops a log.
<1>b. ASSUME NEW t \in Tx, UNCHANGED <<row, undo, last, left, orig, stale>>, orphaned \subseteq orphaned',
             \A u \in Tx \ {t} : /\ pc'[u] = pc[u] /\ work'[u] = work[u]
                                 /\ replay'[u] = replay[u] /\ decided'[u] = decided[u],
             pc'[t] \in PhaseOne \cup {"committing"} => pc[t] \in PhaseOne \cup {"committing", "idle"},
             pc'[t] # "replaying",
             pc[t] \in PhaseOne \/ (ToCommit(t)' <=> ToCommit(t))
      PROVE  RowInv'
  <2>1. ASSUME NEW r \in Row, last[r] = t, r \notin stale, RowIsRight(r) PROVE RowIsRight(r)'
    <3>1. Mine(r)' = Mine(r) /\ UNCHANGED <<last[r], row[r], left[r], orig[r]>>
      BY <1>b DEF Mine
    <3>2. pc[t] # "idle" /\ (pc[t] \in PhaseOne => Mine(r) # {})
      BY <2>1 DEF CoverInv
    <3>3. Mine(r) = {} => (ToCommit(last[r])' <=> ToCommit(last[r]))
      BY <1>b, <2>1, <3>2 DEF ToCommit
    <3> QED
      BY <1>b, <2>1, <3>1, <3>2, <3>3, RowStays
  <2> QED
    BY <1>a, <1>b, <2>1
\* A branch of t drops its logs.
<1>c. ASSUME NEW t \in Tx, undo' = undo \ LogsIn(t, Head(work[t])),
             UNCHANGED <<row, last, left, orig, stale, orphaned, decided>>,
             \A u \in Tx \ {t} : /\ pc'[u] = pc[u] /\ work'[u] = work[u] /\ replay'[u] = replay[u],
             \/ pc[t] = "committing" /\ pc'[t] = "committing"
             \/ pc[t] = "replaying" /\ pc'[t] = "rolling" /\ replay[t] = {}
      PROVE  RowInv'
  <2>1. ASSUME NEW r \in Row, last[r] = t, r \notin orphaned, RowIsRight(r) PROVE RowIsRight(r)'
    <3>1. last'[r] = last[r] /\ row'[r] = row[r] /\ left'[r] = left[r] /\ orig'[r] = orig[r]
          /\ (ToCommit(last[r])' <=> ToCommit(last[r]))
      BY <1>c DEF ToCommit
    <3>2. CASE DbOf[r] # Head(work[t])
      <4>1. Mine(r)' = Mine(r)
        BY <1>c, <2>1, <3>2 DEF Mine, LogsIn, Logs
      <4> QED
        BY <1>c, <2>1, <3>1, <4>1, RowStays DEF PhaseOne
    <3>3. CASE DbOf[r] = Head(work[t])
      <4>1. Mine(r)' = {}
        BY <1>c, <2>1, <3>1, <3>3 DEF Mine, LogsIn, Logs
      <4>2. row[r] = IF ToCommit(t) THEN left[r] ELSE orig[r]
        <5>1. CASE pc[t] = "committing"
          BY <2>1, <5>1 DEF RowIsRight, CoverInv, Placed
        <5>2. CASE pc[t] = "replaying" /\ replay[t] = {} /\ Mine(r) # {}
          <6>1. Remaining(r) = {}
            BY <2>1, <5>2 DEF Remaining
          <6>2. PICK e \in undo : e.row = r /\ e.xid = t
            BY <2>1, <5>2 DEF Mine
          <6>3. ~ToCommit(t)
            BY <2>1, <5>2, <6>2 DEF CoverInv, Owed
          <6> QED
            BY <2>1, <3>3, <5>2, <6>1, <6>3 DEF RowIsRight
        <5>3. CASE Mine(r) = {}
          BY <2>1, <5>3 DEF RowIsRight
        <5> QED
          BY <1>c, <5>1, <5>2, <5>3
      <4>3. (Mine(r) = {} => row[r] = IF ToCommit(last[r]) THEN left[r] ELSE orig[r])'
        BY <2>1, <3>1, <4>2 DEF ToCommit
      <4>4. (pc[last[r]] \in PhaseOne \cup {"committing"} => row[r] = left[r])'
        BY <1>c, <2>1, <3>1 DEF RowIsRight, PhaseOne
      <4>5. pc'[last'[r]] # "replaying"
        BY <1>c, <2>1, <3>1
      <4> QED
        BY <4>1, <4>3, <4>4, <4>5 DEF RowIsRight, Updates
    <3> QED
      BY <3>2, <3>3
  <2>2. undo' \subseteq undo /\ \A e \in undo : e.xid # t => e \in undo'
    BY <1>c DEF LogsIn, Logs
  <2> QED
    BY <1>a, <1>c, <2>1, <2>2
<1>1. ASSUME NEW t \in Tx, Begin(t) PROVE RowInv'
  BY <1>1, <1>b DEF Begin, PhaseOne, ToCommit
<1>2. ASSUME NEW t \in Tx, Image(t) PROVE RowInv'
  BY <1>2, <1>b DEF Image, PhaseOne, ToCommit
<1>3. ASSUME NEW t \in Tx, Acquire(t) PROVE RowInv'
  BY <1>3, <1>b DEF Acquire, PhaseOne, ToCommit
<1>4. ASSUME NEW t \in Tx, Register(t) PROVE RowInv'
  BY <1>4, <1>b DEF Register, PhaseOne, ToCommit
<1>5. ASSUME NEW t \in Tx, LocalCommit(t) PROVE RowInv'
  <2>1. SUFFICES ASSUME NEW r \in Row, r \notin orphaned', r \notin stale', last'[r] # Nobody
                 PROVE  RowIsRight(r)'
    BY DEF RowInv
  <2>2. orphaned' = orphaned
    BY <1>5 DEF LocalCommit
  <2>3. CASE r = stmt[t].row /\ ~Missed(t)
    <3>1. last[r] = t => r \notin stale
      BY <1>5, <2>1, <2>3 DEF LocalCommit
    <3>2. last[r] = t => RowIsRight(r)
      BY <2>1, <2>2, <3>1 DEF RowInv
    <3> QED
      BY <1>5, <2>1, <2>2, <2>3, <3>2, CommitKeepsRight
  <2>4. CASE r # stmt[t].row \/ Missed(t)
    <3>1. UNCHANGED <<last[r], row[r], left[r], orig[r], work, replay, decided>> /\ r \notin stale
      BY <1>5, <2>1, <2>4 DEF LocalCommit
    <3>2. Mine(r)' = Mine(r) /\ Remaining(r)' = Remaining(r)
      <4>1. /\ undo' \in {undo, undo \cup {LogOf(t)}}
            /\ LogOf(t).row # r \/ Blind(LogOf(t))
        BY <1>5, <2>4 DEF LocalCommit, LogOf, Missed, Blind
      <4> QED
        BY <3>1, <4>1 DEF Mine, Remaining
    <3>3. RowIsRight(r)
      BY <2>1, <2>2, <3>1 DEF RowInv
    <3>4. pc[t] \in {"staged", "bare"} /\ pc' = [pc EXCEPT ![t] = "business"]
      BY <1>5 DEF LocalCommit
    <3>5. ToCommit(last[r])' <=> ToCommit(last[r])
      BY <3>1 DEF ToCommit
    <3>6. /\ pc'[last[r]] \in PhaseOne \cup {"committing"} =>
                pc[last[r]] \in PhaseOne \cup {"committing"}
          /\ pc'[last[r]] = "replaying" => pc[last[r]] = "replaying"
          /\ work'[last[r]] = work[last[r]]
      BY <2>1, <3>1, <3>4 DEF PhaseOne
    <3> QED
      BY <3>1, <3>2, <3>3, <3>5, <3>6, RowStays
  <2> QED
    BY <2>3, <2>4
<1>6. ASSUME NEW t \in Tx, LocalAbort(t) PROVE RowInv'
  BY <1>6, <1>b DEF LocalAbort, PhaseOne, ToCommit
<1>7. ASSUME NEW t \in Tx, Resolve(t) PROVE RowInv'
  BY <1>7, <1>b DEF Resolve, PhaseOne
<1>8. ASSUME NEW t \in Tx, CommitBranch(t) PROVE RowInv'
  <2>1. /\ pc[t] = "committing" /\ work[t] # <<>>
        /\ UNCHANGED <<row, pc, replay, decided, last, orig, left, stale>>
    BY <1>8 DEF CommitBranch
  <2>2. CASE undo' = undo \ LogsIn(t, Head(work[t])) /\ NextBranch(t) /\ UNCHANGED orphaned
    BY <1>c, <2>1, <2>2 DEF NextBranch
  <2>3. CASE AttemptFails(t) /\ UNCHANGED undo
    BY <1>b, <2>1, <2>3, AttemptCovers, AttemptType DEF ToCommit
  <2> QED
    BY <1>8, <2>2, <2>3 DEF CommitBranch
<1>9. ASSUME NEW t \in Tx, LoadLogs(t) PROVE RowInv'
  <2>1. /\ pc[t] = "rolling" /\ pc' = [pc EXCEPT ![t] = "replaying"]
        /\ replay' = [replay EXCEPT ![t] = LogsIn(t, Head(work[t]))]
        /\ UNCHANGED <<row, undo, work, decided, last, orig, left, stale, orphaned>>
    BY <1>9 DEF LoadLogs
  <2>2. ASSUME NEW r \in Row, last[r] = t, RowIsRight(r) PROVE RowIsRight(r)'
    <3>1. /\ last'[r] = t /\ replay'[t] = LogsIn(t, Head(work[t])) /\ pc'[t] = "replaying"
          /\ Mine(r)' = Mine(r) /\ (ToCommit(t)' <=> ToCommit(t))
      BY <2>1, <2>2 DEF Mine, ToCommit
    <3>2. Head(work'[t]) = DbOf[r] => Remaining(r)' = Mine(r)
      BY <2>1, <2>2, <3>1 DEF Remaining, Mine, LogsIn, Logs
    <3>3. (Mine(r) = {} => row[r] = IF ToCommit(last[r]) THEN left[r] ELSE orig[r])'
      BY <2>1, <2>2, <3>1 DEF RowIsRight, ToCommit
    <3>4. (pc[last[r]] = "replaying" /\ Head(work[last[r]]) = DbOf[r] =>
              /\ Updates(Remaining(r)) => row[r] # None
              /\ Mine(r) # {} /\ Remaining(r) = {} => row[r] = orig[r])'
      BY <2>1, <2>2, <3>1, <3>2 DEF RowIsRight, Updates
    <3>5. (/\ Updates(Mine(r)) => row[r] # None
           /\ \A e \in Mine(r) : IF Older(e, Mine(r)) = {} THEN e.before = orig[r]
                                 ELSE Updates(Older(e, Mine(r))) => e.before # None)'
      BY <2>1, <2>2, <3>1 DEF RowIsRight, Updates, Older
    <3> QED
      BY <3>1, <3>3, <3>4, <3>5 DEF RowIsRight, PhaseOne
  <2> QED
    BY <1>a, <2>1, <2>2
<1>10. ASSUME NEW t \in Tx, Restore(t) PROVE RowInv'
  <2>1. PICK e \in replay[t] : /\ \A f \in replay[t] : f.n <= e.n
                               /\ ~Refused(e)
                               /\ row' = [row EXCEPT ![e.row] = Restored(e)]
                               /\ replay' = [replay EXCEPT ![t] = @ \ {e}]
    BY <1>10 DEF Restore
  <2>2. /\ pc[t] = "replaying"
        /\ UNCHANGED <<undo, pc, work, decided, last, orig, left, stale, orphaned>>
    BY <1>10 DEF Restore
  <2>3. e \in undo /\ e.xid = t
    BY <2>2 DEF BookInv, Ordered, LogsIn, Logs
  <2>4. SUFFICES ASSUME NEW r \in Row, r \notin orphaned, r \notin stale, last[r] # Nobody
                 PROVE  RowIsRight(r)'
    BY <2>2 DEF RowInv
  <2>5. RowIsRight(r)
    BY <2>4 DEF RowInv
  <2>6. CASE r = e.row /\ ~Blind(e)
    BY <2>1, <2>2, <2>4, <2>5, <2>6, RestoreKeepsRight
  <2>7. CASE r # e.row \/ Blind(e)
    <3>0. Blind(e) => Restored(e) = row[e.row]
      BY <2>1, <2>3 DEF Blind, Restored, Refused, TypeInv, TypeOK, Entry, Kind
    <3>1. UNCHANGED <<last[r], row[r], left[r], orig[r], pc, work>> /\ Mine(r)' = Mine(r)
      BY <2>1, <2>2, <2>7, <3>0 DEF Mine
    <3>2. Remaining(r)' = Remaining(r)
      BY <2>1, <2>2, <2>4, <2>7 DEF Remaining
    <3>3. ToCommit(last[r])' <=> ToCommit(last[r])
      BY <2>2 DEF ToCommit
    <3> QED
      BY <2>5, <3>1, <3>2, <3>3, RowStays
  <2> QED
    BY <2>6, <2>7
<1>11. ASSUME NEW t \in Tx, DropLogs(t) PROVE RowInv'
  BY <1>11, <1>c DEF DropLogs, NextBranch
<1>12. ASSUME NEW t \in Tx, RollbackFails(t) PROVE RowInv'
  <2>1. /\ work[t] # <<>> /\ AttemptFails(t) /\ pc' = [pc EXCEPT ![t] = "rolling"]
        /\ \A u \in Tx \ {t} : replay'[u] = replay[u]
        /\ UNCHANGED <<row, undo, decided, last, orig, left, stale>>
    BY <1>12 DEF RollbackFails, TypeInv, Replaying
  <2>2. orphaned \subseteq orphaned' /\ \A u \in Tx \ {t} : work'[u] = work[u]
    BY <2>1, AttemptCovers, AttemptType
  <2>3. pc'[t] = "rolling" /\ (ToCommit(t)' <=> ToCommit(t)) /\ \A u \in Tx \ {t} : pc'[u] = pc[u]
    BY <2>1 DEF ToCommit
  <2> HIDE DEF AttemptFails
  <2> QED
    BY <1>b, <2>1, <2>2, <2>3 DEF PhaseOne
<1>13. ASSUME NEW t \in Tx, Release(t) PROVE RowInv'
  BY <1>13, <1>b DEF Release, PhaseOne, ToCommit
<1>14. ASSUME NEW t \in Tx, Recover(t) PROVE RowInv'
  BY <1>14, <1>b DEF Recover, PhaseOne, ToCommit
<1>15. ASSUME NEW t \in Tx, Recovered(t) PROVE RowInv'
  BY <1>15, <1>b DEF Recovered, PhaseOne, ToCommit
\* Nothing is restored or dropped, and nobody replays.
<1>d. ASSUME UNCHANGED <<row, undo, decided, last, orig, left, stale>>, orphaned \subseteq orphaned',
             \A t \in Tx : pc'[t] \in {pc[t], "over"} /\ pc'[t] # "replaying"
      PROVE  RowInv'
  <2>1. SUFFICES ASSUME NEW r \in Row, r \notin orphaned, r \notin stale, last[r] # Nobody
                 PROVE  RowIsRight(r)'
    BY <1>d DEF RowInv
  <2>2. RowIsRight(r) /\ last[r] \in Tx /\ UNCHANGED <<last[r], row[r], left[r], orig[r]>>
        /\ Mine(r)' = Mine(r) /\ (ToCommit(last[r])' <=> ToCommit(last[r]))
    BY <1>d, <2>1 DEF RowInv, Mine, ToCommit
  <2>3. pc'[last[r]] \in {pc[last[r]], "over"} /\ pc'[last[r]] # "replaying"
    BY <1>d, <2>2
  <2> QED
    BY <2>2, <2>3, RowStays DEF PhaseOne
<1>16. CASE Boot
  <2>1. \A t \in Tx : pc[t] # "replaying"
    BY <1>16 DEF Boot, LockInv
  <2> QED
    BY <1>16, <1>d, <2>1 DEF Boot
<1>17. CASE Serve
  BY <1>17, <1>d DEF Serve, Idle
<1>18. CASE Crash
  <2>1. /\ pc' = [t \in Tx |-> IF pc[t] = "idle" THEN "idle" ELSE "over"]
        /\ UNCHANGED <<row, undo, decided, last, orig, left, stale>> /\ orphaned \subseteq orphaned'
    BY <1>18 DEF Crash
  <2> QED
    BY <1>d, <2>1
<1>19. CASE UNCHANGED vars
  <2>1. UNCHANGED <<row, undo, decided, last, orig, left, stale, orphaned, pc, work, replay>>
    BY <1>19 DEF vars
  <2>2. ASSUME NEW r \in Row, RowIsRight(r) PROVE RowIsRight(r)'
    <3>1. Mine(r)' = Mine(r) /\ Remaining(r)' = Remaining(r) /\ (ToCommit(last[r])' <=> ToCommit(last[r]))
      BY <2>1 DEF Mine, Remaining, ToCommit
    <3> QED
      BY <2>1, <2>2, <3>1, RowStays
  <2> QED
    BY <2>1, <2>2 DEF RowInv
<1> QED
  BY <1>1, <1>2, <1>3, <1>4, <1>5, <1>6, <1>7, <1>8, <1>9, <1>10, <1>11, <1>12, <1>13,
     <1>14, <1>15, <1>16, <1>17, <1>18, <1>19 DEF Next, Proceed, AllOver

\* Whatever a transaction in flight has done and undone so far, its undo logs
\* still lead back to what it found.
THEOREM RowsAreRight == Spec => []RowInv
<1>1. Init => RowInv
  BY DEF Init, RowInv
<1> QED
  BY <1>1, RowSteps, Typing, Locking, Books, Coverage, PTL DEF Spec

\* A row is as its last transaction left it if that was committed, and as that
\* transaction found it otherwise: nothing in between, on any database
\* (at/at.go:243, starter-transaction-at-gorm/branch.go:67).
THEOREM AllOrNothingHolds == Spec => []AllOrNothing
<1>1. TypeInv /\ CoverInv /\ RowInv => AllOrNothing
  <2> SUFFICES ASSUME TypeInv, CoverInv, RowInv, NEW r \in Row \ (orphaned \cup stale),
                      up = "up", last[r] # Nobody, pc[last[r]] = "over"
               PROVE  row[r] = IF decided[last[r]] \in {"commit", "committed"} THEN left[r] ELSE orig[r]
    BY DEF AllOrNothing
  <2>1. Mine(r) = {}
    BY DEF CoverInv, Owed, Covered, Mine, PhaseOne
  <2>2. RowIsRight(r)
    BY DEF RowInv
  <2> QED
    BY <2>1, <2>2 DEF RowIsRight, ToCommit
<1> QED
  BY <1>1, Typing, Coverage, RowsAreRight, PTL

-----------------------------------------------------------------------------
(* Recovery finishes. *)

\* What a rollback may leave behind although no database fails: the logs of a
\* branch that has to put back a row it deleted.
Excused(e) == \E f \in LogsIn(e.xid, DbOf[e.row]) : f.kind = "delete"

\* RecoveryFinishes, and why: a log that is covered will be dropped.
FinishInv == faults = 0 => \A e \in undo : Covered(e) \/ Excused(e)

\* Every step keeps what FinishInv says.
LEMMA FinishSteps ==
    ASSUME TypeInv, LockInv, BookInv, CoverInv, FinishInv, [Next]_vars
    PROVE  FinishInv'
<1>0. /\ pc \in [Tx -> {"idle", "business", "lock", "write", "staged", "bare",
                         "committing", "rolling", "replaying", "over"}]
      /\ work \in [Tx -> Seq(Db)] /\ branches \in [Tx -> Seq(Db)]
      /\ DbOf \in [Row -> Db] /\ faults \in Nat
      /\ \A e \in undo : e.xid \in Tx /\ e.row \in Row
      /\ up \in {"down", "recovering", "up"}
  BY AutoTxAssumption DEF TypeInv, TypeOK, Entry
<1> USE <1>0 DEF Goto, Done, db, coord, running, phase2, history
<1>z. ~(Fault /\ faults' = 0)
  BY DEF Fault
\* A step of t that leaves the logs alone.
<1>a. ASSUME NEW t \in Tx, UNCHANGED <<undo, up>>, faults' = 0 => faults = 0,
             \A u \in Tx \ {t} : /\ pc'[u] = pc[u] /\ work'[u] = work[u] /\ branches'[u] = branches[u]
                                 /\ \A d \in Db : <<d, u>> \in todo => <<d, u>> \in todo',
             \A e \in Logs(t) : faults' = 0 /\ Covered(e) => Covered(e)' \/ Excused(e)
      PROVE  FinishInv'
  <2>1. SUFFICES ASSUME faults' = 0, NEW e \in undo PROVE Covered(e)' \/ Excused(e)'
    BY <1>a DEF FinishInv
  <2>2. Excused(e)' <=> Excused(e)
    BY <1>a DEF Excused, LogsIn, Logs
  <2>3. Covered(e) \/ Excused(e)
    BY <1>a, <2>1 DEF FinishInv
  <2>4. CASE e.xid = t
    BY <1>a, <2>1, <2>2, <2>3, <2>4 DEF Logs
  <2>5. CASE e.xid # t
    <3>1. e.xid \in Tx \ {t} /\ DbOf[e.row] \in Db
      BY <2>5
    <3> QED
      BY <1>a, <2>2, <2>3, <3>1 DEF Covered
  <2> QED
    BY <2>4, <2>5
\* A branch of t drops its logs.
<1>b. ASSUME NEW t \in Tx, work[t] # <<>>, undo' = undo \ LogsIn(t, Head(work[t])),
             pc[t] \in {"committing", "replaying"}, pc'[t] \in {"committing", "rolling"},
             pc'[t] = "committing" <=> pc[t] = "committing",
             work'[t] = Tail(work[t]), UNCHANGED <<up, branches, todo, faults>>,
             \A u \in Tx \ {t} : pc'[u] = pc[u] /\ work'[u] = work[u]
      PROVE  FinishInv'
  <2>1. SUFFICES ASSUME faults = 0, NEW e \in undo, e \notin LogsIn(t, Head(work[t]))
                 PROVE Covered(e)' \/ Excused(e)'
    BY <1>b DEF FinishInv
  <2>2. Covered(e) \/ Excused(e)
    BY <2>1 DEF FinishInv
  <2>3. Excused(e) => Excused(e)'
    <3>1. \A f \in LogsIn(e.xid, DbOf[e.row]) : f \notin LogsIn(t, Head(work[t]))
      BY <2>1 DEF LogsIn, Logs
    <3>2. LogsIn(e.xid, DbOf[e.row]) \subseteq LogsIn(e.xid, DbOf[e.row])'
      BY <1>b, <3>1 DEF LogsIn, Logs
    <3> QED
      BY <3>2 DEF Excused
  <2>4. Covered(e) => Covered(e)'
    <3>1. CASE e.xid = t
      <4>1. DbOf[e.row] # Head(work[t])
        BY <2>1, <3>1 DEF LogsIn, Logs
      <4>2. Among(DbOf[e.row], work[t]) => Among(DbOf[e.row], work'[t])
        BY <1>b, <4>1, TailAmong
      <4> QED
        BY <1>b, <3>1, <4>2 DEF Covered, PhaseOne
    <3>2. CASE e.xid # t
      BY <1>b, <3>2 DEF Covered
    <3> QED
      BY <3>1, <3>2
  <2> QED
    BY <2>2, <2>3, <2>4
\* A step of t on which the cover does not depend.
<1>c. ASSUME NEW t \in Tx, UNCHANGED <<undo, up, todo, work, branches, faults>>,
             \A u \in Tx \ {t} : pc'[u] = pc[u],
             \/ pc[t] \in PhaseOne /\ pc'[t] \in PhaseOne
             \/ pc[t] \in {"rolling", "replaying"} /\ pc'[t] \in {"rolling", "replaying"}
      PROVE  FinishInv'
  <2>1. \A e \in Logs(t) : Covered(e) => Covered(e)'
    BY <1>c DEF Covered, Logs, PhaseOne
  <2> QED
    BY <1>a, <1>c, <2>1
<1>1. ASSUME NEW t \in Tx, Begin(t) PROVE FinishInv'
  <2>1. Logs(t) = {}
    BY <1>1 DEF Begin, LockInv, Logs
  <2> QED
    BY <1>1, <1>a, <2>1 DEF Begin
<1>2. ASSUME NEW t \in Tx, Image(t) PROVE FinishInv'
  BY <1>2, <1>c DEF Image, PhaseOne
<1>3. ASSUME NEW t \in Tx, Acquire(t) PROVE FinishInv'
  BY <1>3, <1>c DEF Acquire, PhaseOne
<1>4. ASSUME NEW t \in Tx, Register(t) PROVE FinishInv'
  <2>1. /\ pc[t] = "write" /\ \E l \in {"staged", "bare"} : pc' = [pc EXCEPT ![t] = l]
        /\ \A u \in Tx \ {t} : branches'[u] = branches[u]
        /\ UNCHANGED <<undo, up, work, todo, faults>>
    BY <1>4 DEF Register
  <2>2. \A d : Among(d, branches[t]) => Among(d, branches'[t])
    BY <1>4, RegisterAdds
  <2>3. \A e \in Logs(t) : Covered(e) => Covered(e)'
    BY <2>1, <2>2 DEF Covered, Logs, PhaseOne
  <2> QED
    BY <1>a, <2>1, <2>3
<1>5. ASSUME NEW t \in Tx, LocalCommit(t) PROVE FinishInv'
  <2>0. PICK new : new = LogOf(t)
    OBVIOUS
  <2>1. /\ pc[t] \in {"staged", "bare"} /\ pc' = [pc EXCEPT ![t] = "business"]
        /\ undo' = undo \/ (undo' = undo \cup {new} /\ pc[t] = "staged")
        /\ UNCHANGED <<branches, work, up, todo, faults>>
    BY <1>5, <2>0 DEF LocalCommit
  <2>2. /\ up = "up" /\ new.xid = t /\ new.row = stmt[t].row
        /\ pc[t] = "staged" => Among(DbOf[stmt[t].row], branches[t])
    BY <2>0, <2>1 DEF LockInv, CoverInv, Placed, LogOf
  <2>3. pc[t] = "staged" => Covered(new)'
    BY <2>1, <2>2 DEF Covered, PhaseOne
  <2>4. ASSUME NEW e \in undo
        PROVE  (Covered(e) => Covered(e)') /\ (Excused(e) => Excused(e)')
    <3>1. Excused(e) => Excused(e)'
      BY <2>1 DEF Excused, LogsIn, Logs
    <3>2. Covered(e) => Covered(e)'
      BY <2>1, <2>2 DEF Covered, PhaseOne
    <3> QED
      BY <3>1, <3>2
  <2> QED
    BY <2>1, <2>3, <2>4 DEF FinishInv
<1>6. ASSUME NEW t \in Tx, LocalAbort(t) PROVE FinishInv'
  BY <1>6, <1>c DEF LocalAbort, PhaseOne
<1>7. ASSUME NEW t \in Tx, Resolve(t) PROVE FinishInv'
  <2>1. /\ pc[t] = "business" /\ pc'[t] \in {"committing", "rolling"} /\ up = "up"
        /\ work'[t] \in {branches[t], Backward(branches[t])}
        /\ \A u \in Tx \ {t} : pc'[u] = pc[u] /\ work'[u] = work[u] /\ branches'[u] = branches[u]
        /\ UNCHANGED <<undo, up, todo, faults>>
    BY <1>7 DEF Resolve, LockInv
  <2>2. \A d : Among(d, branches[t]) => Among(d, work'[t])
    BY <2>1, BackwardAmong
  <2>3. \A e \in Logs(t) : Covered(e) => Covered(e)'
    BY <2>1, <2>2 DEF Covered, Logs
  <2> QED
    BY <1>a, <2>1, <2>3
<1>8. ASSUME NEW t \in Tx, CommitBranch(t) PROVE FinishInv'
  <2>1. CASE Fault
    BY <1>z, <2>1 DEF FinishInv
  <2>2. CASE undo' = undo \ LogsIn(t, Head(work[t])) /\ NextBranch(t) /\ UNCHANGED faults
    BY <1>8, <1>b, <2>2 DEF CommitBranch, NextBranch
  <2> QED
    BY <1>8, <2>1, <2>2 DEF CommitBranch
<1>9. ASSUME NEW t \in Tx, LoadLogs(t) PROVE FinishInv'
  BY <1>9, <1>c DEF LoadLogs
<1>10. ASSUME NEW t \in Tx, Restore(t) PROVE FinishInv'
  BY <1>10, <1>c DEF Restore
<1>11. ASSUME NEW t \in Tx, DropLogs(t) PROVE FinishInv'
  <2>1. work[t] # <<>>
    BY <1>11 DEF DropLogs, TypeInv, Replaying
  <2> QED
    BY <1>11, <1>b, <2>1 DEF DropLogs, NextBranch
<1>12. ASSUME NEW t \in Tx, RollbackFails(t) PROVE FinishInv'
  <2>1. CASE Fault
    BY <1>z, <2>1 DEF FinishInv
  <2>2. CASE ~Fault
    <3>1. /\ pc[t] = "replaying" /\ work[t] # <<>> /\ AttemptFails(t) /\ UNCHANGED faults
          /\ pc' = [pc EXCEPT ![t] = "rolling"] /\ UNCHANGED <<undo, up, todo, branches>>
      BY <1>12, <2>2 DEF RollbackFails, TypeInv, Replaying
    <3>2. PICK f \in replay[t] : f.kind = "delete"
      BY <1>12, <2>2 DEF RollbackFails, Refused
    <3>3. f \in LogsIn(t, Head(work[t]))
      BY <3>1 DEF BookInv, Ordered
    <3>4. ASSUME NEW e \in Logs(t), Covered(e) PROVE Covered(e)' \/ Excused(e)
      <4>1. CASE DbOf[e.row] = Head(work[t])
        BY <3>2, <3>3, <4>1 DEF Excused, Logs
      <4>2. CASE DbOf[e.row] # Head(work[t])
        <5>1. Among(DbOf[e.row], work[t]) => Among(DbOf[e.row], work'[t])
          <6>1. work'[t] \in {work[t], Tail(work[t])} /\ work[t] \in Seq(Db)
            BY <3>1 DEF AttemptFails, NextBranch
          <6> QED
            BY <3>1, <4>2, <6>1, TailAmong
        <5> QED
          BY <3>1, <3>4, <5>1 DEF Covered, Logs, PhaseOne
      <4> QED
        BY <4>1, <4>2
    <3>5. \A u \in Tx \ {t} : work'[u] = work[u]
      BY <3>1, AttemptType
    <3> QED
      BY <1>a, <3>1, <3>4, <3>5
  <2> QED
    BY <2>1, <2>2
<1>13. ASSUME NEW t \in Tx, Release(t) PROVE FinishInv'
  <2>1. /\ up = "up" /\ pc[t] \in {"committing", "rolling"} /\ work[t] = <<>>
        /\ pc' = [pc EXCEPT ![t] = "over"] /\ UNCHANGED <<undo, up, work, branches, todo, faults>>
    BY <1>13 DEF Release
  <2>2. \A e \in Logs(t) : ~Covered(e)
    BY <2>1 DEF Covered, Logs, Among, PhaseOne
  <2> QED
    BY <1>a, <2>1, <2>2
<1>14. ASSUME NEW t \in Tx, Recover(t) PROVE FinishInv'
  <2>1. PICK d \in Db : todo' = todo \ {<<d, t>>} /\ work' = [work EXCEPT ![t] = <<d>>]
    BY <1>14 DEF Recover
  <2>2. /\ up = "recovering" /\ \A u \in Tx : pc[u] \notin {"rolling", "replaying"}
        /\ pc' = [pc EXCEPT ![t] = "rolling"] /\ UNCHANGED <<undo, up, branches, faults>>
    BY <1>14 DEF Recover, Idle
  <2>3. Among(d, work'[t])
    <3>1. work'[t] = <<d>> /\ Len(<<d>>) = 1 /\ <<d>>[1] = d /\ 1 \in 1..1
      BY <2>1
    <3> QED
      BY <3>1 DEF Among
  <2>4. \A e \in Logs(t) : Covered(e) => Covered(e)'
    BY <2>1, <2>2, <2>3 DEF Covered, Logs
  <2> QED
    BY <1>a, <2>1, <2>2, <2>4
<1>15. ASSUME NEW t \in Tx, Recovered(t) PROVE FinishInv'
  <2>1. /\ up = "recovering" /\ pc[t] = "rolling" /\ work[t] = <<>>
        /\ pc' = [pc EXCEPT ![t] = "over"] /\ UNCHANGED <<undo, up, work, branches, todo, faults>>
    BY <1>15 DEF Recovered
  <2>2. \A d : ~Among(d, work[t])
    BY <2>1 DEF Among
  <2>3. \A e \in Logs(t) : Covered(e) => Covered(e)'
    BY <2>1, <2>2 DEF Covered, Logs
  <2> QED
    BY <1>a, <2>1, <2>3
<1>16. CASE Boot
  <2>1. SUFFICES ASSUME faults' = 0, NEW e \in undo PROVE Covered(e)'
    BY <1>16 DEF Boot, FinishInv
  <2>2. todo' = {p \in Db \X Tx : LogsIn(p[2], p[1]) # {}} /\ up' = "recovering"
    BY <1>16, <1>z, <2>1 DEF Boot
  <2>3. e \in LogsIn(e.xid, DbOf[e.row]) /\ DbOf[e.row] \in Db /\ e.xid \in Tx
    BY DEF LogsIn, Logs
  <2>4. <<DbOf[e.row], e.xid>> \in todo'
    BY <2>2, <2>3
  <2> QED
    BY <2>2, <2>4 DEF Covered
<1>17. CASE Serve
  <2>1. /\ up = "recovering" /\ todo = {} /\ \A u \in Tx : pc[u] \notin {"rolling", "replaying"}
        /\ UNCHANGED <<undo, faults>>
    BY <1>17 DEF Serve, Idle
  <2>2. \A e \in undo : ~Covered(e) /\ (Excused(e) => Excused(e)')
    BY <2>1 DEF Covered, Excused, LogsIn, Logs
  <2> QED
    BY <2>1, <2>2 DEF FinishInv
<1>18. CASE Crash
  BY <1>18 DEF Crash, FinishInv, Covered
<1>19. CASE UNCHANGED vars
  BY <1>19 DEF vars, FinishInv, Covered, Excused, LogsIn, Logs
<1> QED
  BY <1>1, <1>2, <1>3, <1>4, <1>5, <1>6, <1>7, <1>8, <1>9, <1>10, <1>11, <1>12, <1>13,
     <1>14, <1>15, <1>16, <1>17, <1>18, <1>19 DEF Next, Proceed, AllOver

\* When no database has failed, no undo log of a transaction that is over is
\* left, unless the transaction deleted a row of that database
\* (starter-transaction-at-gorm/recovery.go:90, branch.go:67).
THEOREM Finishes == Spec => []RecoveryFinishes
<1>1. Init => FinishInv
  BY DEF Init, FinishInv
<1>2. FinishInv /\ CoverInv => RecoveryFinishes
  BY DEF FinishInv, RecoveryFinishes, Covered, Excused, PhaseOne
<1> QED
  BY <1>1, <1>2, FinishSteps, Typing, Locking, Books, Coverage, PTL DEF Spec
=============================================================================
