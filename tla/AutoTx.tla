------------------------------- MODULE AutoTx -------------------------------
(***************************************************************************)
(* Automatic transactions (AT): the coordinator and the global row lock    *)
(* (cloud/experimental/transaction/at), the gorm plugin that captures undo *)
(* logs, and the branch and the recovery that replay them                  *)
(* (starter/experimental/starter-transaction-at-gorm).                     *)
(*                                                                         *)
(* A global transaction runs statements on the rows of several databases.  *)
(* Each statement is a local transaction: the plugin reads the row, takes  *)
(* the row's global lock, writes, adds an undo log and registers the       *)
(* database as a branch; the database then commits locally.  GlobalAT      *)
(* commits by dropping the undo logs of every branch and rolls back by     *)
(* replaying them, newest first; either way the locks are released after   *)
(* that.  A crash loses the coordinator and the locks, but neither rows    *)
(* nor undo logs, and the recovery of the next process replays what it     *)
(* finds.                                                                  *)
(*                                                                         *)
(* A row's value is the transaction that wrote it; one statement changes   *)
(* one row.  The databases are external: a local transaction is atomic,    *)
(* and whether it fails because its row has changed since it was read is   *)
(* up to the database and its isolation level.                             *)
(***************************************************************************)
EXTENDS Naturals, Sequences

CONSTANTS
    Tx,             \* global transactions (their xids)
    Db,             \* databases the plugin is installed on: the branches
    Row,
    DbOf,           \* the database of each row
    None,           \* the value of a row that is not there
    Initial,        \* the value of a row before any transaction
    Nobody,         \* the owner of a row that is not locked
    Attempts,       \* how often the retry policy runs a phase of a branch
    MaxOps,         \* bound on the statements of all transactions
    MaxCrashes,     \* bound on crashes
    MaxFaults       \* bound on database calls that fail in phase two

ASSUME AutoTxAssumption ==
    /\ Row # {} /\ DbOf \in [Row -> Db]
    /\ None \notin Tx /\ Initial \notin Tx /\ None # Initial /\ Nobody \notin Tx
    /\ Attempts \in Nat \ {0}
    /\ MaxOps \in Nat /\ MaxCrashes \in Nat /\ MaxFaults \in Nat

Value == Tx \cup {None, Initial}

Kind == {"insert", "update", "delete"}

\* An undo log: the n-th statement, and the row as it was before.
Entry == [xid : Tx, n : Nat, row : Row, kind : Kind, before : Value]

\* A statement, or its undo log, with an empty before-image: the row that it
\* updates or deletes was not there when the image was read.
Blind(s) == s.kind # "insert" /\ s.before = None

VARIABLES
    row,            \* the rows, as committed locally
    undo,           \* the undo logs of all databases
    owner,          \* MemoryGlobalLock.owner
    known,          \* the keys of coordinator.active
    branches,       \* coordinator.active: databases in order of registration
    pc,             \* where each transaction is
    stmt,           \* the statement a transaction is running
    ops,            \* how many statements have begun
    work,           \* branches still to be committed or rolled back
    replay,         \* undo logs still to be replayed on the first of them
    tries,          \* attempts made at the first of them
    up,             \* the process: "down", "recovering" or "up"
    todo,           \* what recovery has still to roll back
    decided,        \* history: how GlobalAT resolves, and has resolved, each transaction
    last,           \* history: the last transaction that wrote a row,
    orig,           \*   the row before it did,
    left,           \*   and after it did
    stale,          \* history: rows last changed after the before-image was read,
                    \*   so that the image is wrong, or empty and the row not locked
    orphaned,       \* history: rows whose undo logs a failed or broken phase two has left
    crashes,
    faults

db      == <<row, undo>>
coord   == <<owner, known, branches>>
running == <<pc, stmt, ops>>
phase2  == <<work, replay, tries>>
history == <<decided, last, orig, left, stale, orphaned>>
vars    == <<db, coord, running, phase2, up, todo, history, crashes, faults>>

TypeOK ==
    /\ row \in [Row -> Value]
    /\ undo \in SUBSET Entry
    /\ owner \in [Row -> Tx \cup {Nobody}]
    /\ known \in SUBSET Tx
    /\ branches \in [Tx -> Seq(Db)]
    /\ pc \in [Tx -> {"idle", "business", "lock", "write", "staged", "bare",
                      "committing", "rolling", "replaying", "over"}]
    /\ stmt \in [Tx -> [n : Nat, row : Row, kind : Kind, before : Value]]
    /\ ops \in 0..MaxOps
    /\ work \in [Tx -> Seq(Db)]
    /\ replay \in [Tx -> SUBSET Entry]
    /\ tries \in [Tx -> Nat]
    /\ up \in {"down", "recovering", "up"}
    /\ todo \in SUBSET (Db \X Tx)
    /\ decided \in [Tx -> {"none", "commit", "committed", "rollback"}]
    /\ last \in [Row -> Tx \cup {Nobody}]
    /\ orig \in [Row -> Value] /\ left \in [Row -> Value]
    /\ stale \in SUBSET Row /\ orphaned \in SUBSET Row
    /\ crashes \in 0..MaxCrashes /\ faults \in 0..MaxFaults

NoStmt == [n |-> 0, row |-> CHOOSE r \in Row : TRUE, kind |-> "update", before |-> None]

Init ==
    /\ row \in [Row -> {None, Initial}]
    /\ undo = {}
    /\ owner = [r \in Row |-> Nobody]
    /\ known = {}
    /\ branches = [t \in Tx |-> <<>>]
    /\ pc = [t \in Tx |-> "idle"]
    /\ stmt = [t \in Tx |-> NoStmt]
    /\ ops = 0
    /\ work = [t \in Tx |-> <<>>]
    /\ replay = [t \in Tx |-> {}]
    /\ tries = [t \in Tx |-> 0]
    /\ up = "down"
    /\ todo = {}
    /\ decided = [t \in Tx |-> "none"]
    /\ last = [r \in Row |-> Nobody]
    /\ orig = row /\ left = row
    /\ stale = {} /\ orphaned = {}
    /\ crashes = 0 /\ faults = 0

Goto(t, l) == pc' = [pc EXCEPT ![t] = l]

\* A call of a database fails.
Fault == faults < MaxFaults /\ faults' = faults + 1

Logs(t)      == {e \in undo : e.xid = t}
LogsIn(t, d) == {e \in Logs(t) : DbOf[e.row] = d}

Backward(s) == [i \in 1..Len(s) |-> s[Len(s) + 1 - i]]

-----------------------------------------------------------------------------
(* Phase one: the business method and its statements. *)

Begin(t) ==
    /\ up = "up" /\ pc[t] = "idle"
    /\ known' = known \cup {t}
    /\ Goto(t, "business")
    /\ UNCHANGED <<db, owner, branches, stmt, ops, phase2, up, todo, history, crashes, faults>>

\* beforeMutate reads the rows that an update or a delete is going to change,
\* and may find that they are not there.  An insert runs before anything is
\* read, and fails when the row is there.
Image(t) ==
    /\ up = "up" /\ pc[t] = "business" /\ ops < MaxOps
    /\ ops' = ops + 1
    /\ \E r \in Row, k \in Kind :
        /\ k = "insert" => row[r] = None
        /\ stmt' = [stmt EXCEPT ![t] = [n |-> ops', row |-> r, kind |-> k, before |-> row[r]]]
    /\ Goto(t, "lock")
    /\ UNCHANGED <<db, coord, phase2, up, todo, history, crashes, faults>>

\* The statement is through, well or not.
Done(t) == Goto(t, "business") /\ stmt' = [stmt EXCEPT ![t] = NoStmt]

\* Mutant: the row is locked whoever holds it.
AcquireAnyway(t) ==
    /\ pc[t] = "lock"
    /\ owner' = IF Blind(stmt[t]) THEN owner ELSE [owner EXCEPT ![stmt[t].row] = t]
    /\ Goto(t, "write")
    /\ UNCHANGED <<db, known, branches, stmt, ops, phase2, up, todo, history, crashes, faults>>

\* A row that another transaction holds makes the statement fail.  The keys to
\* lock are those of the before-image: when it is empty, there are none, and
\* the statement goes on without a lock.
Acquire(t) ==
    /\ pc[t] = "lock"
    /\ LET r == stmt[t].row IN
       IF Blind(stmt[t]) THEN Goto(t, "write") /\ UNCHANGED <<owner, stmt>>
       ELSE IF owner[r] \in {Nobody, t}
       THEN owner' = [owner EXCEPT ![r] = t] /\ Goto(t, "write") /\ UNCHANGED stmt
       ELSE UNCHANGED owner /\ Done(t)
    /\ UNCHANGED <<db, known, branches, ops, phase2, up, todo, history, crashes, faults>>

\* Whether afterMutate has anything to record.  A delete with an empty
\* before-image has nothing; an update with an empty one reads, for want of
\* keys, the whole table again, and has something to record when that is not
\* empty.  The rows of a database are one table.
Recorded(s) ==
    Blind(s) => /\ s.kind = "update"
                /\ \E r \in Row : DbOf[r] = DbOf[s.row] /\ row[r] # None

\* The write and its undo log are staged in the local transaction and the
\* branch is registered, once for each database; without an undo log it is not.
Register(t) ==
    /\ pc[t] = "write"
    /\ LET d == DbOf[stmt[t].row] IN
       IF Recorded(stmt[t])
       THEN /\ t \in known
            /\ branches' = IF \E i \in DOMAIN branches[t] : branches[t][i] = d THEN branches
                           ELSE [branches EXCEPT ![t] = Append(@, d)]
            /\ Goto(t, "staged")
       ELSE UNCHANGED branches /\ Goto(t, "bare")
    /\ UNCHANGED <<db, owner, known, stmt, ops, phase2, up, todo, history, crashes, faults>>

\* The write or the local commit fails: neither row nor undo log changes, the
\* lock is kept and the branch stays registered.
LocalAbort(t) ==
    /\ pc[t] \in {"write", "staged", "bare"}
    /\ Done(t)
    /\ UNCHANGED <<db, coord, ops, phase2, up, todo, history, crashes, faults>>

LogOf(t) ==
    LET s == stmt[t] IN
    [xid |-> t, n |-> s.n, row |-> s.row, kind |-> s.kind, before |-> s.before]

\* A statement with an empty image still finds no row.  An update whose re-read
\* has found nothing has changed nothing, whatever has come into being since.
Missed(t) ==
    /\ Blind(stmt[t])
    /\ \/ row[stmt[t].row] = None
       \/ stmt[t].kind = "update" /\ pc[t] = "bare"

\* Row and undo log, if there is one, are committed together.  The row may have
\* changed since it was read, before its lock was taken, or may have come into
\* being since and is written without its lock.  An update of a row that is gone
\* changes nothing and is logged all the same.
LocalCommit(t) ==
    LET s == stmt[t]
        r == s.row
        v == IF s.kind = "delete" \/ (s.kind = "update" /\ row[r] = None) THEN None ELSE t
    IN
    /\ pc[t] \in {"staged", "bare"}
    /\ s.kind = "insert" => row[r] = None
    /\ undo' = IF pc[t] = "bare" THEN undo ELSE undo \cup {LogOf(t)}
    /\ IF Missed(t) THEN UNCHANGED <<row, last, orig, left, stale>>
       ELSE /\ row' = [row EXCEPT ![r] = v]
            /\ last' = [last EXCEPT ![r] = t]
            /\ orig' = IF last[r] = t THEN orig ELSE [orig EXCEPT ![r] = row[r]]
            /\ left' = [left EXCEPT ![r] = v]
            /\ stale' = IF row[r] # s.before THEN stale \cup {r}
                        ELSE IF last[r] = t \/ \E e \in Logs(t) : e.row = r THEN stale
                        ELSE stale \ {r}
    /\ Done(t)
    /\ UNCHANGED <<coord, ops, phase2, up, todo, decided, orphaned, crashes, faults>>

-----------------------------------------------------------------------------
(* Phase two. *)

\* GlobalAT commits when the business method returns no error and rolls back
\* when it does; take makes sure that nobody resolves the transaction again.
\* When the method panics, nothing is deferred that would resolve the
\* transaction: it stays in "business", with its locks, until the crash.
Resolve(t) ==
    /\ pc[t] = "business" /\ t \in known
    /\ known' = known \ {t}
    /\ branches' = [branches EXCEPT ![t] = <<>>]
    /\ tries' = [tries EXCEPT ![t] = 1]
    /\ \/ /\ decided' = [decided EXCEPT ![t] = "commit"]
          /\ work' = [work EXCEPT ![t] = branches[t]]
          /\ Goto(t, "committing")
       \/ /\ decided' = [decided EXCEPT ![t] = "rollback"]
          /\ work' = [work EXCEPT ![t] = Backward(branches[t])]
          /\ Goto(t, "rolling")
    /\ UNCHANGED <<db, owner, stmt, ops, replay, up, todo, last, orig, left, stale,
                   orphaned, crashes, faults>>

\* The first branch is finished with, well or not.
NextBranch(t) ==
    /\ work' = [work EXCEPT ![t] = Tail(@)]
    /\ tries' = [tries EXCEPT ![t] = 1]

\* An attempt at the first branch has failed: it is made again as long as the
\* policy allows, and then the next branch has its turn.
AttemptFails(t) ==
    \/ /\ tries[t] < Attempts
       /\ tries' = [tries EXCEPT ![t] = @ + 1]
       /\ UNCHANGED <<work, orphaned>>
    \/ /\ tries[t] >= Attempts
       /\ NextBranch(t)
       /\ orphaned' = orphaned \cup {e.row : e \in LogsIn(t, Head(work[t]))}

CommitBranch(t) ==
    /\ pc[t] = "committing" /\ work[t] # <<>>
    /\ \/ /\ undo' = undo \ LogsIn(t, Head(work[t]))
          /\ NextBranch(t)
          /\ UNCHANGED <<orphaned, faults>>
       \/ Fault /\ AttemptFails(t) /\ UNCHANGED undo
    /\ UNCHANGED <<row, coord, running, replay, up, todo, decided, last, orig, left, stale,
                   crashes>>

LoadLogs(t) ==
    /\ pc[t] = "rolling" /\ work[t] # <<>>
    /\ replay' = [replay EXCEPT ![t] = LogsIn(t, Head(work[t]))]
    /\ Goto(t, "replaying")
    /\ UNCHANGED <<db, coord, stmt, ops, work, tries, up, todo, history, crashes, faults>>

\* What restore does to a row: an update finds nothing to write to when the
\* row is not there, and has nothing to write when the image is empty.
Restored(e) ==
    CASE e.kind = "insert" -> None
      [] e.kind = "update" -> IF None \in {row[e.row], e.before} THEN row[e.row] ELSE e.before
      [] e.kind = "delete" -> e.before

\* Mutant: taking back an insert fails when the row is gone already.
RefusedEither(e) ==
    (e.kind = "delete" /\ row[e.row] # None) \/ (e.kind = "insert" /\ row[e.row] = None)

\* A row that was deleted is inserted again, which fails when it is there.
Refused(e) == e.kind = "delete" /\ row[e.row] # None

\* Mutant: the oldest undo log is replayed first.
RestoreOldest(t) ==
    /\ pc[t] = "replaying"
    /\ \E e \in replay[t] :
        /\ \A f \in replay[t] : e.n <= f.n
        /\ ~Refused(e)
        /\ row' = [row EXCEPT ![e.row] = Restored(e)]
        /\ replay' = [replay EXCEPT ![t] = @ \ {e}]
    /\ UNCHANGED <<undo, coord, running, work, tries, up, todo, history, crashes, faults>>

Restore(t) ==
    /\ pc[t] = "replaying"
    /\ \E e \in replay[t] :
        /\ \A f \in replay[t] : f.n <= e.n
        /\ ~Refused(e)
        /\ row' = [row EXCEPT ![e.row] = Restored(e)]
        /\ replay' = [replay EXCEPT ![t] = @ \ {e}]
    /\ UNCHANGED <<undo, coord, running, work, tries, up, todo, history, crashes, faults>>

DropLogs(t) ==
    /\ pc[t] = "replaying" /\ replay[t] = {}
    /\ undo' = undo \ LogsIn(t, Head(work[t]))
    /\ NextBranch(t)
    /\ Goto(t, "rolling")
    /\ UNCHANGED <<row, coord, stmt, ops, replay, up, todo, history, crashes, faults>>

\* The database fails in the middle of a rollback, or refuses the insert of a
\* row that is there.
RollbackFails(t) ==
    /\ \/ pc[t] = "rolling" /\ work[t] # <<>> /\ Fault
       \/ pc[t] = "replaying" /\ Fault
       \/ /\ pc[t] = "replaying"
          /\ \E e \in replay[t] : Refused(e) /\ \A f \in replay[t] : f.n <= e.n
          /\ UNCHANGED faults
    /\ AttemptFails(t)
    /\ replay' = [replay EXCEPT ![t] = {}]
    /\ Goto(t, "rolling")
    /\ UNCHANGED <<db, coord, stmt, ops, up, todo, decided, last, orig, left, stale, crashes>>

\* Mutant: the locks are released only when every branch has succeeded.
ReleaseIfClean(t) ==
    /\ up = "up" /\ pc[t] \in {"committing", "rolling"} /\ work[t] = <<>>
    /\ owner' = IF Logs(t) = {} THEN [r \in Row |-> IF owner[r] = t THEN Nobody ELSE owner[r]]
                ELSE owner
    /\ decided' = [decided EXCEPT ![t] = IF @ = "commit" THEN "committed" ELSE @]
    /\ Goto(t, "over")
    /\ UNCHANGED <<db, known, branches, stmt, ops, phase2, up, todo, last, orig, left, stale,
                   orphaned, crashes, faults>>

\* The deferred release: whatever became of the branches.
Release(t) ==
    /\ up = "up" /\ pc[t] \in {"committing", "rolling"} /\ work[t] = <<>>
    /\ owner' = [r \in Row |-> IF owner[r] = t THEN Nobody ELSE owner[r]]
    /\ decided' = [decided EXCEPT ![t] = IF @ = "commit" THEN "committed" ELSE @]
    /\ Goto(t, "over")
    /\ UNCHANGED <<db, known, branches, stmt, ops, phase2, up, todo, last, orig, left, stale,
                   orphaned, crashes, faults>>

-----------------------------------------------------------------------------
(* Crash and recovery. *)

Crash ==
    /\ up # "down" /\ crashes < MaxCrashes
    /\ crashes' = crashes + 1
    /\ up' = "down"
    /\ owner' = [r \in Row |-> Nobody]
    /\ known' = {}
    /\ branches' = [t \in Tx |-> <<>>]
    /\ pc' = [t \in Tx |-> IF pc[t] = "idle" THEN "idle" ELSE "over"]
    /\ stmt' = [t \in Tx |-> NoStmt]
    /\ work' = [t \in Tx |-> <<>>]
    /\ replay' = [t \in Tx |-> {}]
    /\ todo' = {}
    /\ tries' = [t \in Tx |-> 0]
    /\ orphaned' = orphaned \cup {e.row : e \in {f \in undo : pc[f.xid] = "committing"}}
    /\ UNCHANGED <<db, ops, decided, last, orig, left, stale, faults>>

\* The recovery runner looks for the transactions that have undo logs, in
\* every database that can be read.
Boot ==
    /\ up = "down"
    /\ up' = "recovering"
    /\ \E skipped \in SUBSET Db :
        /\ \/ skipped = {} /\ UNCHANGED faults
           \/ Fault /\ \E d \in Db : skipped = {d}
        /\ todo' = {p \in (Db \ skipped) \X Tx : LogsIn(p[2], p[1]) # {}}
        /\ orphaned' = orphaned \cup {e.row : e \in {f \in undo : DbOf[f.row] \in skipped}}
    /\ UNCHANGED <<db, coord, running, phase2, decided, last, orig, left, stale, crashes>>

Idle == \A t \in Tx : pc[t] \notin {"rolling", "replaying"}

\* Recovery rolls them back one after the other, without a retry policy; the
\* order of the xids is that of random strings.
Recover(t) ==
    /\ up = "recovering" /\ Idle
    /\ \E d \in Db :
        /\ <<d, t>> \in todo
        /\ todo' = todo \ {<<d, t>>}
        /\ work' = [work EXCEPT ![t] = <<d>>]
    /\ tries' = [tries EXCEPT ![t] = Attempts]
    /\ Goto(t, "rolling")
    /\ UNCHANGED <<db, coord, stmt, ops, replay, up, history, crashes, faults>>

Recovered(t) ==
    /\ up = "recovering" /\ pc[t] = "rolling" /\ work[t] = <<>>
    /\ Goto(t, "over")
    /\ UNCHANGED <<db, coord, stmt, ops, phase2, up, todo, history, crashes, faults>>

Serve ==
    /\ up = "recovering" /\ Idle /\ todo = {}
    /\ up' = "up"
    /\ UNCHANGED <<db, coord, running, phase2, todo, history, crashes, faults>>

-----------------------------------------------------------------------------
\* Everything the process itself does about a transaction.
Proceed(t) ==
    \/ Acquire(t) \/ Register(t) \/ LocalCommit(t) \/ LocalAbort(t) \/ Resolve(t)
    \/ CommitBranch(t) \/ LoadLogs(t) \/ Restore(t) \/ DropLogs(t) \/ RollbackFails(t)
    \/ Release(t) \/ Recover(t) \/ Recovered(t)

AllOver ==
    /\ up = "up" /\ \A t \in Tx : pc[t] = "over"
    /\ UNCHANGED vars

Next ==
    \/ \E t \in Tx : Begin(t) \/ Image(t) \/ Proceed(t)
    \/ Boot \/ Serve \/ Crash
    \/ AllOver

\* The business method returns some day, which excludes a panic, and no call
\* blocks for ever.  Nothing obliges anybody to begin a transaction, and nothing
\* has to crash.  The invariants need no fairness: they hold of a transaction
\* that panicked as they do of one that takes its time.
Spec == Init /\ [][Next]_vars /\ WF_vars(Boot) /\ WF_vars(Serve)
             /\ \A t \in Tx : WF_vars(Proceed(t))
-----------------------------------------------------------------------------
(* Properties. *)

\* As long as a transaction is in flight it holds the global lock of every row
\* that an undo log of its own would put back, so that of two transactions in
\* flight only one ever has something to put back on a row.  And nobody else has
\* written that row since, unless the row is stale: a statement whose image was
\* empty is not kept out, whoever holds the lock.
LogsAreLocked ==
    \A e \in undo :
        up = "up" /\ pc[e.xid] # "over" /\ ~Blind(e) =>
            /\ owner[e.row] = e.xid
            /\ e.row \notin stale => last[e.row] = e.xid

\* When the last transaction that wrote a row is over, the row is as that
\* transaction found it if it was rolled back or died undecided, and as it
\* left it if it was committed: on all databases, whatever the business method
\* did in between, and wherever the process crashed.  Rows whose undo logs a
\* failed phase two has left behind are the operator's; and when a row has
\* changed between the before-image and the lock, and the database lets the
\* write through, the image is not what the transaction found.
AllOrNothing ==
    \A r \in Row \ (orphaned \cup stale) :
        up = "up" /\ last[r] # Nobody =>
            (pc[last[r]] = "over" =>
                row[r] = IF decided[last[r]] \in {"commit", "committed"} THEN left[r] ELSE orig[r])

\* When no call of a database has failed, recovery leaves no undo log behind,
\* except those of a transaction that deleted a row: if the crash came when
\* the row had been put back, the replay cannot insert it a second time.
RecoveryFinishes ==
    up = "up" /\ faults = 0 =>
        \A e \in undo :
            (pc[e.xid] = "over" => \E f \in LogsIn(e.xid, DbOf[e.row]) : f.kind = "delete")

\* A row does not stay locked: a transaction that has locked one releases all
\* its locks, whether the write succeeds or not and whether the branches succeed
\* in phase two or not.  (The business method returns: see Spec.)
LocksAreReleased ==
    \A t \in Tx : (\E r \in Row : owner[r] = t) ~> (\A r \in Row : owner[r] # t)

\* When GlobalAT has committed a transaction and returned, its rows stay as it
\* left them until somebody else writes them: what is left of its undo logs is
\* a matter of cleaning up.
CommittedForGood ==
    \A r \in Row :
        last[r] # Nobody => (decided[last[r]] = "committed" => row[r] = left[r])
=============================================================================
