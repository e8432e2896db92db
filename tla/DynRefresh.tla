----------------------------- MODULE DynRefresh -----------------------------
(***************************************************************************)
(* Hot refresh of the configuration of a started application.              *)
(*                                                                         *)
(*   App.RefreshProperties (gs_app/app.go) takes refreshMu, reads every    *)
(*   source, and hands the snapshot to the container;                      *)
(*   AppConfig.Refresh (gs_conf/conf.go) is the reading, one source after  *)
(*   another while the sources change, any of which may fail;              *)
(*   Properties.Refresh (gs_dync/dync.go) takes the lock of the dynamic    *)
(*   properties, validates every registered object against the snapshot,   *)
(*   and then commits the objects one by one and calls their listeners.    *)
(*                                                                         *)
(* A configuration is modelled by the version it has of every source, and  *)
(* the value of a dynamic field by the version of the source it is bound   *)
(* to.  Fields are read without a lock, so every state is one a reader can *)
(* see.                                                                    *)
(***************************************************************************)
EXTENDS Naturals, Sequences

CONSTANTS
    Refresher,      \* goroutines that call RefreshProperties
    Source,         \* files, environment, command line, remote providers
    Field,          \* gs_dync.Value fields registered during wiring
    Objects,        \* Properties.objects: the fields in registration order
    KeyOf,          \* the source a field's value comes from
    Unbindable,     \* versions of a source that a field cannot be bound to
    MaxVersion,     \* bound on the number of changes of any source
    Last,           \* and of each
    NoOne

Version == 0..MaxVersion

ASSUME RefreshAssumption ==
    /\ MaxVersion \in Nat
    /\ Last \in [Source -> Version]
    /\ Objects \in Seq(Field) \ {<< >>}   \* without any, refresh does nothing
    /\ KeyOf \in [Field -> Source]
    /\ Unbindable \in [Source -> SUBSET (Nat \ {0})]
    /\ NoOne \notin Refresher

VARIABLES
    source,     \* the version each source has now
    mu,         \* holder of App.refreshMu
    lock,       \* holder of the write lock of Properties
    layered,    \* AppConfig.Layered
    prop,       \* Properties.prop
    old,        \* oldProp of the refresh in progress
    value,      \* the value of each field
    olds,       \* oldValues of the refresh in progress
    at,         \* loop index over Objects
    pc,         \* where each refresher is, or the result of its last call
    snap,       \* what it has read
    got,        \* the sources it has read
    listening,  \* fields with a listener
    called,     \* the last call of each field's listener
    asked,      \* history: the sources when a refresher's last call began
    panicked    \* history: a listener has panicked

vars == <<source, mu, lock, layered, prop, old, value, olds, at, pc, snap, got,
          listening, called, asked, panicked>>

Snapshot == [Source -> Version]

Result == {"idle", "ok", "failed", "panicked"}
PC == Result \cup {"waiting", "reading", "applying", "validating", "committing", "finishing"}

TypeOK ==
    /\ source \in Snapshot
    /\ mu \in Refresher \cup {NoOne}
    /\ lock \in Refresher \cup {NoOne}
    /\ layered \in Snapshot
    /\ prop \in Snapshot
    /\ old \in Snapshot
    /\ value \in [Field -> Version]
    /\ olds \in [Field -> Version]
    /\ at \in 1..Len(Objects) + 1
    /\ pc \in [Refresher -> PC]
    /\ snap \in [Refresher -> Snapshot]
    /\ got \in [Refresher -> SUBSET Source]
    /\ listening \in SUBSET Field
    /\ called \in [Field -> [old : Version, new : Version]]
    /\ asked \in [Refresher -> Snapshot]
    /\ panicked \in BOOLEAN

-----------------------------------------------------------------------------

Zero == [s \in Source |-> 0]

\* Value.onValid: the field's value under configuration p, and whether every
\* registered field has one.
Bind(f, p) == p[KeyOf[f]]
Valid(p)   == \A i \in DOMAIN Objects : Bind(Objects[i], p) \notin Unbindable[KeyOf[Objects[i]]]

Goto(r, l) == pc' = [pc EXCEPT ![r] = l]

\* RefreshProperties returns: the deferred unlocks run, and the local variables
\* of the call are gone.
Return(r, result) ==
    /\ Goto(r, result)
    /\ mu' = IF mu = r THEN NoOne ELSE mu
    /\ lock' = IF lock = r THEN NoOne ELSE lock
    /\ snap' = [snap EXCEPT ![r] = Zero]
    /\ got' = [got EXCEPT ![r] = {}]
    /\ old' = Zero
    /\ olds' = [f \in Field |-> 0]
    /\ at' = 1

Init ==
    /\ source = Zero /\ layered = Zero /\ prop = Zero /\ old = Zero
    /\ mu = NoOne /\ lock = NoOne
    /\ value = [f \in Field |-> 0] /\ olds = [f \in Field |-> 0]
    /\ at = 1
    /\ pc = [r \in Refresher |-> "idle"]
    /\ snap = [r \in Refresher |-> Zero]
    /\ got = [r \in Refresher |-> {}]
    /\ listening = {}
    /\ called = [f \in Field |-> [old |-> 0, new |-> 0]]
    /\ asked = [r \in Refresher |-> Zero]
    /\ panicked = FALSE

\* A source changes behind the application's back.
Change(s) ==
    /\ source[s] < Last[s]
    /\ source' = [source EXCEPT ![s] = @ + 1]
    /\ UNCHANGED <<mu, lock, layered, prop, old, value, olds, at, pc, snap, got,
                   listening, called, asked, panicked>>

\* OnChanged, which keeps the first listener of a field.
OnChanged(f) ==
    /\ listening' = listening \cup {f}
    /\ called' = IF f \in listening THEN called
                 ELSE [called EXCEPT ![f] = [old |-> value[f], new |-> value[f]]]
    /\ UNCHANGED <<source, mu, lock, layered, prop, old, value, olds, at, pc, snap,
                   got, asked, panicked>>

-----------------------------------------------------------------------------
(* App.RefreshProperties and AppConfig.Refresh. *)

RefreshProperties(r) ==
    /\ pc[r] \in Result
    /\ Goto(r, "waiting")
    /\ asked' = [asked EXCEPT ![r] = source]
    /\ UNCHANGED <<source, mu, lock, layered, prop, old, value, olds, at, snap, got,
                   listening, called, panicked>>

\* Mutant: refreshes are not serialized.
LockRefreshShared(r) ==
    /\ pc[r] = "waiting"
    /\ mu' = r
    /\ Goto(r, "reading")
    /\ UNCHANGED <<source, lock, layered, prop, old, value, olds, at, snap, got,
                   listening, called, asked, panicked>>

LockRefresh(r) ==
    /\ pc[r] = "waiting" /\ mu = NoOne
    /\ mu' = r
    /\ Goto(r, "reading")
    /\ UNCHANGED <<source, lock, layered, prop, old, value, olds, at, snap, got,
                   listening, called, asked, panicked>>

\* Which file comes next depends on what the files before it say, so the
\* order is left open.
ReadSource(r, s) ==
    /\ pc[r] = "reading" /\ s \notin got[r]
    /\ snap' = [snap EXCEPT ![r] = [@ EXCEPT ![s] = source[s]]]
    /\ got' = [got EXCEPT ![r] = @ \cup {s}]
    /\ UNCHANGED <<source, mu, lock, layered, prop, old, value, olds, at, pc,
                   listening, called, asked, panicked>>

\* A source cannot be read, or the context it is read with was cancelled.
ReadFails(r) ==
    /\ pc[r] = "reading"
    /\ Return(r, "failed")
    /\ UNCHANGED <<source, layered, prop, value, listening, called, asked, panicked>>

\* The snapshot is complete and becomes Layered, before anything validates it.
StoreLayered(r) ==
    /\ pc[r] = "reading" /\ got[r] = Source
    /\ layered' = snap[r]
    /\ Goto(r, "applying")
    /\ UNCHANGED <<source, mu, lock, prop, old, value, olds, at, snap, got, listening,
                   called, asked, panicked>>

-----------------------------------------------------------------------------
(* Properties.Refresh. *)

LockProperties(r) ==
    /\ pc[r] = "applying" /\ lock = NoOne
    /\ lock' = r
    /\ old' = prop
    /\ prop' = snap[r]
    /\ Goto(r, "validating")
    /\ UNCHANGED <<source, mu, layered, value, olds, at, snap, got, listening, called,
                   asked, panicked>>

Validate(r) ==
    /\ pc[r] = "validating" /\ Valid(prop)
    /\ at' = 1
    /\ Goto(r, "committing")
    /\ UNCHANGED <<source, mu, lock, layered, prop, old, value, olds, snap, got,
                   listening, called, asked, panicked>>

\* Mutant: the old properties do not come back.
ValidateFailsKeeping(r) ==
    /\ pc[r] = "validating" /\ ~Valid(prop)
    /\ Return(r, "failed")
    /\ UNCHANGED <<source, layered, prop, value, listening, called, asked, panicked>>

\* Mutant: the locks are kept.
ValidateFailsLocked(r) ==
    /\ pc[r] = "validating" /\ ~Valid(prop)
    /\ prop' = old
    /\ Goto(r, "failed")
    /\ UNCHANGED <<source, mu, lock, layered, old, value, olds, at, snap, got,
                   listening, called, asked, panicked>>

\* At least one object cannot be bound: the old properties come back.
ValidateFails(r) ==
    /\ pc[r] = "validating" /\ ~Valid(prop)
    /\ prop' = old
    /\ Return(r, "failed")
    /\ UNCHANGED <<source, layered, value, listening, called, asked, panicked>>

Commit(r) ==
    /\ pc[r] = "committing"
    /\ IF at \in DOMAIN Objects
       THEN /\ value' = [value EXCEPT ![Objects[at]] = Bind(Objects[at], prop)]
            /\ olds' = [olds EXCEPT ![Objects[at]] = value[Objects[at]]]
            /\ at' = at + 1
            /\ UNCHANGED pc
       ELSE /\ at' = 1
            /\ Goto(r, "finishing")
            /\ UNCHANGED <<value, olds>>
    /\ UNCHANGED <<source, mu, lock, layered, prop, old, snap, got, listening, called,
                   asked, panicked>>

\* Mutant: the new and the replaced value are swapped.
NotifySwapped(f) ==
    called' = IF f \in listening
              THEN [called EXCEPT ![f] = [old |-> Bind(f, prop), new |-> olds[f]]]
              ELSE called

\* onFinish of the next object: its listener, if any, gets the new and the
\* replaced value.
Notify(f) ==
    called' = IF f \in listening
              THEN [called EXCEPT ![f] = [old |-> olds[f], new |-> Bind(f, prop)]]
              ELSE called

FinishObject(r) ==
    /\ pc[r] = "finishing" /\ at \in DOMAIN Objects
    /\ Notify(Objects[at])
    /\ at' = at + 1
    /\ UNCHANGED <<source, mu, lock, layered, prop, old, value, olds, pc, snap, got,
                   listening, asked, panicked>>

\* A listener panics: the locks are released and the listeners after it are
\* not called, but the new properties and values stay.
ListenerPanics(r) ==
    /\ pc[r] = "finishing" /\ at \in DOMAIN Objects
    /\ Objects[at] \in listening
    /\ Notify(Objects[at])
    /\ panicked' = TRUE
    /\ Return(r, "panicked")
    /\ UNCHANGED <<source, layered, prop, value, listening, asked>>

Finish(r) ==
    /\ pc[r] = "finishing" /\ at \notin DOMAIN Objects
    /\ Return(r, "ok")
    /\ UNCHANGED <<source, layered, prop, value, listening, called, asked, panicked>>

-----------------------------------------------------------------------------

\* The steps a refresher takes on its own once it has called.
Proceed(r) ==
    \/ \E s \in Source : ReadSource(r, s)
    \/ StoreLayered(r) \/ LockProperties(r)
    \/ Validate(r) \/ ValidateFails(r) \/ Commit(r) \/ FinishObject(r) \/ Finish(r)

Next ==
    \/ \E s \in Source : Change(s)
    \/ \E f \in Field : OnChanged(f)
    \/ \E r \in Refresher :
          RefreshProperties(r) \/ LockRefresh(r) \/ Proceed(r)
             \/ ReadFails(r) \/ ListenerPanics(r)

\* Running goroutines are scheduled, and a Go mutex does not starve a waiter.
Fairness == \A r \in Refresher : WF_vars(Proceed(r)) /\ SF_vars(LockRefresh(r))

Spec == Init /\ [][Next]_vars /\ Fairness

-----------------------------------------------------------------------------
(* Properties. *)

\* All or nothing: whenever no refresh holds the lock, every registered field
\* has the value the current properties give it, whatever failed, panicked or
\* changed before.
ValuesMatchProperties ==
    lock = NoOne => \A i \in DOMAIN Objects : value[Objects[i]] = Bind(Objects[i], prop)

\* The decision point of a refresh is the end of its validation: until then
\* the configuration in force is the one it found.
InForce == IF \E r \in Refresher : pc[r] = "validating" THEN old ELSE prop

\* The refresh implements the register: a snapshot that is in force is never
\* replaced by one that is older in any source or that cannot be bound, although
\* refreshers read the sources one by one while others refresh.
Register == INSTANCE ConfigRegister WITH current <- InForce
ImplementsRegister == Register!Spec

\* A caller that is told its refresh succeeded finds every change made before
\* it called, for as long as it cares to look.
RefreshIsFresh ==
    \A r \in Refresher : pc[r] = "ok" =>
        \A s \in Source : InForce[s] >= asked[r][s]

\* Unless one of them panics, no listener misses a change: between two
\* refreshes each was last told the value its field has, or found it there when
\* it was registered, also when that was in the middle of a refresh.
ListenersFollow ==
    (lock = NoOne /\ ~panicked) => \A f \in listening : called[f].new = value[f]

\* A call returns although others keep calling.
RefreshReturns == \A r \in Refresher : pc[r] = "waiting" ~> pc[r] \in Result

=============================================================================
