-------------------------- MODULE DynRefreshProofs --------------------------
(***************************************************************************)
(* Proofs about DynRefresh for any number of refreshers, sources, fields   *)
(* and versions.                                                           *)
(***************************************************************************)
EXTENDS DynRefresh, TLAPS

\* The registered objects, as the loops over them see them.
LEMMA ObjectsType ==
    /\ Len(Objects) \in Nat
    /\ DOMAIN Objects = 1..Len(Objects)
    /\ \A i \in DOMAIN Objects : Objects[i] \in Field
    /\ 1 \in 1..Len(Objects) + 1
    /\ \A i \in DOMAIN Objects : i + 1 \in 1..Len(Objects) + 1
    /\ 0 \in Version
    /\ KeyOf \in [Field -> Source]
<1>1. Objects \in Seq(Field)
  BY RefreshAssumption
<1>2. Len(Objects) \in Nat /\ DOMAIN Objects = 1..Len(Objects)
  BY <1>1
<1>3. \A i \in DOMAIN Objects : Objects[i] \in Field
  BY <1>1
<1>4. MaxVersion \in Nat
  BY RefreshAssumption
<1>5. KeyOf \in [Field -> Source]
  BY RefreshAssumption
<1>6. 1 \in 1..Len(Objects) + 1 /\ \A i \in DOMAIN Objects : i + 1 \in 1..Len(Objects) + 1
  BY <1>2
<1> QED
  BY <1>2, <1>3, <1>4, <1>5, <1>6 DEF Version

\* Every variable keeps its type.
THEOREM Typing == Spec => []TypeOK
<1>1. Init => TypeOK
  <2> SUFFICES ASSUME Init PROVE TypeOK
    OBVIOUS
  <2>1. Zero \in Snapshot
    BY ObjectsType DEF Zero, Snapshot
  <2>2. /\ value \in [Field -> Version] /\ olds \in [Field -> Version]
        /\ called \in [Field -> [old : Version, new : Version]]
    BY ObjectsType DEF Init
  <2>3. at \in 1..Len(Objects) + 1
    BY ObjectsType DEF Init
  <2> QED
    BY <2>1, <2>2, <2>3 DEF Init, TypeOK, PC, Result
<1>2. TypeOK /\ [Next]_vars => TypeOK'
  <2> SUFFICES ASSUME TypeOK, [Next]_vars PROVE TypeOK'
    OBVIOUS
  <2> USE DEF TypeOK, Snapshot, PC, Result
  <2>0. /\ 1 \in 1..Len(Objects) + 1 /\ 0 \in Version
         /\ KeyOf \in [Field -> Source]
         /\ \A i \in DOMAIN Objects :
               Objects[i] \in Field /\ i + 1 \in 1..Len(Objects) + 1
    BY ObjectsType
  <2>1. ASSUME NEW s \in Source, Change(s) PROVE TypeOK'
    <3>1. source[s] + 1 \in Version
      <4>1. Last[s] \in Version /\ source[s] \in Version /\ source[s] < Last[s]
        BY <2>1, RefreshAssumption DEF Change
      <4>2. MaxVersion \in Nat
        BY RefreshAssumption
      <4> QED
        BY <4>1, <4>2 DEF Version
    <3> QED
      BY <2>1, <3>1 DEF Change
  <2>2. ASSUME NEW f \in Field, OnChanged(f) PROVE TypeOK'
    BY <2>2 DEF OnChanged
  <2>3. ASSUME NEW r \in Refresher, RefreshProperties(r) PROVE TypeOK'
    BY <2>3 DEF RefreshProperties, Goto
  <2>4. ASSUME NEW r \in Refresher, LockRefresh(r) PROVE TypeOK'
    BY <2>4 DEF LockRefresh, Goto
  <2>5. ASSUME NEW r \in Refresher, NEW s \in Source, ReadSource(r, s) PROVE TypeOK'
    BY <2>5 DEF ReadSource
  <2>6. ASSUME NEW r \in Refresher, ReadFails(r) PROVE TypeOK'
    BY <2>6, <2>0 DEF ReadFails, Return, Goto, Zero
  <2>7. ASSUME NEW r \in Refresher, StoreLayered(r) PROVE TypeOK'
    BY <2>7 DEF StoreLayered, Goto
  <2>8. ASSUME NEW r \in Refresher, LockProperties(r) PROVE TypeOK'
    BY <2>8 DEF LockProperties, Goto
  <2>9. ASSUME NEW r \in Refresher, Validate(r) PROVE TypeOK'
    BY <2>9, <2>0 DEF Validate, Goto
  <2>10. ASSUME NEW r \in Refresher, ValidateFails(r) PROVE TypeOK'
    BY <2>10, <2>0 DEF ValidateFails, Return, Goto, Zero
  <2>11. ASSUME NEW r \in Refresher, Commit(r) PROVE TypeOK'
    <3>1. CASE at \in DOMAIN Objects
      <4> DEFINE f == Objects[at]
      <4>1. f \in Field /\ at + 1 \in 1..Len(Objects) + 1
        BY <3>1, <2>0
      <4>2. Bind(f, prop) \in Version /\ value[f] \in Version
        BY <4>1, <2>0 DEF Bind
      <4>3. /\ value' = [value EXCEPT ![f] = Bind(f, prop)]
            /\ olds' = [olds EXCEPT ![f] = value[f]]
            /\ at' = at + 1
            /\ UNCHANGED <<source, mu, lock, layered, prop, old, pc, snap, got,
                           listening, called, asked, panicked>>
        BY <2>11, <3>1 DEF Commit
      <4> QED
        BY <4>1, <4>2, <4>3
    <3>2. CASE at \notin DOMAIN Objects
      BY <2>11, <2>0, <3>2 DEF Commit, Goto
    <3> QED
      BY <3>1, <3>2
  <2>12. ASSUME NEW f \in Field, Notify(f)
         PROVE  called' \in [Field -> [old : Version, new : Version]]
    BY <2>12, <2>0 DEF Notify, Bind
  <2>13. ASSUME NEW r \in Refresher, FinishObject(r) PROVE TypeOK'
    BY <2>13, <2>12, <2>0 DEF FinishObject
  <2>14. ASSUME NEW r \in Refresher, ListenerPanics(r) PROVE TypeOK'
    BY <2>14, <2>12, <2>0 DEF ListenerPanics, Return, Goto, Zero
  <2>15. ASSUME NEW r \in Refresher, Finish(r) PROVE TypeOK'
    BY <2>15, <2>0 DEF Finish, Return, Goto, Zero
  <2>16. CASE UNCHANGED vars
    BY <2>16 DEF vars
  <2> QED
    BY <2>1, <2>2, <2>3, <2>4, <2>5, <2>6, <2>7, <2>8, <2>9, <2>10, <2>11, <2>13,
       <2>14, <2>15, <2>16 DEF Next, Proceed
<1> QED
  BY <1>1, <1>2, PTL DEF Spec

-----------------------------------------------------------------------------
(* Who is inside. *)

Locked   == {"validating", "committing", "finishing"}
Critical == Locked \cup {"reading", "applying"}

\* A refresher is between the locking of a mutex and its release exactly when
\* it is the holder.
Exclusion ==
    \A r \in Refresher :
        /\ mu = r <=> pc[r] \in Critical
        /\ lock = r <=> pc[r] \in Locked

\* So refreshMu and the lock of the properties exclude each other's critical
\* sections, through failures and panics.
THEOREM ExclusionHolds == Spec => []Exclusion
<1>1. Init => Exclusion
  BY RefreshAssumption DEF Init, Exclusion, Critical, Locked
<1>2. TypeOK /\ Exclusion /\ [Next]_vars => Exclusion'
  <2> SUFFICES ASSUME TypeOK, Exclusion, [Next]_vars PROVE Exclusion'
    OBVIOUS
  <2>0. NoOne \notin Refresher /\ pc \in [Refresher -> PC]
    BY RefreshAssumption DEF TypeOK
  <2> USE <2>0 DEF Exclusion, Critical, Locked, Result
  <2>1. ASSUME NEW s \in Source, Change(s) PROVE Exclusion'
    BY <2>1 DEF Change
  <2>2. ASSUME NEW f \in Field, OnChanged(f) PROVE Exclusion'
    BY <2>2 DEF OnChanged
  <2>3. ASSUME NEW r \in Refresher, RefreshProperties(r) PROVE Exclusion'
    BY <2>3 DEF RefreshProperties, Goto
  <2>4. ASSUME NEW r \in Refresher, LockRefresh(r) PROVE Exclusion'
    BY <2>4 DEF LockRefresh, Goto
  <2>5. ASSUME NEW r \in Refresher, NEW s \in Source, ReadSource(r, s) PROVE Exclusion'
    BY <2>5 DEF ReadSource
  <2>6. ASSUME NEW r \in Refresher, ReadFails(r) PROVE Exclusion'
    BY <2>6 DEF ReadFails, Return, Goto
  <2>7. ASSUME NEW r \in Refresher, StoreLayered(r) PROVE Exclusion'
    BY <2>7 DEF StoreLayered, Goto
  <2>8. ASSUME NEW r \in Refresher, LockProperties(r) PROVE Exclusion'
    BY <2>8 DEF LockProperties, Goto
  <2>9. ASSUME NEW r \in Refresher, Validate(r) PROVE Exclusion'
    BY <2>9 DEF Validate, Goto
  <2>10. ASSUME NEW r \in Refresher, ValidateFails(r) PROVE Exclusion'
    BY <2>10 DEF ValidateFails, Return, Goto
  <2>11. ASSUME NEW r \in Refresher, Commit(r) PROVE Exclusion'
    BY <2>11 DEF Commit, Goto
  <2>12. ASSUME NEW r \in Refresher, FinishObject(r) PROVE Exclusion'
    BY <2>12 DEF FinishObject
  <2>13. ASSUME NEW r \in Refresher, ListenerPanics(r) PROVE Exclusion'
    BY <2>13 DEF ListenerPanics, Return, Goto
  <2>14. ASSUME NEW r \in Refresher, Finish(r) PROVE Exclusion'
    BY <2>14 DEF Finish, Return, Goto
  <2>15. CASE UNCHANGED vars
    BY <2>15 DEF vars
  <2> QED
    BY <2>1, <2>2, <2>3, <2>4, <2>5, <2>6, <2>7, <2>8, <2>9, <2>10, <2>11, <2>12,
       <2>13, <2>14, <2>15 DEF Next, Proceed
<1> QED
  BY <1>1, <1>2, Typing, PTL DEF Spec

-----------------------------------------------------------------------------
(* All or nothing. *)

\* The objects before the n-th have the values that configuration p gives them.
Follow(n, p) ==
    \A i \in DOMAIN Objects : i < n => value[Objects[i]] = Bind(Objects[i], p)

AllObjects == Len(Objects) + 1

\* ValuesMatchProperties, and what is known of the values inside a refresh.
ValuesInv ==
    /\ lock = NoOne => Follow(AllObjects, prop)
    /\ \A r \in Refresher :
          /\ pc[r] = "validating" => Follow(AllObjects, old)
          /\ pc[r] = "committing" => Follow(at, prop)
          /\ pc[r] = "finishing"  => Follow(AllObjects, prop)

\* Committing the n-th object extends what holds of the objects before it,
\* also when the same field is registered twice.
LEMMA CommitOne ==
    ASSUME TypeOK, NEW n \in DOMAIN Objects, Follow(n, prop),
           value' = [value EXCEPT ![Objects[n]] = Bind(Objects[n], prop)],
           UNCHANGED prop
    PROVE  Follow(n + 1, prop)'
<1> SUFFICES ASSUME NEW i \in DOMAIN Objects, i < n + 1
             PROVE  value'[Objects[i]] = Bind(Objects[i], prop)
  BY DEF Follow, Bind
<1>1. Objects[i] \in Field /\ Objects[n] \in Field
  BY ObjectsType
<1>2. value \in [Field -> Version]
  BY DEF TypeOK
<1>3. CASE Objects[i] = Objects[n]
  BY <1>1, <1>2, <1>3
<1>4. CASE Objects[i] # Objects[n]
  <2>1. i < n
    BY <1>4, ObjectsType
  <2> QED
    BY <1>1, <1>2, <1>4, <2>1 DEF Follow
<1> QED
  BY <1>3, <1>4

\* What every place of a refresh says of the values.
THEOREM ValuesFollow == Spec => []ValuesInv
<1>1. Init => ValuesInv
  <2> SUFFICES ASSUME Init PROVE ValuesInv
    OBVIOUS
  <2>1. ASSUME NEW i \in DOMAIN Objects
        PROVE  value[Objects[i]] = 0 /\ Bind(Objects[i], prop) = 0
    BY ObjectsType DEF Init, Bind, Zero
  <2> QED
    BY <2>1 DEF Init, ValuesInv, Follow
<1>2. TypeOK /\ Exclusion /\ ValuesInv /\ [Next]_vars => ValuesInv'
  <2> SUFFICES ASSUME TypeOK, Exclusion, ValuesInv, [Next]_vars PROVE ValuesInv'
    OBVIOUS
  <2>0. /\ NoOne \notin Refresher /\ pc \in [Refresher -> PC]
        /\ at \in 1..AllObjects /\ Len(Objects) \in Nat
        /\ DOMAIN Objects = 1..Len(Objects)
    BY RefreshAssumption, ObjectsType DEF TypeOK, AllObjects
  <2>1. ASSUME UNCHANGED <<value, prop>>, NEW n \in Nat, Follow(n, prop)
        PROVE  Follow(n, prop)'
    BY <2>1 DEF Follow, Bind
  <2>2. ASSUME UNCHANGED <<value, old>>, NEW n \in Nat, Follow(n, old)
        PROVE  Follow(n, old)'
    BY <2>2 DEF Follow, Bind
  <2>3. AllObjects \in Nat /\ at \in Nat
    BY <2>0 DEF AllObjects
  \* Nothing that ValuesInv speaks of changes, except refreshers outside.
  <2>4. ASSUME UNCHANGED <<value, prop, old, at, lock>>,
               \A r \in Refresher : pc'[r] \in Locked => pc'[r] = pc[r]
        PROVE  ValuesInv'
    BY <2>1, <2>2, <2>3, <2>4 DEF ValuesInv, Locked
  <2>5. ASSUME NEW s \in Source, Change(s) PROVE ValuesInv'
    BY <2>4, <2>5 DEF Change
  <2>6. ASSUME NEW f \in Field, OnChanged(f) PROVE ValuesInv'
    BY <2>4, <2>6 DEF OnChanged
  <2>7. ASSUME NEW r \in Refresher, RefreshProperties(r) PROVE ValuesInv'
    BY <2>0, <2>4, <2>7 DEF RefreshProperties, Goto, Locked
  <2>8. ASSUME NEW r \in Refresher, LockRefresh(r) PROVE ValuesInv'
    BY <2>0, <2>4, <2>8 DEF LockRefresh, Goto, Locked
  <2>9. ASSUME NEW r \in Refresher, NEW s \in Source, ReadSource(r, s) PROVE ValuesInv'
    BY <2>4, <2>9 DEF ReadSource
  \* A refresh that returns leaves no one else inside.
  <2>10. ASSUME NEW r \in Refresher, NEW result \in Result, pc[r] \in Critical,
                Return(r, result)
         PROVE  lock' = NoOne /\ \A q \in Refresher : pc'[q] \notin Locked
    BY <2>0, <2>10 DEF Return, Goto, Exclusion, Locked, Critical, Result, TypeOK
  <2>11. ASSUME NEW r \in Refresher, ReadFails(r) PROVE ValuesInv'
    <3>1. lock = NoOne
      BY <2>11, <2>0 DEF ReadFails, Exclusion, Locked, Critical, TypeOK
    <3>2. Follow(AllObjects, prop) /\ UNCHANGED <<value, prop>>
      BY <2>11, <3>1 DEF ReadFails, ValuesInv
    <3>3. \A q \in Refresher : pc'[q] \notin Locked
      BY <2>11, <2>10 DEF ReadFails, Critical, Result
    <3> QED
      BY <2>1, <2>3, <3>2, <3>3 DEF ValuesInv, Locked
  <2>12. ASSUME NEW r \in Refresher, StoreLayered(r) PROVE ValuesInv'
    BY <2>0, <2>4, <2>12 DEF StoreLayered, Goto, Locked
  <2>13. ASSUME NEW r \in Refresher, LockProperties(r) PROVE ValuesInv'
    <3>1. lock = NoOne /\ lock' = r /\ old' = prop /\ value' = value
      BY <2>13 DEF LockProperties
    <3>2. Follow(AllObjects, old)'
      BY <3>1 DEF ValuesInv, Follow, Bind
    <3>3. \A q \in Refresher : pc'[q] \in Locked => pc'[q] = "validating"
      BY <2>13, <2>0, <3>1 DEF LockProperties, Goto, Exclusion, Locked
    <3> QED
      BY <2>0, <3>1, <3>2, <3>3 DEF ValuesInv, Locked
  <2>14. ASSUME NEW r \in Refresher, Validate(r) PROVE ValuesInv'
    <3>1. Follow(1, prop)'
      BY <2>0 DEF Follow
    <3>2. \A q \in Refresher : pc'[q] \in Locked => q = r /\ pc'[q] = "committing"
      BY <2>14, <2>0 DEF Validate, Goto, Exclusion, Locked
    <3>3. lock' # NoOne /\ at' = 1
      BY <2>14, <2>0 DEF Validate, Exclusion, Locked
    <3> QED
      BY <3>1, <3>2, <3>3 DEF ValuesInv, Locked
  <2>15. ASSUME NEW r \in Refresher, ValidateFails(r) PROVE ValuesInv'
    <3>1. Follow(AllObjects, old) /\ prop' = old /\ value' = value
      BY <2>15 DEF ValidateFails, ValuesInv
    <3>2. Follow(AllObjects, prop)'
      BY <3>1 DEF Follow, Bind
    <3>3. \A q \in Refresher : pc'[q] \notin Locked
      BY <2>15, <2>10 DEF ValidateFails, Critical, Locked, Result
    <3> QED
      BY <3>2, <3>3 DEF ValuesInv, Locked
  <2>16. ASSUME NEW r \in Refresher, Commit(r) PROVE ValuesInv'
    <3>0. Follow(at, prop) /\ UNCHANGED <<prop, old, lock>>
      BY <2>16 DEF Commit, ValuesInv
    <3>1. \A q \in Refresher : pc[q] \in Locked => q = r
      BY <2>16 DEF Commit, Exclusion, Locked
    <3>2. lock # NoOne
      BY <2>16, <2>0 DEF Commit, Exclusion, Locked
    <3>3. CASE at \in DOMAIN Objects
      <4>0. PICK n \in DOMAIN Objects : n = at
        BY <3>3
      <4>1. Follow(n + 1, prop)'
        BY <2>16, <3>0, <4>0, CommitOne DEF Commit
      <4>2. at' = n + 1 /\ pc' = pc
        BY <2>16, <3>3, <4>0 DEF Commit
      <4>3. Follow(at, prop)'
        BY <4>1, <4>2 DEF Follow
      <4> QED
        BY <2>16, <3>0, <3>1, <3>2, <4>2, <4>3 DEF ValuesInv, Locked, Commit
    <3>4. CASE at \notin DOMAIN Objects
      <4>1. at = AllObjects /\ UNCHANGED value
        BY <2>0, <2>16, <3>4 DEF AllObjects, Commit
      <4>2. Follow(AllObjects, prop)'
        BY <3>0, <4>1, <2>1, <2>3
      <4>3. \A q \in Refresher : pc'[q] \in Locked => pc'[q] = "finishing"
        BY <2>0, <2>16, <3>1, <3>4 DEF Commit, Goto
      <4> QED
        BY <4>2, <4>3 DEF ValuesInv, Locked
    <3> QED
      BY <3>3, <3>4
  \* The end of a refresh finds all values in place.
  <2>17. ASSUME NEW r \in Refresher, pc[r] = "finishing", UNCHANGED <<value, prop>>,
                \A q \in Refresher : pc'[q] \in Locked => pc'[q] = "finishing"
         PROVE  ValuesInv'
    BY <2>1, <2>3, <2>17 DEF ValuesInv, Locked
  <2>18. ASSUME NEW r \in Refresher, FinishObject(r) PROVE ValuesInv'
    <3>1. \A q \in Refresher : pc'[q] \in Locked => pc'[q] = "finishing"
      BY <2>18 DEF FinishObject, Exclusion, Locked
    <3> QED
      BY <2>17, <2>18, <3>1 DEF FinishObject
  <2>19. ASSUME NEW r \in Refresher, ListenerPanics(r) PROVE ValuesInv'
    BY <2>10, <2>17, <2>19 DEF ListenerPanics, Result, Locked, Critical
  <2>20. ASSUME NEW r \in Refresher, Finish(r) PROVE ValuesInv'
    BY <2>10, <2>17, <2>20 DEF Finish, Result, Locked, Critical
  <2>21. CASE UNCHANGED vars
    BY <2>4, <2>21 DEF vars
  <2> QED
    BY <2>5, <2>6, <2>7, <2>8, <2>9, <2>11, <2>12, <2>13, <2>14, <2>15, <2>16, <2>18,
       <2>19, <2>20, <2>21 DEF Next, Proceed
<1> QED
  BY <1>1, <1>2, Typing, ExclusionHolds, PTL DEF Spec

\* All or nothing: between refreshes every registered field has the value that
\* the current properties give it.
THEOREM ValuesMatch == Spec => []ValuesMatchProperties
<1>1. ValuesInv => ValuesMatchProperties
  BY ObjectsType DEF ValuesInv, ValuesMatchProperties, Follow, AllObjects
<1> QED
  BY <1>1, ValuesFollow, PTL

-----------------------------------------------------------------------------
(* Nobody misses a change. *)

\* The listener of f, if there is one, was told the value that f has.
Told(f) == f \in listening => called[f].new = value[f]

\* f will be told: it is an object that the loop has yet to reach.
Due(f, n) == \E i \in DOMAIN Objects : n <= i /\ Objects[i] = f

\* ListenersFollow, and who is still to be told inside a refresh: an object
\* that has been committed may lag behind, until its listener is called.
ListenInv ==
    ~panicked =>
        /\ lock = NoOne => \A f \in Field : Told(f)
        /\ \A r \in Refresher :
              /\ pc[r] = "validating" => \A f \in Field : Told(f)
              /\ pc[r] = "committing" => \A f \in Field : Told(f) \/ Due(f, 1)
              /\ pc[r] = "finishing"  => \A f \in Field : Told(f) \/ Due(f, at)

\* A listener that is called is told the value that its field has.
LEMMA NotifyTells ==
    ASSUME TypeOK, NEW n \in DOMAIN Objects, Follow(AllObjects, prop),
           Notify(Objects[n]), UNCHANGED <<value, listening>>
    PROVE  /\ Told(Objects[n])'
           /\ \A f \in Field : Told(f) => Told(f)'
<1>1. Objects[n] \in Field /\ n < AllObjects
  BY ObjectsType DEF AllObjects
<1>2. value[Objects[n]] = Bind(Objects[n], prop)
  BY <1>1 DEF Follow
<1>3. called \in [Field -> [old : Version, new : Version]]
  BY DEF TypeOK
<1> QED
  BY <1>1, <1>2, <1>3 DEF Notify, Told

\* Unless a listener panics, between refreshes each was last told the value
\* its field has, or found it there when it was registered (gs_dync/dync.go
\* OnChanged, onFinish).
THEOREM ListenersAreTold == Spec => []ListenersFollow
<1>1. Init => ListenInv
  BY DEF Init, ListenInv, Told
<1>2. TypeOK /\ Exclusion /\ ValuesInv /\ ListenInv /\ [Next]_vars => ListenInv'
  <2> SUFFICES ASSUME TypeOK, Exclusion, ValuesInv, ListenInv, [Next]_vars, ~panicked'
               PROVE  ListenInv'
    BY DEF ListenInv
  <2>0. /\ NoOne \notin Refresher /\ pc \in [Refresher -> PC]
        /\ at \in 1..AllObjects /\ Len(Objects) \in Nat
        /\ DOMAIN Objects = 1..Len(Objects) /\ ~panicked
    <3>1. ~panicked
      <4>1. panicked' = panicked \/ \E r \in Refresher : ListenerPanics(r)
        BY DEF Next, Proceed, vars, Change, OnChanged, RefreshProperties, LockRefresh,
               ReadSource, ReadFails, StoreLayered, LockProperties, Validate, ValidateFails,
               Commit, FinishObject, Finish
      <4>2. CASE panicked' = panicked
        BY <4>2
      <4>3. CASE \E r \in Refresher : ListenerPanics(r)
        BY <4>3 DEF ListenerPanics
      <4> QED
        BY <4>1, <4>2, <4>3
    <3> QED
      BY <3>1, RefreshAssumption, ObjectsType DEF TypeOK, AllObjects
  \* Nothing that ListenInv speaks of changes, except refreshers outside.
  <2>1. ASSUME UNCHANGED <<value, listening, called, at, lock>>,
               \A r \in Refresher : pc'[r] \in Locked => pc'[r] = pc[r]
        PROVE  ListenInv'
    BY <2>0, <2>1 DEF ListenInv, Told, Due, Locked
  <2>2. ASSUME NEW s \in Source, Change(s) PROVE ListenInv'
    BY <2>1, <2>2 DEF Change
  <2>3. ASSUME NEW g \in Field, OnChanged(g) PROVE ListenInv'
    <3>1. /\ listening' = listening \cup {g}
          /\ called' = IF g \in listening THEN called
                       ELSE [called EXCEPT ![g] = [old |-> value[g], new |-> value[g]]]
          /\ UNCHANGED <<value, at, pc, lock>>
      BY <2>3 DEF OnChanged
    <3>2. called \in [Field -> [old : Version, new : Version]]
      BY DEF TypeOK
    <3>3. \A f \in Field : Told(f) => Told(f)'
      BY <3>1, <3>2 DEF Told
    <3> QED
      BY <2>0, <3>1, <3>3 DEF ListenInv, Due
  <2>4. ASSUME NEW r \in Refresher, RefreshProperties(r) PROVE ListenInv'
    BY <2>0, <2>1, <2>4 DEF RefreshProperties, Goto, Locked
  <2>5. ASSUME NEW r \in Refresher, LockRefresh(r) PROVE ListenInv'
    BY <2>0, <2>1, <2>5 DEF LockRefresh, Goto, Locked
  <2>6. ASSUME NEW r \in Refresher, NEW s \in Source, ReadSource(r, s) PROVE ListenInv'
    BY <2>1, <2>6 DEF ReadSource
  \* A refresh that returns when everybody has been told leaves no one inside.
  <2>7. ASSUME NEW r \in Refresher, NEW result \in Result, pc[r] \in Critical,
               Return(r, result), UNCHANGED <<value, listening, called>>,
               \A f \in Field : Told(f)
        PROVE  ListenInv'
    <3>1. \A q \in Refresher : pc'[q] \notin Locked
      BY <2>0, <2>7 DEF Return, Goto, Exclusion, Locked, Critical, Result
    <3>2. \A f \in Field : Told(f)'
      BY <2>7 DEF Told
    <3> QED
      BY <3>1, <3>2 DEF ListenInv, Locked
  <2>8. ASSUME NEW r \in Refresher, ReadFails(r) PROVE ListenInv'
    <3>1. lock = NoOne
      BY <2>8, <2>0 DEF ReadFails, Exclusion, Locked, Critical, TypeOK
    <3> QED
      BY <2>0, <2>7, <2>8, <3>1 DEF ReadFails, ListenInv, Critical, Result
  <2>9. ASSUME NEW r \in Refresher, StoreLayered(r) PROVE ListenInv'
    BY <2>0, <2>1, <2>9 DEF StoreLayered, Goto, Locked
  <2>10. ASSUME NEW r \in Refresher, LockProperties(r) PROVE ListenInv'
    <3>1. \A f \in Field : Told(f)'
      BY <2>0, <2>10 DEF LockProperties, ListenInv, Told
    <3> QED
      BY <3>1 DEF ListenInv
  <2>11. ASSUME NEW r \in Refresher, Validate(r) PROVE ListenInv'
    <3>1. \A f \in Field : Told(f)'
      BY <2>0, <2>11 DEF Validate, ListenInv, Told
    <3> QED
      BY <3>1 DEF ListenInv
  <2>12. ASSUME NEW r \in Refresher, ValidateFails(r) PROVE ListenInv'
    BY <2>0, <2>7, <2>12 DEF ValidateFails, ListenInv, Critical, Locked, Result
  <2>13. ASSUME NEW r \in Refresher, Commit(r) PROVE ListenInv'
    <3>0. /\ pc[r] = "committing" /\ \A f \in Field : Told(f) \/ Due(f, 1)
          /\ UNCHANGED <<listening, called, lock>>
      BY <2>0, <2>13 DEF Commit, ListenInv
    <3>1. lock # NoOne /\ \A q \in Refresher : pc[q] \in Locked => q = r
      BY <2>0, <3>0 DEF Exclusion, Locked
    <3>2. CASE at \in DOMAIN Objects
      <4>1. value' = [value EXCEPT ![Objects[at]] = Bind(Objects[at], prop)] /\ pc' = pc
        BY <2>13, <3>2 DEF Commit
      <4>2. Due(Objects[at], 1) /\ value \in [Field -> Version]
        BY <2>0, <3>2 DEF Due, TypeOK
      <4>3. \A f \in Field : Told(f)' \/ Due(f, 1)
        BY <3>0, <4>1, <4>2 DEF Told
      <4> QED
        BY <3>0, <3>1, <4>1, <4>3 DEF ListenInv, Due, Locked
    <3>3. CASE at \notin DOMAIN Objects
      <4>1. UNCHANGED value /\ at' = 1 /\ pc' = [pc EXCEPT ![r] = "finishing"]
        BY <2>13, <3>3 DEF Commit, Goto
      <4>2. \A q \in Refresher : pc'[q] \in Locked => pc'[q] = "finishing"
        BY <2>0, <3>1, <4>1
      <4>3. \A f \in Field : Told(f)' \/ Due(f, at)'
        BY <3>0, <4>1 DEF Told, Due
      <4> QED
        BY <3>0, <3>1, <4>2, <4>3 DEF ListenInv, Locked
    <3> QED
      BY <3>2, <3>3
  <2>14. ASSUME NEW r \in Refresher, FinishObject(r) PROVE ListenInv'
    <3>0. /\ pc[r] = "finishing" /\ \A f \in Field : Told(f) \/ Due(f, at)
          /\ at' = at + 1 /\ Notify(Objects[at])
          /\ UNCHANGED <<value, listening, pc, lock>>
      BY <2>0, <2>14 DEF FinishObject, ListenInv
    <3>1. lock # NoOne /\ \A q \in Refresher : pc[q] \in Locked => q = r
      BY <2>0, <3>0 DEF Exclusion, Locked
    <3>2. PICK n \in DOMAIN Objects : n = at
      BY <2>14 DEF FinishObject
    <3>3. Told(Objects[n])' /\ \A f \in Field : Told(f) => Told(f)'
      BY <3>0, <3>2, NotifyTells DEF ValuesInv
    <3>4. \A f \in Field : Due(f, n) => Objects[n] = f \/ Due(f, n + 1)
      BY <2>0 DEF Due
    <3>5. \A f \in Field : Told(f)' \/ Due(f, n + 1)
      BY <3>0, <3>2, <3>3, <3>4
    <3>6. \A f \in Field : Due(f, n + 1) => Due(f, at)'
      BY <3>0, <3>2 DEF Due
    <3> QED
      BY <3>0, <3>1, <3>5, <3>6 DEF ListenInv, Locked
  <2>15. ASSUME NEW r \in Refresher, ListenerPanics(r) PROVE ListenInv'
    BY <2>15 DEF ListenerPanics
  <2>16. ASSUME NEW r \in Refresher, Finish(r) PROVE ListenInv'
    <3>1. \A f \in Field : ~Due(f, at)
      BY <2>0, <2>16 DEF Finish, Due, AllObjects
    <3>2. \A f \in Field : Told(f)
      BY <2>0, <2>16, <3>1 DEF Finish, ListenInv
    <3> QED
      BY <2>7, <2>16, <3>2 DEF Finish, Critical, Locked, Result
  <2>17. CASE UNCHANGED vars
    BY <2>1, <2>17 DEF vars
  <2> QED
    BY <2>2, <2>3, <2>4, <2>5, <2>6, <2>8, <2>9, <2>10, <2>11, <2>12, <2>13, <2>14,
       <2>15, <2>16, <2>17 DEF Next, Proceed
<1>3. TypeOK /\ ListenInv => ListenersFollow
  BY DEF ListenInv, ListenersFollow, Told, TypeOK
<1> QED
  BY <1>1, <1>2, <1>3, Typing, ExclusionHolds, ValuesFollow, PTL DEF Spec

-----------------------------------------------------------------------------
(* Nothing older ever comes into force. *)

\* RefreshIsFresh, and how far the reading of a refresh has come.
FreshInv ==
    /\ \A s \in Source : prop[s] <= source[s]
    /\ \A r \in Refresher :
          /\ \A s \in Source : asked[r][s] <= source[s]
          /\ pc[r] \notin Critical => got[r] = {}
          /\ pc[r] \in Critical =>
                \A s \in got[r] : /\ asked[r][s] <= snap[r][s]
                                  /\ snap[r][s] <= source[s]
                                  /\ InForce[s] <= snap[r][s]
          /\ pc[r] \in Locked \cup {"applying"} => got[r] = Source
          /\ pc[r] \in Locked => prop = snap[r]
          /\ pc[r] = "ok" => \A s \in Source : asked[r][s] <= InForce[s]

\* Versions are numbers.
LEMMA Numbers ==
    ASSUME TypeOK
    PROVE  \A s \in Source :
              /\ source[s] \in Nat /\ prop[s] \in Nat /\ old[s] \in Nat
              /\ InForce[s] \in Nat
              /\ \A r \in Refresher : snap[r][s] \in Nat /\ asked[r][s] \in Nat
<1>1. \A v \in Version : v \in Nat
  BY RefreshAssumption DEF Version
<1> QED
  BY <1>1 DEF TypeOK, Snapshot, InForce

\* The configuration in force changes when a refresh ends its validation, to
\* the snapshot that was validated, and at no other time.
LEMMA InForceChanges ==
    ASSUME TypeOK, Exclusion, [Next]_vars
    PROVE  \/ InForce' = InForce
           \/ \E r \in Refresher : Validate(r) /\ InForce' = prop
<1>0. NoOne \notin Refresher /\ pc \in [Refresher -> PC]
  BY RefreshAssumption DEF TypeOK
<1>1. ASSUME UNCHANGED <<prop, old>>,
             \A r \in Refresher : pc'[r] = "validating" <=> pc[r] = "validating"
      PROVE  InForce' = InForce
  BY <1>1 DEF InForce
<1>2. ASSUME NEW s \in Source, Change(s) PROVE InForce' = InForce
  BY <1>1, <1>2 DEF Change
<1>3. ASSUME NEW f \in Field, OnChanged(f) PROVE InForce' = InForce
  BY <1>1, <1>3 DEF OnChanged
<1>4. ASSUME NEW r \in Refresher, RefreshProperties(r) PROVE InForce' = InForce
  BY <1>0, <1>1, <1>4 DEF RefreshProperties, Goto, Result
<1>5. ASSUME NEW r \in Refresher, LockRefresh(r) PROVE InForce' = InForce
  BY <1>0, <1>1, <1>5 DEF LockRefresh, Goto
<1>6. ASSUME NEW r \in Refresher, NEW s \in Source, ReadSource(r, s)
      PROVE  InForce' = InForce
  BY <1>1, <1>6 DEF ReadSource
\* Nobody validates while r is elsewhere inside.
<1>7. ASSUME NEW r \in Refresher, pc[r] \in Critical \ {"validating"}
      PROVE  \A q \in Refresher : pc[q] # "validating"
  BY <1>7 DEF Exclusion, Critical, Locked
<1>8. ASSUME NEW r \in Refresher, NEW result \in Result, Return(r, result),
             pc[r] \in Critical
      PROVE  \A q \in Refresher : pc'[q] # "validating"
  BY <1>0, <1>8 DEF Return, Goto, Exclusion, Critical, Locked, Result
<1>9. ASSUME NEW r \in Refresher, ReadFails(r) PROVE InForce' = InForce
  BY <1>7, <1>8, <1>9 DEF ReadFails, Critical, Locked, Result, InForce
<1>10. ASSUME NEW r \in Refresher, StoreLayered(r) PROVE InForce' = InForce
  BY <1>0, <1>1, <1>10 DEF StoreLayered, Goto
<1>11. ASSUME NEW r \in Refresher, LockProperties(r) PROVE InForce' = InForce
  <2>1. \A q \in Refresher : pc[q] # "validating"
    BY <1>7, <1>11 DEF LockProperties, Critical, Locked
  <2>2. pc'[r] = "validating" /\ old' = prop
    BY <1>0, <1>11 DEF LockProperties, Goto
  <2> QED
    BY <2>1, <2>2 DEF InForce
<1>12. ASSUME NEW r \in Refresher, Validate(r) PROVE InForce' = prop
  <2>1. \A q \in Refresher : pc'[q] # "validating"
    BY <1>0, <1>12 DEF Validate, Goto, Exclusion, Critical, Locked
  <2> QED
    BY <1>12, <2>1 DEF Validate, InForce
<1>13. ASSUME NEW r \in Refresher, ValidateFails(r) PROVE InForce' = InForce
  <2>1. InForce = old /\ prop' = old
    BY <1>13 DEF ValidateFails, InForce
  <2>2. \A q \in Refresher : pc'[q] # "validating"
    BY <1>8, <1>13 DEF ValidateFails, Critical, Locked, Result
  <2> QED
    BY <2>1, <2>2 DEF InForce
<1>14. ASSUME NEW r \in Refresher, Commit(r) PROVE InForce' = InForce
  BY <1>0, <1>1, <1>14 DEF Commit, Goto
<1>15. ASSUME NEW r \in Refresher, FinishObject(r) PROVE InForce' = InForce
  BY <1>1, <1>15 DEF FinishObject
<1>16. ASSUME NEW r \in Refresher, ListenerPanics(r) PROVE InForce' = InForce
  BY <1>7, <1>8, <1>16 DEF ListenerPanics, Critical, Locked, Result, InForce
<1>17. ASSUME NEW r \in Refresher, Finish(r) PROVE InForce' = InForce
  BY <1>7, <1>8, <1>17 DEF Finish, Critical, Locked, Result, InForce
<1>18. CASE UNCHANGED vars
  BY <1>1, <1>18 DEF vars
<1> QED
  BY <1>2, <1>3, <1>4, <1>5, <1>6, <1>9, <1>10, <1>11, <1>12, <1>13, <1>14, <1>15,
     <1>16, <1>17, <1>18 DEF Next, Proceed

\* A snapshot that passes validation is not older than the configuration it
\* replaces.
LEMMA ValidatedIsNewer ==
    ASSUME TypeOK, FreshInv, NEW r \in Refresher, Validate(r)
    PROVE  \A s \in Source : InForce[s] <= prop[s]
  BY DEF FreshInv, Validate, Critical, Locked

\* So the configuration in force never gets older in any source.
LEMMA InForceGrows ==
    ASSUME TypeOK, Exclusion, FreshInv, [Next]_vars
    PROVE  \A s \in Source : InForce[s] <= InForce'[s]
<1>1. CASE InForce' = InForce
  BY <1>1, Numbers
<1>2. CASE \E r \in Refresher : Validate(r) /\ InForce' = prop
  BY <1>2, ValidatedIsNewer
<1> QED
  BY <1>1, <1>2, InForceChanges

\* What a refresh has read is not older than what is in force, and not older
\* than the call.
THEOREM Freshness == Spec => []FreshInv
<1>1. Init => FreshInv
  BY DEF Init, FreshInv, Zero, Critical, Locked
<1>2. TypeOK /\ Exclusion /\ FreshInv /\ [Next]_vars => FreshInv'
  <2> SUFFICES ASSUME TypeOK, Exclusion, FreshInv, [Next]_vars PROVE FreshInv'
    OBVIOUS
  <2>0. /\ pc \in [Refresher -> PC] /\ snap \in [Refresher -> Snapshot]
        /\ got \in [Refresher -> SUBSET Source] /\ asked \in [Refresher -> Snapshot]
        /\ source \in Snapshot
    BY DEF TypeOK
  <2>1. \A s \in Source : /\ InForce'[s] \in Nat
                          /\ InForce[s] <= InForce'[s]
    BY InForceChanges, InForceGrows, Numbers
  \* The reading, the snapshots and the numbers stay.
  <2>2. ASSUME InForce' = InForce, UNCHANGED <<prop, snap, got, asked>>,
               \A s \in Source : source'[s] \in Nat /\ source[s] <= source'[s],
               \A r \in Refresher :
                  \/ pc'[r] = pc[r]
                  \/ pc[r] \in Locked /\ pc'[r] \in Locked
        PROVE  FreshInv'
    <3>1. \A r \in Refresher : /\ pc'[r] \in Critical <=> pc[r] \in Critical
                               /\ pc'[r] \in Locked <=> pc[r] \in Locked
                               /\ pc'[r] \in {"applying", "ok"} => pc'[r] = pc[r]
      BY <2>2 DEF Critical, Locked
    <3>2. \A s \in Source : prop'[s] <= source'[s]
      BY <2>2, Numbers DEF FreshInv
    <3>3. \A r \in Refresher : \A s \in Source : asked'[r][s] <= source'[s]
      BY <2>2, Numbers DEF FreshInv
    <3>4. \A r \in Refresher : pc'[r] \in Critical =>
             \A s \in got'[r] : /\ asked'[r][s] <= snap'[r][s]
                                /\ snap'[r][s] <= source'[s]
                                /\ InForce'[s] <= snap'[r][s]
      <4> SUFFICES ASSUME NEW r \in Refresher, pc[r] \in Critical, NEW s \in got[r]
                   PROVE  /\ asked[r][s] <= snap[r][s]
                          /\ snap[r][s] <= source'[s]
                          /\ InForce[s] <= snap[r][s]
        BY <2>2, <3>1
      <4>1. s \in Source
        BY <2>0
      <4>2. /\ asked[r][s] <= snap[r][s] /\ snap[r][s] <= source[s]
            /\ InForce[s] <= snap[r][s]
        BY DEF FreshInv
      <4> QED
        BY <2>2, <4>1, <4>2, Numbers
    <3> QED
      BY <2>2, <3>1, <3>2, <3>3, <3>4 DEF FreshInv
  <2>3. ASSUME NEW s \in Source, Change(s) PROVE FreshInv'
    <3>1. InForce' = InForce
      BY <2>3 DEF Change, InForce
    <3>2. \A t \in Source : source'[t] \in Nat /\ source[t] <= source'[t]
      BY <2>0, <2>3, Numbers DEF Change, Snapshot
    <3> QED
      BY <2>2, <2>3, <3>1, <3>2 DEF Change
  <2>4. ASSUME UNCHANGED source
        PROVE  \A s \in Source : source'[s] \in Nat /\ source[s] <= source'[s]
    BY <2>4, Numbers
  <2>5. ASSUME NEW f \in Field, OnChanged(f) PROVE FreshInv'
    BY <2>2, <2>4, <2>5 DEF OnChanged, InForce
  <2>6. ASSUME NEW r \in Refresher, RefreshProperties(r) PROVE FreshInv'
    <3>1. /\ pc' = [pc EXCEPT ![r] = "waiting"] /\ asked' = [asked EXCEPT ![r] = source]
          /\ UNCHANGED <<source, prop, old, snap, got>> /\ pc[r] \in Result
      BY <2>6 DEF RefreshProperties, Goto
    <3>2. InForce' = InForce
      BY <2>0, <3>1 DEF InForce, Result
    <3>3. ASSUME NEW q \in Refresher, q # r PROVE pc'[q] = pc[q] /\ asked'[q] = asked[q]
      BY <2>0, <3>1, <3>3
    <3>4. pc'[r] = "waiting" /\ asked'[r] = source /\ got[r] = {}
      BY <2>0, <3>1 DEF FreshInv, Critical, Locked, Result
    <3> QED
      BY <3>1, <3>2, <3>3, <3>4, Numbers DEF FreshInv, Critical, Locked
  <2>7. ASSUME NEW r \in Refresher, LockRefresh(r) PROVE FreshInv'
    <3>1. /\ pc' = [pc EXCEPT ![r] = "reading"] /\ pc[r] = "waiting"
          /\ UNCHANGED <<source, prop, old, snap, got, asked>>
      BY <2>7 DEF LockRefresh, Goto
    <3>2. InForce' = InForce
      BY <2>0, <3>1 DEF InForce
    <3>3. ASSUME NEW q \in Refresher, q # r PROVE pc'[q] = pc[q]
      BY <2>0, <3>1, <3>3
    <3>4. pc'[r] = "reading" /\ got[r] = {}
      BY <2>0, <3>1 DEF FreshInv, Critical, Locked
    <3> QED
      BY <3>1, <3>2, <3>3, <3>4 DEF FreshInv, Critical, Locked
  <2>8. ASSUME NEW r \in Refresher, NEW t \in Source, ReadSource(r, t) PROVE FreshInv'
    <3>1. /\ snap' = [snap EXCEPT ![r] = [@ EXCEPT ![t] = source[t]]]
          /\ got' = [got EXCEPT ![r] = @ \cup {t}]
          /\ UNCHANGED <<source, prop, old, pc, asked>>
          /\ pc[r] = "reading"
      BY <2>8 DEF ReadSource
    <3>2. InForce' = InForce
      BY <3>1 DEF InForce
    <3>3. ASSUME NEW q \in Refresher, q # r PROVE snap'[q] = snap[q] /\ got'[q] = got[q]
      BY <2>0, <3>1, <3>3
    <3>4. got'[r] = got[r] \cup {t}
      BY <2>0, <3>1
    <3>5. \A s \in Source : snap'[r][s] = IF s = t THEN source[t] ELSE snap[r][s]
      BY <2>0, <3>1 DEF Snapshot
    <3>6. InForce[t] <= source[t]
      <4>1. \A q \in Refresher : pc[q] # "validating"
        BY <3>1 DEF Exclusion, Critical, Locked
      <4> QED
        BY <4>1 DEF InForce, FreshInv
    <3>7. asked[r][t] <= source[t] /\ source[t] <= source[t]
      BY Numbers DEF FreshInv
    <3>8. \A s \in got'[r] : /\ asked[r][s] <= snap'[r][s]
                             /\ snap'[r][s] <= source[s]
                             /\ InForce[s] <= snap'[r][s]
      BY <2>0, <3>1, <3>4, <3>5, <3>6, <3>7 DEF FreshInv, Critical
    <3> QED
      BY <3>1, <3>2, <3>3, <3>8 DEF FreshInv, Critical, Locked
  \* A refresh that returns leaves no one inside.
  <2>9. ASSUME NEW r \in Refresher, NEW result \in Result, Return(r, result),
               pc[r] \in Critical, UNCHANGED <<source, asked>>,
               \A s \in Source : prop'[s] <= source[s],
               result = "ok" => \A s \in Source : asked[r][s] <= InForce'[s]
        PROVE  FreshInv'
    <3>1. ASSUME NEW q \in Refresher, q # r
          PROVE  pc'[q] = pc[q] /\ got'[q] = got[q] /\ pc[q] \notin Critical
      BY <2>0, <2>9, <3>1 DEF Return, Goto, Exclusion
    <3>2. pc'[r] = result /\ got'[r] = {}
      BY <2>0, <2>9 DEF Return, Goto
    <3>3. \A q \in Refresher : pc'[q] \notin Critical /\ got'[q] = {}
      BY <3>1, <3>2 DEF FreshInv, Result, Critical, Locked
    <3>4. ASSUME NEW q \in Refresher, pc'[q] = "ok", NEW s \in Source
          PROVE  asked'[q][s] <= InForce'[s]
      <4>1. CASE q = r
        BY <2>9, <3>2, <3>4, <4>1
      <4>2. CASE q # r
        BY <2>1, <2>9, <3>1, <3>4, <4>2, Numbers DEF FreshInv
      <4> QED
        BY <4>1, <4>2
    <3> QED
      BY <2>9, <3>3, <3>4 DEF FreshInv, Critical
  <2>10. ASSUME NEW r \in Refresher, ReadFails(r) PROVE FreshInv'
    BY <2>9, <2>10 DEF ReadFails, Critical, Result, FreshInv
  <2>11. ASSUME NEW r \in Refresher, StoreLayered(r) PROVE FreshInv'
    <3>1. /\ pc' = [pc EXCEPT ![r] = "applying"]
          /\ pc[r] = "reading" /\ got[r] = Source
          /\ UNCHANGED <<source, prop, old, snap, got, asked>>
      BY <2>11 DEF StoreLayered, Goto
    <3>2. InForce' = InForce
      BY <2>0, <3>1 DEF InForce
    <3>3. ASSUME NEW q \in Refresher, q # r PROVE pc'[q] = pc[q]
      BY <2>0, <3>1, <3>3
    <3>4. pc'[r] = "applying"
      BY <2>0, <3>1
    <3> QED
      BY <3>1, <3>2, <3>3, <3>4 DEF FreshInv, Critical, Locked
  <2>12. ASSUME NEW r \in Refresher, LockProperties(r) PROVE FreshInv'
    <3>1. /\ pc' = [pc EXCEPT ![r] = "validating"] /\ pc[r] = "applying"
          /\ prop' = snap[r] /\ old' = prop
          /\ UNCHANGED <<source, snap, got, asked>>
      BY <2>12 DEF LockProperties, Goto
    <3>2. \A q \in Refresher : q # r => pc[q] \notin Critical
      BY <3>1 DEF Exclusion, Critical
    <3>3. InForce = prop
      BY <3>1, <3>2 DEF InForce, Critical, Locked
    <3>4. pc'[r] = "validating" /\ got[r] = Source
      BY <2>0, <3>1 DEF FreshInv
    <3>5. InForce' = prop
      BY <3>1, <3>4 DEF InForce
    <3>6. ASSUME NEW q \in Refresher, q # r PROVE pc'[q] = pc[q]
      BY <2>0, <3>1, <3>6
    <3>7. \A s \in Source : prop'[s] <= source[s]
      BY <3>1, <3>4 DEF FreshInv, Critical
    <3> QED
      BY <3>1, <3>2, <3>3, <3>4, <3>5, <3>6, <3>7 DEF FreshInv, Critical, Locked
  <2>13. ASSUME NEW r \in Refresher, Validate(r) PROVE FreshInv'
    <3>1. /\ pc' = [pc EXCEPT ![r] = "committing"] /\ pc[r] = "validating"
          /\ UNCHANGED <<source, prop, snap, got, asked>>
      BY <2>13 DEF Validate, Goto
    <3>2. \A q \in Refresher : q # r => pc[q] \notin Critical
      BY <3>1 DEF Exclusion, Critical, Locked
    <3>3. ASSUME NEW q \in Refresher, q # r PROVE pc'[q] = pc[q]
      BY <2>0, <3>1, <3>3
    <3>4. pc'[r] = "committing"
      BY <2>0, <3>1
    <3>5. InForce' = prop
      BY <3>1, <3>2, <3>3, <3>4 DEF InForce, Critical, Locked
    <3>6. prop = snap[r]
      BY <3>1 DEF FreshInv, Locked
    <3>7. ASSUME NEW q \in Refresher, pc'[q] = "ok", NEW s \in Source
          PROVE  asked[q][s] <= InForce'[s]
      BY <2>1, <3>3, <3>4, <3>7, Numbers DEF FreshInv
    <3>8. \A s \in got[r] : /\ asked[r][s] <= snap[r][s] /\ snap[r][s] <= source[s]
                            /\ InForce'[s] <= snap[r][s]
      BY <2>0, <3>1, <3>5, <3>6, Numbers DEF FreshInv, Critical, Locked
    <3> QED
      BY <3>1, <3>2, <3>3, <3>4, <3>6, <3>7, <3>8 DEF FreshInv, Critical, Locked
  <2>14. ASSUME NEW r \in Refresher, ValidateFails(r) PROVE FreshInv'
    <3>1. prop' = InForce
      BY <2>14 DEF ValidateFails, InForce
    <3>2. \A s \in Source : InForce[s] <= source[s]
      BY <2>14, Numbers DEF FreshInv, ValidateFails, Critical, Locked
    <3> QED
      BY <2>9, <2>14, <3>1, <3>2 DEF ValidateFails, Critical, Locked, Result
  <2>15. ASSUME NEW r \in Refresher, Commit(r) PROVE FreshInv'
    <3>1. /\ UNCHANGED <<source, prop, old, snap, got, asked>>
          /\ pc' = pc \/ pc' = [pc EXCEPT ![r] = "finishing"]
          /\ pc[r] = "committing"
      BY <2>15 DEF Commit, Goto
    <3>2. InForce' = InForce
      BY <2>0, <3>1 DEF InForce
    <3> QED
      BY <2>0, <2>2, <2>4, <3>1, <3>2 DEF Locked
  <2>16. ASSUME NEW r \in Refresher, FinishObject(r) PROVE FreshInv'
    BY <2>2, <2>4, <2>16 DEF FinishObject, InForce
  <2>17. ASSUME NEW r \in Refresher, ListenerPanics(r) PROVE FreshInv'
    BY <2>9, <2>17 DEF ListenerPanics, Critical, Locked, Result, FreshInv
  <2>18. ASSUME NEW r \in Refresher, Finish(r) PROVE FreshInv'
    <3>1. \A q \in Refresher : pc[q] # "validating"
      BY <2>18 DEF Finish, Exclusion, Critical, Locked
    <3>2. InForce = snap[r] /\ got[r] = Source
      BY <2>18, <3>1 DEF Finish, FreshInv, InForce, Locked
    <3>3. \A s \in Source : asked[r][s] <= InForce'[s]
      BY <2>1, <2>18, <3>2, Numbers DEF Finish, FreshInv, Critical, Locked
    <3> QED
      BY <2>9, <2>18, <3>3 DEF Finish, Critical, Locked, Result, FreshInv
  <2>19. CASE UNCHANGED vars
    BY <2>2, <2>4, <2>19 DEF vars, InForce
  <2> QED
    BY <2>3, <2>5, <2>6, <2>7, <2>8, <2>10, <2>11, <2>12, <2>13, <2>14, <2>15, <2>16,
       <2>17, <2>18, <2>19 DEF Next, Proceed
<1> QED
  BY <1>1, <1>2, Typing, ExclusionHolds, PTL DEF Spec

\* A caller that is told that its refresh succeeded finds every change made
\* before it called.
THEOREM RefreshedIsFresh == Spec => []RefreshIsFresh
<1>1. TypeOK /\ FreshInv => RefreshIsFresh
  BY Numbers DEF FreshInv, RefreshIsFresh
<1> QED
  BY <1>1, Typing, Freshness, PTL

\* Whatever the refreshers do, the configuration in force behaves like the
\* register: replaced as a whole, by one that can be bound and is not older.
THEOREM Implementation == Spec => ImplementsRegister
<1>1. Init => Register!Init
  BY ObjectsType DEF Init, Register!Init, Register!Snapshot, InForce, Zero
<1>2. TypeOK /\ Exclusion /\ FreshInv /\ [Next]_vars => [Register!Next]_InForce
  <2> SUFFICES ASSUME TypeOK, Exclusion, FreshInv, [Next]_vars
               PROVE  Register!Next \/ InForce' = InForce
    OBVIOUS
  <2>1. ASSUME NEW r \in Refresher, Validate(r), InForce' = prop
        PROVE  Register!Next
    <3>1. Valid(prop) /\ prop \in Snapshot
      BY <2>1 DEF Validate, TypeOK
    <3>2. \A s \in Source : InForce[s] <= prop[s]
      BY <2>1, ValidatedIsNewer
    <3> QED
      BY <2>1, <3>1, <3>2
         DEF Register!Next, Register!Install, Register!NotOlder, Register!Snapshot, Snapshot
  <2> QED
    BY <2>1, InForceChanges
<1> QED
  BY <1>1, <1>2, Typing, ExclusionHolds, Freshness, PTL
     DEF Spec, ImplementsRegister, Register!Spec
=============================================================================
