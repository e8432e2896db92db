------------------------- MODULE AppLifecycleProofs -------------------------
(***************************************************************************)
(* Proofs about AppLifecycle for any servers and any number of runners.    *)
(***************************************************************************)
EXTENDS AppLifecycle, TLAPS

\* Every variable keeps its type.
THEOREM Typing == Spec => []TypeOK
<1>1. Init => TypeOK
  <2>1. 0 \in 0..Runners
    BY LifecycleAssumption
  <2> QED
    BY <2>1 DEF Init, TypeOK, Main
<1>2. TypeOK /\ [Next]_vars => TypeOK'
  <2> SUFFICES ASSUME TypeOK, [Next]_vars PROVE TypeOK'
    OBVIOUS
  <2>0. Runners \in Nat /\ PreStopper \subseteq Server
    BY LifecycleAssumption
  <2> USE <2>0 DEF TypeOK, Main
  <2>1. CASE MainStep
    <3>1. CASE Attach BY <3>1 DEF Attach
    <3>2. CASE LoadConfig BY <3>2 DEF LoadConfig
    <3>3. CASE WireContainer BY <3>3 DEF WireContainer
    <3>4. CASE RunRunner BY <3>4 DEF RunRunner
    <3>5. CASE RunnersDone BY <3>5 DEF RunnersDone
    <3>6. ASSUME NEW s \in Server, Launch(s) PROVE TypeOK'
      BY <3>6 DEF Launch
    <3>7. CASE Launched BY <3>7 DEF Launched
    <3>8. CASE PassBarrier BY <3>8 DEF PassBarrier
    <3>9. CASE Release BY <3>9 DEF Release
    <3>10. CASE CheckIntercepted BY <3>10 DEF CheckIntercepted
    <3>11. CASE WakeUp BY <3>11 DEF WakeUp
    <3>12. ASSUME NEW s \in PreStopper, PreStop(s) PROVE TypeOK'
      BY <3>12 DEF PreStop
    <3>13. CASE Drained BY <3>13 DEF Drained
    <3>14. CASE AwaitServers BY <3>14 DEF AwaitServers
    <3>15. CASE CloseProviders BY <3>15 DEF CloseProviders
    <3>16. CASE CloseContainer BY <3>16 DEF CloseContainer
    <3>17. CASE Detach BY <3>17 DEF Detach
    <3>18. CASE Teardown BY <3>18 DEF Teardown
    <3> HIDE DEF TypeOK, Main
    <3> QED
      BY <2>1, <3>1, <3>2, <3>3, <3>4, <3>5, <3>6, <3>7, <3>8, <3>9, <3>10, <3>11,
         <3>12, <3>13, <3>14, <3>15, <3>16, <3>17, <3>18 DEF MainStep
  <2>2. CASE Signal BY <2>2 DEF Signal
  <2>3. CASE RefreshStep
    <3>1. CASE BeginRefresh BY <3>1 DEF BeginRefresh
    <3>2. CASE ReadSources
      <4>1. armed' \in BOOLEAN
        BY <3>2, Zenon DEF ReadSources
      <4>2. /\ refresh' \in {"applying", "none"}
            /\ UNCHANGED <<main, ran, container, current, started, cancelled, server, pending,
                           released, intercepted, stop, drained, stoppers, triggered, early>>
        BY <3>2 DEF ReadSources
      <4> QED
        BY <4>1, <4>2
    <3>3. CASE ApplyRefresh BY <3>3 DEF ApplyRefresh
    <3> QED
      BY <2>3, <3>1, <3>2, <3>3 DEF RefreshStep
  <2>4. ASSUME NEW s \in Server, ServerStep(s) \/ Return(s) \/ Fail(s) \/ StopStep(s)
        PROVE  TypeOK'
    <3>1. CASE Trigger(s) BY <3>1 DEF Trigger
    <3>2. CASE Serve(s) BY <3>2 DEF Serve
    <3>3. CASE Return(s) BY <3>3 DEF Return
    <3>4. CASE Fail(s) BY <3>4 DEF Fail
    <3>5. CASE Intercept(s)
      <4>1. /\ \E p \in {"marked", "signalled"} : server' = [server EXCEPT ![s] = p]
            /\ pending' \in SUBSET Server /\ intercepted' \in BOOLEAN
            /\ UNCHANGED <<main, ran, container, current, started, cancelled, released,
                           stop, drained, armed, stoppers, refresh, triggered, early>>
        BY <3>5 DEF Intercept
      <4> QED
        BY <4>1
    <3>6. CASE ShutDownOnFailure(s) BY <3>6 DEF ShutDownOnFailure
    <3>7. CASE Leave(s) BY <3>7 DEF Leave
    <3>8. CASE CallStop(s) BY <3>8 DEF CallStop
    <3>9. CASE StopReturns(s) BY <3>9 DEF StopReturns
    <3> QED
      BY <2>4, <3>1, <3>2, <3>3, <3>4, <3>5, <3>6, <3>7, <3>8, <3>9
         DEF ServerStep, StopStep
  <2>5. CASE UNCHANGED vars BY <2>5 DEF vars
  <2> QED
    BY <2>1, <2>2, <2>3, <2>4, <2>5 DEF Next, Terminated
<1> QED
  BY <1>1, <1>2, PTL DEF Spec

-----------------------------------------------------------------------------
(* The readiness barrier and the order of the shutdown. *)

\* A launched server holds the barrier until it has triggered or its failure
\* is marked.
BarrierInv ==
    \A s \in Server :
        /\ server[s] # "none" =>
              \/ s \in pending \/ s \in triggered
              \/ intercepted /\ server[s] \in {"signalled", "leaving", "done"}
        /\ server[s] \in {"marked", "signalled"} => intercepted

BeforeLaunch == {"new", "configuring", "wiring", "running"}
PastBarrier  == {"releasing", "checking"} \cup AfterStart

\* What the main goroutine can count on where it is.
MainInv ==
    /\ main \in BeforeLaunch => \A s \in Server : server[s] = "none"
    /\ main = "barrier" => \A s \in Server : server[s] # "none"
    /\ main \in PastBarrier \/ released =>
          pending = {} /\ \A s \in Server : server[s] # "none"
    /\ released => main \notin BeforeLaunch \cup {"launching", "barrier"}
    /\ main \in AfterStart => triggered = Server
    /\ \A s \in Server : server[s] = "serving" => released

\* What the container's state says about the main goroutine.
ContainerInv ==
    /\ main \in {"closingProviders", "closingContainer", "detaching"} => Running = {}
    /\ container \in {"closing", "closed"} =>
          Running = {} /\ main \in {"closingContainer", "detaching", "teardown", "exited"}
    /\ started => container \in {"open", "closing", "closed"}
    /\ started => main \notin {"new", "configuring", "wiring"}
    /\ refresh # "none" => started

LifecycleInv == BarrierInv /\ MainInv /\ ContainerInv

\* LifecycleInv is inductive.
THEOREM Lifecycle == Spec => []LifecycleInv
<1>1. Init => LifecycleInv
  BY DEF Init, LifecycleInv, BarrierInv, MainInv, ContainerInv, Running, BeforeLaunch,
         PastBarrier, AfterStart
<1>2. TypeOK /\ LifecycleInv /\ [Next]_vars => LifecycleInv'
  <2> SUFFICES ASSUME TypeOK, LifecycleInv, [Next]_vars PROVE LifecycleInv'
    OBVIOUS
  <2>0. server \in [Server -> {"none", "starting", "ready", "serving", "failed", "marked",
                               "signalled", "leaving", "done"}]
        /\ pending \in SUBSET Server /\ triggered \in SUBSET Server
    BY DEF TypeOK
  <2> USE <2>0 DEF LifecycleInv, BarrierInv, MainInv, ContainerInv, Running,
                   BeforeLaunch, PastBarrier, AfterStart
  <2>1. CASE MainStep
    <3>1. CASE Attach BY <3>1 DEF Attach
    <3>2. CASE LoadConfig BY <3>2 DEF LoadConfig
    <3>3. CASE WireContainer BY <3>3 DEF WireContainer
    <3>4. CASE RunRunner BY <3>4 DEF RunRunner
    <3>5. CASE RunnersDone BY <3>5 DEF RunnersDone
    <3>6. ASSUME NEW s \in Server, Launch(s) PROVE LifecycleInv'
      BY <3>6 DEF Launch
    <3>7. CASE Launched BY <3>7 DEF Launched
    <3>8. CASE PassBarrier BY <3>8 DEF PassBarrier
    <3>9. CASE Release BY <3>9 DEF Release
    <3>10. CASE CheckIntercepted BY <3>10 DEF CheckIntercepted
    <3>11. CASE WakeUp BY <3>11 DEF WakeUp
    <3>12. ASSUME NEW s \in PreStopper, PreStop(s) PROVE LifecycleInv'
      BY <3>12 DEF PreStop
    <3>13. CASE Drained BY <3>13 DEF Drained
    <3>14. CASE AwaitServers BY <3>14 DEF AwaitServers
    <3>15. CASE CloseProviders BY <3>15 DEF CloseProviders
    <3>16. CASE CloseContainer BY <3>16 DEF CloseContainer
    <3>17. CASE Detach BY <3>17 DEF Detach
    <3>18. CASE Teardown BY <3>18 DEF Teardown
    <3> HIDE DEF LifecycleInv, BarrierInv, MainInv, ContainerInv
    <3> QED
      BY <2>1, <3>1, <3>2, <3>3, <3>4, <3>5, <3>6, <3>7, <3>8, <3>9, <3>10, <3>11,
         <3>12, <3>13, <3>14, <3>15, <3>16, <3>17, <3>18 DEF MainStep
  <2>2. CASE Signal BY <2>2 DEF Signal
  <2>3. CASE RefreshStep
    <3>1. CASE BeginRefresh BY <3>1 DEF BeginRefresh
    <3>2. CASE ReadSources BY <3>2 DEF ReadSources
    <3>3. CASE ApplyRefresh BY <3>3 DEF ApplyRefresh
    <3> QED
      BY <2>3, <3>1, <3>2, <3>3 DEF RefreshStep
  <2>4. ASSUME NEW s \in Server, ServerStep(s) \/ Return(s) \/ Fail(s) \/ StopStep(s)
        PROVE  LifecycleInv'
    <3>1. CASE Trigger(s) BY <3>1 DEF Trigger
    <3>2. CASE Serve(s) BY <3>2 DEF Serve
    <3>3. CASE Return(s) BY <3>3 DEF Return
    <3>4. CASE Fail(s) BY <3>4 DEF Fail
    <3>5. CASE Intercept(s) BY <3>5 DEF Intercept
    <3>6. CASE ShutDownOnFailure(s) BY <3>6 DEF ShutDownOnFailure
    <3>7. CASE Leave(s) BY <3>7 DEF Leave
    <3>8. CASE CallStop(s) BY <3>8 DEF CallStop
    <3>9. CASE StopReturns(s) BY <3>9 DEF StopReturns
    <3> QED
      BY <2>4, <3>1, <3>2, <3>3, <3>4, <3>5, <3>6, <3>7, <3>8, <3>9
         DEF ServerStep, StopStep
  <2>5. CASE UNCHANGED vars BY <2>5 DEF vars
  <2> QED
    BY <2>1, <2>2, <2>3, <2>4, <2>5 DEF Next, Terminated
<1> QED
  BY <1>1, <1>2, Typing, PTL DEF Spec

\* Start succeeds only if every server got ready (gs_app/app.go:344-349).
THEOREM StartedReady == Spec => []StartedMeansAllReady
<1>1. LifecycleInv => StartedMeansAllReady
  BY DEF LifecycleInv, MainInv, StartedMeansAllReady
<1> QED
  BY <1>1, Lifecycle, PTL

\* Nobody serves before everybody has got ready or given up.
THEOREM NoEarlyService == Spec => []NobodyServesEarly
<1>1. LifecycleInv => NobodyServesEarly
  BY DEF LifecycleInv, BarrierInv, MainInv, NobodyServesEarly
<1> QED
  BY <1>1, Lifecycle, PTL

\* No server goroutine is left when the container begins to close its beans
\* (gs_app/app.go:402-413).
THEOREM ServersLeaveFirst == Spec => []ContainerOutlivesServers
<1>1. LifecycleInv => ContainerOutlivesServers
  BY DEF LifecycleInv, ContainerInv, ContainerOutlivesServers
<1> QED
  BY <1>1, Lifecycle, PTL

\* A refresh that gets through the facade finds a wired container
\* (gs_app/app.go:237-254).
THEOREM RefreshNeedsContainer == Spec => []RefreshFindsContainer
<1>1. LifecycleInv => RefreshFindsContainer
  BY DEF LifecycleInv, ContainerInv, RefreshFindsContainer
<1> QED
  BY <1>1, Lifecycle, PTL
=============================================================================
