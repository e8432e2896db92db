---------------------------- MODULE AppLifecycle ----------------------------
(***************************************************************************)
(* One run of an application: AppStarter.Run (gs/app.go) around            *)
(* App.Start and App.WaitForShutdown (gs/internal/gs_app/app.go).          *)
(*                                                                         *)
(* The main goroutine loads the configuration, wires the container, runs   *)
(* the runners, launches one goroutine per server, passes the readiness    *)
(* barrier (gs_app/signal.go), waits for the root context to be cancelled  *)
(* and takes everything down again.  Meanwhile servers become ready, serve,*)
(* return or fail; a signal arrives; someone refreshes the properties      *)
(* through the package-level facade.                                       *)
(*                                                                         *)
(* A server is what the Server interface promises, of which                *)
(* SimpleHttpServer (gs/http.go) is one.  A server that panics takes the   *)
(* same steps as one that returns an error.  At most one refresh is past   *)
(* refreshMu at a time, so only that one is followed; its inside is the    *)
(* subject of DynRefresh.                                                  *)
(***************************************************************************)
EXTENDS Naturals, FiniteSets

CONSTANTS
    Server,     \* App.Servers
    PreStopper, \* those that implement PreStopper
    Runners     \* how many runner beans there are

ASSUME LifecycleAssumption ==
    /\ PreStopper \subseteq Server
    /\ Runners \in Nat

VARIABLES
    main,       \* where the main goroutine is
    ran,        \* runners that have run
    container,  \* the IoC container
    current,    \* currentApp points to this app
    started,    \* App.started
    cancelled,  \* the root context is cancelled
    server,     \* where each server's goroutine is
    pending,    \* servers ReadySignalImpl.wg waits for
    released,   \* ReadySignalImpl.ch is closed
    intercepted,\* ReadySignalImpl.b
    stop,       \* the goroutine that calls Stop of each server
    drained,    \* servers whose PreStop has returned
    armed,      \* config providers have watchers installed
    stoppers,   \* the registered stoppers have run
    refresh,    \* the refresh that holds refreshMu
    triggered,  \* history: servers that have called TriggerAndWait
    early       \* history: servers that returned nil before that

vars == <<main, ran, container, current, started, cancelled, server, pending,
          released, intercepted, stop, drained, armed, stoppers, refresh,
          triggered, early>>

Main == {"new", "configuring", "wiring", "running", "launching", "barrier",
         "releasing", "checking", "up", "draining", "stopping", "closingProviders",
         "closingContainer", "detaching", "teardown", "exited"}

TypeOK ==
    /\ main \in Main
    /\ ran \in 0..Runners
    /\ container \in {"none", "open", "broken", "closing", "closed"}
    /\ current \in BOOLEAN /\ started \in BOOLEAN /\ cancelled \in BOOLEAN
    /\ server \in [Server -> {"none", "starting", "ready", "serving", "failed", "marked",
                              "signalled", "leaving", "done"}]
    /\ pending \in SUBSET Server
    /\ released \in BOOLEAN /\ intercepted \in BOOLEAN
    /\ stop \in [Server -> {"none", "called", "returned"}]
    /\ drained \in SUBSET PreStopper
    /\ armed \in BOOLEAN /\ stoppers \in BOOLEAN
    /\ refresh \in {"none", "reading", "applying"}
    /\ triggered \in SUBSET Server
    /\ early \in SUBSET Server

Init ==
    /\ main = "new" /\ ran = 0
    /\ container = "none"
    /\ current = FALSE /\ started = FALSE /\ cancelled = FALSE
    /\ server = [s \in Server |-> "none"]
    /\ pending = {} /\ released = FALSE /\ intercepted = FALSE
    /\ stop = [s \in Server |-> "none"]
    /\ drained = {}
    /\ armed = FALSE /\ stoppers = FALSE
    /\ refresh = "none"
    /\ triggered = {} /\ early = {}

\* Servers whose goroutine counts in App.wg.
Running == {s \in Server : server[s] \notin {"none", "done"}}

-----------------------------------------------------------------------------
(* App.Start. *)

Attach ==
    /\ main = "new"
    /\ current' = TRUE
    /\ main' = "configuring"
    /\ UNCHANGED <<ran, container, started, cancelled, server, pending, released,
                   intercepted, stop, drained, armed, stoppers, refresh, triggered, early>>

\* The first AppConfig.Refresh, and the logger; loading arms the providers,
\* also when it fails on the way.
LoadConfig ==
    /\ main = "configuring"
    /\ armed' \in BOOLEAN
    /\ main' \in {"wiring", "teardown"}
    /\ UNCHANGED <<ran, container, current, started, cancelled, server, pending,
                   released, intercepted, stop, drained, stoppers, refresh, triggered, early>>

WireContainer ==
    /\ main = "wiring"
    /\ \/ container' = "open" /\ started' = TRUE /\ main' = "running"
       \/ container' = "broken" /\ main' = "teardown" /\ UNCHANGED started
    /\ UNCHANGED <<ran, current, cancelled, server, pending, released, intercepted, stop,
                   drained, armed, stoppers, refresh, triggered, early>>

\* The next runner; its error ends Start.
RunRunner ==
    /\ main = "running" /\ ran < Runners
    /\ ran' = ran + 1
    /\ main' \in {"running", "teardown"}
    /\ UNCHANGED <<container, current, started, cancelled, server, pending, released,
                   intercepted, stop, drained, armed, stoppers, refresh, triggered, early>>

RunnersDone ==
    /\ main = "running" /\ ran = Runners
    /\ main' = IF Server = {} THEN "up" ELSE "launching"
    /\ UNCHANGED <<ran, container, current, started, cancelled, server, pending, released,
                   intercepted, stop, drained, armed, stoppers, refresh, triggered, early>>

\* Mutant: the server joins the barrier in its own goroutine, too late.
LaunchLateAdd(s) ==
    /\ main = "launching" /\ server[s] = "none"
    /\ server' = [server EXCEPT ![s] = "starting"]
    /\ UNCHANGED <<main, ran, container, current, started, cancelled, pending, released,
                   intercepted, stop, drained, armed, stoppers, refresh, triggered, early>>

Launch(s) ==
    /\ main = "launching" /\ server[s] = "none"
    /\ server' = [server EXCEPT ![s] = "starting"]
    /\ pending' = pending \cup {s}
    /\ UNCHANGED <<main, ran, container, current, started, cancelled, released,
                   intercepted, stop, drained, armed, stoppers, refresh, triggered, early>>

Launched ==
    /\ main = "launching" /\ \A s \in Server : server[s] # "none"
    /\ main' = "barrier"
    /\ UNCHANGED <<ran, container, current, started, cancelled, server, pending, released,
                   intercepted, stop, drained, armed, stoppers, refresh, triggered, early>>

PassBarrier ==
    /\ main = "barrier" /\ pending = {}
    /\ main' = "releasing"
    /\ UNCHANGED <<ran, container, current, started, cancelled, server, pending, released,
                   intercepted, stop, drained, armed, stoppers, refresh, triggered, early>>

Release ==
    /\ main = "releasing"
    /\ released' = TRUE
    /\ main' = "checking"
    /\ UNCHANGED <<ran, container, current, started, cancelled, server, pending,
                   intercepted, stop, drained, armed, stoppers, refresh, triggered, early>>

CheckIntercepted ==
    /\ main = "checking"
    /\ main' = IF intercepted THEN "teardown" ELSE "up"
    /\ UNCHANGED <<ran, container, current, started, cancelled, server, pending, released,
                   intercepted, stop, drained, armed, stoppers, refresh, triggered, early>>

-----------------------------------------------------------------------------
(* The goroutine of a server. *)

\* TriggerAndWait.
Trigger(s) ==
    /\ server[s] = "starting"
    /\ server' = [server EXCEPT ![s] = "ready"]
    /\ pending' = pending \ {s}
    /\ triggered' = triggered \cup {s}
    /\ UNCHANGED <<main, ran, container, current, started, cancelled, released,
                   intercepted, stop, drained, armed, stoppers, refresh, early>>

Serve(s) ==
    /\ server[s] = "ready" /\ released
    /\ server' = [server EXCEPT ![s] = "serving"]
    /\ UNCHANGED <<main, ran, container, current, started, cancelled, pending, released,
                   intercepted, stop, drained, armed, stoppers, refresh, triggered, early>>

\* Run returns nil, because of Stop or by itself: logged, and nothing else.
Return(s) ==
    /\ server[s] \in {"starting", "ready", "serving"}
    /\ server' = [server EXCEPT ![s] = "done"]
    /\ early' = IF server[s] = "starting" THEN early \cup {s} ELSE early
    /\ UNCHANGED <<main, ran, container, current, started, cancelled, pending, released,
                   intercepted, stop, drained, armed, stoppers, refresh, triggered>>

\* Run returns an error or panics.
Fail(s) ==
    /\ server[s] \in {"starting", "ready", "serving"}
    /\ server' = [server EXCEPT ![s] = "failed"]
    /\ UNCHANGED <<main, ran, container, current, started, cancelled, pending, released,
                   intercepted, stop, drained, armed, stoppers, refresh, triggered, early>>

\* Mutant: Intercept leaves the barrier before it marks the signal.
MarkAfterSignal(s) ==
    \/ /\ server[s] = "failed"
       /\ server' = [server EXCEPT ![s] = "marked"]
       /\ pending' = pending \ {s}
       /\ UNCHANGED intercepted
       /\ UNCHANGED <<main, ran, container, current, started, cancelled, released, stop,
                      drained, armed, stoppers, refresh, triggered, early>>
    \/ /\ server[s] = "marked"
       /\ server' = [server EXCEPT ![s] = "signalled"]
       /\ intercepted' = TRUE
       /\ UNCHANGED <<main, ran, container, current, started, cancelled, pending, released,
                      stop, drained, armed, stoppers, refresh, triggered, early>>

\* Mutant: Intercept only marks the signal.
MarkOnly(s) ==
    /\ server[s] = "failed"
    /\ server' = [server EXCEPT ![s] = "signalled"]
    /\ intercepted' = TRUE
    /\ UNCHANGED <<main, ran, container, current, started, cancelled, pending, released,
                   stop, drained, armed, stoppers, refresh, triggered, early>>

\* Intercept: first the mark, then the wait group, unless Trigger left it.
Intercept(s) ==
    \/ /\ server[s] = "failed"
       /\ server' = [server EXCEPT ![s] = "marked"]
       /\ intercepted' = TRUE
       /\ UNCHANGED <<main, ran, container, current, started, cancelled, pending, released,
                      stop, drained, armed, stoppers, refresh, triggered, early>>
    \/ /\ server[s] = "marked"
       /\ server' = [server EXCEPT ![s] = "signalled"]
       /\ pending' = pending \ {s}
       /\ UNCHANGED <<main, ran, container, current, started, cancelled, released,
                      intercepted, stop, drained, armed, stoppers, refresh, triggered, early>>

\* Mutant: the failure is not made the application's.
LeaveQuietly(s) ==
    /\ server[s] = "signalled"
    /\ server' = [server EXCEPT ![s] = "leaving"]
    /\ UNCHANGED <<main, ran, container, current, started, cancelled, pending, released,
                   intercepted, stop, drained, armed, stoppers, refresh, triggered, early>>

\* ShutDown, called by the server's goroutine.
ShutDownOnFailure(s) ==
    /\ server[s] = "signalled"
    /\ server' = [server EXCEPT ![s] = "leaving"]
    /\ cancelled' = TRUE
    /\ UNCHANGED <<main, ran, container, current, started, pending, released, intercepted,
                   stop, drained, armed, stoppers, refresh, triggered, early>>

Leave(s) ==
    /\ server[s] = "leaving"
    /\ server' = [server EXCEPT ![s] = "done"]
    /\ UNCHANGED <<main, ran, container, current, started, cancelled, pending, released,
                   intercepted, stop, drained, armed, stoppers, refresh, triggered, early>>

-----------------------------------------------------------------------------
(* App.WaitForShutdown and AppStarter.teardown. *)

\* SIGINT or SIGTERM; the goroutine that waits for it exists once Start has
\* returned.
Signal ==
    /\ main = "up" /\ ~cancelled
    /\ cancelled' = TRUE
    /\ UNCHANGED <<main, ran, container, current, started, server, pending, released,
                   intercepted, stop, drained, armed, stoppers, refresh, triggered, early>>

WakeUp ==
    /\ main = "up" /\ cancelled
    /\ main' = "draining"
    /\ UNCHANGED <<ran, container, current, started, cancelled, server, pending, released,
                   intercepted, stop, drained, armed, stoppers, refresh, triggered, early>>

PreStop(s) ==
    /\ main = "draining" /\ s \notin drained
    /\ drained' = drained \cup {s}
    /\ UNCHANGED <<main, ran, container, current, started, cancelled, server, pending,
                   released, intercepted, stop, armed, stoppers, refresh, triggered, early>>

Drained ==
    /\ main = "draining" /\ drained = PreStopper
    /\ main' = "stopping"
    /\ UNCHANGED <<ran, container, current, started, cancelled, server, pending, released,
                   intercepted, stop, drained, armed, stoppers, refresh, triggered, early>>

CallStop(s) ==
    /\ main = "stopping" /\ stop[s] = "none"
    /\ stop' = [stop EXCEPT ![s] = "called"]
    /\ UNCHANGED <<main, ran, container, current, started, cancelled, server, pending,
                   released, intercepted, drained, armed, stoppers, refresh, triggered, early>>

\* Mutant: a panic of Stop is not counted as its end.
StopReturnsOrPanics(s) ==
    /\ stop[s] = "called"
    /\ \E r \in {"returned", "panicked"} : stop' = [stop EXCEPT ![s] = r]
    /\ UNCHANGED <<main, ran, container, current, started, cancelled, server, pending,
                   released, intercepted, drained, armed, stoppers, refresh, triggered, early>>

\* With or without an error, or a panic.
StopReturns(s) ==
    /\ stop[s] = "called"
    /\ stop' = [stop EXCEPT ![s] = "returned"]
    /\ UNCHANGED <<main, ran, container, current, started, cancelled, server, pending,
                   released, intercepted, drained, armed, stoppers, refresh, triggered, early>>

\* Mutant: only the calls of Stop are waited for.
AwaitStops ==
    /\ main = "stopping" /\ \A s \in Server : stop[s] = "returned"
    /\ main' = "closingProviders"
    /\ UNCHANGED <<ran, container, current, started, cancelled, server, pending, released,
                   intercepted, stop, drained, armed, stoppers, refresh, triggered, early>>

\* stopWg.Wait and App.wg.Wait.
AwaitServers ==
    /\ main = "stopping" /\ \A s \in Server : stop[s] = "returned"
    /\ Running = {}
    /\ main' = "closingProviders"
    /\ UNCHANGED <<ran, container, current, started, cancelled, server, pending, released,
                   intercepted, stop, drained, armed, stoppers, refresh, triggered, early>>

CloseProviders ==
    /\ main = "closingProviders"
    /\ armed' = FALSE
    /\ container' = "closing"
    /\ main' = "closingContainer"
    /\ UNCHANGED <<ran, current, started, cancelled, server, pending, released, intercepted,
                   stop, drained, stoppers, refresh, triggered, early>>

CloseContainer ==
    /\ main = "closingContainer"
    /\ container' = "closed"
    /\ main' = "detaching"
    /\ UNCHANGED <<ran, current, started, cancelled, server, pending, released, intercepted,
                   stop, drained, armed, stoppers, refresh, triggered, early>>

Detach ==
    /\ main = "detaching"
    /\ current' = FALSE
    /\ main' = "teardown"
    /\ UNCHANGED <<ran, container, started, cancelled, server, pending, released,
                   intercepted, stop, drained, armed, stoppers, refresh, triggered, early>>

\* The deferred teardown: providers once more, then the stoppers.
Teardown ==
    /\ main = "teardown"
    /\ armed' = FALSE
    /\ stoppers' = TRUE
    /\ main' = "exited"
    /\ UNCHANGED <<ran, container, current, started, cancelled, server, pending, released,
                   intercepted, stop, drained, refresh, triggered, early>>

-----------------------------------------------------------------------------
(* RefreshProperties, through the package-level facade. *)

BeginRefresh ==
    /\ refresh = "none" /\ current /\ started
    /\ refresh' = "reading"
    /\ UNCHANGED <<main, ran, container, current, started, cancelled, server, pending,
                   released, intercepted, stop, drained, armed, stoppers, triggered, early>>

\* Sources are read; a provider that is loaded again is armed again.  Nothing
\* looks at the root context when only files are read.
ReadSources ==
    /\ refresh = "reading"
    /\ armed' \in {armed, TRUE}
    /\ refresh' \in {"applying", "none"}
    /\ UNCHANGED <<main, ran, container, current, started, cancelled, server, pending,
                   released, intercepted, stop, drained, stoppers, triggered, early>>

ApplyRefresh ==
    /\ refresh = "applying"
    /\ refresh' = "none"
    /\ UNCHANGED <<main, ran, container, current, started, cancelled, server, pending,
                   released, intercepted, stop, drained, armed, stoppers, triggered, early>>

-----------------------------------------------------------------------------

MainStep ==
    \/ Attach \/ LoadConfig \/ WireContainer \/ RunRunner \/ RunnersDone
    \/ (\E s \in Server : Launch(s)) \/ Launched \/ PassBarrier \/ Release \/ CheckIntercepted
    \/ WakeUp \/ (\E s \in PreStopper : PreStop(s)) \/ Drained \/ AwaitServers
    \/ CloseProviders \/ CloseContainer \/ Detach \/ Teardown

\* What a server's goroutine does as long as the server keeps its promises: it
\* gets ready or returns, returns after Stop, and its failure runs its course.
ServerStep(s) ==
    \/ Trigger(s) \/ Serve(s)
    \/ stop[s] # "none" /\ Return(s)
    \/ Intercept(s) \/ ShutDownOnFailure(s) \/ Leave(s)

StopStep(s) == CallStop(s) \/ StopReturns(s)

RefreshStep == BeginRefresh \/ ReadSources \/ ApplyRefresh

Terminated == main = "exited" /\ UNCHANGED vars

Next ==
    \/ MainStep \/ Signal \/ RefreshStep \/ Terminated
    \/ \E s \in Server : ServerStep(s) \/ Return(s) \/ Fail(s) \/ StopStep(s)

Fairness ==
    /\ WF_vars(MainStep)
    /\ \A s \in Server : WF_vars(ServerStep(s)) /\ WF_vars(StopStep(s))

Spec == Init /\ [][Next]_vars /\ Fairness

-----------------------------------------------------------------------------
(* Properties. *)

AfterStart == {"up", "draining", "stopping", "closingProviders", "closingContainer",
               "detaching"}

\* Start succeeds only if every server got ready; one that failed instead is
\* noticed although it counts for the barrier like one that is ready.
StartedMeansAllReady == main \in AfterStart => triggered = Server

\* Nobody serves before everybody has got ready or given up.
NobodyServesEarly ==
    \A s \in Server : server[s] = "serving" =>
        \A t \in Server :
            \/ t \in triggered
            \/ intercepted /\ server[t] \notin {"none", "starting", "failed"}

\* No server goroutine is left when the container begins to close its beans,
\* whatever the servers did during the shutdown.
ContainerOutlivesServers == container \in {"closing", "closed"} => Running = {}

\* A refresh that gets through the facade finds a wired container, although
\* the facade points to the app from the first step of Start.
RefreshFindsContainer == refresh # "none" => container \in {"open", "closing", "closed"}

\* A server that fails, at any time, takes the application down.
FailureShutsDown ==
    [](early = {}) => \A s \in Server : server[s] = "failed" ~> main = "exited"

\* Start returns, with success or with an error, if no server returns nil
\* before it is ready.
StartReturns ==
    [](early = {}) => (main = "launching" ~> main \in AfterStart \cup {"teardown"})

\* A signal ends the application.
SignalEndsApp == (main = "up" /\ cancelled) ~> main = "exited"

=============================================================================
