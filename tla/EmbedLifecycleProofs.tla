------------------------- MODULE EmbedLifecycleProofs -------------------------
(***************************************************************************)
(* One run, one teardown and no lost shutdown, for any number of threads   *)
(* that call browserd_run and browserd_shutdown.  None is inductive: the   *)
(* first rests on the lifecycle never going back, the second on a          *)
(* controller being made once, before anything can tear it down, the third *)
(* on what the session, the loop and the posted tasks say of each other.   *)
(***************************************************************************)
EXTENDS EmbedLifecycle, Integers, FiniteSetTheorems, SequenceTheorems, TLAPS

\* The calls of browserd_run that got past TryBeginRun.
Entered == {r \in Runner : run[r] \in {"began", "returned"}}

\* The lifecycle is left at its start exactly once, by the call that enters.
OneEntered ==
  /\ run \in [Runner -> {"idle", "rejected", "began", "returned"}]
  /\ lifecycle = "kNotStarted" => Entered = {} /\ main = "idle"
  /\ \A q, r \in Entered : q = r

\* A controller is made once, by the run's start-up, and torn down once after.
OneController ==
  /\ main \in {"idle", "starting"} => controller = "none"
  /\ controller \in {"none", "live", "destroyed"}
  /\ teardowns \in {0, 1}
  /\ controller # "destroyed" => teardowns = 0

LEMMA InitEstablishes == Init => OneEntered /\ OneController
BY DEF Init, OneEntered, Entered, OneController

LEMMA EnteredKept == OneEntered /\ OneController /\ [Next]_vars => OneEntered'
<1> SUFFICES ASSUME OneEntered, OneController, [Next]_vars PROVE OneEntered'
  OBVIOUS
<1>1. ASSUME NEW r \in Runner, Begin(r) PROVE OneEntered'
  BY <1>1 DEF Begin, OneEntered, Entered
<1>2. ASSUME NEW r \in Runner, Reject(r) PROVE OneEntered'
  BY <1>2 DEF Reject, OneEntered, Entered
<1>3. ASSUME NEW r \in Runner, RunReturns(r) PROVE OneEntered'
  BY <1>3 DEF RunReturns, OneEntered, Entered
<1>4. ASSUME UNCHANGED <<lifecycle, run>>, main' = main \/ main # "idle" PROVE OneEntered'
  BY <1>4 DEF OneEntered, Entered
<1>5. CASE MainStep
  BY <1>4, <1>5
  DEF MainStep, NotifyReady, InitializeFails, ReadyReturns, LoopExits,
      WillRunMainMessageLoop, RunDestroy, CallbackReturns, RunCall, TakeTask,
      runVars
<1>6. ASSUME NEW h \in HostThread, HostStep(h) PROVE OneEntered'
  BY <1>4, <1>6
  DEF HostStep, HostPosts, HostPostsShutdown, Crash, OneController, runVars
<1>7. CASE Environment
  BY <1>4, <1>7
  DEF Environment, ShutdownOnUI, LastTabCloses, ScheduleOnUI, Complete,
      HostTestsShutdown, HostTests, runVars
<1>8. CASE UNCHANGED vars
  BY <1>4, <1>8 DEF vars
<1> QED BY <1>1, <1>2, <1>3, <1>5, <1>6, <1>7, <1>8 DEF Next, RunStep

LEMMA ControllerKept == OneEntered /\ OneController /\ [Next]_vars => OneController'
<1> SUFFICES ASSUME OneEntered, OneController, [Next]_vars PROVE OneController'
  OBVIOUS
<1>1. ASSUME DestroySessionController, main' = main PROVE OneController'
  BY <1>1 DEF DestroySessionController, OneController
<1>2. ASSUME UNCHANGED <<controller, teardowns>>,
             main' \notin {"idle", "starting"} \/ main' = main
      PROVE  OneController'
  BY <1>2 DEF OneController
<1>3. ASSUME NEW r \in Runner, RunStep(r) PROVE OneController'
  <2>1. CASE Begin(r)
    BY <2>1 DEF Begin, OneEntered, OneController
  <2>2. CASE Reject(r)
    BY <1>2, <2>2 DEF Reject
  <2>3. CASE RunReturns(r)
    BY <2>3 DEF RunReturns, OneController
  <2> QED BY <1>3, <2>1, <2>2, <2>3 DEF RunStep
<1>4. CASE MainStep
  <2>1. CASE NotifyReady
    BY <2>1 DEF NotifyReady, OneController
  <2>2. CASE RunDestroy
    BY <1>1, <2>2 DEF RunDestroy
  <2>3. CASE \/ InitializeFails \/ ReadyReturns \/ LoopExits
             \/ WillRunMainMessageLoop \/ CallbackReturns
             \/ \E c \in Call : RunCall(c)
    BY <1>2, <2>3
    DEF InitializeFails, ReadyReturns, LoopExits, WillRunMainMessageLoop,
        CallbackReturns, RunCall
  <2> QED BY <1>4, <2>1, <2>2, <2>3 DEF MainStep
<1>5. ASSUME NEW h \in HostThread, HostStep(h) PROVE OneController'
  BY <1>2, <1>5 DEF HostStep, HostPosts, HostPostsShutdown, Crash
<1>6. CASE Environment
  <2>1. CASE ShutdownOnUI
    BY <1>1, <2>1 DEF ShutdownOnUI
  <2> QED
    BY <1>2, <1>6, <2>1
    DEF Environment, LastTabCloses, ScheduleOnUI, Complete,
        HostTestsShutdown, HostTests
<1>7. CASE UNCHANGED vars
  BY <1>2, <1>7 DEF vars
<1> QED BY <1>3, <1>4, <1>5, <1>6, <1>7 DEF Next

\* TryBeginRun lets one call through for good, and the controller it starts is
\* made and torn down by that one run.
THEOREM Inductive == Spec => [](OneEntered /\ OneController)
BY InitEstablishes, EnteredKept, ControllerKept, PTL DEF Spec

\* browserd_run enters Chromium once per process: TryBeginRun lets one call
\* through, and FinishRun does not open it again.
THEOREM RunsOnce == Spec => []OneRunPerProcess
<1>1. OneEntered => OneRunPerProcess
  <2> SUFFICES ASSUME OneEntered PROVE Cardinality(Entered) <= 1
    BY DEF OneRunPerProcess, Entered
  <2>1. CASE Entered = {}
    <3>1. Cardinality(Entered) = 0
      BY <2>1, FS_EmptySet
    <3> QED BY <3>1
  <2>2. CASE Entered # {}
    <3>1. PICK r \in Entered : TRUE
      BY <2>2
    <3>2. \A q \in Entered : q = r
      BY <3>1 DEF OneEntered
    <3>3. Entered = {r}
      BY <3>1, <3>2
    <3>4. Cardinality(Entered) = 1
      BY <3>3, FS_Singleton
    <3> QED BY <3>4
  <2> QED BY <2>1, <2>2
<1> QED BY <1>1, Inductive, PTL

\* DestroySessionController tears a session down once, whichever of the host's
\* threads, callbacks and the end of the run ask for it.
THEOREM TornDownOnce == Spec => []OneTeardown
<1>1. OneController => OneTeardown
  BY DEF OneController, OneTeardown
<1> QED BY <1>1, Inductive, PTL
-----------------------------------------------------------------------------
(* No shutdown asked for in the loop is lost.                              *)

\* While a session and a loop exist or are about to.
Running == main \in {"ready", "preloop", "loop", "callback"}

ShutdownPosted == \E i \in DOMAIN tasks : tasks[i] = Shutdown

\* A session is there from the ready callback on.
SessionThere ==
  /\ Running => controller # "none"
  /\ main \in {"idle", "starting"} => asked = "never" /\ session = "none" /\ ~runtime_down
  /\ session = "none" => tasks = <<>> /\ \A h \in HostThread : pc[h] = "idle"

\* What BrowserMainParts knows of the loop.
LoopKnown ==
  /\ main \in {"idle", "starting", "ready", "preloop"} => quit_closure = "null"
  /\ main \in {"loop", "callback"} => quit_closure \in {"set", "run"}
  /\ quit_requested = runtime_down

\* A session is shutting down exactly when a shutdown was asked for, and a task
\* posted for one, or a controller destroyed, means that it was.
AskedFirst ==
  /\ shutting_down = (asked # "never")
  /\ ShutdownPosted => asked # "never"
  /\ controller = "destroyed" /\ Running => runtime_down /\ asked # "never"

\* A runtime that is down has told the loop to quit, unless it went down, with
\* its controller, before there was a loop.
DownEndsLoop ==
  Running /\ runtime_down =>
    LoopQuits \/ (asked = "ready" /\ controller = "destroyed")

\* A shutdown that was asked for in the loop or on a host thread: the loop was
\* told to quit, or the task that will tell it waits.
ShutdownUnderWay ==
  Running /\ asked \in {"callback", "host"} => LoopQuits \/ ShutdownPosted

-----------------------------------------------------------------------------
\* A task is put behind the others.
LEMMA TaskPosted ==
  ASSUME TypeOK, NEW t \in Call \cup {Shutdown}, tasks' = Append(tasks, t)
  PROVE  /\ tasks' \in Seq(Call \cup {Shutdown})
         /\ ShutdownPosted' <=> ShutdownPosted \/ t = Shutdown
<1> DEFINE S == Call \cup {Shutdown}
<1>1. tasks \in Seq(S) /\ t \in S
  BY DEF TypeOK
<1> HIDE DEF S
<1>2. /\ tasks' \in Seq(S) /\ Len(tasks') = Len(tasks) + 1
      /\ tasks'[Len(tasks) + 1] = t
      /\ \A i \in 1 .. Len(tasks) : tasks'[i] = tasks[i]
  BY <1>1, AppendProperties
<1>3. DOMAIN tasks = 1 .. Len(tasks) /\ DOMAIN tasks' = 1 .. Len(tasks) + 1
      /\ Len(tasks) \in Nat
  BY <1>1, <1>2
<1> QED
  BY <1>2, <1>3 DEF ShutdownPosted, S

\* The UI thread takes the first task.
LEMMA TaskTaken ==
  ASSUME TypeOK, tasks # <<>>, tasks' = Tail(tasks)
  PROVE  /\ tasks' \in Seq(Call \cup {Shutdown})
         /\ ShutdownPosted' => ShutdownPosted
         /\ ShutdownPosted /\ Head(tasks) # Shutdown => ShutdownPosted'
<1> DEFINE S == Call \cup {Shutdown}
<1>1. tasks \in Seq(S)
  BY DEF TypeOK
<1> HIDE DEF S
<1>2. /\ tasks' \in Seq(S) /\ Len(tasks') = Len(tasks) - 1
      /\ \A i \in 1 .. Len(tasks) - 1 : tasks'[i] = tasks[i + 1]
      /\ Head(tasks) = tasks[1] /\ Len(tasks) \in Nat \ {0}
  BY <1>1, HeadTailProperties, EmptySeq, LenProperties
<1>3. DOMAIN tasks = 1 .. Len(tasks) /\ DOMAIN tasks' = 1 .. Len(tasks) - 1
  BY <1>1, <1>2
<1>4. ASSUME NEW i \in DOMAIN tasks', tasks'[i] = Shutdown PROVE ShutdownPosted
  <2>1. i + 1 \in DOMAIN tasks /\ tasks[i + 1] = Shutdown
    BY <1>2, <1>3, <1>4
  <2> QED
    BY <2>1 DEF ShutdownPosted
<1>5. ASSUME NEW i \in DOMAIN tasks, tasks[i] = Shutdown, Head(tasks) # Shutdown
      PROVE  ShutdownPosted'
  <2>1. i - 1 \in DOMAIN tasks' /\ tasks'[i - 1] = Shutdown
    BY <1>2, <1>3, <1>5
  <2> QED
    BY <2>1 DEF ShutdownPosted
<1> QED
  BY <1>2, <1>4, <1>5 DEF ShutdownPosted, S

\* BrowserRuntime::Shutdown, whoever calls it.
LEMMA RuntimeGoesDown ==
  ASSUME TypeOK, LoopKnown, RuntimeShutdown, UNCHANGED gui
  PROVE  /\ runtime_down' = TRUE /\ quit_requested' = TRUE
         /\ quit_closure = "null" => quit_closure' = "null"
         /\ quit_closure # "null" => quit_closure' \in {"set", "run"}
         /\ LoopQuits => LoopQuits'
         /\ quit_closure # "null" /\ ~runtime_down => LoopQuits'
BY DEF TypeOK, LoopKnown, RuntimeShutdown, RequestQuit, LoopQuits, quitVars

\* Operations are answered, and nothing else is.
LEMMA SomeAnswered ==
  ASSUME TypeOK, AnswerSome PROVE call' \in [Call -> CallStates]
BY DEF TypeOK, AnswerSome, CallStates

-----------------------------------------------------------------------------
(* The types.                                                              *)

\* Tearing the session down changes no type.
LEMMA TeardownTypes ==
  ASSUME TypeOK, LoopKnown, DestroySessionController, UNCHANGED <<gui, session>>
  PROVE  /\ (session = "none") = (controller' = "none")
         /\ controller' = "live" => session = "live"
         /\ controller' \in {"none", "live", "destroyed"}
         /\ shutting_down \in BOOLEAN => shutting_down' \in BOOLEAN
         /\ call' \in [Call -> CallStates]
         /\ quit_requested' \in BOOLEAN /\ quit_closure' \in {"null", "set", "run"}
         /\ runtime_down' \in BOOLEAN /\ teardowns' \in Nat
<1>1. CASE controller # "live"
  BY <1>1 DEF DestroySessionController, quitVars, TypeOK
<1>2. CASE controller = "live"
  <2>1. /\ shutting_down' = TRUE /\ controller' = "destroyed"
        /\ teardowns' = teardowns + 1 /\ RuntimeShutdown /\ AnswerSome
    BY <1>2 DEF DestroySessionController
  <2>2. call' \in [Call -> CallStates]
    BY <2>1, SomeAnswered
  <2>3. /\ quit_requested' \in BOOLEAN /\ quit_closure' \in {"null", "set", "run"}
        /\ runtime_down' \in BOOLEAN
    BY <2>1, RuntimeGoesDown DEF TypeOK
  <2> QED
    BY <1>2, <2>1, <2>2, <2>3 DEF TypeOK
<1> QED
  BY <1>1, <1>2

\* Every step keeps the types.
LEMMA TypesKept == ASSUME TypeOK, LoopKnown, [Next]_vars PROVE TypeOK'
<1> USE DEF runVars, quitVars, hostVars
<1>1. ASSUME NEW r \in Runner, RunStep(r) PROVE TypeOK'
  <2>1. CASE Begin(r)
    BY <2>1 DEF Begin, TypeOK
  <2>2. CASE Reject(r)
    BY <2>2 DEF Reject, TypeOK
  <2>3. CASE RunReturns(r)
    <3>1. tasks' = <<>> /\ tasks' \in Seq(Call \cup {Shutdown})
      BY <2>3 DEF RunReturns
    <3>2. /\ (session' = "none") = (controller' = "none")
          /\ session' \in {"none", "freed"} /\ controller' \in {"none", "destroyed"}
          /\ run' \in [Runner -> {"idle", "rejected", "began", "returned"}]
          /\ lifecycle' = "kStopped" /\ main' = "returned" /\ switches' = FALSE
      BY <2>3 DEF RunReturns, TypeOK
    <3>3. UNCHANGED <<gui, shutting_down, call, pc, quitVars, teardowns, asked>>
      BY <2>3 DEF RunReturns
    <3> QED
      BY <3>1, <3>2, <3>3 DEF TypeOK
  <2> QED
    BY <1>1, <2>1, <2>2, <2>3 DEF RunStep
<1>2. CASE MainStep
  <2>1. CASE NotifyReady \/ InitializeFails \/ ReadyReturns \/ LoopExits \/ CallbackReturns
    BY <2>1 DEF NotifyReady, InitializeFails, ReadyReturns, LoopExits, CallbackReturns,
                TypeOK
  <2>2. CASE WillRunMainMessageLoop
    BY <2>2 DEF WillRunMainMessageLoop, RequestQuit, TypeOK
  <2>3. CASE RunDestroy
    <3>1. tasks' \in Seq(Call \cup {Shutdown})
      BY <2>3, TaskTaken DEF RunDestroy, TakeTask
    <3> QED
      BY <2>3, <3>1, TeardownTypes DEF RunDestroy, TypeOK
  <2>4. ASSUME NEW c \in Call, RunCall(c) PROVE TypeOK'
    <3>1. tasks' \in Seq(Call \cup {Shutdown})
      BY <2>4, TaskTaken DEF RunCall, TakeTask
    <3> QED
      BY <2>4, <3>1 DEF RunCall, TakeTask, TypeOK, CallStates
  <2> QED
    BY <1>2, <2>1, <2>2, <2>3, <2>4 DEF MainStep
<1>3. ASSUME NEW h \in HostThread, HostPostsShutdown(h) PROVE TypeOK'
  <2>1. tasks' \in Seq(Call \cup {Shutdown})
    <3>1. UNCHANGED tasks \/ tasks' = Append(tasks, Shutdown)
      BY <1>3 DEF HostPostsShutdown
    <3> QED
      BY <3>1, TaskPosted DEF TypeOK
  <2>2. pc' \in [HostThread -> Call \cup {Shutdown, "idle"}]
    BY <1>3 DEF HostPostsShutdown, TypeOK
  <2>3. main' = main \/ main' = "crashed"
    BY <1>3 DEF HostPostsShutdown, Crash
  <2>4. /\ asked' \in {"never", "ready", "callback", "host"}
        /\ shutting_down' \in BOOLEAN /\ switches' \in BOOLEAN
    BY <1>3 DEF HostPostsShutdown, TypeOK
  <2>5. main' \in {"idle", "starting", "ready", "preloop", "loop", "callback",
                  "exited", "returned", "crashed"}
    BY <2>3 DEF TypeOK
  <2>6. UNCHANGED <<runVars, session, controller, call, quitVars, teardowns>>
    BY <1>3 DEF HostPostsShutdown
  <2> QED
    BY <2>1, <2>2, <2>4, <2>5, <2>6 DEF TypeOK
<1>4. ASSUME NEW h \in HostThread, NEW c \in Call, HostPosts(h, c) PROVE TypeOK'
  <2>1. tasks' \in Seq(Call \cup {Shutdown})
    <3>1. UNCHANGED tasks \/ tasks' = Append(tasks, c)
      BY <1>4 DEF HostPosts
    <3> QED
      BY <3>1, TaskPosted DEF TypeOK
  <2>2. /\ pc' \in [HostThread -> Call \cup {Shutdown, "idle"}]
        /\ call' \in [Call -> CallStates]
    BY <1>4 DEF HostPosts, TypeOK, CallStates
  <2>3. main' = main \/ main' = "crashed"
    BY <1>4 DEF HostPosts, Crash
  <2>4. UNCHANGED <<runVars, session, controller, shutting_down, switches, quitVars,
                    teardowns, asked>>
    BY <1>4 DEF HostPosts
  <2> QED
    BY <2>1, <2>2, <2>3, <2>4 DEF TypeOK
<1>5. CASE ShutdownOnUI
  <2>1. asked' \in {"never", "ready", "callback", "host"}
    BY <1>5 DEF ShutdownOnUI, OnUIThread, TypeOK
  <2>2. shutting_down' \in BOOLEAN
    BY <1>5 DEF ShutdownOnUI
  <2> QED
    BY <1>5, <2>1, <2>2, TeardownTypes DEF ShutdownOnUI, TypeOK
<1>6. CASE LastTabCloses
  <2>1. RuntimeShutdown /\ AnswerSome /\ UNCHANGED gui
    BY <1>6 DEF LastTabCloses
  <2>2. /\ call' \in [Call -> CallStates]
        /\ quit_requested' \in BOOLEAN /\ quit_closure' \in {"null", "set", "run"}
        /\ runtime_down' \in BOOLEAN
    BY <2>1, SomeAnswered, RuntimeGoesDown DEF TypeOK
  <2> QED
    BY <1>6, <2>2 DEF LastTabCloses, TypeOK
<1>7. ASSUME NEW c \in Call, ScheduleOnUI(c) PROVE TypeOK'
  <2>1. tasks' \in Seq(Call \cup {Shutdown})
    <3>1. UNCHANGED tasks \/ tasks' = Append(tasks, c)
      BY <1>7 DEF ScheduleOnUI
    <3> QED
      BY <3>1, TaskPosted DEF TypeOK
  <2> QED
    BY <1>7, <2>1 DEF ScheduleOnUI, TypeOK, CallStates
<1>8. ASSUME NEW c \in Call, Complete(c) PROVE TypeOK'
  BY <1>8 DEF Complete, TypeOK, CallStates
<1>9. ASSUME NEW h \in HostThread, HostTestsShutdown(h) PROVE TypeOK'
  BY <1>9 DEF HostTestsShutdown, TypeOK
<1>10. ASSUME NEW h \in HostThread, NEW c \in Call, HostTests(h, c) PROVE TypeOK'
  BY <1>10 DEF HostTests, TypeOK, CallStates
<1>11. CASE UNCHANGED vars
  BY <1>11 DEF vars, TypeOK
<1> QED
  BY <1>1, <1>2, <1>3, <1>4, <1>5, <1>6, <1>7, <1>8, <1>9, <1>10, <1>11
  DEF Next, HostStep, Environment


-----------------------------------------------------------------------------
(* The way a shutdown takes.                                               *)

LifeParts ==
  SessionThere /\ LoopKnown /\ AskedFirst /\ DownEndsLoop /\ ShutdownUnderWay

\* A step that leaves the session, the quit and what was asked as they are, and
\* does not take a task that shuts down, moves the UI thread within the loop, or
\* ends the run.
LEMMA NothingAsked ==
  ASSUME LifeParts,
         UNCHANGED <<gui, session, controller, shutting_down, quitVars, asked>>,
         ShutdownPosted' <=> ShutdownPosted,
         session = "none" => UNCHANGED <<tasks, pc>>,
         \/ main' = main
         \/ main = "idle" /\ main' = "starting"
         \/ main = "ready" /\ main' = "preloop"
         \/ main \in {"loop", "callback"} /\ main' \in {"loop", "callback"}
         \/ main' \in {"exited", "crashed"}
  PROVE  LifeParts'
<1> USE DEF quitVars, Running, LoopQuits
<1>1. SessionThere'
  BY DEF LifeParts, SessionThere
<1>2. LoopKnown'
  BY DEF LifeParts, LoopKnown
<1>3. AskedFirst'
  BY DEF LifeParts, AskedFirst
<1>4. DownEndsLoop'
  BY DEF LifeParts, DownEndsLoop
<1>5. ShutdownUnderWay'
  BY DEF LifeParts, ShutdownUnderWay
<1> QED
  BY <1>1, <1>2, <1>3, <1>4, <1>5 DEF LifeParts

\* A teardown ends the loop, or comes before there is one.
LEMMA TeardownEndsLoop ==
  ASSUME TypeOK, OneController, LifeParts, Running, DestroySessionController,
         UNCHANGED <<gui, main>>
  PROVE  /\ controller' = "destroyed" /\ runtime_down' = TRUE /\ quit_requested' = TRUE
         /\ quit_closure = "null" => quit_closure' = "null"
         /\ quit_closure # "null" => quit_closure' \in {"set", "run"}
         /\ LoopQuits => LoopQuits'
         /\ controller = "live" /\ quit_closure # "null" => LoopQuits'
         /\ controller = "live" => shutting_down' = TRUE
         /\ controller # "live" => UNCHANGED <<shutting_down, quitVars>>
<1>1. CASE controller = "live"
  <2>1. /\ shutting_down' = TRUE /\ controller' = "destroyed" /\ RuntimeShutdown
    BY <1>1 DEF DestroySessionController
  <2>2. runtime_down => LoopQuits
    BY <1>1 DEF LifeParts, DownEndsLoop
  <2> QED
    BY <1>1, <2>1, <2>2, RuntimeGoesDown DEF LifeParts, TypeOK
<1>2. CASE controller # "live"
  <2>1. controller = "destroyed" /\ runtime_down
    BY <1>2 DEF LifeParts, SessionThere, AskedFirst, OneController
  <2>2. UNCHANGED <<shutting_down, controller, quitVars>>
    BY <1>2 DEF DestroySessionController
  <2> QED
    BY <1>2, <2>1, <2>2 DEF LifeParts, LoopKnown, TypeOK, quitVars, LoopQuits
<1> QED
  BY <1>1, <1>2

\* The task of a shutdown that a host thread posted.
LEMMA RunDestroyKeeps ==
  ASSUME TypeOK, OneController, LifeParts, RunDestroy PROVE LifeParts'
<1>1. /\ main = "loop" /\ main' = "loop" /\ ~LoopQuits
      /\ tasks # <<>> /\ tasks' = Tail(tasks) /\ Head(tasks) = Shutdown
      /\ DestroySessionController
      /\ UNCHANGED <<gui, session, pc, asked>>
  BY DEF RunDestroy, TakeTask, runVars
<1>2. ShutdownPosted /\ (ShutdownPosted' => ShutdownPosted)
  <2>1. 1 \in DOMAIN tasks /\ tasks[1] = Shutdown
    BY <1>1, HeadTailProperties, EmptySeq, LenProperties DEF TypeOK
  <2> QED
    BY <1>1, <2>1, TaskTaken DEF ShutdownPosted
<1>3. asked # "never" /\ shutting_down = TRUE /\ session # "none"
  BY <1>1, <1>2 DEF LifeParts, AskedFirst, SessionThere, TypeOK, Running
<1>4. /\ controller' = "destroyed" /\ runtime_down' = TRUE /\ quit_requested' = TRUE
      /\ quit_closure' \in {"set", "run"} /\ shutting_down' = TRUE
      /\ LoopQuits' \/ asked = "ready"
  <2>1. quit_closure \in {"set", "run"}
    BY <1>1 DEF LifeParts, LoopKnown
  <2>2. controller # "live" => LoopQuits \/ asked = "ready"
    BY <1>1 DEF LifeParts, DownEndsLoop, AskedFirst, SessionThere, OneController, Running
  <2> QED
    BY <1>1, <1>3, <2>1, <2>2, TeardownEndsLoop DEF Running
<1>5. SessionThere'
  BY <1>1, <1>3, <1>4 DEF SessionThere
<1>6. LoopKnown'
  BY <1>1, <1>4 DEF LoopKnown
<1>7. AskedFirst'
  BY <1>1, <1>3, <1>4 DEF AskedFirst
<1>8. DownEndsLoop' /\ ShutdownUnderWay'
  BY <1>1, <1>4 DEF DownEndsLoop, ShutdownUnderWay
<1> QED
  BY <1>5, <1>6, <1>7, <1>8 DEF LifeParts

\* browserd_shutdown in the ready callback or in the callback of an operation.
LEMMA ShutdownOnUIKeeps ==
  ASSUME TypeOK, OneController, LifeParts, ShutdownOnUI PROVE LifeParts'
<1>1. /\ main \in {"ready", "callback"} /\ ~shutting_down /\ shutting_down' = TRUE
      /\ asked' = IF asked = "never" THEN main ELSE asked
      /\ DestroySessionController
      /\ UNCHANGED <<gui, main, session, tasks, pc>>
  BY DEF ShutdownOnUI, OnUIThread, runVars
<1>2. asked = "never" /\ controller = "live" /\ session = "live" /\ ~ShutdownPosted
  BY <1>1 DEF LifeParts, AskedFirst, SessionThere, OneController, Running, TypeOK
<1>3. /\ controller' = "destroyed" /\ runtime_down' = TRUE /\ quit_requested' = TRUE
      /\ quit_closure = "null" => quit_closure' = "null"
      /\ quit_closure # "null" => quit_closure' \in {"set", "run"}
      /\ quit_closure # "null" => LoopQuits'
  BY <1>1, <1>2, TeardownEndsLoop DEF Running
<1>4. /\ main = "ready" => quit_closure = "null" /\ asked' = "ready"
      /\ main = "callback" => quit_closure \in {"set", "run"} /\ LoopQuits'
  BY <1>1, <1>2, <1>3 DEF LifeParts, LoopKnown
<1>5. SessionThere'
  BY <1>1, <1>2, <1>3 DEF SessionThere
<1>6. LoopKnown'
  BY <1>1, <1>3, <1>4 DEF LoopKnown
<1>7. AskedFirst'
  BY <1>1, <1>2, <1>3 DEF AskedFirst, ShutdownPosted
<1>8. DownEndsLoop' /\ ShutdownUnderWay'
  BY <1>1, <1>3, <1>4 DEF DownEndsLoop, ShutdownUnderWay
<1> QED
  BY <1>5, <1>6, <1>7, <1>8 DEF LifeParts

\* The runtime that closed its last tab.
LEMMA LastTabKeeps ==
  ASSUME TypeOK, OneController, LifeParts, LastTabCloses PROVE LifeParts'
<1>1. /\ main = "loop" /\ ~LoopQuits /\ controller = "live" /\ RuntimeShutdown
      /\ UNCHANGED <<gui, main, session, controller, shutting_down, tasks, pc, asked>>
  BY DEF LastTabCloses, runVars
<1>2. ~runtime_down /\ quit_closure \in {"set", "run"}
  BY <1>1 DEF LifeParts, DownEndsLoop, LoopKnown, Running
<1>3. /\ runtime_down' = TRUE /\ quit_requested' = TRUE
      /\ quit_closure' \in {"set", "run"} /\ LoopQuits'
  BY <1>1, <1>2, RuntimeGoesDown DEF LifeParts
<1>4. SessionThere' /\ LoopKnown'
  BY <1>1, <1>3 DEF LifeParts, SessionThere, LoopKnown, Running
<1>5. AskedFirst' /\ DownEndsLoop' /\ ShutdownUnderWay'
  BY <1>1, <1>3 DEF LifeParts, AskedFirst, DownEndsLoop, ShutdownUnderWay,
                    ShutdownPosted, Running
<1> QED
  BY <1>4, <1>5 DEF LifeParts

\* browserd_shutdown on a host thread.
LEMMA HostShutdownKeeps ==
  ASSUME TypeOK, OneController, LifeParts, NEW h \in HostThread, HostPostsShutdown(h)
  PROVE  LifeParts'
<1>1. /\ pc[h] = Shutdown /\ shutting_down' = TRUE
      /\ asked' = IF asked = "never" THEN "host" ELSE asked
      /\ \/ main' = "crashed" /\ UNCHANGED tasks
         \/ UNCHANGED <<main, tasks>> /\ controller # "live"
         \/ main # "returned" /\ tasks' = Append(tasks, Shutdown) /\ UNCHANGED main
      /\ UNCHANGED <<gui, session, controller, quitVars>>
  BY DEF HostPostsShutdown, Crash, runVars
<1>2. session # "none" /\ main \notin {"idle", "starting"} /\ asked' # "never"
  BY <1>1, ShutdownAssumption DEF LifeParts, SessionThere
<1>3. main' = main \/ main' = "crashed"
  BY <1>1
<1>4. ShutdownPosted => ShutdownPosted'
  BY <1>1, TaskPosted DEF ShutdownPosted
<1>5. SessionThere' /\ LoopKnown'
  BY <1>1, <1>2, <1>3 DEF LifeParts, SessionThere, LoopKnown, Running, quitVars
<1>6. AskedFirst'
  BY <1>1, <1>2, <1>3 DEF LifeParts, AskedFirst, Running, quitVars
<1>7. DownEndsLoop'
  <2>1. asked = "ready" => asked' = "ready"
    BY <1>1
  <2> QED
    BY <1>1, <1>3, <2>1 DEF LifeParts, DownEndsLoop, Running, quitVars, LoopQuits
<1>8. ShutdownUnderWay'
  <2> SUFFICES ASSUME Running', asked' \in {"callback", "host"}
               PROVE  LoopQuits' \/ ShutdownPosted'
    BY DEF ShutdownUnderWay
  <2>1. Running /\ main' = main
    BY <1>3 DEF Running
  <2>2. CASE asked = "never"
    <3>1. controller = "live"
      BY <2>1, <2>2 DEF LifeParts, SessionThere, AskedFirst, OneController
    <3>2. tasks' = Append(tasks, Shutdown)
      BY <1>1, <2>1, <3>1 DEF Running
    <3> QED
      BY <3>2, TaskPosted
  <2>3. CASE asked # "never"
    <3>1. LoopQuits \/ ShutdownPosted
      BY <1>1, <2>1, <2>3 DEF LifeParts, ShutdownUnderWay
    <3> QED
      BY <1>1, <1>4, <3>1 DEF LoopQuits, quitVars
  <2> QED
    BY <2>2, <2>3
<1> QED
  BY <1>5, <1>6, <1>7, <1>8 DEF LifeParts

\* The loop starts, and a quit that was asked for before ends it only when it was
\* asked for by a headless runtime.
LEMMA LoopStarts ==
  ASSUME TypeOK, OneController, LifeParts, WillRunMainMessageLoop PROVE LifeParts'
<1>1. /\ main = "preloop" /\ main' = "loop" /\ quit_requested' = quit_requested
      /\ quit_closure = "null" /\ quit_closure' = "set"
      /\ UNCHANGED <<gui, session, controller, shutting_down, tasks, pc, runtime_down, asked>>
  BY DEF WillRunMainMessageLoop, RequestQuit, runVars, hostVars, LifeParts, LoopKnown, TypeOK
<1>2. LoopQuits => LoopQuits'
  BY <1>1 DEF LoopQuits
<1>3. SessionThere' /\ LoopKnown'
  BY <1>1 DEF LifeParts, SessionThere, LoopKnown, Running
<1>4. AskedFirst' /\ DownEndsLoop' /\ ShutdownUnderWay'
  BY <1>1, <1>2 DEF LifeParts, AskedFirst, DownEndsLoop, ShutdownUnderWay,
                    ShutdownPosted, Running
<1> QED
  BY <1>3, <1>4 DEF LifeParts

\* Every step keeps what a session, its loop and its shutdowns agree on.
LEMMA LifeKept ==
  ASSUME TypeOK, OneEntered, OneController, LifeParts, [Next]_vars PROVE LifeParts'
<1> USE DEF runVars, hostVars
<1>1. ASSUME NEW r \in Runner, RunStep(r) PROVE LifeParts'
  <2>1. CASE Begin(r)
    <3>1. main = "idle" /\ main' = "starting"
      BY <2>1 DEF Begin, OneEntered
    <3> QED
      BY <2>1, <3>1, NothingAsked DEF Begin, ShutdownPosted
  <2>2. CASE Reject(r)
    BY <2>2, NothingAsked DEF Reject, ShutdownPosted
  <2>3. CASE RunReturns(r)
    BY <2>3 DEF RunReturns, LifeParts, SessionThere, LoopKnown, AskedFirst, DownEndsLoop,
                ShutdownUnderWay, Running, quitVars, ShutdownPosted
  <2> QED
    BY <1>1, <2>1, <2>2, <2>3 DEF RunStep
<1>2. CASE NotifyReady
  BY <1>2 DEF NotifyReady, LifeParts, SessionThere, LoopKnown, AskedFirst, DownEndsLoop,
              ShutdownUnderWay, Running, quitVars, ShutdownPosted, LoopQuits, TypeOK
<1>3. CASE InitializeFails \/ ReadyReturns \/ LoopExits \/ CallbackReturns
  BY <1>3, NothingAsked DEF InitializeFails, ReadyReturns, LoopExits, CallbackReturns,
                            ShutdownPosted
<1>4. ASSUME NEW c \in Call, RunCall(c) PROVE LifeParts'
  <2>1. /\ main = "loop" /\ UNCHANGED <<main, pc>>
        /\ tasks # <<>> /\ tasks' = Tail(tasks) /\ Head(tasks) = c
        /\ UNCHANGED <<gui, session, controller, shutting_down, quitVars, asked>>
    BY <1>4 DEF RunCall, TakeTask
  <2>2. ShutdownPosted' <=> ShutdownPosted
    BY <2>1, TaskTaken, ShutdownAssumption
  <2>3. session # "none"
    BY <2>1 DEF LifeParts, SessionThere
  <2> QED
    BY <2>1, <2>2, <2>3, NothingAsked
<1>5. ASSUME NEW h \in HostThread, NEW c \in Call, HostPosts(h, c) PROVE LifeParts'
  <2>1. /\ pc[h] = c /\ (main' = main \/ main' = "crashed")
        /\ UNCHANGED tasks \/ tasks' = Append(tasks, c)
        /\ UNCHANGED <<gui, session, controller, shutting_down, quitVars, asked>>
    BY <1>5 DEF HostPosts, Crash
  <2>2. ShutdownPosted' <=> ShutdownPosted
    BY <2>1, TaskPosted, ShutdownAssumption DEF ShutdownPosted
  <2>3. session # "none"
    BY <2>1, ShutdownAssumption DEF LifeParts, SessionThere
  <2> QED
    BY <2>1, <2>2, <2>3, NothingAsked
<1>6. ASSUME NEW c \in Call, ScheduleOnUI(c) PROVE LifeParts'
  <2>1. /\ main \in {"ready", "callback"} /\ UNCHANGED <<main, pc>>
        /\ UNCHANGED tasks \/ tasks' = Append(tasks, c)
        /\ UNCHANGED <<gui, session, controller, shutting_down, quitVars, asked>>
    BY <1>6 DEF ScheduleOnUI, OnUIThread
  <2>2. ShutdownPosted' <=> ShutdownPosted
    BY <2>1, TaskPosted, ShutdownAssumption DEF ShutdownPosted
  <2>3. session # "none"
    BY <2>1 DEF LifeParts, SessionThere, Running, TypeOK
  <2> QED
    BY <2>1, <2>2, <2>3, NothingAsked
<1>7. ASSUME NEW c \in Call, Complete(c) PROVE LifeParts'
  BY <1>7, NothingAsked DEF Complete, ShutdownPosted
<1>8. ASSUME NEW h \in HostThread,
             HostTestsShutdown(h) \/ \E c \in Call : HostTests(h, c)
      PROVE  LifeParts'
  BY <1>8, NothingAsked DEF HostTestsShutdown, HostTests, Starts, ShutdownPosted
<1>9. CASE UNCHANGED vars
  BY <1>9, NothingAsked DEF vars, quitVars, ShutdownPosted
<1> QED
  BY <1>1, <1>2, <1>3, <1>4, <1>5, <1>6, <1>7, <1>8, <1>9, RunDestroyKeeps,
     ShutdownOnUIKeeps, LastTabKeeps, HostShutdownKeeps, LoopStarts
  DEF Next, MainStep, HostStep, Environment

-----------------------------------------------------------------------------
\* The invariant of a session and its loop, for any threads and calls.
THEOREM LifeInductive == Spec => [](TypeOK /\ LifeParts)
<1>1. Init => TypeOK /\ LifeParts
  <2> SUFFICES ASSUME Init PROVE TypeOK /\ LifeParts
    OBVIOUS
  <2>1. tasks = <<>> /\ tasks \in Seq(Call \cup {Shutdown}) /\ ~ShutdownPosted
    BY DEF Init, ShutdownPosted
  <2>2. TypeOK
    BY <2>1 DEF Init, TypeOK, CallStates
  <2>3. LifeParts
    BY <2>1 DEF Init, LifeParts, SessionThere, LoopKnown, AskedFirst, DownEndsLoop,
                ShutdownUnderWay, Running
  <2> QED
    BY <2>2, <2>3
<1>2. TypeOK /\ LifeParts /\ OneEntered /\ OneController /\ [Next]_vars
        => (TypeOK /\ LifeParts)'
  BY TypesKept, LifeKept DEF LifeParts
<1> QED
  BY <1>1, <1>2, Inductive, PTL DEF Spec

\* Type correctness of the embedding API's lifecycle, for any threads and calls.
THEOREM TypeCorrect == Spec => []TypeOK
BY LifeInductive, PTL

\* A browserd_shutdown that comes once there is a loop, or from a host thread, is
\* never lost, however the host's threads, the tasks and the last tab race: until
\* browserd_run is over, the loop has been told to quit or the task that tells it
\* is posted.
THEOREM ShutdownNotLost == Spec => []ShutdownUnderWay
<1>1. LifeParts => ShutdownUnderWay
  BY DEF LifeParts
<1> QED
  BY <1>1, LifeInductive, PTL
=============================================================================
