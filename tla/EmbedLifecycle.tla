--------------------------- MODULE EmbedLifecycle ---------------------------
(***************************************************************************)
(* The lifecycle of the C embedding API (browserd/embed/browserd_embed.cc) *)
(* around the GUI message loop (browserd/gui/browser_main_parts.cc): who   *)
(* may run, when a session's controller exists, how calls made on any      *)
(* thread reach Chromium's UI thread, and how a shutdown, asked for by the *)
(* host or by the runtime that closed its last tab, ends browserd_run.     *)
(*                                                                         *)
(* The thread inside browserd_run is the UI thread; its progress is        *)
(* "main".  It runs one task at a time, and host code runs on it inside    *)
(* the ready callback and inside completion callbacks.  Host threads call  *)
(* the API concurrently: the code takes no lock around a session, so such  *)
(* a call is two steps, the test of the session and the use of what was    *)
(* tested.  A use of a controller destroyed in between is undefined: it    *)
(* goes on as if nothing had happened, or the process crashes.             *)
(***************************************************************************)
EXTENDS Naturals, Sequences, FiniteSets

CONSTANTS
  Runner,      \* threads that call browserd_run
  HostThread,  \* other threads of the host, which call the API
  Call,        \* calls of browserd_tab_new, browserd_navigate, ...
  Shutdown     \* browserd_shutdown, as a host thread's call and as its task

\* A host thread that makes no call is "idle".
ASSUME ShutdownAssumption ==
  Shutdown \notin Call /\ "idle" \notin Call \cup {Shutdown}

VARIABLES
  lifecycle,        \* EmbedLifecycleState::state
  run,              \* run[r]: what r's browserd_run has done
  main,             \* where the UI thread is
  gui,              \* what the configuration asked for
  session,          \* RunState::session: "none", "live" or "freed"
  controller,       \* session->controller: "none", "live" or "destroyed"
  shutting_down,    \* session->shutting_down
  switches,         \* whether the process-wide embedder switches are set
  tasks,            \* tasks posted to the UI thread's runner
  call,             \* call[c]: what became of c
  pc,               \* pc[h]: the API call h is in the middle of, or "idle"
  quit_requested,   \* BrowserMainParts::quit_requested_
  quit_closure,     \* BrowserMainParts::quit_closure_
  runtime_down,     \* GuiRuntime::shutdown_started_
  teardowns,        \* history: times DestroySessionController tore down
  asked             \* history: where the first browserd_shutdown came from

vars == <<lifecycle, run, main, gui, session, controller, shutting_down,
          switches, tasks, call, pc, quit_requested, quit_closure,
          runtime_down, teardowns, asked>>

runVars  == <<lifecycle, run, gui>>
quitVars == <<quit_requested, quit_closure, runtime_down>>
hostVars == <<tasks, call, pc>>

Init ==
  /\ lifecycle = "kNotStarted"
  /\ run = [r \in Runner |-> "idle"]
  /\ main = "idle"
  /\ gui \in BOOLEAN
  /\ session = "none"
  /\ controller = "none"
  /\ shutting_down = FALSE
  /\ switches = FALSE
  /\ tasks = <<>>
  /\ call = [c \in Call |-> "unused"]
  /\ pc = [h \in HostThread |-> "idle"]
  /\ quit_requested = FALSE
  /\ quit_closure = "null"
  /\ runtime_down = FALSE
  /\ teardowns = 0
  /\ asked = "never"

-----------------------------------------------------------------------------
(* Quitting the loop.                                                      *)

\* What RequestQuit leaves in <<quit_requested_, quit_closure_>>.
RequestQuit(requested, closure) ==
  IF requested THEN <<requested, closure>>
               ELSE <<TRUE, IF closure = "set" THEN "run" ELSE closure>>

\* BrowserRuntime::Shutdown: the GUI runtime does nothing the second time; the
\* headless one forwards to HeadlessBrowser::Shutdown, which ends its own loop
\* whenever it is called.
RuntimeShutdown ==
  LET quit == IF gui THEN RequestQuit(quit_requested, quit_closure)
                     ELSE <<TRUE, quit_closure>>
  IN  IF runtime_down
        THEN UNCHANGED quitVars
        ELSE /\ runtime_down' = TRUE
             /\ quit_requested' = quit[1]
             /\ quit_closure' = quit[2]

\* The RunLoop has been told to quit: it starts no further task.
LoopQuits == IF gui THEN quit_closure = "run" ELSE quit_requested

\* Operations whose observers answer when their WebContents goes away; the
\* others never run their callback.
AnswerSome ==
  \E S \in SUBSET {c \in Call : call[c] = "running"} :
    call' = [c \in Call |-> IF c \in S THEN "done" ELSE call[c]]

\* Mutant: the guard against a second teardown is missing.
DestroySessionController_Twice ==
  /\ shutting_down' = TRUE
  /\ controller' = "destroyed"
  /\ teardowns' = teardowns + 1
  /\ RuntimeShutdown
  /\ AnswerSome

\* Mutant: a session that is already shutting down is taken for destroyed.
DestroySessionController_Skips ==
  IF shutting_down
    THEN UNCHANGED <<shutting_down, controller, teardowns, call, quitVars>>
    ELSE /\ shutting_down' = TRUE
         /\ controller' = "destroyed"
         /\ teardowns' = teardowns + 1
         /\ RuntimeShutdown
         /\ AnswerSome

DestroySessionController ==
  IF controller # "live"
    THEN UNCHANGED <<shutting_down, controller, teardowns, call, quitVars>>
    ELSE /\ shutting_down' = TRUE
         /\ controller' = "destroyed"
         /\ teardowns' = teardowns + 1
         /\ RuntimeShutdown
         /\ AnswerSome

-----------------------------------------------------------------------------
(* browserd_run.                                                           *)

Begin(r) ==
  /\ run[r] = "idle"
  /\ lifecycle = "kNotStarted"          \* TryBeginRun, under its lock
  /\ lifecycle' = "kRunning"
  /\ run' = [run EXCEPT ![r] = "began"]
  /\ main' = "starting"
  /\ switches' = TRUE                   \* ApplyRunConfig
  /\ UNCHANGED <<gui, session, controller, shutting_down, hostVars, quitVars,
                 teardowns, asked>>

Reject(r) ==
  /\ run[r] = "idle"
  /\ lifecycle # "kNotStarted"
  /\ run' = [run EXCEPT ![r] = "rejected"]
  /\ UNCHANGED <<lifecycle, gui, main, session, controller, shutting_down,
                 switches, hostVars, quitVars, teardowns, asked>>

\* The runtime is up before the main loop exists; NotifyReady makes the session
\* and calls the host's ready callback.
NotifyReady ==
  /\ main = "starting"
  /\ main' = "ready"
  /\ session' = "live"
  /\ controller' = "live"
  /\ UNCHANGED <<runVars, shutting_down, switches, hostVars, quitVars,
                 teardowns, asked>>

\* No user data directory, or no first WebContents: the GUI gives up without
\* calling the host, and the headless runtime calls it without a session.
InitializeFails ==
  /\ main = "starting"
  /\ main' = "exited"
  /\ UNCHANGED <<runVars, session, controller, shutting_down, switches,
                 hostVars, quitVars, teardowns, asked>>

ReadyReturns ==
  /\ main = "ready"
  /\ main' = "preloop"
  /\ UNCHANGED <<runVars, session, controller, shutting_down, switches,
                 hostVars, quitVars, teardowns, asked>>

\* BrowserMainParts learns how to quit the loop that is about to start.
WillRunMainMessageLoop ==
  LET quit == IF quit_requested THEN RequestQuit(quit_requested, "set")
                                ELSE <<quit_requested, "set">>
  IN  /\ main = "preloop"
      /\ main' = "loop"
      /\ quit_requested' = quit[1]
      /\ quit_closure' = quit[2]
      /\ UNCHANGED <<runVars, session, controller, shutting_down, switches,
                     hostVars, runtime_down, teardowns, asked>>

LoopExits ==
  /\ main = "loop"
  /\ LoopQuits
  /\ main' = "exited"
  /\ UNCHANGED <<runVars, session, controller, shutting_down, switches,
                 hostVars, quitVars, teardowns, asked>>

\* Mutant: FinishRun makes the process ready for another run.
RunReturns_Reopens(r) ==
  /\ main = "exited"
  /\ run[r] = "began"
  /\ lifecycle' = "kNotStarted"
  /\ run' = [run EXCEPT ![r] = "returned"]
  /\ main' = "returned"
  /\ session' = IF session = "none" THEN "none" ELSE "freed"
  /\ controller' = IF controller = "none" THEN "none" ELSE "destroyed"
  /\ switches' = FALSE
  /\ tasks' = <<>>
  /\ UNCHANGED <<gui, shutting_down, call, pc, quitVars, teardowns, asked>>

\* FinishRun, ClearEmbedderSwitches and the end of RunState, which owns the
\* session; tasks that were not run went away with the loop.
RunReturns(r) ==
  /\ main = "exited"
  /\ run[r] = "began"
  /\ lifecycle' = "kStopped"
  /\ run' = [run EXCEPT ![r] = "returned"]
  /\ main' = "returned"
  /\ session' = IF session = "none" THEN "none" ELSE "freed"
  /\ controller' = IF controller = "none" THEN "none" ELSE "destroyed"
  /\ switches' = FALSE
  /\ tasks' = <<>>
  /\ UNCHANGED <<gui, shutting_down, call, pc, quitVars, teardowns, asked>>

-----------------------------------------------------------------------------
(* Tasks of the UI thread.                                                 *)

TakeTask ==
  /\ main = "loop"
  /\ ~LoopQuits
  /\ tasks # <<>>
  /\ tasks' = Tail(tasks)

\* The task Schedule posted: a BrowserController operation starts, or nothing
\* happens and the callback is never run.
RunCall(c) ==
  /\ TakeTask
  /\ Head(tasks) = c
  /\ call' = [call EXCEPT ![c] =
                IF shutting_down \/ controller # "live" THEN "dropped"
                                                        ELSE "running"]
  /\ UNCHANGED <<runVars, main, session, controller, shutting_down, switches,
                 pc, quitVars, teardowns, asked>>

RunDestroy ==
  /\ TakeTask
  /\ Head(tasks) = Shutdown
  /\ DestroySessionController
  /\ UNCHANGED <<runVars, main, session, switches, pc, asked>>

\* An operation ends, in a task of its own, and its callback runs host code.
Complete(c) ==
  /\ main = "loop"
  /\ ~LoopQuits
  /\ call[c] = "running"
  /\ call' = [call EXCEPT ![c] = "done"]
  /\ main' = "callback"
  /\ UNCHANGED <<runVars, session, controller, shutting_down, switches, tasks,
                 pc, quitVars, teardowns, asked>>

CallbackReturns ==
  /\ main = "callback"
  /\ main' = "loop"
  /\ UNCHANGED <<runVars, session, controller, shutting_down, switches,
                 hostVars, quitVars, teardowns, asked>>

\* The user closes the last window, and the runtime shuts itself down.
LastTabCloses ==
  /\ main = "loop"
  /\ ~LoopQuits
  /\ controller = "live"
  /\ RuntimeShutdown
  /\ AnswerSome
  /\ UNCHANGED <<runVars, main, session, controller, shutting_down, switches,
                 tasks, pc, teardowns, asked>>

-----------------------------------------------------------------------------
(* The API, called on the UI thread: a step of the running callback.       *)

OnUIThread == main \in {"ready", "callback"}

\* Schedule's test of the session.
Accepting == ~shutting_down /\ controller = "live"

ScheduleOnUI(c) ==
  /\ OnUIThread
  /\ call[c] = "unused"
  /\ call' = [call EXCEPT ![c] = IF Accepting THEN "posted" ELSE "rejected"]
  /\ tasks' = IF Accepting THEN Append(tasks, c) ELSE tasks
  /\ UNCHANGED <<runVars, main, session, controller, shutting_down, switches,
                 pc, quitVars, teardowns, asked>>

\* browserd_shutdown tears the session down before it returns.
ShutdownOnUI ==
  /\ OnUIThread
  /\ ~shutting_down
  /\ shutting_down' = TRUE
  /\ asked' = IF asked = "never" THEN main ELSE asked
  /\ switches' = FALSE
  /\ DestroySessionController
  /\ UNCHANGED <<runVars, main, session, tasks, pc>>

-----------------------------------------------------------------------------
(* The API, called on a host thread, which has the session from the ready  *)
(* callback and starts no call once browserd_run has returned.             *)

Starts(h) == pc[h] = "idle" /\ session = "live" /\ main # "returned"

\* Undefined behaviour: the controller was destroyed under the call.
Crash ==
  /\ controller = "destroyed"
  /\ main' = "crashed"

HostTests(h, c) ==
  /\ Starts(h)
  /\ call[c] = "unused"
  /\ call' = [call EXCEPT ![c] = IF Accepting THEN "tested" ELSE "rejected"]
  /\ pc' = [pc EXCEPT ![h] = IF Accepting THEN c ELSE "idle"]
  /\ UNCHANGED <<runVars, main, session, controller, shutting_down, switches,
                 tasks, quitVars, teardowns, asked>>

HostPosts(h, c) ==
  /\ pc[h] = c
  /\ pc' = [pc EXCEPT ![h] = "idle"]
  /\ call' = [call EXCEPT ![c] = "posted"]
  /\ tasks' = IF main = "returned" THEN tasks ELSE Append(tasks, c)
  /\ Crash \/ UNCHANGED main
  /\ UNCHANGED <<runVars, session, controller, shutting_down, switches,
                 quitVars, teardowns, asked>>

HostTestsShutdown(h) ==
  /\ Starts(h)
  /\ ~shutting_down
  /\ pc' = [pc EXCEPT ![h] = Shutdown]
  /\ UNCHANGED <<runVars, main, session, controller, shutting_down, switches,
                 tasks, call, quitVars, teardowns, asked>>

\* With no controller left there is nothing to post, unless the pointer had
\* been read before the controller went: then the use of it is undefined.
HostPostsShutdown(h) ==
  /\ pc[h] = Shutdown
  /\ pc' = [pc EXCEPT ![h] = "idle"]
  /\ shutting_down' = TRUE
  /\ asked' = IF asked = "never" THEN "host" ELSE asked
  /\ switches' = FALSE
  /\ \/ Crash /\ UNCHANGED tasks
     \/ UNCHANGED <<main, tasks>> /\ controller # "live"
     \/ /\ main # "returned"
        /\ tasks' = Append(tasks, Shutdown)
        /\ UNCHANGED main
  /\ UNCHANGED <<runVars, session, controller, call, quitVars, teardowns>>

-----------------------------------------------------------------------------
Alive == main # "crashed"

RunStep(r) == Alive /\ (Begin(r) \/ Reject(r) \/ RunReturns(r))

MainStep ==
  /\ Alive
  /\ \/ NotifyReady
     \/ InitializeFails
     \/ ReadyReturns
     \/ WillRunMainMessageLoop
     \/ LoopExits
     \/ RunDestroy
     \/ CallbackReturns
     \/ \E c \in Call : RunCall(c)

HostStep(h) ==
  Alive /\ (HostPostsShutdown(h) \/ \E c \in Call : HostPosts(h, c))

\* What the host, the user and the web may do, or never do.
Environment ==
  /\ Alive
  /\ \/ ShutdownOnUI
     \/ LastTabCloses
     \/ \E c \in Call : ScheduleOnUI(c) \/ Complete(c)
     \/ \E h \in HostThread :
          HostTestsShutdown(h) \/ \E c \in Call : HostTests(h, c)

Next ==
  \/ \E r \in Runner : RunStep(r)
  \/ MainStep
  \/ \E h \in HostThread : HostStep(h)
  \/ Environment

Spec == Init /\ [][Next]_vars

\* The UI thread keeps running (callbacks return, tasks are taken in turn) and
\* a host thread that is in the middle of a call goes on with it.
Fairness ==
  /\ WF_vars(MainStep)
  /\ \A r \in Runner : WF_vars(RunReturns(r) /\ Alive)
  /\ \A h \in HostThread : WF_vars(HostStep(h))

FairSpec == Spec /\ Fairness

-----------------------------------------------------------------------------
(* Properties.                                                             *)

CallStates == {"unused", "rejected", "tested", "posted", "running", "done",
               "dropped"}

\* The type invariant, and that a controller is held by a session that exists.
TypeOK ==
  /\ (session = "none") = (controller = "none")
  /\ controller = "live" => session = "live"
  /\ lifecycle \in {"kNotStarted", "kRunning", "kStopped"}
  /\ run \in [Runner -> {"idle", "rejected", "began", "returned"}]
  /\ main \in {"idle", "starting", "ready", "preloop", "loop", "callback",
               "exited", "returned", "crashed"}
  /\ gui \in BOOLEAN
  /\ session \in {"none", "live", "freed"}
  /\ controller \in {"none", "live", "destroyed"}
  /\ shutting_down \in BOOLEAN
  /\ switches \in BOOLEAN
  /\ tasks \in Seq(Call \cup {Shutdown})
  /\ call \in [Call -> CallStates]
  /\ pc \in [HostThread -> Call \cup {Shutdown, "idle"}]
  /\ quit_requested \in BOOLEAN
  /\ quit_closure \in {"null", "set", "run"}
  /\ runtime_down \in BOOLEAN
  /\ teardowns \in Nat
  /\ asked \in {"never", "ready", "callback", "host"}

\* Chromium is entered once per process: whatever threads call browserd_run,
\* and whenever, at most one of the calls ever gets past TryBeginRun.
OneRunPerProcess ==
  Cardinality({r \in Runner : run[r] \in {"began", "returned"}}) <= 1

\* However many threads call browserd_shutdown at once, the session is torn
\* down at most once.
OneTeardown == teardowns <= 1

\* browserd_run is over.
Ended == main \in {"returned", "crashed"}

\* browserd_run returns after a shutdown asked for on a host thread or in a
\* completion callback.
ShutdownInLoopEndsRun == asked \in {"callback", "host"} ~> Ended

\* browserd_run returns after a shutdown, wherever it was asked for: what
\* embed/README.md promises of browserd_shutdown and browserd_run.
ShutdownEndsRun == asked # "never" ~> Ended
=============================================================================
