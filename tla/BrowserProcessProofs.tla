------------------------- MODULE BrowserProcessProofs -------------------------
(***************************************************************************)
(* A process, the runtime behind its controller and the socket it shares   *)
(* with others.  First the path of the socket, for any number of           *)
(* processes: what SocketPath says of it is an invariant of the starts and *)
(* ends that do not overlap.  Then the process: its steps are steps of     *)
(* SocketPath and of one runtime, what it promises of itself holds, and    *)
(* each of the three runtimes keeps what BrowserRuntime promises the       *)
(* controller, for any number of tabs and pages.                           *)
(***************************************************************************)
EXTENDS BrowserProcess, GuiRuntimeProofs

-----------------------------------------------------------------------------
(* The path of the socket.                                                 *)

Bound == {"listen", "undo", "up", "end"}

\* At most one process is in the middle of a start or of an end.
OneBusy == \A q, r \in Busy : q = r

\* The path names a process exactly while its socket is bound there.
PathExact == \A p \in Process : path = p <=> at[p] \in Bound

\* What a process is about to unlink as stale is not the socket of a process:
\* the answer of the probe is still true.
UnlinksNoServer == \A p \in Process : at[p] = "unlink" => path \notin Process

PathInv ==
  /\ SocketTypeOK
  /\ orderly => OneBusy /\ PathExact /\ UnlinksNoServer

LEMMA PathInit == SocketInit => PathInv
BY PathAssumption DEF SocketInit, PathInv, SocketTypeOK, OneBusy, PathExact,
                      UnlinksNoServer, Busy, Steps, Bound

\* Every step goes through Goes, which keeps the types of at and of orderly and
\* notes an overlap.
LEMMA GoesOn ==
  ASSUME SocketTypeOK, NEW p \in Process,
         NEW s \in Steps \cup {"off", "failed", "up"}, Goes(p, s)
  PROVE  /\ at' = [at EXCEPT ![p] = s]
         /\ at' \in [Process -> Steps \cup {"off", "failed", "up"}]
         /\ orderly' \in BOOLEAN
         /\ orderly' => orderly /\ OneBusy'
BY DEF Goes, SocketTypeOK, OneBusy

\* A step that does not touch the path keeps the invariant, if the process is
\* bound before it exactly when it is after, and does not come to unlink a
\* server.
LEMMA PathUntouched ==
  ASSUME PathInv, NEW p \in Process,
         NEW s \in Steps \cup {"off", "failed", "up"}, Goes(p, s),
         UNCHANGED path, at[p] \in Bound <=> s \in Bound,
         s = "unlink" => path \notin Process \/ ~orderly
  PROVE  PathInv'
<1>1. /\ at' = [at EXCEPT ![p] = s]
      /\ at' \in [Process -> Steps \cup {"off", "failed", "up"}]
      /\ orderly' \in BOOLEAN
      /\ orderly' => orderly /\ OneBusy'
  BY GoesOn DEF PathInv
<1>2. SocketTypeOK'
  BY <1>1 DEF PathInv, SocketTypeOK
<1>3. ASSUME orderly' PROVE PathExact' /\ UnlinksNoServer'
  BY <1>1, <1>3 DEF PathInv, SocketTypeOK, PathExact, UnlinksNoServer
<1> QED BY <1>1, <1>2, <1>3 DEF PathInv

\* A step that takes the bound process, and its socket, from the path.
LEMMA PathReleased ==
  ASSUME PathInv, NEW p \in Process,
         NEW s \in {"off", "failed"}, Goes(p, s),
         path' \in {Nothing, LeftOver},
         orderly => path = p
  PROVE  PathInv'
<1>1. /\ at' = [at EXCEPT ![p] = s]
      /\ at' \in [Process -> Steps \cup {"off", "failed", "up"}]
      /\ orderly' \in BOOLEAN
      /\ orderly' => orderly /\ OneBusy'
  BY GoesOn DEF PathInv
<1>2. SocketTypeOK'
  BY <1>1 DEF PathInv, SocketTypeOK
<1>3. path' \notin Process
  BY PathAssumption
<1>4. ASSUME orderly' PROVE PathExact' /\ UnlinksNoServer'
  <2>1. orderly /\ path = p /\ PathExact
    BY <1>1, <1>4 DEF PathInv
  <2>2. \A q \in Process : at'[q] \notin Bound
    BY <1>1, <2>1 DEF PathInv, SocketTypeOK, PathExact, Bound
  <2> QED BY <1>3, <2>2 DEF PathExact, UnlinksNoServer
<1> QED BY <1>1, <1>2, <1>4 DEF PathInv

-----------------------------------------------------------------------------
LEMMA StartKeeps == ASSUME PathInv, NEW p \in Process, BeginStart(p) PROVE PathInv'
BY PathUntouched DEF BeginStart, Bound, Steps

LEMMA RefuseKeeps == ASSUME PathInv, NEW p \in Process, RefusePath(p) PROVE PathInv'
BY PathUntouched DEF RefusePath, Bound, Steps

LEMMA InspectKeeps == ASSUME PathInv, NEW p \in Process, Inspect(p) PROVE PathInv'
BY PathUntouched DEF Inspect, Bound, Steps

\* Nobody answered: whatever process the path may have named was listening, and
\* answered, or was busy, and so was this one.
LEMMA ProbeKeeps == ASSUME PathInv, NEW p \in Process, Probe(p) PROVE PathInv'
<1>1. CASE Goes(p, "failed")
  BY <1>1, PathUntouched DEF Probe, Bound, Steps
<1>2. CASE (\A q \in Process : ~Answers(q)) /\ Goes(p, "unlink")
  <2>1. ASSUME orderly, path \in Process PROVE FALSE
    <3>1. at[path] \in Bound /\ at[path] # "up"
      BY <1>2, <2>1 DEF PathInv, PathExact, Answers
    <3>2. path \in Busy /\ p \in Busy
      BY <2>1, <3>1 DEF Probe, Busy, Bound, Steps
    <3>3. path = p
      BY <2>1, <3>2 DEF PathInv, OneBusy
    <3> QED BY <3>1, <3>3 DEF Probe, Bound
  <2> QED BY <1>2, <2>1, PathUntouched DEF Probe, Bound, Steps
<1> QED BY <1>1, <1>2 DEF Probe

\* What is unlinked is not the socket of a process.
LEMMA UnlinkKeeps == ASSUME PathInv, NEW p \in Process, UnlinkStale(p) PROVE PathInv'
<1>1. CASE UNCHANGED path /\ Goes(p, "failed")
  BY <1>1, PathUntouched DEF UnlinkStale, Bound, Steps
<1>2. CASE path' = Nothing /\ Goes(p, "bind")
  <2>1. /\ at' = [at EXCEPT ![p] = "bind"]
        /\ at' \in [Process -> Steps \cup {"off", "failed", "up"}]
        /\ orderly' \in BOOLEAN
        /\ orderly' => orderly /\ OneBusy'
    BY <1>2, GoesOn DEF PathInv, Steps
  <2>2. SocketTypeOK'
    BY <1>2, <2>1 DEF PathInv, SocketTypeOK
  <2>3. ASSUME orderly' PROVE PathExact' /\ UnlinksNoServer'
    <3>1. path \notin Process /\ path' \notin Process
      BY <1>2, <2>1, <2>3, PathAssumption DEF PathInv, UnlinksNoServer, UnlinkStale
    <3>2. \A q \in Process : at'[q] \notin Bound
      BY <2>1, <2>3, <3>1 DEF PathInv, SocketTypeOK, PathExact, Bound
    <3> QED BY <3>1, <3>2 DEF PathExact, UnlinksNoServer
  <2> QED BY <2>1, <2>2, <2>3 DEF PathInv
<1> QED BY <1>1, <1>2 DEF UnlinkStale

LEMMA BindKeeps == ASSUME PathInv, NEW p \in Process, Bind(p) PROVE PathInv'
<1>1. CASE UNCHANGED path /\ Goes(p, "failed")
  BY <1>1, PathUntouched DEF Bind, Bound, Steps
<1>2. CASE path = Nothing /\ path' = p /\ Goes(p, "listen")
  <2>1. /\ at' = [at EXCEPT ![p] = "listen"]
        /\ at' \in [Process -> Steps \cup {"off", "failed", "up"}]
        /\ orderly' \in BOOLEAN
        /\ orderly' => orderly /\ OneBusy'
    BY <1>2, GoesOn DEF PathInv, Steps
  <2>2. SocketTypeOK'
    BY <1>2, <2>1 DEF PathInv, SocketTypeOK
  <2>3. ASSUME orderly' PROVE PathExact'
    <3>1. \A q \in Process : at[q] \notin Bound
      BY <1>2, <2>1, <2>3, PathAssumption DEF PathInv, PathExact
    <3> QED BY <1>2, <2>1, <3>1 DEF PathInv, SocketTypeOK, PathExact, Bound
  <2>4. ASSUME orderly' PROVE UnlinksNoServer'
    <3>1. p \in Busy'
      BY <2>1 DEF Busy, Steps, PathInv, SocketTypeOK
    <3>2. \A q \in Process : at'[q] = "unlink" => q = p
      BY <2>1, <2>4, <3>1 DEF OneBusy, Busy, Steps
    <3> QED BY <2>1, <3>2 DEF UnlinksNoServer, PathInv, SocketTypeOK
  <2> QED BY <2>1, <2>2, <2>3, <2>4 DEF PathInv
<1> QED BY <1>1, <1>2 DEF Bind

LEMMA ListenKeeps == ASSUME PathInv, NEW p \in Process, Listen(p) PROVE PathInv'
BY PathUntouched DEF Listen, Bound, Steps

LEMMA UndoKeeps == ASSUME PathInv, NEW p \in Process, UndoBind(p) PROVE PathInv'
<1>1. orderly => path = p
  BY DEF PathInv, PathExact, UndoBind, Bound
<1> QED BY <1>1, PathReleased DEF UndoBind

LEMMA CloseKeeps == ASSUME PathInv, NEW p \in Process, CloseListener(p) PROVE PathInv'
BY PathUntouched DEF CloseListener, Bound, Steps

LEMMA UnlinkBoundKeeps == ASSUME PathInv, NEW p \in Process, UnlinkBound(p) PROVE PathInv'
<1>1. orderly => path = p
  BY DEF PathInv, PathExact, UnlinkBound, Bound
<1> QED BY <1>1, PathReleased DEF UnlinkBound

\* The path keeps the name of a socket nobody holds.
LEMMA DieKeeps == ASSUME PathInv, NEW p \in Process, Die(p) PROVE PathInv'
<1>1. CASE path = p
  BY <1>1, PathReleased DEF Die
<1>2. CASE path # p
  <2>1. CASE orderly
    <3>1. at[p] \notin Bound
      BY <1>2, <2>1 DEF PathInv, PathExact
    <3> QED BY <1>2, <3>1, PathUntouched DEF Die, Bound, Steps
  <2>2. CASE ~orderly
    <3>1. /\ at' \in [Process -> Steps \cup {"off", "failed", "up"}]
          /\ orderly' \in BOOLEAN /\ ~orderly'
      BY <2>2, GoesOn DEF Die, PathInv, Steps
    <3> QED BY <1>2, <3>1 DEF Die, PathInv, SocketTypeOK
  <2> QED BY <2>1, <2>2
<1> QED BY <1>1, <1>2

-----------------------------------------------------------------------------
\* The invariant holds of every state that processes sharing a path can reach.
THEOREM PathInductive == SocketSpec => []PathInv
<1>1. PathInv /\ [SocketNext]_socketVars => PathInv'
  <2> SUFFICES ASSUME PathInv, [SocketNext]_socketVars PROVE PathInv'
    OBVIOUS
  <2>1. CASE UNCHANGED socketVars
    BY <2>1 DEF socketVars, PathInv, SocketTypeOK, OneBusy, PathExact,
                UnlinksNoServer, Busy
  <2>2. ASSUME NEW p \in Process, SocketStep(p) PROVE PathInv'
    BY <2>2, StartKeeps, RefuseKeeps, InspectKeeps, ProbeKeeps, UnlinkKeeps,
       BindKeeps, ListenKeeps, UndoKeeps, CloseKeeps, UnlinkBoundKeeps, DieKeeps
       DEF SocketStep, StartStep
  <2> QED BY <2>1, <2>2 DEF SocketNext
<1> QED BY <1>1, PathInit, PTL DEF SocketSpec

\* As long as starts and ends do not overlap, the path names the process that has
\* bound it: probing, unlinking and binding as CreateListeningSocket does takes a
\* dead socket over and no live one, for any number of processes.
THEOREM PathIsExact == SocketSpec => []PathNamesItsServer
<1>1. PathInv => PathNamesItsServer
  BY DEF PathInv, PathExact, PathNamesItsServer, Bound
<1> QED BY <1>1, PathInductive, PTL

-----------------------------------------------------------------------------
(* The invariant of the process.                                           *)

\* A launch names one runtime; the others are as they were made.
OnlyItsRuntime ==
  /\ launch.runtime # "gui" =>
       /\ tabs = <<>> /\ active_target_id = 0 /\ ~shown /\ ~shutdown_started
  /\ launch.runtime # "headless" =>
       /\ contents = {} /\ active_web_contents = 0 /\ ~quit_posted /\ ~freed_used
  /\ launch.runtime # "native" =>
       /\ strips = {} /\ front = 0
       /\ ~closing_all /\ ~registry_shutting_down /\ ~told_to_quit

\* The ids of tabs, and what the headless runtime points to.
TargetIds ==
  /\ contents \subseteq 1 .. MaxPages /\ active_web_contents \in 0 .. MaxPages
  /\ next_session_id \in 1 .. MaxPages + 1
  /\ strips \subseteq 1 .. next_session_id - 1

\* Of the runtimes that are told of every close: the active tab is an open one.
ActiveTabOpen == active_target_id \in IF tabs = <<>> THEN {0} ELSE ToSet(tabs)
FrontOpen == front \in IF strips = {} THEN {0} ELSE strips
ActiveIsOpen == ActiveTabOpen /\ FrontOpen

\* Shutdown alone lets go of what keeps Chrome alive, and a call made behind it
\* alone takes hold again.
KeepAlives ==
  /\ registry_shutting_down \/ closing_all => told_to_quit
  /\ launch.runtime = "native" /\ phase = "up" /\ ~told_to_quit => keep_alive
  /\ told_to_quit /\ ~called_after => ~keep_alive /\ ~profile_keep_alive

\* Before its runtime is made a process has none of this.
NothingBefore ==
  phase = "new" =>
    /\ contents = {} /\ active_web_contents = 0 /\ ~quit_posted /\ ~freed_used
    /\ strips = {} /\ front = 0 /\ next_session_id = 1
    /\ ~told_to_quit /\ ~closing_all /\ ~shutdown_started
    /\ observed = {} /\ simulated = 0

RuntimeInv ==
  /\ IInv
  /\ OnlyItsRuntime /\ TargetIds /\ ActiveIsOpen /\ KeepAlives /\ NothingBefore

\* What main has started when it comes to a stage.
Started ==
  /\ launch \in AllLaunches
  /\ stage = "launched" => phase = "new" /\ ~http_up
  /\ stage \in {"http", "ipc", "serving"} => phase = "up"
  /\ stage \in {"launched", "http"} => at[This] = "off" /\ ~http_up
  /\ stage \in {"http", "ipc"} =>
       launch.http # "bad" /\ launch.ipc # "bad"
  /\ stage = "ipc" =>
       /\ launch.http = IF http_up THEN "ok" ELSE "off"
       /\ launch.ipc = "off" => at[This] = "off"

ProcessInv ==
  /\ RuntimeInv
  /\ SocketTypeOK /\ Started
  /\ NoHalfStartedProcess
  /\ ObserversFollowPages

-----------------------------------------------------------------------------
(* What the steps of a process are made of.                                *)

\* Every step of a process at the path is a step of SocketPath, or none.
LEMMA SocketSide == [ProcessNext]_processVars => [SocketNext]_socketVars
<1> SUFFICES ASSUME [ProcessNext]_processVars, ~UNCHANGED socketVars
             PROVE  SocketNext
  OBVIOUS
<1> USE DEF transportVars, runtimeVars
<1>1. This \in Process /\ Other \in Process
  BY ProcessAssumption
<1>2. CASE StartIPCTransport
  BY <1>1, <1>2 DEF StartIPCTransport, IPCStarted, SocketNext, SocketStep
<1>3. CASE StopIPCTransport
  BY <1>1, <1>3 DEF StopIPCTransport, SocketNext, SocketStep
<1>4. CASE Killed
  BY <1>1, <1>4 DEF Killed, SocketNext, SocketStep
<1>5. CASE OtherProcess
  BY <1>1, <1>5 DEF OtherProcess, SocketNext
<1>6. CASE UNCHANGED processVars
  BY <1>6 DEF processVars
<1>7. CASE StartRuntime \/ StartHttpTransport
  BY <1>7 DEF StartRuntime, StartHttpTransport
<1>8. CASE ListTabs \/ OpenTab \/ (\E target \in 0 .. MaxTabs : DropTab(target))
  BY <1>8 DEF ListTabs, OpenTab, DropTab, Refreshed
<1>9. CASE ResizeActive \/ ShutdownCall \/ PagesAndUser
  BY <1>9 DEF ResizeActive, ShutdownCall, PagesAndUser
<1>10. CASE StdinEnds \/ OnTransportClosed \/ LoopEnds \/ StopHttpTransport \/ Exit
  BY <1>10 DEF StdinEnds, OnTransportClosed, LoopEnds, StopHttpTransport, Exit
<1> QED
  BY <1>2, <1>3, <1>4, <1>5, <1>6, <1>7, <1>8, <1>9, <1>10 DEF ProcessNext

\* A step of the GUI runtime, by the call it is of.
GuiStep ==
  /\ launch.runtime = "gui"
  /\ UNCHANGED <<headlessVars, nativeVars, freed_used>>
  /\ \/ call' = "initialize" /\ Initialize
     \/ call' = "create" /\ CreateTab
     \/ call' = "close" /\ \E target \in 0 .. MaxTabs : CloseTab(target)
     \/ call' = "shutdown" /\ Shutdown
     \/ call' = "destroy" /\ Destroy
     \/ call' = "none" /\ \E id \in 1 .. MaxTabs : OnWindowCloseRequested(id)
     \/ call' = "none" /\ RemoveClosedWindow

\* A step of the headless runtime, or of a page of its.
HeadlessStep ==
  /\ launch.runtime = "headless"
  /\ UNCHANGED <<guiVars, nativeVars>>
  /\ freed_used => freed_used'
  /\ freed_used' \in BOOLEAN
  /\ \/ call' = "initialize" /\ Headless!Initialize
     \/ /\ phase = "up" /\ UNCHANGED phase
        /\ \/ call' \in {"none", "create", "close"} /\ UNCHANGED headlessVars
           \/ call' = "create" /\ Headless!CreateTab
           \/ call' = "close" /\ \E target \in Nat : Headless!CloseTab(target)
           \/ call' = "shutdown" /\ Headless!Shutdown
           \/ call' = "none" /\ Headless!PageOpensTab
           \/ call' = "none" /\ Headless!PageClosesItself

\* A step of Chrome's runtime, or of Chrome or its user.
NativeStep ==
  /\ launch.runtime = "native"
  /\ UNCHANGED <<guiVars, headlessVars, freed_used>>
  /\ \/ call' = "initialize" /\ Native!Start
     \/ /\ phase = "up" /\ UNCHANGED phase
        /\ \/ call' = "none" /\ Native!Lookup
           \/ call' = "create" /\ Native!CreateTab
           \/ call' = "close" /\ \E target \in Nat : Native!CloseTab(target)
           \/ call' = "shutdown" /\ Native!Shutdown
           \/ call' = "none" /\ Native!Environment

\* A step of the process that its runtime has no part in, but for its end.
NoRuntimeStep ==
  /\ UNCHANGED <<guiVars, headlessVars, nativeVars, freed_used>>
  /\ call' \in {"none", "destroy"} \/ UNCHANGED call
  /\ phase = "new" => UNCHANGED observerVars
  /\ \/ UNCHANGED phase
     \/ launch.runtime # "gui" /\ phase = "up" /\ phase' = "gone"

RuntimeStep == GuiStep \/ HeadlessStep \/ NativeStep \/ NoRuntimeStep

\* What GuiRuntimeProofs shows of Next holds of it.
LEMMA GuiStepIsNext == ASSUME GuiStep PROVE OfGui(Next)
BY DEF GuiStep, OfGui, Next

\* BrowserController::Shutdown is a step of the runtime.
LEMMA ShutDownIsStep ==
  ASSUME phase = "up", UNCHANGED phase, call' = "shutdown", ShutDown PROVE RuntimeStep
<1>1. CASE OfGui(Shutdown)
  BY <1>1 DEF OfGui, GuiStep, RuntimeStep
<1>2. CASE OfNative(Native!Shutdown)
  BY <1>2 DEF OfNative, NativeStep, RuntimeStep
<1>3. CASE OfHeadless(Headless!Shutdown, FALSE)
  BY <1>3 DEF OfHeadless, HeadlessStep, RuntimeStep
<1> QED
  BY <1>1, <1>2, <1>3 DEF ShutDown

\* A tool's operation is a step of the runtime.
LEMMA CallIsStep ==
  ASSUME Started,
         ListTabs \/ OpenTab \/ (\E target \in 0 .. MaxTabs : DropTab(target)) \/ ResizeActive
  PROVE  RuntimeStep
<1>1. phase = "up" /\ UNCHANGED phase
  BY DEF Started, ListTabs, OpenTab, DropTab, ResizeActive, Calling
<1>2. CASE launch.runtime = "gui"
  <2>1. CASE ListTabs
    BY <1>1, <1>2, <2>1 DEF ListTabs, OfGui, OfNative, OfHeadlessThenRefresh,
                            NoRuntimeStep, RuntimeStep
  <2>2. CASE OpenTab
    BY <1>2, <2>2 DEF OpenTab, OfGui, OfNative, OfHeadlessThenRefresh,
                      GuiStep, RuntimeStep
  <2>3. ASSUME NEW target \in 0 .. MaxTabs, DropTab(target) PROVE RuntimeStep
    BY <1>2, <2>3 DEF DropTab, OfGui, OfNative, OfHeadlessThenRefresh,
                      GuiStep, RuntimeStep
  <2> QED
    BY <1>2, <2>1, <2>2, <2>3 DEF ResizeActive, OfNative, OfHeadless
<1>3. CASE launch.runtime = "headless"
  <2>1. ASSUME ListTabs \/ OpenTab \/ ResizeActive PROVE RuntimeStep
    BY <1>1, <1>3, <2>1 DEF ListTabs, OpenTab, ResizeActive, OfGui, OfNative,
          OfHeadless, OfHeadlessThenRefresh, HeadlessStep, RuntimeStep
  <2>2. ASSUME NEW target \in 0 .. MaxTabs, DropTab(target) PROVE RuntimeStep
    <3>1. target \in Nat
      BY MaxTabsAssumption
    <3> QED
      BY <1>1, <1>3, <2>2, <3>1 DEF DropTab, OfGui, OfNative, OfHeadlessThenRefresh,
            HeadlessStep, RuntimeStep
  <2> QED
    BY <2>1, <2>2
<1>4. CASE launch.runtime = "native"
  <2>1. ASSUME ListTabs \/ OpenTab \/ ResizeActive PROVE RuntimeStep
    BY <1>1, <1>4, <2>1 DEF ListTabs, OpenTab, ResizeActive, OfGui, OfNative,
          OfHeadless, OfHeadlessThenRefresh, NativeStep, RuntimeStep, Native!ResizeActive
  <2>2. ASSUME NEW target \in 0 .. MaxTabs, DropTab(target) PROVE RuntimeStep
    <3>1. target \in Nat
      BY MaxTabsAssumption
    <3> QED
      BY <1>1, <1>4, <2>2, <3>1 DEF DropTab, OfGui, OfNative, OfHeadlessThenRefresh,
            NativeStep, RuntimeStep
  <2> QED
    BY <2>1, <2>2
<1> QED
  BY <1>2, <1>3, <1>4 DEF Started, AllLaunches

\* Every step of a process is a step of the runtime it was started for, or leaves
\* the runtimes alone.
LEMMA StepOfOneRuntime ==
  ASSUME Started, [ProcessNext]_processVars
  PROVE  UNCHANGED launch /\ RuntimeStep
<1>1. ASSUME UNCHANGED runtimeVars, call' \in {"none", "destroy"} \/ UNCHANGED call
      PROVE  RuntimeStep
  BY <1>1 DEF runtimeVars, NoRuntimeStep, RuntimeStep
<1>2. CASE StartRuntime
  <2>0. call' = "initialize"
    BY <1>2 DEF StartRuntime
  <2>1. ASSUME OfGui(Initialize) PROVE RuntimeStep
    BY <2>0, <2>1 DEF OfGui, GuiStep, RuntimeStep
  <2>2. ASSUME OfHeadless(Headless!Initialize, FALSE) PROVE RuntimeStep
    BY <2>0, <2>2 DEF OfHeadless, HeadlessStep, RuntimeStep
  <2>3. ASSUME OfNative(Native!Start) PROVE RuntimeStep
    BY <2>0, <2>3 DEF OfNative, NativeStep, RuntimeStep
  <2> QED
    BY <1>2, <2>1, <2>2, <2>3 DEF StartRuntime
<1>3. CASE ListTabs \/ OpenTab \/ (\E target \in 0 .. MaxTabs : DropTab(target))
           \/ ResizeActive
  BY <1>3, CallIsStep DEF ListTabs, OpenTab, DropTab, ResizeActive, Calling
<1>4. CASE ShutdownCall
  BY <1>4, ShutDownIsStep DEF ShutdownCall, Calling, Started
<1>5. CASE PagesAndUser
  <2>1. phase = "up" /\ UNCHANGED <<phase, launch>>
    BY <1>5 DEF Started, PagesAndUser, Calling
  <2> QED
    BY <1>5, <2>1 DEF PagesAndUser, OfGui, OfHeadless, OfNative, GuiStep, HeadlessStep,
                NativeStep, RuntimeStep
<1>6. CASE OnTransportClosed
  <2>1. phase = "up" /\ UNCHANGED <<phase, launch>>
    BY <1>6 DEF Started, OnTransportClosed, Calling
  <2>2. CASE call' = "shutdown" /\ ShutDown
    BY <2>1, <2>2, ShutDownIsStep
  <2>3. CASE /\ call' = "none"
             /\ UNCHANGED <<guiVars, headlessVars, nativeVars, observerVars, freed_used>>
    BY <2>1, <2>3 DEF NoRuntimeStep, RuntimeStep
  <2> QED
    BY <1>6, <2>1, <2>2, <2>3 DEF OnTransportClosed
<1>7. CASE Exit
  <2>1. CASE OfGui(Destroy)
    BY <1>7, <2>1 DEF Exit, OfGui, GuiStep, RuntimeStep
  <2>2. CASE /\ launch.runtime # "gui" /\ phase = "up" /\ phase' = "gone"
             /\ UNCHANGED <<guiVars, headlessVars, nativeVars, freed_used>>
    BY <1>7, <2>2 DEF Exit, NoRuntimeStep, RuntimeStep
  <2> QED
    BY <1>1, <1>7, <2>1, <2>2 DEF Exit
<1>8. CASE StartHttpTransport \/ StartIPCTransport \/ StdinEnds \/ LoopEnds
  BY <1>1, <1>8 DEF StartHttpTransport, StartIPCTransport, StdinEnds, LoopEnds
<1>9. CASE StopIPCTransport \/ StopHttpTransport \/ Killed \/ OtherProcess
  BY <1>1, <1>9 DEF StopIPCTransport, StopHttpTransport, Killed, OtherProcess
<1>10. CASE UNCHANGED processVars
  BY <1>1, <1>10 DEF processVars
<1> QED
  BY <1>2, <1>3, <1>4, <1>5, <1>6, <1>7, <1>8, <1>9, <1>10 DEF ProcessNext

-----------------------------------------------------------------------------
(* Each runtime keeps the invariant.                                       *)

\* A process that was just launched.
LEMMA ProcessInitInv == ProcessInit => RuntimeInv /\ Started
<1> SUFFICES ASSUME ProcessInit PROVE RuntimeInv /\ Started
  OBVIOUS
<1>1. IInv
  BY InitEstablishes DEF ProcessInit
<1>2. Headless!Init /\ Native!Init /\ Init /\ SocketInit
  BY DEF ProcessInit
<1>3. OnlyItsRuntime
  BY <1>2 DEF OnlyItsRuntime, ProcessInit, Headless!Init, Native!Init, Init
<1>4. TargetIds
  BY <1>2, ProcessAssumption DEF TargetIds, Headless!Init, Native!Init
<1>5. ActiveIsOpen
  BY <1>2 DEF ActiveIsOpen, ActiveTabOpen, FrontOpen, Native!Init, Init
<1>6. KeepAlives
  BY <1>2 DEF KeepAlives, Native!Init, Init
<1>7. NothingBefore
  BY <1>2 DEF NothingBefore, ProcessInit, Headless!Init, Native!Init, Init
<1>8. Started
  BY <1>2, ProcessAssumption DEF Started, ProcessInit, Init, SocketInit
<1> QED
  BY <1>1, <1>3, <1>4, <1>5, <1>6, <1>7, <1>8 DEF RuntimeInv

\* A sequence with no elements.
LEMMA NoElements ==
  ASSUME NEW S, NEW s \in Seq(S)
  PROVE  /\ s = <<>> <=> ToSet(s) = {}
         /\ s # <<>> => s[1] \in ToSet(s)
<1>1. ASSUME s # <<>> PROVE 1 \in DOMAIN s
  BY <1>1, EmptySeq, LenProperties
<1> QED
  BY <1>1 DEF ToSet

\* What is left active when a tab is erased.
LEMMA EraseLeavesActive ==
  ASSUME IInv, ActiveTabOpen, NEW id \in ToSet(tabs), Erase(id)
  PROVE  /\ ToSet(tabs') = ToSet(tabs) \ {id}
         /\ active_target_id' \in IF ToSet(tabs') = {} THEN {0} ELSE ToSet(tabs')
         /\ \/ UNCHANGED shutdown_started
            \/ ToSet(tabs') = {} /\ shutdown_started'
         /\ ActiveTabOpen'
<1>1. /\ ToSet(tabs') = ToSet(tabs) \ {id}
      /\ tabs' \in Seq(1 .. MaxTabs)
  BY ErasedOne DEF Erase, IInv
<1>2. tabs' = <<>> <=> ToSet(tabs') = {}
  BY <1>1, NoElements
<1>3. active_target_id \in ToSet(tabs)
  BY DEF ActiveTabOpen, ToSet
<1>4. ASSUME tabs' # <<>> PROVE tabs'[1] \in ToSet(tabs')
  BY <1>1, <1>4, NoElements
<1>5. active_target_id' \in IF ToSet(tabs') = {} THEN {0} ELSE ToSet(tabs')
  BY <1>1, <1>2, <1>3, <1>4 DEF Erase, Fallback
<1>6. \/ UNCHANGED shutdown_started
      \/ ToSet(tabs') = {} /\ shutdown_started'
  BY <1>2 DEF Erase, RequestQuit, endVars
<1> QED
  BY <1>1, <1>2, <1>5, <1>6 DEF ActiveTabOpen

\* The GUI runtime's active tab is an open one, or there is none.
LEMMA ActiveTabStaysOpen ==
  ASSUME IInv, ActiveTabOpen, Next PROVE ActiveTabOpen'
<1>1. tabs \in Seq(1 .. MaxTabs)
  BY DEF IInv, TypeOK
<1>2. ASSUME NewTab, next_tab_id <= MaxTabs PROVE ActiveTabOpen'
  <2>1. next_tab_id \in 1 .. MaxTabs
    BY <1>2, MaxTabsAssumption DEF IInv, TypeOK
  <2>2. tabs' # <<>> /\ next_tab_id \in ToSet(tabs')
    <3>1. tabs' = Append(tabs, next_tab_id)
      BY <1>2 DEF NewTab
    <3> DEFINE S == 1 .. MaxTabs
    <3>2. tabs \in Seq(S) /\ next_tab_id \in S
      BY <1>1, <2>1
    <3> HIDE DEF S
    <3> QED
      BY <3>1, <3>2, AppendElements
  <2> QED
    BY <1>2, <2>2 DEF NewTab, ActiveTabOpen
<1>3. ASSUME UNCHANGED <<tabs, active_target_id>> PROVE ActiveTabOpen'
  BY <1>3 DEF ActiveTabOpen
<1>4. ASSUME tabs' = <<>>, active_target_id' = 0 PROVE ActiveTabOpen'
  BY <1>4 DEF ActiveTabOpen
<1>5. CASE Initialize
  <2>1. next_tab_id <= MaxTabs
    BY <1>5, MaxTabsAssumption DEF IInv, NothingYet, Initialize
  <2> QED
    BY <1>2, <1>3, <1>5, <2>1 DEF Initialize, NoTab, tabVars
<1>6. CASE CreateTab
  BY <1>2, <1>3, <1>6 DEF CreateTab, NoTab, tabVars
<1>7. ASSUME NEW target \in 0 .. MaxTabs, CloseTab(target) PROVE ActiveTabOpen'
  BY <1>7, EraseLeavesActive DEF CloseTab
<1>8. ASSUME NEW id \in 1 .. MaxTabs, OnWindowCloseRequested(id) PROVE ActiveTabOpen'
  BY <1>3, <1>8 DEF OnWindowCloseRequested
<1>9. CASE RemoveClosedWindow
  BY <1>3, <1>9, EraseLeavesActive DEF RemoveClosedWindow, tabVars
<1>10. CASE Shutdown
  BY <1>3, <1>4, <1>10 DEF Shutdown, tabVars
<1>11. CASE Destroy
  BY <1>4, <1>11 DEF Destroy
<1> QED
  BY <1>5, <1>6, <1>7, <1>8, <1>9, <1>10, <1>11 DEF Next

\* The steps of the GUI runtime.
LEMMA GuiKeeps ==
  ASSUME RuntimeInv, UNCHANGED launch, GuiStep PROVE RuntimeInv'
<1>0. OfGui(Next)
  BY GuiStepIsNext
<1> USE <1>0 DEF OfGui
<1>1. IInv'
  BY NextKeeps DEF RuntimeInv
<1>2. /\ launch'.runtime = "gui"
      /\ UNCHANGED <<headlessVars, nativeVars, freed_used>>
      /\ phase' # "new"
  BY DEF Next, Initialize, CreateTab, CloseTab, OnWindowCloseRequested,
         RemoveClosedWindow, Shutdown, Destroy
<1>3. ActiveTabOpen'
  BY ActiveTabStaysOpen DEF RuntimeInv, ActiveIsOpen
<1> HIDE <1>0 DEF OfGui
<1>4. OnlyItsRuntime'
  BY <1>2 DEF RuntimeInv, OnlyItsRuntime, headlessVars, nativeVars
<1>5. TargetIds'
  BY <1>2 DEF RuntimeInv, TargetIds, headlessVars, nativeVars
<1>6. ActiveIsOpen'
  BY <1>2, <1>3 DEF RuntimeInv, ActiveIsOpen, FrontOpen, nativeVars
<1>7. KeepAlives'
  BY <1>2 DEF RuntimeInv, KeepAlives, nativeVars
<1> QED
  BY <1>1, <1>2, <1>4, <1>5, <1>6, <1>7 DEF RuntimeInv, NothingBefore

\* A step that leaves the tabs of the GUI runtime alone keeps what is said of
\* them, in a process that has another runtime.
LEMMA NoGuiKeeps ==
  ASSUME RuntimeInv, UNCHANGED <<launch, guiVars>>,
         phase' = phase \/ (launch.runtime # "gui" /\ phase' \in {"up", "failed", "gone"})
  PROVE  IInv' /\ ActiveTabOpen'
<1> USE DEF guiVars, tabVars, endVars
<1>1. TypeOK'
  BY DEF RuntimeInv, IInv, TypeOK
<1>2. IdsGivenOnce' /\ PostedNamesTheAsker' /\ QuitsOnce'
  BY DEF RuntimeInv, IInv, IdsGivenOnce, Ids, PostedNamesTheAsker, QuitsOnce
<1>3. NothingYet'
  BY DEF RuntimeInv, IInv, NothingYet
<1>4. ZeroTabsAsConfigured'
  BY DEF RuntimeInv, IInv, ZeroTabsAsConfigured, OnlyItsRuntime
<1> QED
  BY <1>1, <1>2, <1>3, <1>4 DEF RuntimeInv, ActiveIsOpen, ActiveTabOpen, IInv

\* The steps of the headless runtime.
LEMMA HeadlessKeeps ==
  ASSUME RuntimeInv, UNCHANGED launch, HeadlessStep PROVE RuntimeInv'
<1>1. /\ launch.runtime = "headless" /\ UNCHANGED <<guiVars, nativeVars>>
      /\ phase' # "new"
      /\ phase' = phase \/ phase' \in {"up", "failed", "gone"}
  BY DEF HeadlessStep, Headless!Initialize
<1>2. IInv' /\ ActiveTabOpen'
  BY <1>1, NoGuiKeeps
<1>3. OnlyItsRuntime'
  BY <1>1 DEF RuntimeInv, OnlyItsRuntime, guiVars, tabVars, endVars, nativeVars
<1>4. contents' \subseteq 1 .. MaxPages /\ active_web_contents' \in 0 .. MaxPages
  <2>1. MaxPages \in Nat \ {0}
    BY ProcessAssumption
  <2>2. contents \subseteq 1 .. MaxPages /\ active_web_contents \in 0 .. MaxPages
    BY DEF RuntimeInv, TargetIds
  <2>3. CASE Headless!Initialize
    BY <2>1, <2>2, <2>3 DEF Headless!Initialize, Headless!BrowserShutdown
  <2>4. CASE UNCHANGED headlessVars
    BY <2>2, <2>4 DEF headlessVars
  <2>5. CASE Headless!CreateTab
    <3>1. CASE UNCHANGED Headless!vars
      BY <2>2, <3>1 DEF Headless!vars
    <3>2. ASSUME NEW page \in 1 .. MaxPages, contents' = contents \cup {page},
                 active_web_contents' = page
          PROVE  contents' \subseteq 1 .. MaxPages /\ active_web_contents' \in 0 .. MaxPages
      BY <2>1, <2>2, <3>2
    <3> QED
      BY <2>5, <3>1, <3>2 DEF Headless!CreateTab
  <2>6. ASSUME NEW target \in Nat, Headless!CloseTab(target)
        PROVE  contents' \subseteq 1 .. MaxPages /\ active_web_contents' \in 0 .. MaxPages
    <3>1. \/ contents' = {} /\ active_web_contents' = 0
          \/ contents' \subseteq contents /\ active_web_contents' \in contents
      BY <2>6 DEF Headless!CloseTab, Headless!Fallbacks, Headless!BrowserShutdown
    <3>2. 1 .. MaxPages \subseteq 0 .. MaxPages /\ 0 \in 0 .. MaxPages
      BY <2>1
    <3> QED
      BY <2>2, <3>1, <3>2, Zenon
  <2>7. CASE Headless!Shutdown \/ Headless!PageOpensTab \/ Headless!PageClosesItself
    BY <2>1, <2>2, <2>7 DEF Headless!Shutdown, Headless!BrowserShutdown,
                            Headless!PageOpensTab, Headless!PageClosesItself
  <2> QED
    BY <2>3, <2>4, <2>5, <2>6, <2>7 DEF HeadlessStep
<1>5. TargetIds'
  BY <1>1, <1>4 DEF RuntimeInv, TargetIds, nativeVars
<1>6. ActiveIsOpen'
  BY <1>1, <1>2 DEF RuntimeInv, ActiveIsOpen, FrontOpen, nativeVars
<1>7. KeepAlives'
  BY <1>1 DEF RuntimeInv, KeepAlives, nativeVars
<1> QED
  BY <1>1, <1>2, <1>3, <1>5, <1>6, <1>7 DEF RuntimeInv, NothingBefore

\* A tab comes to Chrome.
LEMMA AddKeeps ==
  ASSUME RuntimeInv, NEW fronts \in SUBSET (strips \cup {next_session_id}),
         Native!Add(fronts)
  PROVE  /\ next_session_id' \in 1 .. MaxPages + 1
         /\ strips' \subseteq 1 .. next_session_id' - 1
         /\ next_session_id \notin strips /\ next_session_id \in 1 .. MaxPages
         /\ strips' = strips \cup {next_session_id} /\ front' \in fronts
         /\ FrontOpen'
<1>1. MaxPages \in Nat \ {0}
  BY ProcessAssumption
<1>2. /\ next_session_id \in 1 .. MaxPages
      /\ strips \subseteq 1 .. next_session_id - 1
      /\ next_session_id' = next_session_id + 1
      /\ strips' = strips \cup {next_session_id}
      /\ front' \in fronts
  BY <1>1 DEF RuntimeInv, TargetIds, Native!Add
<1>3. next_session_id' \in 1 .. MaxPages + 1 /\ next_session_id \notin strips
  BY <1>1, <1>2
<1>4. strips' \subseteq 1 .. next_session_id' - 1
  BY <1>1, <1>2
<1>5. FrontOpen'
  BY <1>2 DEF FrontOpen
<1> QED
  BY <1>2, <1>3, <1>4, <1>5

\* A tab of Chrome's goes.
LEMMA DropKeeps ==
  ASSUME RuntimeInv, NEW t \in strips, Native!Drop(t)
  PROVE  /\ UNCHANGED next_session_id
         /\ strips' = strips \ {t}
         /\ front' \in IF strips' = {} THEN {0} ELSE strips'
         /\ FrontOpen'
<1>1. front \in strips
  BY DEF RuntimeInv, ActiveIsOpen, FrontOpen
<1>2. UNCHANGED next_session_id /\ strips' = strips \ {t}
  BY DEF Native!Drop
<1>3. front' \in IF strips' = {} THEN {0} ELSE strips'
  BY <1>1, <1>2 DEF Native!Drop
<1> QED
  BY <1>2, <1>3 DEF FrontOpen

\* A call of Chrome's runtime takes hold of Chrome, unless it quits already.
LEMMA EnsureKeeps ==
  ASSUME KeepAlives, NothingBefore, phase \in {"new", "up"}, Native!EnsureKeepAlive,
         UNCHANGED <<launch, Native!quitVars>>
  PROVE  KeepAlives'
<1>1. UNCHANGED <<registry_shutting_down, closing_all, told_to_quit>>
  BY DEF Native!quitVars
<1>2. registry_shutting_down' \/ closing_all' => told_to_quit'
  BY <1>1 DEF KeepAlives
<1>3. CASE registry_shutting_down
  <2>1. told_to_quit /\ UNCHANGED <<keep_alive, profile_keep_alive>>
        /\ called_after' = (called_after \/ FALSE)
    BY <1>3 DEF KeepAlives, Native!EnsureKeepAlive, Native!keepVars
  <2> QED
    BY <1>1, <1>2, <2>1 DEF KeepAlives
<1>4. CASE ~registry_shutting_down
  <2>1. keep_alive' /\ (told_to_quit => called_after')
    BY <1>4 DEF Native!EnsureKeepAlive
  <2> QED
    BY <1>1, <1>2, <2>1 DEF KeepAlives
<1> QED
  BY <1>3, <1>4

\* What a step of Chrome's does to its tabs: nothing, or one comes, or one goes, or
\* another one is brought to the front.
TabsMove ==
  \/ UNCHANGED <<strips, front>>
  \/ /\ ~(next_session_id \in strips) /\ next_session_id \in 1 .. MaxPages
     /\ strips' = strips \cup {next_session_id}
     /\ front' \in {next_session_id} \cup (strips \cap {front})
  \/ \E t \in strips : /\ strips' = strips \ {t}
                       /\ front' \in IF strips' = {} THEN {0} ELSE strips'
  \/ UNCHANGED strips /\ front' \in strips

LEMMA NativeTabsKeep ==
  ASSUME RuntimeInv, NativeStep
  PROVE  /\ next_session_id' \in 1 .. MaxPages + 1
         /\ strips' \subseteq 1 .. next_session_id' - 1
         /\ FrontOpen'
         /\ TabsMove
<1> DEFINE Kept == /\ next_session_id' \in 1 .. MaxPages + 1
                   /\ strips' \subseteq 1 .. next_session_id' - 1
                   /\ FrontOpen'
                   /\ TabsMove
<1> SUFFICES Kept
  OBVIOUS
<1>1. ASSUME UNCHANGED Native!tabVars PROVE Kept
  BY <1>1 DEF Native!tabVars, RuntimeInv, TargetIds, ActiveIsOpen, FrontOpen, TabsMove
<1>2. ASSUME NEW fronts \in SUBSET ({next_session_id} \cup (strips \cap {front})),
             Native!Add(fronts)
      PROVE  Kept
  BY <1>2, AddKeeps DEF NativeStep, TabsMove
<1>3. ASSUME NEW t \in strips, Native!Drop(t) PROVE Kept
  <2>1. t \in strips /\ strips' \subseteq strips
    BY <1>3, DropKeeps
  <2> QED
    BY <1>3, <2>1, DropKeeps DEF RuntimeInv, TargetIds, TabsMove
<1> HIDE DEF Kept
<1>4. CASE Native!Start
  <2>1. next_session_id = 1
    BY <1>4 DEF Native!Start, RuntimeInv, NothingBefore
  <2> QED
    BY <1>1, <1>2, <1>4, <2>1 DEF Native!Start
<1>5. CASE Native!Lookup \/ Native!Shutdown
  BY <1>1, <1>5 DEF Native!Lookup, Native!Shutdown
<1>6. CASE Native!CreateTab
  BY <1>1, <1>2, <1>6 DEF Native!CreateTab
<1>7. ASSUME NEW target \in Nat, Native!CloseTab(target) PROVE Kept
  BY <1>1, <1>3, <1>7 DEF Native!CloseTab, Native!Located
<1>8. CASE Native!Environment
  <2>1. CASE Native!UserOpensTab
    BY <1>2, <2>1 DEF Native!UserOpensTab
  <2>2. CASE Native!UserSelectsTab
    BY <2>2 DEF Native!UserSelectsTab, Kept, RuntimeInv, TargetIds, FrontOpen, TabsMove
  <2>3. CASE Native!TabCloses
    BY <1>3, <2>3 DEF Native!TabCloses
  <2>4. CASE Native!UserStays \/ Native!ChromeQuits
    BY <1>1, <2>4 DEF Native!UserStays, Native!ChromeQuits
  <2> QED
    BY <1>8, <2>1, <2>2, <2>3, <2>4 DEF Native!Environment
<1> QED
  BY <1>4, <1>5, <1>6, <1>7, <1>8 DEF NativeStep

\* The keep-alives over the steps of Chrome's runtime.
LEMMA KeepAlivesKeep ==
  ASSUME RuntimeInv, UNCHANGED launch, NativeStep PROVE KeepAlives'
<1>0. KeepAlives /\ NothingBefore
  BY DEF RuntimeInv
<1>1. CASE Native!Start
  BY <1>0, <1>1, EnsureKeeps DEF Native!Start
<1>2. CASE phase = "up" /\ (Native!Lookup \/ Native!CreateTab)
  BY <1>0, <1>2, EnsureKeeps DEF Native!Lookup, Native!CreateTab
<1>3. ASSUME NEW target \in Nat, phase = "up", Native!CloseTab(target) PROVE KeepAlives'
  BY <1>0, <1>3, EnsureKeeps DEF Native!CloseTab
<1>4. CASE Native!Shutdown
  BY <1>0, <1>4 DEF Native!Shutdown, KeepAlives
<1>5. CASE phase = "up" /\ UNCHANGED phase /\ Native!Environment
  <2>1. UNCHANGED <<Native!keepVars, told_to_quit, called_after>>
    BY <1>5 DEF Native!Environment, Native!UserOpensTab, Native!UserSelectsTab,
                Native!TabCloses, Native!UserStays, Native!ChromeQuits, Native!quitVars
  <2>2. registry_shutting_down' => registry_shutting_down \/ ~keep_alive
    BY <1>5 DEF Native!Environment, Native!UserOpensTab, Native!UserSelectsTab,
                Native!TabCloses, Native!UserStays, Native!ChromeQuits, Native!quitVars
  <2>3. launch.runtime = "native"
    BY DEF NativeStep
  <2>4. closing_all' => closing_all
    BY <1>5 DEF Native!Environment, Native!UserOpensTab, Native!UserSelectsTab,
                Native!TabCloses, Native!UserStays, Native!ChromeQuits, Native!quitVars
  <2> QED
    BY <1>0, <1>5, <2>1, <2>2, <2>3, <2>4 DEF KeepAlives, Native!keepVars
<1> QED
  BY <1>1, <1>2, <1>3, <1>4, <1>5 DEF NativeStep

\* The steps of Chrome's runtime.
LEMMA NativeKeeps ==
  ASSUME RuntimeInv, UNCHANGED launch, NativeStep PROVE RuntimeInv'
<1>1. /\ launch.runtime = "native" /\ UNCHANGED <<guiVars, headlessVars, freed_used>>
      /\ phase' = "up"
  BY DEF NativeStep, Native!Start
<1>2. IInv' /\ ActiveTabOpen'
  BY <1>1, NoGuiKeeps
<1>3. OnlyItsRuntime'
  BY <1>1 DEF RuntimeInv, OnlyItsRuntime, guiVars, tabVars, endVars, headlessVars
<1>4. TargetIds'
  BY <1>1, NativeTabsKeep DEF RuntimeInv, TargetIds, headlessVars
<1>5. ActiveIsOpen'
  BY <1>2, NativeTabsKeep DEF ActiveIsOpen
<1> QED
  BY <1>1, <1>2, <1>3, <1>4, <1>5, KeepAlivesKeep DEF RuntimeInv, NothingBefore

\* The steps that no runtime has a part in.
LEMMA NoRuntimeKeeps ==
  ASSUME RuntimeInv, UNCHANGED launch, NoRuntimeStep PROVE RuntimeInv'
<1>1. /\ UNCHANGED <<guiVars, headlessVars, nativeVars, freed_used>>
      /\ phase' = phase \/ (launch.runtime # "gui" /\ phase' = "gone")
      /\ phase' = "new" => phase = "new" /\ UNCHANGED observerVars
  BY DEF NoRuntimeStep
<1>2. IInv' /\ ActiveTabOpen'
  BY <1>1, NoGuiKeeps
<1>3. OnlyItsRuntime'
  BY <1>1 DEF RuntimeInv, OnlyItsRuntime, guiVars, tabVars, endVars, headlessVars, nativeVars
<1>4. TargetIds' /\ ActiveIsOpen'
  BY <1>1, <1>2 DEF RuntimeInv, TargetIds, ActiveIsOpen, FrontOpen, headlessVars, nativeVars
<1>5. KeepAlives'
  BY <1>1 DEF RuntimeInv, KeepAlives, nativeVars
<1>6. NothingBefore'
  BY <1>1 DEF RuntimeInv, NothingBefore, guiVars, endVars, headlessVars, nativeVars,
              observerVars
<1> QED
  BY <1>2, <1>3, <1>4, <1>5, <1>6 DEF RuntimeInv

\* Whatever a process does next.
LEMMA RuntimeKept ==
  ASSUME RuntimeInv, Started, [ProcessNext]_processVars PROVE RuntimeInv'
BY StepOfOneRuntime, GuiKeeps, HeadlessKeeps, NativeKeeps, NoRuntimeKeeps DEF RuntimeStep

-----------------------------------------------------------------------------
(* The transports.                                                         *)

\* What the other process does at the path is no step of this one.
LEMMA OtherLeaves ==
  ASSUME SocketTypeOK, SocketStep(Other) PROVE at'[This] = at[This]
<1>1. \E step : at' = [at EXCEPT ![Other] = step]
  BY DEF SocketStep, StartStep, BeginStart, RefusePath, Inspect, Probe, UnlinkStale,
         Bind, Listen, UndoBind, CloseListener, UnlinkBound, Die, Goes
<1> QED
  BY <1>1, ProcessAssumption DEF SocketTypeOK

\* The steps of main up to the transports.
LEMMA StartKeepsStarted ==
  ASSUME Started, NoHalfStartedProcess, StartRuntime \/ StartHttpTransport
  PROVE  Started' /\ NoHalfStartedProcess'
<1>1. CASE StartRuntime
  <2>1. /\ UNCHANGED <<launch, http_up, at>>
        /\ at[This] = "off" /\ ~http_up
        /\ launch \in AllLaunches
    BY <1>1 DEF StartRuntime, transportVars, socketVars, Started
  <2>2. \/ /\ phase' = "up"
           /\ \/ stage' = "serving" /\ launch.embedded
              \/ stage' = "died"
              \/ stage' = "http" /\ launch.http # "bad" /\ launch.ipc # "bad"
        \/ stage' = "leaving"
    BY <1>1 DEF StartRuntime
  <2>3. launch.embedded => launch.http = "off" /\ launch.ipc = "off"
    BY <2>1 DEF AllLaunches
  <2> QED
    BY <2>1, <2>2, <2>3 DEF Started, NoHalfStartedProcess
<1>2. CASE StartHttpTransport
  BY <1>2 DEF StartHttpTransport, Started, NoHalfStartedProcess, runtimeVars, socketVars
<1> QED
  BY <1>1, <1>2

\* The start of the IPC transport, up to its end.
LEMMA IPCKeepsStarted ==
  ASSUME Started, NoHalfStartedProcess, StartIPCTransport
  PROVE  Started' /\ NoHalfStartedProcess'
<1>1. /\ stage = "ipc" /\ phase = "up" /\ UNCHANGED <<launch, http_up, phase>>
      /\ launch \in AllLaunches
      /\ launch.http # "bad" /\ launch.ipc # "bad"
      /\ launch.http = IF http_up THEN "ok" ELSE "off"
      /\ launch.ipc = "off" => at[This] = "off"
  BY DEF StartIPCTransport, Started, runtimeVars
<1>2. launch.ipc \in {"off", "ok"}
  BY <1>1 DEF AllLaunches
<1>3. ASSUME UNCHANGED stage, launch.ipc = "ok"
      PROVE  Started' /\ NoHalfStartedProcess'
  BY <1>1, <1>3 DEF Started, NoHalfStartedProcess
<1>4. CASE StartStep(This) /\ UNCHANGED stage
  <2>1. at[This] # "off"
    BY <1>4 DEF StartStep, Inspect, Probe, UnlinkStale, Bind, Listen, UndoBind
  <2> QED
    BY <1>1, <1>2, <1>3, <1>4, <2>1
<1>5. CASE IPCStarted
  <2>1. \/ stage' = "serving" /\ UNCHANGED at /\ (launch.ipc = "off" \/ at[This] = "up")
        \/ stage' = "died"
    BY <1>5 DEF IPCStarted, socketVars
  <2> QED
    BY <1>1, <1>2, <2>1 DEF Started, NoHalfStartedProcess
<1> QED
  BY <1>3, <1>4, <1>5 DEF StartIPCTransport

\* While it serves and when it ends a process starts no transport.
LEMMA StartedKept ==
  ASSUME Started, NoHalfStartedProcess, SocketTypeOK, [ProcessNext]_processVars
  PROVE  Started' /\ NoHalfStartedProcess'
<1>1. ASSUME UNCHANGED <<launch, phase, stage, http_up>>, at'[This] = at[This]
      PROVE  Started' /\ NoHalfStartedProcess'
  BY <1>1 DEF Started, NoHalfStartedProcess
<1>2. ASSUME UNCHANGED launch, stage' \in {"leaving", "joining", "exited", "died"}
      PROVE  Started' /\ NoHalfStartedProcess'
  BY <1>2 DEF Started, NoHalfStartedProcess
<1> USE DEF transportVars, socketVars, runtimeVars
<1>3. CASE ListTabs \/ OpenTab \/ (\E target \in 0 .. MaxTabs : DropTab(target))
           \/ ResizeActive
  <2>1. UNCHANGED <<launch, phase, http_up, at>> /\ stage' \in {stage, "died"}
    BY <1>3 DEF ListTabs, OpenTab, DropTab, ResizeActive, Calling, Refreshed
  <2> QED
    BY <1>1, <1>2, <2>1
<1>4. CASE ShutdownCall \/ PagesAndUser \/ OnTransportClosed
  BY <1>1, <1>4 DEF ShutdownCall, PagesAndUser, OnTransportClosed, Calling
<1>5. CASE StdinEnds
  BY <1>1, <1>5 DEF StdinEnds
<1>6. CASE LoopEnds \/ StopHttpTransport \/ Exit \/ Killed
  BY <1>2, <1>6 DEF LoopEnds, StopHttpTransport, Exit, Killed
<1>7. CASE StopIPCTransport
  BY <1>2, <1>7 DEF StopIPCTransport
<1>8. CASE OtherProcess
  BY <1>1, <1>8, OtherLeaves DEF OtherProcess
<1>9. CASE UNCHANGED processVars
  BY <1>1, <1>9 DEF processVars
<1> QED
  BY <1>3, <1>4, <1>5, <1>6, <1>7, <1>8, <1>9, StartKeepsStarted, IPCKeepsStarted
  DEF ProcessNext

-----------------------------------------------------------------------------
(* The observers.                                                          *)

\* A refresh that reads no freed memory puts the observers on open pages.
LEMMA RefreshFollows ==
  ASSUME ActiveIsOpen', launch' \in AllLaunches, Refresh, ~RefreshReadsFreed'
  PROVE  ObserversFollowPages'
<1>1. ActiveTab' \in OpenTabs' \cup {0}
  <2>1. CASE launch'.runtime = "gui"
    <3>1. active_target_id' \in ToSet(tabs') \cup {0}
      BY DEF ActiveIsOpen, ActiveTabOpen
    <3> QED
      BY <2>1, <3>1 DEF ActiveTab, OpenTabs
  <2>2. CASE launch'.runtime = "headless"
    BY <2>2 DEF RefreshReadsFreed, Headless!ActiveFreed, ActiveTab, OpenTabs
  <2>3. CASE launch'.runtime = "native"
    <3>1. front' \in strips' \cup {0}
      BY DEF ActiveIsOpen, FrontOpen
    <3> QED
      BY <2>3, <3>1 DEF ActiveTab, OpenTabs
  <2> QED
    BY <2>1, <2>2, <2>3 DEF AllLaunches
<1> QED
  BY <1>1 DEF Refresh, ObserversFollowPages

\* When pages are gone, whoever closed them, so are the observers on them.
LEMMA ForgetFollows ==
  ASSUME ObserversFollowPages, freed_used => freed_used', ForgetPages
  PROVE  ObserversFollowPages'
BY DEF ForgetPages, ObserversFollowPages

\* The steps that do not touch the runtime.
LEMMA SameRuntimeFollows ==
  ASSUME ObserversFollowPages, UNCHANGED <<launch, runtimeVars>>
  PROVE  ObserversFollowPages'
<1>1. UNCHANGED <<OpenTabs, observed, simulated, freed_used>>
  BY DEF runtimeVars, guiVars, tabVars, headlessVars, nativeVars, observerVars, OpenTabs
<1> QED
  BY <1>1 DEF ObserversFollowPages

\* Making the runtime, which ends with a refresh.
LEMMA StartFollows ==
  ASSUME RuntimeInv, RuntimeInv', Started, StartRuntime
  PROVE  ObserversFollowPages'
<1>1. launch' \in AllLaunches /\ phase = "new"
  BY DEF Started, StartRuntime
<1>2. CASE phase' = "up"
  <2>1. ~RefreshReadsFreed'
    <3>1. launch'.runtime = "headless" => Headless!Initialize
      BY DEF StartRuntime, OfGui, OfNative, OfHeadless
    <3>2. launch'.runtime = "headless" =>
            context' = "live" /\ active_web_contents' \in contents'
      BY <1>2, <3>1 DEF Headless!Initialize
    <3> QED
      BY <3>2 DEF RefreshReadsFreed, Headless!ContextFreed, Headless!ActiveFreed
  <2> QED
    BY <1>1, <1>2, <2>1, RefreshFollows DEF StartRuntime, RuntimeInv
<1>3. CASE phase' # "up"
  BY <1>1, <1>3 DEF StartRuntime, observerVars, RuntimeInv, NothingBefore,
                    ObserversFollowPages
<1> QED
  BY <1>2, <1>3

\* The operations that a tool calls.
LEMMA CallFollows ==
  ASSUME RuntimeInv', Started, ObserversFollowPages,
         ListTabs \/ OpenTab \/ (\E target \in 0 .. MaxTabs : DropTab(target)) \/ ResizeActive
  PROVE  ObserversFollowPages'
<1>1. launch \in AllLaunches /\ UNCHANGED launch
  BY DEF Started, ListTabs, OpenTab, DropTab, ResizeActive, Calling
<1>2. ASSUME Refreshed,
             launch.runtime = "headless" /\ RefreshReadsFreed' => freed_used'
      PROVE  ObserversFollowPages'
  <2>1. CASE RefreshReadsFreed'
    <3>1. freed_used'
      BY <1>1, <1>2, <2>1 DEF RefreshReadsFreed
    <3> QED
      BY <3>1 DEF ObserversFollowPages
  <2>2. CASE ~RefreshReadsFreed'
    BY <1>1, <1>2, <2>2, RefreshFollows DEF Refreshed, RuntimeInv
  <2> QED
    BY <2>1, <2>2
<1>3. CASE ListTabs
  BY <1>2, <1>3 DEF ListTabs, OfGui, OfNative, OfHeadlessThenRefresh
<1>4. CASE OpenTab
  BY <1>2, <1>4 DEF OpenTab, OfGui, OfNative, OfHeadlessThenRefresh
<1>5. ASSUME NEW target \in 0 .. MaxTabs, DropTab(target) PROVE ObserversFollowPages'
  BY <1>2, <1>5 DEF DropTab, OfGui, OfNative, OfHeadlessThenRefresh
<1>6. CASE ResizeActive
  <2>1. \/ /\ launch.runtime = "native"
           /\ UNCHANGED strips /\ UNCHANGED freed_used
        \/ /\ launch.runtime = "headless"
           /\ UNCHANGED contents /\ (freed_used => freed_used')
    BY <1>6 DEF ResizeActive, OfNative, OfHeadless, Native!ResizeActive,
          Native!Lookup, Native!tabVars, headlessVars
  <2>2. UNCHANGED OpenTabs /\ (freed_used => freed_used')
    BY <1>1, <2>1 DEF OpenTabs
  <2>3. UNCHANGED <<observed, simulated>>
    BY <1>6 DEF ResizeActive, observerVars
  <2> QED
    BY <2>2, <2>3 DEF ObserversFollowPages
<1> QED
  BY <1>3, <1>4, <1>5, <1>6

\* Whatever a process does next.
LEMMA ObserversKept ==
  ASSUME RuntimeInv, RuntimeInv', Started, ObserversFollowPages, [ProcessNext]_processVars
  PROVE  ObserversFollowPages'
<1>0. freed_used => freed_used'
  BY StepOfOneRuntime DEF RuntimeStep, GuiStep, OfGui, HeadlessStep, NativeStep, NoRuntimeStep
<1>1. CASE StartRuntime
  BY <1>1, StartFollows
<1>2. CASE ListTabs \/ OpenTab \/ (\E target \in 0 .. MaxTabs : DropTab(target))
           \/ ResizeActive
  BY <1>2, CallFollows
<1>3. ASSUME ShutDown PROVE ObserversFollowPages'
  BY <1>0, <1>3, ForgetFollows DEF ShutDown
<1>4. CASE ShutdownCall
  BY <1>3, <1>4 DEF ShutdownCall
<1>5. CASE PagesAndUser
  BY <1>0, <1>5, ForgetFollows DEF PagesAndUser
<1>6. CASE OnTransportClosed
  <2>1. CASE UNCHANGED <<guiVars, headlessVars, nativeVars, observerVars, freed_used>>
    <3>1. UNCHANGED <<launch, runtimeVars>>
      BY <1>6, <2>1 DEF OnTransportClosed, Calling, runtimeVars
    <3> QED
      BY <3>1, SameRuntimeFollows
  <2> QED
    BY <1>3, <1>6, <2>1 DEF OnTransportClosed
<1>7. CASE Exit
  <2>1. CASE observed' = {} /\ simulated' = 0
    BY <2>1 DEF ObserversFollowPages
  <2> QED
    BY <1>7, <2>1, SameRuntimeFollows DEF Exit
<1>8. CASE StartHttpTransport \/ StartIPCTransport \/ StdinEnds \/ LoopEnds
  BY <1>8, SameRuntimeFollows DEF StartHttpTransport, StartIPCTransport, StdinEnds, LoopEnds
<1>9. CASE StopIPCTransport \/ StopHttpTransport \/ Killed \/ OtherProcess
  BY <1>9, SameRuntimeFollows DEF StopIPCTransport, StopHttpTransport, Killed, OtherProcess
<1>10. CASE UNCHANGED processVars
  BY <1>10, SameRuntimeFollows DEF processVars
<1> QED
  BY <1>1, <1>2, <1>4, <1>5, <1>6, <1>7, <1>8, <1>9, <1>10 DEF ProcessNext

-----------------------------------------------------------------------------
(* Theorems.                                                               *)

\* The calls that the IPC thread and ~IpcTransport of this process make on the
\* path, and all that another process makes, are those of SocketPath: what holds
\* of processes sharing a path holds of this one, whatever else it does.
THEOREM SocketSteps == ProcessSpec => SocketSpec
<1>1. ProcessInit => SocketInit
  BY DEF ProcessInit
<1> QED
  BY <1>1, SocketSide, PTL DEF ProcessSpec, SocketSpec

\* The invariant of the process holds of every state main can come to.
THEOREM ProcessInductive == ProcessSpec => []ProcessInv
<1>1. ProcessInit => ProcessInv
  BY ProcessInitInv, PathInit
     DEF ProcessInit, ProcessInv, PathInv, NoHalfStartedProcess, ObserversFollowPages
<1>2. ASSUME ProcessInv, [ProcessNext]_processVars, SocketTypeOK' PROVE ProcessInv'
  <2>1. RuntimeInv'
    BY <1>2, RuntimeKept DEF ProcessInv
  <2>2. Started' /\ NoHalfStartedProcess'
    BY <1>2, StartedKept DEF ProcessInv
  <2>3. ObserversFollowPages'
    BY <1>2, <2>1, ObserversKept DEF ProcessInv
  <2> QED
    BY <1>2, <2>1, <2>2, <2>3 DEF ProcessInv
<1>3. ProcessSpec => []SocketTypeOK
  <2>1. PathInv => SocketTypeOK
    BY DEF PathInv
  <2> QED
    BY <2>1, SocketSteps, PathInductive, PTL
<1> QED
  BY <1>1, <1>2, <1>3, PTL DEF ProcessSpec

\* App::Start serves every transport it was told to or ends the process, whatever
\* becomes of the port and of the socket meanwhile.
THEOREM StartsWhole == ProcessSpec => []NoHalfStartedProcess
<1>1. ProcessInv => NoHalfStartedProcess
  BY DEF ProcessInv
<1> QED
  BY <1>1, ProcessInductive, PTL

\* NativeChromeRuntime holds what keeps Chrome running from its start to its
\* Shutdown, and nothing afterwards, for any number of tabs and calls.
THEOREM KeptAlive == ProcessSpec => []KeptAliveUntilShutdown
<1>1. ProcessInv => KeptAliveUntilShutdown
  BY DEF ProcessInv, RuntimeInv, KeepAlives, Started, KeptAliveUntilShutdown
<1> QED
  BY <1>1, ProcessInductive, PTL

\* RefreshSharedRuntimeBehavior and WebContentsDestroyed leave no observer without
\* its page, for any number of pages, as long as no freed memory was read.
THEOREM ObserversOnPages == ProcessSpec => []ObserversFollowPages
<1>1. ProcessInv => ObserversFollowPages
  BY DEF ProcessInv
<1> QED
  BY <1>1, ProcessInductive, PTL

\* What SocketPath says of the path holds in a process that serves MCP while
\* another one starts, stops and crashes at the same path.
THEOREM ProcessPathIsExact == ProcessSpec => []PathNamesItsServer
BY SocketSteps, PathIsExact, PTL

\* What GuiRuntime promises alone it keeps inside an embedded session, where the
\* host's calls, the user and the end of the session interleave.
THEOREM GuiPromisesKept ==
  ProcessSpec => [](PostedNamesTheAsker /\ ZeroTabsAsConfigured /\ QuitsOnce)
<1>1. ProcessInv => PostedNamesTheAsker /\ ZeroTabsAsConfigured /\ QuitsOnce
  BY DEF ProcessInv, RuntimeInv, IInv
<1> QED
  BY <1>1, ProcessInductive, PTL

-----------------------------------------------------------------------------
(* Each runtime keeps the promises of BrowserRuntime.                      *)

Allowed == [Interface!Next]_Interface!vars

\* The steps that BrowserRuntime allows, by what they do to the tabs.
LEMMA MayFail ==
  ASSUME call' \in {"none", "create", "close", "destroy"},
         UNCHANGED <<launch, OpenTabs, ActiveTab, QuitSeen>>
  PROVE  Allowed
BY DEF Allowed, Interface!Next, Interface!tabs, Interface!Create, Interface!Close,
       Interface!Destroy, Interface!Uncalled

LEMMA MayInitialize ==
  ASSUME call' = "initialize", OpenTabs = {}, QuitSeen = "no", UNCHANGED launch,
         \/ /\ \E t \in 1 .. MaxTabs + MaxPages : OpenTabs' = {t} /\ ActiveTab' = t
            /\ UNCHANGED QuitSeen
         \/ UNCHANGED <<OpenTabs, ActiveTab>> /\ QuitSeen' \in {"no", "certain"}
  PROVE  Allowed
BY DEF Allowed, Interface!Next, Interface!tabs, Interface!Initialize

LEMMA MayCreate ==
  ASSUME call' = "create", NEW t \in 1 .. MaxTabs + MaxPages, t \notin OpenTabs,
         OpenTabs' = OpenTabs \cup {t}, ActiveTab' = t,
         UNCHANGED <<launch, QuitSeen>>
  PROVE  Allowed
BY DEF Allowed, Interface!Next, Interface!Create

LEMMA MayClose ==
  ASSUME call' \in {"close", "none"},
         NEW t \in 1 .. MaxTabs + MaxPages, t \in OpenTabs, OpenTabs' = OpenTabs \ {t},
         ActiveTab' \in IF OpenTabs' = {} THEN {0} ELSE OpenTabs',
         UNCHANGED QuitSeen \/ (OpenTabs' = {} /\ QuitSeen' = "certain"),
         UNCHANGED launch
  PROVE  Allowed
<1>1. Interface!Closes(t)
  BY DEF Interface!Closes
<1> QED
  BY <1>1 DEF Allowed, Interface!Next, Interface!Close, Interface!Uncalled

LEMMA MayShutdown ==
  ASSUME call' = "shutdown", UNCHANGED launch,
         \/ /\ UNCHANGED <<OpenTabs, ActiveTab>>
            /\ QuitSeen' = IF QuitSeen = "certain" THEN "certain" ELSE "asked"
         \/ /\ OpenTabs' = {} /\ QuitSeen' = "certain"
            /\ ActiveTab' = 0 \/ (launch.runtime = "headless" /\ UNCHANGED ActiveTab)
  PROVE  Allowed
BY DEF Allowed, Interface!Next, Interface!tabs, Interface!Shutdown

LEMMA MayBeDestroyed ==
  ASSUME call' = "destroy", OpenTabs' = {}, ActiveTab' = 0,
         UNCHANGED <<launch, QuitSeen>>
  PROVE  Allowed
BY DEF Allowed, Interface!Next, Interface!Destroy

\* The steps that no call makes.
LEMMA MayAppear ==
  ASSUME call' = "none", NEW t \in 1 .. MaxTabs + MaxPages, t \notin OpenTabs,
         OpenTabs' = OpenTabs \cup {t}, ActiveTab' \in {ActiveTab, t},
         ActiveTab' = 0 => launch.runtime = "headless",
         UNCHANGED <<launch, QuitSeen>>
  PROVE  Allowed
BY DEF Allowed, Interface!Next, Interface!Uncalled, Interface!Appear

LEMMA MaySelect ==
  ASSUME call' = "none", NEW t \in 1 .. MaxTabs + MaxPages, t \in OpenTabs, ActiveTab' = t,
         UNCHANGED <<launch, OpenTabs, QuitSeen>>
  PROVE  Allowed
BY DEF Allowed, Interface!Next, Interface!Uncalled, Interface!Select

LEMMA MayVanish ==
  ASSUME call' = "none",
         NEW t \in 1 .. MaxTabs + MaxPages, t \in OpenTabs, OpenTabs' = OpenTabs \ {t},
         launch.runtime = "headless",
         UNCHANGED <<launch, ActiveTab, QuitSeen>>
  PROVE  Allowed
BY DEF Allowed, Interface!Next, Interface!Uncalled, Interface!Vanish

LEMMA MayStay ==
  ASSUME call' = "none", OpenTabs # {}, QuitSeen = "asked", QuitSeen' = "held",
         UNCHANGED <<launch, OpenTabs, ActiveTab>>
  PROVE  Allowed
BY DEF Allowed, Interface!Next, Interface!tabs, Interface!Uncalled, Interface!Stay

LEMMA MayLeave ==
  ASSUME call' = "none", OpenTabs = {}, QuitSeen \in {"asked", "held"},
         QuitSeen' = "certain", UNCHANGED <<launch, OpenTabs, ActiveTab>>
  PROVE  Allowed
BY DEF Allowed, Interface!Next, Interface!tabs, Interface!Uncalled, Interface!Leave

\* What the interface shows of the GUI runtime.
LEMMA SeenOfGui ==
  ASSUME RuntimeInv, launch.runtime = "gui", GuiStep, UNCHANGED launch
  PROVE  /\ OpenTabs = ToSet(tabs) /\ OpenTabs' = ToSet(tabs')
         /\ ActiveTab = active_target_id /\ ActiveTab' = active_target_id'
         /\ QuitSeen = IF shutdown_started THEN "certain" ELSE "no"
         /\ QuitSeen' = IF shutdown_started' THEN "certain" ELSE "no"
<1>1. OpenTabs = ToSet(tabs) /\ OpenTabs' = ToSet(tabs')
  BY DEF OpenTabs
<1>2. ActiveTab = active_target_id /\ ActiveTab' = active_target_id'
  BY DEF ActiveTab
<1>3. ~quit_posted /\ ~closing_all /\ ~registry_shutting_down /\ ~told_to_quit
  BY DEF RuntimeInv, OnlyItsRuntime
<1>4. UNCHANGED <<quit_posted, closing_all, registry_shutting_down, told_to_quit>>
  BY DEF GuiStep, headlessVars, nativeVars
<1> QED
  BY <1>1, <1>2, <1>3, <1>4 DEF QuitSeen, QuitPosted

\* The steps of the GUI runtime.
LEMMA GuiImplements ==
  ASSUME RuntimeInv, UNCHANGED launch, GuiStep PROVE Allowed
<1>1. IInv /\ ActiveTabOpen /\ launch.runtime = "gui" /\ Next
  BY GuiStepIsNext DEF RuntimeInv, ActiveIsOpen, OfGui
<1>2. /\ OpenTabs = ToSet(tabs) /\ OpenTabs' = ToSet(tabs')
      /\ ActiveTab = active_target_id /\ ActiveTab' = active_target_id'
      /\ QuitSeen = IF shutdown_started THEN "certain" ELSE "no"
      /\ QuitSeen' = IF shutdown_started' THEN "certain" ELSE "no"
  BY <1>1, SeenOfGui
<1>3. MaxTabs \in Nat \ {0} /\ MaxPages \in Nat \ {0}
  BY MaxTabsAssumption, ProcessAssumption
<1>4. ToSet(tabs) \subseteq 1 .. MaxTabs + MaxPages
  <2>1. ToSet(tabs) \subseteq 1 .. next_tab_id - 1 /\ next_tab_id \in 1 .. MaxTabs + 1
    BY <1>1 DEF IInv, IdsGivenOnce, Ids, TypeOK
  <2> QED
    BY <1>3, <2>1
<1>5. ASSUME NewTab, next_tab_id <= MaxTabs
      PROVE  \E t \in 1 .. MaxTabs + MaxPages :
               /\ t \notin OpenTabs /\ OpenTabs' = OpenTabs \cup {t} /\ ActiveTab' = t
  <2>1. /\ next_tab_id \in 1 .. MaxTabs /\ tabs \in Seq(1 .. MaxTabs)
        /\ ToSet(tabs) \subseteq 1 .. next_tab_id - 1
    BY <1>1, <1>3, <1>5 DEF IInv, IdsGivenOnce, Ids, TypeOK
  <2>2. next_tab_id \notin ToSet(tabs) /\ next_tab_id \in 1 .. MaxTabs + MaxPages
    BY <1>3, <2>1
  <2>3. ToSet(tabs') = ToSet(tabs) \cup {next_tab_id}
    <3>1. tabs' = Append(tabs, next_tab_id)
      BY <1>5 DEF NewTab
    <3> DEFINE S == 1 .. MaxTabs
    <3>2. tabs \in Seq(S) /\ next_tab_id \in S
      BY <2>1
    <3> HIDE DEF S
    <3> QED
      BY <3>1, <3>2, AppendElements
  <2>4. active_target_id' = next_tab_id
    BY <1>5 DEF NewTab
  <2> QED
    BY <1>2, <2>2, <2>3, <2>4
<1>6. ASSUME UNCHANGED <<tabs, active_target_id, shutdown_started>>
      PROVE  UNCHANGED <<OpenTabs, ActiveTab, QuitSeen>>
  BY <1>2, <1>6
<1>7. ASSUME NEW id \in ToSet(tabs), Erase(id), call' \in {"close", "none"} PROVE Allowed
  <2>1. /\ ToSet(tabs') = ToSet(tabs) \ {id}
        /\ active_target_id' \in IF ToSet(tabs') = {} THEN {0} ELSE ToSet(tabs')
        /\ \/ UNCHANGED shutdown_started
           \/ ToSet(tabs') = {} /\ shutdown_started'
    BY <1>1, <1>7, EraseLeavesActive
  <2>2. id \in 1 .. MaxTabs + MaxPages
    BY <1>4
  <2>3. UNCHANGED QuitSeen \/ (OpenTabs' = {} /\ QuitSeen' = "certain")
    BY <1>2, <2>1
  <2> QED
    BY <1>2, <1>7, <2>1, <2>2, <2>3, MayClose
<1>8. CASE call' = "initialize" /\ Initialize
  <2>1. next_tab_id <= MaxTabs /\ tabs = <<>> /\ ~shutdown_started
    BY <1>1, <1>3, <1>8 DEF IInv, NothingYet, RuntimeInv, NothingBefore, Initialize
  <2>2. OpenTabs = {} /\ QuitSeen = "no"
    BY <1>2, <2>1 DEF ToSet
  <2>3. UNCHANGED QuitSeen
    BY <1>2, <1>8 DEF Initialize, endVars
  <2>4. NewTab \/ UNCHANGED <<OpenTabs, ActiveTab>>
    BY <1>2, <1>8 DEF Initialize, NoTab, tabVars
  <2> QED
    BY <1>5, <1>8, <2>1, <2>2, <2>3, <2>4, MayInitialize
<1>9. CASE call' = "create" /\ CreateTab
  <2>1. UNCHANGED QuitSeen
    BY <1>2, <1>9 DEF CreateTab, endVars
  <2>2. NewTab \/ UNCHANGED <<OpenTabs, ActiveTab>>
    BY <1>2, <1>9 DEF CreateTab, NoTab, tabVars
  <2> QED
    BY <1>5, <1>9, <2>1, <2>2, MayCreate, MayFail DEF CreateTab
<1>10. ASSUME NEW target \in 0 .. MaxTabs, call' = "close", CloseTab(target) PROVE Allowed
  BY <1>7, <1>10 DEF CloseTab
<1>11. ASSUME NEW id \in 1 .. MaxTabs, call' = "none", OnWindowCloseRequested(id)
       PROVE  Allowed
  BY <1>6, <1>11, MayFail DEF OnWindowCloseRequested, endVars
<1>12. CASE call' = "none" /\ RemoveClosedWindow
  BY <1>6, <1>7, <1>12, MayFail DEF RemoveClosedWindow, tabVars, endVars
<1>13. CASE call' = "shutdown" /\ Shutdown
  <2>1. CASE shutdown_started
    <3>1. UNCHANGED <<OpenTabs, ActiveTab, QuitSeen>>
      BY <1>6, <1>13, <2>1 DEF Shutdown, RequestQuit, tabVars, endVars
    <3> QED
      BY <1>2, <1>13, <2>1, <3>1, MayShutdown
  <2>2. CASE ~shutdown_started
    <3>1. tabs' = <<>> /\ active_target_id' = 0 /\ shutdown_started'
      BY <1>13, <2>2 DEF Shutdown, RequestQuit
    <3>2. OpenTabs' = {} /\ ActiveTab' = 0 /\ QuitSeen' = "certain"
      BY <1>2, <3>1 DEF ToSet
    <3> QED
      BY <1>13, <3>2, MayShutdown
  <2> QED
    BY <2>1, <2>2
<1>14. CASE call' = "destroy" /\ Destroy
  <2>1. ToSet(tabs') = {} /\ active_target_id' = 0 /\ UNCHANGED shutdown_started
    BY <1>14 DEF Destroy, ToSet, endVars
  <2> QED
    BY <1>2, <1>14, <2>1, MayBeDestroyed
<1> QED
  BY <1>8, <1>9, <1>10, <1>11, <1>12, <1>13, <1>14 DEF GuiStep

\* The steps of the headless runtime, and of its pages.
LEMMA HeadlessImplements ==
  ASSUME RuntimeInv, UNCHANGED launch, HeadlessStep PROVE Allowed
<1>1. launch.runtime = "headless" /\ UNCHANGED <<guiVars, nativeVars>>
  BY DEF HeadlessStep
<1>2. /\ OpenTabs = contents /\ OpenTabs' = contents'
      /\ ActiveTab = active_web_contents /\ ActiveTab' = active_web_contents'
  BY <1>1 DEF OpenTabs, ActiveTab
<1>3. /\ QuitSeen = IF quit_posted THEN "certain" ELSE "no"
      /\ QuitSeen' = IF quit_posted' THEN "certain" ELSE "no"
  BY <1>1 DEF QuitSeen, QuitPosted, RuntimeInv, OnlyItsRuntime, guiVars, endVars, nativeVars
<1>4. MaxTabs \in Nat \ {0} /\ MaxPages \in Nat \ {0}
  BY MaxTabsAssumption, ProcessAssumption
<1>5. 1 .. MaxPages \subseteq 1 .. MaxTabs + MaxPages
  BY <1>4
<1>6. contents \subseteq 1 .. MaxPages /\ active_web_contents \in 0 .. MaxPages
  BY DEF RuntimeInv, TargetIds
<1>7. CASE call' = "initialize" /\ Headless!Initialize
  <2>1. contents = {} /\ active_web_contents = 0 /\ ~quit_posted
    BY <1>7 DEF Headless!Initialize, RuntimeInv, NothingBefore
  <2>2. ASSUME NEW page \in 1 .. MaxPages, contents' = {page},
               active_web_contents' = page, UNCHANGED quit_posted
        PROVE  Allowed
    BY <1>2, <1>3, <1>5, <1>7, <2>1, <2>2, MayInitialize
  <2>3. CASE Headless!BrowserShutdown /\ UNCHANGED active_web_contents
    <3>1. UNCHANGED <<OpenTabs, ActiveTab>> /\ QuitSeen' = "certain"
      BY <1>2, <1>3, <2>1, <2>3 DEF Headless!BrowserShutdown
    <3> QED
      BY <1>2, <1>3, <1>7, <2>1, <3>1, MayInitialize
  <2> QED
    BY <1>7, <2>2, <2>3 DEF Headless!Initialize
<1>8. CASE call' \in {"none", "create", "close"} /\ UNCHANGED headlessVars
  BY <1>2, <1>3, <1>8, MayFail DEF headlessVars
<1>9. CASE call' = "create" /\ Headless!CreateTab
  <2>1. ASSUME NEW page \in (1 .. MaxPages) \ contents, contents' = contents \cup {page},
               active_web_contents' = page, UNCHANGED quit_posted
        PROVE  Allowed
    BY <1>2, <1>3, <1>5, <1>9, <2>1, MayCreate
  <2>2. CASE UNCHANGED Headless!vars
    BY <1>8, <1>9, <2>2 DEF Headless!vars, headlessVars
  <2> QED
    BY <1>9, <2>1, <2>2 DEF Headless!CreateTab
<1>10. ASSUME NEW target \in Nat, call' = "close", Headless!CloseTab(target) PROVE Allowed
  <2> DEFINE closing == Headless!ToClose(target)
  <2>1. closing \in contents /\ closing \in 1 .. MaxTabs + MaxPages
    BY <1>5, <1>6, <1>10 DEF Headless!CloseTab
  <2>2. /\ contents' = contents \ {closing}
        /\ active_web_contents' \in IF contents' = {} THEN {0} ELSE contents'
        /\ UNCHANGED quit_posted \/ (contents' = {} /\ quit_posted')
    BY <1>10 DEF Headless!CloseTab, Headless!Fallbacks, Headless!BrowserShutdown
  <2>3. UNCHANGED QuitSeen \/ (OpenTabs' = {} /\ QuitSeen' = "certain")
    BY <1>2, <1>3, <2>2
  <2> HIDE DEF closing
  <2> QED
    BY <1>2, <1>10, <2>1, <2>2, <2>3, MayClose
<1>11. CASE call' = "shutdown" /\ Headless!Shutdown
  <2>1. OpenTabs' = {} /\ QuitSeen' = "certain" /\ UNCHANGED ActiveTab
    BY <1>2, <1>3, <1>11 DEF Headless!Shutdown, Headless!BrowserShutdown
  <2> QED
    BY <1>1, <1>11, <2>1, MayShutdown
<1>12. CASE call' = "none" /\ Headless!PageOpensTab
  <2>1. PICK page \in (1 .. MaxPages) \ contents : contents' = contents \cup {page}
    BY <1>12 DEF Headless!PageOpensTab
  <2>2. UNCHANGED <<active_web_contents, quit_posted>>
    BY <1>12 DEF Headless!PageOpensTab
  <2> QED
    BY <1>1, <1>2, <1>3, <1>5, <1>12, <2>1, <2>2, MayAppear
<1>13. CASE call' = "none" /\ Headless!PageClosesItself
  <2>1. PICK page \in contents : contents' = contents \ {page}
    BY <1>13 DEF Headless!PageClosesItself
  <2>2. UNCHANGED <<active_web_contents, quit_posted>>
    BY <1>13 DEF Headless!PageClosesItself
  <2> QED
    BY <1>1, <1>2, <1>3, <1>5, <1>6, <1>13, <2>1, <2>2, MayVanish
<1> QED
  BY <1>7, <1>8, <1>9, <1>10, <1>11, <1>12, <1>13 DEF HeadlessStep

\* The steps of Chrome's runtime, of Chrome and of its user.
LEMMA NativeImplements ==
  ASSUME RuntimeInv, UNCHANGED launch, NativeStep PROVE Allowed
<1>1. launch.runtime = "native" /\ UNCHANGED <<guiVars, headlessVars>>
  BY DEF NativeStep
<1>2. /\ OpenTabs = strips /\ OpenTabs' = strips'
      /\ ActiveTab = front /\ ActiveTab' = front'
  BY <1>1 DEF OpenTabs, ActiveTab
<1>3. /\ ~shutdown_started /\ ~quit_posted
      /\ UNCHANGED <<shutdown_started, quit_posted>>
      /\ UNCHANGED Native!quitVars => UNCHANGED QuitSeen
  BY <1>1 DEF QuitSeen, QuitPosted, RuntimeInv, OnlyItsRuntime, guiVars, endVars,
              headlessVars, Native!quitVars
<1>4. MaxTabs \in Nat \ {0} /\ MaxPages \in Nat \ {0}
  BY MaxTabsAssumption, ProcessAssumption
<1>5. /\ 1 .. MaxPages \subseteq 1 .. MaxTabs + MaxPages
      /\ strips \subseteq 1 .. MaxPages
      /\ 0 \notin 1 .. MaxPages
  BY <1>4 DEF RuntimeInv, TargetIds
<1>6. ASSUME UNCHANGED Native!tabVars PROVE UNCHANGED <<OpenTabs, ActiveTab>>
  BY <1>2, <1>6 DEF Native!tabVars
<1>7. ASSUME Native!Add({next_session_id})
      PROVE  \E t \in 1 .. MaxTabs + MaxPages :
               /\ t \notin OpenTabs /\ OpenTabs' = OpenTabs \cup {t} /\ ActiveTab' = t
  <2>1. /\ next_session_id \notin strips /\ next_session_id \in 1 .. MaxPages
        /\ strips' = strips \cup {next_session_id} /\ front' \in {next_session_id}
    BY <1>7, AddKeeps
  <2> QED
    BY <1>2, <1>5, <2>1
<1>8. ASSUME NEW t \in strips, Native!Drop(t), UNCHANGED Native!quitVars,
             call' \in {"close", "none"}
      PROVE  Allowed
  <2>1. strips' = strips \ {t} /\ front' \in IF strips' = {} THEN {0} ELSE strips'
    BY <1>8, DropKeeps
  <2>2. t \in 1 .. MaxTabs + MaxPages
    BY <1>5
  <2> QED
    BY <1>2, <1>3, <1>8, <2>1, <2>2, MayClose
<1>9. CASE call' = "initialize" /\ Native!Start
  <2>1. phase = "new" /\ UNCHANGED Native!quitVars
    BY <1>9 DEF Native!Start
  <2>2. /\ strips = {} /\ next_session_id = 1
        /\ ~told_to_quit /\ ~closing_all /\ ~registry_shutting_down
    BY <2>1 DEF RuntimeInv, NothingBefore, KeepAlives
  <2>3. OpenTabs = {} /\ QuitSeen = "no" /\ UNCHANGED QuitSeen
    BY <1>2, <1>3, <2>1, <2>2 DEF QuitSeen, QuitPosted
  <2>4. Native!Add({next_session_id}) \/ UNCHANGED Native!tabVars
    BY <1>9, <2>2 DEF Native!Start
  <2> QED
    BY <1>6, <1>7, <1>9, <2>3, <2>4, MayInitialize
<1>10. CASE call' = "none" /\ Native!Lookup
  BY <1>3, <1>6, <1>10, MayFail DEF Native!Lookup
<1>11. CASE call' = "create" /\ Native!CreateTab
  BY <1>3, <1>6, <1>7, <1>11, MayCreate, MayFail DEF Native!CreateTab
<1>12. ASSUME NEW target \in Nat, call' = "close", Native!CloseTab(target) PROVE Allowed
  BY <1>3, <1>6, <1>8, <1>12, MayFail DEF Native!CloseTab, Native!Located
<1>13. CASE call' = "shutdown" /\ Native!Shutdown
  <2>1. closing_all' /\ UNCHANGED registry_shutting_down /\ UNCHANGED Native!tabVars
    BY <1>13 DEF Native!Shutdown
  <2>2. QuitSeen' = IF QuitSeen = "certain" THEN "certain" ELSE "asked"
    BY <1>3, <2>1 DEF QuitSeen, QuitPosted
  <2> QED
    BY <1>6, <1>13, <2>1, <2>2, MayShutdown
<1>14. CASE call' = "none" /\ phase = "up" /\ Native!Environment
  <2>0. ~registry_shutting_down
    BY <1>14 DEF Native!Environment
  <2>1. CASE Native!UserStays
    <3>1. /\ closing_all /\ strips # {} /\ ~closing_all'
          /\ UNCHANGED <<registry_shutting_down, told_to_quit>> /\ UNCHANGED Native!tabVars
      BY <2>1 DEF Native!UserStays
    <3>2. told_to_quit
      BY <1>1, <3>1 DEF RuntimeInv, KeepAlives
    <3>3. QuitSeen = "asked" /\ QuitSeen' = "held"
      BY <1>3, <2>0, <3>1, <3>2 DEF QuitSeen, QuitPosted
    <3> QED
      BY <1>2, <1>6, <1>14, <3>1, <3>3, MayStay
  <2>2. CASE Native!ChromeQuits
    <3>1. registry_shutting_down' /\ strips = {} /\ ~keep_alive /\ UNCHANGED Native!tabVars
      BY <2>2 DEF Native!ChromeQuits
    <3>2. told_to_quit
      BY <1>1, <1>14, <3>1 DEF RuntimeInv, KeepAlives
    <3>3. QuitSeen \in {"asked", "held"} /\ QuitSeen' = "certain"
      BY <1>3, <2>0, <3>1, <3>2 DEF QuitSeen, QuitPosted
    <3> QED
      BY <1>2, <1>6, <1>14, <3>1, <3>3, MayLeave
  <2>3. CASE Native!UserOpensTab
    <3>1. /\ next_session_id \notin strips /\ next_session_id \in 1 .. MaxPages
          /\ strips' = strips \cup {next_session_id}
          /\ front' \in {next_session_id} \cup (strips \cap {front})
      BY <2>3, AddKeeps DEF Native!UserOpensTab
    <3>2. front' \in {front, next_session_id} /\ front' # 0
      BY <1>5, <3>1
    <3>3. next_session_id \in 1 .. MaxTabs + MaxPages /\ UNCHANGED QuitSeen
      BY <1>3, <1>5, <2>3, <3>1 DEF Native!UserOpensTab
    <3> QED
      BY <1>2, <1>14, <3>1, <3>2, <3>3, MayAppear
  <2>4. CASE Native!UserSelectsTab
    <3>1. front' \in strips /\ UNCHANGED strips /\ UNCHANGED QuitSeen
      BY <1>3, <2>4 DEF Native!UserSelectsTab
    <3>2. PICK t \in 1 .. MaxTabs + MaxPages : t = front'
      BY <1>5, <3>1
    <3> QED
      BY <1>2, <1>14, <3>1, <3>2, MaySelect
  <2>5. CASE Native!TabCloses
    BY <1>8, <1>14, <2>5 DEF Native!TabCloses
  <2> QED
    BY <1>14, <2>1, <2>2, <2>3, <2>4, <2>5 DEF Native!Environment
<1> QED
  BY <1>9, <1>10, <1>11, <1>12, <1>13, <1>14 DEF NativeStep

\* The steps that no runtime has a part in show nothing.
LEMMA NoRuntimeImplements ==
  ASSUME UNCHANGED launch, NoRuntimeStep PROVE Allowed
<1>1. UNCHANGED <<OpenTabs, ActiveTab, QuitSeen>>
  BY DEF NoRuntimeStep, guiVars, tabVars, endVars, headlessVars, nativeVars,
         OpenTabs, ActiveTab, QuitSeen, QuitPosted
<1>2. CASE UNCHANGED call
  BY <1>1, <1>2 DEF Allowed, Interface!vars
<1> QED
  BY <1>1, <1>2, MayFail DEF NoRuntimeStep

\* The controller may rely on the same promises whichever runtime it was given:
\* the GUI runtime, the headless one and Chrome's implement BrowserRuntime, with
\* any number of tabs, through every call, every close and every end.
THEOREM RuntimesImplementInterface == ProcessSpec => ImplementsBrowserRuntime
<1>1. ProcessInit => Interface!Init
  <2> SUFFICES ASSUME ProcessInit PROVE Interface!Init
    OBVIOUS
  <2>1. /\ tabs = <<>> /\ contents = {} /\ strips = {}
        /\ active_target_id = 0 /\ active_web_contents = 0 /\ front = 0
        /\ shutdown_started = FALSE /\ quit_posted = FALSE
        /\ closing_all = FALSE /\ registry_shutting_down = FALSE
        /\ told_to_quit = FALSE /\ call = "none"
    BY DEF ProcessInit, Init, Headless!Init, Native!Init
  <2>2. launch.runtime \in {"gui", "headless", "native"}
    BY ProcessAssumption DEF ProcessInit, AllLaunches
  <2>3. OpenTabs = {} /\ ActiveTab = 0 /\ QuitSeen = "no"
    BY <2>1, <2>2 DEF OpenTabs, ActiveTab, ToSet, QuitSeen, QuitPosted
  <2> QED
    BY <2>1, <2>3 DEF Interface!Init
<1>2. ASSUME ProcessInv, [ProcessNext]_processVars PROVE Allowed
  <2>1. RuntimeInv /\ UNCHANGED launch /\ RuntimeStep
    BY <1>2, StepOfOneRuntime DEF ProcessInv
  <2> QED
    BY <2>1, GuiImplements, HeadlessImplements, NativeImplements, NoRuntimeImplements
    DEF RuntimeStep
<1>3. ProcessInv /\ [ProcessNext]_processVars => [Interface!Next]_Interface!vars
  BY <1>2 DEF Allowed
<1> QED
  BY <1>1, <1>3, ProcessInductive, PTL DEF ProcessSpec, ImplementsBrowserRuntime, Interface!Spec


\* In an embedded session, too, the active tab moves only when it is the one that
\* goes or when a new one opens, whoever closes the others.
THEOREM ActiveIsKeptInProcess == ProcessSpec => ActiveKept
<1>1. ASSUME ProcessInv, [ProcessNext]_processVars PROVE ActiveStays
  <2>1. RuntimeInv /\ RuntimeStep
    BY <1>1, StepOfOneRuntime DEF ProcessInv
  <2>2. CASE GuiStep
    BY <2>1, <2>2, GuiStepIsNext, NextLeavesActive DEF RuntimeInv, OfGui
  <2>3. CASE UNCHANGED guiVars
    BY <2>3 DEF guiVars, tabVars, ActiveStays
  <2> QED
    BY <2>1, <2>2, <2>3 DEF RuntimeStep, HeadlessStep, NativeStep, NoRuntimeStep
<1>2. ProcessInv /\ [ProcessNext]_processVars =>
        [(active_target_id \in ToSet(tabs) \cap ToSet(tabs') /\ Len(tabs') <= Len(tabs))
           => UNCHANGED active_target_id]_vars
  BY <1>1 DEF ActiveStays
<1> QED
  BY <1>2, ProcessInductive, PTL DEF ProcessSpec, ActiveKept

-----------------------------------------------------------------------------
(* The types.                                                              *)

MainTypes ==
  /\ launch \in Launches
  /\ stage \in {"launched", "http", "ipc", "serving", "leaving", "joining",
               "exited", "died"}
  /\ call \in {"none", "initialize", "create", "close", "shutdown", "destroy"}
  /\ stdin \in {"open", "ended", "told"}
  /\ http_up \in BOOLEAN

RuntimeTypes ==
  /\ freed_used \in BOOLEAN /\ quit_posted \in BOOLEAN
  /\ keep_alive \in BOOLEAN /\ profile_keep_alive \in BOOLEAN
  /\ closing_all \in BOOLEAN /\ registry_shutting_down \in BOOLEAN
  /\ told_to_quit \in BOOLEAN /\ called_after \in BOOLEAN
  /\ context \in {"none", "live", "freed"}

ObserverTypes == observed \subseteq 1 .. MaxTabs + MaxPages /\ simulated \in Nat

LEMMA MainTypesKept ==
  ASSUME MainTypes, [ProcessNext]_processVars PROVE MainTypes'
<1> USE DEF MainTypes, transportVars
<1>1. CASE StartRuntime
  BY <1>1 DEF StartRuntime
<1>2. CASE StartHttpTransport
  BY <1>2 DEF StartHttpTransport
<1>3. CASE StartIPCTransport
  BY <1>3 DEF StartIPCTransport, IPCStarted
<1>4. CASE ListTabs \/ OpenTab \/ (\E target \in 0 .. MaxTabs : DropTab(target))
  BY <1>4 DEF ListTabs, OpenTab, DropTab, Calling, Refreshed
<1>5. CASE ResizeActive \/ ShutdownCall \/ PagesAndUser
  BY <1>5 DEF ResizeActive, ShutdownCall, PagesAndUser, Calling
<1>6. CASE StdinEnds \/ OnTransportClosed \/ LoopEnds
  BY <1>6 DEF StdinEnds, OnTransportClosed, LoopEnds, Calling
<1>7. CASE StopIPCTransport \/ StopHttpTransport
  BY <1>7 DEF StopIPCTransport, StopHttpTransport
<1>8. CASE Exit \/ Killed \/ OtherProcess
  BY <1>8 DEF Exit, Killed, OtherProcess
<1>9. CASE UNCHANGED processVars
  BY <1>9 DEF processVars
<1> QED
  BY <1>1, <1>2, <1>3, <1>4, <1>5, <1>6, <1>7, <1>8, <1>9 DEF ProcessNext

LEMMA RuntimeTypesKept ==
  ASSUME RuntimeTypes, RuntimeStep PROVE RuntimeTypes'
<1> USE DEF RuntimeTypes
<1>1. ASSUME UNCHANGED <<headlessVars, nativeVars, freed_used>> PROVE RuntimeTypes'
  BY <1>1 DEF headlessVars, nativeVars
<1>2. CASE GuiStep \/ NoRuntimeStep
  BY <1>1, <1>2 DEF GuiStep, OfGui, NoRuntimeStep
<1>3. CASE HeadlessStep
  <2>1. UNCHANGED <<keep_alive, profile_keep_alive, closing_all,
                    registry_shutting_down, told_to_quit, called_after>>
        /\ freed_used' \in BOOLEAN
    BY <1>3 DEF HeadlessStep, nativeVars
  <2>2. quit_posted' \in BOOLEAN /\ context' \in {"none", "live", "freed"}
    BY <1>3 DEF HeadlessStep, headlessVars, Headless!Initialize, Headless!BrowserShutdown,
          Headless!CreateTab, Headless!CloseTab, Headless!Shutdown,
          Headless!PageOpensTab, Headless!PageClosesItself, Headless!vars
  <2> QED
    BY <2>1, <2>2
<1>4. CASE NativeStep
  <2>1. UNCHANGED <<freed_used, quit_posted, context>>
    BY <1>4 DEF NativeStep, headlessVars
  <2>2. ASSUME Native!EnsureKeepAlive, UNCHANGED Native!quitVars PROVE RuntimeTypes'
    BY <2>1, <2>2 DEF Native!EnsureKeepAlive, Native!keepVars, Native!quitVars
  <2>3. CASE Native!Start \/ Native!Lookup \/ Native!CreateTab
    BY <2>2, <2>3 DEF Native!Start, Native!Lookup, Native!CreateTab
  <2>4. ASSUME NEW target \in Nat, Native!CloseTab(target) PROVE RuntimeTypes'
    BY <2>2, <2>4 DEF Native!CloseTab
  <2>5. CASE Native!Shutdown
    BY <2>1, <2>5 DEF Native!Shutdown
  <2>6. CASE Native!Environment
    BY <2>1, <2>6 DEF Native!Environment, Native!UserOpensTab, Native!UserSelectsTab,
          Native!TabCloses, Native!UserStays, Native!ChromeQuits, Native!keepVars,
          Native!quitVars
  <2> QED
    BY <1>4, <2>3, <2>4, <2>5, <2>6 DEF NativeStep
<1> QED
  BY <1>2, <1>3, <1>4 DEF RuntimeStep

\* Pages and tabs are numbers within the bounds.
LEMMA TabTypes ==
  ASSUME RuntimeInv, launch \in AllLaunches
  PROVE  /\ contents \cup strips \subseteq 1 .. MaxPages
         /\ {active_web_contents, front} \subseteq 0 .. MaxPages
         /\ OpenTabs \subseteq 1 .. MaxTabs + MaxPages
         /\ ActiveTab \in Nat
<1>1. MaxTabs \in Nat \ {0} /\ MaxPages \in Nat \ {0}
  BY MaxTabsAssumption, ProcessAssumption
<1>2. contents \subseteq 1 .. MaxPages /\ strips \subseteq 1 .. MaxPages
  BY <1>1 DEF RuntimeInv, TargetIds
<1>3. active_web_contents \in 0 .. MaxPages /\ front \in 0 .. MaxPages
  BY <1>1, <1>2 DEF RuntimeInv, TargetIds, ActiveIsOpen, FrontOpen
<1>4. ToSet(tabs) \subseteq 1 .. MaxTabs /\ active_target_id \in 0 .. MaxTabs
  <2>1. ToSet(tabs) \subseteq 1 .. next_tab_id - 1 /\ next_tab_id \in 1 .. MaxTabs + 1
        /\ active_target_id \in 0 .. MaxTabs
    BY DEF RuntimeInv, IInv, IdsGivenOnce, Ids, TypeOK
  <2> QED
    BY <1>1, <2>1
<1>5. /\ 1 .. MaxPages \subseteq 1 .. MaxTabs + MaxPages
      /\ 1 .. MaxTabs \subseteq 1 .. MaxTabs + MaxPages
      /\ 0 .. MaxPages \subseteq Nat /\ 0 .. MaxTabs \subseteq Nat
  BY <1>1
<1>6. OpenTabs \in {ToSet(tabs), contents, strips}
      /\ ActiveTab \in {active_target_id, active_web_contents, front}
  BY DEF OpenTabs, ActiveTab, AllLaunches
<1> QED
  BY <1>2, <1>3, <1>4, <1>5, <1>6

LEMMA ObserverTypesKept ==
  ASSUME ObserverTypes, OpenTabs' \subseteq 1 .. MaxTabs + MaxPages, ActiveTab' \in Nat,
         [ProcessNext]_processVars
  PROVE  ObserverTypes'
<1> USE DEF ObserverTypes
<1>1. ASSUME UNCHANGED observerVars PROVE ObserverTypes'
  BY <1>1 DEF observerVars
<1>2. ASSUME Refresh PROVE ObserverTypes'
  BY <1>2 DEF Refresh
<1>3. ASSUME ForgetPages PROVE ObserverTypes'
  BY <1>3 DEF ForgetPages
<1>4. ASSUME Refreshed PROVE ObserverTypes'
  BY <1>2, <1>4 DEF Refreshed
<1>5. ASSUME UNCHANGED runtimeVars PROVE ObserverTypes'
  BY <1>1, <1>5 DEF runtimeVars
<1> HIDE DEF ObserverTypes
<1>6. CASE StartRuntime
  BY <1>1, <1>2, <1>6 DEF StartRuntime
<1>7. CASE ListTabs \/ OpenTab \/ (\E target \in 0 .. MaxTabs : DropTab(target))
  BY <1>4, <1>7 DEF ListTabs, OpenTab, DropTab
<1>8. CASE ResizeActive \/ ShutdownCall \/ PagesAndUser \/ OnTransportClosed
  BY <1>1, <1>3, <1>8 DEF ResizeActive, ShutdownCall, PagesAndUser, OnTransportClosed,
                          ShutDown
<1>9. CASE Exit
  BY <1>5, <1>9 DEF Exit, ObserverTypes
<1>10. CASE StartHttpTransport \/ StartIPCTransport \/ StdinEnds \/ LoopEnds
  BY <1>5, <1>10 DEF StartHttpTransport, StartIPCTransport, StdinEnds, LoopEnds
<1>11. CASE StopIPCTransport \/ StopHttpTransport \/ Killed \/ OtherProcess
  BY <1>5, <1>11 DEF StopIPCTransport, StopHttpTransport, Killed, OtherProcess
<1>12. CASE UNCHANGED processVars
  BY <1>5, <1>12 DEF processVars
<1> QED
  BY <1>6, <1>7, <1>8, <1>9, <1>10, <1>11, <1>12 DEF ProcessNext

\* Type correctness of the process, of the runtime behind its controller and of
\* the path, however main was started.
THEOREM ProcessTyping == ProcessSpec => []ProcessTypeOK
<1> DEFINE Types == MainTypes /\ RuntimeTypes /\ ObserverTypes
           Tabs == OpenTabs \subseteq 1 .. MaxTabs + MaxPages /\ ActiveTab \in Nat
<1>0. ASSUME ProcessInv
      PROVE  /\ Tabs
             /\ contents \cup strips \subseteq 1 .. MaxPages
             /\ {active_web_contents, front} \subseteq 0 .. MaxPages
  BY <1>0, TabTypes DEF ProcessInv, Started
<1>1. ProcessInit => Types
  <2> SUFFICES ASSUME ProcessInit PROVE Types
    OBVIOUS
  <2>1. MainTypes
    BY DEF ProcessInit, MainTypes
  <2>2. RuntimeTypes
    <3>1. Headless!Init /\ Native!Init /\ freed_used = FALSE
      BY DEF ProcessInit
    <3> QED
      BY <3>1 DEF Headless!Init, Native!Init, RuntimeTypes
  <2>3. ObserverTypes
    BY DEF ProcessInit, ObserverTypes
  <2> QED
    BY <2>1, <2>2, <2>3
<1>2. ASSUME ProcessInv, Tabs', Types, [ProcessNext]_processVars PROVE Types'
  <2>1. MainTypes'
    BY <1>2, MainTypesKept
  <2>2. RuntimeTypes'
    BY <1>2, StepOfOneRuntime, RuntimeTypesKept DEF ProcessInv
  <2>3. ObserverTypes'
    BY <1>2, ObserverTypesKept
  <2> QED
    BY <2>1, <2>2, <2>3
<1>3. ProcessInv /\ Types => ProcessTypeOK
  <2> SUFFICES ASSUME ProcessInv, Types PROVE ProcessTypeOK
    OBVIOUS
  <2>1. TypeOK /\ SocketTypeOK /\ next_session_id \in 1 .. MaxPages + 1
    BY DEF ProcessInv, RuntimeInv, IInv, TargetIds
  <2> QED
    BY <1>0, <2>1 DEF ProcessTypeOK, MainTypes, RuntimeTypes, ObserverTypes
<1>4. ProcessInv => Tabs
  BY <1>0
<1> HIDE DEF Types, Tabs
<1> QED
  BY <1>1, <1>2, <1>3, <1>4, ProcessInductive, PTL DEF ProcessSpec

-----------------------------------------------------------------------------
(* The end of the only client.                                             *)

\* When stdin was the only transport and its end was told, the runtime was asked
\* to quit, and still is.
EndRemembered ==
  stdin = "told" /\ launch.http = "off" /\ launch.ipc = "off" =>
    /\ launch.runtime = "gui" => shutdown_started
    /\ launch.runtime = "headless" => quit_posted
    /\ launch.runtime = "native" => told_to_quit

\* A runtime that was asked to quit stays asked.
LEMMA QuitStays ==
  ASSUME RuntimeStep
  PROVE  /\ shutdown_started => shutdown_started'
         /\ quit_posted => quit_posted'
         /\ told_to_quit => told_to_quit'
<1>1. CASE GuiStep \/ NoRuntimeStep
  <2>1. UNCHANGED <<quit_posted, told_to_quit>>
    BY <1>1 DEF GuiStep, OfGui, NoRuntimeStep, headlessVars, nativeVars
  <2>2. CASE NoRuntimeStep
    BY <2>1, <2>2 DEF NoRuntimeStep, guiVars, endVars
  <2>3. ASSUME NEW id, Erase(id) PROVE shutdown_started => shutdown_started'
    BY <2>3 DEF Erase, RequestQuit, endVars
  <2>4. ASSUME Next PROVE shutdown_started => shutdown_started'
    BY <2>3, <2>4 DEF Next, Initialize, CreateTab, CloseTab, OnWindowCloseRequested,
          RemoveClosedWindow, Shutdown, Destroy, RequestQuit, endVars
  <2> QED
    BY <1>1, <2>1, <2>2, <2>4, GuiStepIsNext DEF OfGui
<1>2. CASE HeadlessStep
  <2>1. UNCHANGED <<shutdown_started, told_to_quit>>
    BY <1>2 DEF HeadlessStep, guiVars, endVars, nativeVars
  <2>2. quit_posted => quit_posted'
    BY <1>2 DEF HeadlessStep, headlessVars, Headless!Initialize, Headless!BrowserShutdown,
          Headless!CreateTab, Headless!CloseTab, Headless!Shutdown,
          Headless!PageOpensTab, Headless!PageClosesItself, Headless!vars
  <2> QED
    BY <2>1, <2>2
<1>3. CASE NativeStep
  <2>1. UNCHANGED <<shutdown_started, quit_posted>>
    BY <1>3 DEF NativeStep, guiVars, endVars, headlessVars
  <2>2. ASSUME NEW target \in Nat, Native!CloseTab(target) PROVE told_to_quit => told_to_quit'
    BY <2>2 DEF Native!CloseTab, Native!quitVars
  <2>3. told_to_quit => told_to_quit'
    BY <1>3, <2>2 DEF NativeStep, Native!quitVars, Native!Start, Native!Lookup,
          Native!CreateTab, Native!Shutdown, Native!Environment, Native!UserOpensTab,
          Native!UserSelectsTab, Native!TabCloses, Native!UserStays, Native!ChromeQuits
  <2> QED
    BY <2>1, <2>3
<1> QED
  BY <1>1, <1>2, <1>3 DEF RuntimeStep

\* OnTransportClosed asks the runtime to quit when nobody is left to ask anything,
\* and no call, page or user that comes later takes that back.  What is left to the
\* end of the process is that its main loop goes on and, with Chrome's runtime,
\* that its user lets the windows close.
THEOREM EndNotForgotten == ProcessSpec => []EndRemembered
<1>1. ProcessInit => EndRemembered
  BY DEF ProcessInit, EndRemembered
<1>2. ASSUME ProcessInv, EndRemembered, [ProcessNext]_processVars PROVE EndRemembered'
  <2>1. UNCHANGED launch /\ RuntimeStep
    BY <1>2, StepOfOneRuntime DEF ProcessInv
  <2>2. CASE UNCHANGED stdin
    BY <1>2, <2>1, <2>2, QuitStays DEF EndRemembered
  <2>3. CASE StdinEnds
    BY <2>3 DEF StdinEnds, EndRemembered
  <2>4. CASE OnTransportClosed
    BY <2>1, <2>4 DEF OnTransportClosed, ShutDown, OfGui, OfHeadless, OfNative,
          Shutdown, RequestQuit, endVars,
          Headless!Shutdown, Headless!BrowserShutdown, Native!Shutdown, EndRemembered
  <2>5. StdinEnds \/ OnTransportClosed \/ UNCHANGED stdin
    BY <1>2 DEF ProcessNext, StartRuntime, StartHttpTransport, StartIPCTransport, ListTabs,
          OpenTab, DropTab, ResizeActive, ShutdownCall, PagesAndUser, LoopEnds,
          StopIPCTransport, StopHttpTransport, Exit, Killed, OtherProcess, Refreshed,
          transportVars, processVars
  <2> QED
    BY <2>2, <2>3, <2>4, <2>5
<1> QED
  BY <1>1, <1>2, ProcessInductive, PTL DEF ProcessSpec
=============================================================================
