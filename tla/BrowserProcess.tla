---------------------------- MODULE BrowserProcess ----------------------------
(***************************************************************************)
(* One browserd process from main() or browserd_run to its end: the        *)
(* runtime it was started for behind BrowserController's tab operations,   *)
(* the observers the controller keeps on pages, the order in which the     *)
(* transports start and stop (browserd/main.cc, app.cc), and another       *)
(* process that is given the same socket path.                             *)
(*                                                                         *)
(* The GUI runtime's definitions, which embedding uses, come in by EXTENDS *)
(* with their own names; a page is its target id, a number, and 0 is none. *)
(***************************************************************************)
EXTENDS GuiRuntime, SocketPath

CONSTANTS
  MaxPages,     \* bound: addresses of headless pages, session ids of Chrome's
  This, Other,  \* the process, and the one with the same socket path
  Launches      \* the ways the process may be started

\* --gui, with or without it, and an embedded session; only the browserd binary
\* has transports.  A transport is off, configured, or badly configured.
AllLaunches ==
  [runtime : {"headless", "native"}, embedded : {FALSE},
   http : {"off", "ok", "bad"}, ipc : {"off", "ok", "bad"}]
  \cup [runtime : {"headless", "gui"}, embedded : {TRUE},
        http : {"off"}, ipc : {"off"}]

ASSUME ProcessAssumption ==
  /\ Process = {This, Other} /\ This # Other
  /\ MaxPages \in Nat \ {0}
  /\ Launches \subseteq AllLaunches

VARIABLES
  launch,      \* how the process was started
  stage,       \* how far main has come
  call,        \* history: which call of the runtime the last step was, or "none"
  stdin,       \* "open", "ended", or "told" to the server
  http_up,     \* the HTTP transport listens
  observed,    \* pages that have a PageInstrumentation
  simulated,   \* the page BehaviorSimulator observes, or 0
  freed_used,  \* history: the headless runtime read through a dead pointer
  context, contents, active_web_contents, quit_posted,  \* HeadlessRuntime
  strips, front, next_session_id, keep_alive, profile_keep_alive, closing_all,
  registry_shutting_down, told_to_quit, called_after    \* NativeChromeRuntime

Headless == INSTANCE HeadlessRuntime WITH Address <- 1 .. MaxPages, Null <- 0
Native == INSTANCE NativeChromeRuntime WITH MaxTabs <- MaxPages

guiVars == <<options, tabVars, next_tab_id, posted, endVars, shown, asked>>
headlessVars == <<context, contents, active_web_contents, quit_posted>>
nativeVars ==
  <<strips, front, next_session_id, keep_alive, profile_keep_alive, closing_all,
    registry_shutting_down, told_to_quit, called_after>>
transportVars == <<stdin, http_up, socketVars>>
observerVars == <<observed, simulated>>
runtimeVars == <<phase, guiVars, headlessVars, nativeVars, observerVars, freed_used>>
processVars == <<launch, stage, call, transportVars, runtimeVars>>

ProcessInit ==
  /\ Init
  /\ SocketInit
  /\ Headless!Init
  /\ Native!Init
  /\ launch \in Launches
  /\ launch.runtime # "gui" => options.create_initial_tab /\ options.shutdown_on_zero_tabs
  /\ launch.ipc # "ok" => path = Nothing
  /\ stage = "launched"
  /\ call = "none"
  /\ stdin = "open"
  /\ http_up = FALSE
  /\ observed = {}
  /\ simulated = 0
  /\ freed_used = FALSE

-----------------------------------------------------------------------------
(* The runtime, whichever it is.                                           *)

OpenTabs ==
  CASE launch.runtime = "gui"      -> ToSet(tabs)
    [] launch.runtime = "headless" -> contents
    [] launch.runtime = "native"   -> strips

ActiveTab ==
  CASE launch.runtime = "gui"      -> active_target_id
    [] launch.runtime = "headless" -> active_web_contents
    [] launch.runtime = "native"   -> front

OfGui(A) ==
  launch.runtime = "gui" /\ A /\ UNCHANGED <<headlessVars, nativeVars, freed_used>>

OfNative(A) ==
  launch.runtime = "native" /\ A /\ UNCHANGED <<guiVars, headlessVars, freed_used>>

\* An operation of the headless runtime.  One that reads freed memory finds
\* nothing there, unless the process dies of it.
OfHeadless(A, readsFreed) ==
  /\ launch.runtime = "headless"
  /\ IF readsFreed THEN UNCHANGED headlessVars ELSE A
  /\ freed_used' = (freed_used \/ readsFreed)
  /\ UNCHANGED <<guiVars, nativeVars>>

\* Mutant: an observer outlives its page.
ForgetPages_Never == UNCHANGED observerVars

\* What WebContentsDestroyed does for the pages that are gone.
ForgetPages ==
  /\ observed' = observed \cap OpenTabs'
  /\ simulated' = IF simulated \in OpenTabs' THEN simulated ELSE 0

\* RefreshSharedRuntimeBehavior: an observer on each page there is, and on the
\* active one.  It asks the headless runtime for both.
Refresh ==
  /\ observed' = OpenTabs'
  /\ simulated' = ActiveTab'

RefreshReadsFreed ==
  launch.runtime = "headless" /\ (Headless!ContextFreed \/ Headless!ActiveFreed)

-----------------------------------------------------------------------------
(* Start: OnBrowserStart, PostBrowserStart or the embedder's ready callback,*)
(* and App::Start, which runs to its end on the main thread.               *)

\* The runtime and the controller.  A headless browser without a page shuts
\* down again; a bad configuration ends the process.
StartRuntime ==
  /\ stage = "launched"
  /\ call' = "initialize"
  /\ UNCHANGED <<launch, transportVars>>
  /\ \/ OfGui(Initialize)
     \/ OfHeadless(Headless!Initialize, FALSE)
     \/ OfNative(Native!Start)
  /\ IF phase' = "up"
       THEN /\ Refresh
            /\ stage' = IF launch.embedded THEN "serving"
                        ELSE IF "bad" \in {launch.http, launch.ipc} THEN "died"
                        ELSE "http"
       ELSE UNCHANGED observerVars /\ stage' = "leaving"

StartHttpTransport ==
  /\ stage = "http"
  /\ call' = "none"
  /\ \/ launch.http = "off" /\ stage' = "ipc" /\ UNCHANGED http_up
     \/ launch.http = "ok" /\ stage' = "ipc" /\ http_up' = TRUE
     \/ launch.http = "ok" /\ stage' = "died" /\ UNCHANGED http_up
  /\ UNCHANGED <<launch, stdin, socketVars, runtimeVars>>

\* Mutant: a transport that does not start is only logged.
IPCStarted_Anyway ==
  /\ \/ launch.ipc = "off" /\ stage' = "serving" /\ UNCHANGED socketVars
     \/ at[This] \in {"up", "failed"} /\ stage' = "serving" /\ UNCHANGED socketVars

\* What App::Start does when StartIPCTransport returns, if it is called at all.
IPCStarted ==
  \/ launch.ipc = "off" /\ stage' = "serving" /\ UNCHANGED socketVars
  \/ at[This] = "up" /\ stage' = "serving" /\ UNCHANGED socketVars
  \/ at[This] = "failed" /\ stage' = "died" /\ Die(This)

\* The main thread waits while the IPC thread takes its steps.
StartIPCTransport ==
  /\ stage = "ipc"
  /\ call' = "none"
  /\ \/ launch.ipc = "ok" /\ at[This] = "off"
        /\ (BeginStart(This) \/ RefusePath(This)) /\ UNCHANGED stage
     \/ StartStep(This) /\ UNCHANGED stage
     \/ IPCStarted
  /\ UNCHANGED <<launch, stdin, http_up, runtimeVars>>

-----------------------------------------------------------------------------
(* BrowserController's tab operations, called by tools or by the host.     *)

Calling == stage = "serving" /\ UNCHANGED <<launch, phase>>

\* An operation that ends with a refresh.
Refreshed ==
  /\ UNCHANGED transportVars
  /\ IF RefreshReadsFreed' THEN simulated' \in {0, ActiveTab'} /\ observed' = {}
                           ELSE Refresh
  /\ stage' \in IF freed_used' THEN {stage, "died"} ELSE {stage}

\* The refresh of the headless runtime is part of what an operation reads.
OfHeadlessThenRefresh(A, readsFreed) ==
  /\ launch.runtime = "headless"
  /\ IF readsFreed THEN UNCHANGED headlessVars ELSE A
  /\ freed_used' = (freed_used \/ readsFreed \/ RefreshReadsFreed')
  /\ UNCHANGED <<guiVars, nativeVars>>

ListTabs ==
  /\ Calling
  /\ call' = "none"
  /\ \/ OfGui(UNCHANGED guiVars)
     \/ OfNative(Native!Lookup)
     \/ OfHeadlessThenRefresh(UNCHANGED headlessVars, FALSE)
  /\ Refreshed

\* A tab at about:blank.  With another URL a waiter is made after the refresh.
OpenTab ==
  /\ Calling
  /\ call' = "create"
  /\ \/ OfGui(CreateTab)
     \/ OfNative(Native!CreateTab)
     \/ OfHeadlessThenRefresh(Headless!CreateTab, Headless!ContextFreed)
  /\ Refreshed

\* A tab that is not there is reported without a refresh, and nothing changes.
DropTab(target) ==
  /\ Calling
  /\ call' = "close"
  /\ \/ OfGui(CloseTab(target))
     \/ OfNative(Native!CloseTab(target))
     \/ OfHeadlessThenRefresh(Headless!CloseTab(target), Headless!CloseReadsFreed(target))
  /\ Refreshed

ResizeActive ==
  /\ Calling
  /\ call' = "none"
  /\ \/ OfNative(Native!ResizeActive)
     \/ OfHeadless(UNCHANGED headlessVars, Headless!ActiveFreed)
  /\ stage' \in IF freed_used' THEN {stage, "died"} ELSE {stage}
  /\ UNCHANGED <<transportVars, observerVars>>

\* BrowserController::Shutdown.
ShutDown ==
  /\ \/ OfGui(Shutdown)
     \/ OfNative(Native!Shutdown)
     \/ OfHeadless(Headless!Shutdown, FALSE)
  /\ ForgetPages

ShutdownCall ==
  /\ Calling
  /\ call' = "shutdown"
  /\ ShutDown
  /\ UNCHANGED <<stage, transportVars>>

-----------------------------------------------------------------------------
(* The user, the pages, and the end of stdin.                              *)

PagesAndUser ==
  /\ Calling
  /\ call' = "none"
  /\ \/ OfGui(\E id \in 1 .. MaxTabs : OnWindowCloseRequested(id))
     \/ OfGui(RemoveClosedWindow)
     \/ OfNative(Native!Environment)
     \/ OfHeadless(Headless!PageOpensTab, FALSE)
     \/ OfHeadless(Headless!PageClosesItself, FALSE)
  /\ ForgetPages
  /\ UNCHANGED <<stage, transportVars>>

\* The reader thread's getline ends with the client, at any time.
StdinEnds ==
  /\ ~launch.embedded /\ stage \notin {"exited", "died"}
  /\ call' = "none"
  /\ stdin = "open" /\ stdin' = "ended"
  /\ UNCHANGED <<launch, stage, http_up, socketVars, runtimeVars>>

\* Mutant: the flag that App::Start passes is inverted.
OnTransportClosed_Inverted ==
  /\ ~launch.embedded /\ Calling
  /\ stdin = "ended" /\ stdin' = "told"
  /\ IF launch.http = "off" /\ launch.ipc = "off"
       THEN /\ call' = "none"
            /\ UNCHANGED <<guiVars, headlessVars, nativeVars, observerVars, freed_used>>
       ELSE call' = "shutdown" /\ ShutDown
  /\ UNCHANGED <<stage, http_up, socketVars>>

\* OnTransportClosed: with stdio as the only transport, nobody is left to ask.
OnTransportClosed ==
  /\ ~launch.embedded /\ Calling
  /\ stdin = "ended" /\ stdin' = "told"
  /\ IF launch.http = "off" /\ launch.ipc = "off"
       THEN call' = "shutdown" /\ ShutDown
       ELSE /\ call' = "none"
            /\ UNCHANGED <<guiVars, headlessVars, nativeVars, observerVars, freed_used>>
  /\ UNCHANGED <<stage, http_up, socketVars>>

-----------------------------------------------------------------------------
(* The end.                                                                *)

QuitPosted == shutdown_started \/ quit_posted \/ registry_shutting_down

LoopEnds ==
  /\ stage = "serving" /\ QuitPosted
  /\ call' = "none"
  /\ stage' = "leaving"
  /\ UNCHANGED <<launch, transportVars, runtimeVars>>

\* ~MCPServer destroys the IPC transport, then the HTTP transport, then stdio's.
StopIPCTransport ==
  /\ stage = "leaving"
  /\ call' = "none"
  /\ CloseListener(This) \/ UnlinkBound(This)
  /\ UNCHANGED <<launch, stage, stdin, http_up, runtimeVars>>

StopHttpTransport ==
  /\ stage = "leaving" /\ ~launch.embedded
  /\ call' = "none"
  /\ at[This] = "off"
  /\ http_up' = FALSE
  /\ stage' = "joining"
  /\ UNCHANGED <<launch, stdin, socketVars, runtimeVars>>

\* The reader thread is joined, which may have to wait in getline for the end of
\* stdin, then the controller goes with its observers and its runtime.
Exit ==
  /\ \/ stage = "joining" /\ (stdin # "open" \/ phase = "failed")
     \/ stage = "leaving" /\ launch.embedded
  /\ stage' = "exited"
  /\ call' = "destroy"
  /\ \/ phase # "up" /\ UNCHANGED runtimeVars
     \/ /\ phase = "up" /\ phase' = "gone"
        /\ observed' = {} /\ simulated' = 0
        /\ \/ OfGui(Destroy)
           \/ launch.runtime # "gui"
              /\ UNCHANGED <<guiVars, headlessVars, nativeVars, freed_used>>
  /\ UNCHANGED <<launch, transportVars>>

\* The process is killed.  Others see it in what it leaves at the socket path.
Killed ==
  /\ launch.ipc = "ok" /\ stage \notin {"launched", "exited", "died"}
  /\ call' = "none"
  /\ stage' = "died"
  /\ IF at[This] = "off" THEN UNCHANGED socketVars ELSE Die(This)
  /\ UNCHANGED <<launch, stdin, http_up, runtimeVars>>

\* The other process starts, serves, stops, crashes and starts again.
OtherProcess ==
  /\ launch.ipc = "ok"
  /\ call' = "none"
  /\ SocketStep(Other)
  /\ UNCHANGED <<launch, stage, stdin, http_up, runtimeVars>>

ProcessNext ==
  \/ StartRuntime
  \/ StartHttpTransport
  \/ StartIPCTransport
  \/ ListTabs
  \/ OpenTab
  \/ \E target \in 0 .. MaxTabs : DropTab(target)
  \/ ResizeActive
  \/ ShutdownCall
  \/ PagesAndUser
  \/ StdinEnds
  \/ OnTransportClosed
  \/ LoopEnds
  \/ StopIPCTransport
  \/ StopHttpTransport
  \/ Exit
  \/ Killed
  \/ OtherProcess

\* The main thread runs its tasks and goes on when nothing holds it up; Chrome
\* closes the tabs it was told to close and quits when nothing keeps it.
Fairness ==
  /\ WF_processVars(OnTransportClosed)
  /\ WF_processVars(LoopEnds)
  /\ WF_processVars(StopIPCTransport)
  /\ WF_processVars(StopHttpTransport)
  /\ WF_processVars(Exit)
  /\ WF_processVars(PagesAndUser /\ closing_all /\ strips' # strips)
  /\ WF_processVars(PagesAndUser /\ registry_shutting_down')

ProcessSpec == ProcessInit /\ [][ProcessNext]_processVars /\ Fairness

-----------------------------------------------------------------------------
(* Properties.                                                             *)

\* The type invariant.
ProcessTypeOK ==
  /\ TypeOK /\ SocketTypeOK
  /\ launch \in Launches
  /\ stage \in {"launched", "http", "ipc", "serving", "leaving", "joining",
               "exited", "died"}
  /\ call \in {"none", "initialize", "create", "close", "shutdown", "destroy"}
  /\ stdin \in {"open", "ended", "told"}
  /\ {http_up, freed_used, quit_posted, keep_alive, profile_keep_alive,
      closing_all, registry_shutting_down, told_to_quit, called_after}
       \subseteq BOOLEAN
  /\ context \in {"none", "live", "freed"}
  /\ contents \cup strips \subseteq 1 .. MaxPages
  /\ {active_web_contents, front} \subseteq 0 .. MaxPages
  /\ next_session_id \in 1 .. MaxPages + 1
  /\ observed \subseteq 1 .. MaxTabs + MaxPages
  /\ simulated \in Nat

\* A process serves on every transport it was told to, or not at all: one that
\* cannot bind its port or its socket, because another process is there, or was
\* killed and came back, ends instead.
NoHalfStartedProcess ==
  stage = "serving" =>
    /\ launch.http = IF http_up THEN "ok" ELSE "off"
    /\ launch.ipc = IF at[This] = "up" THEN "ok" ELSE "off"

\* As long as Shutdown was not called Chrome goes on, also when the user closes
\* the last window or stays on a page; afterwards the runtime holds nothing that
\* would keep Chrome from quitting, unless a call came behind the shutdown.
KeptAliveUntilShutdown ==
  /\ registry_shutting_down => told_to_quit
  /\ launch.runtime = "native" /\ stage = "serving" /\ ~called_after
       => IF told_to_quit THEN ~keep_alive /\ ~profile_keep_alive
                          ELSE keep_alive

\* The observers that capture console messages and simulate the mouse are on
\* open pages, whoever closed the others, and an address that comes back as
\* that of a new page is not taken for one observed already.
ObserversFollowPages ==
  ~freed_used => observed \subseteq OpenTabs /\ simulated \in observed \cup {0}

\* How far quitting has come.  What was posted to the loop, or Chrome's own end,
\* is not taken back; a user may hold up Chrome while it closes its windows.
QuitSeen ==
  IF QuitPosted THEN "certain"
  ELSE IF closing_all THEN "asked"
  ELSE IF told_to_quit THEN "held"
  ELSE "no"

Interface == INSTANCE BrowserRuntime WITH
  Id      <- 1 .. MaxTabs + MaxPages,
  NoTab   <- 0,
  watched <- launch.runtime # "headless",
  open    <- OpenTabs,
  active  <- ActiveTab,
  quit    <- QuitSeen

\* The controller may rely on the same promises whichever runtime is behind the
\* interface: through every mix of closes by the controller, by the user and by
\* pages, the active tab is an open one as far as the runtime is told, and a tab
\* the controller opens, unlike one of the user's, is in front.  The process is
\* bound to quit only when it was asked to, its last tab was closed, or it did
\* not start; a user can hold that up on a page, but nobody can take it back.
ImplementsBrowserRuntime == Interface!Spec

\* What ends a browser that Chrome runs is not the runtime alone: its user may
\* stay on a page, or a call behind the shutdown take the keep-alive again.
HeldUp ==
  /\ launch.runtime = "native" /\ told_to_quit
  /\ (keep_alive /\ called_after) \/ (~closing_all /\ strips # {})

\* When stdin is the only transport and ends while the process serves, the process
\* ends, with whatever is open then, whichever runtime it has.  Chrome may be held
\* up, and then ends when it is no longer.
EndsWithItsClient ==
  <>(/\ stage = "serving" /\ stdin = "ended"
     /\ launch.http = "off" /\ launch.ipc = "off")
  => []<>(stage \in {"exited", "died"} \/ HeldUp)

\* browser_close closes the current tab and says so: the controller's operations
\* use a browser that is there, until the loop ends.
TabCallsUseLiveBrowser == ~freed_used
=============================================================================
