# A TLA+ model of browserd

browserd is a Chromium-based browser driven by programs: over MCP (JSON-RPC on
stdio, on HTTP or on a local socket), or in-process through a C API. This
directory holds TLA+ specifications of the parts of it whose correctness
depends on the order in which things happen, TLC configurations that check
them on small instances, and theorems checked by TLAPS. Source paths below are
relative to `src/browserd/` of the repository.

## 1. The system

    MCP clients            native host
     | stdio  HTTP  IPC       | C API (embed/)
     v    v     v             v
    [transports, own threads] [Schedule: any host thread]
           \   |   /              |
        main sequence / UI thread: one task at a time
          MCPServer  ------->  BrowserController <---
             (queue)              | waiters, requests
                                  v
                    BrowserRuntime: Headless | Gui | NativeChrome
                                  v
                               Chromium

| Component | State it keeps | Operations | What makes it correct |
|---|---|---|---|
| MCP dispatcher, `mcp/mcp_server.cc` | `initialized_`, `tool_call_in_progress_`, `tool_call_queue_` | `OnMessage`, `ExecuteNextToolCall`, `OnToolCallComplete`, `OnTransportClosed` | one tool at a time, FIFO across transports, one reply for each request, no call stranded, no tool before the handshake |
| stdio transport, `mcp/mcp_transport.cc` | reader thread | read a line, post it, post the end | messages keep their order, the end comes last |
| HTTP transport, `mcp/mcp_http_transport.cc` | `open_connections_` on the HTTP thread | `OnConnect`, `OnHttpRequest`, `OnClose`, `SendMCPResponse` | a response goes to an open connection or nowhere; stop is clean |
| IPC transport, `mcp/mcp_ipc_transport*.cc` | active client, its generation, listener, buffer | the thread's loop, `SendResponse`, stop | one client, no answer to another client, no line lost, nobody left waiting |
| Embedding API, `embed/browserd_embed.cc` | process lifecycle, session, `shutting_down` | `browserd_run`, `browserd_shutdown`, every operation through `Schedule` | one run, one teardown, no operation after a shutdown, the run ends |
| Application start, `main.cc`, `app.cc` | how far start or end has come, the transports that are up | `main`, `OnBrowserStart`, `App::Start`, the destructors | a process serves on every transport it was given or ends; it ends with its only client |
| GUI main parts, `gui/browser_main_parts.cc` | `quit_closure_`, `quit_requested_` | `PreMainMessageLoopRun`, `WillRunMainMessageLoop`, `RequestQuit` | a request to quit is never lost |
| GUI runtime, `gui/gui_runtime.cc` (embedding) | tabs, active tab, `shutdown_started_` | create, close, list tabs, shut down | the active tab is open, a tab closes only when asked, quit is asked once |
| Headless runtime, `headless_runtime.cc` | three raw pointers: browser, context, active page | the same | nothing is read through a pointer to what is gone |
| Native Chrome runtime, `chrome/native_chrome_runtime.cc` (`--gui`) | two keep-alives | the same, on Chrome's own windows | Chrome runs until it is told to quit, and then can |
| Browser controller, `core/browser_controller.cc` | observers, waiters, requests in flight | tabs, navigation, evaluation, screenshot, cookies | every callback exactly once, whatever races |
| Interactions, `core/browser_interactions.cc` | chains of callbacks and timers | click, type, drag, ... | each chain ends with one callback |
| MCP tools, `mcp/tools/` | none of their own | 25 tools, each a check of arguments and a call of the controller | the answer says what became of the call |
| IPC socket path, `mcp/mcp_ipc_transport_posix.cc` | the file system, shared with other processes | probe, unlink, bind, listen, unlink at the end | a server's path is not taken away from it |
| Switches, platform, windows | configuration | | read once at start |

Behaviours that are hard here: four kinds of threads (main/UI, IPC, HTTP, the
stdin reader, and the host's own) that exchange tasks and share a few fields;
callbacks that may run at once, later or never; pages that go away under an
operation; timers that race with answers; requests to quit that come from five
places; a user who opens and closes Chrome's windows; another process at the
same socket path; a network service that dies with the replies it owed. `PROJECT.json` lists the hazards, each at its line.

## 2. Modules

| Module | Models | State and actions |
|---|---|---|
| `MCPServer` | the dispatcher, as all transports see it | the server's members by name, plus `running` (handlers that hold their callback), `sent` and `accepted` (histories). One action per task of the main sequence: `OnControlMessage`, `OnToolsCall`, `OnToolCallComplete`, `OnTransportClosed`, and the end of the program |
| `ToolService` | what the dispatcher promises: calls waiting in order, replies sent once | abstract; `MCPServer` implements it with `pending` = the running call followed by the queue |
| `EmbedLifecycle` | `browserd_run`, `browserd_shutdown`, `Schedule` and the GUI main loop | the UI thread's position (`main`), its task queue, the session's fields, each host thread's position. A call from a host thread is two steps, the test of the session and the use of it, because the code takes no lock between them |
| `BrowserRuntime` | what `browser_runtime.h` promises about tabs and about quitting, call by call | abstract: `call` names the method a step is a call of, so that a tab the controller opens is in front while one of the user's or a page's may be behind; `quit` is asked for, held up by the user, or certain. `BrowserProcess` shows that each of the three runtimes keeps it |
| `GuiRuntime` | the GUI runtime's tabs and windows | the runtime's members, plus the tasks posted for windows the user closed. One action per method |
| `HeadlessRuntime` | the headless runtime's pages | its pointers, and what they point to: `context` may be `"freed"`, the active page may be one that is closed. One definition per method, and for each one whether it reads freed memory |
| `NativeChromeRuntime` | the runtime of `--gui` | the two keep-alives, Chrome's tabs, and whether Chrome is closing its windows or quits. One action per method; Chrome and its user are `Environment` |
| `SocketPath` | start and end of the IPC transport at its path, by any number of processes | what the path names, and for each process its next system call on the path, each of them a step. `orderly` is a history: no two starts or ends have overlapped |
| `BrowserProcess` | one process from `main` (or `browserd_run`) to its end, and another one at its socket path | extends `GuiRuntime` and `SocketPath`, instantiates the two other runtimes. `stage` goes from `launched` through the start of the transports to `serving`, and by `leaving` and `joining` to `exited`; or the process has died. One action per operation on tabs, per step of the start and of the end |
| `IPCTransport` | the POSIX IPC transport once it listens | the IPC thread as a program counter over the steps between its uses of `lock_`, the main thread's `SendResponse` and destructor, the clients and the kernel's buffers |
| `HttpTransport` | the HTTP transport from its start to its end | the main thread's position, the HTTP thread with its server and open connections, the queue of tasks of each thread, and the clients. One action per task, per event of `net::HttpServer`, and for each half of what blocks |
| `PageOperations` | the controller's operations that wait: `NavigationWaiter`, `ReloadWaiter`, `JavaScriptEvaluationRequest`, `ScreenshotCaptureRequest`, the cookie callbacks, and `PageInstrumentation` | for each operation the life of its heap object (`phase`), its page, timers, owed replies and the statuses its callback was run with; for each page what Chromium says of it. One action per operation, per handler, per timer |
| `Interactions` | click, hover, type, press key, select, drag and scroll | for each interaction the next task of its chain (`step`), what remains of it, what it has forwarded to the page. One action per task |
| `McpTools` | the 25 tools of `mcp/tools/`, and the cookie operations of the controller whole | extends `Interactions`. The call under way (`request`), the profile's cookies (`jar`), and what the client has been told of each cookie (`told`, a history). One action per way a call can begin, per cookie operation served, per reply |
| `MC...` | constants and symmetry for TLC | |
| `...Proofs` | the theorems about `MCPServer`, `PageOperations`, `HttpTransport`, `BrowserProcess` (with `SocketPath`), `GuiRuntime`, `EmbedLifecycle`, `IPCTransport` and `McpTools` (with `Interactions`) | |

What is abstracted, and how it corresponds to the code:

* `MCPServer`. A message is a model value and constant functions say what the
  code reads in it. `ExecuteNextToolCall` calls itself for an unknown tool, and
  through `OnToolCallComplete` for a handler that completes at once; the
  definition unrolls that recursion into "the first k calls are answered, the
  next one runs". `controller_` is never null in this program (`app.cc` creates
  it before the server), so that branch of the source is not in the model.
* `EmbedLifecycle`. An operation is a call that starts, and ends in a task of
  its own or never; its completion runs host code, which may call the API.
  When the controller is destroyed some operations answer (those that observe
  their page) and some do not. Using a controller that another thread has
  destroyed is undefined behaviour: the step either goes on or crashes.
* `GuiRuntime`. A target id `gui-<n>` is the number n. The host code that a
  waiter may run in the middle of an erase is not in this module (section 6).
* `HeadlessRuntime`. A page is its address, as its target id is, so an address
  that was freed may come back as that of another page. Chromium's
  `HeadlessBrowserImpl::Shutdown` destroys contexts at once; it is external. A
  read of freed memory finds nothing there, or the process dies of it.
* `NativeChromeRuntime`. Which tabs share a window is left out: what the runtime
  asks for is the active tab of the window activated last.
* `SocketPath`. The checks of the parent directory and of the length of the path
  are one way for a start to fail. A process that dies leaves its socket behind.
* `BrowserProcess`. The binary runs headless or, with `--gui`, Chrome's own user
  interface; `GuiRuntime` and the headless runtime are what embedding uses. A
  transport is off, configured, or badly configured; how a port, a host name
  and a token are judged is left out. The IPC thread's steps of a start come one
  by one, because another process may come between them.
* `McpTools`. Of the arguments there is which of them are given with the type
  the tool looks for. The operation behind a page tool ends well or badly; its
  races are in `PageOperations`. A request about cookies is served in one step
  and its reply arrives in a later one, with pages that set cookies in between.
  When the network service dies Chromium drops the callbacks it had.
* `IPCTransport`. A client connects once and stands for its descriptor. A line
  is two pieces, so that every way of cutting the stream is there: in the
  middle of a line, at its end, over several lines. `poll` of a descriptor the
  other thread has closed may or may not report it (POLLNVAL, or a descriptor
  given to something else meanwhile). A `send` that finds the socket full keeps
  `lock_`, as in the code. Not in the model: a closed descriptor whose number
  is reused by an unrelated file between two steps of the thread.
* `HttpTransport`. A request is of a kind: refused by one of the checks of
  `OnHttpRequest`, or a message that `MCPServer` answers at once, answers with
  nothing, or queues (in the order `MCPServer` is shown to keep). Task queues
  are first in, first out; events of the network fall between any two tasks of
  the HTTP thread. A connection number is used once, as `net::HttpServer` does.
  A response that cannot be serialised (status 500) is like any other answer.
* `PageOperations`. Pages are the environment: they navigate, redirect, commit,
  stop, fail, crash and go away in any order Chromium could produce. Everything
  runs on the UI thread, and a task is not always one step: Chromium tells a
  page's observers of an event one after the other (`notice`), and the callback
  an observer runs may call one more operation before it returns (`inline`), as
  the dispatcher does when a tool completes. A waiter made while its page tells
  of an event may or may not be told of it. A screenshot whose page is
  destroyed before its fallback starts uses the page through a raw pointer: the
  fallback reports that it has no frame, goes on, or the process dies
  (`crashed`). `timeout + 1000` wraps, as in the build. Not in the model: a page
  that is closed by the callback of an operation on it, the random movements of
  `BehaviorSimulator`, and `DevToolsEvaluationClient`, which nothing creates.
* `Interactions`. A chain has one task or reply outstanding at a time, and each
  task looks for the page's render view anew. Positions, key codes and the text
  of scripts are left out; a script says ok or not. `GetPrimaryMainFrame` of an
  open page is never null, so that early return is not in the model. A view
  that is replaced forgets what was pressed in it. The tasks keep the page as a
  raw pointer: when it is gone, a task dies or finds no view (`UseAfterFree`).

## 3. Runs

| Run | Instance | What it shows |
|---|---|---|
| `mcp_mixed` | ten messages of all kinds, from three transports | serial execution, FIFO answers, exactly one reply, that the server implements `ToolService`, and that every request is answered unless the browser quits or `browser_reload` hangs |
| `embed_calls` | two threads call `browserd_run`, two others use the session, two calls | one run per process, one teardown, and a shutdown asked for on a host thread or in a completion callback ends the run |
| `embed_ready` | one of each, violated | a shutdown in the ready callback of a GUI run is lost (finding 1) |
| `process_lives` | a process of each kind with up to four GUI tabs, or three pages of the others; another process at the same path | late window tasks, what ends the process, the active tab, observers that follow their pages, keep-alives, the socket path, no half-started process, that each runtime implements `BrowserRuntime` call by call, and that a process whose only client is gone ends, Chrome's too unless it is held up |
| `headless_last_tab` | the binary without switches, violated | closing the last tab reads a context that is gone (finding 4) |
| `ipc_clients` | two clients, two lines each | one active client, answers that reach the client that asked, lines dispatched once and in order, and served if their client stays active |
| `ipc_waiting` | three clients, violated | a client left waiting for ever (finding 2) |
| `http_requests` | two connections, two calls, a notification and a bad request on either | answers go once to who asked, pipelined calls keep their order, the server is there while a connection is listed, every request is answered, and the main thread comes back from a start that works or fails and from the destructor |
| `page_tabs` | one page, a new tab, a navigation, a reload, a history step | "ok" only of a page that was there, no navigation on a page that is gone, no reload that missed the end of its load, and that a new tab is captured from its first document |
| `page_requests` | one page, a screenshot, a wait, a cookie operation | a callback at most once, a timer for whatever has a deadline, and an answer in the end |
| `page_blank` | a navigation to `about:blank`, violated | it arrives and is reported as timed out (finding 3) |
| `tool_calls` | ten interactions of every kind, any two of them at once by a host, or any two tool calls by an MCP client over four cookies | ok means that the whole of an interaction was forwarded, in order; no button or key stays down; what a client was told of a cookie is so; every call is answered |

Bounds. The dispatcher treats messages alike apart from their kind, so one of
each kind, and two of the kind that is queued and answered normally, give every
order of arrival, completion and failure of up to four queued calls; stdin's end
quits the browser only when stdio is the one transport, which adds nothing to a
browser that may be told to quit at any time. Two connections
let an answer go astray, and two calls, a message that overtakes them and a
refusal, sent on either, meet in every order. Two host
threads are enough for a test of one to be overtaken by a use of the other, and
the third party, the UI thread, is always there. Four tabs (`MaxTabs`) allow a
close in the front, the middle and the end of the list, with a task posted for
one that the user closed; three addresses (`MaxPages`) let one be freed and come
back while two others are open. Two processes at one path overtake each other
at every system call, and one of them may crash and start again without end.
`MCLaunches` leaves out only Chrome with both transports: the order of the
transports does not depend on the runtime. Two clients are needed for one to replace another, a third for one to
wait behind them; `MaxLines = 2` gives a line after a line, and `Room = 1` a
send that blocks. The operations on a page meet only through that page and
through callbacks that call one another, so three or four of them on one page,
with a URL asked for and one on another host to which it may redirect, give
every race of events, timers, replies and posted checks. Two interactions at
once (`MaxStarted`) show that their chains do not disturb each other; paths of
one or two points, two characters and scroll steps of two or three pixels out
of five make each loop run zero, one and several times, with a last step that
is cut. Two tool calls (`MaxCalls`) let an answer be contradicted by the next
one, two names and two sites let a filter take too much or too little, and one
change by a page (`MaxChanges`) falls before, during or after a request. Under an
MCP client, views change only while an interaction uses them and pages change
cookies only before the interactions, which do not look at cookies. `MaxTabs`,
`MaxPages`, `MaxLines`, `MaxStarted`, `MaxCalls` and `MaxChanges` are the only
bounds in guards; everything else is finite because messages, calls and clients
are.

Fairness. `mcp_mixed` assumes that a handler not in `MayHang` runs its callback
(its waiter or request has a timer) and that the loop runs the quit it was
given. `embed_calls` and `embed_ready` assume that the UI thread takes the tasks
of its queue, that callbacks return, and that a host thread finishes the call
it is in; nothing is assumed of when hosts call. `ipc_clients` and `ipc_waiting`
assume that the two threads run, and that clients read the responses they are
sent: `send` blocks otherwise, and the code does nothing about it.
`http_requests` assumes
that both threads run their tasks and that tool calls end; clients owe nothing.
`page_requests` assumes that the UI thread finishes the task it is in and that an
armed timer fires in the end, however often the thread is found busy when it is
due (strong fairness); pages and replies owe nothing. `tool_calls` assumes
that posted tasks run, that a snapshot (3 s) and a script (10 s) answer within
the timeouts they are given, and that a request to the network service is
served; `browser_reload`, which has no timeout, and replies lost with that
service are left out of what it promises. `process_lives` assumes that the main
thread runs the tasks that end the process, and that Chrome closes the tabs it
was told to close and quits when nothing keeps it; users and clients owe nothing. So
`EndsWithItsClient` asks of every runtime to end when stdin, the only transport,
has ended, and excuses Chrome only once it was told to quit: while its user stays
on a page that objects, or a call behind the shutdown has taken a keep-alive again
(`HeldUp`). A runtime that is not told to quit, or one that forgets, violates it.

`CHECK_DEADLOCK FALSE` appears where the system stops: messages run out, the
run returned, the runtime or the transport was destroyed.

## 4. Findings

1. `gui/browser_main_parts.cc:59`. The ready callback runs before the main loop
   exists. A `browserd_shutdown` there reaches `RequestQuit`, which records
   `quit_requested_` and has no closure to run. `WillRunMainMessageLoop` sees
   the flag and calls `RequestQuit`, which returns at once because the flag is
   set. The loop of a torn-down session runs for ever, although
   `embed/README.md:17-19` tells the host to call `browserd_shutdown` and says
   `browserd_run` returns when browserd shuts down.
2. `mcp/mcp_ipc_transport_posix.cc:322`. The readiness of one client is applied
   to another. When a failed `send` closes the polled client while the thread
   is about to accept the next, `recv` is called on a client that has sent
   nothing and blocks the thread: no other client is accepted or refused, and
   the destructor would wait for the thread until that client speaks or goes.
3. `core/browser_controller.cc:1272`. `IsRequestedNavigation` refuses
   `about:blank`, the URL of a page that has loaded nothing yet, also when it is
   the URL asked for. `Navigate` to `about:blank` loads the page and then
   answers `kTimeout` after 15 s; `CreateTab` answers such a request at once.
4. `headless_runtime.cc:149`. `CloseTab` of the last page shuts the headless
   browser down, which destroys its context; the runtime keeps its pointer, and
   the refresh of `BrowserController::CloseTab` (`core/browser_controller.cc:1517`)
   looks for pages in it before the answer is given. `browser_close` of the only
   tab, answered "Current tab closed" (`mcp/tools/tab_tools.cc:89`), reads freed
   memory.

What a property leaves out. `page_requests` has no navigation, with which it is
beyond what TLC can check here: that a navigation is answered rests on
`NoStrandedOperation`, proved for all operations, and on its timer. `CreateTab` to
a URL answers "ok" when the tab is among those of the runtime by then, and
`kTabNotFound` or `kSessionNotReady` otherwise (`OnArrival`); to `about:blank` it
answers at once, without a waiter, and `CreatedTabsAreCaptured` says nothing of it.

An observation no document speaks of: a scroll has one remainder for both axes
(`core/browser_interactions.cc:650`), so a scroll by (5, 2) goes (5, 5).

## 5. Proofs

`MCPServerProofs` proves, for any set of messages, tools and transports, that
`Spec` implies `[]TypeOK`, `[](SerialExecution /\ NoStrandedCall)`,
`[]AnsweredInOrder` and `[]ExactlyOneReply`, and that it implements
`ToolService` (`Refinement`). It uses no assumption on the
constants beyond those `MCPServer` states.

None of these is inductive alone: that answers come in order depends on the
queue being a suffix of the accepted calls, and that a call is answered once
depends on its being in one place before. The inductive invariant is
`IInv == TypeOK /\ Line /\ Busy`. `Line` says that the accepted calls stand in
one line, without repetition: those answered, then the one that runs, then the
queue in order; that a call has been replied to exactly when it is in the first
part; and that a message outside the line has a reply as soon as it is
received. `Busy` ties `tool_call_in_progress_` to the running call and forbids
a queue without one. `ExecuteNextKeepsLine`, `EnqueueKeepsLine`,
`FinishKeepsLine` and `ControlKeepsLine` say what each operation does to the
line, as facts about sequences; `ControlInv`, `ToolsCallInv` and `CompleteInv`
lift them to the actions and `StepInv` collects them. For the refinement,
`Pending` is the line behind its answered part. `OnlyAnswers` says that a task
adds replies only where there were none, and `AnswersPending` that, the line
being kept, those it adds are to the first of the pending calls; `ControlService`,
`CallService` and `CompleteService` name the step of `ToolService` that each task
takes, and the other tasks stutter.

`PageOperationsProofs` proves of `PageOperations`, for any pages, URLs and
operations, `[]TypeOK`, `[]AnsweredOnce` and `[]NoStrandedOperation`, from
`PageAssumption` and `OpAssumption`. The strengthening is `CallbackHeld`: an
object that has not completed has not run its callback. Without it a step of a
waiting operation could not be shown to be its first answer. The invariant is
split into parts by the variables they speak of (`Callbacks`, `PageTypes`,
`NoticeType`, `ObjectTypes`, `NoStrandedOperation`); `CompleteKeeps`,
`AnswerKeeps` and `WaitKeeps` say what the three ways of changing an operation
do to them, `Kept` what a handler of a waiter leaves behind, and one lemma for
each kind of step puts the parts together again.

The same module proves the four properties that tie operations to pages:
`[]OkMeansArrived`, `[]NavigationEndsWithPage`, `[]ReloadNotForgotten` and
`[]CreatedTabsAreCaptured`. They need `PageInv`. `Observers` says that the
waiters in a page's list, and those an event is still being told to, work on that
page, and that a waiter of an open page is in its list; `Resolved` that what an operation works on has been a
page; `Arrivals` that the page of a navigation shows a URL it has shown since
the navigation began, and that a waiter has `seen` only a URL that counts as the
one asked for; `Loads` that a reload waits for a load that goes on, or one
whose end it has yet to be told; `Instrumented` that a created tab that is open
has its console captured. Between the handlers and these parts stand the
`...Effect` lemmas: they reduce every step of `Next` to what it may do to the
pages, the lists and the phases (`NextEffect`), so that each part has one lemma
instead of one for each of the handlers.

`HttpTransportProofs` proves of `HttpTransport`, for any connections and
requests, `[]TypeOK`, `[]ServerOutlivesConnections`,
`[]AnswersReturnToTheAsker` and `[]CallsAnsweredInOrder`. That a transport that is
up has a server depends on what the HTTP thread may still find in its queue.
`Stages` says it: while `Start` waits, exactly the task it posted; a stop or a
quit only once the destructor has begun; answers otherwise. `ClientInv`,
`HttpThreadInv`, `MainThreadInv` and `LifeInv` treat the steps by who takes them.
That an answer goes back once to who asked needs to know where each request is:
`Placed` says that it stands in one of the three queues or among the answers, in
one place only (`Once`, `Apart`), with a connection that asked it (`Owned`).
`TakeFirst` and `PutLast` say what a step at either end of a queue does to that.
The order of the answers needs `Sequenced`: a request is asked once (`AskedOnce`),
the listed connections are those whose end the thread has not seen (`Listed`),
nothing is posted before the start (`Unstarted`), of two calls of a connection the
later is never ahead of the earlier, in whichever queues they stand (`Ordered`),
and a call of a client that is there is not lost (`Kept`).
`CallsAnsweredInOrder` is stated of pairs of calls: an answer has before it the
answers to all calls asked earlier. Together with `AnswersReturnToTheAsker` that
says that the answered calls are a beginning of those asked.

`BrowserProcessProofs` begins with `SocketPath`: for any number of processes that
start, stop and die for ever at one path, `[]PathNamesItsServer`. The invariant
`PathInv` needs that at most one process is in the middle of a start or an end
while history is `orderly` (`OneBusy`), that the path names a process exactly
while its socket is bound (`PathExact`), and that what a process is about to
unlink as stale is no server (`UnlinksNoServer`): the probe that found nobody may
be old.

It goes on with `BrowserProcess`, for any sets of launches and any bound on
pages. Two lemmas take the composition apart: `SocketSide`, that a step is a step
of `SocketPath` or leaves the path alone (hence `SocketSteps`: a process behaves,
at the path, as `SocketPath` says, and `ProcessPathIsExact`), and
`StepOfOneRuntime`, that a step is one of the runtime the process was launched
with, or one its runtime has no part in. The invariant is `ProcessInv`:

- `RuntimeInv`: the invariant of `GuiRuntime` (`IInv`), whose lemmas are used as
  they stand; the runtimes the process was not launched with stay as they were
  made (`OnlyItsRuntime`); ids stay within the bounds (`TargetIds`); the active
  tab of the GUI's and of Chrome's runtime is an open one (`ActiveIsOpen`);
  Chrome's keep-alives are let go by `Shutdown` alone (`KeepAlives`); nothing is
  there before the runtime is (`NothingBefore`);
- `Started`, what main has made when it comes to each stage, and with it
  `NoHalfStartedProcess`;
- `ObserversFollowPages`: behind every call the observers are made from the list of
  pages anew (`RefreshFollows`), which needs the active tab to be an open one; what
  closes without a call takes its observer along.

From it follow `[]NoHalfStartedProcess`, `[]KeptAliveUntilShutdown`,
`[]ObserversFollowPages`, the promises of `GuiRuntime` inside the process
(`GuiPromisesKept`, `ActiveIsKeptInProcess`), type correctness, and the
refinement `ImplementsBrowserRuntime`. For that one, `GuiImplements`,
`HeadlessImplements` and `NativeImplements` name the step of `BrowserRuntime` that
each operation, page and user takes, a call of the controller being the step of
that call and no other, and `NoRuntimeImplements` shows that the rest of the
process does nothing the interface can see. The `May...` lemmas state each step of
the interface as what it asks of the call, the tabs, the active tab and the quit.
That Chrome's end is certain only after it was asked for needs
`closing_all => told_to_quit`, which is part of `KeepAlives`.

`GuiRuntimeProofs` proves of `GuiRuntime`, for any options and any bound,
`[]PostedNamesTheAsker`, `[]ZeroTabsAsConfigured`, `[]QuitsOnce` and the action
property `ActiveKept`. All rest on ids being given once (`IdsGivenOnce`): the
tabs, the windows closed by the user and the tasks posted for them name
different ids below `next_tab_id`. `ErasedOne`, `AppendElements` and
`TailElements` say what the operations on the list do to its elements.

`EmbedLifecycleProofs` proves, for any threads and calls,
`[]OneRunPerProcess`, `[]OneTeardown` and `[]TypeOK`. `OneEntered` ties the state of the
process to the one call that got past `TryBeginRun`; `OneController` ties the
controller and the histories of starts and teardowns to the position of that
call. `LifeParts` ties the session and its loop to each other: there is a session
while the loop runs (`SessionThere`), the quit closure is set from the start of
the loop (`LoopKnown`), a task that shuts down was posted by somebody who asked
(`AskedFirst`), and a runtime that is down has told the loop, unless it went down
before there was one (`DownEndsLoop`: the exception is the finding on the ready
callback).

`IPCTransportProofs` proves of `IPCTransport`, for any clients and lines,
`[]OneActiveClient`, `[]AnswersReachTheAsker` and `[]EveryLineDispatched`. What makes
the first two inductive is that
a generation belongs to one client (`OneOwner`): what is active, what is left in
the buffer, what is posted under its number and what is about to be received
are that client's, although accept, close, receive and send are steps of two
threads. `Connections` says which client is open at each step of the IPC thread.
For the lines, `Streams` adds that the buffer holds what the received pieces
leave behind the last complete line (`RestInBuffer`) and that nothing is taken
from a connection that waits (`NotYetTaken`). `EveryLineDispatched` is stated with
sets: the lines dispatched for a client are exactly those it has completed, and
of two of them the later has the higher number. `DispatchLines` and
`PostedInOrder` say what the loop over a buffer adds to that.

`McpToolsProofs` proves, for any names, sites and bounds, `[]AnswersAreTrue`: a
client is right about every cookie but those its request is about
(`ClientIsRight`), and a reply on its way is true of every cookie that no page
has touched since (`ReplyIsTrue`). It proves `[]NothingHeldAtTheEnd` for any
interactions: while a button or key is down a task that releases it is to come
(`DownWithTask`). And it proves `[]CarriedOutInFull`, which holds at the end of a
chain of tasks and needs to know where the chain stands in the middle of it:
`Chains` says which task may come next for which kind of interaction (`HasTask`),
that the number of events sent is what that task leaves to do (`Count`), that
they are the first of the whole (`Begun`), how far a scroll has gone
(`Scrolled`), and that ok is answered behind the last only (`OkIsWhole`).

The theorems assume of the constants what the modules state: that names of
nothing (`NoPage`, `NoClient`, `Nothing`, `Absent`, `"idle"`) name nothing else, that
bounds are natural numbers, that the two processes of `BrowserProcess` are two
(`This # Other`), and that an operation's kind is one of those the code has.

Every invariant, action property and refinement that a passing run checks is
proved. Only model-checked is liveness, which with fairness and ENABLED is out
of TLAPS's reach. The safety each of the eight properties rests on is proved: what waits is where
a step that goes on finds it, and what was asked for is not forgotten.

| Checked by TLC | What it rests on, proved |
|---|---|
| `EventuallyAnswered` | `Line` and `Busy`: a queue has a running call before it |
| `EveryRequestAnswered`, `MainThreadComesBack` | `Placed` and `Kept`: a call stands in a queue until it is answered; `Stages`: the task that ends the wait is in the queue |
| `LinesAreServed` | `Streams`: a complete line has been dispatched |
| `EveryOperationAnswered` | `NoStrandedOperation`: who has a deadline has a timer armed |
| `EveryCallAnswered` | of the interactions, `HasTask`: the task that is to come is one their kind can take; of the cookie tools, nothing yet |
| `ShutdownInLoopEndsRun` | `ShutdownNotLost`: until the run is over, the loop was told to quit or the task that tells it is posted |
| `EndsWithItsClient` | `EndNotForgotten`: a runtime asked to quit, stdin having ended, stays asked |

The runs that expect a violation check properties that do not hold, so there is
nothing to prove of them.

## 6. Not modelled, and the plan

In this order:

1. Operations inside a runtime that erases a tab: `PageOperations` composed
   with `GuiRuntime`, for the callbacks that run synchronously there and may
   close tabs or shut down.
2. The Windows variant of the IPC transport: a named pipe with one instance,
   whose thread blocks in `ConnectNamedPipe` and `ReadFile`.
3. Pure parts: the embedder's switches, the default switches, what HTTP admits
   (origin, token, host), the handshake's choice of a version.

Theorems after those of section 5: what else liveness rests on (a cookie call
under way has a reply on its way, or the service that owed it is gone; a control
message stands in a queue until it is answered, as `Kept` says of calls); the
lemmas on sequences that `HttpTransportProofs`, `EmbedLifecycleProofs` and
`IPCTransportProofs` each state for themselves, in one place; and theorems of the
parts above once they are modelled.

What a model of these parts cannot say: whether a read of freed memory or a
data race goes well (`UseAfterFree`, `Crash` and `freed_used` are steps of the
models, with every outcome), and how long anything takes.

Left out for good: the choice of a profile directory, native windows and platform set-up, the content embedder's
forwarding classes, patches to Chromium, scripts and packaging (no protocol of
this program), the conversion of results and arguments, logging and wording.
