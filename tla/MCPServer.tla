------------------------------ MODULE MCPServer ------------------------------
(***************************************************************************)
(* The dispatcher of browserd (browserd/mcp/mcp_server.cc).  Every         *)
(* transport hands its parsed JSON messages to MCPServer::OnMessage, as    *)
(* tasks of the browser's main sequence, together with a OnceCallback that *)
(* sends the response back where the message came from.  Most methods are  *)
(* answered inside OnMessage; tools/call goes through one FIFO queue,      *)
(* shared by all transports, of which one call runs at a time.             *)
(*                                                                         *)
(* A message is an element of Message, delivered at most once; what the    *)
(* code reads in it is given by constant functions.  All of the state is   *)
(* confined to the main sequence, so a task is one action.                 *)
(***************************************************************************)
EXTENDS Naturals, Sequences, FiniteSets

CONSTANTS
  Message,              \* the messages the transports may deliver
  Method,               \* Method[m]: its "method" member
  HasId,                \* HasId[m]: it has an "id" member, i.e. is a request
  ToolName,             \* ToolName[m]: params.name of a tools/call, or NoName
  NoName,
  Tools,                \* the names RegisterTool was called with
  MayHang,              \* tools whose handler may never run its callback
  Transport,            \* Transport[m]: where m comes from
  ShutdownOnStdioClose  \* what App::Start passes to MCPServer::Start

Methods == {"missing", "initialize", "notifications/initialized", "ping",
            "tools/list", "tools/call", "unknown"}

\* What a response_callback is run with: nothing (std::nullopt), a result, the
\* result of a tool call, or a JSON-RPC error.
Outcomes == {"nothing", "result", "toolResult", "error"}

ASSUME MessageAssumption ==
  /\ Method \in [Message -> Methods]
  /\ HasId \in [Message -> BOOLEAN]
  /\ NoName \notin Tools
  /\ MayHang \subseteq Tools
  /\ ShutdownOnStdioClose \in BOOLEAN

\* App::Start stops on stdin's end only when stdio is the sole transport.
ASSUME TransportAssumption ==
  /\ Transport \in [Message -> {"stdio", "http", "ipc"}]
  /\ ShutdownOnStdioClose => \A m \in Message : Transport[m] = "stdio"

VARIABLES
  received,               \* messages delivered so far
  initialized,            \* initialized_
  tool_call_in_progress,  \* tool_call_in_progress_
  tool_call_queue,        \* tool_call_queue_
  running,                \* calls whose handler still holds its callback
  sent,                   \* sent[m]: what m's response_callback was run with
  accepted,               \* history: the tools/call queued, in order
  stdio,                  \* "open" until OnTransportClosed has run
  loop                    \* the main loop: "running", "quitting" or "gone"

vars == <<received, initialized, tool_call_in_progress, tool_call_queue,
          running, sent, accepted, stdio, loop>>

queueVars == <<tool_call_in_progress, tool_call_queue, running, accepted>>

Init ==
  /\ received = {}
  /\ initialized = FALSE
  /\ tool_call_in_progress = FALSE
  /\ tool_call_queue = <<>>
  /\ running = {}
  /\ sent = [m \in Message |-> <<>>]
  /\ accepted = <<>>
  /\ stdio = "open"
  /\ loop = "running"

-----------------------------------------------------------------------------
(* Helpers.                                                                *)

\* Runs m's response_callback with o (SendNoResponse, SendResult, SendError).
Send(m, o) == sent' = [sent EXCEPT ![m] = Append(@, o)]

\* The reply to a call that leaves the queue: OnToolCallComplete's result, or
\* the error sent for a name that is not registered.
CallOutcome(m) == IF ToolName[m] \in Tools THEN "toolResult" ELSE "error"

\* Mutant: the unknown-tool branch returns without going on with the queue.
ExecuteNextToolCall_Strands(q, others, s) ==
  LET known == q # <<>> /\ ToolName[q[1]] \in Tools
  IN  /\ tool_call_in_progress' = (q # <<>>)
      /\ tool_call_queue' = SubSeq(q, 2, Len(q))
      /\ running' = others \cup (IF known THEN {q[1]} ELSE {})
      /\ sent' = IF q # <<>> /\ ~known
                   THEN [s EXCEPT ![q[1]] = Append(@, "error")] ELSE s

(***************************************************************************)
(* ExecuteNextToolCall, with the recursions of the code unrolled: the      *)
(* first k calls of the queue q are answered before it returns (unknown    *)
(* names, and handlers that run their callback before they return, each of *)
(* which calls ExecuteNextToolCall again), and then either the queue is    *)
(* empty or the next call's handler has kept its callback.  "others" are   *)
(* the calls still running and s the replies sent so far in this task.     *)
(***************************************************************************)
ExecuteNextToolCall(q, others, s) ==
  \E k \in 0 .. Len(q) :
    /\ k < Len(q) => ToolName[q[k + 1]] \in Tools
    /\ tool_call_in_progress' = (k < Len(q))
    /\ tool_call_queue' = SubSeq(q, k + 2, Len(q))
    /\ running' = others \cup (IF k < Len(q) THEN {q[k + 1]} ELSE {})
    /\ sent' = [m \in Message |->
                  IF \E i \in 1 .. k : q[i] = m
                    THEN Append(s[m], CallOutcome(m))
                    ELSE s[m]]

\* A message without an id gets no response whatever it asks for.
Notification(m) == ~HasId[m]

\* The answer OnMessage gives at once to a request that is not queued.
ImmediateOutcome(m) ==
  IF \/ Method[m] \in {"initialize", "ping"}
     \/ Method[m] = "tools/list" /\ initialized
    THEN "result" ELSE "error"

\* A tools/call that reaches tool_call_queue_.emplace in HandleToolsCall.
Queued(m) ==
  /\ HasId[m]
  /\ Method[m] = "tools/call"
  /\ initialized
  /\ ToolName[m] # NoName

-----------------------------------------------------------------------------
(* Actions.                                                                *)

\* A task posted by a transport is about to run OnMessage with m.
Deliver(m) ==
  /\ loop # "gone"
  /\ m \notin received
  /\ Transport[m] = "stdio" => stdio = "open"
  /\ received' = received \cup {m}
  /\ UNCHANGED <<stdio, loop>>

\* OnMessage for a message that is answered, or dropped, at once.
OnControlMessage(m) ==
  /\ Deliver(m)
  /\ ~Queued(m)
  /\ initialized' = (\/ initialized
                     \/ Method[m] = "notifications/initialized"
                     \/ Method[m] = "initialize" /\ HasId[m])
  /\ Send(m, IF Notification(m) \/ Method[m] = "notifications/initialized"
               THEN "nothing" ELSE ImmediateOutcome(m))
  /\ UNCHANGED queueVars

\* Mutant: HandleToolsCall does not look at tool_call_in_progress_.
OnToolsCall_Overlaps(m) ==
  /\ Deliver(m)
  /\ Queued(m)
  /\ accepted' = Append(accepted, m)
  /\ ExecuteNextToolCall(Append(tool_call_queue, m), running, sent)
  /\ UNCHANGED initialized

\* Mutant: the newest call is served first.
OnToolsCall_Lifo(m) ==
  /\ Deliver(m)
  /\ Queued(m)
  /\ accepted' = Append(accepted, m)
  /\ IF tool_call_in_progress
       THEN /\ tool_call_queue' = <<m>> \o tool_call_queue
            /\ UNCHANGED <<tool_call_in_progress, running, sent>>
       ELSE ExecuteNextToolCall(<<m>> \o tool_call_queue, running, sent)
  /\ UNCHANGED initialized

\* OnMessage for a tools/call that is queued (HandleToolsCall).
OnToolsCall(m) ==
  /\ Deliver(m)
  /\ Queued(m)
  /\ accepted' = Append(accepted, m)
  /\ IF tool_call_in_progress
       THEN /\ tool_call_queue' = Append(tool_call_queue, m)
            /\ UNCHANGED <<tool_call_in_progress, running, sent>>
       ELSE ExecuteNextToolCall(Append(tool_call_queue, m), running, sent)
  /\ UNCHANGED initialized

\* Mutant: the handler's callback can be run a second time.
OnToolCallComplete_Repeats(m) ==
  /\ loop # "gone"
  /\ \/ m \in running
     \/ running = {} /\ m \in received /\ sent[m] = <<"toolResult">>
  /\ ExecuteNextToolCall(tool_call_queue, running \ {m},
                         [sent EXCEPT ![m] = Append(@, "toolResult")])
  /\ UNCHANGED <<received, initialized, accepted, stdio, loop>>

\* A handler runs the callback it kept: the result goes out, the next call starts.
OnToolCallComplete(m) ==
  /\ loop # "gone"
  /\ m \in running
  /\ ExecuteNextToolCall(tool_call_queue, running \ {m},
                         [sent EXCEPT ![m] = Append(@, "toolResult")])
  /\ UNCHANGED <<received, initialized, accepted, stdio, loop>>

\* Mutant: the end of stdin is counted twice.
OnTransportClosed_Unguarded ==
  /\ loop # "gone"
  /\ stdio' = IF stdio = "open" THEN "closed" ELSE "closed twice"
  /\ UNCHANGED <<received, initialized, sent, loop, queueVars>>

\* Stdin ended: the reader thread's last task, behind all of its messages.
OnTransportClosed ==
  /\ loop # "gone"
  /\ stdio = "open"
  /\ stdio' = "closed"
  /\ loop' = IF ShutdownOnStdioClose THEN "quitting" ELSE loop
  /\ UNCHANGED <<received, initialized, sent, queueVars>>

\* BrowserController::Shutdown reached another way (the last tab closed).
ShutDown ==
  /\ loop = "running"
  /\ loop' = "quitting"
  /\ UNCHANGED <<received, initialized, sent, stdio, queueVars>>

\* The main loop returns and App destroys the server: no callback runs again.
LoopExit ==
  /\ loop = "quitting"
  /\ loop' = "gone"
  /\ UNCHANGED <<received, initialized, sent, stdio, queueVars>>

Next ==
  \/ \E m \in Message : OnControlMessage(m)
  \/ \E m \in Message : OnToolsCall(m)
  \/ \E m \in Message : OnToolCallComplete(m)
  \/ OnTransportClosed
  \/ ShutDown
  \/ LoopExit

\* A handler outside MayHang runs its callback in the end; the posted quit runs.
Fairness ==
  /\ \A m \in Message :
       ToolName[m] \notin MayHang => WF_vars(OnToolCallComplete(m))
  /\ WF_vars(LoopExit)

Spec == Init /\ [][Next]_vars

FairSpec == Spec /\ Fairness

-----------------------------------------------------------------------------
(* Properties.                                                             *)

\* The types of MCPServer's members and of the histories: the flags and the
\* queue of accepted calls, and the replies each response_callback was run with.
TypeOK ==
  /\ received \subseteq Message
  /\ initialized \in BOOLEAN
  /\ tool_call_in_progress \in BOOLEAN
  /\ tool_call_queue \in Seq(Message)
  /\ running \subseteq Message
  /\ sent \in [Message -> Seq(Outcomes)]
  /\ accepted \in Seq(Message)
  /\ stdio \in {"open", "closed"}
  /\ loop \in {"running", "quitting", "gone"}

\* Tool handlers never overlap: the flag tool_call_in_progress_, set and reset
\* by ExecuteNextToolCall alone, is up exactly while one handler holds its
\* OnToolCallComplete callback, whichever transports the calls came from.
SerialExecution ==
  /\ \A m, n \in running : m = n
  /\ tool_call_in_progress = (running # {})

\* No call is stranded: a queued call always has a running one ahead of it,
\* whose completion will start it (every path out of ExecuteNextToolCall,
\* the unknown-tool error included, must go on with the queue).
NoStrandedCall == tool_call_queue # <<>> => running # {}

\* Tool calls are answered in the order HandleToolsCall accepted them: the
\* answered ones are always a prefix of the accepted ones.
AnsweredInOrder ==
  \E n \in 0 .. Len(accepted) :
    \A i \in 1 .. Len(accepted) : sent[accepted[i]] # <<>> <=> i <= n

\* Every response_callback runs at most once, and a message whose callback has
\* not run is waiting in exactly one place: the queue or its handler.
ExactlyOneReply ==
  \A m \in received :
    LET places == {i \in 1 .. Len(tool_call_queue) : tool_call_queue[i] = m}
    IN  \/ /\ Len(sent[m]) = 1
           /\ m \notin running
           /\ places = {}
        \/ /\ sent[m] = <<>>
           /\ \/ m \in running /\ places = {}
              \/ m \notin running /\ \E i \in places : places = {i}

\* Every request is answered, unless the browser quits first or a handler that
\* may hang (browser_reload, whose waiter has no timeout) blocks the queue for
\* ever.
EventuallyAnswered ==
  \A m \in Message :
    (m \in received) ~> \/ sent[m] # <<>>
                        \/ loop = "gone"
                        \/ [](\E r \in running : ToolName[r] \in MayHang)

\* What the server promises its clients (module ToolService).
Service == INSTANCE ToolService WITH
  pending <- SubSeq(accepted,
                    Len(accepted) - Len(tool_call_queue)
                      - (IF running = {} THEN 0 ELSE 1) + 1,
                    Len(accepted))

\* The queue, the flag and the recursion implement that promise.
ImplementsToolService == Service!Spec
=============================================================================
