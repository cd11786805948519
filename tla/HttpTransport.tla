--------------------------- MODULE HttpTransport ---------------------------
(***************************************************************************)
(* The Streamable HTTP transport (browserd/mcp/mcp_http_transport.cc): its *)
(* own thread, which owns the server and the set of open connections and   *)
(* refuses or forwards requests; the main thread, which starts it, runs    *)
(* MCPServer::OnMessage and at the end destroys it; and clients that       *)
(* connect, send requests without waiting for the answers and hang up.     *)
(* Each thread has a queue of tasks, and everything one of them says to    *)
(* the other is a task, except that Start and the destructor block.        *)
(*                                                                         *)
(* net::HttpServer gives every connection a number of its own, so a        *)
(* connection here is used once.  MCPServer is what MCPServer.tla says of  *)
(* it: tool calls are answered one after the other in the order they came, *)
(* every other message at once.  A request that fails a check (path,       *)
(* origin, token, method, Accept, JSON; web sockets) is just refused.      *)
(***************************************************************************)
EXTENDS Naturals, Sequences, FiniteSets, SequencesExt

CONSTANTS
  Conn,      \* connections
  Request,   \* requests, each sent at most once
  Kind       \* "refused", "call", "control" or "notification"

ASSUME KindAssumption ==
  Kind \in [Request -> {"refused", "call", "control", "notification"}]

VARIABLES
  main,              \* the main thread: "new", "starting", "failed", "up",
                     \* "stopping" or "gone"
  http_thread,       \* "off", "running" or "ended"
  started,           \* what Start waits for: "unknown", "bound" or "failed"
  http_server,       \* http_server_ is set
  open_connections,  \* open_connections_
  http_tasks,        \* tasks of the HTTP thread
  main_tasks,        \* messages posted to the main thread: [conn, req]
  held,              \* tool calls MCPServer keeps the callbacks of, oldest first
  peer,              \* peer[c]: "new", "connected", "hung up" or "closed"
  asked,             \* history: asked[c], the requests read from c, in order
  answers            \* history: answers[c], what c's client got: [req, status]

vars == <<main, http_thread, started, http_server, open_connections,
          http_tasks, main_tasks, held, peer, asked, answers>>

threadVars == <<main, http_thread, started>>
serverVars == <<http_server, open_connections>>
queueVars  == <<http_tasks, main_tasks, held>>
clientVars == <<peer, asked, answers>>

Task(what) == [task |-> what]

\* BindPostTask around SendMCPResponse: running it posts this to the HTTP thread.
Response(m, status) ==
  [task |-> "send", conn |-> m.conn, req |-> m.req, status |-> status]

Init ==
  /\ main = "new"
  /\ http_thread = "off"
  /\ started = "unknown"
  /\ http_server = FALSE
  /\ open_connections = {}
  /\ http_tasks = <<>>
  /\ main_tasks = <<>>
  /\ held = <<>>
  /\ peer = [c \in Conn |-> "new"]
  /\ asked = [c \in Conn |-> <<>>]
  /\ answers = [c \in Conn |-> <<>>]

-----------------------------------------------------------------------------
(* Start, and the end of it on the other thread.                           *)

\* A host that is not allowed and a thread that does not start fail at once.
Start ==
  /\ main = "new"
  /\ \/ /\ main' = "failed"
        /\ UNCHANGED <<http_thread, http_tasks>>
     \/ /\ main' = "starting"
        /\ http_thread' = "running"
        /\ http_tasks' = <<Task("start")>>
  /\ UNCHANGED <<started, serverVars, main_tasks, held, clientVars>>

\* The HTTP thread takes its oldest task.
Runs(what) ==
  /\ http_thread = "running"
  /\ http_tasks # <<>>
  /\ Head(http_tasks).task = what
  /\ http_tasks' = Tail(http_tasks)

\* Mutant: a failure to listen returns without signalling.
StartOnHttpThread_Silent ==
  /\ Runs("start")
  /\ \/ http_server' = TRUE /\ started' = "bound"
     \/ UNCHANGED <<http_server, started>>
  /\ UNCHANGED <<main, http_thread, open_connections, main_tasks, held,
                 clientVars>>

\* The socket is bound and the server made, or not; either way Start goes on.
StartOnHttpThread ==
  /\ Runs("start")
  /\ \/ http_server' = TRUE /\ started' = "bound"
     \/ started' = "failed" /\ UNCHANGED http_server
  /\ UNCHANGED <<main, http_thread, open_connections, main_tasks, held,
                 clientVars>>

\* started.Wait() returns; after a failure the idle thread is stopped.
StartReturns ==
  /\ main = "starting"
  /\ started # "unknown"
  /\ main' = IF started = "bound" THEN "up" ELSE "failed"
  /\ http_thread' = IF started = "bound" THEN http_thread ELSE "ended"
  /\ UNCHANGED <<started, serverVars, queueVars, clientVars>>

-----------------------------------------------------------------------------
(* What the HTTP thread is told by its server.                             *)

OnConnect(c) ==
  /\ http_server
  /\ peer[c] = "new"
  /\ peer' = [peer EXCEPT ![c] = "connected"]
  /\ open_connections' = open_connections \cup {c}
  /\ UNCHANGED <<threadVars, http_server, queueVars, asked, answers>>

\* HttpServer::SendResponse: what is written to a client that left is lost.
SendResponse(c, r, status) ==
  answers' = IF peer[c] = "connected"
               THEN [answers EXCEPT ![c] = Append(@, [req |-> r, status |-> status])]
               ELSE answers

\* Mutant: messages are posted to a pool of threads rather than to one sequence.
Forward_Unsequenced(c, r) ==
  \E i \in 0 .. Len(main_tasks) :
    main_tasks' = SubSeq(main_tasks, 1, i) \o <<[conn |-> c, req |-> r]>>
                    \o SubSeq(main_tasks, i + 1, Len(main_tasks))

\* The message goes to the main thread with the callback for its connection.
Forward(c, r) == main_tasks' = Append(main_tasks, [conn |-> c, req |-> r])

\* OnHttpRequest: a request that fails a check is answered here and now.
OnHttpRequest(c, r) ==
  /\ http_server
  /\ c \in open_connections
  /\ \A d \in Conn : r \notin Range(asked[d])
  /\ asked' = [asked EXCEPT ![c] = Append(@, r)]
  /\ IF Kind[r] = "refused"
       THEN SendResponse(c, r, "refused") /\ UNCHANGED main_tasks
       ELSE Forward(c, r) /\ UNCHANGED answers
  /\ UNCHANGED <<threadVars, serverVars, http_tasks, held, peer>>

\* Mutant: the answer goes to whichever connection is open.
SendMCPResponse_Anywhere ==
  /\ Runs("send")
  /\ LET m == Head(http_tasks) IN
       IF open_connections # {}
         THEN \E c \in open_connections : SendResponse(c, m.req, m.status)
         ELSE UNCHANGED answers
  /\ UNCHANGED <<threadVars, serverVars, main_tasks, held, peer, asked>>

\* Mutant: no response at all is sent to a message that has none.
SendMCPResponse_Mute ==
  /\ Runs("send")
  /\ LET m == Head(http_tasks) IN
       IF m.conn \in open_connections /\ m.status # "accepted"
         THEN SendResponse(m.conn, m.req, m.status)
         ELSE UNCHANGED answers
  /\ UNCHANGED <<threadVars, serverVars, main_tasks, held, peer, asked>>

\* The posted answer is written, unless its connection was closed meanwhile.
SendMCPResponse ==
  /\ Runs("send")
  /\ LET m == Head(http_tasks) IN
       IF m.conn \in open_connections
         THEN SendResponse(m.conn, m.req, m.status)
         ELSE UNCHANGED answers
  /\ UNCHANGED <<threadVars, serverVars, main_tasks, held, peer, asked>>

OnClose(c) ==
  /\ http_server
  /\ peer[c] = "hung up"
  /\ peer' = [peer EXCEPT ![c] = "closed"]
  /\ open_connections' = open_connections \ {c}
  /\ UNCHANGED <<threadVars, http_server, queueVars, asked, answers>>

\* A client leaves; the server does not know yet.
HangUp(c) ==
  /\ peer[c] = "connected"
  /\ peer' = [peer EXCEPT ![c] = "hung up"]
  /\ UNCHANGED <<threadVars, serverVars, queueVars, asked, answers>>

-----------------------------------------------------------------------------
(* The main thread while the transport is up.                              *)

\* OnMessage: a call is kept behind the others, anything else answered at once.
OnMessage ==
  /\ main = "up"
  /\ main_tasks # <<>>
  /\ main_tasks' = Tail(main_tasks)
  /\ LET m == Head(main_tasks) IN
       IF Kind[m.req] = "call"
         THEN held' = Append(held, m) /\ UNCHANGED http_tasks
         ELSE /\ http_tasks' = Append(http_tasks, Response(m,
                   IF Kind[m.req] = "notification" THEN "accepted" ELSE "ok"))
              /\ UNCHANGED held
  /\ UNCHANGED <<threadVars, serverVars, clientVars>>

\* The oldest call is finished and its response_callback run.
OnToolCallComplete ==
  /\ main = "up"
  /\ held # <<>>
  /\ held' = Tail(held)
  /\ http_tasks' = Append(http_tasks, Response(Head(held), "ok"))
  /\ UNCHANGED <<threadVars, serverVars, main_tasks, clientVars>>

-----------------------------------------------------------------------------
(* The destructor, and the end of it on the other thread.                  *)

\* The stop is posted behind the answers; Thread::Stop posts the quit and joins.
Destroy ==
  /\ main = "up"
  /\ main' = "stopping"
  /\ http_tasks' = http_tasks \o <<Task("stop"), Task("quit")>>
  /\ UNCHANGED <<http_thread, started, serverVars, main_tasks, held, clientVars>>

\* Mutant: the connections are not forgotten with the server.
StopOnHttpThread_Forgetful ==
  /\ Runs("stop")
  /\ http_server' = FALSE
  /\ peer' = [c \in Conn |-> IF peer[c] = "new" THEN "new" ELSE "closed"]
  /\ UNCHANGED <<threadVars, open_connections, main_tasks, held, asked, answers>>

\* StopOnHttpThread: the connections go with the server.
StopOnHttpThread ==
  /\ Runs("stop")
  /\ open_connections' = {}
  /\ http_server' = FALSE
  /\ peer' = [c \in Conn |-> IF peer[c] = "new" THEN "new" ELSE "closed"]
  /\ UNCHANGED <<threadVars, main_tasks, held, asked, answers>>

\* The thread leaves its loop.
Quit ==
  /\ Runs("quit")
  /\ http_thread' = "ended"
  /\ UNCHANGED <<main, started, serverVars, main_tasks, held, clientVars>>

\* http_thread_.Stop() has joined.
Joined ==
  /\ main = "stopping"
  /\ http_thread = "ended"
  /\ main' = "gone"
  /\ UNCHANGED <<http_thread, started, serverVars, queueVars, clientVars>>

-----------------------------------------------------------------------------
HttpThreadTask == StartOnHttpThread \/ SendMCPResponse \/ StopOnHttpThread \/ Quit

Next ==
  \/ Start
  \/ StartOnHttpThread
  \/ StartReturns
  \/ \E c \in Conn : OnConnect(c)
  \/ \E c \in Conn, r \in Request : OnHttpRequest(c, r)
  \/ SendMCPResponse
  \/ \E c \in Conn : OnClose(c)
  \/ \E c \in Conn : HangUp(c)
  \/ OnMessage
  \/ OnToolCallComplete
  \/ Destroy
  \/ StopOnHttpThread
  \/ Quit
  \/ Joined

\* Both threads run their tasks, and calls end; clients and the destructor need not.
Fairness ==
  /\ WF_vars(HttpThreadTask)
  /\ WF_vars(StartReturns)
  /\ WF_vars(OnMessage)
  /\ WF_vars(OnToolCallComplete)
  /\ WF_vars(Joined)

Spec == Init /\ [][Next]_vars

FairSpec == Spec /\ Fairness

-----------------------------------------------------------------------------
(* Properties.                                                             *)

Message == [conn : Conn, req : Request]

\* The types of the transport's members, of the two task queues and of the
\* histories; a Start that returned true has left a server behind.
TypeOK ==
  /\ main \in {"new", "starting", "failed", "up", "stopping", "gone"}
  /\ http_thread \in {"off", "running", "ended"}
  /\ started \in {"unknown", "bound", "failed"}
  /\ http_server \in BOOLEAN
  /\ open_connections \subseteq Conn
  /\ http_tasks \in Seq([task : {"start", "stop", "quit"}] \cup
                        [task : {"send"}, conn : Conn, req : Request,
                         status : {"ok", "accepted"}])
  /\ main_tasks \in Seq(Message)
  /\ held \in Seq(Message)
  /\ peer \in [Conn -> {"new", "connected", "hung up", "closed"}]
  /\ asked \in [Conn -> Seq(Request)]
  /\ answers \in [Conn -> Seq([req : Request,
                               status : {"ok", "accepted", "refused"}])]
  /\ main = "up" => http_thread = "running" /\ http_server

\* The requests a connection got answers for, in the order of the answers.
Answered(c) == [i \in DOMAIN answers[c] |-> answers[c][i].req]

\* SendMCPResponse writes to the connection whose request it answers, and once:
\* whatever the interleaving, a client gets answers to what it asked itself.
AnswersReturnToTheAsker ==
  \A c \in Conn : Range(Answered(c)) \subseteq Range(asked[c]) /\ IsInjective(Answered(c))

\* The tool calls that a client sends on one connection without waiting are
\* answered in that order and without a gap, through both task queues and
\* MCPServer's (a refusal or a control message may overtake them): before the
\* answer to a call come those to every call asked earlier.
CallsAnsweredInOrder ==
  \A c \in Conn : \A i, j \in DOMAIN asked[c], k \in DOMAIN answers[c] :
    /\ i < j /\ Kind[asked[c][i]] = "call" /\ Kind[asked[c][j]] = "call"
    /\ answers[c][k].req = asked[c][j]
    => \E h \in 1 .. k - 1 : answers[c][h].req = asked[c][i]

\* SendMCPResponse and SendTextResponse use http_server_ after looking at
\* open_connections_ alone: while a connection is listed, the server is there.
ServerOutlivesConnections == open_connections # {} => http_server

\* Start and the destructor block the main thread on the HTTP thread; it must
\* come back from both, from a Start that fails to listen too.
MainThreadComesBack ==
  /\ main = "starting" ~> main \in {"failed", "up"}
  /\ main = "stopping" ~> main = "gone"

\* A request read from a connection is answered, unless the client leaves or
\* the transport is destroyed first.
EveryRequestAnswered ==
  \A c \in Conn, r \in Request :
    r \in Range(asked[c]) ~> \/ r \in Range(Answered(c))
                             \/ peer[c] # "connected"
                             \/ main # "up"
=============================================================================
