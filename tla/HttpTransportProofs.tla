------------------------ MODULE HttpTransportProofs ------------------------
(***************************************************************************)
(* Theorems about HttpTransport, for any connections and requests.  That   *)
(* the server is there while the transport is up depends on what can still *)
(* be in the queue of the HTTP thread: Stages says which tasks are there   *)
(* at each stage of the main thread, so that a stop is never among the     *)
(* tasks of a transport that is up and a start never runs twice.  That     *)
(* answers go once to who asked depends on each request being in one place *)
(* at a time, with its connection: Placed says so of the three queues and  *)
(* of the answers.  That calls are answered in order depends on what is    *)
(* ahead of each in its queue and further on: Sequenced says, for any two  *)
(* calls of a connection, that the later never overtakes the earlier, and  *)
(* that no call of a client that is still there is lost.                   *)
(***************************************************************************)
EXTENDS HttpTransport, TLAPS

Answer == [req : Request, status : {"ok", "accepted", "refused"}]

Tasks == [task : {"start", "stop", "quit"}] \cup
         [task : {"send"}, conn : Conn, req : Request,
          status : {"ok", "accepted"}]

\* The queue while Start waits: the one task it posted, until that has run.
Starting ==
  main = "starting" =>
    /\ http_thread = "running"
    /\ \/ started = "unknown" /\ http_tasks = <<Task("start")>>
       \/ started # "unknown" /\ http_tasks = <<>>
    /\ started = "bound" => http_server

\* Before and afterwards there is no start, and a stop or a quit only behind the
\* destructor.
Started ==
  /\ main = "new" => started = "unknown"
  /\ main # "starting" =>
       \A i \in 1 .. Len(http_tasks) :
         /\ http_tasks[i].task # "start"
         /\ main \notin {"stopping", "gone"} => http_tasks[i].task = "send"

Stages == Starting /\ Started

IInv == TypeOK /\ Stages /\ ServerOutlivesConnections

-----------------------------------------------------------------------------
(* Lemmas about the queue.                                                 *)

\* What is left of a queue has the types, and the tasks, of the queue.
LEMMA TailKeeps ==
  ASSUME NEW S, NEW q \in Seq(S), q # <<>>
  PROVE  /\ Tail(q) \in Seq(S)
         /\ Len(Tail(q)) = Len(q) - 1
         /\ \A i \in 1 .. Len(Tail(q)) : i + 1 \in 1 .. Len(q) /\ Tail(q)[i] = q[i + 1]
         /\ Head(q) = q[1]
         /\ 1 \in 1 .. Len(q)
         /\ Head(q) \in S
  OBVIOUS

\* Appending adds one element behind the others.
LEMMA AppendKeeps ==
  ASSUME NEW S, NEW q \in Seq(S), NEW e \in S
  PROVE  /\ Append(q, e) \in Seq(S)
         /\ Len(Append(q, e)) = Len(q) + 1
         /\ \A i \in 1 .. Len(q) : Append(q, e)[i] = q[i]
         /\ Append(q, e)[Len(q) + 1] = e
  OBVIOUS

\* A task that is not a start adds none to a queue without one.
LEMMA AddKeeps ==
  ASSUME NEW q \in Seq(Tasks), NEW t \in Tasks, t.task # "start",
         \A i \in 1 .. Len(q) : q[i].task # "start"
  PROVE  /\ Append(q, t) \in Seq(Tasks)
         /\ \A i \in 1 .. Len(Append(q, t)) : Append(q, t)[i].task # "start"
<1>1. /\ Append(q, t) \in Seq(Tasks)
      /\ Len(Append(q, t)) = Len(q) + 1
      /\ \A i \in 1 .. Len(q) : Append(q, t)[i] = q[i]
      /\ Append(q, t)[Len(q) + 1] = t
  BY AppendKeeps
<1>2. Len(q) \in Nat
  OBVIOUS
<1>3. \A i \in 1 .. Len(q) + 1 : i \in 1 .. Len(q) \/ i = Len(q) + 1
  BY <1>2
<1> QED
  BY <1>1, <1>3

\* The two tasks of the destructor add no start to a queue without one.
LEMMA StopKeeps ==
  ASSUME NEW q \in Seq(Tasks),
         \A i \in 1 .. Len(q) : q[i].task # "start"
  PROVE  LET r == q \o <<Task("stop"), Task("quit")>>
         IN  r \in Seq(Tasks) /\ \A i \in 1 .. Len(r) : r[i].task # "start"
<1> DEFINE a == Append(q, Task("stop"))
           r == Append(a, Task("quit"))
<1>1. /\ Task("stop") \in Tasks /\ Task("stop").task # "start"
      /\ Task("quit") \in Tasks /\ Task("quit").task # "start"
  BY DEF Task, Tasks
<1>2. a \in Seq(Tasks) /\ \A i \in 1 .. Len(a) : a[i].task # "start"
  BY <1>1, AddKeeps
<1> HIDE DEF a
<1>3. r \in Seq(Tasks) /\ \A i \in 1 .. Len(r) : r[i].task # "start"
  BY <1>1, <1>2, AddKeeps
<1>4. q \o <<Task("stop"), Task("quit")>> = r
  BY <1>1 DEF a
<1> QED
  BY <1>3, <1>4

\* A response to a message is a task of the HTTP thread.
LEMMA ResponseIsTask ==
  ASSUME NEW m \in Message, NEW status \in {"ok", "accepted"}
  PROVE  Response(m, status) \in Tasks /\ Response(m, status).task = "send"
  BY DEF Response, Tasks, Message

\* Writing a response keeps the type of what the clients got.
LEMMA SendKeepsType ==
  ASSUME answers \in [Conn -> Seq(Answer)],
         NEW c \in Conn, NEW r \in Request,
         NEW status \in {"ok", "accepted", "refused"},
         SendResponse(c, r, status)
  PROVE  answers' \in [Conn -> Seq(Answer)]
<1>1. CASE peer[c] = "connected"
  <2>1. answers' = [answers EXCEPT ![c] =
                      Append(@, [req |-> r, status |-> status])]
    BY <1>1 DEF SendResponse
  <2>2. [req |-> r, status |-> status] \in Answer
    BY DEF Answer
  <2>3. Append(answers[c], [req |-> r, status |-> status]) \in Seq(Answer)
    BY <2>2, AppendKeeps
  <2> QED
    BY <2>1, <2>3
<1>2. CASE peer[c] # "connected"
  BY <1>2 DEF SendResponse
<1> QED
  BY <1>1, <1>2

-----------------------------------------------------------------------------
(* The invariant.                                                          *)

\* At the start nothing is queued and no connection is open.
LEMMA InitInv == Init => IInv
<1> SUFFICES ASSUME Init
             PROVE  IInv
  OBVIOUS
<1>1. \A S : <<>> \in Seq(S)
  OBVIOUS
<1>2. /\ asked \in [Conn -> Seq(Request)]
      /\ answers \in [Conn -> Seq(Answer)]
      /\ peer \in [Conn -> {"new", "connected", "hung up", "closed"}]
  BY <1>1 DEF Init
<1>3. /\ http_tasks \in Seq(Tasks)
      /\ main_tasks \in Seq(Message)
      /\ held \in Seq(Message)
  BY <1>1 DEF Init
<1>4. TypeOK
  BY <1>2, <1>3 DEF Init, TypeOK, Answer, Tasks
<1>5. Len(http_tasks) = 0
  BY DEF Init
<1> QED
  BY <1>4, <1>5 DEF Init, IInv, Stages, Starting, Started, ServerOutlivesConnections

\* The steps that leave the queues and the threads alone: what clients do and
\* what the server tells.
LEMMA ClientInv ==
  ASSUME IInv,
         \/ \E c \in Conn : OnConnect(c) \/ OnClose(c) \/ HangUp(c)
         \/ \E c \in Conn, r \in Request : OnHttpRequest(c, r)
  PROVE  IInv'
<1> USE DEF threadVars, serverVars, queueVars
<1>1. ASSUME NEW c \in Conn, OnConnect(c)
      PROVE  IInv'
  BY <1>1 DEF OnConnect, IInv, TypeOK, Stages, Starting, Started,
       ServerOutlivesConnections
<1>2. ASSUME NEW c \in Conn, OnClose(c)
      PROVE  IInv'
  BY <1>2 DEF OnClose, IInv, TypeOK, Stages, Starting, Started,
       ServerOutlivesConnections
<1>3. ASSUME NEW c \in Conn, HangUp(c)
      PROVE  IInv'
  BY <1>3 DEF HangUp, IInv, TypeOK, Stages, Starting, Started,
       ServerOutlivesConnections
<1>4. ASSUME NEW c \in Conn, NEW r \in Request, OnHttpRequest(c, r)
      PROVE  IInv'
  <2>1. asked' \in [Conn -> Seq(Request)]
    <3>1. asked \in [Conn -> Seq(Request)] /\ asked' = [asked EXCEPT ![c] = Append(@, r)]
      BY <1>4 DEF OnHttpRequest, IInv, TypeOK
    <3>2. Append(asked[c], r) \in Seq(Request)
      BY <3>1, AppendKeeps
    <3> QED
      BY <3>1, <3>2
  <2>2. /\ answers' \in [Conn -> Seq(Answer)]
        /\ main_tasks' \in Seq(Message)
    <3>1. CASE Kind[r] = "refused"
      BY <1>4, <3>1, SendKeepsType DEF OnHttpRequest, IInv, TypeOK, Answer
    <3>2. CASE Kind[r] # "refused"
      <4>1. [conn |-> c, req |-> r] \in Message
        BY DEF Message
      <4>2. main_tasks \in Seq(Message) /\ answers \in [Conn -> Seq(Answer)]
        BY DEF IInv, TypeOK, Answer
      <4>3. /\ answers' = answers
            /\ main_tasks' = Append(main_tasks, [conn |-> c, req |-> r])
        BY <1>4, <3>2 DEF OnHttpRequest, Forward
      <4> HIDE DEF IInv
      <4> QED
        BY <4>1, <4>2, <4>3, AppendKeeps
    <3> QED
      BY <3>1, <3>2
  <2> QED
    BY <1>4, <2>1, <2>2 DEF OnHttpRequest, IInv, TypeOK, Answer, Stages, Starting,
         Started, ServerOutlivesConnections
<1> QED
  BY <1>1, <1>2, <1>3, <1>4

\* A step of the HTTP thread takes a task from its queue.
LEMMA HttpThreadInv ==
  ASSUME IInv, HttpThreadTask
  PROVE  IInv'
<1> USE DEF threadVars, serverVars, clientVars
<1>0. http_tasks \in Seq(Tasks)
  BY DEF IInv, TypeOK, Tasks
<1>1. CASE StartOnHttpThread
  <2>1. main = "starting" /\ http_tasks = <<Task("start")>>
    <3>1. http_tasks # <<>> /\ http_tasks[1].task = "start" /\ 1 \in 1 .. Len(http_tasks)
      BY <1>0, <1>1, TailKeeps DEF StartOnHttpThread, Runs
    <3> QED
      BY <3>1 DEF IInv, Stages, Starting, Started
  <2>2. http_tasks' = <<>>
    BY <1>1, <2>1 DEF StartOnHttpThread, Runs
  <2> QED
    <3>1. http_tasks' \in Seq(Tasks) /\ Len(http_tasks') = 0
      BY <2>2
    <3>2. Stages'
      BY <1>1, <2>1, <2>2, <3>1 DEF StartOnHttpThread, IInv, Stages, Starting, Started
    <3>3. TypeOK'
      BY <1>1, <2>1, <3>1 DEF StartOnHttpThread, IInv, TypeOK, Tasks
    <3>4. ServerOutlivesConnections'
      BY <1>1 DEF StartOnHttpThread, IInv, ServerOutlivesConnections
    <3> QED
      BY <3>2, <3>3, <3>4 DEF IInv
<1>2. ASSUME NEW what, Runs(what), what # "start", UNCHANGED <<main, started>>,
             main = "up" => what = "send",
             http_thread' = http_thread \/ main \notin {"starting", "up"}
      PROVE  /\ Stages'
             /\ http_tasks' \in Seq(Tasks)
  <2>1. http_tasks # <<>> /\ http_tasks' = Tail(http_tasks) /\ http_tasks[1].task = what
    BY <1>0, <1>2, TailKeeps DEF Runs
  <2>2. main # "starting"
    BY <1>2, <2>1 DEF IInv, Stages, Starting, Task
  <2>3. /\ http_tasks' \in Seq(Tasks)
        /\ \A i \in 1 .. Len(http_tasks') :
             i + 1 \in 1 .. Len(http_tasks) /\ http_tasks'[i] = http_tasks[i + 1]
    BY <1>0, <2>1, TailKeeps
  <2> QED
    BY <1>2, <2>2, <2>3 DEF IInv, Stages, Starting, Started
<1>3. ASSUME NEW what, Runs(what), what # "start"
      PROVE  main \notin {"stopping", "gone"} => what = "send"
  <2>1. http_tasks # <<>> /\ http_tasks[1].task = what /\ 1 \in 1 .. Len(http_tasks)
    BY <1>0, <1>3, TailKeeps DEF Runs
  <2> QED
    BY <1>3, <2>1 DEF IInv, Stages, Starting, Started, Task
<1>4. CASE SendMCPResponse
  <2>1. Stages' /\ http_tasks' \in Seq(Tasks)
    BY <1>2, <1>4 DEF SendMCPResponse
  <2>2. answers' \in [Conn -> Seq(Answer)]
    <3> DEFINE m == Head(http_tasks)
    <3>1. m \in Tasks /\ m.task = "send"
      BY <1>0, <1>4, TailKeeps DEF SendMCPResponse, Runs
    <3>2. m.conn \in Conn /\ m.req \in Request /\ m.status \in {"ok", "accepted"}
      BY <3>1 DEF Tasks
    <3>3. CASE m.conn \in open_connections
      BY <1>4, <3>2, <3>3, SendKeepsType DEF SendMCPResponse, IInv, TypeOK, Answer
    <3>4. CASE m.conn \notin open_connections
      BY <1>4, <3>4 DEF SendMCPResponse, IInv, TypeOK, Answer
    <3> QED
      BY <3>3, <3>4
  <2> QED
    BY <1>4, <2>1, <2>2 DEF SendMCPResponse, Runs, IInv, TypeOK, Tasks, Answer,
         ServerOutlivesConnections
<1>5. CASE StopOnHttpThread
  <2>1. main \in {"stopping", "gone"}
    BY <1>3, <1>5 DEF StopOnHttpThread
  <2>2. Stages' /\ http_tasks' \in Seq(Tasks)
    BY <1>2, <1>5, <2>1 DEF StopOnHttpThread
  <2> QED
    BY <1>5, <2>1, <2>2 DEF StopOnHttpThread, Runs, IInv, TypeOK, Tasks,
         ServerOutlivesConnections
<1>6. CASE Quit
  <2>1. main \in {"stopping", "gone"}
    BY <1>3, <1>6 DEF Quit
  <2>2. Stages' /\ http_tasks' \in Seq(Tasks)
    BY <1>2, <1>6, <2>1 DEF Quit
  <2> QED
    BY <1>6, <2>1, <2>2 DEF Quit, Runs, IInv, TypeOK, Tasks,
         ServerOutlivesConnections
<1> QED
  BY <1>1, <1>4, <1>5, <1>6 DEF HttpThreadTask

\* A step of the main thread while the transport is up.
LEMMA MainThreadInv ==
  ASSUME IInv, OnMessage \/ OnToolCallComplete
  PROVE  IInv'
<1> USE DEF threadVars, serverVars, clientVars
<1>0. /\ http_tasks \in Seq(Tasks)
      /\ main_tasks \in Seq(Message)
      /\ held \in Seq(Message)
      /\ main = "up"
  BY DEF IInv, TypeOK, Tasks, OnMessage, OnToolCallComplete
<1>1. ASSUME NEW e \in Tasks, e.task = "send", http_tasks' = Append(http_tasks, e),
             UNCHANGED <<threadVars, serverVars>>
      PROVE  Stages' /\ http_tasks' \in Seq(Tasks)
  <2>1. \A i \in 1 .. Len(http_tasks') : http_tasks'[i].task = "send"
    <3> TAKE i \in 1 .. Len(http_tasks')
    <3>1. CASE i \in 1 .. Len(http_tasks)
      <4>1. http_tasks'[i] = http_tasks[i]
        BY <1>0, <1>1, <3>1, AppendKeeps
      <4> QED
        BY <1>0, <3>1, <4>1 DEF IInv, Stages, Started
    <3>2. CASE i \notin 1 .. Len(http_tasks)
      <4>1. i = Len(http_tasks) + 1
        BY <1>0, <1>1, <3>2, AppendKeeps
      <4> QED
        BY <1>0, <1>1, <4>1, AppendKeeps
    <3> QED
      BY <3>1, <3>2
  <2> QED
    BY <1>0, <1>1, <2>1, AppendKeeps DEF Stages, Starting, Started
<1>2. CASE OnMessage
  <2> DEFINE m == Head(main_tasks)
  <2>1. m \in Message /\ main_tasks' \in Seq(Message)
    BY <1>0, <1>2, TailKeeps DEF OnMessage
  <2>2. held' \in Seq(Message) /\ Stages' /\ http_tasks' \in Seq(Tasks)
    <3>1. CASE Kind[m.req] = "call"
      <4>1. held' = Append(held, m) /\ http_tasks' = http_tasks
        BY <1>2, <3>1 DEF OnMessage
      <4>2. held' \in Seq(Message)
        BY <1>0, <2>1, <4>1, AppendKeeps
      <4>3. Stages'
        BY <1>2, <4>1 DEF OnMessage, IInv, Stages, Starting, Started
      <4> QED
        BY <1>0, <4>1, <4>2, <4>3
    <3>2. CASE Kind[m.req] # "call"
      <4> DEFINE e == Response(m, IF Kind[m.req] = "notification"
                                    THEN "accepted" ELSE "ok")
      <4>1. e \in Tasks /\ e.task = "send"
        BY <2>1, ResponseIsTask
      <4>2. http_tasks' = Append(http_tasks, e) /\ held' = held
        BY <1>2, <3>2 DEF OnMessage
      <4> HIDE DEF e
      <4> QED
        BY <1>0, <1>1, <1>2, <4>1, <4>2 DEF OnMessage
    <3> QED
      BY <3>1, <3>2
  <2> QED
    BY <1>2, <2>1, <2>2 DEF OnMessage, IInv, TypeOK, Tasks,
         ServerOutlivesConnections
<1>3. CASE OnToolCallComplete
  <2> DEFINE e == Response(Head(held), "ok")
  <2>1. Head(held) \in Message /\ held' \in Seq(Message)
    BY <1>0, <1>3, TailKeeps DEF OnToolCallComplete
  <2>2. e \in Tasks /\ e.task = "send"
    BY <2>1, ResponseIsTask
  <2>3. http_tasks' = Append(http_tasks, e)
    BY <1>3 DEF OnToolCallComplete
  <2> HIDE DEF e
  <2>4. Stages' /\ http_tasks' \in Seq(Tasks)
    BY <1>1, <1>3, <2>2, <2>3 DEF OnToolCallComplete
  <2> QED
    BY <1>3, <2>1, <2>4 DEF OnToolCallComplete, IInv, TypeOK, Tasks,
         ServerOutlivesConnections
<1> QED
  BY <1>2, <1>3

\* The steps by which the transport starts and ends on the main thread.
LEMMA LifeInv ==
  ASSUME IInv, Start \/ StartReturns \/ Destroy \/ Joined
  PROVE  IInv'
<1> USE DEF threadVars, serverVars, queueVars, clientVars
<1>0. http_tasks \in Seq(Tasks)
  BY DEF IInv, TypeOK, Tasks
<1>1. CASE Start
  <2>1. CASE main' = "failed" /\ UNCHANGED <<http_thread, http_tasks>>
    BY <1>1, <2>1 DEF Start, IInv, TypeOK, Stages, Starting, Started,
         ServerOutlivesConnections
  <2>2. CASE main' = "starting" /\ http_thread' = "running" /\ http_tasks' = <<Task("start")>>
    <3>1. <<Task("start")>> \in Seq(Tasks)
      BY DEF Task, Tasks
    <3>2. started = "unknown"
      BY <1>1 DEF Start, IInv, Stages, Started
    <3> QED
      BY <1>1, <2>2, <3>1, <3>2 DEF Start, IInv, TypeOK, Stages, Starting,
           Started, Tasks, ServerOutlivesConnections
  <2> QED
    BY <1>1, <2>1, <2>2 DEF Start
<1>2. CASE StartReturns
  <2>1. http_tasks = <<>> /\ Len(http_tasks) = 0
    BY <1>2 DEF StartReturns, IInv, Stages, Starting
  <2>2. Stages'
    BY <1>2, <2>1 DEF StartReturns, IInv, Stages, Starting, Started
  <2>3. TypeOK'
    BY <1>2 DEF StartReturns, IInv, TypeOK, Stages, Starting
  <2> QED
    BY <1>2, <2>2, <2>3 DEF StartReturns, IInv, ServerOutlivesConnections
<1>3. CASE Destroy
  <2>1. /\ main = "up"
        /\ main' = "stopping"
        /\ http_tasks' = http_tasks \o <<Task("stop"), Task("quit")>>
    BY <1>3 DEF Destroy
  <2>2. \A i \in 1 .. Len(http_tasks) : http_tasks[i].task # "start"
    BY <2>1 DEF IInv, Stages, Started
  <2>3. /\ http_tasks' \in Seq(Tasks)
        /\ \A i \in 1 .. Len(http_tasks') : http_tasks'[i].task # "start"
    BY <1>0, <2>1, <2>2, StopKeeps
  <2> QED
    BY <1>3, <2>1, <2>3 DEF Destroy, IInv, TypeOK, Stages, Starting,
         Started, Tasks, ServerOutlivesConnections
<1>4. CASE Joined
  BY <1>4 DEF Joined, IInv, TypeOK, Stages, Starting, Started,
       ServerOutlivesConnections
<1> QED
  BY <1>1, <1>2, <1>3, <1>4

\* Every step keeps the invariant.
LEMMA StepInv == IInv /\ [Next]_vars => IInv'
<1> SUFFICES ASSUME IInv, [Next]_vars
             PROVE  IInv'
  OBVIOUS
<1>1. CASE UNCHANGED vars
  BY <1>1 DEF vars, IInv, TypeOK, Stages, Starting, Started,
       ServerOutlivesConnections
<1>2. CASE Next
  BY <1>2, ClientInv, HttpThreadInv, MainThreadInv, LifeInv DEF Next, HttpThreadTask
<1> QED
  BY <1>1, <1>2

-----------------------------------------------------------------------------
(* Where a request is: posted to the main thread, held by MCPServer, posted *)
(* to the HTTP thread, or answered.                                        *)

\* What stands for a request in a queue or among the answers of a client.
Carriers == Message \cup Answer \cup
            [task : {"send"}, conn : Conn, req : Request, status : {"ok", "accepted"}]

Places(q) == {i \in 1 .. Len(q) : q[i] \in Carriers}

Reqs(q) == {q[i].req : i \in Places(q)}

\* No request stands in q twice.
Once(q) == \A i, j \in Places(q) : q[i].req = q[j].req => i = j

\* The requests in q were asked on the connections that q says, by a.
Owned(q, a) == \A i \in Places(q) : q[i].req \in Range(a[q[i].conn])

QueuesRight ==
  /\ Once(main_tasks) /\ Once(held) /\ Once(http_tasks)
  /\ Owned(main_tasks, asked) /\ Owned(held, asked) /\ Owned(http_tasks, asked)

AnswersRight ==
  \A c \in Conn : Once(answers[c]) /\ Reqs(answers[c]) \subseteq Range(asked[c])

\* A request is in one place only.
Apart ==
  /\ Reqs(main_tasks) \cap Reqs(held) = {}
  /\ Reqs(main_tasks) \cap Reqs(http_tasks) = {}
  /\ Reqs(held) \cap Reqs(http_tasks) = {}
  /\ \A c \in Conn : Reqs(answers[c]) \cap
       (Reqs(main_tasks) \cup Reqs(held) \cup Reqs(http_tasks)) = {}

Placed == QueuesRight /\ AnswersRight /\ Apart

\* A queue holds what its type says.
LEMMA ElementsOfSeq ==
  ASSUME NEW S, NEW q \in Seq(S)
  PROVE  \A i \in 1 .. Len(q) : q[i] \in S
  OBVIOUS

\* Taking the first of a queue takes its request out.
LEMMA TakeFirst ==
  ASSUME NEW S, NEW q \in Seq(S), q # <<>>, Once(q), NEW a, Owned(q, a)
  PROVE  /\ Once(Tail(q)) /\ Owned(Tail(q), a)
         /\ Reqs(Tail(q)) \subseteq Reqs(q)
         /\ Head(q) \in Carriers =>
              /\ Head(q).req \in Reqs(q) \ Reqs(Tail(q))
              /\ Head(q).req \in Range(a[Head(q).conn])
<1> DEFINE t == Tail(q)
<1>1. /\ \A i \in 1 .. Len(t) : i + 1 \in 1 .. Len(q) /\ t[i] = q[i + 1]
      /\ Head(q) = q[1]
      /\ 1 \in 1 .. Len(q)
      /\ Len(t) \in Nat
  BY TailKeeps
<1> HIDE DEF t
<1>2. \A i \in Places(t) : i + 1 \in Places(q) /\ t[i] = q[i + 1] /\ i \in Nat /\ i >= 1
  BY <1>1 DEF Places
<1>3. Once(t)
  BY <1>2 DEF Once
<1>4. Owned(t, a)
  BY <1>2 DEF Owned
<1>5. Reqs(t) \subseteq Reqs(q)
  BY <1>2 DEF Reqs
<1>6. ASSUME Head(q) \in Carriers
      PROVE  /\ Head(q).req \in Reqs(q) \ Reqs(t)
             /\ Head(q).req \in Range(a[Head(q).conn])
  <2>1. 1 \in Places(q)
    BY <1>1, <1>6 DEF Places
  <2>2. ASSUME NEW i \in Places(t), t[i].req = Head(q).req
        PROVE  FALSE
    BY <1>1, <1>2, <2>1, <2>2 DEF Once
  <2> QED
    BY <1>1, <2>1, <2>2 DEF Reqs, Owned
<1> QED
  BY <1>3, <1>4, <1>5, <1>6 DEF t

\* Appending puts one request in, or none.
LEMMA PutLast ==
  ASSUME NEW S, NEW q \in Seq(S), NEW e \in S, Once(q), NEW a
  PROVE  /\ e \in Carriers /\ e.req \notin Reqs(q) =>
              Once(Append(q, e)) /\ Reqs(Append(q, e)) = Reqs(q) \cup {e.req}
         /\ e \notin Carriers =>
              Once(Append(q, e)) /\ Reqs(Append(q, e)) = Reqs(q)
         /\ Owned(q, a) /\ (e \in Carriers => e.req \in Range(a[e.conn])) =>
              Owned(Append(q, e), a)
<1> DEFINE p == Append(q, e)
           n == Len(q) + 1
<1>1. /\ Len(q) \in Nat
      /\ Len(p) = n
      /\ \A i \in 1 .. Len(q) : p[i] = q[i]
      /\ p[n] = e
  BY AppendKeeps
<1>2. \A i : i \in 1 .. n <=> i \in 1 .. Len(q) \/ i = n
  BY <1>1
<1>3. n \notin 1 .. Len(q)
  BY <1>1
<1> HIDE DEF p, n
<1>4. \A i \in Places(q) : p[i] = q[i] /\ i # n
  BY <1>1, <1>3 DEF Places
<1>5. CASE e \in Carriers
  <2>1. Places(p) = Places(q) \cup {n}
    BY <1>1, <1>2, <1>5 DEF Places
  <2>2. Reqs(p) = Reqs(q) \cup {e.req}
    BY <1>1, <1>4, <2>1 DEF Reqs
  <2>3. e.req \notin Reqs(q) => Once(p)
    BY <1>1, <1>4, <2>1 DEF Once, Reqs
  <2>4. Owned(q, a) /\ e.req \in Range(a[e.conn]) => Owned(p, a)
    BY <1>1, <1>4, <2>1 DEF Owned
  <2> QED
    BY <1>5, <2>2, <2>3, <2>4 DEF p
<1>6. CASE e \notin Carriers
  <2>1. Places(p) = Places(q)
    BY <1>1, <1>2, <1>6 DEF Places
  <2>2. Reqs(p) = Reqs(q) /\ Once(p) /\ (Owned(q, a) => Owned(p, a))
    BY <1>4, <2>1 DEF Reqs, Once, Owned
  <2> QED
    BY <1>6, <2>2 DEF p
<1> QED
  BY <1>5, <1>6

\* A request read is new, and takes no other from its asker.
LEMMA AskedGrows ==
  ASSUME NEW a \in [Conn -> Seq(Request)], NEW c \in Conn, NEW r \in Request,
         NEW b \in [Conn -> Seq(Request)], b[c] = Append(a[c], r),
         \A d \in Conn \ {c} : b[d] = a[d]
  PROVE  /\ \A d \in Conn : Range(a[d]) \subseteq Range(b[d])
         /\ r \in Range(b[c])
<1>1. \A d \in Conn : DOMAIN a[d] = 1 .. Len(a[d])
  OBVIOUS
<1>2. /\ Len(a[c]) \in Nat
      /\ b[c] = Append(a[c], r)
      /\ DOMAIN b[c] = 1 .. Len(a[c]) + 1
      /\ \A i \in 1 .. Len(a[c]) : b[c][i] = a[c][i]
      /\ b[c][Len(a[c]) + 1] = r
      /\ Len(a[c]) + 1 \in 1 .. Len(a[c]) + 1
      /\ 1 .. Len(a[c]) \subseteq 1 .. Len(a[c]) + 1
  <2>1. b[c] = Append(a[c], r) /\ a[c] \in Seq(Request)
    OBVIOUS
  <2>2. b[c] \in Seq(Request) /\ Len(b[c]) = Len(a[c]) + 1 /\ Len(a[c]) \in Nat
    BY <2>1, AppendKeeps
  <2> QED
    BY <2>1, <2>2, AppendKeeps
<1>3. r \in Range(b[c])
  BY <1>2 DEF Range
<1>4. ASSUME NEW d \in Conn
      PROVE  Range(a[d]) \subseteq Range(b[d])
  <2>1. CASE d = c
    BY <1>1, <1>2, <2>1 DEF Range
  <2>2. CASE d # c
    BY <2>2
  <2> QED
    BY <2>1, <2>2
<1> QED
  BY <1>3, <1>4

\* There is no request to begin with.
LEMMA InitPlaced == Init => Placed
<1>1. Places(<<>>) = {}
  BY DEF Places
<1>2. /\ Reqs(<<>>) = {}
      /\ Once(<<>>)
      /\ \A a : Owned(<<>>, a)
  BY <1>1 DEF Reqs, Once, Owned
<1> QED
  BY <1>2 DEF Init, Placed, QueuesRight, AnswersRight, Apart

\* The tasks of a start and an end stand for no request.
LEMMA TaskCarriesNothing ==
  ASSUME NEW what \in {"start", "stop", "quit"}
  PROVE  Task(what) \notin Carriers
<1>1. Task(what) \notin Message
  BY DEF Task, Message
<1>2. Task(what) \notin Answer
  BY DEF Task, Answer
<1>3. Task(what) \notin [task : {"send"}, conn : Conn, req : Request,
                         status : {"ok", "accepted"}]
  BY DEF Task
<1> QED
  BY <1>1, <1>2, <1>3 DEF Carriers

\* An answer that is written is among those its client has got, once.
LEMMA WritePlaced ==
  ASSUME answers \in [Conn -> Seq(Answer)], AnswersRight,
         NEW c \in Conn, NEW r \in Request,
         NEW status \in {"ok", "accepted", "refused"},
         SendResponse(c, r, status), r \notin Reqs(answers[c]),
         r \in Range(asked'[c]),
         \A d \in Conn : Range(asked[d]) \subseteq Range(asked'[d])
  PROVE  /\ AnswersRight'
         /\ \A d \in Conn : Reqs(answers'[d]) \subseteq Reqs(answers[d]) \cup {r}
<1> DEFINE e == [req |-> r, status |-> status]
<1>1. e \in Answer /\ e \in Carriers /\ e.req = r
  BY DEF Answer, Carriers
<1> HIDE DEF e
<1>2. answers[c] \in Seq(Answer) /\ Once(answers[c])
  BY DEF AnswersRight
<1>3. /\ Once(Append(answers[c], e))
      /\ Reqs(Append(answers[c], e)) = Reqs(answers[c]) \cup {r}
  BY <1>1, <1>2, PutLast
<1>4. CASE peer[c] = "connected"
  <2>1. answers' = [answers EXCEPT ![c] = Append(@, e)]
    BY <1>4 DEF SendResponse, e
  <2>2. /\ answers'[c] = Append(answers[c], e)
        /\ \A d \in Conn \ {c} : answers'[d] = answers[d]
    BY <2>1
  <2> QED
    BY <1>3, <2>2 DEF AnswersRight
<1>5. CASE peer[c] # "connected"
  BY <1>5 DEF SendResponse, AnswersRight
<1> QED
  BY <1>4, <1>5

\* What stands in a queue has a connection.
LEMMA QueueConns ==
  ASSUME IInv
  PROVE  /\ \A i \in Places(main_tasks) : main_tasks[i].conn \in Conn
         /\ \A i \in Places(held) : held[i].conn \in Conn
         /\ \A i \in Places(http_tasks) : http_tasks[i].conn \in Conn
<1>1. ASSUME NEW e \in Carriers, e \notin Answer
      PROVE  e.conn \in Conn
  BY <1>1 DEF Carriers, Message
<1>2. Answer \cap Message = {} /\ Answer \cap Tasks = {}
  BY DEF Answer, Message, Tasks
<1>3. /\ \A i \in 1 .. Len(main_tasks) : main_tasks[i] \in Message
      /\ \A i \in 1 .. Len(held) : held[i] \in Message
      /\ \A i \in 1 .. Len(http_tasks) : http_tasks[i] \in Tasks
  <2>1. /\ main_tasks \in Seq(Message) /\ http_tasks \in Seq(Tasks)
        /\ held \in Seq(Message)
    BY DEF IInv, TypeOK, Tasks
  <2> QED
    BY <2>1, ElementsOfSeq
<1> QED
  BY <1>1, <1>2, <1>3 DEF Places

\* A request read is in no place yet, and is posted or refused.
LEMMA RequestPlaced ==
  ASSUME IInv, Placed, NEW c \in Conn, NEW r \in Request, OnHttpRequest(c, r)
  PROVE  Placed'
<1>0. /\ main_tasks \in Seq(Message)
      /\ asked \in [Conn -> Seq(Request)]
      /\ answers \in [Conn -> Seq(Answer)]
  BY DEF IInv, TypeOK, Answer
<1>1. /\ asked' = [asked EXCEPT ![c] = Append(@, r)]
      /\ \A d \in Conn : r \notin Range(asked[d])
      /\ held' = held /\ http_tasks' = http_tasks
  BY DEF OnHttpRequest, queueVars
<1>2. /\ \A d \in Conn : Range(asked[d]) \subseteq Range(asked'[d])
      /\ r \in Range(asked'[c])
  <2>1. PICK a, b : a = asked /\ b = asked'
    OBVIOUS
  <2>2. /\ a \in [Conn -> Seq(Request)] /\ b[c] = Append(a[c], r)
        /\ \A d \in Conn \ {c} : b[d] = a[d]
    BY <1>0, <1>1, <2>1
  <2>3. b \in [Conn -> Seq(Request)]
    <3>1. Append(a[c], r) \in Seq(Request)
      BY <2>2, AppendKeeps
    <3> QED
      BY <1>0, <1>1, <2>1, <3>1
  <2>4. (\A d \in Conn : Range(a[d]) \subseteq Range(b[d])) /\ r \in Range(b[c])
    BY <2>2, <2>3, AskedGrows
  <2> QED
    BY <2>1, <2>4
<1>3. ASSUME NEW q, Owned(q, asked), \A i \in Places(q) : q[i].conn \in Conn
      PROVE  Owned(q, asked') /\ r \notin Reqs(q)
  BY <1>1, <1>2, <1>3 DEF Owned, Reqs
<1>4. /\ \A i \in Places(main_tasks) : main_tasks[i].conn \in Conn
      /\ \A i \in Places(held) : held[i].conn \in Conn
      /\ \A i \in Places(http_tasks) : http_tasks[i].conn \in Conn
  BY QueueConns
<1>5. /\ Owned(main_tasks, asked') /\ Owned(held, asked') /\ Owned(http_tasks, asked')
      /\ r \notin Reqs(main_tasks) \cup Reqs(held) \cup Reqs(http_tasks)
  BY <1>3, <1>4 DEF Placed, QueuesRight
<1>6. \A d \in Conn : r \notin Reqs(answers[d])
  BY <1>1 DEF Placed, AnswersRight
<1>7. CASE Kind[r] = "refused"
  <2>1. SendResponse(c, r, "refused") /\ main_tasks' = main_tasks
    BY <1>7 DEF OnHttpRequest
  <2>2. /\ AnswersRight'
        /\ \A d \in Conn : Reqs(answers'[d]) \subseteq Reqs(answers[d]) \cup {r}
    BY <1>0, <1>2, <1>6, <2>1, WritePlaced DEF Placed
  <2>3. QueuesRight'
    BY <1>1, <1>5, <2>1 DEF Placed, QueuesRight
  <2>4. Apart'
    BY <1>1, <1>5, <2>1, <2>2 DEF Placed, Apart
  <2> QED
    BY <2>2, <2>3, <2>4 DEF Placed
<1>8. CASE Kind[r] # "refused"
  <2> DEFINE e == [conn |-> c, req |-> r]
  <2>1. e \in Message /\ e \in Carriers /\ e.req = r /\ e.conn = c
    BY DEF Message, Carriers
  <2>2. main_tasks' = Append(main_tasks, e) /\ answers' = answers
    BY <1>8 DEF OnHttpRequest, Forward
  <2> HIDE DEF e
  <2>3. /\ Once(main_tasks') /\ Owned(main_tasks', asked')
        /\ Reqs(main_tasks') = Reqs(main_tasks) \cup {r}
    BY <1>0, <1>2, <1>5, <2>1, <2>2, PutLast DEF Placed, QueuesRight
  <2>4. QueuesRight'
    BY <1>1, <1>5, <2>3 DEF Placed, QueuesRight
  <2>5. AnswersRight'
    BY <1>2, <2>2 DEF Placed, AnswersRight
  <2>6. Apart'
    BY <1>1, <1>5, <1>6, <2>2, <2>3 DEF Placed, Apart
  <2> QED
    BY <2>4, <2>5, <2>6 DEF Placed
<1> QED
  BY <1>7, <1>8

\* The HTTP thread takes a task, and writes the answer it carries.
LEMMA HttpTaskPlaced ==
  ASSUME IInv, Placed, HttpThreadTask
  PROVE  Placed'
<1>0. http_tasks \in Seq(Tasks) /\ answers \in [Conn -> Seq(Answer)]
  BY DEF IInv, TypeOK, Tasks, Answer
<1>1. /\ main_tasks' = main_tasks /\ held' = held /\ asked' = asked
      /\ http_tasks # <<>> /\ http_tasks' = Tail(http_tasks)
  BY DEF HttpThreadTask, StartOnHttpThread, SendMCPResponse, StopOnHttpThread,
       Quit, Runs, clientVars
<1>2. /\ Once(http_tasks') /\ Owned(http_tasks', asked)
      /\ Reqs(http_tasks') \subseteq Reqs(http_tasks)
      /\ Head(http_tasks) \in Carriers =>
           /\ Head(http_tasks).req \in Reqs(http_tasks) \ Reqs(http_tasks')
           /\ Head(http_tasks).req \in Range(asked[Head(http_tasks).conn])
  BY <1>0, <1>1, TakeFirst DEF Placed, QueuesRight
<1>3. QueuesRight'
  BY <1>1, <1>2 DEF Placed, QueuesRight
<1>4. CASE answers' = answers
  <2>1. AnswersRight'
    BY <1>1, <1>4 DEF Placed, AnswersRight
  <2>2. Apart'
    BY <1>1, <1>2, <1>4 DEF Placed, Apart
  <2> QED
    BY <1>3, <2>1, <2>2 DEF Placed
<1>5. CASE answers' # answers
  <2> DEFINE m == Head(http_tasks)
  <2>1. /\ m.task = "send"
        /\ SendResponse(m.conn, m.req, m.status)
    BY <1>5 DEF HttpThreadTask, StartOnHttpThread, SendMCPResponse,
         StopOnHttpThread, Quit, Runs, clientVars
  <2>2. m \in Tasks
    BY <1>0, <1>1, TailKeeps
  <2>3. /\ m \in [task : {"send"}, conn : Conn, req : Request, status : {"ok", "accepted"}]
        /\ m.conn \in Conn /\ m.req \in Request
        /\ m.status \in {"ok", "accepted", "refused"}
    BY <2>1, <2>2 DEF Tasks
  <2>4. /\ m.req \in Reqs(http_tasks) \ Reqs(http_tasks')
        /\ m.req \in Range(asked[m.conn])
    BY <1>2, <2>3 DEF Carriers
  <2> HIDE DEF m
  <2>5. /\ AnswersRight'
        /\ \A d \in Conn : Reqs(answers'[d]) \subseteq Reqs(answers[d]) \cup {m.req}
    <3>1. m.req \notin Reqs(answers[m.conn]) /\ AnswersRight
      BY <2>3, <2>4 DEF Placed, Apart
    <3>2. \A d \in Conn : Range(asked[d]) \subseteq Range(asked'[d])
      BY <1>1
    <3>3. m.req \in Range(asked'[m.conn])
      BY <1>1, <2>4
    <3>4. PICK c \in Conn, r \in Request, status \in {"ok", "accepted", "refused"} :
            c = m.conn /\ r = m.req /\ status = m.status
      BY <2>3
    <3>5. answers \in [Conn -> Seq(Answer)] /\ SendResponse(c, r, status)
      BY <1>0, <2>1, <3>4
    <3>6. r \notin Reqs(answers[c]) /\ r \in Range(asked'[c]) /\ AnswersRight
      BY <3>1, <3>3, <3>4
    <3> HIDE DEF m
    <3>7. /\ AnswersRight'
          /\ \A d \in Conn : Reqs(answers'[d]) \subseteq Reqs(answers[d]) \cup {r}
      BY <3>2, <3>5, <3>6, WritePlaced
    <3> QED
      BY <3>4, <3>7
  <2>6. m.req \notin Reqs(main_tasks) \cup Reqs(held)
    BY <2>4 DEF Placed, Apart
  <2>7. Reqs(main_tasks') = Reqs(main_tasks) /\ Reqs(held') = Reqs(held)
    BY <1>1
  <2>8. Apart'
    <3>1. /\ Reqs(main_tasks') \cap Reqs(held') = {}
          /\ Reqs(main_tasks') \cap Reqs(http_tasks') = {}
          /\ Reqs(held') \cap Reqs(http_tasks') = {}
      BY <1>2, <2>7 DEF Placed, Apart
    <3>2. ASSUME NEW c \in Conn, NEW q \in Reqs(answers'[c])
          PROVE  q \notin Reqs(main_tasks') \cup Reqs(held') \cup Reqs(http_tasks')
      <4>1. CASE q = m.req
        BY <2>4, <2>6, <2>7, <4>1
      <4>2. CASE q # m.req
        <5>1. q \in Reqs(answers[c])
          BY <2>5, <3>2, <4>2
        <5> QED
          BY <1>2, <2>7, <5>1 DEF Placed, Apart
      <4> QED
        BY <4>1, <4>2
    <3> QED
      BY <3>1, <3>2 DEF Apart
  <2> QED
    BY <1>3, <2>5, <2>8 DEF Placed
<1> QED
  BY <1>4, <1>5

\* The main thread takes a message, and holds it or posts its answer.
LEMMA MessagePlaced ==
  ASSUME IInv, Placed, OnMessage
  PROVE  Placed'
<1>0. /\ http_tasks \in Seq(Tasks) /\ main_tasks \in Seq(Message)
      /\ held \in Seq(Message)
  BY DEF IInv, TypeOK, Tasks
<1>1. /\ asked' = asked /\ answers' = answers
      /\ main_tasks # <<>> /\ main_tasks' = Tail(main_tasks)
  BY DEF OnMessage, clientVars
<1> DEFINE m == Head(main_tasks)
<1>2. m \in Message /\ m \in Carriers
  BY <1>0, <1>1, TailKeeps DEF Carriers
<1>3. /\ Once(main_tasks') /\ Owned(main_tasks', asked)
      /\ Reqs(main_tasks') \subseteq Reqs(main_tasks)
      /\ m.req \in Reqs(main_tasks) \ Reqs(main_tasks')
      /\ m.req \in Range(asked[m.conn])
  BY <1>0, <1>1, <1>2, TakeFirst DEF Placed, QueuesRight
<1>4. AnswersRight'
  BY <1>1 DEF Placed, AnswersRight
<1>5. /\ m.req \notin Reqs(held) \cup Reqs(http_tasks)
      /\ \A c \in Conn : m.req \notin Reqs(answers[c])
  BY <1>3 DEF Placed, Apart
<1>6. CASE Kind[m.req] = "call"
  <2>1. held' = Append(held, m) /\ http_tasks' = http_tasks
    BY <1>6 DEF OnMessage
  <2> HIDE DEF m
  <2>2. /\ Once(held') /\ Owned(held', asked)
        /\ Reqs(held') = Reqs(held) \cup {m.req}
    BY <1>0, <1>2, <1>3, <1>5, <2>1, PutLast DEF Placed, QueuesRight
  <2>3. QueuesRight'
    BY <1>1, <1>3, <2>1, <2>2 DEF Placed, QueuesRight
  <2>4. Apart'
    BY <1>1, <1>3, <1>5, <2>1, <2>2 DEF Placed, Apart
  <2> QED
    BY <1>4, <2>3, <2>4 DEF Placed
<1>7. CASE Kind[m.req] # "call"
  <2> DEFINE e == Response(m, IF Kind[m.req] = "notification"
                                THEN "accepted" ELSE "ok")
  <2>1. http_tasks' = Append(http_tasks, e) /\ held' = held
    BY <1>7 DEF OnMessage
  <2>2. e \in Tasks /\ e.task = "send"
    BY <1>2, ResponseIsTask
  <2>3. e \in Carriers /\ e.req = m.req /\ e.conn = m.conn
    BY <1>2 DEF Response, Carriers, Message
  <2> HIDE DEF m, e
  <2>4. /\ Once(http_tasks') /\ Owned(http_tasks', asked)
        /\ Reqs(http_tasks') = Reqs(http_tasks) \cup {m.req}
    BY <1>0, <1>3, <1>5, <2>1, <2>2, <2>3, PutLast DEF Placed, QueuesRight
  <2>5. QueuesRight'
    BY <1>1, <1>3, <2>1, <2>4 DEF Placed, QueuesRight
  <2>6. Apart'
    BY <1>1, <1>3, <1>5, <2>1, <2>4 DEF Placed, Apart
  <2> QED
    BY <1>4, <2>5, <2>6 DEF Placed
<1> QED
  BY <1>6, <1>7

\* A call that is finished goes from those held to the HTTP thread.
LEMMA CompletePlaced ==
  ASSUME IInv, Placed, OnToolCallComplete
  PROVE  Placed'
<1>0. http_tasks \in Seq(Tasks) /\ held \in Seq(Message)
  BY DEF IInv, TypeOK, Tasks
<1> DEFINE m == Head(held)
           e == Response(m, "ok")
<1>1. /\ asked' = asked /\ answers' = answers /\ main_tasks' = main_tasks
      /\ held # <<>> /\ held' = Tail(held)
      /\ http_tasks' = Append(http_tasks, e)
  BY DEF OnToolCallComplete, clientVars
<1>2. m \in Message /\ m \in Carriers
  BY <1>0, <1>1, TailKeeps DEF Carriers
<1>3. e \in Tasks /\ e \in Carriers /\ e.req = m.req /\ e.conn = m.conn
  <2>1. e \in Tasks
    BY <1>2, ResponseIsTask
  <2> QED
    BY <1>2, <2>1 DEF Response, Carriers, Message
<1> HIDE DEF m, e
<1>4. /\ Once(held') /\ Owned(held', asked)
      /\ Reqs(held') \subseteq Reqs(held)
      /\ m.req \in Reqs(held) \ Reqs(held')
      /\ m.req \in Range(asked[m.conn])
  BY <1>0, <1>1, <1>2, TakeFirst DEF Placed, QueuesRight, m
<1>5. /\ m.req \notin Reqs(main_tasks) \cup Reqs(http_tasks)
      /\ \A c \in Conn : m.req \notin Reqs(answers[c])
  BY <1>4 DEF Placed, Apart
<1>6. /\ Once(http_tasks') /\ Owned(http_tasks', asked)
      /\ Reqs(http_tasks') = Reqs(http_tasks) \cup {m.req}
  BY <1>0, <1>1, <1>3, <1>4, <1>5, PutLast DEF Placed, QueuesRight
<1>7. QueuesRight'
  BY <1>1, <1>4, <1>6 DEF Placed, QueuesRight
<1>8. AnswersRight'
  BY <1>1 DEF Placed, AnswersRight
<1>9. Apart'
  BY <1>1, <1>4, <1>5, <1>6 DEF Placed, Apart
<1> QED
  BY <1>7, <1>8, <1>9 DEF Placed

\* Starts, ends, and what clients do by themselves move no request.
LEMMA OtherPlaced ==
  ASSUME IInv, Placed,
         \/ Start \/ StartReturns \/ Destroy \/ Joined \/ UNCHANGED vars
         \/ \E c \in Conn : OnConnect(c) \/ OnClose(c) \/ HangUp(c)
  PROVE  Placed'
<1>0. http_tasks \in Seq(Tasks)
  BY DEF IInv, TypeOK, Tasks
<1>1. /\ main_tasks' = main_tasks /\ held' = held
      /\ asked' = asked /\ answers' = answers
  BY DEF Start, StartReturns, Destroy, Joined, vars, OnConnect, OnClose, HangUp,
       queueVars, clientVars
<1>2. /\ Once(http_tasks') /\ Owned(http_tasks', asked)
      /\ Reqs(http_tasks') \subseteq Reqs(http_tasks)
  <2>0. Once(http_tasks) /\ Owned(http_tasks, asked)
    BY DEF Placed, QueuesRight
  <2>1. CASE http_tasks' = http_tasks
    BY <2>0, <2>1
  <2>2. CASE http_tasks' = <<Task("start")>>
    <3>1. /\ Len(<<Task("start")>>) = 1
          /\ <<Task("start")>>[1] = Task("start")
          /\ \A i \in 1 .. 1 : i = 1
      OBVIOUS
    <3>2. Places(<<Task("start")>>) = {}
      BY <3>1, TaskCarriesNothing DEF Places
    <3> QED
      BY <2>2, <3>2 DEF Once, Owned, Reqs
  <2>3. CASE Destroy
    <3> DEFINE p == Append(http_tasks, Task("stop"))
    <3>1. Task("stop") \in Tasks /\ Task("quit") \in Tasks
      BY DEF Task, Tasks
    <3>2. p \in Seq(Tasks)
      BY <1>0, <3>1, AppendKeeps
    <3>3. http_tasks' = Append(p, Task("quit"))
      BY <1>0, <2>3, <3>1 DEF Destroy
    <3>4. Task("stop") \notin Carriers /\ Task("quit") \notin Carriers
      BY TaskCarriesNothing
    <3>5. Once(p) /\ Owned(p, asked) /\ Reqs(p) = Reqs(http_tasks)
      BY <1>0, <2>0, <3>1, <3>4, PutLast
    <3> HIDE DEF p
    <3> QED
      BY <3>1, <3>2, <3>3, <3>4, <3>5, PutLast
  <2>4. http_tasks' = http_tasks \/ http_tasks' = <<Task("start")>> \/ Destroy
    BY DEF Start, StartReturns, Joined, vars, OnConnect, OnClose, HangUp, queueVars
  <2> QED
    BY <2>1, <2>2, <2>3, <2>4
<1>3. QueuesRight'
  BY <1>1, <1>2 DEF Placed, QueuesRight
<1>4. AnswersRight'
  BY <1>1 DEF Placed, AnswersRight
<1>5. Apart'
  BY <1>1, <1>2 DEF Placed, Apart
<1> QED
  BY <1>3, <1>4, <1>5 DEF Placed

\* Every step keeps each request in one place.
LEMMA StepPlaced == IInv /\ Placed /\ [Next]_vars => Placed'
  BY RequestPlaced, HttpTaskPlaced, MessagePlaced, CompletePlaced, OtherPlaced
  DEF Next, HttpThreadTask

-----------------------------------------------------------------------------
(* The order of the calls on a connection.                                 *)

\* Every request is asked on one connection, once.
AskedOnce ==
  \A c, d \in Conn : \A i \in DOMAIN asked[c], j \in DOMAIN asked[d] :
    asked[c][i] = asked[d][j] => c = d /\ i = j

\* The server lists the connections it has not seen the end of, and nothing is
\* read from any other.
Listed ==
  /\ \A c \in Conn : c \in open_connections <=> peer[c] \in {"connected", "hung up"}
  /\ \A c \in Conn : peer[c] = "new" => asked[c] = <<>>

\* Nothing is posted to a thread that has not been started.
Unstarted == main = "new" => http_tasks = <<>>

\* r1 and r2 are calls that c asked, r1 before r2.
Asked(c, r1, r2) ==
  /\ Kind[r1] = "call" /\ Kind[r2] = "call"
  /\ \E i, j \in DOMAIN asked[c] : i < j /\ asked[c][i] = r1 /\ asked[c][j] = r2

\* Wherever r2 stands in q, r1 stands before it or is among the requests S.
After(q, S, r1, r2) ==
  \A k \in Places(q) : q[k].req = r2 =>
    r1 \in S \/ \E h \in Places(q) : h < k /\ q[h].req = r1

\* What is ahead of the queues: answered to c, and further on in its way there.
AheadOfTasks(c) == Reqs(answers[c])
AheadOfHeld(c) == Reqs(answers[c]) \cup Reqs(http_tasks)
AheadOfMain(c) == Reqs(answers[c]) \cup Reqs(http_tasks) \cup Reqs(held)

\* A call does not overtake an earlier one on its way to a client that is there.
InOrder(c, r1, r2) ==
  /\ After(answers[c], {}, r1, r2)
  /\ peer[c] = "connected" =>
       /\ After(http_tasks, AheadOfTasks(c), r1, r2)
       /\ After(held, AheadOfHeld(c), r1, r2)
       /\ After(main_tasks, AheadOfMain(c), r1, r2)

Ordered ==
  \A c \in Conn, r1, r2 \in Request : Asked(c, r1, r2) => InOrder(c, r1, r2)

\* No call of a client that is there is lost.
Kept ==
  \A c \in Conn, r \in Request :
    peer[c] = "connected" /\ r \in Range(asked[c]) /\ Kind[r] = "call" =>
      r \in AheadOfMain(c) \cup Reqs(main_tasks)

Sequenced == AskedOnce /\ Listed /\ Unstarted /\ Ordered /\ Kept

\* A step that neither reads a request nor opens or ends a connection.
LEMMA ClientsStay ==
  ASSUME Sequenced, UNCHANGED <<asked, peer, open_connections, main>>,
         main # "new" \/ http_tasks' = http_tasks
  PROVE  AskedOnce' /\ Listed' /\ Unstarted'
<1>1. AskedOnce'
  BY DEF Sequenced, AskedOnce
<1>2. Listed'
  BY DEF Sequenced, Listed
<1>3. Unstarted'
  BY DEF Sequenced, Unstarted
<1> QED
  BY <1>1, <1>2, <1>3

\* A request that is further ahead is still ahead.
LEMMA AfterWiden ==
  ASSUME NEW q, NEW S, NEW T, NEW r1, NEW r2, After(q, S, r1, r2),
         r1 \in S => r1 \in T
  PROVE  After(q, T, r1, r2)
BY DEF After

\* What is appended comes after all that is in the queue.
LEMMA AfterAppend ==
  ASSUME NEW D, NEW q \in Seq(D), NEW e \in D, NEW S, NEW r1, NEW r2,
         After(q, S, r1, r2),
         e \in Carriers /\ e.req = r2 => r1 \in S \cup Reqs(q)
  PROVE  After(Append(q, e), S, r1, r2)
<1> DEFINE p == Append(q, e)
           n == Len(q) + 1
<1>1. /\ Len(q) \in Nat /\ Len(p) = n /\ p[n] = e
      /\ \A i \in 1 .. Len(q) : p[i] = q[i]
  BY AppendKeeps
<1>2. \A i : i \in 1 .. n <=> i \in 1 .. Len(q) \/ i = n
  BY <1>1
<1>3. \A i \in 1 .. Len(q) : i < n
  BY <1>1
<1> HIDE DEF p, n
<1>4. \A i \in Places(q) : i \in Places(p) /\ p[i] = q[i] /\ i < n
  BY <1>1, <1>2, <1>3 DEF Places
<1> SUFFICES ASSUME NEW k \in Places(p), p[k].req = r2, r1 \notin S
             PROVE  \E h \in Places(p) : h < k /\ p[h].req = r1
  BY DEF After, p
<1>5. CASE k \in 1 .. Len(q)
  <2>1. k \in Places(q) /\ q[k].req = r2
    BY <1>1, <1>5 DEF Places
  <2>2. PICK h \in Places(q) : h < k /\ q[h].req = r1
    BY <2>1 DEF After
  <2> QED
    BY <1>4, <2>2
<1>6. CASE k = n
  <2>1. e \in Carriers /\ e.req = r2
    BY <1>1, <1>6 DEF Places
  <2>2. PICK h \in Places(q) : q[h].req = r1
    BY <2>1 DEF Reqs
  <2> QED
    BY <1>4, <1>6, <2>2
<1>7. k \in 1 .. n
  BY <1>1 DEF Places
<1> QED
  BY <1>2, <1>5, <1>6, <1>7

\* What is taken from a queue is then ahead of it, and nothing in the queue was
\* before it.
LEMMA AfterTail ==
  ASSUME NEW D, NEW q \in Seq(D), q # <<>>, NEW S, NEW r1, NEW r2,
         After(q, S, r1, r2)
  PROVE  /\ Head(q) \notin Carriers => After(Tail(q), S, r1, r2)
         /\ After(Tail(q), S \cup {Head(q).req}, r1, r2)
         /\ Head(q) \in Carriers /\ Head(q).req = r2 => r1 \in S
<1> DEFINE t == Tail(q)
<1>1. /\ \A i \in 1 .. Len(t) : i + 1 \in 1 .. Len(q) /\ t[i] = q[i + 1]
      /\ Len(t) = Len(q) - 1 /\ Len(q) \in Nat /\ Head(q) = q[1]
      /\ 1 \in 1 .. Len(q)
  BY TailKeeps
<1> HIDE DEF t
<1>2. \A i \in Places(t) : i + 1 \in Places(q) /\ t[i] = q[i + 1] /\ i \in Nat
  BY <1>1 DEF Places
<1>3. \A h \in Places(q) : h # 1 => h - 1 \in Places(t) /\ t[h - 1] = q[h] /\ h \in Nat
  <2>1. \A h \in 1 .. Len(q) : h # 1 => h - 1 \in 1 .. Len(t) /\ (h - 1) + 1 = h /\ h \in Nat
    BY <1>1
  <2> QED
    BY <1>1, <2>1 DEF Places
<1>4. ASSUME NEW k \in Places(t), t[k].req = r2, r1 \notin S,
             Head(q) \notin Carriers \/ Head(q).req # r1
      PROVE  \E h \in Places(t) : h < k /\ t[h].req = r1
  <2>1. PICK h \in Places(q) : h < k + 1 /\ q[h].req = r1
    BY <1>2, <1>4 DEF After
  <2>2. h # 1
    BY <1>1, <1>4, <2>1 DEF Places
  <2>3. h - 1 \in Places(t) /\ t[h - 1].req = r1 /\ h \in Nat /\ k \in Nat
    BY <1>2, <1>3, <2>1, <2>2
  <2>4. h - 1 < k
    BY <2>1, <2>3
  <2> QED
    BY <2>3, <2>4
<1>5. Head(q) \in Carriers /\ Head(q).req = r2 => r1 \in S
  <2>1. ~ \E h \in Places(q) : h < 1
    BY <1>1 DEF Places
  <2> QED
    BY <1>1, <2>1 DEF After, Places
<1>6. After(t, S \cup {Head(q).req}, r1, r2)
  BY <1>4 DEF After
<1>7. Head(q) \notin Carriers => After(t, S, r1, r2)
  BY <1>4 DEF After
<1> QED
  BY <1>5, <1>6, <1>7 DEF t

\* What is taken from a queue, or still in it.
LEMMA TailReqs ==
  ASSUME NEW D, NEW q \in Seq(D), q # <<>>
  PROVE  /\ Reqs(Tail(q)) \subseteq Reqs(q)
         /\ \A r \in Reqs(q) : r \in Reqs(Tail(q)) \/ (Head(q) \in Carriers /\ r = Head(q).req)
<1> DEFINE t == Tail(q)
<1>1. /\ \A i \in 1 .. Len(t) : i + 1 \in 1 .. Len(q) /\ t[i] = q[i + 1]
      /\ Len(t) = Len(q) - 1 /\ Len(q) \in Nat /\ Head(q) = q[1]
  BY TailKeeps
<1> HIDE DEF t
<1>2. \A i \in Places(t) : i + 1 \in Places(q) /\ t[i] = q[i + 1]
  BY <1>1 DEF Places
<1>3. \A h \in Places(q) : h # 1 => h - 1 \in Places(t) /\ t[h - 1] = q[h]
  <2>1. \A h \in 1 .. Len(q) : h # 1 => h - 1 \in 1 .. Len(t) /\ (h - 1) + 1 = h
    BY <1>1
  <2> QED
    BY <1>1, <2>1 DEF Places
<1>4. \A h \in Places(q) : h = 1 => Head(q) \in Carriers /\ q[h] = Head(q)
  BY <1>1 DEF Places
<1>5. Reqs(t) \subseteq Reqs(q)
  BY <1>2 DEF Reqs
<1>6. ASSUME NEW r \in Reqs(q)
      PROVE  r \in Reqs(t) \/ (Head(q) \in Carriers /\ r = Head(q).req)
  <2>1. PICK h \in Places(q) : r = q[h].req
    BY DEF Reqs
  <2>2. CASE h = 1
    BY <1>4, <2>1, <2>2
  <2>3. CASE h # 1
    BY <1>3, <2>1, <2>3 DEF Reqs
  <2> QED
    BY <2>2, <2>3
<1> QED
  BY <1>5, <1>6 DEF t

\* Appending adds the request that is appended.
LEMMA AppendReqs ==
  ASSUME NEW D, NEW q \in Seq(D), NEW e \in D
  PROVE  /\ Reqs(q) \subseteq Reqs(Append(q, e))
         /\ e \in Carriers => Reqs(Append(q, e)) = Reqs(q) \cup {e.req}
         /\ e \notin Carriers => Reqs(Append(q, e)) = Reqs(q)
<1> DEFINE p == Append(q, e)
           n == Len(q) + 1
<1>1. /\ Len(q) \in Nat /\ Len(p) = n /\ p[n] = e
      /\ \A i \in 1 .. Len(q) : p[i] = q[i]
  BY AppendKeeps
<1>2. \A i : i \in 1 .. n <=> i \in 1 .. Len(q) \/ i = n
  BY <1>1
<1> HIDE DEF p, n
<1>3. \A i \in Places(q) : i \in Places(p) /\ p[i] = q[i]
  BY <1>1, <1>2 DEF Places
<1>4. \A i \in Places(p) : i \in Places(q) \/ (i = n /\ e \in Carriers)
  BY <1>1, <1>2 DEF Places
<1>5. e \in Carriers => n \in Places(p)
  BY <1>1, <1>2 DEF Places
<1> QED
  BY <1>1, <1>3, <1>4, <1>5 DEF Reqs, p

\* A request that is read was nowhere.
LEMMA RequestFresh ==
  ASSUME IInv, Placed, NEW c \in Conn, NEW r \in Request, OnHttpRequest(c, r)
  PROVE  /\ r \notin Reqs(main_tasks) \cup Reqs(held) \cup Reqs(http_tasks)
         /\ \A d \in Conn : r \notin Reqs(answers[d])
<1>1. \A d \in Conn : r \notin Range(asked[d])
  BY DEF OnHttpRequest
<1> QED
  BY <1>1, QueueConns DEF Placed, QueuesRight, AnswersRight, Owned, Reqs

\* What was asked before, and what is asked now.
LEMMA AskedNow ==
  ASSUME IInv, NEW c \in Conn, NEW r \in Request,
         asked' = [asked EXCEPT ![c] = Append(@, r)]
  PROVE  /\ \A d \in Conn \ {c} : asked'[d] = asked[d]
         /\ DOMAIN asked[c] = 1 .. Len(asked[c]) /\ Len(asked[c]) \in Nat
         /\ DOMAIN asked'[c] = 1 .. Len(asked[c]) + 1
         /\ \A i \in DOMAIN asked'[c] :
              \/ i \in DOMAIN asked[c] /\ asked'[c][i] = asked[c][i]
              \/ i = Len(asked[c]) + 1 /\ asked'[c][i] = r
<1>1. asked \in [Conn -> Seq(Request)]
  BY DEF IInv, TypeOK
<1>2. \A d \in Conn : asked'[d] = IF d = c THEN Append(asked[c], r) ELSE asked[d]
  BY <1>1
<1>3. asked[c] \in Seq(Request)
  BY <1>1
<1>4. /\ Append(asked[c], r) \in Seq(Request)
      /\ Len(Append(asked[c], r)) = Len(asked[c]) + 1
      /\ \A i \in 1 .. Len(asked[c]) : Append(asked[c], r)[i] = asked[c][i]
      /\ Append(asked[c], r)[Len(asked[c]) + 1] = r
  BY <1>3, AppendKeeps
<1>5. /\ DOMAIN asked[c] = 1 .. Len(asked[c]) /\ Len(asked[c]) \in Nat
      /\ DOMAIN Append(asked[c], r) = 1 .. Len(asked[c]) + 1
  BY <1>3, <1>4
<1>6. \A i \in 1 .. Len(asked[c]) + 1 : i \in 1 .. Len(asked[c]) \/ i = Len(asked[c]) + 1
  BY <1>5
<1> QED
  BY <1>2, <1>4, <1>5, <1>6

\* The pairs of calls that a request read adds.
LEMMA PairsNow ==
  ASSUME IInv, NEW c \in Conn, NEW r \in Request,
         asked' = [asked EXCEPT ![c] = Append(@, r)],
         NEW d \in Conn, NEW r1, NEW r2, Asked(d, r1, r2)'
  PROVE  \/ Asked(d, r1, r2)
         \/ d = c /\ r2 = r /\ r1 \in Range(asked[c]) /\ Kind[r1] = "call" /\ Kind[r2] = "call"
<1>1. PICK i, j \in DOMAIN asked'[d] : i < j /\ asked'[d][i] = r1 /\ asked'[d][j] = r2
  BY DEF Asked
<1>2. Kind[r1] = "call" /\ Kind[r2] = "call"
  BY DEF Asked
<1>3. CASE d # c
  BY <1>1, <1>2, <1>3, AskedNow DEF Asked
<1>4. CASE d = c
  <2>1. i \in DOMAIN asked[c] /\ asked'[c][i] = asked[c][i]
    BY <1>1, <1>4, AskedNow
  <2>2. CASE j \in DOMAIN asked[c] /\ asked'[c][j] = asked[c][j]
    BY <1>1, <1>2, <1>4, <2>1, <2>2 DEF Asked
  <2>3. CASE asked'[c][j] = r
    BY <1>1, <1>2, <1>4, <2>1, <2>3 DEF Range
  <2> QED
    BY <1>1, <1>4, <2>2, <2>3, AskedNow
<1> QED
  BY <1>3, <1>4

\* An answer of another request, or one whose earlier calls are answered, leaves
\* the answers of a client in order.
LEMMA AnswerOrdered ==
  ASSUME IInv, NEW c \in Conn, NEW r \in Request,
         NEW status \in {"ok", "accepted", "refused"}, SendResponse(c, r, status),
         NEW d \in Conn, NEW r1, NEW r2, After(answers[d], {}, r1, r2),
         d = c /\ peer[c] = "connected" /\ r = r2 => r1 \in Reqs(answers[c])
  PROVE  /\ After(answers'[d], {}, r1, r2)
         /\ Reqs(answers[d]) \subseteq Reqs(answers'[d])
         /\ d = c /\ peer[c] = "connected" => r \in Reqs(answers'[d])
<1> DEFINE e == [req |-> r, status |-> status]
<1>1. /\ e \in Answer /\ e \in Carriers /\ e.req = r
      /\ answers \in [Conn -> Seq(Answer)]
  BY DEF Answer, Carriers, IInv, TypeOK
<1>2. answers[d] \in Seq(Answer)
  BY <1>1
<1>3. CASE d = c /\ peer[c] = "connected"
  <2>1. answers'[d] = Append(answers[d], e)
    BY <1>1, <1>3 DEF SendResponse
  <2> HIDE DEF e
  <2>2. e \in Carriers /\ e.req = r2 => r1 \in {} \cup Reqs(answers[d])
    BY <1>1, <1>3
  <2>3. After(Append(answers[d], e), {}, r1, r2)
    BY <1>1, <1>2, <2>2, AfterAppend
  <2> QED
    BY <1>1, <1>2, <2>1, <2>3, AppendReqs
<1>4. CASE ~(d = c /\ peer[c] = "connected")
  <2>1. answers'[d] = answers[d]
    BY <1>1, <1>4 DEF SendResponse
  <2> QED
    BY <1>4, <2>1
<1> QED
  BY <1>3, <1>4

\* Nothing precedes what is not in a queue.
LEMMA AfterAbsent ==
  ASSUME NEW q, NEW S, NEW r1, NEW r2, r2 \notin Reqs(q)
  PROVE  After(q, S, r1, r2)
BY DEF After, Reqs

\* A pair of calls is asked on its connection, and of two different requests.
LEMMA AskedRange ==
  ASSUME NEW c \in Conn, NEW r1, NEW r2, Asked(c, r1, r2)
  PROVE  /\ r1 \in Range(asked[c]) /\ r2 \in Range(asked[c])
         /\ Kind[r1] = "call" /\ Kind[r2] = "call"
BY DEF Asked, Range

\* A call that is read comes behind every call read before it.
LEMMA RequestSequenced ==
  ASSUME IInv, Placed, Sequenced, NEW c \in Conn, NEW r \in Request, OnHttpRequest(c, r)
  PROVE  Sequenced'
<1>1. /\ asked' = [asked EXCEPT ![c] = Append(@, r)]
      /\ \A d \in Conn : r \notin Range(asked[d])
      /\ held' = held /\ http_tasks' = http_tasks /\ peer' = peer
      /\ open_connections' = open_connections /\ c \in open_connections
  BY DEF OnHttpRequest, serverVars
<1>t. /\ main_tasks \in Seq(Message) /\ [conn |-> c, req |-> r] \in Message
      /\ [conn |-> c, req |-> r] \in Carriers
  BY DEF IInv, TypeOK, Message, Carriers
<1>2. AskedOnce'
  <2> SUFFICES ASSUME NEW d1 \in Conn, NEW d2 \in Conn, NEW i \in DOMAIN asked'[d1],
                      NEW j \in DOMAIN asked'[d2], asked'[d1][i] = asked'[d2][j]
               PROVE  d1 = d2 /\ i = j
    BY DEF AskedOnce
  <2>1. \/ i \in DOMAIN asked[d1] /\ asked'[d1][i] = asked[d1][i]
        \/ d1 = c /\ i = Len(asked[c]) + 1 /\ asked'[d1][i] = r
    BY <1>1, AskedNow
  <2>2. \/ j \in DOMAIN asked[d2] /\ asked'[d2][j] = asked[d2][j]
        \/ d2 = c /\ j = Len(asked[c]) + 1 /\ asked'[d2][j] = r
    BY <1>1, AskedNow
  <2>3. \A d \in Conn : \A k \in DOMAIN asked[d] : asked[d][k] # r
    BY <1>1 DEF Range
  <2> QED
    BY <2>1, <2>2, <2>3 DEF Sequenced, AskedOnce
<1>3. Listed'
  BY <1>1, AskedNow DEF Sequenced, Listed
<1>4. ASSUME Kind[r] = "refused"
      PROVE  SendResponse(c, r, "refused") /\ main_tasks' = main_tasks
  BY <1>4 DEF OnHttpRequest
<1>5. ASSUME Kind[r] # "refused"
      PROVE  /\ main_tasks' = Append(main_tasks, [conn |-> c, req |-> r])
             /\ answers' = answers
             /\ Reqs(main_tasks') = Reqs(main_tasks) \cup {r}
  <2>1. main_tasks' = Append(main_tasks, [conn |-> c, req |-> r]) /\ answers' = answers
    BY <1>5 DEF OnHttpRequest, Forward
  <2> QED
    BY <1>t, <2>1, AppendReqs
<1>6. ASSUME NEW d \in Conn PROVE Reqs(answers[d]) \subseteq Reqs(answers'[d])
  <2>1. CASE Kind[r] = "refused"
    <3>1. After(answers[d], {}, r, r) /\ SendResponse(c, r, "refused")
      BY <1>4, <2>1, AfterAbsent, RequestFresh
    <3>2. CASE ~(d = c /\ peer[c] = "connected")
      BY <3>1, <3>2, AnswerOrdered
    <3>3. CASE d = c /\ peer[c] = "connected"
      <4> DEFINE e == [req |-> r, status |-> "refused"]
      <4>1. e \in Answer /\ answers \in [Conn -> Seq(Answer)] /\ answers[d] \in Seq(Answer)
        BY DEF Answer, IInv, TypeOK
      <4>2. answers'[d] = Append(answers[d], e)
        BY <3>1, <3>3, <4>1 DEF SendResponse
      <4> HIDE DEF e
      <4> QED
        BY <4>1, <4>2, AppendReqs
    <3> QED
      BY <3>2, <3>3
  <2> QED
    BY <1>5, <2>1
<1>7. Ordered'
  <2> SUFFICES ASSUME NEW d \in Conn, NEW r1 \in Request, NEW r2 \in Request,
                      Asked(d, r1, r2)'
               PROVE  InOrder(d, r1, r2)'
    BY DEF Ordered
  <2>1. CASE Asked(d, r1, r2)
    <3>1. InOrder(d, r1, r2) /\ r # r1 /\ r # r2
      BY <1>1, <2>1, AskedRange DEF Sequenced, Ordered
    <3>2. After(answers'[d], {}, r1, r2)
      <4>1. CASE Kind[r] = "refused"
        BY <1>4, <3>1, <4>1, AnswerOrdered DEF InOrder
      <4> QED
        BY <1>5, <3>1, <4>1 DEF InOrder
    <3>3. ASSUME peer[d] = "connected" PROVE After(main_tasks', AheadOfMain(d), r1, r2)
      <4>1. After(main_tasks, AheadOfMain(d), r1, r2)
        BY <3>1, <3>3 DEF InOrder
      <4>2. CASE Kind[r] # "refused"
        <5>1. [conn |-> c, req |-> r].req # r2
          BY <3>1
        <5> QED
          BY <1>t, <1>5, <4>1, <4>2, <5>1, AfterAppend
      <4> QED
        BY <1>4, <4>1, <4>2
    <3> QED
      BY <1>1, <1>6, <3>1, <3>2, <3>3, AfterWiden DEF InOrder, AheadOfTasks, AheadOfHeld,
         AheadOfMain
  <2>2. CASE d = c /\ r2 = r /\ r1 \in Range(asked[c]) /\ Kind[r1] = "call" /\ Kind[r2] = "call"
    <3>1. answers' = answers /\ main_tasks' = Append(main_tasks, [conn |-> c, req |-> r])
      BY <1>5, <2>2
    <3>2. /\ After(answers[d], {}, r1, r2) /\ After(http_tasks, AheadOfTasks(d), r1, r2)
          /\ After(held, AheadOfHeld(d), r1, r2) /\ After(main_tasks, AheadOfMain(d), r1, r2)
      BY <2>2, RequestFresh, AfterAbsent
    <3>3. peer[d] = "connected" => r1 \in AheadOfMain(d) \cup Reqs(main_tasks)
      BY <2>2 DEF Sequenced, Kept
    <3>4. peer[d] = "connected" => After(main_tasks', AheadOfMain(d), r1, r2)
      BY <1>t, <3>1, <3>2, <3>3, AfterAppend
    <3> QED
      BY <1>1, <3>1, <3>2, <3>4 DEF InOrder, AheadOfTasks, AheadOfHeld, AheadOfMain
  <2> QED
    BY <1>1, <2>1, <2>2, PairsNow
<1>8. Kept'
  <2> SUFFICES ASSUME NEW d \in Conn, NEW q \in Request, peer[d] = "connected",
                      q \in Range(asked'[d]), Kind[q] = "call"
               PROVE  q \in (AheadOfMain(d) \cup Reqs(main_tasks))'
    BY <1>1 DEF Kept
  <2>1. q \in Range(asked[d]) \/ q = r
    BY <1>1, AskedNow DEF Range
  <2>2. q \in Range(asked[d]) => q \in AheadOfMain(d) \cup Reqs(main_tasks)
    BY DEF Sequenced, Kept
  <2>3. Reqs(main_tasks) \subseteq Reqs(main_tasks')
    BY <1>4, <1>5
  <2>4. q = r => q \in Reqs(main_tasks')
    BY <1>5
  <2> QED
    BY <1>1, <1>6, <2>1, <2>2, <2>3, <2>4 DEF AheadOfMain
<1>9. Unstarted'
  BY DEF OnHttpRequest, threadVars, Sequenced, Unstarted
<1> QED
  BY <1>2, <1>3, <1>7, <1>8, <1>9 DEF Sequenced

\* The main thread takes a message, and holds it or posts its answer.
LEMMA MessageSequenced ==
  ASSUME IInv, Placed, Sequenced, OnMessage
  PROVE  Sequenced'
<1>0. /\ http_tasks \in Seq(Tasks) /\ main_tasks \in Seq(Message)
      /\ held \in Seq(Message)
  BY DEF IInv, TypeOK, Tasks
<1>1. /\ asked' = asked /\ answers' = answers /\ peer' = peer
      /\ open_connections' = open_connections
      /\ main_tasks # <<>> /\ main_tasks' = Tail(main_tasks)
  BY DEF OnMessage, clientVars, serverVars
<1> DEFINE m == Head(main_tasks)
<1>2. m \in Message /\ m \in Carriers
  BY <1>0, <1>1, TailKeeps DEF Carriers
<1>3. AskedOnce' /\ Listed' /\ Unstarted'
  <2>1. main = "up" /\ main' = main
    BY DEF OnMessage, threadVars
  <2>2. main # "new"
    BY <2>1
  <2> QED
    BY <1>1, <2>1, <2>2, ClientsStay
<1>4. \A q \in Reqs(main_tasks) : q \in Reqs(main_tasks') \/ q = m.req
  BY <1>0, <1>1, TailReqs
<1>5. ASSUME NEW d \in Conn, NEW r1, NEW r2, After(main_tasks, AheadOfMain(d), r1, r2)
      PROVE  /\ After(main_tasks', AheadOfMain(d) \cup {m.req}, r1, r2)
             /\ m.req = r2 => r1 \in AheadOfMain(d)
  BY <1>0, <1>1, <1>2, <1>5, AfterTail
<1>6. ASSUME NEW d \in Conn, NEW r1, NEW r2, Asked(d, r1, r2)
      PROVE  Asked(d, r1, r2)' /\ Kind[r1] = "call" /\ Kind[r2] = "call"
  BY <1>1, <1>6 DEF Asked
<1>7. CASE Kind[m.req] = "call"
  <2>1. held' = Append(held, m) /\ http_tasks' = http_tasks
    BY <1>7 DEF OnMessage
  <2> HIDE DEF m
  <2>2. Reqs(held') = Reqs(held) \cup {m.req}
    BY <1>0, <1>2, <2>1, AppendReqs
  <2>3. \A d \in Conn : /\ AheadOfMain(d)' = AheadOfMain(d) \cup {m.req}
                        /\ AheadOfHeld(d)' = AheadOfHeld(d)
                        /\ AheadOfTasks(d)' = AheadOfTasks(d)
    BY <1>1, <2>1, <2>2 DEF AheadOfMain, AheadOfHeld, AheadOfTasks
  <2>4. Kept'
    BY <1>1, <1>4, <2>3 DEF Sequenced, Kept
  <2>5. ASSUME NEW d \in Conn, NEW r1 \in Request, NEW r2 \in Request,
               Asked(d, r1, r2)'
        PROVE  InOrder(d, r1, r2)'
    <3>1. InOrder(d, r1, r2)
      BY <1>1, <2>5 DEF Sequenced, Ordered, Asked
    <3>2. ASSUME peer[d] = "connected" PROVE After(held', AheadOfHeld(d), r1, r2)
      <4>1. /\ After(held, AheadOfHeld(d), r1, r2)
            /\ m.req = r2 => r1 \in AheadOfHeld(d) \cup Reqs(held)
        BY <1>5, <3>1, <3>2 DEF InOrder, AheadOfMain, AheadOfHeld
      <4> QED
        BY <1>0, <1>2, <2>1, <4>1, AfterAppend
    <3>3. peer[d] = "connected" => After(main_tasks', AheadOfMain(d)', r1, r2)
      BY <1>5, <2>3, <3>1 DEF InOrder
    <3> QED
      BY <1>1, <2>1, <2>3, <3>1, <3>2, <3>3 DEF InOrder
  <2> QED
    BY <1>3, <2>4, <2>5 DEF Sequenced, Ordered
<1>8. CASE Kind[m.req] # "call"
  <2> DEFINE e == Response(m, IF Kind[m.req] = "notification" THEN "accepted" ELSE "ok")
  <2>1. http_tasks' = Append(http_tasks, e) /\ held' = held
    BY <1>8 DEF OnMessage
  <2>2. e \in Tasks /\ e.task = "send"
    BY <1>2, ResponseIsTask
  <2>3. e \in Carriers /\ e.req = m.req
    BY <1>2 DEF Response, Carriers, Message
  <2> HIDE DEF m, e
  <2>4. Reqs(http_tasks') = Reqs(http_tasks) \cup {m.req}
    BY <1>0, <2>1, <2>2, <2>3, AppendReqs
  <2>5. \A d \in Conn : /\ AheadOfMain(d)' = AheadOfMain(d) \cup {m.req}
                        /\ AheadOfHeld(d)' = AheadOfHeld(d) \cup {m.req}
                        /\ AheadOfTasks(d)' = AheadOfTasks(d)
    BY <1>1, <2>1, <2>4 DEF AheadOfMain, AheadOfHeld, AheadOfTasks
  <2>6. Kept'
    BY <1>1, <1>4, <2>5 DEF Sequenced, Kept
  <2>7. ASSUME NEW d \in Conn, NEW r1 \in Request, NEW r2 \in Request,
               Asked(d, r1, r2)'
        PROVE  InOrder(d, r1, r2)'
    <3>1. InOrder(d, r1, r2) /\ m.req # r2
      BY <1>1, <1>8, <2>7 DEF Sequenced, Ordered, Asked
    <3>2. peer[d] = "connected" => After(http_tasks', AheadOfTasks(d), r1, r2)
      BY <1>0, <2>1, <2>2, <2>3, <3>1, AfterAppend DEF InOrder
    <3>3. peer[d] = "connected" => After(main_tasks', AheadOfMain(d)', r1, r2)
      BY <1>5, <2>5, <3>1 DEF InOrder
    <3>4. peer[d] = "connected" => After(held', AheadOfHeld(d)', r1, r2)
      BY <2>1, <2>5, <3>1, AfterWiden DEF InOrder
    <3> QED
      BY <1>1, <2>5, <3>1, <3>2, <3>3, <3>4 DEF InOrder
  <2> QED
    BY <1>3, <2>6, <2>7 DEF Sequenced, Ordered
<1> QED
  BY <1>7, <1>8

\* The oldest call that is held goes to the HTTP thread, behind the others.
LEMMA CompleteSequenced ==
  ASSUME IInv, Placed, Sequenced, OnToolCallComplete
  PROVE  Sequenced'
<1>0. http_tasks \in Seq(Tasks) /\ held \in Seq(Message)
  BY DEF IInv, TypeOK, Tasks
<1> DEFINE m == Head(held)
           e == Response(m, "ok")
<1>1. /\ asked' = asked /\ answers' = answers /\ main_tasks' = main_tasks
      /\ peer' = peer /\ open_connections' = open_connections
      /\ held # <<>> /\ held' = Tail(held)
      /\ http_tasks' = Append(http_tasks, e)
  BY DEF OnToolCallComplete, clientVars, serverVars
<1>2. m \in Message /\ m \in Carriers
  BY <1>0, <1>1, TailKeeps DEF Carriers
<1>3. e \in Tasks /\ e \in Carriers /\ e.req = m.req
  <2>1. e \in Tasks
    BY <1>2, ResponseIsTask
  <2> QED
    BY <1>2, <2>1 DEF Response, Carriers, Message
<1>4. \A q \in Reqs(held) : q \in Reqs(held') \/ q = m.req
  BY <1>0, <1>1, TailReqs
<1>4a. Reqs(held') \cup {m.req} = Reqs(held)
  <2>1. m.req \in Reqs(held)
    BY <1>0, <1>1, <1>2, TakeFirst DEF Placed, QueuesRight
  <2> QED
    BY <1>0, <1>1, <1>4, <2>1, TailReqs
<1>5. ASSUME NEW d \in Conn, NEW r1, NEW r2, After(held, AheadOfHeld(d), r1, r2)
      PROVE  /\ After(held', AheadOfHeld(d) \cup {m.req}, r1, r2)
             /\ m.req = r2 => r1 \in AheadOfHeld(d)
  BY <1>0, <1>1, <1>2, <1>5, AfterTail
<1> HIDE DEF m, e
<1>6. Reqs(http_tasks') = Reqs(http_tasks) \cup {m.req}
  BY <1>0, <1>1, <1>3, AppendReqs
<1>7. \A d \in Conn : /\ AheadOfMain(d)' = AheadOfMain(d)
                      /\ AheadOfHeld(d)' = AheadOfHeld(d) \cup {m.req}
                      /\ AheadOfTasks(d)' = AheadOfTasks(d)
  BY <1>1, <1>4a, <1>6 DEF AheadOfMain, AheadOfHeld, AheadOfTasks
<1>8. AskedOnce' /\ Listed' /\ Unstarted'
  <2>1. main = "up" /\ main' = main
    BY DEF OnToolCallComplete, threadVars
  <2>2. main # "new"
    BY <2>1
  <2> QED
    BY <1>1, <2>1, <2>2, ClientsStay
<1>9. Kept'
  BY <1>1, <1>7 DEF Sequenced, Kept
<1>10. ASSUME NEW d \in Conn, NEW r1 \in Request, NEW r2 \in Request, Asked(d, r1, r2)'
       PROVE  InOrder(d, r1, r2)'
  <2>1. InOrder(d, r1, r2)
    BY <1>1, <1>10 DEF Sequenced, Ordered, Asked
  <2>2. ASSUME peer[d] = "connected" PROVE After(http_tasks', AheadOfTasks(d), r1, r2)
    <3>1. /\ After(http_tasks, AheadOfTasks(d), r1, r2)
          /\ m.req = r2 => r1 \in AheadOfTasks(d) \cup Reqs(http_tasks)
      BY <1>5, <2>1, <2>2 DEF InOrder, AheadOfHeld, AheadOfTasks
    <3> QED
      BY <1>0, <1>1, <1>3, <3>1, AfterAppend
  <2>3. peer[d] = "connected" => After(held', AheadOfHeld(d)', r1, r2)
    BY <1>5, <1>7, <2>1 DEF InOrder
  <2> QED
    BY <1>1, <1>7, <2>1, <2>2, <2>3 DEF InOrder
<1> QED
  BY <1>8, <1>9, <1>10 DEF Sequenced, Ordered

\* The HTTP thread takes a task: an answer goes behind those its client has got,
\* and no other client asked for it.
LEMMA SendSequenced ==
  ASSUME IInv, Placed, Sequenced, SendMCPResponse
  PROVE  Sequenced'
<1>0. http_tasks \in Seq(Tasks) /\ answers \in [Conn -> Seq(Answer)]
  BY DEF IInv, TypeOK, Tasks, Answer
<1> DEFINE m == Head(http_tasks)
<1>1. /\ asked' = asked /\ main_tasks' = main_tasks /\ held' = held /\ peer' = peer
      /\ open_connections' = open_connections
      /\ http_tasks # <<>> /\ http_tasks' = Tail(http_tasks)
      /\ m.task = "send"
      /\ IF m.conn \in open_connections THEN SendResponse(m.conn, m.req, m.status)
                                        ELSE answers' = answers
  BY DEF SendMCPResponse, Runs, serverVars
<1>2. /\ m \in Carriers /\ m.conn \in Conn /\ m.req \in Request
      /\ m.status \in {"ok", "accepted", "refused"}
  <2>1. m \in Tasks
    BY <1>0, <1>1, TailKeeps
  <2>2. m \in [task : {"send"}, conn : Conn, req : Request, status : {"ok", "accepted"}]
    BY <1>1, <2>1 DEF Tasks
  <2> HIDE DEF m
  <2> QED
    BY <2>2 DEF Carriers
<1>3. m.req \in Reqs(http_tasks) /\ m.req \in Range(asked[m.conn])
  BY <1>0, <1>1, <1>2, TakeFirst DEF Placed, QueuesRight
<1>4. \A q \in Reqs(http_tasks) : q \in Reqs(http_tasks') \/ q = m.req
  BY <1>0, <1>1, TailReqs
<1>5. ASSUME NEW d \in Conn, NEW r1, NEW r2, After(http_tasks, AheadOfTasks(d), r1, r2)
      PROVE  /\ After(http_tasks', AheadOfTasks(d) \cup {m.req}, r1, r2)
             /\ m.req = r2 => r1 \in AheadOfTasks(d)
  BY <1>0, <1>1, <1>2, <1>5, AfterTail
<1>6. ASSUME NEW d \in Conn, m.req \in Range(asked[d]) PROVE d = m.conn
  BY <1>2, <1>3, <1>6 DEF Sequenced, AskedOnce, Range
<1> HIDE DEF m
<1>7. PICK c \in Conn, r \in Request, status \in {"ok", "accepted", "refused"} :
        c = m.conn /\ r = m.req /\ status = m.status
  BY <1>2
<1>8. peer[c] = "connected" => c \in open_connections
  BY DEF Sequenced, Listed
<1>9. answers' = answers \/ SendResponse(c, r, status)
  BY <1>1, <1>7
<1>10. peer[c] = "connected" => SendResponse(c, r, status)
  BY <1>1, <1>7, <1>8
<1>11. ASSUME NEW d \in Conn
       PROVE  /\ Reqs(answers[d]) \subseteq Reqs(answers'[d])
              /\ d = c /\ peer[d] = "connected" => r \in Reqs(answers'[d])
  <2>1. CASE answers' = answers /\ ~(d = c /\ peer[d] = "connected")
    BY <2>1
  <2>2. CASE SendResponse(c, r, status) /\ ~(d = c /\ peer[c] = "connected")
    <3>1. answers'[d] = answers[d]
      BY <1>0, <2>2 DEF SendResponse
    <3> QED
      BY <2>2, <3>1
  <2>3. CASE d = c /\ peer[d] = "connected"
    <3> DEFINE e == [req |-> r, status |-> status]
    <3>1. e \in Answer /\ e \in Carriers /\ e.req = r /\ answers[d] \in Seq(Answer)
      BY <1>0 DEF Answer, Carriers
    <3>2. answers'[d] = Append(answers[d], e)
      BY <1>0, <1>10, <2>3 DEF SendResponse
    <3> HIDE DEF e
    <3> QED
      BY <3>1, <3>2, AppendReqs
  <2> QED
    BY <1>9, <2>1, <2>2, <2>3
<1>12. ASSUME NEW d \in Conn, NEW q \in Range(asked[d]), peer[d] = "connected"
       PROVE  /\ q \in AheadOfHeld(d) => q \in AheadOfHeld(d)'
              /\ q \in AheadOfMain(d) => q \in AheadOfMain(d)'
              /\ q = m.req => q \in AheadOfTasks(d)'
  <2>1. q = m.req => q \in Reqs(answers'[d])
    BY <1>6, <1>7, <1>11, <1>12
  <2>2. q \in Reqs(http_tasks) => q \in Reqs(http_tasks') \cup Reqs(answers'[d])
    BY <1>4, <2>1
  <2>3. Reqs(answers[d]) \subseteq Reqs(answers'[d]) /\ Reqs(held') = Reqs(held)
    BY <1>1, <1>11
  <2>4. /\ AheadOfHeld(d)' = Reqs(answers'[d]) \cup Reqs(http_tasks')
        /\ AheadOfMain(d)' = Reqs(answers'[d]) \cup Reqs(http_tasks') \cup Reqs(held')
        /\ AheadOfTasks(d)' = Reqs(answers'[d])
    BY DEF AheadOfHeld, AheadOfMain, AheadOfTasks
  <2>5. /\ AheadOfHeld(d) = Reqs(answers[d]) \cup Reqs(http_tasks)
        /\ AheadOfMain(d) = Reqs(answers[d]) \cup Reqs(http_tasks) \cup Reqs(held)
    BY DEF AheadOfHeld, AheadOfMain
  <2> QED
    BY <2>1, <2>2, <2>3, <2>4, <2>5
<1>13. AskedOnce' /\ Listed' /\ Unstarted'
  <2>1. main' = main
    BY DEF SendMCPResponse, threadVars
  <2>2. /\ asked' = asked /\ peer' = peer /\ open_connections' = open_connections
        /\ http_tasks # <<>>
    BY <1>1
  <2>3. AskedOnce'
    BY <2>2 DEF Sequenced, AskedOnce
  <2>4. Listed'
    BY <2>2 DEF Sequenced, Listed
  <2> QED
    BY <2>1, <2>2, <2>3, <2>4 DEF Sequenced, Unstarted
<1>14. Kept'
  BY <1>1, <1>12 DEF Sequenced, Kept
<1>15. ASSUME NEW d \in Conn, NEW r1 \in Request, NEW r2 \in Request, Asked(d, r1, r2)'
       PROVE  InOrder(d, r1, r2)'
  <2>1. Asked(d, r1, r2) /\ r1 \in Range(asked[d]) /\ InOrder(d, r1, r2)
    BY <1>1, <1>15, AskedRange DEF Sequenced, Ordered, Asked
  <2>2. After(answers'[d], {}, r1, r2)
    <3>1. After(answers[d], {}, r1, r2)
      BY <2>1 DEF InOrder
    <3>2. d = c /\ peer[c] = "connected" /\ r = r2 => r1 \in Reqs(answers[c])
      BY <1>5, <1>7, <2>1 DEF InOrder, AheadOfTasks
    <3>3. CASE answers' = answers
      BY <3>1, <3>3
    <3>4. CASE SendResponse(c, r, status)
      BY <3>1, <3>2, <3>4, AnswerOrdered
    <3> QED
      BY <1>9, <3>3, <3>4
  <2>3. ASSUME peer[d] = "connected"
        PROVE  /\ After(http_tasks', AheadOfTasks(d)', r1, r2)
               /\ After(held', AheadOfHeld(d)', r1, r2)
               /\ After(main_tasks', AheadOfMain(d)', r1, r2)
    <3>1. After(http_tasks', AheadOfTasks(d) \cup {m.req}, r1, r2)
      BY <1>5, <2>1, <2>3 DEF InOrder
    <3>2. r1 \in AheadOfTasks(d) \cup {m.req} => r1 \in AheadOfTasks(d)'
      BY <1>11, <1>12, <2>1, <2>3 DEF AheadOfTasks
    <3>3. After(http_tasks', AheadOfTasks(d)', r1, r2)
      BY <3>1, <3>2, AfterWiden
    <3>4. After(held, AheadOfHeld(d)', r1, r2) /\ After(main_tasks, AheadOfMain(d)', r1, r2)
      BY <1>12, <2>1, <2>3, AfterWiden DEF InOrder
    <3> QED
      BY <1>1, <3>3, <3>4
  <2> QED
    BY <1>1, <2>2, <2>3 DEF InOrder
<1> QED
  BY <1>13, <1>14, <1>15 DEF Sequenced, Ordered

\* Of a queue whose tasks for a client do not change, nothing else matters.
LEMMA SamePlaces ==
  ASSUME Sequenced, NEW d \in Conn, peer'[d] = "connected",
         asked[d] # <<>> => peer[d] = "connected",
         UNCHANGED <<main_tasks, held, asked, answers>>,
         Reqs(http_tasks') = Reqs(http_tasks),
         \A r1, r2 : After(http_tasks, AheadOfTasks(d), r1, r2) =>
                     After(http_tasks', AheadOfTasks(d), r1, r2)
  PROVE  /\ \A r \in Request : r \in Range(asked'[d]) /\ Kind[r] = "call" =>
              r \in (AheadOfMain(d) \cup Reqs(main_tasks))'
         /\ \A r1, r2 \in Request : Asked(d, r1, r2)' => InOrder(d, r1, r2)'
<1>1. /\ AheadOfTasks(d)' = AheadOfTasks(d) /\ AheadOfHeld(d)' = AheadOfHeld(d)
      /\ AheadOfMain(d)' = AheadOfMain(d) /\ Reqs(main_tasks') = Reqs(main_tasks)
  BY DEF AheadOfTasks, AheadOfHeld, AheadOfMain
<1>2. \A r1, r2 : Asked(d, r1, r2)' => Asked(d, r1, r2)
  BY DEF Asked
<1>3. Range(asked[d]) # {} => asked[d] # <<>>
  BY DEF Range
<1>4. \A r \in Request : r \in Range(asked'[d]) /\ Kind[r] = "call" =>
        r \in (AheadOfMain(d) \cup Reqs(main_tasks))'
  BY <1>1, <1>3 DEF Sequenced, Kept
<1>5. ASSUME NEW r1 \in Request, NEW r2 \in Request, Asked(d, r1, r2)'
      PROVE  InOrder(d, r1, r2)'
  <2>1. Asked(d, r1, r2) /\ peer[d] = "connected"
    BY <1>2, <1>3, <1>5, AskedRange
  <2>2. InOrder(d, r1, r2)
    BY <2>1 DEF Sequenced, Ordered
  <2> QED
    BY <1>1, <2>1, <2>2 DEF InOrder
<1> QED
  BY <1>4, <1>5

\* The tasks of a start or an end pass for nothing in the queue.
LEMMA TaskAside ==
  ASSUME NEW what \in {"start", "stop", "quit"}, NEW q \in Seq(Tasks)
  PROVE  /\ Append(q, Task(what)) \in Seq(Tasks)
         /\ Reqs(Append(q, Task(what))) = Reqs(q)
         /\ \A S, r1, r2 : After(q, S, r1, r2) => After(Append(q, Task(what)), S, r1, r2)
<1>1. Task(what) \in Tasks /\ Task(what) \notin Carriers
  BY TaskCarriesNothing DEF Task, Tasks
<1>2. Append(q, Task(what)) \in Seq(Tasks) /\ Reqs(Append(q, Task(what))) = Reqs(q)
  BY <1>1, AppendKeeps, AppendReqs
<1>3. ASSUME NEW S, NEW r1, NEW r2, After(q, S, r1, r2)
      PROVE  After(Append(q, Task(what)), S, r1, r2)
  BY <1>1, <1>3, AfterAppend
<1> QED
  BY <1>2, <1>3

\* Starts and ends, and what clients do by themselves, leave the calls of a client
\* that is still there where they were.
LEMMA OtherTasks ==
  ASSUME IInv, Sequenced,
         \/ Start \/ StartReturns \/ Destroy \/ Joined \/ UNCHANGED vars
         \/ StartOnHttpThread \/ Quit
         \/ \E c \in Conn : OnConnect(c) \/ OnClose(c) \/ HangUp(c)
  PROVE  /\ Reqs(http_tasks') = Reqs(http_tasks)
         /\ \A S, r1, r2 : After(http_tasks, S, r1, r2) => After(http_tasks', S, r1, r2)
<1>0. http_tasks \in Seq(Tasks)
  BY DEF IInv, TypeOK, Tasks
<1>1. CASE http_tasks' = http_tasks
  BY <1>1
<1>2. CASE Start /\ http_tasks' = <<Task("start")>>
  <2>1. http_tasks = <<>> /\ Append(<<>>, Task("start")) = <<Task("start")>>
    BY <1>2 DEF Start, Sequenced, Unstarted
  <2>2. http_tasks' = Append(http_tasks, Task("start"))
    BY <1>2, <2>1
  <2> QED
    BY <1>0, <2>2, TaskAside
<1>3. CASE Destroy
  <2>1. Append(http_tasks, Task("stop")) \in Seq(Tasks)
    BY <1>0, TaskAside
  <2>2. http_tasks' = Append(Append(http_tasks, Task("stop")), Task("quit"))
    <3>1. Task("stop") \in Tasks /\ Task("quit") \in Tasks
      BY DEF Task, Tasks
    <3> QED
      BY <1>0, <1>3, <3>1 DEF Destroy
  <2>3. /\ Reqs(http_tasks') = Reqs(Append(http_tasks, Task("stop")))
        /\ \A S, r1, r2 : After(Append(http_tasks, Task("stop")), S, r1, r2) =>
             After(http_tasks', S, r1, r2)
    BY <2>1, <2>2, TaskAside
  <2> QED
    BY <1>0, <2>3, TaskAside
<1>4. ASSUME NEW what \in {"start", "quit"}, Runs(what)
      PROVE  /\ Reqs(http_tasks') = Reqs(http_tasks)
             /\ \A S, r1, r2 : After(http_tasks, S, r1, r2) => After(http_tasks', S, r1, r2)
  <2>1. /\ http_tasks # <<>> /\ http_tasks' = Tail(http_tasks)
        /\ Head(http_tasks).task = what
    BY <1>4 DEF Runs
  <2>2. Head(http_tasks) \notin Carriers
    <3>1. Head(http_tasks) \in Tasks
      BY <1>0, <2>1, TailKeeps
    <3>2. Head(http_tasks) \in [task : {"start", "stop", "quit"}]
      BY <2>1, <3>1 DEF Tasks
    <3> QED
      BY <3>2 DEF Carriers, Message, Answer
  <2>3. \A S, r1, r2 : After(http_tasks, S, r1, r2) => After(http_tasks', S, r1, r2)
    <3> TAKE S, r1, r2
    <3> QED
      BY <1>0, <2>1, <2>2, AfterTail
  <2>4. Reqs(http_tasks') = Reqs(http_tasks)
    BY <1>0, <2>1, <2>2, TailReqs
  <2> QED
    BY <2>3, <2>4
<1>5. \/ http_tasks' = http_tasks \/ (Start /\ http_tasks' = <<Task("start")>>) \/ Destroy
      \/ Runs("start") \/ Runs("quit")
  BY DEF Start, StartReturns, Joined, vars, StartOnHttpThread, Quit, OnConnect, OnClose,
     HangUp, queueVars
<1> QED
  BY <1>1, <1>2, <1>3, <1>4, <1>5

\* So they keep the order.
LEMMA OtherSequenced ==
  ASSUME IInv, Sequenced,
         \/ Start \/ StartReturns \/ Destroy \/ Joined \/ UNCHANGED vars
         \/ StartOnHttpThread \/ StopOnHttpThread \/ Quit
         \/ \E c \in Conn : OnConnect(c) \/ OnClose(c) \/ HangUp(c)
  PROVE  Sequenced'
<1>1. /\ main_tasks' = main_tasks /\ held' = held
      /\ asked' = asked /\ answers' = answers
  BY DEF Start, StartReturns, Destroy, Joined, vars, OnConnect, OnClose, HangUp,
       queueVars, clientVars, StartOnHttpThread, StopOnHttpThread, Quit
<1>p. peer \in [Conn -> {"new", "connected", "hung up", "closed"}]
  BY DEF IInv, TypeOK
<1>2. AskedOnce'
  BY <1>1 DEF Sequenced, AskedOnce
<1>3. Listed'
  <2>2. ASSUME NEW c \in Conn, OnConnect(c) \/ OnClose(c) \/ HangUp(c) PROVE Listed'
    BY <1>1, <1>p, <2>2 DEF Sequenced, Listed, OnConnect, OnClose, HangUp, serverVars
  <2>3. CASE StopOnHttpThread
    BY <1>1, <1>p, <2>3 DEF Sequenced, Listed, StopOnHttpThread
  <2>4. CASE peer' = peer /\ open_connections' = open_connections
    BY <1>1, <2>4 DEF Sequenced, Listed
  <2> QED
    BY <2>2, <2>3, <2>4 DEF Start, StartReturns, Destroy, Joined, vars, StartOnHttpThread,
       Quit, serverVars, clientVars
<1>4. Unstarted'
  BY DEF Start, StartReturns, Destroy, Joined, vars, OnConnect, OnClose, HangUp, threadVars,
       queueVars, StartOnHttpThread, StopOnHttpThread, Quit, Runs, Sequenced, Unstarted
<1>5. ASSUME NEW d \in Conn, peer'[d] = "connected"
      PROVE  /\ \A r \in Request : r \in Range(asked'[d]) /\ Kind[r] = "call" =>
                  r \in (AheadOfMain(d) \cup Reqs(main_tasks))'
             /\ \A r1, r2 \in Request : Asked(d, r1, r2)' => InOrder(d, r1, r2)'
  <2>1. ~StopOnHttpThread
    BY <1>5 DEF StopOnHttpThread
  <2>2. asked[d] # <<>> => peer[d] = "connected"
    <3>1. asked[d] # <<>> => peer[d] # "new"
      BY DEF Sequenced, Listed
    <3> QED
      BY <1>p, <1>5, <2>1, <3>1 DEF Start, StartReturns, Destroy, Joined, vars, OnConnect,
         OnClose, HangUp, StartOnHttpThread, Quit, clientVars
  <2> QED
    BY <1>1, <1>5, <2>1, <2>2, OtherTasks, SamePlaces
<1>6. Kept'
  BY <1>5 DEF Kept
<1>7. ASSUME NEW d \in Conn, NEW r1 \in Request, NEW r2 \in Request, Asked(d, r1, r2)',
             peer'[d] # "connected"
      PROVE  InOrder(d, r1, r2)'
  <2>1. InOrder(d, r1, r2)
    BY <1>1, <1>7 DEF Sequenced, Ordered, Asked
  <2> QED
    BY <1>1, <1>7, <2>1 DEF InOrder
<1> QED
  BY <1>2, <1>3, <1>4, <1>5, <1>6, <1>7 DEF Sequenced, Ordered

\* At the start nothing has been asked.
LEMMA InitSequenced == Init => Sequenced
<1>1. Reqs(<<>>) = {}
  BY DEF Reqs, Places
<1> QED
  BY <1>1 DEF Init, Sequenced, AskedOnce, Listed, Unstarted, Ordered, Asked, Kept, Range

\* Every step keeps the calls in order.
LEMMA StepSequenced == IInv /\ Placed /\ Sequenced /\ [Next]_vars => Sequenced'
  BY RequestSequenced, MessageSequenced, CompleteSequenced, SendSequenced, OtherSequenced
  DEF Next

-----------------------------------------------------------------------------
(* Theorems.                                                               *)

\* The tasks in the queue of the HTTP thread fit the stage of the main thread:
\* one start while Start waits, a stop and a quit only behind the destructor.
THEOREM Inductive == Spec => []IInv
<1>1. Init => IInv
  BY InitInv
<1>2. IInv /\ [Next]_vars => IInv'
  BY StepInv
<1> QED
  BY <1>1, <1>2, PTL DEF Spec

\* Type correctness of the transport, and that a transport whose Start returned
\* true has a server until its destructor runs.
THEOREM Typing == Spec => []TypeOK
<1>1. IInv => TypeOK
  BY DEF IInv
<1> QED
  BY <1>1, Inductive, PTL

\* SendMCPResponse and SendTextResponse never use a server that is gone.
THEOREM ServerIsThere == Spec => []ServerOutlivesConnections
<1>1. IInv => ServerOutlivesConnections
  BY DEF IInv
<1> QED
  BY <1>1, Inductive, PTL

\* A request is in one place only, with the connection it was asked on: posted
\* to the main thread, held by MCPServer, posted to the HTTP thread or answered.
THEOREM OnePlace == Spec => []Placed
<1>1. Init => Placed
  BY InitPlaced
<1>2. IInv /\ Placed /\ [Next]_vars => Placed'
  BY StepPlaced
<1> QED
  BY <1>1, <1>2, Inductive, PTL DEF Spec

\* SendMCPResponse writes an answer to the connection whose request it answers,
\* and once, whatever is in the queues when connections come and go.
THEOREM AnsweredToAsker == Spec => []AnswersReturnToTheAsker
<1>1. IInv /\ Placed => AnswersReturnToTheAsker
  <2> SUFFICES ASSUME IInv, Placed, NEW c \in Conn
               PROVE  /\ Range(Answered(c)) \subseteq Range(asked[c])
                      /\ IsInjective(Answered(c))
    BY DEF AnswersReturnToTheAsker
  <2>1. answers[c] \in Seq(Answer)
    BY DEF IInv, TypeOK, Answer
  <2>2. DOMAIN answers[c] = 1 .. Len(answers[c])
    BY <2>1
  <2>3. \A i \in DOMAIN answers[c] : i \in Places(answers[c])
    BY <2>1, <2>2, ElementsOfSeq DEF Places, Carriers
  <2>4. /\ DOMAIN Answered(c) = DOMAIN answers[c]
        /\ \A i \in DOMAIN answers[c] : Answered(c)[i] = answers[c][i].req
    BY DEF Answered
  <2>5. Range(Answered(c)) \subseteq Reqs(answers[c])
    BY <2>3, <2>4 DEF Range, Reqs
  <2>6. IsInjective(Answered(c))
    BY <2>3, <2>4 DEF IsInjective, Placed, AnswersRight, Once
  <2> QED
    BY <2>5, <2>6 DEF Placed, AnswersRight
<1> QED
  BY <1>1, Inductive, OnePlace, PTL

\* The tool calls of a connection stay in the order they were read in, from queue
\* to queue and to the client.
THEOREM Order == Spec => []Sequenced
<1> QED
  BY InitSequenced, StepSequenced, Inductive, OnePlace, PTL DEF Spec

\* The tool calls that a client sends on one connection without waiting are
\* answered in that order, and none before one that was asked earlier.
THEOREM CallsInOrder == Spec => []CallsAnsweredInOrder
<1>1. IInv /\ Sequenced => CallsAnsweredInOrder
  <2> SUFFICES ASSUME IInv, Sequenced, NEW c \in Conn, NEW i \in DOMAIN asked[c],
                      NEW j \in DOMAIN asked[c], NEW k \in DOMAIN answers[c],
                      i < j, Kind[asked[c][i]] = "call", Kind[asked[c][j]] = "call",
                      answers[c][k].req = asked[c][j]
               PROVE  \E h \in 1 .. k - 1 : answers[c][h].req = asked[c][i]
    BY DEF CallsAnsweredInOrder
  <2>1. answers[c] \in Seq(Answer) /\ asked[c] \in Seq(Request)
    BY DEF IInv, TypeOK, Answer
  <2>2. k \in 1 .. Len(answers[c]) /\ Len(answers[c]) \in Nat
    BY <2>1
  <2>3. k \in Places(answers[c])
    BY <2>1, <2>2, ElementsOfSeq DEF Places, Carriers
  <2>4. Asked(c, asked[c][i], asked[c][j])
    BY DEF Asked
  <2>5. asked[c][i] \in Request /\ asked[c][j] \in Request
    BY <2>1
  <2>6. After(answers[c], {}, asked[c][i], asked[c][j])
    BY <2>4, <2>5 DEF Sequenced, Ordered, InOrder
  <2>7. PICK h \in Places(answers[c]) : h < k /\ answers[c][h].req = asked[c][i]
    BY <2>3, <2>6 DEF After
  <2>8. h \in 1 .. k - 1
    BY <2>2, <2>7 DEF Places
  <2> QED
    BY <2>7, <2>8
<1> QED
  BY <1>1, Inductive, Order, PTL
=============================================================================
