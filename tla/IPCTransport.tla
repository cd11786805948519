---------------------------- MODULE IPCTransport ----------------------------
(***************************************************************************)
(* The Unix socket transport (browserd/mcp/mcp_ipc_transport_posix.cc and  *)
(* mcp_ipc_transport.cc) once it listens: the IPC thread, which polls,     *)
(* accepts, receives and cuts the stream into lines; the main thread,      *)
(* which answers lines and in the end destroys the transport; and clients  *)
(* that connect, write, read and hang up when they like.  The two threads  *)
(* share active_client_fd_ and its generation under lock_, and what either *)
(* of them read there may be stale when it is used.                        *)
(*                                                                         *)
(* A client connects once, so it stands for its connection and descriptor. *)
(* It writes line n in two pieces, numbered 2n-1 and 2n, the second ending *)
(* with the newline; recv returns any number of pieces.  Polling with      *)
(* nothing to report is the timeout of poll.                               *)
(***************************************************************************)
EXTENDS Naturals, Sequences, FiniteSets

CONSTANTS
  Client,
  NoClient,   \* stands for the descriptor -1
  MaxLines,   \* bound: lines a client writes
  Room        \* responses a client's socket holds before send blocks

ASSUME BoundsAssumption ==
  NoClient \notin Client /\ MaxLines \in Nat /\ Room \in Nat \ {0}

VARIABLES
  conn,          \* conn[c]: "new", "backlog", "open" or "closed" by the server
  gone,          \* clients that hung up
  backlog,       \* connections waiting to be accepted
  written,       \* written[c]: pieces c wrote
  taken,         \* taken[c]: pieces received from c
  unread,        \* unread[c]: responses c has yet to read
  got,           \* got[c]: the answers written to c's connection
  active,        \* active_client_fd_
  generation,    \* active_client_generation_
  listening,     \* listener_fd_ >= 0
  stopping,      \* stopping_
  pc,            \* where the IPC thread is in RunLoop
  snapshot,      \* client_snapshot
  snapshot_gen,  \* client_generation
  listener_ready, client_ready,  \* what poll reported
  buffer,        \* pieces of a line not complete yet
  dispatched,    \* history: the lines posted to the main thread, in order
  answered,      \* positions in dispatched whose callback has run
  main,          \* "idle", "sending" under lock_, "joining" or "gone"
  sending        \* what main is sending

vars == <<conn, gone, backlog, written, taken, unread, got, active,
          generation, listening, stopping, pc, snapshot, snapshot_gen,
          listener_ready, client_ready, buffer, dispatched, answered, main,
          sending>>

clientVars == <<gone, written, unread, got>>
pollVars   == <<snapshot, snapshot_gen, listener_ready, client_ready>>
sharedVars == <<active, generation, listening, stopping>>
mainVars   == <<answered, main, sending>>

Init ==
  /\ conn = [c \in Client |-> "new"]
  /\ gone = {}
  /\ backlog = <<>>
  /\ written = [c \in Client |-> 0]
  /\ taken = [c \in Client |-> 0]
  /\ unread = [c \in Client |-> 0]
  /\ got = [c \in Client |-> {}]
  /\ active = NoClient
  /\ generation = 0
  /\ listening = TRUE
  /\ stopping = FALSE
  /\ pc = "loop"
  /\ snapshot = NoClient
  /\ snapshot_gen = 0
  /\ listener_ready = FALSE
  /\ client_ready = FALSE
  /\ buffer = <<>>
  /\ dispatched = <<>>
  /\ answered = {}
  /\ main = "idle"
  /\ sending = 0

-----------------------------------------------------------------------------
(* Helpers.                                                                *)

\* Only a send that blocks keeps lock_ from one step to the next.
LockFree == main # "sending"

\* What recv can return, or tell the end of.
HasInput(c) == taken[c] < written[c]

\* CloseFd on active_client_fd_.
CloseActive ==
  /\ active' = NoClient
  /\ conn' = IF active = NoClient THEN conn
                                  ELSE [conn EXCEPT ![active] = "closed"]

\* RequestStopLocked: connections nobody accepted go with the listener.
RequestStopLocked ==
  /\ active' = NoClient
  /\ listening' = FALSE
  /\ backlog' = <<>>
  /\ conn' = [c \in Client |-> IF conn[c] \in {"open", "backlog"}
                                 THEN "closed" ELSE conn[c]]

\* The ends of lines among the pieces b.
Newlines(b) == {i \in 1 .. Len(b) : b[i].piece % 2 = 0}

\* The ends of those that parse, being lines that a client wrote; anything else
\* is dropped.
Parsed(b) ==
  {i \in Newlines(b) :
     /\ i = 2 \/ i - 2 \in Newlines(b)
     /\ b[i - 1] = [client |-> b[i].client, piece |-> b[i].piece - 1]}

\* The line that ends at position i is posted with the generation g.
LineAt(b, i, g) == [client |-> b[i].client, line |-> b[i].piece \div 2, gen |-> g]

\* Mutant: one line is cut off for each recv.
Dispatch_One(b, g) ==
  IF Newlines(b) = {}
    THEN buffer' = b /\ UNCHANGED dispatched
    ELSE LET first == CHOOSE i \in Newlines(b) : \A j \in Newlines(b) : i <= j
         IN  /\ dispatched' = IF first \in Parsed(b)
                                THEN Append(dispatched, LineAt(b, first, g))
                                ELSE dispatched
             /\ buffer' = SubSeq(b, first + 1, Len(b))

\* All complete lines of b are dispatched, in order; the rest stays in the
\* buffer.
Dispatch(b, g) ==
  \E ends \in [1 .. Cardinality(Parsed(b)) -> Parsed(b)] :
  \E last \in Newlines(b) \cup {0} :
    /\ \A j, k \in DOMAIN ends : j < k => ends[j] < ends[k]
    /\ \A i \in Newlines(b) : i <= last
    /\ dispatched' = dispatched \o [k \in DOMAIN ends |-> LineAt(b, ends[k], g)]
    /\ buffer' = SubSeq(b, last + 1, Len(b))

-----------------------------------------------------------------------------
(* The IPC thread.                                                         *)

\* The top of RunLoop: stop, or copy the descriptors to poll.
Snapshot ==
  /\ pc = "loop"
  /\ LockFree
  /\ IF stopping
       THEN pc' = "exit" /\ UNCHANGED snapshot
       ELSE pc' = "poll" /\ snapshot' = active
  /\ UNCHANGED <<conn, backlog, taken, clientVars, sharedVars, snapshot_gen,
                 listener_ready, client_ready, buffer, dispatched, mainVars>>

\* poll looks at the descriptors it was given.  One the other thread has closed
\* in the meantime may be reported (POLLNVAL) or not.
Poll ==
  /\ pc = "poll"
  /\ listener_ready' \in IF listening THEN {backlog # <<>>} ELSE BOOLEAN
  /\ client_ready' \in IF snapshot = NoClient THEN {FALSE}
                       ELSE IF snapshot = active
                         THEN {HasInput(snapshot) \/ snapshot \in gone}
                       ELSE BOOLEAN
  /\ pc' = IF listener_ready' \/ client_ready' THEN "accept" ELSE "loop"
  /\ UNCHANGED <<conn, backlog, taken, clientVars, sharedVars, snapshot,
                 snapshot_gen, buffer, dispatched, mainVars>>

\* Mutant: bytes left over from the previous client stay in the buffer.
Accept_KeepsBuffer ==
  /\ pc = "accept"
  /\ LockFree
  /\ pc' = "again"
  /\ IF listener_ready /\ backlog # <<>>
       THEN LET c == Head(backlog)
            IN  /\ backlog' = Tail(backlog)
                /\ IF active # NoClient
                     THEN /\ conn' = [conn EXCEPT ![c] = "closed"]
                          /\ UNCHANGED <<active, generation>>
                     ELSE /\ conn' = [conn EXCEPT ![c] = "open"]
                          /\ active' = c
                          /\ generation' = generation + 1
       ELSE UNCHANGED <<conn, backlog, active, generation>>
  /\ UNCHANGED <<taken, clientVars, pollVars, listening, stopping, dispatched,
                 buffer, mainVars>>

\* Mutant: a new client takes the place of the active one.
Accept_Replaces ==
  /\ pc = "accept"
  /\ LockFree
  /\ pc' = "again"
  /\ IF listener_ready /\ backlog # <<>>
       THEN LET c == Head(backlog)
            IN  /\ backlog' = Tail(backlog)
                /\ conn' = [conn EXCEPT ![c] = "open"]
                /\ active' = c
                /\ generation' = generation + 1
                /\ buffer' = <<>>
       ELSE UNCHANGED <<conn, backlog, active, generation, buffer>>
  /\ UNCHANGED <<taken, clientVars, pollVars, listening, stopping, dispatched,
                 mainVars>>

\* accept: the connection becomes the active client, or is closed at once when
\* there is one already.
Accept ==
  /\ pc = "accept"
  /\ LockFree
  /\ pc' = "again"
  /\ IF listener_ready /\ backlog # <<>>
       THEN LET c == Head(backlog)
            IN  /\ backlog' = Tail(backlog)
                /\ IF active # NoClient
                     THEN /\ conn' = [conn EXCEPT ![c] = "closed"]
                          /\ UNCHANGED <<active, generation, buffer>>
                     ELSE /\ conn' = [conn EXCEPT ![c] = "open"]
                          /\ active' = c
                          /\ generation' = generation + 1
                          /\ buffer' = <<>>
       ELSE UNCHANGED <<conn, backlog, active, generation, buffer>>
  /\ UNCHANGED <<taken, clientVars, pollVars, listening, stopping, dispatched,
                 mainVars>>

\* The second look at the active client, which need not be the one polled.
LookAgain ==
  /\ pc = "again"
  /\ LockFree
  /\ snapshot' = active
  /\ snapshot_gen' = generation
  /\ pc' = IF active = NoClient \/ ~client_ready THEN "loop" ELSE "recv"
  /\ UNCHANGED <<conn, backlog, taken, clientVars, sharedVars, listener_ready,
                 client_ready, buffer, dispatched, mainVars>>

\* recv returns pieces, which are cut into lines and posted.
Receive ==
  /\ \/ pc = "recv" /\ active = snapshot
     \/ pc = "blocked"
  /\ HasInput(snapshot)
  /\ \E k \in 1 .. written[snapshot] - taken[snapshot] :
       /\ taken' = [taken EXCEPT ![snapshot] = @ + k]
       /\ Dispatch(buffer \o [j \in 1 .. k |-> [client |-> snapshot,
                                                piece |-> taken[snapshot] + j]],
                   snapshot_gen)
  /\ pc' = "loop"
  /\ UNCHANGED <<conn, backlog, clientVars, sharedVars, pollVars, mainVars>>

\* There is nothing to receive: recv blocks, and a close of the descriptor by
\* the other thread does not wake it.
ReceiveBlocks ==
  /\ pc = "recv"
  /\ active = snapshot
  /\ ~HasInput(snapshot)
  /\ snapshot \notin gone
  /\ pc' = "blocked"
  /\ UNCHANGED <<conn, backlog, taken, clientVars, sharedVars, pollVars, buffer,
                 dispatched, mainVars>>

\* recv returned 0, or failed on a descriptor closed before it was called.
ReceiveEnds ==
  /\ \/ pc = "recv" /\ active # snapshot
     \/ pc \in {"recv", "blocked"} /\ ~HasInput(snapshot) /\ snapshot \in gone
  /\ LockFree
  /\ IF active = snapshot THEN CloseActive ELSE UNCHANGED <<active, conn>>
  /\ buffer' = <<>>
  /\ pc' = "loop"
  /\ UNCHANGED <<backlog, taken, clientVars, generation, listening, stopping,
                 pollVars, dispatched, mainVars>>

Exit ==
  /\ pc = "exit"
  /\ LockFree
  /\ RequestStopLocked
  /\ pc' = "done"
  /\ UNCHANGED <<taken, clientVars, generation, stopping, pollVars, buffer,
                 dispatched, mainVars>>

IPCThread ==
  \/ Snapshot \/ Poll \/ Accept \/ LookAgain
  \/ Receive \/ ReceiveBlocks \/ ReceiveEnds \/ Exit

-----------------------------------------------------------------------------
(* The main thread.                                                        *)

\* send to the active client, with lock_ held: it fails when the client is
\* gone, and blocks when the client's socket is full.
Write(i) ==
  IF active \in gone
    THEN /\ CloseActive
         /\ main' = "idle"
         /\ UNCHANGED <<unread, got>>
    ELSE /\ unread[active] < Room
         /\ unread' = [unread EXCEPT ![active] = @ + 1]
         /\ got' = [got EXCEPT ![active] = @ \cup {i}]
         /\ main' = "idle"
         /\ UNCHANGED <<active, conn>>

\* Mutant: any client that is connected gets the response.
Current_Any(i) == active # NoClient

\* The client a response is for is still the active one.
Current(i) == active # NoClient /\ generation = dispatched[i].gen

\* SendResponse for the i-th line.
SendResponse(i) ==
  /\ main = "idle"
  /\ i \in 1 .. Len(dispatched)
  /\ i \notin answered
  /\ answered' = answered \cup {i}
  /\ \/ /\ ~Current(i)
        /\ UNCHANGED <<active, conn, unread, got, main, sending>>
     \/ /\ Current(i)
        /\ Write(i)
        /\ UNCHANGED sending
     \/ /\ Current(i)
        /\ active \notin gone
        /\ unread[active] = Room
        /\ main' = "sending"
        /\ sending' = i
        /\ UNCHANGED <<active, conn, unread, got>>
  /\ UNCHANGED <<gone, backlog, written, taken, generation, listening, stopping,
                 pc, pollVars, buffer, dispatched>>

SendGoesOn ==
  /\ main = "sending"
  /\ Write(sending)
  /\ sending' = 0
  /\ UNCHANGED <<gone, backlog, written, taken, generation, listening, stopping,
                 pc, pollVars, buffer, dispatched, answered>>

\* ~MCPIPCTransport, after the main loop, up to the join of the IPC thread.
Destroy ==
  /\ main = "idle"
  /\ main' = "joining"
  /\ stopping' = TRUE
  /\ RequestStopLocked
  /\ UNCHANGED <<taken, clientVars, generation, pc, pollVars, buffer,
                 dispatched, answered, sending>>

Joined ==
  /\ main = "joining"
  /\ pc = "done"
  /\ main' = "gone"
  /\ UNCHANGED <<conn, backlog, taken, clientVars, sharedVars, pc, pollVars,
                 buffer, dispatched, answered, sending>>

-----------------------------------------------------------------------------
(* Clients.                                                                *)

Connected(c) == conn[c] \in {"backlog", "open"} /\ c \notin gone

Connect(c) ==
  /\ conn[c] = "new"
  /\ listening
  /\ conn' = [conn EXCEPT ![c] = "backlog"]
  /\ backlog' = Append(backlog, c)
  /\ UNCHANGED <<taken, clientVars, sharedVars, pc, pollVars, buffer,
                 dispatched, mainVars>>

WritePiece(c) ==
  /\ Connected(c)
  /\ written[c] < 2 * MaxLines
  /\ written' = [written EXCEPT ![c] = @ + 1]
  /\ UNCHANGED <<conn, gone, backlog, taken, unread, got, sharedVars, pc,
                 pollVars, buffer, dispatched, mainVars>>

ReadResponse(c) ==
  /\ unread[c] > 0
  /\ c \notin gone
  /\ unread' = [unread EXCEPT ![c] = @ - 1]
  /\ UNCHANGED <<conn, gone, backlog, written, taken, got, sharedVars, pc,
                 pollVars, buffer, dispatched, mainVars>>

HangUp(c) ==
  /\ Connected(c)
  /\ gone' = gone \cup {c}
  /\ UNCHANGED <<conn, backlog, written, taken, unread, got, sharedVars, pc,
                 pollVars, buffer, dispatched, mainVars>>

-----------------------------------------------------------------------------
MainThread == SendGoesOn \/ Destroy \/ Joined \/ \E i \in DOMAIN dispatched : SendResponse(i)

ClientStep(c) == Connect(c) \/ WritePiece(c) \/ ReadResponse(c) \/ HangUp(c)

Next == IPCThread \/ MainThread \/ \E c \in Client : ClientStep(c)

Spec == Init /\ [][Next]_vars

\* Both threads run, and clients read what they are sent.
Fairness ==
  /\ WF_vars(IPCThread)
  /\ WF_vars(SendGoesOn \/ Joined)
  /\ \A c \in Client : WF_vars(ReadResponse(c))

FairSpec == Spec /\ Fairness

-----------------------------------------------------------------------------
(* Properties.                                                             *)

\* The type invariant.
TypeOK ==
  /\ conn \in [Client -> {"new", "backlog", "open", "closed"}]
  /\ gone \subseteq Client
  /\ backlog \in Seq(Client)
  /\ written \in [Client -> 0 .. 2 * MaxLines]
  /\ taken \in [Client -> 0 .. 2 * MaxLines]
  /\ unread \in [Client -> 0 .. Room]
  /\ got \in [Client -> SUBSET (1 .. Len(dispatched))]
  /\ active \in Client \cup {NoClient}
  /\ generation \in 0 .. Cardinality(Client)
  /\ listening \in BOOLEAN
  /\ stopping \in BOOLEAN
  /\ pc \in {"loop", "poll", "accept", "again", "recv", "blocked", "exit", "done"}
  /\ snapshot \in Client \cup {NoClient}
  /\ snapshot_gen \in 0 .. generation
  /\ listener_ready \in BOOLEAN
  /\ client_ready \in BOOLEAN
  /\ buffer \in Seq([client : Client, piece : 1 .. 2 * MaxLines])
  /\ dispatched \in Seq([client : Client, line : 1 .. MaxLines,
                         gen : 1 .. generation])
  /\ answered \subseteq 1 .. Len(dispatched)
  /\ main \in {"idle", "sending", "joining", "gone"}
  /\ sending \in 0 .. Len(dispatched)
  /\ main = "sending" => active # NoClient

\* No more than one connection is ever open: README.md:79-80 promises "one
\* active client at a time".
OneActiveClient == {c \in Client : conn[c] = "open"} = {active} \ {NoClient}

\* Every line of which the last byte has been received has been posted, once and
\* in the order it was written, however recv cut the stream and whatever was
\* left of an earlier client's stream.
EveryLineDispatched ==
  \A c \in Client :
    LET own == {i \in DOMAIN dispatched : dispatched[i].client = c}
    IN  /\ {dispatched[i].line : i \in own} = 1 .. taken[c] \div 2
        /\ \A i, j \in own : i < j => dispatched[i].line < dispatched[j].line

\* A response reaches the client whose line it answers, or nobody: not the one
\* that has connected in the meantime.
AnswersReachTheAsker ==
  \A c \in Client : \A i \in got[c] : dispatched[i].client = c

\* A line that the active client has finished is posted, unless the connection
\* ends first: the thread is never stuck with a line in hand.
LinesAreServed ==
  \A c \in Client : \A n \in 1 .. MaxLines :
    (conn[c] = "open" /\ written[c] >= 2 * n)
      ~> \/ conn[c] = "closed"
         \/ \E i \in DOMAIN dispatched :
              dispatched[i].client = c /\ dispatched[i].line = n

\* A client that connects is accepted or, while another is active, closed: it is
\* not left waiting (tests/test_ipc_transport.py expects so of a second client).
NobodyIsLeftWaiting ==
  \A c \in Client :
    (conn[c] = "backlog") ~> (conn[c] # "backlog" \/ c \in gone)
=============================================================================
