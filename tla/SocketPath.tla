------------------------------ MODULE SocketPath ------------------------------
(***************************************************************************)
(* The path of the IPC socket (browserd/mcp/mcp_ipc_transport_posix.cc):   *)
(* processes given the same --mcp-ipc-path start, serve, stop and crash,   *)
(* and the file system is what they share.  Each system call on the path   *)
(* is a step, because no lock makes two of them one.                       *)
(*                                                                         *)
(* The path names the socket a process has bound there, one left over by a *)
(* process that crashed, something that is not a socket, or nothing.       *)
(***************************************************************************)
CONSTANTS
  Process,
  Nothing, LeftOver, NotASocket

ASSUME PathAssumption ==
  /\ Process \cap {Nothing, LeftOver, NotASocket} = {}
  /\ Nothing # LeftOver /\ Nothing # NotASocket /\ LeftOver # NotASocket

VARIABLES
  path,     \* what the path names
  at,       \* at[p]: the call process p makes next, or what it has come to
  orderly   \* history: no two starts or ends have overlapped

socketVars == <<path, at, orderly>>

SocketInit ==
  /\ path \in {Nothing, LeftOver, NotASocket}
  /\ at = [p \in Process |-> "off"]
  /\ orderly = TRUE

-----------------------------------------------------------------------------
(* Helpers.                                                                *)

Steps == {"inspect", "probe", "unlink", "bind", "listen", "undo", "end"}

\* Processes in the middle of a start or of an end.
Busy == {p \in Process : at[p] \in Steps}

\* Process p comes to a step.
Goes(p, step) ==
  /\ at' = [at EXCEPT ![p] = step]
  /\ orderly' = (orderly /\ \A q, r \in Busy' : q = r)

\* The listener that a connect to the path would reach.
Answers(p) == path = p /\ at[p] = "up"

-----------------------------------------------------------------------------
(* CreateListeningSocket.                                                  *)

BeginStart(p) ==
  /\ at[p] \in {"off", "failed"}
  /\ Goes(p, "inspect")
  /\ UNCHANGED path

\* A parent directory that others may write to, or a path that is too long, ends
\* the start before the path is looked at.
RefusePath(p) ==
  /\ at[p] \in {"off", "failed"}
  /\ Goes(p, "failed")
  /\ UNCHANGED path

\* Mutant: a socket found at the path is taken for a stale one.
Inspect_TrustsNoOne(p) ==
  /\ at[p] = "inspect"
  /\ \/ path = Nothing /\ Goes(p, "bind")
     \/ path = NotASocket /\ Goes(p, "failed")
     \/ path \notin {Nothing, NotASocket} /\ Goes(p, "unlink")
     \/ Goes(p, "failed")
  /\ UNCHANGED path

\* lstat, the first half of ProbeExistingSocket.
Inspect(p) ==
  /\ at[p] = "inspect"
  /\ \/ path = Nothing /\ Goes(p, "bind")
     \/ path = NotASocket /\ Goes(p, "failed")
     \/ path \notin {Nothing, NotASocket} /\ Goes(p, "probe")
     \/ Goes(p, "failed")
  /\ UNCHANGED path

\* connect, the second half: someone answers, nobody does, or it fails.
Probe(p) ==
  /\ at[p] = "probe"
  /\ \/ (\E q \in Process : Answers(q)) /\ Goes(p, "failed")
     \/ (\A q \in Process : ~Answers(q)) /\ Goes(p, "unlink")
     \/ Goes(p, "failed")
  /\ UNCHANGED path

\* The stale socket is removed, or whatever the path names by now.
UnlinkStale(p) ==
  /\ at[p] = "unlink"
  /\ \/ path' = Nothing /\ Goes(p, "bind")
     \/ UNCHANGED path /\ Goes(p, "failed")

\* bind fails with EADDRINUSE when the path names anything.
Bind(p) ==
  /\ at[p] = "bind"
  /\ \/ path = Nothing /\ path' = p /\ Goes(p, "listen")
     \/ UNCHANGED path /\ Goes(p, "failed")

Listen(p) ==
  /\ at[p] = "listen"
  /\ Goes(p, "up") \/ Goes(p, "undo")
  /\ UNCHANGED path

\* The path is removed after listen has failed.
UndoBind(p) ==
  /\ at[p] = "undo"
  /\ path' = Nothing
  /\ Goes(p, "failed")

-----------------------------------------------------------------------------
(* RequestStopLocked, and a process that dies.                             *)

CloseListener(p) ==
  /\ at[p] = "up"
  /\ Goes(p, "end")
  /\ UNCHANGED path

UnlinkBound(p) ==
  /\ at[p] = "end"
  /\ path' = Nothing
  /\ Goes(p, "off")

\* A process that dies leaves its socket behind.
Die(p) ==
  /\ at[p] # "off"
  /\ Goes(p, "off")
  /\ path' = IF path = p THEN LeftOver ELSE path

\* The steps of the thread that starts the transport.
StartStep(p) ==
  \/ Inspect(p)
  \/ Probe(p)
  \/ UnlinkStale(p)
  \/ Bind(p)
  \/ Listen(p)
  \/ UndoBind(p)

SocketStep(p) ==
  \/ BeginStart(p)
  \/ RefusePath(p)
  \/ StartStep(p)
  \/ CloseListener(p)
  \/ UnlinkBound(p)
  \/ Die(p)

SocketNext == \E p \in Process : SocketStep(p)

SocketSpec == SocketInit /\ [][SocketNext]_socketVars

-----------------------------------------------------------------------------
(* Properties.                                                             *)

SocketTypeOK ==
  /\ path \in Process \cup {Nothing, LeftOver, NotASocket}
  /\ at \in [Process -> Steps \cup {"off", "failed", "up"}]
  /\ orderly \in BOOLEAN

\* As long as starts and ends do not overlap, probing before unlinking is safe:
\* a server that listens is the one the path leads to, no second one takes its
\* place, and a socket left at the path is that of a process that crashed.
\* When they do overlap the code has no answer, and this says nothing.
PathNamesItsServer ==
  orderly => \A p \in Process :
               path = p <=> at[p] \in {"listen", "undo", "up", "end"}
=============================================================================
