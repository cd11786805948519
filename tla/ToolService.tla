----------------------------- MODULE ToolService -----------------------------
(***************************************************************************)
(* What MCPServer promises the clients of all its transports together,     *)
(* without its queue, its flag or its handlers: each message is replied to *)
(* at most once (a notification with nothing), a reply may be immediate,   *)
(* and the replies that are not immediate come in the order of the calls.  *)
(***************************************************************************)
EXTENDS Naturals, Sequences

CONSTANTS Message, HasId

VARIABLES
  pending,   \* calls taken in and not replied to, oldest first
  sent       \* sent[m]: the replies to m

vars == <<pending, sent>>

Init ==
  /\ pending = <<>>
  /\ sent = [m \in Message |-> <<>>]

Waiting(m) == \E i \in 1 .. Len(pending) : pending[i] = m

\* A message is disposed of at once; only a request can get something back.
ReplyNow(m) ==
  /\ sent[m] = <<>>
  /\ ~Waiting(m)
  /\ \E o \in {"nothing", "result", "error"} :
       /\ ~HasId[m] => o = "nothing"
       /\ sent' = [sent EXCEPT ![m] = <<o>>]
  /\ UNCHANGED pending

\* The first k of the waiting calls w are replied to, the others keep waiting.
Answer(w, k) ==
  /\ pending' = SubSeq(w, k + 1, Len(w))
  /\ \E reply \in [1 .. k -> {"toolResult", "error"}] :
       sent' = [m \in Message |->
                  IF \E i \in 1 .. k : w[i] = m
                    THEN <<reply[CHOOSE i \in 1 .. k : w[i] = m]>>
                    ELSE sent[m]]

\* A new call joins the end of the line; it, and all before it, may be done.
Call(m) ==
  /\ sent[m] = <<>>
  /\ ~Waiting(m)
  /\ HasId[m]
  /\ \E k \in 0 .. Len(pending) + 1 : Answer(Append(pending, m), k)

\* Some of the waiting calls are done.
Complete == \E k \in 1 .. Len(pending) : Answer(pending, k)

Next == Complete \/ \E m \in Message : ReplyNow(m) \/ Call(m)

Spec == Init /\ [][Next]_vars
=============================================================================
