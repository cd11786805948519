--------------------------- MODULE MCHttpTransport ---------------------------
(* An instance of HttpTransport for TLC: a request of each kind, two calls. *)
EXTENDS HttpTransport

CONSTANTS call1, call2, list, note, wrong

MCKind ==
  [r \in Request |->
     CASE r \in {call1, call2} -> "call"
       [] r = list             -> "control"
       [] r = note             -> "notification"
       [] OTHER                -> "refused"]
=============================================================================
