--------------------------- MODULE BrowserRuntime ---------------------------
(***************************************************************************)
(* What the controller relies on in a BrowserRuntime, whichever of the     *)
(* three implementations is behind the interface                           *)
(* (browserd/browser_runtime.h): a set of open tabs with different ids, one *)
(* of which is the active one, and a process that ends when it was asked   *)
(* to, or when its last tab was closed, and not otherwise.                 *)
(*                                                                         *)
(* call names the method a step is a call of; what a step without a call   *)
(* does is the doing of pages, of the user or of the browser.  A runtime   *)
(* that is not told when a page goes away by itself cannot keep its active *)
(* tab among the open ones; watched says which kind it is.                 *)
(***************************************************************************)
CONSTANTS
  Id,     \* target ids
  NoTab   \* stands for the active tab when there is none

VARIABLES
  watched,  \* whether the runtime learns of every tab that goes
  call,     \* "initialize", "create", "close", "shutdown", "destroy" or "none"
  open,     \* ids of the open tabs
  active,   \* id of the active tab, or NoTab
  quit      \* "no", "asked" for, "held" up by the user, or "certain"

vars == <<watched, call, open, active, quit>>

tabs == <<open, active>>

Init ==
  /\ watched \in BOOLEAN
  /\ call = "none"
  /\ open = {}
  /\ active = NoTab
  /\ quit = "no"

-----------------------------------------------------------------------------
(* Calls.  Each may fail and change nothing.                               *)

\* The first tab, if there is one, is the active one.  A runtime that does not
\* start may end the process.
Initialize ==
  /\ open = {} /\ quit = "no"
  /\ call' = "initialize"
  /\ \/ \E t \in Id : open' = {t} /\ active' = t /\ UNCHANGED quit
     \/ UNCHANGED tabs /\ quit' \in {"no", "certain"}

\* A tab the controller opens is the active one.
Create ==
  /\ call' = "create"
  /\ UNCHANGED quit
  /\ \/ \E t \in Id \ open : open' = open \cup {t} /\ active' = t
     \/ UNCHANGED tabs

\* A tab goes, and one of the others is active.  When it was the last, that may
\* be what makes the process quit.
Closes(t) ==
  /\ t \in open
  /\ open' = open \ {t}
  /\ IF open' = {} THEN active' = NoTab ELSE active' \in open'
  /\ quit' = quit \/ (open' = {} /\ quit' = "certain")

Close ==
  /\ call' = "close"
  /\ (\E t \in Id : Closes(t)) \/ UNCHANGED <<tabs, quit>>

\* The tabs go at once, and the process will; or the tabs are asked one after
\* the other, and it is asked for.  Nothing takes back what is certain.
Shutdown ==
  /\ call' = "shutdown"
  /\ \/ UNCHANGED tabs /\ quit' = IF quit = "certain" THEN "certain" ELSE "asked"
     \/ open' = {} /\ (active' = NoTab \/ (~watched /\ UNCHANGED active))
        /\ quit' = "certain"

\* The runtime is destroyed, its tabs with it.
Destroy ==
  /\ call' = "destroy"
  /\ UNCHANGED tabs \/ (open' = {} /\ active' = NoTab)
  /\ UNCHANGED quit

-----------------------------------------------------------------------------
(* What comes without a call.                                              *)

\* A page or the user opens a tab, in front or behind.
Appear(t) ==
  /\ t \notin open
  /\ open' = open \cup {t}
  /\ active' \in {active, t}
  /\ active' = NoTab => ~watched
  /\ UNCHANGED quit

\* The user brings a tab to the front.
Select(t) ==
  /\ t \in open
  /\ active' = t
  /\ UNCHANGED <<open, quit>>

\* A page goes away and the runtime is not told.
Vanish(t) ==
  /\ ~watched
  /\ t \in open
  /\ open' = open \ {t}
  /\ UNCHANGED <<active, quit>>

\* The user stays on a page that objects to being closed.
Stay ==
  /\ quit = "asked" /\ open # {}
  /\ quit' = "held"
  /\ UNCHANGED tabs

\* Once quitting was asked for, the last tab to go ends the process.
Leave ==
  /\ quit \in {"asked", "held"} /\ open = {}
  /\ quit' = "certain"
  /\ UNCHANGED tabs

Uncalled ==
  /\ call' = "none"
  /\ \/ \E t \in Id : Appear(t) \/ Select(t) \/ Vanish(t) \/ Closes(t)
     \/ Stay
     \/ Leave
     \/ UNCHANGED <<tabs, quit>>

Next ==
  /\ Initialize \/ Create \/ Close \/ Shutdown \/ Destroy \/ Uncalled
  /\ UNCHANGED watched

Spec == Init /\ [][Next]_vars
=============================================================================
