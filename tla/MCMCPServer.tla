----------------------------- MODULE MCMCPServer -----------------------------
(***************************************************************************)
(* Instances of MCPServer for TLC.  The messages are a handshake of each   *)
(* kind, a message without a method, a tools/list, a notification that     *)
(* names a tool, a nameless call, two calls of a plain tool, one of a tool *)
(* that is not registered and one of browser_reload.                       *)
(***************************************************************************)
EXTENDS MCPServer, TLC

CONSTANTS init, inited, garbled, list, note, nameless, badcall, click1, click2,
          reload

MCMethod ==
  [m \in Message |->
     CASE m = init    -> "initialize"
       [] m = inited  -> "notifications/initialized"
       [] m = garbled -> "missing"
       [] m = list    -> "tools/list"
       [] OTHER       -> "tools/call"]

MCHasId == [m \in Message |-> m \notin {inited, note}]

MCToolName ==
  [m \in Message |->
     CASE m \in {click1, click2, note} -> "browser_click"
       [] m = reload  -> "browser_reload"
       [] m = badcall -> "no_such_tool"
       [] OTHER       -> NoName]

MCTools == {"browser_click", "browser_reload"}

\* HTTP and IPC clients share the queue with stdio, whose end stops nothing.
MixedTransports ==
  [m \in Message |->
     CASE m \in {click1, init}    -> "http"
       [] m \in {click2, badcall} -> "ipc"
       [] OTHER                   -> "stdio"]
=============================================================================
