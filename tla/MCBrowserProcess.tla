--------------------------- MODULE MCBrowserProcess ---------------------------
(***************************************************************************)
(* BrowserProcess for TLC: the process and one other.                      *)
(***************************************************************************)
EXTENDS BrowserProcess

MCProcess == {This, Other}

\* Chrome with both transports that may fail to start differs from headless with
\* both, and from Chrome with one, in nothing that concerns them.
MCLaunches ==
  {l \in AllLaunches : l.runtime = "native" /\ l.ipc = "ok" => l.http = "off"}

\* The browserd binary without a switch.
MCPlain ==
  {l \in AllLaunches : l.runtime = "headless" /\ ~l.embedded
                       /\ l.http = "off" /\ l.ipc = "off"}
=============================================================================
