------------------------- MODULE NativeChromeRuntime -------------------------
(***************************************************************************)
(* The runtime of browserd --gui (browserd/chrome/native_chrome_runtime.cc): *)
(* windows and tabs are Chrome's and its user's, and what the runtime holds *)
(* are the keep-alives that let Chrome run without a window.               *)
(*                                                                         *)
(* The target id "chrome-<n>" is the session id n, and no id is 0.  Which  *)
(* tabs share a window is left out: what matters is the active tab of the  *)
(* window activated last.                                                  *)
(***************************************************************************)
EXTENDS Naturals

CONSTANT MaxTabs  \* bound: session ids given out

VARIABLES
  phase,                  \* of the runtime: "new", "up", "failed", "gone"
  strips,                 \* the tabs in Chrome's tab strips
  front,                  \* the active one in the active window
  next_session_id,        \* the session id of the next tab
  keep_alive,             \* keep_alive_
  profile_keep_alive,     \* profile_keep_alive_
  closing_all,            \* Chrome is closing its windows in order to quit
  registry_shutting_down, \* KeepAliveRegistry::IsShuttingDown: Chrome quits
  told_to_quit,           \* history: Shutdown was called
  called_after            \* history: a call came after it, before Chrome quit

tabVars == <<strips, front, next_session_id>>
keepVars == <<keep_alive, profile_keep_alive>>
quitVars == <<closing_all, registry_shutting_down, told_to_quit>>
vars == <<tabVars, keepVars, quitVars, called_after>>

Init ==
  /\ strips = {}
  /\ front = 0
  /\ next_session_id = 1
  /\ keep_alive = FALSE
  /\ profile_keep_alive = FALSE
  /\ closing_all = FALSE
  /\ registry_shutting_down = FALSE
  /\ told_to_quit = FALSE
  /\ called_after = FALSE

-----------------------------------------------------------------------------
(* Helpers.                                                                *)

\* A tab comes, in front or behind.
Add(fronts) ==
  /\ next_session_id <= MaxTabs
  /\ next_session_id' = next_session_id + 1
  /\ strips' = strips \cup {next_session_id}
  /\ front' \in fronts

\* A tab goes, its window with it when it was the last in it.
Drop(t) ==
  /\ strips' = strips \ {t}
  /\ front' \in IF strips' = {} THEN {0}
                ELSE IF front = t THEN strips' ELSE {front}
  /\ UNCHANGED next_session_id

\* EnsureKeepAlive, which every call of the runtime but Shutdown begins with.
\* Chrome may have no profile that the policy allows.
EnsureKeepAlive ==
  /\ IF registry_shutting_down
       THEN UNCHANGED keepVars
       ELSE /\ keep_alive' = TRUE
            /\ profile_keep_alive' \in {TRUE, profile_keep_alive}
  /\ called_after' = (called_after \/ (told_to_quit /\ ~registry_shutting_down))

-----------------------------------------------------------------------------
(* The runtime's operations.                                               *)

\* MainExtraParts::PostBrowserStart makes the runtime and its controller, which
\* looks at the tabs at once; Chrome may have opened its first window already.
Start ==
  /\ phase = "new"
  /\ phase' = "up"
  /\ EnsureKeepAlive
  /\ Add({1}) \/ UNCHANGED tabVars
  /\ UNCHANGED quitVars

\* The lookups.
Lookup ==
  /\ EnsureKeepAlive
  /\ UNCHANGED <<tabVars, quitVars>>

\* A size is the window's, not the runtime's.
ResizeActive == Lookup

\* Mutant: the tab is opened behind the active one, as Chrome does with a link.
CreateTab_Behind ==
  /\ EnsureKeepAlive
  /\ \/ ~registry_shutting_down /\ Add({next_session_id} \cup (strips \cap {front}))
     \/ UNCHANGED tabVars
  /\ UNCHANGED quitVars

\* CreateTab in the active window, or in a new one for the last used profile;
\* without a profile, a window or a tab it returns nothing.
CreateTab ==
  /\ EnsureKeepAlive
  /\ \/ ~registry_shutting_down /\ Add({next_session_id})
     \/ UNCHANGED tabVars
  /\ UNCHANGED quitVars

\* The tab with that id in whichever window, or the active one.
Located(target) == strips \cap {IF target = 0 THEN front ELSE target}

\* CloseTab closes the tab it finds, unless the page objects to being unloaded:
\* then it returns true with the tab still there.
CloseTab(target) ==
  /\ EnsureKeepAlive
  /\ \/ \E closing \in Located(target) : Drop(closing)
     \/ UNCHANGED tabVars
  /\ UNCHANGED quitVars

\* Mutant: Shutdown forgets its own keep-alive.
Shutdown_KeepsAlive ==
  /\ profile_keep_alive' = FALSE
  /\ closing_all' = TRUE
  /\ told_to_quit' = TRUE
  /\ UNCHANGED <<tabVars, keep_alive, registry_shutting_down, called_after>>

\* Shutdown drops both keep-alives, and Chrome begins to quit.
Shutdown ==
  /\ keep_alive' = FALSE
  /\ profile_keep_alive' = FALSE
  /\ closing_all' = TRUE
  /\ told_to_quit' = TRUE
  /\ UNCHANGED <<tabVars, registry_shutting_down, called_after>>

-----------------------------------------------------------------------------
(* Chrome and its user, until Chrome quits.                                *)

UserOpensTab ==
  /\ ~closing_all
  /\ Add({next_session_id} \cup (strips \cap {front}))
  /\ UNCHANGED <<keepVars, quitVars, called_after>>

UserSelectsTab ==
  /\ front' \in strips \ {front}
  /\ UNCHANGED <<strips, next_session_id, keepVars, quitVars, called_after>>

\* The user or the page closes a tab, or Chrome does in order to quit.
TabCloses ==
  /\ \E t \in strips : Drop(t)
  /\ UNCHANGED <<keepVars, quitVars, called_after>>

\* The user stays on a page that objects to being closed: Chrome goes on.
UserStays ==
  /\ closing_all /\ strips # {}
  /\ closing_all' = FALSE
  /\ UNCHANGED <<tabVars, keepVars, registry_shutting_down, told_to_quit,
                 called_after>>

\* Chrome ends when no window and no keep-alive is left.
ChromeQuits ==
  /\ strips = {} /\ ~keep_alive
  /\ registry_shutting_down' = TRUE
  /\ UNCHANGED <<tabVars, keepVars, closing_all, told_to_quit, called_after>>

Environment ==
  /\ ~registry_shutting_down
  /\ \/ UserOpensTab
     \/ UserSelectsTab
     \/ TabCloses
     \/ UserStays
     \/ ChromeQuits
=============================================================================
