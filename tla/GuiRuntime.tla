----------------------------- MODULE GuiRuntime -----------------------------
(***************************************************************************)
(* The tabs of the GUI runtime (browserd/gui/gui_runtime.cc), one window   *)
(* each.  Everything runs on the UI thread, so a call is one action; what  *)
(* interleaves are the calls of the controller, the user's requests to     *)
(* close a window, and the tasks that carry those requests out later.      *)
(*                                                                         *)
(* The target id "gui-<n>" is the number n, and no id is 0.                *)
(***************************************************************************)
EXTENDS Naturals, Sequences, SequencesExt

CONSTANT MaxTabs  \* bound: target ids given out, the initial tab's included

ASSUME MaxTabsAssumption == MaxTabs \in Nat \ {0}

VARIABLES
  phase,             \* "new", then "up" or "failed", then "gone"
  options,           \* options_
  tabs,              \* the target ids of tabs_
  active_target_id,  \* active_target_id_
  next_tab_id,       \* next_tab_id_
  closable,          \* open windows whose close_callback_ has not been run
  posted,            \* RemoveClosedWindow tasks on the UI runner
  shutdown_started,  \* shutdown_started_
  quits,             \* history: times quit_callback_ was run
  shown,             \* history: whether there ever was a tab
  asked              \* history: whether the controller called Shutdown

vars == <<phase, options, tabs, active_target_id, next_tab_id, closable,
          posted, shutdown_started, quits, shown, asked>>

tabVars == <<tabs, active_target_id, closable>>
endVars == <<shutdown_started, quits>>

Init ==
  /\ phase = "new"
  /\ options \in [create_initial_tab : BOOLEAN, shutdown_on_zero_tabs : BOOLEAN]
  /\ tabs = <<>>
  /\ active_target_id = 0
  /\ next_tab_id = 1
  /\ closable = {}
  /\ posted = <<>>
  /\ shutdown_started = FALSE
  /\ quits = 0
  /\ shown = FALSE
  /\ asked = FALSE

-----------------------------------------------------------------------------
(* Helpers.                                                                *)

\* Mutant: ids are numbered by position.
NewTab_ByPosition ==
  LET id == Len(tabs) + 1
  IN  /\ next_tab_id' = next_tab_id + 1
      /\ tabs' = Append(tabs, id)
      /\ active_target_id' = id
      /\ closable' = closable \cup {id}
      /\ shown' = TRUE

\* The end of CreateTab: a window with a close callback, shown and active.
NewTab ==
  /\ next_tab_id' = next_tab_id + 1
  /\ tabs' = Append(tabs, next_tab_id)
  /\ active_target_id' = next_tab_id
  /\ closable' = closable \cup {next_tab_id}
  /\ shown' = TRUE

\* CreateTab without a WebContents, or without a window: the id is taken only
\* when the WebContents could be made.
NoTab ==
  /\ next_tab_id' \in {next_tab_id, next_tab_id + 1}
  /\ UNCHANGED <<tabVars, shown>>

\* Mutant: the request to quit is not guarded by shutdown_started_.
RequestQuit_Again ==
  /\ shutdown_started' = TRUE
  /\ quits' = quits + 1

\* The part of GuiRuntime::Shutdown that is left when no tab is open.
RequestQuit ==
  IF shutdown_started
    THEN UNCHANGED endVars
    ELSE /\ shutdown_started' = TRUE
         /\ quits' = quits + 1

\* ChooseFallbackActiveTab, given the tabs that are left.
Fallback(left) == IF left = <<>> THEN 0 ELSE left[1]

\* Where find_if stops: the tab with that id.
Position(id) == CHOOSE i \in DOMAIN tabs : tabs[i] = id

\* Mutant: the fallback is chosen whichever tab was closed.
Erase_AlwaysFallback(id) ==
  LET left == RemoveAt(tabs, Position(id))
  IN  /\ tabs' = left
      /\ active_target_id' = Fallback(left)
      /\ closable' = closable \ {id}
      /\ IF left = <<>> /\ options.shutdown_on_zero_tabs
           THEN RequestQuit ELSE UNCHANGED endVars

\* What CloseTab and RemoveClosedWindow do once they have found the tab.
Erase(id) ==
  LET left == RemoveAt(tabs, Position(id))
  IN  /\ tabs' = left
      /\ active_target_id' = IF active_target_id = id THEN Fallback(left)
                                                      ELSE active_target_id
      /\ closable' = closable \ {id}
      /\ IF left = <<>> /\ options.shutdown_on_zero_tabs
           THEN RequestQuit ELSE UNCHANGED endVars

-----------------------------------------------------------------------------
(* Actions.                                                                *)

\* Called once, before the controller exists; a failure ends the program.
Initialize ==
  /\ phase = "new"
  /\ IF options.create_initial_tab
       THEN \/ NewTab /\ phase' = "up"
            \/ NoTab /\ phase' = "failed"
       ELSE /\ phase' = "up"
            /\ UNCHANGED <<tabVars, next_tab_id, shown>>
  /\ UNCHANGED <<options, posted, endVars, asked>>

CreateTab ==
  /\ phase = "up"
  /\ next_tab_id <= MaxTabs
  /\ NewTab \/ NoTab
  /\ UNCHANGED <<phase, options, posted, endVars, asked>>

\* CloseTab with a target id, or with none: the active tab.  When there is no
\* such tab it returns false and nothing changes.
CloseTab(target) ==
  /\ phase = "up"
  /\ LET id == IF target = 0 THEN active_target_id ELSE target
     IN  /\ id \in ToSet(tabs)
         /\ Erase(id)
  /\ UNCHANGED <<phase, options, next_tab_id, posted, shown, asked>>

\* The user closes the window of tab id, which a later task removes.
OnWindowCloseRequested(id) ==
  /\ phase = "up"
  /\ id \in closable
  /\ closable' = closable \ {id}
  /\ posted' = Append(posted, id)
  /\ UNCHANGED <<phase, options, tabs, active_target_id, next_tab_id, endVars,
                 shown, asked>>

\* Mutant: a closed window never ends the runtime.
RemoveClosedWindow_Idles ==
  /\ phase = "up"
  /\ posted # <<>>
  /\ posted' = Tail(posted)
  /\ LET id == Head(posted)
     IN  IF id \in ToSet(tabs)
           THEN /\ tabs' = RemoveAt(tabs, Position(id))
                /\ active_target_id' =
                     IF active_target_id = id THEN Fallback(tabs')
                                              ELSE active_target_id
                /\ closable' = closable \ {id}
                /\ UNCHANGED endVars
           ELSE UNCHANGED <<tabVars, endVars>>
  /\ UNCHANGED <<phase, options, next_tab_id, shown, asked>>

\* The posted task: the tab may have been closed in the meantime.
RemoveClosedWindow ==
  /\ phase = "up"
  /\ posted # <<>>
  /\ posted' = Tail(posted)
  /\ IF Head(posted) \in ToSet(tabs)
       THEN Erase(Head(posted))
       ELSE UNCHANGED <<tabVars, endVars>>
  /\ UNCHANGED <<phase, options, next_tab_id, shown, asked>>

\* The controller or the host shuts the runtime down.
Shutdown ==
  /\ phase = "up"
  /\ RequestQuit
  /\ IF shutdown_started
       THEN UNCHANGED tabVars
       ELSE tabs' = <<>> /\ active_target_id' = 0 /\ closable' = {}
  /\ asked' = TRUE
  /\ UNCHANGED <<phase, options, next_tab_id, posted, shown>>

\* ~GuiRuntime: weak pointers cancel the tasks still posted.
Destroy ==
  /\ phase = "up"
  /\ phase' = "gone"
  /\ tabs' = <<>>
  /\ active_target_id' = 0
  /\ closable' = {}
  /\ posted' = <<>>
  /\ UNCHANGED <<options, next_tab_id, endVars, shown, asked>>

Next ==
  \/ Initialize
  \/ CreateTab
  \/ \E target \in 0 .. MaxTabs : CloseTab(target)
  \/ \E id \in 1 .. MaxTabs : OnWindowCloseRequested(id)
  \/ RemoveClosedWindow
  \/ Shutdown
  \/ Destroy

Spec == Init /\ [][Next]_vars

-----------------------------------------------------------------------------
(* Properties.                                                             *)

\* The type invariant, and that only an open window can still ask to close.
TypeOK ==
  /\ closable \subseteq ToSet(tabs)
  /\ phase \in {"new", "up", "failed", "gone"}
  /\ options \in [create_initial_tab : BOOLEAN, shutdown_on_zero_tabs : BOOLEAN]
  /\ tabs \in Seq(1 .. MaxTabs)
  /\ active_target_id \in 0 .. MaxTabs
  /\ next_tab_id \in 1 .. MaxTabs + 1
  /\ posted \in Seq(1 .. MaxTabs)
  /\ shutdown_started \in BOOLEAN
  /\ quits \in Nat
  /\ shown \in BOOLEAN
  /\ asked \in BOOLEAN

\* A posted RemoveClosedWindow names the window whose close button was pressed,
\* or a tab that is gone: an id is never that of a later tab, so a task that
\* was overtaken by a CloseTab cannot close a window nobody asked to close.
PostedNamesTheAsker ==
  \A i \in DOMAIN posted : posted[i] \in ToSet(tabs) => posted[i] \notin closable

\* Without idle_on_zero_tabs the process is told to quit as soon as the last tab
\* is gone, whichever of the controller and the user closed it; with it only a
\* Shutdown that somebody asked for ends the process.
ZeroTabsAsConfigured ==
  /\ phase = "up" /\ shown /\ tabs = <<>> /\ options.shutdown_on_zero_tabs
       => shutdown_started
  /\ ~options.shutdown_on_zero_tabs /\ shutdown_started => asked

\* The last CloseTab, the last window and the host may all end the runtime, and
\* quit_callback_ runs once for all of them.
QuitsOnce == quits = IF shutdown_started THEN 1 ELSE 0

\* Closing a tab in the background, from either side, leaves the active tab
\* the user and the tools are working with alone.
ActiveKept ==
  [][(active_target_id \in ToSet(tabs) \cap ToSet(tabs') /\ Len(tabs') <= Len(tabs))
       => UNCHANGED active_target_id]_vars
=============================================================================
