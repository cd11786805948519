--------------------------- MODULE HeadlessRuntime ---------------------------
(***************************************************************************)
(* The tabs of the headless runtime (browserd/headless_runtime.cc).  They  *)
(* belong to Chromium's browser context; the runtime keeps three raw       *)
(* pointers, to the browser, to the context and to the active page, and is *)
(* told nothing of what becomes of them.                                   *)
(*                                                                         *)
(* A page is its address, which is also its target id: an address that was *)
(* freed may be that of a later page.                                      *)
(***************************************************************************)
EXTENDS Naturals

CONSTANTS
  Address,  \* addresses of web contents
  Null      \* the null pointer

VARIABLES
  phase,                \* of the runtime: "new", "up", "failed", "gone"
  context,              \* what browser_context_ points to: "none", "live", "freed"
  contents,             \* open pages
  active_web_contents,  \* active_web_contents_, which nobody clears
  quit_posted           \* the browser was told to shut down, and its loop to quit

vars == <<context, contents, active_web_contents, quit_posted>>

Init ==
  /\ context = "none"
  /\ contents = {}
  /\ active_web_contents = Null
  /\ quit_posted = FALSE

\* HeadlessBrowserImpl::Shutdown destroys its contexts with their pages, and
\* quits the loop.
BrowserShutdown ==
  /\ context' = IF context = "none" THEN "none" ELSE "freed"
  /\ contents' = {}
  /\ quit_posted' = TRUE

-----------------------------------------------------------------------------
(* Pointers that outlive what they point to.                               *)

\* Whatever looks through browser_context_ reads freed memory.
ContextFreed == context = "freed"

\* Whatever uses active_web_contents_ does.
ActiveFreed == active_web_contents \notin contents \cup {Null}

\* The lookup of CloseTab: by its target in the context, or the active page.
CloseReadsFreed(target) ==
  IF target = Null THEN ActiveFreed ELSE ContextFreed

-----------------------------------------------------------------------------
(* The runtime's operations.                                               *)

\* Called once, in the browser's start callback, which shuts the browser down
\* when it fails: no profile directory, no page, or no web contents in it.
Initialize ==
  /\ phase = "new"
  /\ \/ /\ phase' = "up"
        /\ context' = "live"
        /\ \E page \in Address :
             contents' = {page} /\ active_web_contents' = page
        /\ UNCHANGED quit_posted
     \/ /\ phase' = "failed"
        /\ BrowserShutdown
        /\ UNCHANGED active_web_contents

\* CreateTab: a page in the context, or none when it could not be built.
CreateTab ==
  \/ \E page \in Address \ contents :
       /\ contents' = contents \cup {page}
       /\ active_web_contents' = page
       /\ UNCHANGED <<context, quit_posted>>
  \/ UNCHANGED vars

\* The page CloseTab closes: the one with that address, or the active one.
ToClose(target) == IF target = Null THEN active_web_contents ELSE target

\* ChooseFallbackActiveTab takes one of the other pages, whichever is closed.
Fallbacks(closing) == contents \ {closing}

\* CloseTab shuts the browser down when no other page is left.  It returns false,
\* and changes nothing, when the page is not there.
CloseTab(target) ==
  LET closing == ToClose(target)
  IN  /\ closing \in contents
      /\ IF Fallbacks(closing) = {}
           THEN active_web_contents' = Null /\ BrowserShutdown
           ELSE /\ active_web_contents' \in Fallbacks(closing)
                /\ contents' = contents \ {closing}
                /\ UNCHANGED <<context, quit_posted>>

Shutdown ==
  /\ BrowserShutdown
  /\ UNCHANGED active_web_contents

-----------------------------------------------------------------------------
(* What pages do by themselves.                                            *)

PageOpensTab ==
  /\ contents # {}
  /\ \E page \in Address \ contents : contents' = contents \cup {page}
  /\ UNCHANGED <<context, active_web_contents, quit_posted>>

PageClosesItself ==
  /\ \E page \in contents : contents' = contents \ {page}
  /\ UNCHANGED <<context, active_web_contents, quit_posted>>
=============================================================================
