---------------------------- MODULE PageOperations ----------------------------
(***************************************************************************)
(* The asynchronous operations of browserd (core/browser_controller.cc):   *)
(* an operation resolves its page, leaves a heap object behind (a          *)
(* NavigationWaiter, a ReloadWaiter, a JavaScriptEvaluationRequest or a    *)
(* ScreenshotCaptureRequest) and is answered when that object runs its     *)
(* OnceCallback: on an event of the page, on a reply, or on a timer.       *)
(*                                                                         *)
(* Everything runs on the UI thread.  Two things still interleave.  A page *)
(* tells its observers of an event one after the other (notice), and a     *)
(* callback may call the next operation before it returns (inline): the    *)
(* dispatcher takes its next tool call from the completion of the last.    *)
(* While either goes on no other task runs.                                *)
(*                                                                         *)
(* Pages are Chromium's: their navigations, loads, crashes and ends are    *)
(* actions of the environment, in any order Chromium could produce.        *)
(***************************************************************************)
EXTENDS Integers, Sequences, FiniteSets, SequencesExt

CONSTANTS
  Page,       \* the pages (WebContents) that may ever exist
  NoPage,
  FirstPages, \* those open at the start
  Url,
  NoUrl,      \* the empty URL of a page that has committed nothing
  Blank,      \* about:blank
  Host,       \* Host[u]: the host of an http(s) URL, or NoHost
  NoHost,
  Redirect,   \* Redirect[u]: the URLs a navigation to u may end at
  Op,         \* the operations that may be called, each at most once
  NoOp,
  Kind,       \* Kind[o]
  Target,     \* Target[o]: the URL of a navigation or a new tab
  WaitMs      \* WaitMs[o]: timeout_ms of a WaitFor

Kinds == {"navigate", "create", "history", "reload", "evaluate", "wait",
          "screenshot", "cookies"}

ASSUME PageAssumption ==
  /\ FirstPages \subseteq Page /\ NoPage \notin Page
  /\ NoUrl \notin Url
  /\ DOMAIN Host = Url /\ (Blank \in Url => Host[Blank] = NoHost)
  /\ Redirect \in [Url -> SUBSET Url]

ASSUME OpAssumption ==
  /\ NoOp \notin Op
  /\ Kind \in [Op -> Kinds]
  /\ Target \in [Op -> Url \cup {NoUrl}]
  /\ WaitMs \in [Op -> Int]

VARIABLES
  page,          \* page[p]: what Chromium says of the page
  watchers,      \* watchers[p]: the waiters that observe p, oldest first
  notice,        \* the event being told to observers, with those left to tell
  inline,        \* an operation called by the callback that has just run
  phase,         \* phase[o]: the life of o's heap object
  on,            \* on[o]: the page o was resolved to
  timers,        \* timers[o]: the timers of o that are armed
  replies,       \* replies[o]: the answers Chromium owes to o
  check,         \* check: operations whose CheckCurrentState is posted
  seen,          \* those whose seen_requested_navigation_ is set
  answer,        \* answer[o]: the statuses o's callback was run with
  instrumented,  \* pages with a PageInstrumentation
  captured,      \* pages whose document has the console capture script
  visited,       \* history: the URLs o's page has shown in o's object's life
  crashed        \* a destroyed page was used, and the process is gone

pageVars == <<page, watchers, notice, instrumented, captured>>
objectVars == <<on, timers, replies, check, seen, visited>>
answerVars == <<phase, answer, inline>>
vars == <<pageVars, objectVars, answerVars, crashed>>

NoNotice == [page |-> NoPage, event |-> "none", url |-> NoUrl, bad |-> FALSE,
             left |-> <<>>]

Fresh == [is |-> "none", url |-> NoUrl, nav |-> NoUrl, loading |-> FALSE,
          live |-> FALSE]

\* A new page whose first navigation has begun.
Loading(u) ==
  [is |-> "open", url |-> NoUrl, nav |-> u, loading |-> TRUE, live |-> TRUE]

Init ==
  /\ page = [p \in Page |-> IF p \in FirstPages
                              THEN [Fresh EXCEPT !.is = "open", !.live = TRUE]
                              ELSE Fresh]
  /\ watchers = [p \in Page |-> <<>>]
  /\ notice = NoNotice
  /\ inline = NoOp
  /\ phase = [o \in Op |-> "idle"]
  /\ on = [o \in Op |-> NoPage]
  /\ timers = [o \in Op |-> {}]
  /\ replies = [o \in Op |-> {}]
  /\ check = {} /\ seen = {}
  /\ answer = [o \in Op |-> <<>>]
  /\ instrumented = FirstPages /\ captured = {}
  /\ visited = [o \in Op |-> {}]
  /\ crashed = FALSE

Open == {p \in Page : page[p].is = "open"}

\* The UI thread is free to take a task.
Quiet == ~crashed /\ inline = NoOp /\ notice = NoNotice

\* An operation begins in a task of its own, or inside the last callback.
Called(o) ==
  /\ ~crashed /\ phase[o] = "idle"
  /\ inline = o \/ Quiet

-----------------------------------------------------------------------------
(* Answers.                                                                *)

\* Runs o's callback with s; the callback may call one more operation.
Answer(o, s, ph) ==
  /\ answer' = [answer EXCEPT ![o] = Append(@, s)]
  /\ phase' = [phase EXCEPT ![o] = ph]
  /\ inline' \in {NoOp} \cup {q \in Op \ {o} : phase[q] = "idle"}

\* The operation is answered before it returns, and leaves nothing behind.
Refuse(o, s) ==
  /\ Answer(o, s, "deleted")
  /\ UNCHANGED <<pageVars, objectVars, crashed>>

\* Mutant: Complete does not look whether the callback has been taken.
Complete_Again(o, s) ==
  IF phase[o] \in {"waiting", "completed"}
    THEN Answer(o, s, "completed")
    ELSE UNCHANGED answerVars

\* Complete: the first time only; the object's deletion is posted.
Complete(o, s) ==
  IF phase[o] = "waiting"
    THEN Answer(o, s, "completed")
    ELSE UNCHANGED answerVars

\* The posted deletion; what is bound to a weak pointer goes with the object.
DeleteObject(o) ==
  /\ Quiet /\ phase[o] = "completed"
  /\ phase' = [phase EXCEPT ![o] = "deleted"]
  /\ check' = check \ {o}
  /\ seen' = seen \ {o}
  /\ visited' = [visited EXCEPT ![o] = {}]
  /\ UNCHANGED <<pageVars, on, timers, replies, answer, inline, crashed>>

-----------------------------------------------------------------------------
(* What a page does, as Chromium reports it.                               *)

Tell(p, event, u, bad) ==
  notice' = IF watchers[p] = <<>> THEN NoNotice
            ELSE [page |-> p, event |-> event, url |-> u, bad |-> bad,
                  left |-> watchers[p]]

\* A navigation of p to u is under way; IsLoading() is true from here on.
Navigating(p, u) == [page EXCEPT ![p].nav = u, ![p].loading = TRUE]

Show(p, u) ==
  visited' = [o \in Op |-> IF on[o] = p /\ phase[o] = "waiting"
                             THEN visited[o] \cup {u} ELSE visited[o]]

\* PageInstrumentation::DidFinishNavigation runs the script in a new document.
Instrument(p) ==
  captured' = IF p \in instrumented THEN captured \cup {p} ELSE captured \ {p}

\* A page the controller did not ask for: a popup, or a tab of the user's.
PageOpens(p, u) ==
  /\ Quiet /\ page[p].is = "none"
  /\ page' = [page EXCEPT ![p] = Loading(u)]
  /\ UNCHANGED <<watchers, notice, instrumented, captured, objectVars,
                 answerVars, crashed>>

\* The page, or its user, navigates.
PageNavigates(p, u) ==
  /\ Quiet /\ p \in Open
  /\ page' = Navigating(p, u)
  /\ UNCHANGED <<watchers, notice, instrumented, captured, objectVars,
                 answerVars, crashed>>

\* The navigation commits, with the document asked for or an error page.
PageCommits(p, u, bad) ==
  /\ Quiet /\ p \in Open /\ page[p].nav # NoUrl
  /\ u \in Redirect[page[p].nav]
  /\ page' = [page EXCEPT ![p].url = u, ![p].nav = NoUrl, ![p].live = TRUE]
  /\ Tell(p, "finished", u, bad)
  /\ Show(p, u) /\ Instrument(p)
  /\ UNCHANGED <<watchers, instrumented, on, timers, replies, check, seen,
                 answerVars, crashed>>

\* A navigation inside the document: no load, but a commit all the same.
PageMovesInDocument(p, u) ==
  /\ Quiet /\ p \in Open /\ page[p].url # NoUrl
  /\ Host[u] = Host[page[p].url] /\ Host[u] # NoHost
  /\ page' = [page EXCEPT ![p].url = u]
  /\ Tell(p, "finished", u, FALSE)
  /\ Show(p, u) /\ Instrument(p)
  /\ UNCHANGED <<watchers, instrumented, on, timers, replies, check, seen,
                 answerVars, crashed>>

\* The navigation ends without a commit: a download, no content, or stopped.
\* DidFinishNavigation returns at once in every observer.
PageGivesUp(p) ==
  /\ Quiet /\ p \in Open /\ page[p].nav # NoUrl
  /\ page' = [page EXCEPT ![p].nav = NoUrl]
  /\ UNCHANGED <<watchers, notice, instrumented, captured, objectVars,
                 answerVars, crashed>>

PageStops(p) ==
  /\ Quiet /\ p \in Open /\ page[p].loading /\ page[p].nav = NoUrl
  /\ page' = [page EXCEPT ![p].loading = FALSE]
  /\ Tell(p, "stopped", page[p].url, FALSE)
  /\ UNCHANGED <<watchers, instrumented, captured, objectVars, answerVars,
                 crashed>>

\* The document of the main frame fails to load.
PageFails(p) ==
  /\ Quiet /\ p \in Open /\ page[p].loading /\ page[p].url # NoUrl
  /\ Tell(p, "failed", page[p].url, TRUE)
  /\ UNCHANGED <<page, watchers, instrumented, captured, objectVars,
                 answerVars, crashed>>

\* The renderer dies: the waiters log it, and the page no longer answers.
RendererGone(p) ==
  /\ Quiet /\ p \in Open /\ page[p].live
  /\ page' = [page EXCEPT ![p].live = FALSE]
  /\ replies' = [o \in Op |-> IF on[o] = p THEN replies[o] \ {"js"} ELSE replies[o]]
  /\ UNCHANGED <<watchers, notice, instrumented, captured, on, timers, check,
                 seen, visited, answerVars, crashed>>

\* The runtime destroys the page.
PageDestroyed(p) ==
  /\ Quiet /\ p \in Open
  /\ page' = [page EXCEPT ![p].is = "gone", ![p].live = FALSE]
  /\ Tell(p, "destroyed", page[p].url, TRUE)
  /\ watchers' = [watchers EXCEPT ![p] = <<>>]
  /\ replies' = [o \in Op |-> IF on[o] = p THEN replies[o] \ {"js", "snap"}
                                           ELSE replies[o]]
  /\ instrumented' = instrumented \ {p}
  /\ captured' = captured \ {p}
  /\ UNCHANGED <<on, timers, check, seen, visited, answerVars, crashed>>

-----------------------------------------------------------------------------
(* The operations.                                                         *)

\* "new ...Waiter": o observes p.  If p is telling its observers of an event,
\* the newcomer may be told too: Chromium's list decides.
Observe(o, p) ==
  /\ watchers' = [watchers EXCEPT ![p] = Append(@, o)]
  /\ notice' \in {notice} \cup
       (IF notice.page = p THEN {[notice EXCEPT !.left = Append(@, o)]} ELSE {})

\* Mutant: the request does not keep its page.
Wait_Unbound(o, p, ts, rs) ==
  /\ phase' = [phase EXCEPT ![o] = "waiting"]
  /\ timers' = [timers EXCEPT ![o] = ts]
  /\ replies' = [replies EXCEPT ![o] = rs]
  /\ inline' = NoOp
  /\ UNCHANGED <<on, seen, answer, crashed>>

\* The object that waits for o's answer, on page p.
Wait(o, p, ts, rs) ==
  /\ phase' = [phase EXCEPT ![o] = "waiting"]
  /\ on' = [on EXCEPT ![o] = p]
  /\ timers' = [timers EXCEPT ![o] = ts]
  /\ replies' = [replies EXCEPT ![o] = rs]
  /\ inline' = NoOp
  /\ UNCHANGED <<seen, answer, crashed>>

\* No page was resolved: every operation that needs one answers kTabNotFound.
TabNotFound(o) ==
  /\ Called(o) /\ Kind[o] # "create"
  /\ Refuse(o, "tabNotFound")

\* A URL that does not parse, or nothing to wait for.
InvalidArgument(o) ==
  /\ Called(o)
  /\ \/ Kind[o] \in {"navigate", "create"} /\ Target[o] = NoUrl
     \/ Kind[o] = "wait" /\ Open # {}
  /\ Refuse(o, "invalidArgument")

\* The waiter comes first, then the load.
Navigate(o, p) ==
  /\ Called(o) /\ Kind[o] = "navigate" /\ Target[o] # NoUrl /\ p \in Open
  /\ Wait(o, p, {"navigation"}, {})
  /\ check' = check \cup {o}
  /\ visited' = [visited EXCEPT ![o] = {page[p].url} \ {NoUrl}]
  /\ Observe(o, p)
  /\ page' = Navigating(p, Target[o])
  /\ UNCHANGED <<instrumented, captured>>

\* Mutant: CreateTab does not call RefreshSharedRuntimeBehavior.
CreateTab_Unobserved(o, p) ==
  /\ Called(o) /\ Kind[o] = "create" /\ Target[o] # NoUrl /\ page[p].is = "none"
  /\ page' = [page EXCEPT ![p] = Loading(Target[o])]
  /\ IF Target[o] = Blank
       THEN /\ Answer(o, "ok", "deleted")
            /\ UNCHANGED <<watchers, notice, objectVars, crashed>>
       ELSE /\ Wait(o, p, {"navigation"}, {})
            /\ check' = check \cup {o}
            /\ Observe(o, p)
            /\ UNCHANGED visited
  /\ UNCHANGED <<instrumented, captured>>

\* The runtime's new tab already loads its URL when the waiter is made.
CreateTab(o, p) ==
  /\ Called(o) /\ Kind[o] = "create" /\ Target[o] # NoUrl /\ page[p].is = "none"
  /\ page' = [page EXCEPT ![p] = Loading(Target[o])]
  /\ instrumented' = Open \cup {p}
  /\ IF Target[o] = Blank
       THEN /\ Answer(o, "ok", "deleted")
            /\ UNCHANGED <<watchers, notice, objectVars, crashed>>
       ELSE /\ Wait(o, p, {"navigation"}, {})
            /\ check' = check \cup {o}
            /\ Observe(o, p)
            /\ UNCHANGED visited
  /\ UNCHANGED captured

\* No tab was made, or its page is not found when there is one to load.
CreateTabFails(o) ==
  /\ Called(o) /\ Kind[o] = "create" /\ Target[o] # NoUrl
  /\ instrumented' = Open
  /\ \/ Answer(o, "internalError", "deleted")
     \/ Target[o] # Blank /\ Answer(o, "tabNotFound", "deleted")
  /\ UNCHANGED <<page, watchers, notice, captured, objectVars, crashed>>

\* NavigateBack and NavigateForward do not wait for the page.
NavigateHistory(o, p, u) ==
  /\ Called(o) /\ Kind[o] = "history" /\ p \in Open
  /\ page' = Navigating(p, u)
  /\ Answer(o, "ok", "deleted")
  /\ UNCHANGED <<watchers, notice, instrumented, captured, objectVars, crashed>>

NoHistory(o) ==
  /\ Called(o) /\ Kind[o] = "history" /\ Open # {}
  /\ Refuse(o, "notFound")

\* No timer.  Chromium has nothing to reload in a page that never committed.
Reload(o, p) ==
  /\ Called(o) /\ Kind[o] = "reload" /\ p \in Open
  /\ Wait(o, p, {}, {})
  /\ Observe(o, p)
  /\ page' = IF page[p].url = NoUrl THEN page ELSE Navigating(p, page[p].url)
  /\ UNCHANGED <<check, visited, instrumented, captured>>

IntMax == 2147483647

\* "timeout + 1000" in an int: the sum wraps.
AddInt(a, b) ==
  IF a > IntMax - b THEN (a - IntMax - 1) + (b - IntMax - 1) ELSE a + b

\* The request's timeout: 10 s, or what WaitFor computes from its options.
TimeoutMs(o) ==
  IF Kind[o] = "wait"
    THEN AddInt(IF WaitMs[o] > 0 THEN WaitMs[o] ELSE 30000, 1000)
    ELSE 10000

\* Mutant: Start arms no timer.
Evaluate_Untimed(o, p) ==
  /\ Called(o) /\ Kind[o] \in {"evaluate", "wait"} /\ p \in Open
  /\ IF page[p].live
       THEN /\ Wait(o, p, {}, {"js"})
            /\ UNCHANGED <<check, visited, pageVars>>
       ELSE Refuse(o, "noActiveFrame")

\* JavaScriptEvaluationRequest::Start, for Evaluate, ConsoleMessages, Snapshot
\* and WaitFor.
Evaluate(o, p) ==
  /\ Called(o) /\ Kind[o] \in {"evaluate", "wait"} /\ p \in Open
  /\ IF page[p].live
       THEN /\ Wait(o, p, IF TimeoutMs(o) > 0 THEN {"evaluation"} ELSE {},
                    {"js"})
            /\ UNCHANGED <<check, visited, pageVars>>
       ELSE Refuse(o, "noActiveFrame")

\* ScreenshotCaptureRequest::Start; a page may have no view to capture.
Screenshot(o, p) ==
  /\ Called(o) /\ Kind[o] = "screenshot" /\ p \in Open
  /\ \/ /\ Wait(o, p, {"readback"}, {"snap"})
        /\ UNCHANGED <<check, visited, pageVars>>
     \/ Refuse(o, "screenshotFailed")

\* The cookie operations ask the network service, and wait without a timer.
Cookies(o, p) ==
  /\ Called(o) /\ Kind[o] = "cookies" /\ p \in Open
  /\ \/ /\ Wait(o, p, {}, {"cookies"})
        /\ UNCHANGED <<check, visited, pageVars>>
     \/ Refuse(o, "internalError")

Operation(o) ==
  \/ TabNotFound(o) \/ InvalidArgument(o) \/ CreateTabFails(o) \/ NoHistory(o)
  \/ \E p \in Page :
       \/ Navigate(o, p) \/ CreateTab(o, p) \/ Reload(o, p)
       \/ Evaluate(o, p) \/ Screenshot(o, p) \/ Cookies(o, p)
       \/ \E u \in Url : NavigateHistory(o, p, u)

-----------------------------------------------------------------------------
(* The waiters' handlers.                                                  *)

\* IsRequestedNavigation: the URL itself, or any of its host's.
IsRequestedNavigation(o, u) ==
  /\ u \notin {NoUrl, Blank}
  /\ u = Target[o] \/ (Target[o] # NoUrl /\ Host[u] # NoHost /\ Host[u] = Host[Target[o]])

\* The observers s without o.
Without(s, o) ==
  IF Contains(s, o) THEN RemoveAt(s, CHOOSE i \in 1 .. Len(s) : s[i] = o) ELSE s

\* NavigationWaiter::Complete also stops the timer and observes nothing more.
CompleteNavigation(o, s) ==
  /\ Complete(o, s)
  /\ timers' = [timers EXCEPT ![o] = {}]
  /\ watchers' = [watchers EXCEPT ![on[o]] = Without(@, o)]

\* What o's callback answers when the page has arrived: that of CreateTab looks
\* for the tab among those of the runtime, if the controller is still there.
OnArrival(o) ==
  IF Kind[o] = "create" THEN {"ok", "tabNotFound", "sessionNotReady"} ELSE {"ok"}

\* Before it looks it refreshes the instrumentation.
RefreshAfter(o) ==
  instrumented' =
    IF /\ Kind[o] = "create" /\ notice.event # "destroyed"
       /\ \E s \in {"ok", "tabNotFound"} : answer'[o] = Append(answer[o], s)
      THEN Open ELSE instrumented

StillWaiting == UNCHANGED <<answerVars, timers, watchers>>

DidFinishNavigation(o) ==
  IF IsRequestedNavigation(o, notice.url)
    THEN /\ seen' = seen \cup {o}
         /\ IF notice.bad THEN CompleteNavigation(o, "navigationFailed")
            ELSE IF page[notice.page].loading THEN StillWaiting
            ELSE \E s \in OnArrival(o) : CompleteNavigation(o, s)
    ELSE StillWaiting /\ UNCHANGED seen

\* Mutant: DidStopLoading takes any load for the requested one.
DidStopLoading_Any(o) ==
  /\ seen' = seen \cup {o}
  /\ \E s \in OnArrival(o) : CompleteNavigation(o, s)

DidStopLoading(o) ==
  IF o \in seen \/ IsRequestedNavigation(o, page[notice.page].url)
    THEN /\ seen' = seen \cup {o}
         /\ \E s \in OnArrival(o) : CompleteNavigation(o, s)
    ELSE StillWaiting /\ UNCHANGED seen

DidFailLoad(o) ==
  /\ IF IsRequestedNavigation(o, notice.url)
       THEN CompleteNavigation(o, "navigationFailed")
       ELSE StillWaiting
  /\ UNCHANGED seen

\* Mutant: the waiter does not override WebContentsDestroyed.
WebContentsDestroyed_Ignored(o) == StillWaiting /\ UNCHANGED seen

WebContentsDestroyed(o) ==
  CompleteNavigation(o, "tabNotFound") /\ UNCHANGED seen

\* Mutant: the waiter forgets its callback when the load stops early.
ReloadWaiterTold_Deaf(o) ==
  /\ watchers' = [watchers EXCEPT ![on[o]] = Without(@, o)]
  /\ UNCHANGED <<answerVars, timers, seen>>

\* ReloadWaiter overrides DidStopLoading only, and deletes itself there.
ReloadWaiterTold(o) ==
  /\ IF notice.event = "stopped"
       THEN /\ IF phase[o] = "waiting" THEN Answer(o, "ok", "deleted")
                                       ELSE UNCHANGED answerVars
            /\ watchers' = [watchers EXCEPT ![on[o]] = Without(@, o)]
       ELSE UNCHANGED <<answerVars, watchers>>
  /\ UNCHANGED <<timers, seen>>

\* The next observer on the page's list hears of the event.
TellNext ==
  /\ ~crashed /\ inline = NoOp /\ notice.left # <<>>
  /\ LET o == Head(notice.left)
     IN  /\ notice' = [notice EXCEPT !.left = Tail(@)]
         /\ IF Kind[o] = "reload" THEN ReloadWaiterTold(o)
            ELSE \/ notice.event = "finished" /\ DidFinishNavigation(o)
                 \/ notice.event = "stopped" /\ DidStopLoading(o)
                 \/ notice.event = "failed" /\ DidFailLoad(o)
                 \/ notice.event = "destroyed" /\ WebContentsDestroyed(o)
         /\ RefreshAfter(o)
  /\ UNCHANGED <<page, captured, on, replies, check, visited, crashed>>

AllTold ==
  /\ ~crashed /\ inline = NoOp /\ notice # NoNotice /\ notice.left = <<>>
  /\ notice' = NoNotice
  /\ UNCHANGED <<page, watchers, instrumented, captured, objectVars,
                 answerVars, crashed>>

\* The task the waiter's constructor posts.
CheckCurrentState(o) ==
  /\ Quiet /\ o \in check
  /\ check' = check \ {o}
  /\ IF phase[o] = "waiting" /\ IsRequestedNavigation(o, page[on[o]].url)
       THEN /\ seen' = seen \cup {o}
            /\ IF page[on[o]].loading THEN StillWaiting
               ELSE \E s \in OnArrival(o) : CompleteNavigation(o, s)
       ELSE StillWaiting /\ UNCHANGED seen
  /\ RefreshAfter(o)
  /\ UNCHANGED <<page, notice, captured, on, replies, visited, crashed>>

-----------------------------------------------------------------------------
(* Timers and replies.                                                     *)

NavigationTimeout(o) ==
  /\ Quiet /\ "navigation" \in timers[o]
  /\ CompleteNavigation(o, "timeout")
  /\ UNCHANGED <<page, notice, instrumented, captured, on, replies, check, seen,
                 visited, crashed>>

\* The inner request of a screenshot reports to its owner through a weak
\* pointer; Complete ignores it if the owner has answered.
EvaluationTimeout(o) ==
  /\ Quiet /\ "evaluation" \in timers[o]
  /\ timers' = [timers EXCEPT ![o] = {}]
  /\ Complete(o, "timeout")
  /\ UNCHANGED <<pageVars, on, replies, check, seen, visited, crashed>>

\* Mutant: the fallback is started without a limit.
ReadbackTimeout_Untimed(o) ==
  /\ Quiet /\ "readback" \in timers[o]
  /\ timers' = [timers EXCEPT ![o] = {}]
  /\ replies' = [replies EXCEPT ![o] = @ \cup {"js"}]
  /\ UNCHANGED <<answerVars, crashed, pageVars, on, check, seen, visited>>

\* Eight seconds without a snapshot: StartDomFallback evaluates in the page
\* it was given then.  If that page is gone the pointer dangles.
ReadbackTimeout(o) ==
  /\ Quiet /\ "readback" \in timers[o]
  /\ \/ /\ page[on[o]].live
        /\ timers' = [timers EXCEPT ![o] = {"evaluation"}]
        /\ replies' = [replies EXCEPT ![o] = @ \cup {"js"}]
        /\ UNCHANGED <<answerVars, crashed>>
     \/ /\ ~page[on[o]].live
        /\ timers' = [timers EXCEPT ![o] = {}]
        /\ Complete(o, "noActiveFrame")
        /\ UNCHANGED <<replies, crashed>>
     \/ /\ on[o] \notin Open
        /\ crashed' = TRUE
        /\ UNCHANGED <<timers, replies, answerVars>>
  /\ UNCHANGED <<pageVars, on, check, seen, visited>>

\* OnResult, OnSnapshotFromBrowser, OnDomFallback or a cookie callback.  The
\* request that is answered stops its own timer; a snapshot that comes after
\* the fallback began leaves the inner request behind.
Reply(o, r) ==
  /\ Quiet /\ r \in replies[o]
  /\ replies' = [replies EXCEPT ![o] = @ \ {r}]
  /\ timers' = [timers EXCEPT ![o] =
                  @ \ (CASE r = "js" -> {"evaluation"}
                         [] r = "snap" -> {"readback"}
                         [] OTHER -> {})]
  /\ \E s \in {"ok", "failed"} : Complete(o, s)
  /\ UNCHANGED <<pageVars, on, check, seen, visited, crashed>>

\* ListTabs and CloseTab refresh the set of instrumented pages.
RefreshSharedRuntimeBehavior ==
  /\ Quiet /\ instrumented # Open
  /\ instrumented' = Open
  /\ UNCHANGED <<page, watchers, notice, captured, objectVars, answerVars,
                 crashed>>

-----------------------------------------------------------------------------
PageEvent(p) ==
  \/ PageGivesUp(p) \/ PageStops(p) \/ PageFails(p) \/ RendererGone(p)
  \/ PageDestroyed(p)
  \/ \E u \in Url : \/ PageOpens(p, u) \/ PageNavigates(p, u) \/ PageMovesInDocument(p, u)
                    \/ \E bad \in BOOLEAN : PageCommits(p, u, bad)

TimerFires(o) ==
  NavigationTimeout(o) \/ EvaluationTimeout(o) \/ ReadbackTimeout(o)

Next ==
  \/ TellNext \/ AllTold \/ RefreshSharedRuntimeBehavior
  \/ \E p \in Page : PageEvent(p)
  \/ \E o \in Op : \/ Operation(o) \/ CheckCurrentState(o) \/ TimerFires(o)
                   \/ DeleteObject(o)
                   \/ \E r \in {"js", "snap", "cookies"} : Reply(o, r)

Spec == Init /\ [][Next]_vars

\* The UI thread finishes the task it is in, and a timer that is due is not
\* passed over for ever.  Nothing is assumed of pages, replies or callers.
Fairness ==
  /\ WF_vars(TellNext) /\ WF_vars(AllTold)
  /\ \A o \in Op : /\ WF_vars(inline = o /\ Operation(o))
                   /\ SF_vars(TimerFires(o))

FairSpec == Spec /\ Fairness
-----------------------------------------------------------------------------
(* Properties.                                                             *)

Statuses == {"ok", "failed", "timeout", "tabNotFound", "invalidArgument",
             "internalError", "notFound", "noActiveFrame", "screenshotFailed",
             "navigationFailed", "sessionNotReady"}

PageStates ==
  [is : {"none", "open", "gone"}, url : Url \cup {NoUrl},
   nav : Url \cup {NoUrl}, loading : BOOLEAN, live : BOOLEAN]

\* Every variable has its type, an object that waits or has just completed
\* holds its page, and a notice in progress is about a page.
TypeOK ==
  /\ notice.event # "none" => notice.page \in Page
  /\ \A o \in Op : phase[o] \in {"waiting", "completed"} => on[o] \in Page
  /\ page \in [Page -> PageStates]
  /\ watchers \in [Page -> Seq(Op)]
  /\ notice \in [page : Page \cup {NoPage},
                 event : {"none", "finished", "stopped", "failed", "destroyed"},
                 url : Url \cup {NoUrl}, bad : BOOLEAN, left : Seq(Op)]
  /\ inline \in Op \cup {NoOp}
  /\ phase \in [Op -> {"idle", "waiting", "completed", "deleted"}]
  /\ on \in [Op -> Page \cup {NoPage}]
  /\ timers \in [Op -> SUBSET {"navigation", "evaluation", "readback"}]
  /\ replies \in [Op -> SUBSET {"js", "snap", "cookies"}]
  /\ check \subseteq Op /\ seen \subseteq Op
  /\ answer \in [Op -> Seq(Statuses)]
  /\ instrumented \subseteq Page /\ captured \subseteq Page
  /\ visited \in [Op -> SUBSET Url]
  /\ crashed \in BOOLEAN

\* A callback runs at most once, although page events, two timers, a posted
\* check and up to two replies may all try to complete the same operation.
AnsweredOnce == \A o \in Op : Len(answer[o]) <= 1

\* "Navigated to page" is never said of a page that has not shown, at some
\* moment since the operation began, a URL that counts as the requested one.
OkMeansArrived ==
  \A o \in Op :
    /\ Kind[o] \in {"navigate", "create"} /\ phase[o] = "completed"
    /\ answer[o] = <<"ok">>
    => \E u \in visited[o] :
         u = Target[o] \/ (Host[u] # NoHost /\ Host[u] = Host[Target[o]])

\* Operations the code means to answer whatever the page does: reloads and
\* cookie operations have no timer, nor has a wait whose timeout wraps.
HasDeadline(o) ==
  Kind[o] \notin {"reload", "cookies"} /\ TimeoutMs(o) > 0

\* An operation with a deadline never waits without an armed timer, through
\* the hand-over of a screenshot from its own timer to the fallback's.
NoStrandedOperation ==
  \A o \in Op : phase[o] = "waiting" /\ HasDeadline(o) => timers[o] # {}

\* A navigation does not outlive its page: once the observers of a destroyed
\* page have been told, no navigation waits on it any more.
NavigationEndsWithPage ==
  \A o \in Op :
    /\ phase[o] = "waiting" /\ Kind[o] \in {"navigate", "create"}
    /\ on[o] \notin Open
    => notice.event = "destroyed" /\ notice.page = on[o] /\ Contains(notice.left, o)

\* A reload waits only for a load that is still going on, or whose end it is
\* about to be told; it misses no end of a load, whoever caused it.
ReloadNotForgotten ==
  \A o \in Op :
    /\ phase[o] = "waiting" /\ Kind[o] = "reload"
    /\ on[o] \in Open /\ page[on[o]].url # NoUrl
    => page[on[o]].loading \/ Contains(notice.left, o)

\* A tab whose load CreateTab waits for is instrumented before its first commit,
\* so that no document of it escapes the console capture.
CreatedTabsAreCaptured ==
  \A o \in Op :
    /\ Kind[o] = "create" /\ on[o] \in Open /\ page[on[o]].url # NoUrl
    => on[o] \in captured

\* An operation with a deadline is answered in the end, or the process died.
EveryOperationAnswered ==
  \A o \in Op : phase[o] = "waiting" /\ HasDeadline(o)
                 ~> answer[o] # <<>> \/ crashed

\* "Navigate to a URL": a navigation whose page shows the very URL asked for,
\* loaded and idle, is not reported as timed out.
ArrivedIsNotTimeout ==
  [][\A o \in Op :
       /\ Kind[o] = "navigate" /\ answer[o] = <<>>
       /\ on[o] \in Open /\ page[on[o]].url = Target[o] /\ ~page[on[o]].loading
       => answer'[o] # <<"timeout">>]_vars
=============================================================================
