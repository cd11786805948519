------------------------- MODULE PageOperationsProofs -------------------------
(***************************************************************************)
(* Safety of the operations that wait for a page, for any set of pages,    *)
(* URLs and operations.  IInv concerns each operation by itself: a         *)
(* callback runs at most once, and an operation with a deadline never      *)
(* waits without a timer.  PageInv relates operations to pages: who        *)
(* observes which page, who is still to be told of its event, what it has  *)
(* shown meanwhile.  Its steps are first grouped by their effect (Effect), *)
(* so that each part of the invariant is proved of some six cases.         *)
(***************************************************************************)
EXTENDS PageOperations, SequenceTheorems, TLAPS

\* An object that has not completed has not run its callback.
CallbackHeld ==
  \A o \in Op : phase[o] \in {"idle", "waiting"} => answer[o] = <<>>

IInv == TypeOK /\ AnsweredOnce /\ CallbackHeld /\ NoStrandedOperation

-----------------------------------------------------------------------------
(* Lemmas.                                                                 *)

\* Taking an observer out of a list leaves a list of observers.
LEMMA WithoutType ==
  ASSUME NEW s \in Seq(Op), NEW o
  PROVE  Without(s, o) \in Seq(Op)
<1>1. CASE Contains(s, o)
  <2>1. PICK i \in 1 .. Len(s) : i = CHOOSE j \in 1 .. Len(s) : s[j] = o
    BY <1>1 DEF Contains
  <2>2. Without(s, o) = SubSeq(s, 1, i - 1) \o SubSeq(s, i + 1, Len(s))
    BY <1>1, <2>1 DEF Without, RemoveAt
  <2> QED
    BY <2>2
<1>2. CASE ~Contains(s, o)
  BY <1>2 DEF Without
<1> QED
  BY <1>1, <1>2

\* The part of the invariant that concerns callbacks.
Callbacks ==
  /\ phase \in [Op -> {"idle", "waiting", "completed", "deleted"}]
  /\ answer \in [Op -> Seq(Statuses)]
  /\ inline \in Op \cup {NoOp}
  /\ AnsweredOnce
  /\ CallbackHeld

\* Running a callback that is still held keeps the callbacks in order, and
\* leaves every other operation as it was.
LEMMA AnswerKeeps ==
  ASSUME Callbacks, NEW o \in Op, NEW s \in Statuses,
         NEW ph \in {"completed", "deleted"},
         phase[o] \in {"idle", "waiting"}, Answer(o, s, ph)
  PROVE  /\ Callbacks'
         /\ phase' = [phase EXCEPT ![o] = ph]
<1>1. answer[o] = <<>>
  BY DEF Callbacks, CallbackHeld
<1>2. answer' = [answer EXCEPT ![o] = <<s>>]
  <2>1. Append(<<>>, s) = <<s>>
    OBVIOUS
  <2> QED
    BY <1>1, <2>1 DEF Answer
<1>3. Len(<<s>>) = 1 /\ <<s>> \in Seq(Statuses)
  OBVIOUS
<1>4. inline' \in Op \cup {NoOp}
  BY DEF Answer
<1> QED
  BY <1>2, <1>3, <1>4 DEF Callbacks, AnsweredOnce, CallbackHeld, Answer

\* Complete keeps the callbacks in order; afterwards o does not wait.
LEMMA CompleteKeeps ==
  ASSUME Callbacks, NEW o \in Op, NEW s \in Statuses, Complete(o, s)
  PROVE  /\ Callbacks'
         /\ \A q \in Op : /\ q # o => phase'[q] = phase[q]
                          /\ phase'[q] \in {"waiting", "completed"}
                             => phase[q] \in {"waiting", "completed"}
         /\ phase'[o] # "waiting"
<1>1. CASE phase[o] = "waiting"
  <2>1. Answer(o, s, "completed")
    BY <1>1 DEF Complete
  <2>2. Callbacks' /\ phase' = [phase EXCEPT ![o] = "completed"]
    BY <1>1, <2>1, AnswerKeeps
  <2> QED
    BY <1>1, <2>2 DEF Callbacks
<1>2. CASE phase[o] # "waiting"
  <2>1. UNCHANGED answerVars
    BY <1>2 DEF Complete
  <2> QED
    BY <1>2, <2>1 DEF Callbacks, answerVars, AnsweredOnce, CallbackHeld
<1> QED
  BY <1>1, <1>2

-----------------------------------------------------------------------------
(* The steps.                                                              *)

\* A change of some members of one page leaves pages.
LEMMA PageChange ==
  ASSUME NEW pages \in [Page -> PageStates], NEW p \in Page,
         NEW u \in Url \cup {NoUrl}
  PROVE  /\ [pages EXCEPT ![p] = Loading(u)] \in [Page -> PageStates]
         /\ [pages EXCEPT ![p].nav = u, ![p].loading = TRUE] \in [Page -> PageStates]
         /\ [pages EXCEPT ![p].nav = u] \in [Page -> PageStates]
         /\ [pages EXCEPT ![p].url = u] \in [Page -> PageStates]
         /\ [pages EXCEPT ![p].loading = FALSE] \in [Page -> PageStates]
         /\ [pages EXCEPT ![p].live = FALSE] \in [Page -> PageStates]
         /\ [pages EXCEPT ![p].is = "gone", ![p].live = FALSE] \in [Page -> PageStates]
         /\ [pages EXCEPT ![p].url = u, ![p].nav = NoUrl, ![p].live = TRUE]
              \in [Page -> PageStates]
<1> DEFINE q == pages[p]
<1>1. /\ q \in PageStates /\ Loading(u) \in PageStates
  BY DEF PageStates, Loading
<1>2. \A r \in PageStates : [pages EXCEPT ![p] = r] \in [Page -> PageStates]
  OBVIOUS
<1>3. /\ [q EXCEPT !.nav = u, !.loading = TRUE] \in PageStates
      /\ [q EXCEPT !.nav = u] \in PageStates
      /\ [q EXCEPT !.url = u] \in PageStates
      /\ [q EXCEPT !.loading = FALSE] \in PageStates
  BY <1>1 DEF PageStates
<1>4. /\ [q EXCEPT !.live = FALSE] \in PageStates
      /\ [q EXCEPT !.is = "gone", !.live = FALSE] \in PageStates
      /\ [q EXCEPT !.url = u, !.nav = NoUrl, !.live = TRUE] \in PageStates
  BY <1>1 DEF PageStates
<1> QED
  BY <1>1, <1>2, <1>3, <1>4

\* What a page shows is a URL, or nothing yet.
LEMMA PageUrl ==
  ASSUME NEW pages \in [Page -> PageStates], NEW p \in Page
  PROVE  /\ pages[p].url \in Url \cup {NoUrl}
         /\ pages[p].nav \in Url \cup {NoUrl}
  BY DEF PageStates

\* The conjuncts of TypeOK that an event of a page may disturb, and the rest.
PageTypes ==
  /\ page \in [Page -> PageStates]
  /\ watchers \in [Page -> Seq(Op)]
  /\ replies \in [Op -> SUBSET {"js", "snap", "cookies"}]
  /\ instrumented \subseteq Page /\ captured \subseteq Page
  /\ visited \in [Op -> SUBSET Url]

NoticeType ==
  /\ notice \in [page : Page \cup {NoPage},
                 event : {"none", "finished", "stopped", "failed", "destroyed"},
                 url : Url \cup {NoUrl}, bad : BOOLEAN, left : Seq(Op)]
  /\ notice.event # "none" => notice.page \in Page

\* Each event of a page keeps the types of what it changes.
LEMMA PageEventTypes ==
  ASSUME PageTypes, NoticeType, NEW p \in Page, PageEvent(p)
  PROVE  PageTypes' /\ NoticeType'
<1>1. page \in [Page -> PageStates] /\ page[p].url \in Url \cup {NoUrl}
  BY PageUrl DEF PageTypes
<1>2. <<>> \in Seq(Op)
  OBVIOUS
<1>3. ASSUME NEW e \in {"finished", "stopped", "failed", "destroyed"},
             NEW u \in Url \cup {NoUrl}, NEW bad \in BOOLEAN, Tell(p, e, u, bad)
      PROVE  NoticeType'
  <2>1. watchers[p] \in Seq(Op)
    BY DEF PageTypes
  <2> QED
    BY <1>2, <1>3, <2>1 DEF Tell, NoNotice, NoticeType
<1>4. CASE PageGivesUp(p)
  <2>1. page' = [page EXCEPT ![p].nav = NoUrl]
    BY <1>4 DEF PageGivesUp
  <2>2. page' \in [Page -> PageStates]
    BY <1>1, <2>1, PageChange
  <2> QED
    BY <1>4, <2>2 DEF PageGivesUp, PageTypes, NoticeType, objectVars
<1>5. CASE PageStops(p)
  <2>1. page' \in [Page -> PageStates]
    BY <1>1, <1>5, PageChange DEF PageStops
  <2>2. NoticeType'
    BY <1>1, <1>3, <1>5 DEF PageStops
  <2> QED
    BY <1>5, <2>1, <2>2 DEF PageStops, PageTypes, objectVars
<1>6. CASE PageFails(p)
  <2>1. NoticeType'
    BY <1>1, <1>3, <1>6 DEF PageFails
  <2> QED
    BY <1>6, <2>1 DEF PageFails, PageTypes, objectVars
<1>7. CASE RendererGone(p)
  <2>1. page' \in [Page -> PageStates]
    BY <1>1, <1>7, PageChange DEF RendererGone
  <2> QED
    BY <1>7, <2>1 DEF RendererGone, PageTypes, NoticeType
<1>8. CASE PageDestroyed(p)
  <2>1. page' \in [Page -> PageStates]
    BY <1>1, <1>8, PageChange DEF PageDestroyed
  <2>2. NoticeType'
    BY <1>1, <1>3, <1>8 DEF PageDestroyed
  <2> QED
    BY <1>2, <1>8, <2>1, <2>2 DEF PageDestroyed, PageTypes
<1>9. ASSUME NEW u \in Url, PageOpens(p, u) PROVE PageTypes' /\ NoticeType'
  <2>1. page' \in [Page -> PageStates]
    BY <1>1, <1>9, PageChange DEF PageOpens
  <2> QED
    BY <1>9, <2>1 DEF PageOpens, PageTypes, NoticeType, objectVars
<1>10. ASSUME NEW u \in Url, PageNavigates(p, u) PROVE PageTypes' /\ NoticeType'
  <2>1. page' \in [Page -> PageStates]
    BY <1>1, <1>10, PageChange DEF PageNavigates, Navigating
  <2> QED
    BY <1>10, <2>1 DEF PageNavigates, PageTypes, NoticeType, objectVars
<1>11. ASSUME NEW u \in Url, PageMovesInDocument(p, u)
       PROVE  PageTypes' /\ NoticeType'
  <2>1. page' \in [Page -> PageStates]
    BY <1>1, <1>11, PageChange DEF PageMovesInDocument
  <2>2. NoticeType'
    BY <1>3, <1>11 DEF PageMovesInDocument
  <2> QED
    BY <1>11, <2>1, <2>2 DEF PageMovesInDocument, PageTypes, Show, Instrument
<1>12. ASSUME NEW u \in Url, NEW bad \in BOOLEAN, PageCommits(p, u, bad)
       PROVE  PageTypes' /\ NoticeType'
  <2>1. page' \in [Page -> PageStates]
    BY <1>1, <1>12, PageChange DEF PageCommits
  <2>2. NoticeType'
    BY <1>3, <1>12 DEF PageCommits
  <2> QED
    BY <1>12, <2>1, <2>2 DEF PageCommits, PageTypes, Show, Instrument
<1> QED
  BY <1>4, <1>5, <1>6, <1>7, <1>8, <1>9, <1>10, <1>11, <1>12 DEF PageEvent

\* What a page does by itself touches no callback and no timer.
LEMMA PageEventInv ==
  ASSUME IInv, NEW p \in Page, PageEvent(p)
  PROVE  IInv'
<1>1. UNCHANGED <<answerVars, timers, on, check, seen, crashed>>
  BY DEF PageEvent, PageGivesUp, PageStops, PageFails, RendererGone,
         PageDestroyed, PageOpens, PageNavigates, PageMovesInDocument,
         PageCommits, objectVars
<1>2. AnsweredOnce' /\ CallbackHeld' /\ NoStrandedOperation'
  BY <1>1 DEF answerVars, AnsweredOnce, CallbackHeld, NoStrandedOperation, IInv
<1>3. PageTypes /\ NoticeType
  BY DEF IInv, TypeOK, PageTypes, NoticeType
<1>4. PageTypes' /\ NoticeType'
  BY <1>3, PageEventTypes
<1>5. TypeOK'
  BY <1>1, <1>4 DEF IInv, TypeOK, PageTypes, NoticeType, answerVars
<1> QED
  BY <1>2, <1>5 DEF IInv

\* An operation that is refused only runs its callback.
LEMMA RefuseInv ==
  ASSUME IInv, NEW o \in Op, NEW s \in Statuses, phase[o] = "idle", Refuse(o, s)
  PROVE  IInv'
<1>1. Callbacks' /\ phase' = [phase EXCEPT ![o] = "deleted"]
  BY AnswerKeeps DEF Refuse, IInv, TypeOK, Callbacks
<1> QED
  BY <1>1 DEF Refuse, IInv, TypeOK, Callbacks, NoStrandedOperation, pageVars,
              objectVars

ObjectTypes ==
  /\ on \in [Op -> Page \cup {NoPage}]
  /\ timers \in [Op -> SUBSET {"navigation", "evaluation", "readback"}]
  /\ check \subseteq Op /\ seen \subseteq Op
  /\ crashed \in BOOLEAN
  /\ \A o \in Op : phase[o] \in {"waiting", "completed"} => on[o] \in Page

\* The invariant by its parts.
LEMMA Parts ==
  IInv <=> Callbacks /\ PageTypes /\ NoticeType /\ ObjectTypes /\ NoStrandedOperation
  BY DEF IInv, TypeOK, Callbacks, PageTypes, NoticeType, ObjectTypes

\* The same of the next state.
LEMMA PartsNext ==
  ASSUME Callbacks', PageTypes', NoticeType', ObjectTypes', NoStrandedOperation'
  PROVE  IInv'
BY DEF IInv, TypeOK, Callbacks, PageTypes, NoticeType, ObjectTypes

\* An operation that begins to wait keeps its callback, and has a timer if it
\* has a deadline.
LEMMA WaitKeeps ==
  ASSUME IInv, NEW o \in Op, NEW p \in Page,
         NEW ts \in SUBSET {"navigation", "evaluation", "readback"},
         NEW rs \in SUBSET {"js", "snap", "cookies"},
         phase[o] = "idle", Wait(o, p, ts, rs), HasDeadline(o) => ts # {},
         check' \subseteq Op
  PROVE  /\ Callbacks' /\ NoStrandedOperation' /\ ObjectTypes'
         /\ replies' \in [Op -> SUBSET {"js", "snap", "cookies"}]
<1>1. /\ Callbacks' /\ NoStrandedOperation'
  BY DEF Wait, IInv, TypeOK, Callbacks, AnsweredOnce, CallbackHeld,
         NoStrandedOperation, HasDeadline
<1>2. ObjectTypes' /\ replies' \in [Op -> SUBSET {"js", "snap", "cookies"}]
  BY DEF Wait, IInv, TypeOK, ObjectTypes
<1> QED
  BY <1>1, <1>2

\* A new waiter is an observer like the others.
LEMMA ObserveType ==
  ASSUME PageTypes, NoticeType, NEW o \in Op, NEW p \in Page, Observe(o, p)
  PROVE  watchers' \in [Page -> Seq(Op)] /\ NoticeType'
<1>1. Append(watchers[p], o) \in Seq(Op) /\ Append(notice.left, o) \in Seq(Op)
  BY DEF PageTypes, NoticeType
<1> QED
  BY <1>1 DEF Observe, PageTypes, NoticeType

\* Each operation, called on its own or from the callback of another.
LEMMA OperationInv ==
  ASSUME IInv, NEW o \in Op, Operation(o)
  PROVE  IInv'
<1> USE DEF Called
<1>p. Callbacks /\ PageTypes /\ NoticeType /\ ObjectTypes /\ NoStrandedOperation
  BY Parts
<1>k. Target[o] \in Url \cup {NoUrl}
  BY OpAssumption
<1>1. ASSUME NEW s \in Statuses, phase[o] = "idle", Refuse(o, s) PROVE IInv'
  BY <1>1, RefuseInv
<1>2. CASE TabNotFound(o) \/ InvalidArgument(o) \/ NoHistory(o)
  BY <1>1, <1>2 DEF TabNotFound, InvalidArgument, NoHistory, Statuses
<1>3. CASE CreateTabFails(o)
  <2>1. Callbacks' /\ phase' = [phase EXCEPT ![o] = "deleted"]
    BY <1>3, <1>p, AnswerKeeps DEF CreateTabFails, Statuses
  <2>2. Open \subseteq Page
    BY DEF Open
  <2>3. PageTypes' /\ NoticeType' /\ ObjectTypes' /\ NoStrandedOperation'
    BY <1>3, <1>p, <2>1, <2>2 DEF CreateTabFails, PageTypes, NoticeType,
       ObjectTypes, NoStrandedOperation, objectVars, Callbacks
  <2> QED
    BY <2>1, <2>3, PartsNext
<1>4. ASSUME NEW p \in Page, Navigate(o, p) PROVE IInv'
  <2>1. NoticeType' /\ watchers' \in [Page -> Seq(Op)]
    BY <1>4, <1>p, ObserveType DEF Navigate
  <2>2. /\ Callbacks' /\ NoStrandedOperation' /\ ObjectTypes'
        /\ replies' \in [Op -> SUBSET {"js", "snap", "cookies"}]
    <3>1. check' \subseteq Op
      BY <1>4, <1>p DEF Navigate, ObjectTypes
    <3> QED
      BY <1>4, <3>1, WaitKeeps DEF Navigate
  <2>3. page' \in [Page -> PageStates]
    BY <1>4, <1>p, <1>k, PageChange DEF Navigate, Navigating, PageTypes
  <2>4. page[p].url \in Url \cup {NoUrl}
    BY <1>p, PageUrl DEF PageTypes
  <2>5. PageTypes'
    BY <1>4, <1>p, <2>1, <2>2, <2>3, <2>4 DEF Navigate, PageTypes
  <2> QED
    BY <2>1, <2>2, <2>5, PartsNext
<1>5. ASSUME NEW p \in Page, CreateTab(o, p) PROVE IInv'
  <2>1. page' \in [Page -> PageStates]
    BY <1>5, <1>p, <1>k, PageChange DEF CreateTab, PageTypes
  <2>2. instrumented' \subseteq Page
    BY <1>5 DEF CreateTab, Open
  <2>3. CASE Target[o] = Blank
    <3>1. Callbacks' /\ phase' = [phase EXCEPT ![o] = "deleted"]
      BY <1>5, <2>3, <1>p, AnswerKeeps DEF CreateTab, Statuses
    <3>2. PageTypes' /\ NoticeType' /\ ObjectTypes' /\ NoStrandedOperation'
      BY <1>5, <2>3, <1>p, <2>1, <2>2, <3>1 DEF CreateTab, PageTypes, NoticeType,
         ObjectTypes, NoStrandedOperation, objectVars, Callbacks
    <3> QED
      BY <3>1, <3>2, PartsNext
  <2>4. CASE Target[o] # Blank
    <3>1. NoticeType' /\ watchers' \in [Page -> Seq(Op)]
      BY <1>5, <2>4, <1>p, ObserveType DEF CreateTab
    <3>2. check' \subseteq Op
      BY <1>5, <2>4, <1>p DEF CreateTab, ObjectTypes
    <3>3. /\ Callbacks' /\ NoStrandedOperation' /\ ObjectTypes'
          /\ replies' \in [Op -> SUBSET {"js", "snap", "cookies"}]
      BY <1>5, <2>4, <3>2, WaitKeeps DEF CreateTab
    <3>4. PageTypes'
      BY <1>5, <2>4, <1>p, <2>1, <2>2, <3>1, <3>3 DEF CreateTab, PageTypes
    <3> QED
      BY <3>1, <3>3, <3>4, PartsNext
  <2> QED
    BY <2>3, <2>4
<1>6. ASSUME NEW p \in Page, Reload(o, p) PROVE IInv'
  <2>1. NoticeType' /\ watchers' \in [Page -> Seq(Op)]
    BY <1>6, <1>p, ObserveType DEF Reload
  <2>2. /\ Callbacks' /\ NoStrandedOperation' /\ ObjectTypes'
        /\ replies' \in [Op -> SUBSET {"js", "snap", "cookies"}]
    <3>1. check' \subseteq Op
      BY <1>6, <1>p DEF Reload, ObjectTypes
    <3>2. ~HasDeadline(o)
      BY <1>6 DEF Reload, HasDeadline
    <3> QED
      BY <1>6, <3>1, <3>2, WaitKeeps DEF Reload
  <2>3. page' \in [Page -> PageStates]
    <3>1. page[p].url \in Url \cup {NoUrl}
      BY <1>p, PageUrl DEF PageTypes
    <3> QED
      BY <1>6, <1>p, <3>1, PageChange DEF Reload, Navigating, PageTypes
  <2>4. PageTypes'
    BY <1>6, <1>p, <2>1, <2>2, <2>3 DEF Reload, PageTypes
  <2> QED
    BY <2>1, <2>2, <2>4, PartsNext
<1>7. ASSUME NEW p \in Page,
             NEW ts \in SUBSET {"navigation", "evaluation", "readback"},
             NEW rs \in SUBSET {"js", "snap", "cookies"},
             phase[o] = "idle", Wait(o, p, ts, rs), HasDeadline(o) => ts # {},
             UNCHANGED <<check, visited, pageVars>>
      PROVE  IInv'
  <2>1. check' \subseteq Op
    BY <1>7, <1>p DEF ObjectTypes
  <2>2. /\ Callbacks' /\ NoStrandedOperation' /\ ObjectTypes'
        /\ replies' \in [Op -> SUBSET {"js", "snap", "cookies"}]
    BY <1>7, <2>1, WaitKeeps
  <2>3. PageTypes' /\ NoticeType'
    BY <1>7, <1>p, <2>2 DEF PageTypes, NoticeType, pageVars
  <2> QED
    BY <2>2, <2>3, PartsNext
<1>8. ASSUME NEW p \in Page, Evaluate(o, p) PROVE IInv'
  <2>1. CASE page[p].live
    <3> DEFINE ts == IF TimeoutMs(o) > 0 THEN {"evaluation"} ELSE {}
    <3>1. ts \in SUBSET {"navigation", "evaluation", "readback"}
      OBVIOUS
    <3>2. HasDeadline(o) => ts # {}
      BY DEF HasDeadline
    <3>3. Wait(o, p, ts, {"js"}) /\ phase[o] = "idle"
      BY <1>8, <2>1 DEF Evaluate
    <3>4. UNCHANGED <<check, visited, pageVars>>
      BY <1>8, <2>1 DEF Evaluate
    <3> HIDE DEF ts
    <3> QED
      BY <1>7, <3>1, <3>2, <3>3, <3>4
  <2>2. CASE ~page[p].live
    BY <1>8, <2>2, <1>1 DEF Evaluate, Statuses
  <2> QED
    BY <2>1, <2>2
<1>9. ASSUME NEW p \in Page, Screenshot(o, p) PROVE IInv'
  BY <1>9, <1>1, <1>7 DEF Screenshot, Statuses
<1>10. ASSUME NEW p \in Page, Cookies(o, p) PROVE IInv'
  <2>1. ~HasDeadline(o)
    BY <1>10 DEF Cookies, HasDeadline
  <2> QED
    BY <1>10, <2>1, <1>1, <1>7 DEF Cookies, Statuses
<1>11. ASSUME NEW p \in Page, NEW u \in Url, NavigateHistory(o, p, u) PROVE IInv'
  <2>1. Callbacks' /\ phase' = [phase EXCEPT ![o] = "deleted"]
    BY <1>11, <1>p, AnswerKeeps DEF NavigateHistory, Statuses
  <2>2. page' \in [Page -> PageStates]
    BY <1>11, <1>p, PageChange DEF NavigateHistory, Navigating, PageTypes
  <2>3. PageTypes' /\ NoticeType' /\ ObjectTypes' /\ NoStrandedOperation'
    BY <1>11, <1>p, <2>1, <2>2 DEF NavigateHistory, PageTypes, NoticeType,
       ObjectTypes, NoStrandedOperation, objectVars, Callbacks
  <2> QED
    BY <2>1, <2>3, PartsNext
<1> QED
  BY <1>2, <1>3, <1>4, <1>5, <1>6, <1>8, <1>9, <1>10, <1>11 DEF Operation
-----------------------------------------------------------------------------
(* The waiters' handlers.                                                  *)

\* What a handler leaves behind, whatever it did to its own operation.
Kept ==
  /\ Callbacks' /\ NoStrandedOperation'
  /\ watchers' \in [Page -> Seq(Op)]
  /\ timers' \in [Op -> SUBSET {"navigation", "evaluation", "readback"}]
  /\ \A q \in Op : phase'[q] \in {"waiting", "completed"}
                   => phase[q] \in {"waiting", "completed"}

\* An observer removed from the list of a page leaves lists of observers.
LEMMA WatchersType ==
  ASSUME watchers \in [Page -> Seq(Op)], NEW o \in Op,
         watchers' = [watchers EXCEPT ![on[o]] = Without(@, o)]
  PROVE  watchers' \in [Page -> Seq(Op)]
<1>1. ASSUME NEW p \in Page PROVE Without(watchers[p], o) \in Seq(Op)
  BY WithoutType
<1> QED
  BY <1>1

\* NavigationWaiter::Complete.
LEMMA CompleteNavigationKeeps ==
  ASSUME IInv, NEW o \in Op, NEW s \in Statuses, CompleteNavigation(o, s)
  PROVE  Kept
<1>p. Callbacks /\ PageTypes /\ ObjectTypes /\ NoStrandedOperation
  BY Parts
<1>1. Complete(o, s) /\ timers' = [timers EXCEPT ![o] = {}]
  BY DEF CompleteNavigation
<1>2. /\ Callbacks'
      /\ \A q \in Op : /\ q # o => phase'[q] = phase[q]
                       /\ phase'[q] \in {"waiting", "completed"}
                          => phase[q] \in {"waiting", "completed"}
      /\ phase'[o] # "waiting"
  BY <1>p, <1>1, CompleteKeeps
<1>3. timers' \in [Op -> SUBSET {"navigation", "evaluation", "readback"}]
  BY <1>p, <1>1 DEF ObjectTypes
<1>4. NoStrandedOperation'
  BY <1>p, <1>1, <1>2 DEF NoStrandedOperation, ObjectTypes, HasDeadline
<1>5. watchers' \in [Page -> Seq(Op)]
  BY <1>p, WatchersType DEF CompleteNavigation, PageTypes
<1> QED
  BY <1>2, <1>3, <1>4, <1>5 DEF Kept

\* A handler that returns early.
LEMMA StillWaitingKeeps ==
  ASSUME IInv, StillWaiting
  PROVE  Kept
<1>p. Callbacks /\ PageTypes /\ ObjectTypes /\ NoStrandedOperation
  BY Parts
<1> QED
  BY <1>p DEF StillWaiting, answerVars, Kept, Callbacks, AnsweredOnce,
     CallbackHeld, NoStrandedOperation, HasDeadline, PageTypes, ObjectTypes

\* The only handler of a ReloadWaiter.
LEMMA ReloadWaiterKeeps ==
  ASSUME IInv, NEW o \in Op, ReloadWaiterTold(o)
  PROVE  Kept /\ seen' \subseteq Op
<1>p. Callbacks /\ PageTypes /\ ObjectTypes /\ NoStrandedOperation
  BY Parts
<1>1. UNCHANGED <<timers, seen>>
  BY DEF ReloadWaiterTold
<1>2. watchers' \in [Page -> Seq(Op)]
  BY <1>p, WatchersType DEF ReloadWaiterTold, PageTypes
<1>3. CASE UNCHANGED answerVars
  BY <1>p, <1>1, <1>2, <1>3 DEF answerVars, Kept, Callbacks, AnsweredOnce,
     CallbackHeld, NoStrandedOperation, HasDeadline, ObjectTypes
<1>4. CASE phase[o] = "waiting" /\ Answer(o, "ok", "deleted")
  <2>1. Callbacks' /\ phase' = [phase EXCEPT ![o] = "deleted"]
    BY <1>p, <1>4, AnswerKeeps DEF Statuses
  <2> QED
    BY <1>p, <1>1, <1>2, <2>1 DEF Kept, Callbacks, NoStrandedOperation,
       HasDeadline, ObjectTypes
<1> QED
  BY <1>3, <1>4 DEF ReloadWaiterTold, answerVars

\* Each handler of a NavigationWaiter.
LEMMA NavigationWaiterKeeps ==
  ASSUME IInv, NEW o \in Op,
         \/ DidFinishNavigation(o) \/ DidStopLoading(o) \/ DidFailLoad(o)
         \/ WebContentsDestroyed(o)
  PROVE  Kept /\ seen' \subseteq Op
<1>1. seen \subseteq Op
  BY DEF IInv, TypeOK
<1>2. CASE StillWaiting
  BY <1>1, <1>2, StillWaitingKeeps DEF DidFinishNavigation, DidStopLoading,
     DidFailLoad, WebContentsDestroyed
<1>3. ASSUME NEW s \in Statuses, CompleteNavigation(o, s)
      PROVE  Kept /\ seen' \subseteq Op
  <2>1. Kept
    BY <1>3, CompleteNavigationKeeps
  <2>2. seen' \subseteq Op
    BY <1>1 DEF DidFinishNavigation, DidStopLoading, DidFailLoad,
       WebContentsDestroyed
  <2> QED
    BY <2>1, <2>2
<1> QED
  BY <1>2, <1>3 DEF DidFinishNavigation, DidStopLoading, DidFailLoad,
     WebContentsDestroyed, OnArrival, Statuses

\* What a handler kept, with the rest of the state in order, is the invariant.
LEMMA KeptInv ==
  ASSUME IInv, Kept, NoticeType',
         page' = page, captured' = captured, instrumented' \subseteq Page,
         on' = on, replies' = replies, visited' = visited, crashed' = crashed,
         check' \subseteq Op, seen' \subseteq Op
  PROVE  IInv'
<1>p. PageTypes /\ ObjectTypes
  BY Parts
<1>1. PageTypes'
  BY <1>p DEF PageTypes, Kept
<1>2. ObjectTypes'
  BY <1>p DEF ObjectTypes, Kept
<1> QED
  BY <1>1, <1>2, PartsNext DEF Kept

\* The refresh after an operation instruments pages.
LEMMA RefreshType ==
  ASSUME IInv, NEW o \in Op, RefreshAfter(o)
  PROVE  instrumented' \subseteq Page
BY DEF RefreshAfter, Open, IInv, TypeOK

\* An observer is told of the event.
LEMMA TellNextInv ==
  ASSUME IInv, TellNext
  PROVE  IInv'
<1>p. NoticeType
  BY Parts
<1> DEFINE o == Head(notice.left)
<1>1. notice.left \in Seq(Op) /\ notice.left # <<>>
  BY <1>p DEF TellNext, NoticeType
<1>2. o \in Op /\ Tail(notice.left) \in Seq(Op)
  BY <1>1
<1>3. notice' = [notice EXCEPT !.left = Tail(@)]
  BY DEF TellNext
<1>4. NoticeType'
  BY <1>p, <1>2, <1>3 DEF NoticeType
<1>5. \/ ReloadWaiterTold(o)
      \/ DidFinishNavigation(o) \/ DidStopLoading(o) \/ DidFailLoad(o)
      \/ WebContentsDestroyed(o)
  BY DEF TellNext
<1>6. RefreshAfter(o)
  BY DEF TellNext
<1>7. UNCHANGED <<page, captured, on, replies, check, visited, crashed>>
  BY DEF TellNext
<1>8. check' \subseteq Op
  BY <1>7 DEF IInv, TypeOK
<1> HIDE DEF o
<1>9. Kept /\ seen' \subseteq Op
  BY <1>2, <1>5, ReloadWaiterKeeps, NavigationWaiterKeeps
<1>10. instrumented' \subseteq Page
  BY <1>2, <1>6, RefreshType
<1> QED
  BY <1>4, <1>7, <1>8, <1>9, <1>10, KeptInv

\* The posted check of a new waiter.
LEMMA CheckCurrentStateInv ==
  ASSUME IInv, NEW o \in Op, CheckCurrentState(o)
  PROVE  IInv'
<1>1. NoticeType' /\ check' \subseteq Op /\ seen' \subseteq Op
  BY DEF CheckCurrentState, NoticeType, IInv, TypeOK
<1>2. Kept
  <2>1. StillWaiting \/ \E s \in Statuses : CompleteNavigation(o, s)
    BY DEF CheckCurrentState, OnArrival, Statuses
  <2> QED
    BY <2>1, StillWaitingKeeps, CompleteNavigationKeeps
<1>3. UNCHANGED <<page, captured, on, replies, visited, crashed>>
  BY DEF CheckCurrentState
<1>4. instrumented' \subseteq Page
  BY RefreshType DEF CheckCurrentState
<1> QED
  BY <1>1, <1>2, <1>3, <1>4, KeptInv

-----------------------------------------------------------------------------
(* Timers, replies and the rest.                                           *)

\* The three timers.
LEMMA TimerInv ==
  ASSUME IInv, NEW o \in Op, TimerFires(o)
  PROVE  IInv'
<1>p. Callbacks /\ PageTypes /\ NoticeType /\ ObjectTypes /\ NoStrandedOperation
  BY Parts
<1>1. CASE NavigationTimeout(o)
  <2>1. Kept
    BY <1>1, CompleteNavigationKeeps DEF NavigationTimeout, Statuses
  <2>2. NoticeType' /\ check' \subseteq Op /\ seen' \subseteq Op
        /\ instrumented' \subseteq Page
    BY <1>1 DEF NavigationTimeout, NoticeType, IInv, TypeOK
  <2> QED
    BY <1>1, <2>1, <2>2, KeptInv DEF NavigationTimeout
<1>2. ASSUME NEW s \in Statuses, Complete(o, s),
             timers' \in [Op -> SUBSET {"navigation", "evaluation", "readback"}],
             \A q \in Op : q # o => timers'[q] = timers[q],
             replies' \in [Op -> SUBSET {"js", "snap", "cookies"}],
             UNCHANGED <<pageVars, on, check, seen, visited, crashed>>
      PROVE  IInv'
  <2>1. /\ Callbacks'
        /\ \A q \in Op : /\ q # o => phase'[q] = phase[q]
                         /\ phase'[q] \in {"waiting", "completed"}
                            => phase[q] \in {"waiting", "completed"}
        /\ phase'[o] # "waiting"
    BY <1>p, <1>2, CompleteKeeps
  <2>2. NoStrandedOperation'
    BY <1>p, <1>2, <2>1 DEF NoStrandedOperation, HasDeadline
  <2>3. PageTypes' /\ NoticeType'
    BY <1>p, <1>2 DEF PageTypes, NoticeType, pageVars
  <2>4. ObjectTypes'
    BY <1>p, <1>2, <2>1 DEF ObjectTypes
  <2> QED
    BY <2>1, <2>2, <2>3, <2>4, PartsNext
<1>3. CASE EvaluationTimeout(o)
  BY <1>2, <1>3, <1>p DEF EvaluationTimeout, Statuses, ObjectTypes, PageTypes
<1>4. CASE ReadbackTimeout(o)
  <2>1. CASE /\ timers' = [timers EXCEPT ![o] = {"evaluation"}]
             /\ replies' = [replies EXCEPT ![o] = @ \cup {"js"}]
             /\ UNCHANGED <<answerVars, crashed>>
    <3>1. Callbacks' /\ NoStrandedOperation' /\ ObjectTypes'
      BY <1>4, <1>p, <2>1 DEF ReadbackTimeout, answerVars, Callbacks,
         AnsweredOnce, CallbackHeld, NoStrandedOperation, HasDeadline,
         ObjectTypes
    <3>2. PageTypes' /\ NoticeType'
      BY <1>4, <1>p, <2>1 DEF ReadbackTimeout, PageTypes, NoticeType, pageVars
    <3> QED
      BY <3>1, <3>2, PartsNext
  <2>2. CASE /\ timers' = [timers EXCEPT ![o] = {}]
             /\ Complete(o, "noActiveFrame")
             /\ UNCHANGED <<replies, crashed>>
    BY <1>2, <1>4, <1>p, <2>2 DEF ReadbackTimeout, Statuses, ObjectTypes,
       PageTypes
  <2>3. CASE crashed' = TRUE /\ UNCHANGED <<timers, replies, answerVars>>
    <3>1. Callbacks' /\ NoStrandedOperation' /\ ObjectTypes'
      BY <1>4, <1>p, <2>3 DEF ReadbackTimeout, answerVars, Callbacks,
         AnsweredOnce, CallbackHeld, NoStrandedOperation, HasDeadline,
         ObjectTypes
    <3>2. PageTypes' /\ NoticeType'
      BY <1>4, <1>p, <2>3 DEF ReadbackTimeout, PageTypes, NoticeType, pageVars
    <3> QED
      BY <3>1, <3>2, PartsNext
  <2> QED
    BY <1>4, <2>1, <2>2, <2>3 DEF ReadbackTimeout
<1> QED
  BY <1>1, <1>3, <1>4 DEF TimerFires

\* A reply of the page, or of the network service.
LEMMA ReplyInv ==
  ASSUME IInv, NEW o \in Op, NEW r \in {"js", "snap", "cookies"}, Reply(o, r)
  PROVE  IInv'
<1>p. Callbacks /\ PageTypes /\ NoticeType /\ ObjectTypes /\ NoStrandedOperation
  BY Parts
<1>1. PICK s \in {"ok", "failed"} : Complete(o, s)
  BY DEF Reply
<1>2. /\ Callbacks'
      /\ \A q \in Op : /\ q # o => phase'[q] = phase[q]
                       /\ phase'[q] \in {"waiting", "completed"}
                          => phase[q] \in {"waiting", "completed"}
      /\ phase'[o] # "waiting"
  BY <1>p, <1>1, CompleteKeeps DEF Statuses
<1>3. /\ timers' \in [Op -> SUBSET {"navigation", "evaluation", "readback"}]
      /\ \A q \in Op : q # o => timers'[q] = timers[q]
  <2> DEFINE stopped == CASE r = "js" -> {"evaluation"}
                          [] r = "snap" -> {"readback"}
                          [] OTHER -> {}
  <2>1. timers' = [timers EXCEPT ![o] = @ \ stopped]
    BY DEF Reply
  <2> HIDE DEF stopped
  <2> QED
    BY <1>p, <2>1 DEF ObjectTypes
<1>4. NoStrandedOperation'
  BY <1>p, <1>2, <1>3 DEF NoStrandedOperation, HasDeadline
<1>5. PageTypes' /\ NoticeType'
  BY <1>p DEF Reply, PageTypes, NoticeType, pageVars
<1>6. ObjectTypes'
  BY <1>p, <1>2, <1>3 DEF ObjectTypes, Reply
<1> QED
  BY <1>2, <1>4, <1>5, <1>6, PartsNext

\* The posted deletion of a completed object.
LEMMA DeleteInv ==
  ASSUME IInv, NEW o \in Op, DeleteObject(o)
  PROVE  IInv'
<1>p. Callbacks /\ PageTypes /\ NoticeType /\ ObjectTypes /\ NoStrandedOperation
  BY Parts
<1>1. Callbacks' /\ NoStrandedOperation' /\ ObjectTypes'
  BY <1>p DEF DeleteObject, Callbacks, AnsweredOnce, CallbackHeld,
     NoStrandedOperation, HasDeadline, ObjectTypes
<1>2. PageTypes' /\ NoticeType'
  BY <1>p DEF DeleteObject, PageTypes, NoticeType, pageVars
<1> QED
  BY <1>1, <1>2, PartsNext

\* The end of a notice, and a refresh of the instrumentation.
LEMMA RestInv ==
  ASSUME IInv, AllTold \/ RefreshSharedRuntimeBehavior
  PROVE  IInv'
<1>p. Callbacks /\ PageTypes /\ NoticeType /\ ObjectTypes /\ NoStrandedOperation
  BY Parts
<1>1. <<>> \in Seq(Op)
  OBVIOUS
<1>2. NoticeType'
  <2>1. CASE notice' = NoNotice
    BY <1>1, <2>1 DEF NoNotice, NoticeType
  <2>2. CASE notice' = notice
    BY <1>p, <2>2 DEF NoticeType
  <2> QED
    BY <2>1, <2>2 DEF AllTold, RefreshSharedRuntimeBehavior
<1>4. PageTypes'
  <2>1. instrumented' \subseteq Page
    BY <1>p DEF AllTold, RefreshSharedRuntimeBehavior, PageTypes, Open
  <2> QED
    BY <1>p, <2>1 DEF AllTold, RefreshSharedRuntimeBehavior, PageTypes, objectVars
<1>3. Callbacks' /\ NoStrandedOperation' /\ ObjectTypes'
  BY <1>p DEF AllTold, RefreshSharedRuntimeBehavior, answerVars, objectVars,
     Callbacks, AnsweredOnce, CallbackHeld, NoStrandedOperation, HasDeadline,
     ObjectTypes
<1> QED
  BY <1>2, <1>3, <1>4, PartsNext

-----------------------------------------------------------------------------
(* The theorems.                                                           *)

\* The first pages are open, and no operation has begun.
LEMMA InitInv == Init => IInv
<1> SUFFICES ASSUME Init PROVE IInv
  OBVIOUS
<1>1. <<>> \in Seq(Op) /\ <<>> \in Seq(Statuses) /\ Len(<<>>) = 0
  OBVIOUS
<1>2. page \in [Page -> PageStates]
  BY DEF Init, PageStates, Fresh
<1>3. Callbacks /\ ObjectTypes /\ NoStrandedOperation
  <2>1. \A o \in Op : phase[o] = "idle" /\ answer[o] = <<>>
    BY DEF Init
  <2>2. AnsweredOnce /\ CallbackHeld
    BY <1>1, <2>1 DEF AnsweredOnce, CallbackHeld
  <2>3. NoStrandedOperation
    BY <2>1 DEF NoStrandedOperation
  <2>4. /\ phase \in [Op -> {"idle", "waiting", "completed", "deleted"}]
        /\ answer \in [Op -> Seq(Statuses)]
        /\ inline \in Op \cup {NoOp}
    BY <1>1 DEF Init
  <2>5. ObjectTypes
    BY <2>1 DEF Init, ObjectTypes
  <2> QED
    BY <2>2, <2>3, <2>4, <2>5 DEF Callbacks
<1>4. PageTypes /\ NoticeType
  BY <1>1, <1>2, PageAssumption DEF Init, PageTypes, NoticeType, NoNotice
<1> QED
  BY <1>3, <1>4, Parts

\* Every step keeps the invariant.
LEMMA StepInv == IInv /\ [Next]_vars => IInv'
<1> SUFFICES ASSUME IInv, [Next]_vars PROVE IInv'
  OBVIOUS
<1>1. CASE UNCHANGED vars
  BY <1>1 DEF vars, pageVars, objectVars, answerVars, IInv, TypeOK,
     AnsweredOnce, CallbackHeld, NoStrandedOperation, HasDeadline
<1>2. CASE Next
  <2>1. CASE TellNext
    BY <2>1, TellNextInv
  <2>2. CASE AllTold \/ RefreshSharedRuntimeBehavior
    BY <2>2, RestInv
  <2>3. ASSUME NEW p \in Page, PageEvent(p) PROVE IInv'
    BY <2>3, PageEventInv
  <2>4. ASSUME NEW o \in Op, Operation(o) PROVE IInv'
    BY <2>4, OperationInv
  <2>5. ASSUME NEW o \in Op, CheckCurrentState(o) PROVE IInv'
    BY <2>5, CheckCurrentStateInv
  <2>6. ASSUME NEW o \in Op, TimerFires(o) PROVE IInv'
    BY <2>6, TimerInv
  <2>7. ASSUME NEW o \in Op, DeleteObject(o) PROVE IInv'
    BY <2>7, DeleteInv
  <2>8. ASSUME NEW o \in Op, NEW r \in {"js", "snap", "cookies"}, Reply(o, r)
        PROVE  IInv'
    BY <2>8, ReplyInv
  <2> QED
    BY <1>2, <2>1, <2>2, <2>3, <2>4, <2>5, <2>6, <2>7, <2>8 DEF Next
<1> QED
  BY <1>1, <1>2

\* The inductive invariant of the asynchronous operations.
THEOREM Invariance == Spec => []IInv
<1> QED
  BY InitInv, StepInv, PTL DEF Spec

\* The state of the controller's heap objects is well formed in every reachable
\* state, for any pages, URLs and operations.
THEOREM TypeCorrect == Spec => []TypeOK
<1>1. IInv => TypeOK
  BY DEF IInv
<1> QED
  BY <1>1, Invariance, PTL

\* The callback of an operation runs at most once, whatever page events,
\* timers, posted checks and late replies arrive, and in whatever order.
THEOREM CallbackOnce == Spec => []AnsweredOnce
<1>1. IInv => AnsweredOnce
  BY DEF IInv
<1> QED
  BY <1>1, Invariance, PTL

\* An operation with a deadline never waits without an armed timer.
THEOREM DeadlineKept == Spec => []NoStrandedOperation
<1>1. IInv => NoStrandedOperation
  BY DEF IInv
<1> QED
  BY <1>1, Invariance, PTL

-----------------------------------------------------------------------------
(* Pages, their observers and what they wait for.                          *)

\* The navigations, and their objects and those of reloads, which observe a page.
Navigation(o) == Kind[o] \in {"navigate", "create"}

Waiter(o) == phase[o] = "waiting" /\ Kind[o] \in {"navigate", "create", "reload"}

\* An observer, and one that is still to be told of an event, is that of an
\* operation that was resolved to the page; and a waiter observes its page for as
\* long as that is open.
Watched ==
  \A p \in Page, o \in Op :
    Contains(watchers[p], o) => phase[o] # "idle" /\ on[o] = p

ToBeTold ==
  \A o \in Op :
    Contains(notice.left, o) => phase[o] # "idle" /\ on[o] = notice.page

Watching == \A o \in Op : Waiter(o) /\ on[o] \in Open => Contains(watchers[on[o]], o)

Observers == Watched /\ ToBeTold /\ Watching

\* Operations are resolved to pages that have been opened, and events are theirs.
Resolved ==
  /\ \A o \in Op : on[o] \in Page => page[on[o]].is # "none"
  /\ notice.event # "none" => page[notice.page].is # "none"

\* A URL that counts as the requested one has been shown.
Shown(o) ==
  \E u \in visited[o] :
    u = Target[o] \/ (Host[u] # NoHost /\ Host[u] = Host[Target[o]])

\* What the page shows, and what a notice says it shows, has been shown; the
\* request is marked as seen only then; and nothing but the page's events and
\* its own timer completes a navigation.
Arrivals ==
  /\ notice.event = "finished" => page[notice.page].url = notice.url
  /\ \A o \in seen : phase[o] # "idle"
  /\ \A o \in Op : phase[o] = "waiting" /\ Navigation(o) =>
       /\ page[on[o]].url \in visited[o] \cup {NoUrl}
       /\ o \in seen => Shown(o)
  /\ \A o \in Op : Navigation(o) => replies[o] = {} /\ timers[o] \subseteq {"navigation"}

\* A page that navigates is loading, and a reload waits for a load that goes
\* on or that its waiter is about to be told the end of.
Loads ==
  /\ \A p \in Page : page[p].nav # NoUrl => page[p].loading
  /\ \A o \in Op :
       /\ phase[o] = "waiting" /\ Kind[o] = "reload"
       /\ on[o] \in Open /\ page[on[o]].url # NoUrl
       => \/ page[on[o]].loading
          \/ notice.event = "stopped" /\ Contains(notice.left, o)

\* A created tab is instrumented for as long as it is open.
Instrumented ==
  \A o \in Op : Kind[o] = "create" /\ on[o] \in Open => on[o] \in instrumented

-----------------------------------------------------------------------------
(* Lists of observers.                                                     *)

\* Nobody observes by way of an empty list.
LEMMA EmptyContains == \A o \in Op : ~Contains(<<>>, o)
BY DEF Contains

\* Appending an observer adds that one.
LEMMA AppendContains ==
  ASSUME NEW s \in Seq(Op), NEW o \in Op, NEW q \in Op
  PROVE  Contains(Append(s, o), q) <=> Contains(s, q) \/ q = o
<1>1. /\ Len(Append(s, o)) = Len(s) + 1 /\ Append(s, o)[Len(s) + 1] = o
      /\ \A i \in 1 .. Len(s) : Append(s, o)[i] = s[i]
  OBVIOUS
<1>2. Len(s) \in Nat
  OBVIOUS
<1>3. \A i \in 1 .. Len(s) + 1 : i \in 1 .. Len(s) \/ i = Len(s) + 1
  BY <1>2
<1>4. 1 .. Len(s) \subseteq 1 .. Len(s) + 1 /\ Len(s) + 1 \in 1 .. Len(s) + 1
  BY <1>2
<1> QED
  BY <1>1, <1>3, <1>4 DEF Contains

\* The tail of a list holds all but its head.
LEMMA TailContains ==
  ASSUME NEW s \in Seq(Op), s # <<>>, NEW q \in Op
  PROVE  /\ Contains(Tail(s), q) => Contains(s, q)
         /\ Contains(s, q) => q = Head(s) \/ Contains(Tail(s), q)
         /\ Contains(s, Head(s))
<1>1. /\ Len(s) \in Nat \ {0} /\ Head(s) = s[1] /\ Len(Tail(s)) = Len(s) - 1
      /\ \A i \in 1 .. Len(s) - 1 : Tail(s)[i] = s[i + 1]
  OBVIOUS
<1>2. ASSUME Contains(Tail(s), q) PROVE Contains(s, q)
  <2>1. PICK i \in 1 .. Len(s) - 1 : s[i + 1] = q
    BY <1>1, <1>2 DEF Contains
  <2>2. i + 1 \in 1 .. Len(s)
    BY <1>1
  <2> QED
    BY <2>1, <2>2 DEF Contains
<1>3. ASSUME Contains(s, q), q # Head(s) PROVE Contains(Tail(s), q)
  <2>1. PICK i \in 1 .. Len(s) : s[i] = q
    BY <1>3 DEF Contains
  <2>2. i - 1 \in 1 .. Len(s) - 1 /\ (i - 1) + 1 = i
    BY <1>1, <1>3, <2>1
  <2>3. Tail(s)[i - 1] = q
    BY <1>1, <2>1, <2>2
  <2> QED
    BY <1>1, <2>2, <2>3 DEF Contains
<1>4. Contains(s, Head(s))
  BY <1>1 DEF Contains
<1> QED
  BY <1>2, <1>3, <1>4

\* The observers of a list in two parts are those of the parts.
LEMMA ConcatContains ==
  ASSUME NEW s \in Seq(Op), NEW t \in Seq(Op), NEW q \in Op
  PROVE  Contains(s \o t, q) <=> Contains(s, q) \/ Contains(t, q)
<1> DEFINE w == s \o t
<1>1. /\ Len(w) = Len(s) + Len(t)
      /\ \A i \in 1 .. Len(s) + Len(t) : w[i] = IF i <= Len(s) THEN s[i] ELSE t[i - Len(s)]
  BY ConcatProperties
<1> HIDE DEF w
<1>2. Len(s) \in Nat /\ Len(t) \in Nat
  OBVIOUS
<1>3. ASSUME NEW i \in 1 .. Len(w), w[i] = q PROVE Contains(s, q) \/ Contains(t, q)
  <2>1. CASE i <= Len(s)
    <3>1. i \in 1 .. Len(s) /\ i \in 1 .. Len(s) + Len(t)
      BY <1>1, <1>2, <2>1
    <3> QED
      BY <1>1, <1>3, <2>1, <3>1 DEF Contains
  <2>2. CASE ~(i <= Len(s))
    <3>1. i - Len(s) \in 1 .. Len(t) /\ i \in 1 .. Len(s) + Len(t)
      BY <1>1, <1>2, <2>2
    <3> QED
      BY <1>1, <1>3, <2>2, <3>1 DEF Contains
  <2> QED
    BY <2>1, <2>2
<1>4. ASSUME NEW i \in 1 .. Len(s), s[i] = q PROVE Contains(w, q)
  <2>1. i \in 1 .. Len(s) + Len(t) /\ i <= Len(s)
    BY <1>2
  <2> QED
    BY <1>1, <1>4, <2>1 DEF Contains
<1>5. ASSUME NEW i \in 1 .. Len(t), t[i] = q PROVE Contains(w, q)
  <2>1. /\ Len(s) + i \in 1 .. Len(s) + Len(t) /\ ~(Len(s) + i <= Len(s))
        /\ (Len(s) + i) - Len(s) = i
    BY <1>2
  <2>2. w[Len(s) + i] = q
    BY <1>1, <1>5, <2>1
  <2> QED
    BY <1>1, <2>1, <2>2 DEF Contains
<1> QED
  BY <1>3, <1>4, <1>5 DEF Contains, w

\* Without takes one observer out of the list, and no other.
LEMMA WithoutContains ==
  ASSUME NEW s \in Seq(Op), NEW o \in Op, NEW q \in Op
  PROVE  /\ Contains(Without(s, o), q) => Contains(s, q)
         /\ Contains(s, q) => q = o \/ Contains(Without(s, o), q)
<1>1. CASE Contains(s, o)
  <2>1. PICK i \in 1 .. Len(s) : i = CHOOSE j \in 1 .. Len(s) : s[j] = o
    BY <1>1 DEF Contains
  <2>2. s[i] = o
    BY <1>1, <2>1 DEF Contains
  <2>3. PICK a, b : a = SubSeq(s, 1, i - 1) /\ b = SubSeq(s, i + 1, Len(s))
    OBVIOUS
  <2>4. Without(s, o) = a \o b
    BY <1>1, <2>1, <2>3 DEF Without, RemoveAt
  <2>5. Len(s) \in Nat /\ i \in 1 .. Len(s) /\ s \in Seq(Op)
    OBVIOUS
  <2>6. s = a \o (<<o>> \o b)
    <3>1. SubSeq(s, i, Len(s)) = <<o>> \o b
      <4>1. Len(s) \in i .. Len(s)
        BY <2>5
      <4> QED
        BY <2>2, <2>3, <4>1, SubSeqRecursiveFirst
    <3>2. SubSeq(s, 1, i - 1) \o SubSeq(s, (i - 1) + 1, Len(s)) = SubSeq(s, 1, Len(s))
      <4>1. /\ 1 \in 1 .. Len(s) + 1 /\ i - 1 \in 1 - 1 .. Len(s)
            /\ Len(s) \in i - 1 .. Len(s)
        BY <2>5
      <4> QED
        BY <2>5, <4>1, ConcatAdjacentSubSeq
    <3>3. SubSeq(s, 1, Len(s)) = s /\ (i - 1) + 1 = i
      BY <2>5, SubSeqFull
    <3> QED
      BY <2>3, <3>1, <3>2, <3>3
  <2>7. a \in Seq(Op) /\ b \in Seq(Op) /\ <<o>> \in Seq(Op) /\ <<o>> \o b \in Seq(Op)
    BY <2>3, <2>5
  <2>8. Contains(s, q) <=> Contains(a, q) \/ Contains(<<o>>, q) \/ Contains(b, q)
    BY <2>6, <2>7, ConcatContains
  <2>9. Contains(a \o b, q) <=> Contains(a, q) \/ Contains(b, q)
    BY <2>7, ConcatContains
  <2>10. Contains(<<o>>, q) => q = o
    BY DEF Contains
  <2> QED
    BY <2>4, <2>8, <2>9, <2>10
<1>2. CASE ~Contains(s, o)
  BY <1>2 DEF Without
<1> QED
  BY <1>1, <1>2

-----------------------------------------------------------------------------
(* What the steps do to pages, notices and objects.                        *)

\* The page p is the only one that changes, and what the change leaves of it.
OnlyPage(p) == \A q \in Page : q # p => page'[q] = page[q]

\* A page opens.
Opens(p) ==
  /\ OnlyPage(p) /\ page[p].is = "none"
  /\ page'[p].is = "open" /\ page'[p].url = NoUrl /\ page'[p].loading

\* A navigation begins, or ends without a commit.
Moves(p) ==
  /\ OnlyPage(p) /\ page'[p].is = page[p].is /\ page'[p].url = page[p].url
  /\ page[p].loading => page'[p].loading
  /\ page'[p].nav # NoUrl => page'[p].loading \/ page'[p].nav = page[p].nav

\* The page shows u: it was loading, unless it showed another one before.
Shows(p, u) ==
  /\ OnlyPage(p) /\ page'[p].is = page[p].is /\ page'[p].url = u
  /\ page'[p].loading = page[p].loading
  /\ page[p].url # NoUrl \/ page[p].nav # NoUrl
  /\ page'[p].nav \in {NoUrl, page[p].nav}

\* The load ends.
Loaded(p) ==
  /\ OnlyPage(p) /\ page'[p].is = page[p].is /\ page'[p].url = page[p].url
  /\ page'[p].nav = NoUrl

\* The page goes.
Goes(p) ==
  /\ OnlyPage(p) /\ page'[p].is = "gone" /\ page'[p].url = page[p].url
  /\ page'[p].loading = page[p].loading /\ page'[p].nav = page[p].nav

\* A change of some members of one page, by what it leaves.
LEMMA PageFields ==
  ASSUME page \in [Page -> PageStates], NEW p \in Page,
         NEW u \in Url \cup {NoUrl}
  PROVE  /\ page' = [page EXCEPT ![p] = Loading(u)] /\ page[p].is = "none" => Opens(p)
         /\ page' = [page EXCEPT ![p].nav = u, ![p].loading = TRUE] => Moves(p)
         /\ page' = [page EXCEPT ![p].nav = NoUrl] => Moves(p)
         /\ page' = [page EXCEPT ![p].live = FALSE] => Moves(p)
         /\ page' = page => Moves(p)
         /\ page' = [page EXCEPT ![p].url = u] /\ page[p].url # NoUrl => Shows(p, u)
         /\ page' = [page EXCEPT ![p].url = u, ![p].nav = NoUrl, ![p].live = TRUE]
              /\ page[p].nav # NoUrl => Shows(p, u)
         /\ page' = [page EXCEPT ![p].loading = FALSE] /\ page[p].nav = NoUrl => Loaded(p)
         /\ page' = [page EXCEPT ![p].is = "gone", ![p].live = FALSE] => Goes(p)
<1>1. page[p] \in PageStates /\ DOMAIN page = Page
  OBVIOUS
<1>2. page' = [page EXCEPT ![p] = Loading(u)] /\ page[p].is = "none" => Opens(p)
  BY DEF Loading, Opens, OnlyPage
<1>3. page' = [page EXCEPT ![p].nav = u, ![p].loading = TRUE] => Moves(p)
  BY <1>1 DEF PageStates, Moves, OnlyPage
<1>4. /\ page' = [page EXCEPT ![p].nav = NoUrl] => Moves(p)
      /\ page' = [page EXCEPT ![p].live = FALSE] => Moves(p)
      /\ page' = page => Moves(p)
  BY <1>1 DEF PageStates, Moves, OnlyPage
<1>5. page' = [page EXCEPT ![p].url = u] /\ page[p].url # NoUrl => Shows(p, u)
  BY <1>1 DEF PageStates, Shows, OnlyPage
<1>6. page' = [page EXCEPT ![p].url = u, ![p].nav = NoUrl, ![p].live = TRUE]
        /\ page[p].nav # NoUrl => Shows(p, u)
  BY <1>1 DEF PageStates, Shows, OnlyPage
<1>7. page' = [page EXCEPT ![p].loading = FALSE] /\ page[p].nav = NoUrl => Loaded(p)
  BY <1>1 DEF PageStates, Loaded, OnlyPage
<1>8. page' = [page EXCEPT ![p].is = "gone", ![p].live = FALSE] => Goes(p)
  BY <1>1 DEF PageStates, Goes, OnlyPage
<1> QED
  BY <1>2, <1>3, <1>4, <1>5, <1>6, <1>7, <1>8

\* Everything but the page it happens to, and its lists, is as it was.
Aside ==
  UNCHANGED <<answerVars, on, timers, check, seen, crashed>>

\* Nobody is told.
Untold == UNCHANGED <<watchers, notice>>

\* An event of a page is one of these.
PageEffect(p) ==
  \/ Opens(p) /\ Untold /\ UNCHANGED <<instrumented, captured, visited, replies>>
  \/ Moves(p) /\ Untold /\ UNCHANGED <<instrumented, captured, visited>>
       /\ \A o \in Op : replies'[o] \subseteq replies[o]
  \/ /\ \E u \in Url, bad \in BOOLEAN :
          Shows(p, u) /\ Tell(p, "finished", u, bad) /\ Show(p, u)
     /\ p \in Open /\ Instrument(p) /\ UNCHANGED <<watchers, instrumented, replies>>
  \/ /\ Loaded(p) /\ p \in Open /\ Tell(p, "stopped", page[p].url, FALSE)
     /\ UNCHANGED <<watchers, instrumented, captured, visited, replies>>
  \/ /\ page' = page /\ p \in Open /\ Tell(p, "failed", page[p].url, TRUE)
     /\ UNCHANGED <<watchers, instrumented, captured, visited, replies>>
  \/ /\ Goes(p) /\ p \in Open /\ Tell(p, "destroyed", page[p].url, TRUE)
     /\ watchers' = [watchers EXCEPT ![p] = <<>>]
     /\ instrumented' = instrumented \ {p} /\ captured' = captured \ {p}
     /\ UNCHANGED visited
     /\ \A o \in Op : replies'[o] \subseteq replies[o]

\* Each event of a page has such an effect.
LEMMA PageEventEffect ==
  ASSUME IInv, NEW p \in Page, PageEvent(p)
  PROVE  Quiet /\ Aside /\ PageEffect(p)
<1>1. /\ page \in [Page -> PageStates] /\ page[p].url \in Url \cup {NoUrl}
      /\ replies \in [Op -> SUBSET {"js", "snap", "cookies"}]
  BY PageUrl DEF IInv, TypeOK
<1>2. Quiet /\ Aside
  BY DEF PageEvent, PageGivesUp, PageStops, PageFails, RendererGone,
         PageDestroyed, PageOpens, PageNavigates, PageMovesInDocument,
         PageCommits, objectVars, Aside
<1>3. CASE PageGivesUp(p)
  <2>1. Moves(p)
    BY <1>1, <1>3, PageFields DEF PageGivesUp
  <2> QED
    BY <1>2, <1>3, <2>1 DEF PageGivesUp, PageEffect, Untold, objectVars
<1>4. CASE PageStops(p)
  <2>1. Loaded(p)
    BY <1>1, <1>4, PageFields DEF PageStops
  <2> QED
    BY <1>2, <1>4, <2>1 DEF PageStops, PageEffect, objectVars
<1>5. CASE PageFails(p)
  BY <1>2, <1>5 DEF PageFails, PageEffect, objectVars
<1>6. CASE RendererGone(p)
  <2>1. Moves(p)
    BY <1>1, <1>6, PageFields DEF RendererGone
  <2>2. \A o \in Op : replies'[o] \subseteq replies[o]
    BY <1>1, <1>6 DEF RendererGone
  <2> QED
    BY <1>2, <1>6, <2>1, <2>2 DEF RendererGone, PageEffect, Untold
<1>7. CASE PageDestroyed(p)
  <2>1. Goes(p)
    BY <1>1, <1>7, PageFields DEF PageDestroyed
  <2>2. \A o \in Op : replies'[o] \subseteq replies[o]
    BY <1>1, <1>7 DEF PageDestroyed
  <2> QED
    BY <1>2, <1>7, <2>1, <2>2 DEF PageDestroyed, PageEffect
<1>8. ASSUME NEW u \in Url, PageOpens(p, u) PROVE PageEffect(p)
  <2>1. Opens(p)
    BY <1>1, <1>8, PageFields DEF PageOpens
  <2> QED
    BY <1>8, <2>1 DEF PageOpens, PageEffect, Untold, objectVars
<1>9. ASSUME NEW u \in Url, PageNavigates(p, u) PROVE PageEffect(p)
  <2>1. Moves(p)
    BY <1>1, <1>9, PageFields DEF PageNavigates, Navigating
  <2> QED
    BY <1>9, <2>1 DEF PageNavigates, PageEffect, Untold, objectVars
<1>10. ASSUME NEW u \in Url, PageMovesInDocument(p, u) PROVE PageEffect(p)
  <2>1. Shows(p, u)
    BY <1>1, <1>10, PageFields DEF PageMovesInDocument
  <2> QED
    BY <1>10, <2>1 DEF PageMovesInDocument, PageEffect
<1>11. ASSUME NEW u \in Url, NEW bad \in BOOLEAN, PageCommits(p, u, bad)
       PROVE  PageEffect(p)
  <2>1. Shows(p, u)
    BY <1>1, <1>11, PageFields DEF PageCommits
  <2> QED
    BY <1>11, <2>1 DEF PageCommits, PageEffect
<1> QED
  BY <1>2, <1>3, <1>4, <1>5, <1>6, <1>7, <1>8, <1>9, <1>10, <1>11 DEF PageEvent

-----------------------------------------------------------------------------
(* What operations, handlers, timers and replies do.                       *)

Others(o) == \A q \in Op : q # o => phase'[q] = phase[q] /\ answer'[q] = answer[q]

\* The operation is answered at once; a new page may have opened for it, or one
\* may have begun to load.
Ends(o) ==
  /\ phase[o] = "idle" /\ phase'[o] = "deleted" /\ Others(o)
  /\ Untold /\ UNCHANGED <<captured, objectVars>>
  /\ \/ page' = page /\ instrumented' \in {instrumented, Open}
     \/ \E p \in Page : Moves(p) /\ UNCHANGED instrumented
     \/ \E p \in Page : Opens(p) /\ instrumented' = Open \cup {p}

\* The operation waits, for its page or for an answer.
Waits(o, p) ==
  /\ phase[o] = "idle" /\ phase'[o] = "waiting" /\ Others(o)
  /\ on' = [on EXCEPT ![o] = p]
  /\ seen' = seen /\ captured' = captured
  /\ \A q \in Op : q # o => replies'[q] = replies[q] /\ timers'[q] = timers[q]
  /\ \/ /\ Kind[o] = "navigate" /\ p \in Open /\ Moves(p) /\ Observe(o, p)
        /\ visited' = [visited EXCEPT ![o] = {page[p].url} \ {NoUrl}]
        /\ UNCHANGED instrumented
        /\ replies'[o] = {} /\ timers'[o] = {"navigation"}
     \/ /\ Kind[o] = "create" /\ Opens(p) /\ Observe(o, p)
        /\ instrumented' = Open \cup {p}
        /\ UNCHANGED visited
        /\ replies'[o] = {} /\ timers'[o] = {"navigation"}
     \/ /\ Kind[o] = "reload" /\ p \in Open /\ Moves(p) /\ Observe(o, p)
        /\ page[p].url # NoUrl => page'[p].loading
        /\ UNCHANGED <<instrumented, visited>>
     \/ /\ Kind[o] \notin {"navigate", "create", "reload"} /\ p \in Open
        /\ Untold /\ UNCHANGED <<page, instrumented, visited>>

\* What Wait leaves of the operation, and of the others.
LEMMA WaitEffect ==
  ASSUME IInv, NEW o \in Op, NEW p \in Page, phase[o] = "idle",
         NEW ts, NEW rs, Wait(o, p, ts, rs)
  PROVE  /\ phase'[o] = "waiting" /\ Others(o)
         /\ on' = [on EXCEPT ![o] = p] /\ seen' = seen
         /\ \A q \in Op : q # o => replies'[q] = replies[q] /\ timers'[q] = timers[q]
         /\ replies'[o] = rs /\ timers'[o] = ts
BY DEF Wait, Others, IInv, TypeOK

\* What Answer leaves of the operation, and of the others.
LEMMA AnswerEffect ==
  ASSUME IInv, NEW o \in Op, NEW s, NEW ph, Answer(o, s, ph)
  PROVE  /\ phase'[o] = ph /\ Others(o)
         /\ phase[o] \in {"idle", "waiting"} => answer'[o] = <<s>>
<1>1. phase'[o] = ph /\ Others(o) /\ answer'[o] = Append(answer[o], s)
  BY DEF Answer, Others, IInv, TypeOK
<1>2. Append(<<>>, s) = <<s>>
  OBVIOUS
<1> QED
  BY <1>1, <1>2 DEF IInv, CallbackHeld

\* An operation is answered at once, or waits.
LEMMA OperationEffect ==
  ASSUME IInv, NEW o \in Op, Operation(o)
  PROVE  Ends(o) \/ \E p \in Page : Waits(o, p)
<1> USE DEF Called
<1>p. page \in [Page -> PageStates] /\ Target[o] \in Url \cup {NoUrl}
  BY OpAssumption DEF IInv, TypeOK
<1>1. ASSUME NEW s, phase[o] = "idle", Refuse(o, s) PROVE Ends(o)
  BY <1>1, AnswerEffect DEF Refuse, Ends, Untold, pageVars
<1>2. CASE TabNotFound(o) \/ InvalidArgument(o) \/ NoHistory(o)
  BY <1>1, <1>2 DEF TabNotFound, InvalidArgument, NoHistory
<1>3. CASE CreateTabFails(o)
  BY <1>3, AnswerEffect DEF CreateTabFails, Ends, Untold
<1>4. ASSUME NEW p \in Page, Navigate(o, p) PROVE Waits(o, p)
  <2>1. Moves(p)
    BY <1>4, <1>p, PageFields DEF Navigate, Navigating
  <2> QED
    BY <1>4, <2>1, WaitEffect DEF Navigate, Waits
<1>5. ASSUME NEW p \in Page, CreateTab(o, p) PROVE Ends(o) \/ Waits(o, p)
  <2>1. Opens(p)
    BY <1>5, <1>p, PageFields DEF CreateTab
  <2>2. CASE Target[o] = Blank
    BY <1>5, <2>1, <2>2, AnswerEffect DEF CreateTab, Ends, Untold
  <2>3. CASE Target[o] # Blank
    BY <1>5, <2>1, <2>3, WaitEffect DEF CreateTab, Waits
  <2> QED
    BY <2>2, <2>3
<1>6. ASSUME NEW p \in Page, Reload(o, p) PROVE Waits(o, p)
  <2>1. page[p].url \in Url \cup {NoUrl}
    BY <1>p, PageUrl
  <2>2. CASE page[p].url = NoUrl
    <3>1. Moves(p)
      BY <1>6, <1>p, <2>1, <2>2, PageFields DEF Reload
    <3> QED
      BY <1>6, <2>2, <3>1, WaitEffect DEF Reload, Waits
  <2>3. CASE page[p].url # NoUrl
    <3>1. page' = Navigating(p, page[p].url)
      BY <1>6, <2>3 DEF Reload
    <3>2. Moves(p) /\ page'[p].loading
      BY <1>p, <2>1, <3>1, PageFields DEF Navigating, PageStates
    <3> QED
      BY <1>6, <3>2, WaitEffect DEF Reload, Waits
  <2> QED
    BY <2>2, <2>3
<1>7. ASSUME NEW p \in Page, p \in Open, NEW ts, NEW rs, phase[o] = "idle",
             Wait(o, p, ts, rs), UNCHANGED <<check, visited, pageVars>>,
             Kind[o] \notin {"navigate", "create", "reload"}
      PROVE  Waits(o, p)
  BY <1>7, WaitEffect DEF Waits, Untold, pageVars
<1>8. ASSUME NEW p \in Page, Evaluate(o, p) \/ Screenshot(o, p) \/ Cookies(o, p)
      PROVE  Ends(o) \/ Waits(o, p)
  BY <1>8, <1>1, <1>7 DEF Evaluate, Screenshot, Cookies
<1>9. ASSUME NEW p \in Page, NEW u \in Url, NavigateHistory(o, p, u) PROVE Ends(o)
  <2>1. Moves(p)
    BY <1>9, <1>p, PageFields DEF NavigateHistory, Navigating
  <2> QED
    BY <1>9, <2>1, AnswerEffect DEF NavigateHistory, Ends, Untold
<1> QED
  BY <1>2, <1>3, <1>4, <1>5, <1>6, <1>8, <1>9 DEF Operation

\* A handler or a timer of o may complete it, with s, and never observes more.
\* A navigation is completed well only when it is marked as seen, and marked
\* only when its page shows what was requested.
Handles(o, s) ==
  /\ UNCHANGED <<page, on, captured, visited, replies>>
  /\ instrumented' \in {instrumented, Open}
  /\ \A q \in Op : timers'[q] \subseteq timers[q]
  /\ Others(o)
  /\ \/ phase'[o] = phase[o] /\ answer'[o] = answer[o]
     \/ /\ phase[o] = "waiting" /\ phase'[o] \in {"completed", "deleted"}
        /\ answer'[o] = <<s>>
        /\ Navigation(o) /\ s = "ok" => o \in seen'
  /\ \A p \in Page, q \in Op : Contains(watchers'[p], q) => Contains(watchers[p], q)
  /\ \A p \in Page, q \in Op :
       Contains(watchers[p], q) => Contains(watchers'[p], q) \/ (q = o /\ phase'[o] # "waiting")
  /\ seen' \subseteq seen \cup {o}
  /\ o \in seen' =>
       o \in seen \/ (phase[o] # "idle" /\ IsRequestedNavigation(o, page[on[o]].url))

\* Completing takes o's object off its page's list, and no other.
LEMMA WithoutObserver ==
  ASSUME IInv, NEW o \in Op, watchers' = [watchers EXCEPT ![on[o]] = Without(@, o)]
  PROVE  /\ \A p \in Page, q \in Op : Contains(watchers'[p], q) => Contains(watchers[p], q)
         /\ \A p \in Page, q \in Op :
              Contains(watchers[p], q) => Contains(watchers'[p], q) \/ q = o
<1> SUFFICES ASSUME NEW p \in Page, NEW q \in Op
             PROVE  /\ Contains(watchers'[p], q) => Contains(watchers[p], q)
                    /\ Contains(watchers[p], q) => Contains(watchers'[p], q) \/ q = o
  OBVIOUS
<1>1. watchers[p] \in Seq(Op) /\ watchers \in [Page -> Seq(Op)]
  BY DEF IInv, TypeOK
<1>2. watchers'[p] = watchers[p] \/ watchers'[p] = Without(watchers[p], o)
  BY <1>1
<1> QED
  BY <1>1, <1>2, WithoutContains

\* What CompleteNavigation leaves.
LEMMA CompleteEffect ==
  ASSUME IInv, NEW o \in Op, NEW s \in Statuses, CompleteNavigation(o, s)
  PROVE  /\ Others(o) /\ phase'[o] # "waiting"
         /\ \/ phase'[o] = phase[o] /\ answer'[o] = answer[o]
            \/ phase[o] = "waiting" /\ phase'[o] = "completed" /\ answer'[o] = <<s>>
         /\ \A q \in Op : timers'[q] \subseteq timers[q]
         /\ \A p \in Page, q \in Op : Contains(watchers'[p], q) => Contains(watchers[p], q)
         /\ \A p \in Page, q \in Op :
              Contains(watchers[p], q) => Contains(watchers'[p], q) \/ q = o
<1>1. \A q \in Op : timers'[q] \subseteq timers[q]
  BY DEF CompleteNavigation, IInv, TypeOK
<1>2. Complete(o, s) /\ watchers' = [watchers EXCEPT ![on[o]] = Without(@, o)]
  BY DEF CompleteNavigation
<1>3. /\ \A p \in Page, q \in Op : Contains(watchers'[p], q) => Contains(watchers[p], q)
      /\ \A p \in Page, q \in Op :
           Contains(watchers[p], q) => Contains(watchers'[p], q) \/ q = o
  BY <1>2, WithoutObserver
<1>4. CASE phase[o] = "waiting"
  <2>1. Answer(o, s, "completed")
    BY <1>2, <1>4 DEF Complete
  <2>2. /\ Others(o) /\ phase'[o] = "completed" /\ answer'[o] = <<s>>
    BY <1>4, <2>1, AnswerEffect
  <2> QED
    BY <1>1, <1>3, <1>4, <2>2
<1>5. CASE phase[o] # "waiting"
  <2>1. UNCHANGED answerVars
    BY <1>2, <1>5 DEF Complete
  <2> QED
    BY <1>1, <1>3, <1>5, <2>1 DEF answerVars, Others
<1> QED
  BY <1>4, <1>5

\* An observer hears of the event, and has no more to hear of it.
Hears(o) ==
  /\ notice.left # <<>> /\ o = Head(notice.left)
  /\ notice' = [notice EXCEPT !.left = Tail(@)]
  /\ notice.event = "destroyed" /\ Navigation(o) => phase'[o] # "waiting"
  /\ notice.event = "stopped" /\ Kind[o] = "reload" => phase'[o] # "waiting"

\* Telling an observer is one of the handlers.
LEMMA TellNextEffect ==
  ASSUME IInv, Observers, Arrivals, TellNext
  PROVE  \E o \in Op, s \in Statuses : Hears(o) /\ Handles(o, s)
<1>1. notice.left \in Seq(Op) /\ notice.left # <<>>
  BY DEF TellNext, IInv, TypeOK
<1>2. PICK o \in Op : o = Head(notice.left)
  BY <1>1
<1>3. on[o] = notice.page /\ phase[o] # "idle"
  BY <1>1, <1>2, TailContains DEF Observers, ToBeTold
<1>4. /\ notice' = [notice EXCEPT !.left = Tail(@)]
      /\ RefreshAfter(o)
      /\ UNCHANGED <<page, captured, on, replies, check, visited, crashed>>
      /\ IF Kind[o] = "reload" THEN ReloadWaiterTold(o)
         ELSE \/ notice.event = "finished" /\ DidFinishNavigation(o)
              \/ notice.event = "stopped" /\ DidStopLoading(o)
              \/ notice.event = "failed" /\ DidFailLoad(o)
              \/ notice.event = "destroyed" /\ WebContentsDestroyed(o)
  BY <1>2 DEF TellNext
<1>5. instrumented' \in {instrumented, Open}
  BY <1>4 DEF RefreshAfter
<1>6. ASSUME UNCHANGED answerVars, watchers' = watchers, timers' = timers, seen' = seen,
             notice.event \notin {"destroyed"} \/ Kind[o] = "reload",
             notice.event \notin {"stopped"} \/ Kind[o] # "reload" \/ phase[o] # "waiting"
      PROVE  Hears(o) /\ Handles(o, "ok")
  BY <1>1, <1>2, <1>4, <1>5, <1>6 DEF Hears, Handles, Others, answerVars, Navigation
<1>7. ASSUME NEW s \in Statuses, CompleteNavigation(o, s),
             seen' \in {seen, seen \cup {o}}, s = "ok" => o \in seen',
             o \in seen' => o \in seen \/ IsRequestedNavigation(o, page[on[o]].url)
      PROVE  Hears(o) /\ Handles(o, s)
  BY <1>1, <1>2, <1>3, <1>4, <1>5, <1>7, CompleteEffect DEF Hears, Handles
<1>8. CASE Kind[o] = "reload"
  <2>1. ReloadWaiterTold(o)
    BY <1>4, <1>8
  <2>2. CASE notice.event # "stopped"
    <3>1. UNCHANGED <<answerVars, watchers, timers, seen>>
      BY <2>1, <2>2 DEF ReloadWaiterTold
    <3> QED
      BY <1>6, <1>8, <2>2, <3>1 DEF Statuses
  <2>3. CASE notice.event = "stopped"
    <3>1. /\ UNCHANGED <<timers, seen>>
          /\ \A p \in Page, q \in Op : Contains(watchers'[p], q) => Contains(watchers[p], q)
          /\ \A p \in Page, q \in Op :
               Contains(watchers[p], q) => Contains(watchers'[p], q) \/ q = o
      BY <2>1, <2>3, WithoutObserver DEF ReloadWaiterTold
    <3>2. /\ Others(o) /\ phase'[o] # "waiting"
          /\ \/ phase'[o] = phase[o] /\ answer'[o] = answer[o]
             \/ phase[o] = "waiting" /\ phase'[o] = "deleted" /\ answer'[o] = <<"ok">>
      <4>1. CASE phase[o] = "waiting"
        BY <2>1, <2>3, <4>1, AnswerEffect DEF ReloadWaiterTold
      <4>2. CASE phase[o] # "waiting"
        BY <2>1, <2>3, <4>2 DEF ReloadWaiterTold, answerVars, Others
      <4> QED
        BY <4>1, <4>2
    <3>3. Hears(o)
      BY <1>1, <1>2, <1>4, <3>2 DEF Hears
    <3>4. Handles(o, "ok")
      BY <1>4, <1>5, <1>8, <3>1, <3>2 DEF Handles, Navigation
    <3> QED
      BY <3>3, <3>4 DEF Statuses
  <2> QED
    BY <1>2, <2>2, <2>3 DEF Statuses
<1>9. CASE Kind[o] # "reload" /\ notice.event = "finished" /\ DidFinishNavigation(o)
  <2>1. notice.url = page[on[o]].url
    BY <1>3, <1>9 DEF Arrivals
  <2>2. CASE StillWaiting /\ UNCHANGED seen
    BY <1>6, <1>9, <2>2 DEF StillWaiting, Statuses
  <2>3. CASE StillWaiting /\ seen' = seen \cup {o} /\ IsRequestedNavigation(o, notice.url)
    BY <1>1, <1>2, <1>3, <1>4, <1>5, <1>9, <2>1, <2>3 DEF StillWaiting, answerVars, Hears,
       Handles, Others, Statuses
  <2>4. ASSUME NEW s \in Statuses, CompleteNavigation(o, s), seen' = seen \cup {o},
               IsRequestedNavigation(o, notice.url)
        PROVE  Hears(o) /\ Handles(o, s)
    BY <1>7, <2>1, <2>4
  <2> QED
    BY <1>9, <2>2, <2>3, <2>4 DEF DidFinishNavigation, OnArrival, Statuses
<1>10. CASE Kind[o] # "reload" /\ notice.event = "stopped" /\ DidStopLoading(o)
  BY <1>3, <1>6, <1>7, <1>10 DEF DidStopLoading, StillWaiting, OnArrival, Statuses
<1>11. CASE Kind[o] # "reload" /\ notice.event = "failed" /\ DidFailLoad(o)
  BY <1>6, <1>7, <1>11 DEF DidFailLoad, StillWaiting, Statuses
<1>12. CASE Kind[o] # "reload" /\ notice.event = "destroyed" /\ WebContentsDestroyed(o)
  BY <1>7, <1>12 DEF WebContentsDestroyed, Statuses
<1> QED
  BY <1>4, <1>8, <1>9, <1>10, <1>11, <1>12

\* The posted check and the timer of a navigation; nobody is told anything.
LEMMA TaskEffect ==
  ASSUME IInv, NEW o \in Op, CheckCurrentState(o) \/ NavigationTimeout(o)
  PROVE  notice' = notice /\ Quiet /\ \E s \in Statuses : Handles(o, s)
<1>1. CASE NavigationTimeout(o)
  <2>1. CompleteNavigation(o, "timeout") /\ "timeout" \in Statuses
    BY <1>1 DEF NavigationTimeout, Statuses
  <2>2. Handles(o, "timeout")
    BY <1>1, <2>1, CompleteEffect DEF NavigationTimeout, Handles
  <2> QED
    BY <1>1, <2>1, <2>2 DEF NavigationTimeout
<1>2. CASE CheckCurrentState(o)
  <2>1. /\ Quiet /\ RefreshAfter(o)
        /\ UNCHANGED <<page, notice, captured, on, replies, visited, crashed>>
    BY <1>2 DEF CheckCurrentState
  <2>2. instrumented' \in {instrumented, Open}
    BY <2>1 DEF RefreshAfter
  <2>3. CASE StillWaiting /\ (seen' = seen \/ /\ seen' = seen \cup {o}
                                              /\ phase[o] = "waiting"
                                              /\ IsRequestedNavigation(o, page[on[o]].url))
    BY <2>1, <2>2, <2>3 DEF StillWaiting, answerVars, Handles, Others, Statuses
  <2>4. ASSUME NEW s \in Statuses, CompleteNavigation(o, s), seen' = seen \cup {o},
               phase[o] = "waiting", IsRequestedNavigation(o, page[on[o]].url)
        PROVE  Handles(o, s)
    BY <2>1, <2>2, <2>4, CompleteEffect DEF Handles
  <2> QED
    BY <1>2, <2>1, <2>3, <2>4 DEF CheckCurrentState, OnArrival, Statuses
<1> QED
  BY <1>1, <1>2

\* Nothing of this concerns a page or a navigation that still waits.
Settles ==
  /\ UNCHANGED <<page, watchers, on, captured>>
  /\ notice' = notice \/ (notice' = NoNotice /\ notice.left = <<>>)
  /\ instrumented' \in {instrumented, Open}
  /\ seen' \subseteq seen
  /\ \A q \in Op :
       /\ phase[q] # "idle" => phase'[q] # "idle"
       /\ phase'[q] = "waiting" => phase[q] = "waiting"
       /\ phase'[q] \in {"waiting", "completed"} => visited'[q] = visited[q]
       /\ Navigation(q) =>
            /\ phase'[q] = "completed" => phase[q] = "completed" /\ answer'[q] = answer[q]
            /\ replies'[q] = {} /\ timers'[q] \subseteq {"navigation"}

\* The remaining steps settle something.
LEMMA SettleEffect ==
  ASSUME IInv, Arrivals,
         \/ AllTold \/ RefreshSharedRuntimeBehavior
         \/ \E o \in Op : \/ EvaluationTimeout(o) \/ ReadbackTimeout(o) \/ DeleteObject(o)
                          \/ \E r \in {"js", "snap", "cookies"} : Reply(o, r)
  PROVE  Settles
<1>t. /\ phase \in [Op -> {"idle", "waiting", "completed", "deleted"}]
      /\ timers \in [Op -> SUBSET {"navigation", "evaluation", "readback"}]
      /\ replies \in [Op -> SUBSET {"js", "snap", "cookies"}]
      /\ visited \in [Op -> SUBSET Url]
  BY DEF IInv, TypeOK
<1>a. \A q \in Op : Navigation(q) => replies[q] = {} /\ timers[q] \subseteq {"navigation"}
  BY DEF Arrivals
<1>1. CASE AllTold \/ RefreshSharedRuntimeBehavior
  BY <1>1, <1>a DEF AllTold, RefreshSharedRuntimeBehavior, objectVars, answerVars, Settles
<1>2. ASSUME NEW o \in Op, DeleteObject(o) PROVE Settles
  BY <1>2, <1>t, <1>a DEF DeleteObject, pageVars, Settles
<1>3. ASSUME NEW o \in Op, ~Navigation(o), UNCHANGED <<pageVars, on, check, seen, visited>>,
             \A q \in Op : q # o => timers'[q] = timers[q] /\ replies'[q] = replies[q],
             UNCHANGED answerVars \/ \E s \in Statuses : Complete(o, s)
      PROVE  Settles
  <2>1. Others(o) /\ (phase'[o] = phase[o] \/ (phase[o] = "waiting" /\ phase'[o] = "completed"))
    <3>1. CASE UNCHANGED answerVars
      BY <3>1 DEF answerVars, Others
    <3>2. ASSUME NEW s \in Statuses, Complete(o, s), phase[o] = "waiting"
          PROVE  Others(o) /\ phase'[o] = "completed"
      BY <3>2, AnswerEffect DEF Complete
    <3>3. ASSUME NEW s \in Statuses, Complete(o, s), phase[o] # "waiting"
          PROVE  UNCHANGED answerVars
      BY <3>3 DEF Complete
    <3> QED
      BY <1>3, <3>1, <3>2, <3>3 DEF answerVars, Others
  <2> QED
    BY <1>3, <1>a, <2>1 DEF Settles, Others, pageVars
<1>4. ASSUME NEW o \in Op, EvaluationTimeout(o) PROVE Settles
  <2>1. ~Navigation(o)
    BY <1>4, <1>a DEF EvaluationTimeout
  <2> QED
    BY <1>3, <1>4, <1>t, <2>1 DEF EvaluationTimeout, Statuses
<1>5. ASSUME NEW o \in Op, ReadbackTimeout(o) PROVE Settles
  <2>1. ~Navigation(o)
    BY <1>5, <1>a DEF ReadbackTimeout
  <2>2. /\ \A q \in Op : q # o => timers'[q] = timers[q] /\ replies'[q] = replies[q]
        /\ UNCHANGED <<pageVars, on, check, seen, visited>>
    BY <1>5, <1>t DEF ReadbackTimeout
  <2>3. UNCHANGED answerVars \/ \E s \in Statuses : Complete(o, s)
    BY <1>5 DEF ReadbackTimeout, Statuses
  <2> QED
    BY <1>3, <2>1, <2>2, <2>3
<1>6. ASSUME NEW o \in Op, NEW r \in {"js", "snap", "cookies"}, Reply(o, r) PROVE Settles
  <2>1. ~Navigation(o)
    BY <1>6, <1>a DEF Reply
  <2>2. \A q \in Op : q # o => timers'[q] = timers[q] /\ replies'[q] = replies[q]
    <3> DEFINE stopped == CASE r = "js" -> {"evaluation"}
                            [] r = "snap" -> {"readback"}
                            [] OTHER -> {}
    <3>1. timers' = [timers EXCEPT ![o] = @ \ stopped]
          /\ replies' = [replies EXCEPT ![o] = @ \ {r}]
      BY <1>6 DEF Reply
    <3> HIDE DEF stopped
    <3> QED
      BY <1>t, <3>1
  <2>3. \E s \in Statuses : Complete(o, s)
    BY <1>6 DEF Reply, Statuses
  <2>4. UNCHANGED <<pageVars, on, check, seen, visited>>
    BY <1>6 DEF Reply
  <2> QED
    BY <1>3, <2>1, <2>2, <2>3, <2>4
<1> QED
  BY <1>1, <1>2, <1>4, <1>5, <1>6

\* Every step but a stuttering one, by its effect.
Effect ==
  \/ \E p \in Page : Quiet /\ Aside /\ PageEffect(p)
  \/ \E o \in Op : Ends(o) \/ \E p \in Page : Waits(o, p)
  \/ \E o \in Op, s \in Statuses : Hears(o) /\ Handles(o, s)
  \/ Quiet /\ notice' = notice /\ \E o \in Op, s \in Statuses : Handles(o, s)
  \/ Settles

\* Every step has one of the effects.
LEMMA NextEffect == ASSUME IInv, Observers, Arrivals, Next PROVE Effect
<1>1. CASE TellNext
  BY <1>1, TellNextEffect DEF Effect
<1>2. ASSUME NEW p \in Page, PageEvent(p) PROVE Effect
  BY <1>2, PageEventEffect DEF Effect
<1>3. ASSUME NEW o \in Op, Operation(o) PROVE Effect
  BY <1>3, OperationEffect DEF Effect
<1>4. ASSUME NEW o \in Op, CheckCurrentState(o) \/ NavigationTimeout(o) PROVE Effect
  BY <1>4, TaskEffect DEF Effect
<1>5. CASE \/ AllTold \/ RefreshSharedRuntimeBehavior
           \/ \E o \in Op : \/ EvaluationTimeout(o) \/ ReadbackTimeout(o) \/ DeleteObject(o)
                            \/ \E r \in {"js", "snap", "cookies"} : Reply(o, r)
  BY <1>5, SettleEffect DEF Effect
<1> QED
  BY <1>1, <1>2, <1>3, <1>4, <1>5 DEF Next, TimerFires


-----------------------------------------------------------------------------
(* Observers.                                                              *)

\* Those that are told of an event are the page's observers.
LEMMA TellLists ==
  ASSUME IInv, NEW p \in Page, NEW e, NEW u, NEW bad, Tell(p, e, u, bad)
  PROVE  /\ \A o \in Op : Contains(notice'.left, o) <=> Contains(watchers[p], o)
         /\ notice'.event # "none" =>
              notice'.page = p /\ notice'.event = e /\ notice'.url = u
         /\ \A o \in Op : Contains(notice'.left, o) =>
              notice'.page = p /\ notice'.event = e /\ notice'.url = u
<1>1. CASE watchers[p] = <<>>
  BY <1>1, EmptyContains DEF Tell, NoNotice
<1>2. CASE watchers[p] # <<>>
  BY <1>2 DEF Tell
<1> QED
  BY <1>1, <1>2

\* A new observer is added to the list of its page, and perhaps to those that are
\* to be told.
LEMMA ObserveLists ==
  ASSUME IInv, NEW o \in Op, NEW p \in Page, Observe(o, p)
  PROVE  /\ \A q \in Page, r \in Op :
              Contains(watchers'[q], r) <=> Contains(watchers[q], r) \/ (q = p /\ r = o)
         /\ notice'.event = notice.event /\ notice'.page = notice.page
         /\ notice'.url = notice.url
         /\ \A r \in Op : Contains(notice.left, r) => Contains(notice'.left, r)
         /\ \A r \in Op : Contains(notice'.left, r) =>
              Contains(notice.left, r) \/ (r = o /\ notice.page = p)
<1>1. /\ watchers \in [Page -> Seq(Op)] /\ notice.left \in Seq(Op)
      /\ notice \in [page : Page \cup {NoPage},
                     event : {"none", "finished", "stopped", "failed", "destroyed"},
                     url : Url \cup {NoUrl}, bad : BOOLEAN, left : Seq(Op)]
  BY DEF IInv, TypeOK
<1>2. watchers' = [watchers EXCEPT ![p] = Append(@, o)]
  BY DEF Observe
<1>3. ASSUME NEW q \in Page, NEW r \in Op
      PROVE  Contains(watchers'[q], r) <=> Contains(watchers[q], r) \/ (q = p /\ r = o)
  <2>1. CASE q = p
    <3>1. watchers'[q] = Append(watchers[q], o) /\ watchers[q] \in Seq(Op)
      BY <1>1, <1>2, <2>1
    <3> QED
      BY <2>1, <3>1, AppendContains
  <2>2. CASE q # p
    BY <1>1, <1>2, <2>2
  <2> QED
    BY <2>1, <2>2
<1>4. \/ notice' = notice
      \/ notice.page = p /\ notice' = [notice EXCEPT !.left = Append(@, o)]
  BY DEF Observe
<1>5. CASE notice' = notice
  BY <1>3, <1>5
<1>6. CASE notice.page = p /\ notice' = [notice EXCEPT !.left = Append(@, o)]
  <2>1. /\ notice'.left = Append(notice.left, o)
        /\ notice'.event = notice.event /\ notice'.page = notice.page
        /\ notice'.url = notice.url
    BY <1>1, <1>6
  <2> QED
    BY <1>1, <1>3, <1>6, <2>1, AppendContains
<1> QED
  BY <1>4, <1>5, <1>6

\* Whoever hears of the event is off the list, and the others stay on it.
LEMMA HearsLists ==
  ASSUME IInv, NEW o \in Op, Hears(o)
  PROVE  /\ notice'.event = notice.event /\ notice'.page = notice.page
         /\ notice'.url = notice.url /\ Contains(notice.left, o)
         /\ \A q \in Op : Contains(notice'.left, q) => Contains(notice.left, q)
         /\ \A q \in Op : Contains(notice.left, q) => q = o \/ Contains(notice'.left, q)
<1>1. /\ notice.left \in Seq(Op) /\ notice.left # <<>>
      /\ notice \in [page : Page \cup {NoPage},
                     event : {"none", "finished", "stopped", "failed", "destroyed"},
                     url : Url \cup {NoUrl}, bad : BOOLEAN, left : Seq(Op)]
  BY DEF Hears, IInv, TypeOK
<1>2. /\ notice'.left = Tail(notice.left)
      /\ notice'.event = notice.event /\ notice'.page = notice.page
      /\ notice'.url = notice.url
  BY <1>1 DEF Hears
<1> QED
  BY <1>1, <1>2, TailContains DEF Hears

\* When the thread is quiet no page tells of an event.
LEMMA QuietLists ==
  ASSUME Quiet
  PROVE  notice.event = "none" /\ notice.left = <<>> /\ notice.page = NoPage
BY DEF Quiet, NoNotice

\* What an answer or a wait does to pages: one opens, or one moves, or none.
PageAside ==
  \/ page' = page
  \/ \E p \in Page : Moves(p)
  \/ \E p \in Page : Opens(p)

\* Effects that concern observers leave it to the pages to open and close.
LEMMA EffectPages ==
  ASSUME IInv, Effect
  PROVE  \/ \E p \in Page : Quiet /\ Aside /\ PageEffect(p)
         \/ PageAside
BY DEF Effect, Ends, Waits, Handles, Settles, PageAside

\* Pages that have opened stay opened.
LEMMA ResolvedKept ==
  ASSUME IInv, Resolved, Effect PROVE Resolved'
<1>p. page \in [Page -> PageStates]
  BY DEF IInv, TypeOK
<1>1. \A p \in Page : page[p].is # "none" => page'[p].is # "none"
  <2>1. ASSUME NEW p \in Page, PageEffect(p)
        PROVE  \A q \in Page : page[q].is # "none" => page'[q].is # "none"
    BY <2>1 DEF PageEffect, OnlyPage, Opens, Moves, Shows, Loaded, Goes
  <2>2. ASSUME PageAside
        PROVE  \A q \in Page : page[q].is # "none" => page'[q].is # "none"
    BY <2>2 DEF PageAside, OnlyPage, Opens, Moves
  <2> QED
    BY <2>1, <2>2, EffectPages
<1>n. notice.event # "none" => notice.page \in Page
  BY DEF IInv, TypeOK
<1>2. ASSUME NEW p \in Page, Quiet, Aside, PageEffect(p) PROVE Resolved'
  <2>1. on' = on
    BY <1>2 DEF Aside
  <2>2. notice'.event # "none" => notice'.page = p /\ p \in Open
    <3>1. CASE Untold
      BY <1>2, <3>1, QuietLists DEF Untold
    <3>2. ASSUME NEW e, NEW u, NEW bad, Tell(p, e, u, bad), p \in Open
          PROVE  notice'.event # "none" => notice'.page = p /\ p \in Open
      BY <3>2, TellLists
    <3> QED
      BY <1>2, <3>1, <3>2 DEF PageEffect
  <2>3. p \in Open => page[p].is # "none"
    BY DEF Open
  <2> QED
    BY <1>1, <2>1, <2>2, <2>3 DEF Resolved
<1>3. ASSUME NEW o \in Op, Ends(o) PROVE Resolved'
  <2>1. on' = on /\ notice' = notice
    BY <1>3 DEF Ends, Untold, objectVars
  <2> QED
    BY <1>1, <1>n, <2>1 DEF Resolved
<1>4. ASSUME NEW o \in Op, NEW p \in Page, Waits(o, p) PROVE Resolved'
  <2>1. page'[p].is # "none"
    BY <1>1, <1>4 DEF Waits, Opens, Open
  <2>2. on' = [on EXCEPT ![o] = p] /\ on \in [Op -> Page \cup {NoPage}]
    BY <1>4 DEF Waits, IInv, TypeOK
  <2>3. notice'.event = notice.event /\ notice'.page = notice.page
    BY <1>4, ObserveLists DEF Waits, Untold
  <2> QED
    BY <1>1, <1>n, <2>1, <2>2, <2>3 DEF Resolved
<1>5. ASSUME NEW o \in Op, NEW s, Handles(o, s), Hears(o) \/ notice' = notice
      PROVE  Resolved'
  <2>1. on' = on /\ notice'.event = notice.event /\ notice'.page = notice.page
    BY <1>5, HearsLists DEF Handles
  <2> QED
    BY <1>1, <1>n, <2>1 DEF Resolved
<1>6. CASE Settles
  <2>1. on' = on /\ (notice' = notice \/ notice'.event = "none")
    BY <1>6 DEF Settles, NoNotice
  <2> QED
    BY <1>1, <1>n, <2>1 DEF Resolved
<1> QED
  BY <1>2, <1>3, <1>4, <1>5, <1>6 DEF Effect

\* A page that is open now was open before, or had never been.
LEMMA OpenedFresh ==
  ASSUME IInv, Effect, NEW p \in Page, page'[p].is = "open"
  PROVE  p \in Open \/ page[p].is = "none"
<1>1. ASSUME NEW q \in Page, PageEffect(q) PROVE p \in Open \/ page[p].is = "none"
  BY <1>1 DEF PageEffect, OnlyPage, Opens, Moves, Shows, Loaded, Goes, Open
<1>2. ASSUME PageAside PROVE p \in Open \/ page[p].is = "none"
  BY <1>2 DEF PageAside, OnlyPage, Opens, Moves, Open
<1> QED
  BY <1>1, <1>2, EffectPages

\* A waiter whose page is open had that page before.
LEMMA WaiterPage ==
  ASSUME IInv, Resolved, Effect, NEW o \in Op, on'[o] = on[o],
         on[o] \in Page, page'[on[o]].is = "open"
  PROVE  on[o] \in Open
BY OpenedFresh DEF Resolved

\* An event of a page keeps its observers, or ends them all with it.
LEMMA ObserversPage ==
  ASSUME IInv, Observers, Resolved, Effect, NEW p \in Page,
         Quiet, Aside, PageEffect(p)
  PROVE  Observers'
<1>1. on' = on /\ phase' = phase
  BY DEF Aside, answerVars
<1>2. CASE Untold
  BY <1>1, <1>2, WaiterPage DEF Observers, Watched, ToBeTold, Watching, Waiter, Untold,
     Open
<1>3. ASSUME NEW e, NEW u, NEW bad, Tell(p, e, u, bad)
      PROVE  ToBeTold'
  BY <1>1, <1>3, TellLists DEF Observers, Watched, ToBeTold
<1>4. ASSUME watchers' = watchers PROVE Watched' /\ Watching'
  BY <1>1, <1>4, WaiterPage DEF Observers, Watched, Watching, Waiter, Open
<1>5. ASSUME Goes(p), watchers' = [watchers EXCEPT ![p] = <<>>]
      PROVE  Watched' /\ Watching'
  <2>1. \A q \in Page : watchers'[q] = IF q = p THEN <<>> ELSE watchers[q]
    BY <1>5 DEF IInv, TypeOK
  <2>2. Watched'
    BY <1>1, <2>1, EmptyContains DEF Observers, Watched
  <2>3. p \notin Open'
    BY <1>5 DEF Goes, Open
  <2>4. Watching'
    BY <1>1, <1>4, <2>1, <2>3, WaiterPage DEF Observers, Watching, Waiter, Open
  <2> QED
    BY <2>2, <2>4
<1> QED
  BY <1>2, <1>3, <1>4, <1>5 DEF PageEffect, Observers

\* The newcomer, and nobody else, is added to the lists of its page.
LEMMA ObserversWait ==
  ASSUME IInv, Observers, Resolved, Effect, NEW o \in Op, NEW p \in Page, Waits(o, p)
  PROVE  Observers'
<1>1. /\ phase[o] = "idle" /\ phase'[o] = "waiting"
      /\ \A q \in Op : q # o => phase'[q] = phase[q]
      /\ \A q \in Op : on'[q] = IF q = o THEN p ELSE on[q]
  BY DEF Waits, Others, IInv, TypeOK
<1>2. /\ \A q \in Page : ~Contains(watchers[q], o)
      /\ ~Contains(notice.left, o)
  BY <1>1 DEF Observers, Watched, ToBeTold
<1>3. ASSUME Observe(o, p) PROVE Observers'
  <2>1. Watched'
    BY <1>1, <1>2, <1>3, ObserveLists DEF Observers, Watched
  <2>2. ToBeTold'
    BY <1>1, <1>2, <1>3, ObserveLists DEF Observers, ToBeTold
  <2>3. ASSUME NEW q \in Op, Waiter(q)', on'[q] \in Open'
        PROVE  Contains(watchers'[on'[q]], q)
    <3>1. CASE q = o
      BY <1>1, <1>3, <3>1, ObserveLists
    <3>2. CASE q # o
      <4>1. Waiter(q) /\ on'[q] = on[q] /\ on[q] \in Open
        BY <1>1, <2>3, <3>2, WaiterPage DEF Waiter, Open
      <4> QED
        BY <1>3, <4>1, ObserveLists DEF Observers, Watching, Open
    <3> QED
      BY <3>1, <3>2
  <2> QED
    BY <2>1, <2>2, <2>3 DEF Observers, Watching
<1>4. ASSUME Untold, UNCHANGED page, Kind[o] \notin {"navigate", "create", "reload"}
      PROVE  Observers'
  BY <1>1, <1>2, <1>4 DEF Observers, Watched, ToBeTold, Watching, Waiter, Untold, Open
<1> QED
  BY <1>3, <1>4 DEF Waits

\* Observers are those of operations that were resolved to the page, after every
\* step.
LEMMA ObserversKept ==
  ASSUME IInv, Observers, Resolved, Effect PROVE Observers'
<1>1. ASSUME NEW p \in Page, Quiet, Aside, PageEffect(p) PROVE Observers'
  BY <1>1, ObserversPage
<1>2. ASSUME NEW o \in Op, Ends(o) PROVE Observers'
  <2>1. /\ on' = on /\ notice' = notice /\ watchers' = watchers
        /\ phase[o] = "idle" /\ phase'[o] = "deleted"
        /\ \A q \in Op : q # o => phase'[q] = phase[q]
    BY <1>2 DEF Ends, Untold, objectVars, Others
  <2>2. \A q \in Op : Waiter(q)' => Waiter(q)
    BY <2>1 DEF Waiter
  <2>3. \A q \in Op : phase[q] # "idle" => phase'[q] # "idle"
    BY <2>1
  <2>4. \A q \in Op : on[q] \in Open' => on[q] \in Open
    BY <2>1, WaiterPage DEF Open
  <2> QED
    BY <2>1, <2>2, <2>3, <2>4 DEF Observers, Watched, ToBeTold, Watching
<1>3. ASSUME NEW o \in Op, NEW p \in Page, Waits(o, p) PROVE Observers'
  BY <1>3, ObserversWait
<1>4. ASSUME NEW o \in Op, NEW s, Handles(o, s), Hears(o) \/ notice' = notice
      PROVE  Observers'
  <2>1. /\ on' = on /\ page' = page /\ notice'.page = notice.page
        /\ \A q \in Op : Contains(notice'.left, q) => Contains(notice.left, q)
    BY <1>4, HearsLists DEF Handles
  <2>2. /\ \A q \in Op : phase[q] # "idle" => phase'[q] # "idle"
        /\ \A q \in Op : phase'[q] = "waiting" => phase[q] = "waiting"
        /\ \A p \in Page, q \in Op : Contains(watchers'[p], q) => Contains(watchers[p], q)
        /\ \A p \in Page, q \in Op : Contains(watchers[p], q) /\ phase'[q] = "waiting" =>
             Contains(watchers'[p], q)
    BY <1>4 DEF Handles, Others
  <2>3. Watched' /\ ToBeTold'
    BY <2>1, <2>2 DEF Observers, Watched, ToBeTold
  <2>4. Watching'
    BY <2>1, <2>2 DEF Observers, Watching, Waiter, Open
  <2> QED
    BY <2>3, <2>4 DEF Observers
<1>5. CASE Settles
  <2>1. /\ on' = on /\ page' = page /\ watchers' = watchers
        /\ notice' = notice \/ notice'.left = <<>>
        /\ \A q \in Op : phase[q] # "idle" => phase'[q] # "idle"
        /\ \A q \in Op : phase'[q] = "waiting" => phase[q] = "waiting"
    BY <1>5 DEF Settles, NoNotice
  <2> QED
    BY <2>1, EmptyContains DEF Observers, Watched, ToBeTold, Watching, Waiter, Open
<1> QED
  BY <1>1, <1>2, <1>3, <1>4, <1>5 DEF Effect

-----------------------------------------------------------------------------
(* Navigations and the end of their page.                                  *)

\* A navigation that waits on a page that is not open is about to hear of its
\* end; kept by the steps that leave pages open and take nobody off the list.
LEMMA EndedKept ==
  ASSUME IInv, NavigationEndsWithPage,
         \A o \in Op : phase'[o] = "waiting" /\ Navigation(o) /\ on'[o] \notin Open' =>
           phase[o] = "waiting" /\ on'[o] = on[o] /\ on[o] \notin Open,
         notice'.event = notice.event, notice'.page = notice.page,
         \A o \in Op : phase'[o] = "waiting" /\ Navigation(o) /\ notice.event = "destroyed"
           /\ Contains(notice.left, o) => Contains(notice'.left, o)
  PROVE  NavigationEndsWithPage'
BY DEF NavigationEndsWithPage, Navigation

\* Navigations on a page that goes are told, and told ones end.
LEMMA NavigationEndsKept ==
  ASSUME IInv, Observers, NavigationEndsWithPage, Effect
  PROVE  NavigationEndsWithPage'
<1>1. ASSUME NEW p \in Page, Quiet, Aside, PageEffect(p)
      PROVE  NavigationEndsWithPage'
  <2>1. on' = on /\ phase' = phase
    BY <1>1 DEF Aside, answerVars
  <2>2. \A o \in Op : phase[o] = "waiting" /\ Navigation(o) =>
          on[o] \in Open /\ Contains(watchers[on[o]], o)
    BY <1>1, QuietLists DEF NavigationEndsWithPage, Observers, Watching, Waiter, Navigation
  <2>3. CASE Open \subseteq Open'
    BY <2>1, <2>2, <2>3 DEF NavigationEndsWithPage, Navigation
  <2>4. CASE Tell(p, "destroyed", page[p].url, TRUE) /\ Goes(p)
    <3>1. Open \ {p} \subseteq Open'
      BY <2>4 DEF OnlyPage, Goes, Open
    <3>2. \A o \in Op : phase[o] = "waiting" /\ Navigation(o) /\ on[o] = p =>
            /\ notice'.event = "destroyed" /\ notice'.page = p
            /\ Contains(notice'.left, o)
      BY <2>2, <2>4, TellLists
    <3> QED
      BY <2>1, <2>2, <3>1, <3>2 DEF NavigationEndsWithPage, Navigation
  <2>5. Open \subseteq Open' \/ (Tell(p, "destroyed", page[p].url, TRUE) /\ Goes(p))
    BY <1>1 DEF PageEffect, OnlyPage, Opens, Moves, Shows, Loaded, Open
  <2> QED
    BY <2>3, <2>4, <2>5
<1>2. ASSUME PageAside PROVE Open \subseteq Open'
  BY <1>2 DEF PageAside, OnlyPage, Opens, Moves, Open
<1>3. ASSUME NEW o \in Op, Ends(o) PROVE NavigationEndsWithPage'
  <2>1. Open \subseteq Open'
    BY <1>2, <1>3 DEF Ends, PageAside
  <2>2. /\ on' = on /\ notice' = notice
        /\ \A q \in Op : phase'[q] = "waiting" => phase[q] = "waiting"
    BY <1>3 DEF Ends, Untold, objectVars, Others
  <2> QED
    BY <2>1, <2>2, EndedKept
<1>4. ASSUME NEW o \in Op, NEW p \in Page, Waits(o, p) PROVE NavigationEndsWithPage'
  <2>1. Open \subseteq Open'
    BY <1>2, <1>4 DEF Waits, PageAside
  <2>2. p \in Open'
    BY <1>4, <2>1 DEF Waits, Opens, Open
  <2>3. /\ \A q \in Op : q # o => phase'[q] = phase[q]
        /\ \A q \in Op : on'[q] = IF q = o THEN p ELSE on[q]
    BY <1>4 DEF Waits, Others, IInv, TypeOK
  <2>4. /\ notice'.event = notice.event /\ notice'.page = notice.page
        /\ \A q \in Op : Contains(notice.left, q) => Contains(notice'.left, q)
    BY <1>4, ObserveLists DEF Waits, Untold
  <2> QED
    BY <2>1, <2>2, <2>3, <2>4, EndedKept
<1>5. ASSUME NEW o \in Op, NEW s, Handles(o, s), Hears(o) \/ notice' = notice
      PROVE  NavigationEndsWithPage'
  <2>1. /\ on' = on /\ page' = page
        /\ \A q \in Op : phase'[q] = "waiting" => phase[q] = "waiting"
    BY <1>5 DEF Handles, Others
  <2>2. notice'.event = notice.event /\ notice'.page = notice.page
    BY <1>5, HearsLists
  <2>3. \A q \in Op : phase'[q] = "waiting" /\ Navigation(q) /\ notice.event = "destroyed"
          /\ Contains(notice.left, q) => Contains(notice'.left, q)
    BY <1>5, HearsLists DEF Hears
  <2> QED
    BY <2>1, <2>2, <2>3, EndedKept DEF Open
<1>6. CASE Settles
  <2>1. /\ on' = on /\ page' = page
        /\ \A q \in Op : phase'[q] = "waiting" => phase[q] = "waiting"
        /\ notice' = notice \/ notice.left = <<>>
    BY <1>6 DEF Settles
  <2>2. CASE notice' = notice
    BY <2>1, <2>2, EndedKept DEF Open
  <2>3. CASE notice.left = <<>>
    BY <2>1, <2>3, EmptyContains DEF NavigationEndsWithPage, Open
  <2> QED
    BY <2>1, <2>2, <2>3
<1> QED
  BY <1>1, <1>3, <1>4, <1>5, <1>6 DEF Effect

-----------------------------------------------------------------------------
(* Arrivals.                                                               *)

\* What a page shows after a step, and how it may have come to.
LEMMA UrlKept ==
  ASSUME IInv, Effect, NEW p \in Page
  PROVE  \/ page'[p].url = page[p].url
         \/ page[p].is = "none" /\ page'[p].url = NoUrl
         \/ \E u \in Url, bad \in BOOLEAN :
              /\ page'[p].url = u /\ Quiet /\ Aside
              /\ Tell(p, "finished", u, bad) /\ Show(p, u)
<1>1. ASSUME NEW q \in Page, Quiet, Aside, PageEffect(q), p # q
      PROVE  page'[p].url = page[p].url
  BY <1>1 DEF PageEffect, OnlyPage, Opens, Moves, Shows, Loaded, Goes
<1>2. CASE Quiet /\ Aside /\ PageEffect(p)
  <2>1. CASE page'[p].url = page[p].url
    BY <2>1
  <2>2. CASE Opens(p)
    BY <2>2 DEF Opens
  <2>3. ASSUME NEW u \in Url, NEW bad \in BOOLEAN,
               Shows(p, u), Tell(p, "finished", u, bad), Show(p, u)
        PROVE  page'[p].url = u /\ Tell(p, "finished", u, bad) /\ Show(p, u)
    BY <2>3 DEF Shows
  <2> QED
    BY <1>2, <2>1, <2>2, <2>3 DEF PageEffect, Moves, Loaded, Goes
<1>3. ASSUME PageAside
      PROVE  page'[p].url = page[p].url \/ (page[p].is = "none" /\ page'[p].url = NoUrl)
  BY <1>3 DEF PageAside, OnlyPage, Opens, Moves
<1> QED
  BY <1>1, <1>2, <1>3, EffectPages

\* The life of an operation: it keeps its page, it has waited before it completes,
\* and what its page has shown is remembered meanwhile.
LEMMA Lives ==
  ASSUME IInv, Effect, NEW o \in Op
  PROVE  /\ phase[o] # "idle" => on'[o] = on[o] /\ phase'[o] # "idle"
         /\ phase'[o] = "waiting" =>
              phase[o] = "waiting" \/ \E p \in Page : Waits(o, p)
         /\ phase[o] # "idle" /\ phase'[o] \in {"waiting", "completed"} =>
              visited[o] \subseteq visited'[o]
         /\ Navigation(o) /\ phase'[o] = "completed" =>
              \/ phase[o] = "completed" /\ answer'[o] = answer[o]
              \/ /\ phase[o] = "waiting"
                 /\ \E s \in Statuses : Handles(o, s) /\ answer'[o] = <<s>>
<1>1. ASSUME NEW p \in Page, Aside, PageEffect(p)
      PROVE  /\ on' = on /\ phase' = phase /\ answer' = answer
             /\ visited[o] \subseteq visited'[o]
  <2>1. ASSUME NEW u \in Url, Show(p, u) PROVE visited[o] \subseteq visited'[o]
    BY <2>1 DEF Show
  <2> QED
    BY <1>1, <2>1 DEF Aside, answerVars, PageEffect
<1>2. ASSUME NEW q \in Op, Ends(q)
      PROVE  /\ on' = on /\ visited' = visited
             /\ q # o => phase'[o] = phase[o] /\ answer'[o] = answer[o]
             /\ q = o => phase[o] = "idle" /\ phase'[o] = "deleted"
  BY <1>2 DEF Ends, objectVars, Others
<1>3. ASSUME NEW q \in Op, NEW p \in Page, Waits(q, p)
      PROVE  /\ q # o => /\ phase'[o] = phase[o] /\ answer'[o] = answer[o]
                         /\ on'[o] = on[o] /\ visited'[o] = visited[o]
             /\ q = o => phase[o] = "idle" /\ phase'[o] = "waiting"
  <2>1. on \in [Op -> Page \cup {NoPage}] /\ visited \in [Op -> SUBSET Url]
    BY DEF IInv, TypeOK
  <2> QED
    BY <1>3, <2>1 DEF Waits, Others
<1>4. ASSUME NEW q \in Op, NEW s \in Statuses, Handles(q, s)
      PROVE  /\ on' = on /\ visited' = visited
             /\ q # o => phase'[o] = phase[o] /\ answer'[o] = answer[o]
             /\ q = o => \/ phase'[o] = phase[o] /\ answer'[o] = answer[o]
                         \/ /\ phase[o] = "waiting" /\ phase'[o] \in {"completed", "deleted"}
                            /\ answer'[o] = <<s>>
  BY <1>4 DEF Handles, Others
<1>5. ASSUME Settles
      PROVE  /\ on' = on
             /\ phase[o] # "idle" => phase'[o] # "idle"
             /\ phase'[o] = "waiting" => phase[o] = "waiting"
             /\ phase'[o] \in {"waiting", "completed"} => visited'[o] = visited[o]
             /\ Navigation(o) /\ phase'[o] = "completed" =>
                  phase[o] = "completed" /\ answer'[o] = answer[o]
  BY <1>5 DEF Settles
<1>c1. CASE \E p \in Page : Quiet /\ Aside /\ PageEffect(p)
  BY <1>c1, <1>1
<1>c2. CASE \E q \in Op : Ends(q)
  BY <1>c2, <1>2
<1>c3. CASE \E q \in Op, p \in Page : Waits(q, p)
  BY <1>c3, <1>3
<1>c4. CASE \E q \in Op, s \in Statuses : Handles(q, s)
  BY <1>c4, <1>4
<1>c5. CASE Settles
  BY <1>c5, <1>5
<1> QED
  BY <1>c1, <1>c2, <1>c3, <1>c4, <1>c5 DEF Effect

\* What is marked as seen is either so already, or shows in the page now.
LEMMA SeenKept ==
  ASSUME IInv, Effect, NEW o \in Op, o \in seen'
  PROVE  \/ o \in seen
         \/ /\ phase[o] # "idle" /\ IsRequestedNavigation(o, page[on[o]].url)
            /\ visited' = visited
<1>1. ASSUME NEW p \in Page, Aside PROVE o \in seen
  BY <1>1 DEF Aside
<1>2. ASSUME NEW q \in Op, Ends(q) \/ \E p \in Page : Waits(q, p) PROVE o \in seen
  BY <1>2 DEF Ends, Waits, objectVars
<1>3. ASSUME NEW q \in Op, NEW s, Handles(q, s)
      PROVE  \/ o \in seen
             \/ /\ phase[o] # "idle" /\ IsRequestedNavigation(o, page[on[o]].url)
                /\ visited' = visited
  BY <1>3 DEF Handles
<1>4. ASSUME Settles PROVE o \in seen
  BY <1>4 DEF Settles
<1> QED
  BY <1>1, <1>2, <1>3, <1>4 DEF Effect

\* A requested URL that shows has been shown.
LEMMA RequestedShown ==
  ASSUME NEW o \in Op, IsRequestedNavigation(o, page[on[o]].url),
         page[on[o]].url \in visited[o] \cup {NoUrl}
  PROVE  Shown(o)
BY DEF IsRequestedNavigation, Shown

\* What was shown stays shown.
LEMMA ShownKept ==
  ASSUME NEW o \in Op, Shown(o), visited[o] \subseteq visited'[o]
  PROVE  Shown(o)'
BY DEF Shown

\* A page that a waiting operation was resolved to shows, after the step, what the
\* operation has been told of.
LEMMA VisitsKept ==
  ASSUME IInv, Arrivals, Resolved, Effect, NEW o \in Op, Navigation(o),
         phase'[o] = "waiting"
  PROVE  page'[on'[o]].url \in visited'[o] \cup {NoUrl}
<1>1. CASE phase[o] = "waiting"
  <2>1. /\ on[o] \in Page /\ on'[o] = on[o] /\ visited[o] \subseteq visited'[o]
        /\ page[on[o]].is # "none"
    BY <1>1, Lives DEF Resolved, IInv, TypeOK
  <2>2. page[on[o]].url \in visited[o] \cup {NoUrl}
    BY <1>1 DEF Arrivals
  <2>3. CASE page'[on[o]].url = page[on[o]].url
    BY <2>1, <2>2, <2>3
  <2>4. ASSUME NEW u \in Url, page'[on[o]].url = u, Show(on[o], u)
        PROVE  u \in visited'[o]
    BY <1>1, <2>4 DEF Show
  <2> QED
    BY <2>1, <2>3, <2>4, UrlKept
<1>2. ASSUME NEW p \in Page, Waits(o, p)
      PROVE  page'[on'[o]].url \in visited'[o] \cup {NoUrl}
  <2>1. on \in [Op -> Page \cup {NoPage}] /\ visited \in [Op -> SUBSET Url]
    BY DEF IInv, TypeOK
  <2>2. on'[o] = p
    BY <1>2, <2>1 DEF Waits
  <2>3. CASE Kind[o] = "navigate"
    <3>1. Moves(p) /\ visited'[o] = {page[p].url} \ {NoUrl}
      BY <1>2, <2>1, <2>3 DEF Waits
    <3> QED
      BY <2>2, <3>1 DEF Moves
  <2>4. CASE Kind[o] = "create"
    BY <1>2, <2>2, <2>4 DEF Waits, Opens
  <2> QED
    BY <2>3, <2>4 DEF Navigation
<1> QED
  BY <1>1, <1>2, Lives

\* What is shown is remembered by those that wait, after every step.
LEMMA ArrivalsKept ==
  ASSUME IInv, Observers, Resolved, Arrivals, Effect
  PROVE  Arrivals'
<1>1. notice'.event = "finished" => page'[notice'.page].url = notice'.url
  <2>n. notice.event # "none" => notice.page \in Page
    BY DEF IInv, TypeOK
  <2>1. ASSUME NEW p \in Page, Quiet, Aside, PageEffect(p), notice'.event = "finished"
        PROVE  page'[notice'.page].url = notice'.url
    <3>1. CASE Untold
      BY <2>1, <3>1, QuietLists DEF Untold
    <3>2. ASSUME NEW e \in {"stopped", "failed", "destroyed"}, NEW u, NEW bad,
                 Tell(p, e, u, bad)
          PROVE  FALSE
      BY <2>1, <3>2, TellLists
    <3>3. ASSUME NEW u \in Url, NEW bad, Shows(p, u), Tell(p, "finished", u, bad)
          PROVE  page'[notice'.page].url = notice'.url
      BY <2>1, <3>3, TellLists DEF Shows
    <3> QED
      BY <2>1, <3>1, <3>2, <3>3 DEF PageEffect
  <2>2. ASSUME PageAside, notice'.event = notice.event, notice'.page = notice.page,
               notice'.url = notice.url
        PROVE  notice'.event = "finished" => page'[notice'.page].url = notice'.url
    BY <2>2, <2>n DEF Arrivals, Resolved, PageAside, OnlyPage, Opens, Moves
  <2>3. ASSUME NEW o \in Op, Ends(o) \/ \E p \in Page : Waits(o, p)
        PROVE  /\ PageAside /\ notice'.event = notice.event
               /\ notice'.page = notice.page /\ notice'.url = notice.url
    BY <2>3, ObserveLists DEF Ends, Waits, PageAside, Untold
  <2>4. ASSUME NEW o \in Op, NEW s, Handles(o, s), Hears(o) \/ notice' = notice
        PROVE  /\ PageAside /\ notice'.event = notice.event
               /\ notice'.page = notice.page /\ notice'.url = notice.url
    BY <2>4, HearsLists DEF Handles, PageAside
  <2>5. CASE Settles
    <3>1. PageAside /\ (notice' = notice \/ notice'.event = "none")
      BY <2>5 DEF Settles, PageAside, NoNotice
    <3> QED
      BY <2>2, <3>1
  <2> QED
    BY <2>1, <2>2, <2>3, <2>4, <2>5 DEF Effect
<1>2. \A o \in seen' : phase'[o] # "idle"
  <2>1. seen' \subseteq Op
    <3>1. seen \subseteq Op
      BY DEF IInv, TypeOK
    <3> QED
      BY <3>1 DEF Effect, Aside, Ends, Waits, objectVars, Handles, Settles
  <2> QED
    BY <2>1, SeenKept, Lives DEF Arrivals
<1>3. ASSUME NEW o \in Op, phase'[o] = "waiting", Navigation(o), o \in seen'
      PROVE  Shown(o)'
  <2>1. CASE phase[o] = "waiting"
    <3>1. visited[o] \subseteq visited'[o]
      BY <2>1, <1>3, Lives
    <3>2. Shown(o)
      BY <1>3, <2>1, SeenKept, RequestedShown DEF Arrivals
    <3> QED
      BY <3>1, <3>2, ShownKept
  <2>2. ASSUME NEW p \in Page, Waits(o, p) PROVE FALSE
    BY <1>3, <2>2 DEF Waits, Arrivals
  <2> QED
    BY <1>3, <2>1, <2>2, Lives
<1>4. ASSUME NEW o \in Op, Navigation(o)
      PROVE  replies'[o] = {} /\ timers'[o] \subseteq {"navigation"}
  <2>1. replies[o] = {} /\ timers[o] \subseteq {"navigation"}
    BY <1>4 DEF Arrivals
  <2>2. ASSUME NEW p \in Page, Aside, PageEffect(p)
        PROVE  replies'[o] \subseteq replies[o] /\ timers' = timers
    BY <2>2 DEF PageEffect, Aside
  <2>3. ASSUME NEW q \in Op, Ends(q) PROVE replies' = replies /\ timers' = timers
    BY <2>3 DEF Ends, objectVars
  <2>4. ASSUME NEW q \in Op, NEW p \in Page, Waits(q, p)
        PROVE  \/ replies'[o] = replies[o] /\ timers'[o] = timers[o]
               \/ replies'[o] = {} /\ timers'[o] = {"navigation"}
    BY <1>4, <2>4 DEF Waits, Navigation
  <2>5. ASSUME NEW q \in Op, NEW s, Handles(q, s)
        PROVE  replies' = replies /\ timers'[o] \subseteq timers[o]
    BY <2>5 DEF Handles
  <2>6. ASSUME Settles PROVE replies'[o] = {} /\ timers'[o] \subseteq {"navigation"}
    BY <1>4, <2>6 DEF Settles
  <2> QED
    BY <2>1, <2>2, <2>3, <2>4, <2>5, <2>6 DEF Effect
<1> QED
  BY <1>1, <1>2, <1>3, <1>4, VisitsKept DEF Arrivals, Navigation

\* A navigation is completed well only when it is marked as seen.
LEMMA ArrivedKept ==
  ASSUME IInv, Arrivals, OkMeansArrived, Effect
  PROVE  OkMeansArrived'
<1> SUFFICES ASSUME NEW o \in Op, Navigation(o), phase'[o] = "completed",
                    answer'[o] = <<"ok">>
             PROVE  Shown(o)'
  BY DEF OkMeansArrived, Navigation, Shown
<1>1. CASE phase[o] = "completed" /\ answer'[o] = answer[o]
  <2>1. Shown(o)
    BY <1>1 DEF OkMeansArrived, Navigation, Shown
  <2> QED
    BY <1>1, <2>1, Lives, ShownKept
<1>2. ASSUME NEW s \in Statuses, phase[o] = "waiting", Handles(o, s), answer'[o] = <<s>>
      PROVE  Shown(o)'
  <2>1. s = "ok" /\ o \in seen'
    BY <1>2 DEF Handles
  <2>2. Shown(o)
    BY <1>2, <2>1, SeenKept, RequestedShown DEF Arrivals
  <2> QED
    BY <1>2, <2>2, Lives, ShownKept
<1> QED
  BY <1>1, <1>2, Lives

-----------------------------------------------------------------------------
(* Reloads.                                                                *)

\* The first half of Loads, and the second for one operation.
NavigatesLoading == \A p \in Page : page[p].nav # NoUrl => page[p].loading

ReloadLoads(o) ==
  /\ phase[o] = "waiting" /\ Kind[o] = "reload"
  /\ on[o] \in Open /\ page[on[o]].url # NoUrl
  => \/ page[on[o]].loading
     \/ notice.event = "stopped" /\ Contains(notice.left, o)

\* A page that navigates is loading, after every step.
LEMMA NavigatesLoadingKept ==
  ASSUME IInv, NavigatesLoading, Effect
  PROVE  NavigatesLoading'
<1>1. ASSUME NEW p \in Page, PageEffect(p) PROVE NavigatesLoading'
  BY <1>1 DEF PageEffect, OnlyPage, Opens, Moves, Shows, Loaded, Goes, NavigatesLoading
<1>2. ASSUME PageAside PROVE NavigatesLoading'
  BY <1>2 DEF PageAside, OnlyPage, Opens, Moves, NavigatesLoading
<1> QED
  BY <1>1, <1>2, EffectPages

\* A step that ends no load leaves a reload to its page, or to the same notice.
LEMMA ReloadLoadsAside ==
  ASSUME IInv, Resolved, Effect, NEW o \in Op, Loads, PageAside,
         phase'[o] = "waiting" => phase[o] = "waiting" /\ on'[o] = on[o],
         notice'.event = notice.event,
         phase'[o] = "waiting" /\ Kind[o] = "reload" /\ notice.event = "stopped"
           /\ Contains(notice.left, o) => Contains(notice'.left, o)
  PROVE  ReloadLoads(o)'
<1> SUFFICES ASSUME phase'[o] = "waiting", Kind[o] = "reload",
                    on'[o] \in Open', page'[on[o]].url # NoUrl
             PROVE  \/ page'[on[o]].loading
                    \/ notice'.event = "stopped" /\ Contains(notice'.left, o)
  BY DEF ReloadLoads
<1>1. on[o] \in Open /\ on[o] \in Page
  BY WaiterPage DEF Open
<1>2. /\ page'[on[o]].url = page[on[o]].url
      /\ page[on[o]].loading => page'[on[o]].loading
  BY <1>1 DEF PageAside, OnlyPage, Opens, Moves, Open
<1> QED
  BY <1>1, <1>2 DEF Loads

\* A reload waits for a load, or for the news of its end, after every step.
LEMMA LoadsKept ==
  ASSUME IInv, Observers, Resolved, Loads, Effect
  PROVE  Loads'
<1>1. NavigatesLoading'
  BY NavigatesLoadingKept DEF Loads, NavigatesLoading
<1> SUFFICES ASSUME NEW o \in Op PROVE ReloadLoads(o)'
  BY <1>1 DEF Loads, NavigatesLoading, ReloadLoads
<1>2. ASSUME NEW p \in Page, Quiet, Aside, PageEffect(p) PROVE ReloadLoads(o)'
  <2> SUFFICES ASSUME phase'[o] = "waiting", Kind[o] = "reload",
                      on'[o] \in Open', page'[on[o]].url # NoUrl
               PROVE  \/ page'[on[o]].loading
                      \/ notice'.event = "stopped" /\ Contains(notice'.left, o)
    BY <1>2 DEF ReloadLoads, Aside
  <2>1. /\ phase[o] = "waiting" /\ on'[o] = on[o]
        /\ on[o] \in Open /\ on[o] \in Page
    BY <1>2, WaiterPage DEF Aside, answerVars, Open
  <2>2. page[on[o]].url # NoUrl => page[on[o]].loading
    BY <1>2, <2>1, QuietLists DEF Loads
  <2>3. page[on[o]].nav # NoUrl => page[on[o]].loading
    BY <2>1 DEF Loads
  <2>4. CASE on[o] # p
    BY <1>2, <2>1, <2>2, <2>4 DEF PageEffect, OnlyPage, Opens, Moves, Shows, Loaded, Goes
  <2>5. CASE on[o] = p /\ Loaded(p) /\ Tell(p, "stopped", page[p].url, FALSE)
    <3>1. Contains(watchers[p], o)
      BY <2>1, <2>5 DEF Observers, Watching, Waiter
    <3> QED
      BY <2>5, <3>1, TellLists
  <2>6. CASE on[o] = p /\ (Opens(p) \/ Moves(p) \/ Goes(p) \/ page' = page)
    BY <2>1, <2>2, <2>6 DEF Opens, Moves, Goes, Open
  <2>7. ASSUME on[o] = p, NEW u \in Url, Shows(p, u)
        PROVE  page'[on[o]].loading
    BY <2>2, <2>3, <2>7 DEF Shows
  <2> QED
    BY <1>2, <2>4, <2>5, <2>6, <2>7 DEF PageEffect
<1>3. ASSUME NEW q \in Op, Ends(q) PROVE ReloadLoads(o)'
  <2>1. PageAside /\ notice' = notice /\ on' = on
    BY <1>3 DEF Ends, PageAside, Untold, objectVars
  <2>2. phase'[o] = "waiting" => phase[o] = "waiting"
    BY <1>3 DEF Ends, Others
  <2> QED
    BY <2>1, <2>2, ReloadLoadsAside
<1>4. ASSUME NEW q \in Op, NEW p \in Page, Waits(q, p) PROVE ReloadLoads(o)'
  <2>1. \A r \in Op : on'[r] = IF r = q THEN p ELSE on[r]
    BY <1>4 DEF Waits, IInv, TypeOK
  <2>2. CASE q = o
    BY <1>4, <2>1, <2>2 DEF ReloadLoads, Waits, Moves
  <2>3. CASE q # o
    <3>1. PageAside /\ phase'[o] = phase[o] /\ on'[o] = on[o]
      BY <1>4, <2>1, <2>3 DEF Waits, PageAside, Others
    <3>2. /\ notice'.event = notice.event
          /\ Contains(notice.left, o) => Contains(notice'.left, o)
      BY <1>4, ObserveLists DEF Waits, Untold
    <3> QED
      BY <3>1, <3>2, ReloadLoadsAside
  <2> QED
    BY <2>2, <2>3
<1>5. ASSUME NEW q \in Op, NEW s, Handles(q, s), Hears(q) \/ notice' = notice
      PROVE  ReloadLoads(o)'
  <2>1. PageAside /\ on' = on
    BY <1>5 DEF Handles, PageAside
  <2>2. phase'[o] = "waiting" => phase[o] = "waiting"
    BY <1>5 DEF Handles, Others
  <2>3. /\ notice'.event = notice.event
        /\ phase'[o] = "waiting" /\ Kind[o] = "reload" /\ notice.event = "stopped"
             /\ Contains(notice.left, o) => Contains(notice'.left, o)
    BY <1>5, HearsLists DEF Hears
  <2> QED
    BY <2>1, <2>2, <2>3, ReloadLoadsAside
<1>6. CASE Settles
  <2>1. /\ PageAside /\ on' = on /\ page' = page
        /\ phase'[o] = "waiting" => phase[o] = "waiting"
        /\ notice' = notice \/ notice.left = <<>>
    BY <1>6 DEF Settles, PageAside
  <2>2. CASE notice' = notice
    BY <2>1, <2>2, ReloadLoadsAside
  <2>3. CASE notice.left = <<>>
    BY <2>1, <2>3, EmptyContains DEF Loads, ReloadLoads, Open
  <2> QED
    BY <2>1, <2>2, <2>3
<1> QED
  BY <1>2, <1>3, <1>4, <1>5, <1>6 DEF Effect

-----------------------------------------------------------------------------
(* The console capture of created tabs.                                    *)

\* Created tabs stay instrumented.
LEMMA InstrumentedKept ==
  ASSUME IInv, Resolved, Instrumented, Effect
  PROVE  Instrumented'
<1> SUFFICES ASSUME NEW o \in Op, Kind[o] = "create", on'[o] \in Open'
             PROVE  on'[o] \in instrumented'
  BY DEF Instrumented
<1>0. on'[o] \in Page /\ page'[on'[o]].is = "open"
  BY DEF Open
<1>1. ASSUME on'[o] = on[o] PROVE on[o] \in Open /\ on[o] \in instrumented
  BY <1>0, <1>1, WaiterPage DEF Instrumented
<1>2. ASSUME NEW p \in Page, Aside, PageEffect(p) PROVE on'[o] \in instrumented'
  <2>1. on[o] \in instrumented /\ on'[o] = on[o]
    BY <1>1, <1>2 DEF Aside
  <2>2. CASE instrumented' = instrumented
    BY <2>1, <2>2
  <2>3. CASE Goes(p) /\ instrumented' = instrumented \ {p}
    BY <1>0, <2>1, <2>3 DEF Goes
  <2> QED
    BY <1>2, <2>2, <2>3 DEF PageEffect
<1>3. ASSUME instrumented' \in {instrumented, Open}, on'[o] = on[o]
      PROVE  on'[o] \in instrumented'
  BY <1>1, <1>3
<1>4. ASSUME NEW q \in Op, Ends(q) PROVE on'[o] \in instrumented'
  <2>1. on' = on
    BY <1>4 DEF Ends, objectVars
  <2>2. \/ instrumented' \in {instrumented, Open}
        \/ \E p \in Page : instrumented' = Open \cup {p}
    BY <1>4 DEF Ends
  <2> QED
    BY <1>1, <2>1, <2>2
<1>5. ASSUME NEW q \in Op, NEW p \in Page, Waits(q, p) PROVE on'[o] \in instrumented'
  <2>1. \A r \in Op : on'[r] = IF r = q THEN p ELSE on[r]
    BY <1>5 DEF Waits, IInv, TypeOK
  <2>2. CASE q = o
    BY <1>5, <2>1, <2>2 DEF Waits
  <2>3. CASE q # o
    <3>1. on[o] \in Open /\ on[o] \in instrumented /\ on'[o] = on[o]
      BY <1>1, <2>1, <2>3
    <3> QED
      BY <1>5, <3>1 DEF Waits
  <2> QED
    BY <2>2, <2>3
<1>6. ASSUME NEW q \in Op, NEW s, Handles(q, s) PROVE on'[o] \in instrumented'
  BY <1>3, <1>6 DEF Handles
<1>7. CASE Settles
  BY <1>3, <1>7 DEF Settles
<1> QED
  BY <1>2, <1>4, <1>5, <1>6, <1>7 DEF Effect

\* A created tab that shows a document captures its console.
LEMMA CapturedKept ==
  ASSUME IInv, Resolved, Instrumented, CreatedTabsAreCaptured, Effect
  PROVE  CreatedTabsAreCaptured'
<1> SUFFICES ASSUME NEW o \in Op, Kind[o] = "create", on'[o] \in Open',
                    page'[on'[o]].url # NoUrl
             PROVE  on'[o] \in captured'
  BY DEF CreatedTabsAreCaptured
<1>0. on'[o] \in Page /\ page'[on'[o]].is = "open"
  BY DEF Open
<1>1. ASSUME on'[o] = on[o]
      PROVE  /\ on[o] \in Open /\ on[o] \in instrumented
             /\ page[on[o]].url # NoUrl => on[o] \in captured
  BY <1>0, <1>1, WaiterPage DEF Instrumented, CreatedTabsAreCaptured
<1>2. ASSUME NEW p \in Page, Aside, PageEffect(p) PROVE on'[o] \in captured'
  <2>1. on'[o] = on[o]
    BY <1>2 DEF Aside
  <2>2. on[o] \in Page
    BY <1>0, <2>1
  <2>3. ASSUME page'[on[o]].url = page[on[o]].url, captured' = captured
        PROVE  on'[o] \in captured'
    BY <1>1, <2>1, <2>3
  <2>4. CASE Opens(p) /\ captured' = captured
    BY <1>1, <2>1, <2>2, <2>3, <2>4 DEF Opens, OnlyPage, Open
  <2>5. CASE (Moves(p) \/ Loaded(p) \/ page' = page) /\ captured' = captured
    BY <2>1, <2>2, <2>3, <2>5 DEF Moves, Loaded, OnlyPage
  <2>6. ASSUME NEW u \in Url, Shows(p, u), Instrument(p)
        PROVE  on'[o] \in captured'
    <3>1. CASE on[o] = p
      BY <1>1, <2>1, <2>6, <3>1 DEF Instrument
    <3>2. CASE on[o] # p
      BY <1>1, <2>1, <2>2, <2>6, <3>2 DEF Instrument, Shows, OnlyPage
    <3> QED
      BY <3>1, <3>2
  <2>7. CASE Goes(p) /\ captured' = captured \ {p}
    BY <1>0, <1>1, <2>1, <2>2, <2>7 DEF Goes, OnlyPage
  <2> QED
    BY <1>2, <2>4, <2>5, <2>6, <2>7 DEF PageEffect
<1>3. ASSUME PageAside, captured' = captured, on'[o] = on[o]
      PROVE  on'[o] \in captured'
  <2>1. page'[on[o]].url = page[on[o]].url
    BY <1>0, <1>1, <1>3 DEF PageAside, OnlyPage, Opens, Moves, Open
  <2> QED
    BY <1>1, <1>3, <2>1
<1>4. ASSUME NEW q \in Op, Ends(q) PROVE on'[o] \in captured'
  BY <1>3, <1>4 DEF Ends, objectVars, PageAside
<1>5. ASSUME NEW q \in Op, NEW p \in Page, Waits(q, p) PROVE on'[o] \in captured'
  <2>1. \A r \in Op : on'[r] = IF r = q THEN p ELSE on[r]
    BY <1>5 DEF Waits, IInv, TypeOK
  <2>2. CASE q = o
    BY <1>5, <2>1, <2>2 DEF Waits, Opens
  <2>3. CASE q # o
    BY <1>3, <1>5, <2>1, <2>3 DEF Waits, PageAside
  <2> QED
    BY <2>2, <2>3
<1>6. ASSUME NEW q \in Op, NEW s, Handles(q, s) PROVE on'[o] \in captured'
  BY <1>3, <1>6 DEF Handles, PageAside
<1>7. CASE Settles
  BY <1>3, <1>7 DEF Settles, PageAside
<1> QED
  BY <1>2, <1>4, <1>5, <1>6, <1>7 DEF Effect

-----------------------------------------------------------------------------
(* The invariant of what waits for a page.                                 *)

PageInv ==
  /\ IInv /\ Observers /\ Resolved
  /\ Arrivals /\ OkMeansArrived /\ NavigationEndsWithPage
  /\ Loads /\ Instrumented /\ CreatedTabsAreCaptured

\* At the start no operation has been called, and the open pages show nothing.
LEMMA InitPageInv == Init => PageInv
<1> SUFFICES ASSUME Init PROVE PageInv
  OBVIOUS
<1>1. IInv
  BY InitInv
<1>2. /\ \A p \in Page : /\ watchers[p] = <<>> /\ page[p].url = NoUrl
                         /\ page[p].nav = NoUrl
                         /\ p \in FirstPages => page[p].is # "none"
      /\ notice.left = <<>> /\ notice.event = "none"
      /\ \A o \in Op : /\ phase[o] = "idle" /\ on[o] = NoPage
                       /\ replies[o] = {} /\ timers[o] = {}
      /\ seen = {}
  BY DEF Init, Fresh, NoNotice
<1>3. NoPage \notin Page
  BY PageAssumption
<1>4. Observers /\ Resolved
  BY <1>2, <1>3, EmptyContains DEF Observers, Watched, ToBeTold, Watching, Waiter, Resolved
<1>5. Arrivals /\ Loads
  BY <1>2 DEF Arrivals, Loads, Open
<1>6. OkMeansArrived /\ NavigationEndsWithPage
  BY <1>2 DEF OkMeansArrived, NavigationEndsWithPage
<1>7. Instrumented /\ CreatedTabsAreCaptured
  BY <1>2, <1>3 DEF Instrumented, CreatedTabsAreCaptured, Open
<1> QED
  BY <1>1, <1>4, <1>5, <1>6, <1>7 DEF PageInv

\* Every step keeps it.
LEMMA StepPageInv == PageInv /\ [Next]_vars => PageInv'
<1> SUFFICES ASSUME PageInv, [Next]_vars PROVE PageInv'
  OBVIOUS
<1>1. IInv'
  BY StepInv DEF PageInv
<1>2. CASE UNCHANGED vars
  <2>1. UNCHANGED <<page, watchers, notice, instrumented, captured, on, timers,
                    replies, seen, visited, phase, answer>>
    BY <1>2 DEF vars, pageVars, objectVars, answerVars
  <2>2. (Observers /\ Resolved)'
    BY <2>1 DEF PageInv, Observers, Watched, ToBeTold, Watching, Waiter, Resolved, Open
  <2>3. (Arrivals /\ Loads)'
    BY <2>1 DEF PageInv, Arrivals, Shown, Loads, Open
  <2>4. (OkMeansArrived /\ NavigationEndsWithPage)'
    BY <2>1 DEF PageInv, OkMeansArrived, NavigationEndsWithPage, Open
  <2>5. (Instrumented /\ CreatedTabsAreCaptured)'
    BY <2>1 DEF PageInv, Instrumented, CreatedTabsAreCaptured, Open
  <2> QED
    BY <1>1, <2>2, <2>3, <2>4, <2>5 DEF PageInv
<1>3. CASE Next
  <2>1. Effect
    BY <1>3, NextEffect DEF PageInv
  <2>2. Observers' /\ Resolved'
    BY <2>1, ObserversKept, ResolvedKept DEF PageInv
  <2>3. Arrivals' /\ OkMeansArrived'
    BY <2>1, ArrivalsKept, ArrivedKept DEF PageInv
  <2>4. NavigationEndsWithPage' /\ Loads'
    BY <2>1, NavigationEndsKept, LoadsKept DEF PageInv
  <2>5. Instrumented' /\ CreatedTabsAreCaptured'
    BY <2>1, InstrumentedKept, CapturedKept DEF PageInv
  <2> QED
    BY <1>1, <2>2, <2>3, <2>4, <2>5 DEF PageInv
<1> QED
  BY <1>2, <1>3

\* The inductive invariant of waiters, pages and what they tell each other.
THEOREM PageInvariance == Spec => []PageInv
<1> QED
  BY InitPageInv, StepPageInv, PTL DEF Spec

\* "Navigated to page" is never said of a page that has not shown, since the
\* operation began, a URL that counts as the requested one.
THEOREM Arrived == Spec => []OkMeansArrived
<1>1. PageInv => OkMeansArrived
  BY DEF PageInv
<1> QED
  BY <1>1, PageInvariance, PTL

\* No navigation waits on a destroyed page whose observers have all been told.
THEOREM EndsWithPage == Spec => []NavigationEndsWithPage
<1>1. PageInv => NavigationEndsWithPage
  BY DEF PageInv
<1> QED
  BY <1>1, PageInvariance, PTL

\* A reload never waits for a load that has ended and of whose end it will not be
\* told.
THEOREM ReloadToldOfEnd == Spec => []ReloadNotForgotten
<1>1. PageInv => ReloadNotForgotten
  BY DEF PageInv, Loads, ReloadNotForgotten
<1> QED
  BY <1>1, PageInvariance, PTL

\* No document of a tab that CreateTab made escapes the console capture.
THEOREM TabsCaptured == Spec => []CreatedTabsAreCaptured
<1>1. PageInv => CreatedTabsAreCaptured
  BY DEF PageInv
<1> QED
  BY <1>1, PageInvariance, PTL
=============================================================================
