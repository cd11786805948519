----------------------------- MODULE Interactions -----------------------------
(***************************************************************************)
(* Clicks, hovers, typing, keys, selections, drags and scrolls             *)
(* (core/browser_interactions.cc).  Each is a chain of callbacks: a task   *)
(* looks for the page's render view, forwards input events to it and posts *)
(* the next task after a delay, until one runs the operation's callback.   *)
(* The host may start several on the same page (embed/), and the page      *)
(* changes its view, or goes, between any two tasks of a chain.            *)
(*                                                                         *)
(* A chain keeps the page as a raw pointer (base::Unretained).  Once the   *)
(* page is gone, a task that uses it dies, or finds no view.               *)
(*                                                                         *)
(* Left out: where on the page an element is, the curve of a mouse path    *)
(* and the key codes of a character.                                       *)
(***************************************************************************)
EXTENDS Integers, Sequences, FiniteSets, SequencesExt

CONSTANTS
  Op,          \* the interactions, each started at most once
  Kind,        \* Kind[o]
  Ref,         \* Ref[o]: what its element refs parse to
  Text,        \* Text[o]: the characters to type
  Delta,       \* Delta[o]: how far to scroll, on both axes
  PathLength,  \* points of a mouse path: 4 to 12 in the code
  Chunk,       \* pixels of a scroll step: 40 to 80 in the code
  MaxStarted   \* bound: how many of the interactions are started

Kinds == {"click", "hover", "type", "press", "select", "drag", "scroll"}

\* "dom:<n>" from a DOM snapshot, an accessibility node, or neither; "mixed":
\* a drag between one of each.
Refs == {"dom", "node", "bad", "mixed"}

ASSUME InteractionAssumption ==
  /\ Kind \in [Op -> Kinds] /\ Ref \in [Op -> Refs]
  /\ \A o \in Op : Ref[o] = "mixed" => Kind[o] = "drag"
  /\ DOMAIN Text = Op /\ \A o \in Op : Text[o] \in Seq(STRING)
  /\ Delta \in [Op -> [x : Int, y : Int]]
  /\ PathLength \subseteq Nat \ {0} /\ Chunk \subseteq Nat \ {0}
  /\ MaxStarted \in Nat

VARIABLES
  open,      \* the page exists
  view,      \* the page has a RenderWidgetHostView
  step,      \* step[o]: the next task or reply of o's chain
  left,      \* left[o]: points, characters or pixels that remain
  sent,      \* history: what o's chain has forwarded, moves left out
  scrolled,  \* history: the wheel deltas forwarded by o
  held,      \* the operations whose button or key is down in that view
  answer,    \* answer[o]: the statuses o's callback was run with
  crashed

pageVars == <<open, view>>
inputVars == <<sent, scrolled, held>>
vars == <<pageVars, step, left, inputVars, answer, crashed>>

Init ==
  /\ open = TRUE /\ view = TRUE
  /\ step = [o \in Op |-> "idle"]
  /\ left = [o \in Op |-> 0]
  /\ sent = [o \in Op |-> <<>>]
  /\ scrolled = [o \in Op |-> [x |-> 0, y |-> 0]]
  /\ held = {}
  /\ answer = [o \in Op |-> <<>>]
  /\ crashed = FALSE

-----------------------------------------------------------------------------
(* A task of a chain ends by posting the next, or by answering.            *)

Post(o, s, n) ==
  /\ step' = [step EXCEPT ![o] = s]
  /\ left' = [left EXCEPT ![o] = n]
  /\ UNCHANGED answer

Finish(o, s) ==
  /\ answer' = [answer EXCEPT ![o] = Append(@, s)]
  /\ step' = [step EXCEPT ![o] = "done"]
  /\ UNCHANGED left

NoRenderView(o) == Finish(o, "noRenderView") /\ UNCHANGED inputVars

\* A button or a key goes down, or up.
Press(o, event) ==
  /\ sent' = [sent EXCEPT ![o] = Append(@, event)]
  /\ held' = held \cup {o}
  /\ UNCHANGED scrolled

\* Mutant: the button is not released.
Release_Forgets(o, event) ==
  /\ sent' = [sent EXCEPT ![o] = Append(@, event)]
  /\ UNCHANGED <<held, scrolled>>

Release(o, event) ==
  /\ sent' = [sent EXCEPT ![o] = Append(@, event)]
  /\ held' = held \ {o}
  /\ UNCHANGED scrolled

\* EvaluateWithDevTools: a page without a live frame is refused at once.
Evaluate(o) ==
  /\ \/ Post(o, "eval", 0)
     \/ ~view /\ Finish(o, "noActiveFrame")
  /\ UNCHANGED inputVars

-----------------------------------------------------------------------------
(* Mouse paths.                                                            *)

\* on_done of a path: what the operation does when the mouse has arrived.
ArrivedClick(o) ==
  IF ~view THEN NoRenderView(o)
  ELSE Post(o, "down", 0) /\ UNCHANGED inputVars

ArrivedHover(o) == Finish(o, "ok") /\ UNCHANGED inputVars

ArrivedAtSource(o) ==
  IF ~view THEN NoRenderView(o)
  ELSE /\ Press(o, "down")
       /\ \E n \in PathLength : Post(o, "drag", n)

ArrivedAtTarget(o) ==
  IF ~view THEN NoRenderView(o)
  ELSE Release(o, "up") /\ Finish(o, "ok")

PathDone(o, leg) ==
  \/ Kind[o] = "click" /\ ArrivedClick(o)
  \/ Kind[o] = "hover" /\ ArrivedHover(o)
  \/ Kind[o] = "drag" /\ leg = "move" /\ ArrivedAtSource(o)
  \/ Kind[o] = "drag" /\ leg = "drag" /\ ArrivedAtTarget(o)

\* Mutant: without a view the path stops and nobody is told.
AnimateMousePath_Drops(o, leg, n) ==
  IF n = 0 THEN PathDone(o, leg)
  ELSE Post(o, IF ~view THEN "done" ELSE leg, n - 1) /\ UNCHANGED inputVars

\* Without a view the path is cut short, and done all the same.
AnimateMousePath(o, leg, n) ==
  IF n = 0 \/ ~view THEN PathDone(o, leg)
  ELSE Post(o, leg, n - 1) /\ UNCHANGED inputVars

-----------------------------------------------------------------------------
(* The operations.                                                         *)

Called(o) ==
  /\ ~crashed /\ step[o] = "idle"
  /\ Cardinality({q \in Op : step[q] # "idle"}) < MaxStarted

\* Each begins in a task of its own and resolves the page.
Begins(o) ==
  /\ Called(o) /\ open
  /\ UNCHANGED <<pageVars, crashed>>

\* The controller has no runtime, or no tab with that id.
Refused(o) ==
  /\ Called(o)
  /\ \E s \in {"sessionNotReady", "tabNotFound"} : Finish(o, s)
  /\ UNCHANGED <<pageVars, inputVars, crashed>>

InvalidRef(o) ==
  /\ Begins(o) /\ Kind[o] \notin {"press", "scroll"} /\ Ref[o] \in {"bad", "mixed"}
  /\ Finish(o, "invalidArgument")
  /\ UNCHANGED inputVars

\* Refs of a DOM snapshot: one script does the whole interaction.
DomInteraction(o) ==
  /\ Begins(o) /\ Kind[o] \notin {"press", "scroll"} /\ Ref[o] = "dom"
  /\ Evaluate(o)

\* Click and Hover scroll the element into view, and all three ask where it is.
Locate(o) ==
  /\ Begins(o) /\ Kind[o] \in {"click", "hover", "drag"} /\ Ref[o] = "node"
  /\ Post(o, "snapshot", 0)
  /\ UNCHANGED inputVars

\* Focuses the element (and clears it), and types after a while.
Type(o) ==
  /\ Begins(o) /\ Kind[o] = "type" /\ Ref[o] = "node"
  /\ Post(o, "type", Len(Text[o]))
  /\ UNCHANGED inputVars

SelectOption(o) ==
  /\ Begins(o) /\ Kind[o] = "select" /\ Ref[o] = "node"
  /\ Evaluate(o)

PressKey(o) ==
  /\ Begins(o) /\ Kind[o] = "press"
  /\ IF ~view THEN NoRenderView(o)
     ELSE Press(o, "down") /\ Post(o, "keyUp", 0)

Abs(n) == IF n < 0 THEN -n ELSE n
Larger(a, b) == IF a < b THEN b ELSE a
Smaller(a, b) == IF a < b THEN a ELSE b
Sign(n) == IF n = 0 THEN 0 ELSE IF n > 0 THEN 1 ELSE -1

\* One chunk, on each axis that moves at all.
ScrollStep(o, n) ==
  IF n <= 0 THEN Finish(o, "ok") /\ UNCHANGED inputVars
  ELSE IF ~view THEN NoRenderView(o)
  ELSE \E c \in {Smaller(n, d) : d \in Chunk} :
         /\ scrolled' = [scrolled EXCEPT ![o] =
              [x |-> @.x + Sign(Delta[o].x) * c, y |-> @.y + Sign(Delta[o].y) * c]]
         /\ Post(o, "scroll", n - c)
         /\ UNCHANGED <<sent, held>>

\* Both axes share one remainder, the larger distance.
Scroll(o) ==
  /\ Begins(o) /\ Kind[o] = "scroll"
  /\ ScrollStep(o, Larger(Abs(Delta[o].x), Abs(Delta[o].y)))

-----------------------------------------------------------------------------
(* The chains' later tasks.                                                *)

\* A posted task, or a reply, that uses the page.
Runs(o, s) ==
  /\ ~crashed /\ step[o] = s
  /\ UNCHANGED <<pageVars, crashed>>

\* The accessibility tree, within three seconds: the path to the element
\* begins in this very task, from where the mouse is.
SnapshotArrives(o) ==
  /\ Runs(o, "snapshot")
  /\ \/ Finish(o, "notFound") /\ UNCHANGED inputVars
     \/ \E n \in PathLength : AnimateMousePath(o, "move", n)

MouseMoves(o) ==
  \E leg \in {"move", "drag"} : Runs(o, leg) /\ AnimateMousePath(o, leg, left[o])

MouseDown(o) ==
  /\ Runs(o, "down")
  /\ IF ~view THEN NoRenderView(o)
     ELSE Press(o, "down") /\ Post(o, "up", 0)

MouseUp(o) ==
  /\ Runs(o, "up")
  /\ IF ~view THEN NoRenderView(o)
     ELSE Release(o, "up") /\ Finish(o, "ok")

\* Mutant: a character is skipped when there is no view.
TypeNextChar_Skips(o) ==
  /\ Runs(o, "type")
  /\ IF left[o] = 0 THEN Evaluate(o)
     ELSE IF ~view THEN Post(o, "type", left[o] - 1) /\ UNCHANGED inputVars
     ELSE /\ Press(o, Text[o][Len(Text[o]) - left[o] + 1])
          /\ Post(o, "charUp", left[o])

\* The key of a character goes down, with its character event.
TypeNextChar(o) ==
  /\ Runs(o, "type")
  /\ IF left[o] = 0 THEN Evaluate(o)
     ELSE IF ~view THEN NoRenderView(o)
     ELSE /\ Press(o, Text[o][Len(Text[o]) - left[o] + 1])
          /\ Post(o, "charUp", left[o])

CharUp(o) ==
  /\ Runs(o, "charUp")
  /\ IF ~view THEN NoRenderView(o)
     ELSE /\ held' = held \ {o} /\ UNCHANGED <<sent, scrolled>>
          /\ Post(o, "type", left[o] - 1)

KeyUp(o) ==
  /\ Runs(o, "keyUp")
  /\ IF ~view THEN NoRenderView(o)
     ELSE Release(o, "up") /\ Finish(o, "ok")

ScrollOn(o) == Runs(o, "scroll") /\ ScrollStep(o, left[o])

\* The script's result, or its ten seconds are over.
EvalStatusJS(o) ==
  /\ Runs(o, "eval")
  /\ \E s \in {"ok", "internalError", "timeout"} : Finish(o, s)
  /\ UNCHANGED inputVars

\* A task uses a page that has been destroyed.
UseAfterFree(o) ==
  /\ ~crashed /\ ~open /\ step[o] \notin {"idle", "eval", "done"}
  /\ crashed' = TRUE
  /\ UNCHANGED <<pageVars, step, left, inputVars, answer>>

-----------------------------------------------------------------------------
(* The page.                                                               *)

\* A navigation or a crash replaces the view, or takes it away for a while;
\* what was pressed in a view does not outlast it.
ViewChanges ==
  /\ ~crashed /\ open
  /\ view' \in BOOLEAN /\ (view \/ view')
  /\ held' = {}
  /\ UNCHANGED <<open, step, left, sent, scrolled, answer, crashed>>

PageGone ==
  /\ ~crashed /\ open
  /\ open' = FALSE /\ view' = FALSE
  /\ held' = {}
  /\ UNCHANGED <<step, left, sent, scrolled, answer, crashed>>

-----------------------------------------------------------------------------
Start(o) ==
  \/ Refused(o) \/ InvalidRef(o) \/ DomInteraction(o) \/ Locate(o) \/ Type(o)
  \/ SelectOption(o) \/ PressKey(o) \/ Scroll(o)

Continue(o) ==
  \/ SnapshotArrives(o) \/ MouseMoves(o) \/ MouseDown(o) \/ MouseUp(o)
  \/ TypeNextChar(o) \/ CharUp(o) \/ KeyUp(o) \/ ScrollOn(o) \/ EvalStatusJS(o)
  \/ UseAfterFree(o)

Next ==
  \/ ViewChanges \/ PageGone
  \/ \E o \in Op : Start(o) \/ Continue(o)

Spec == Init /\ [][Next]_vars

-----------------------------------------------------------------------------
(* Properties.                                                             *)

Statuses == {"ok", "sessionNotReady", "tabNotFound", "invalidArgument",
             "noActiveFrame", "noRenderView", "notFound", "internalError",
             "timeout"}

\* Every variable has its type, and an operation has one status exactly when
\* its chain is over.
TypeOK ==
  /\ open \in BOOLEAN /\ view \in BOOLEAN
  /\ step \in [Op -> {"idle", "snapshot", "move", "drag", "down", "up", "type",
                      "charUp", "keyUp", "scroll", "eval", "done"}]
  /\ left \in [Op -> Int]
  /\ sent \in [Op -> Seq(STRING)]
  /\ scrolled \in [Op -> [x : Int, y : Int]]
  /\ held \subseteq Op
  /\ answer \in [Op -> Seq(Statuses)]
  /\ \A o \in Op : Len(answer[o]) = IF step[o] = "done" THEN 1 ELSE 0
  /\ crashed \in BOOLEAN

\* "ok" is said only of an interaction that was carried out whole: one press
\* and one release, every character once and in order, the distance asked for
\* along one axis; and nothing but the beginning of it is ever carried out.
CarriedOutInFull ==
  \A o \in Op :
    LET whole == IF Kind[o] = "type" THEN Text[o]
                 ELSE IF Kind[o] \in {"click", "drag", "press"} THEN <<"down", "up">>
                 ELSE <<>>
    IN  /\ IsPrefix(sent[o], whole)
        /\ answer[o] = <<"ok">> /\ (Ref[o] # "dom" \/ Kind[o] = "press")
           => sent[o] = whole
        /\ answer[o] = <<"ok">> /\ Kind[o] = "scroll"
           /\ (Delta[o].x = 0 \/ Delta[o].y = 0)
           => scrolled[o] = Delta[o]

\* An interaction that is over, well or badly, leaves no button and no key down
\* in the view the page shows.
NothingHeldAtTheEnd == \A o \in held : step[o] # "done"
=============================================================================
