\* Interactions of every kind, two at a time, and tool calls, on one page.
SPECIFICATION ToolsSpec
CONSTANTS
  click = click hover = hover type = type press = press select = select
  drag = drag down = down domType = domType
  badClick = badClick mixedDrag = mixedDrag
  Op = {click, hover, type, press, select, drag, down, domType, badClick, mixedDrag}
  Kind <- KindOf
  Ref <- RefOf
  Text <- TextOf
  Delta <- DeltaOf
  PathLength = {1, 2}
  Chunk = {2, 3}
  MaxStarted = 2
  CookieName = {"sid", "lang"}
  Site = {"a", "b"}
  MaxCalls = 2
  MaxChanges = 1
INVARIANTS CarriedOutInFull NothingHeldAtTheEnd AnswersAreTrue
PROPERTY EveryCallAnswered
\* The interactions end.
CHECK_DEADLOCK FALSE
