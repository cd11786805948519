\* Two connections and four requests, sent on either of them; safety and liveness.
CONSTANTS
  call1 = call1
  call2 = call2
  list = list
  note = note
  wrong = wrong
  Conn = {c1, c2}
  Request = {call1, call2, note, wrong}
  Kind <- MCKind
SPECIFICATION FairSpec
INVARIANTS
  AnswersReturnToTheAsker
  CallsAnsweredInOrder
  ServerOutlivesConnections
PROPERTIES
  EveryRequestAnswered
  MainThreadComesBack
\* The transport is destroyed in the end, or its clients stop asking.
CHECK_DEADLOCK FALSE
