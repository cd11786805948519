\* Two clients with two lines each, cut in every way; safety and liveness.
CONSTANTS
  Client = {c1, c2}
  NoClient = NoClient
  MaxLines = 2
  Room = 1
SPECIFICATION FairSpec
INVARIANTS
  OneActiveClient
  AnswersReachTheAsker
  EveryLineDispatched
PROPERTY LinesAreServed
\* The transport is destroyed in the end, or its threads wait for the clients.
CHECK_DEADLOCK FALSE
