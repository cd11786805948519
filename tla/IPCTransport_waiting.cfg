\* A client that is left waiting behind one that says nothing.
CONSTANTS
  Client = {c1, c2, c3}
  NoClient = NoClient
  MaxLines = 1
  Room = 1
SPECIFICATION FairSpec
PROPERTY NobodyIsLeftWaiting
\* The transport is destroyed in the end, or its threads wait for the clients.
CHECK_DEADLOCK FALSE
