\* HTTP, IPC and stdio clients share one queue; stdin's end stops nothing; liveness too.
CONSTANTS
  init = init
  inited = inited
  garbled = garbled
  list = list
  note = note
  nameless = nameless
  badcall = badcall
  click1 = click1
  click2 = click2
  reload = reload
  NoName = NoName
  Message = {init, inited, garbled, list, note, nameless, badcall, click1, click2, reload}
  Method <- MCMethod
  HasId <- MCHasId
  ToolName <- MCToolName
  Tools <- MCTools
  MayHang = {"browser_reload"}
  Transport <- MixedTransports
  ShutdownOnStdioClose = FALSE
SPECIFICATION FairSpec
INVARIANTS
  TypeOK
  SerialExecution
  AnsweredInOrder
  ExactlyOneReply
PROPERTIES
  ImplementsToolService
  EventuallyAnswered
\* The messages of the instance run out.
CHECK_DEADLOCK FALSE
