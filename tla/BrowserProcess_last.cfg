\* Headless: the last tab is closed.
SPECIFICATION ProcessSpec
CONSTANTS
  This = This
  Other = Other
  Process <- MCProcess
  Nothing = Nothing
  LeftOver = LeftOver
  NotASocket = NotASocket
  MaxTabs = 4
  MaxPages = 3
  Launches <- MCPlain
INVARIANT TabCallsUseLiveBrowser
CHECK_DEADLOCK FALSE
