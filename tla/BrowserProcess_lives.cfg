\* A process of each kind, and another with the same socket path.
SPECIFICATION ProcessSpec
CONSTANTS
  This = This
  Other = Other
  Process <- MCProcess
  Nothing = Nothing
  LeftOver = LeftOver
  NotASocket = NotASocket
  MaxTabs = 4
  MaxPages = 3
  Launches <- MCLaunches
INVARIANTS
  PostedNamesTheAsker
  ZeroTabsAsConfigured
  QuitsOnce
  NoHalfStartedProcess
  PathNamesItsServer
  KeptAliveUntilShutdown
  ObserversFollowPages
PROPERTIES
  ActiveKept
  ImplementsBrowserRuntime
  EndsWithItsClient
CHECK_DEADLOCK FALSE
