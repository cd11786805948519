\* A shutdown asked for in the ready callback of a GUI run is lost.
CONSTANTS
  Runner = {r1}
  HostThread = {h1}
  Call = {c1}
  Shutdown = Shutdown
SPECIFICATION FairSpec
PROPERTY ShutdownEndsRun
\* browserd_run returns, or its loop idles for ever.
CHECK_DEADLOCK FALSE
