\* Two host threads and two racing browserd_run, two calls; safety and liveness.
CONSTANTS
  Runner = {r1, r2}
  HostThread = {h1, h2}
  Call = {c1, c2}
  Shutdown = Shutdown
SPECIFICATION FairSpec
INVARIANTS
  OneRunPerProcess
  OneTeardown
PROPERTIES
  ShutdownInLoopEndsRun
\* browserd_run returns, and a quit may be lost: see EmbedLifecycle_ready.
CHECK_DEADLOCK FALSE
