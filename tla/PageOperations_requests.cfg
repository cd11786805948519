\* A screenshot, a wait and a cookie operation; safety and liveness.
SPECIFICATION FairSpec
CONSTANTS
  p1 = p1
  Page = {p1}
  FirstPages = {p1}
  NoPage = NoPage NoUrl = NoUrl NoHost = NoHost NoOp = NoOp
  a2 = a2 b1 = b1 blank = blank siteA = siteA siteB = siteB
  Url = {blank}
  Blank = blank
  nav = nav away = away back = back create = create reload = reload
  wait = wait shot = shot cookie = cookie
  Op = {shot, wait, cookie}
  Host <- HostOf
  Redirect <- MCRedirect
  Kind <- KindOf
  Target <- TargetOf
  WaitMs <- WaitOf
INVARIANTS TypeOK AnsweredOnce NoStrandedOperation
PROPERTY EveryOperationAnswered
CHECK_DEADLOCK FALSE
