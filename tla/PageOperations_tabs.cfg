\* A new tab, and a navigation, a reload and a step in history; no page at first.
SPECIFICATION Spec
CONSTANTS
  p1 = p1
  Page = {p1}
  FirstPages = {}
  NoPage = NoPage NoUrl = NoUrl NoHost = NoHost NoOp = NoOp
  a2 = a2 b1 = b1 blank = blank siteA = siteA siteB = siteB
  Url = {a2, b1}
  Blank = blank
  nav = nav away = away back = back create = create reload = reload
  wait = wait shot = shot cookie = cookie
  Op = {nav, create, reload, back}
  Host <- HostOf
  Redirect <- MCRedirect
  Kind <- KindOf
  Target <- TargetOf
  WaitMs <- WaitOf
INVARIANTS OkMeansArrived CreatedTabsAreCaptured NavigationEndsWithPage ReloadNotForgotten
CHECK_DEADLOCK FALSE
