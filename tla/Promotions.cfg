SPECIFICATION FairSpec
CONSTANTS
  p1 = p1  p2 = p2  a1 = a1  a2 = a2  t1 = t1  t2 = t2  None = None
  Promos = {p1, p2}
  Admins = {a1, a2}
  Tasks = {t1, t2}
  Windows <- MCWindows
  MaxTime = 2
  MaxFaults = 1
INVARIANT PromotionsInv
PROPERTIES LifecycleForward RefreshFollows
CHECK_DEADLOCK FALSE
