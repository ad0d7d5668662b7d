SPECIFICATION FairSpec
CONSTANTS
  o1 = o1  o2 = o2  pa = pa  pb = pb  c1 = c1  c2 = c2  r1 = r1
  h1 = h1  h2 = h2  a1 = a1  None = None
  Orders = {o1}
  Products = {pa, pb}
  Lines <- MCLines
  Quantity <- MCQuantity
  InitStock <- MCStock
  Consumers = {c1, c2}
  Relays = {r1}
  Hosts = {h1, h2}
  Host <- MCHost
  Admins = {}
  Levels = {}
  Wiring = "ResilientStock"
  Copies = 1
  MaxReceive = 3
  RetryAttempts = 2
  MaxFaults = 0
  MaxCrashes = 0
PROPERTIES CancellationReleases
CHECK_DEADLOCK FALSE
