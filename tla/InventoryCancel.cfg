SPECIFICATION Spec
CONSTANTS
  o1 = o1  o2 = o2  pa = pa  pb = pb  c1 = c1  c2 = c2  r1 = r1
  h1 = h1  h2 = h2  a1 = a1  None = None
  Orders = {o1, o2}
  Products = {pa, pb}
  Lines <- MCLinesSingle
  Quantity <- MCQuantityUneven
  InitStock <- MCStockTwo
  Consumers = {c1, c2}
  Relays = {}
  Hosts = {h1, h2}
  Host <- MCHost
  Admins = {a1}
  Levels = {3}
  Wiring = "StockRepository"
  Copies = 1
  MaxReceive = 2
  RetryAttempts = 2
  MaxFaults = 0
  MaxCrashes = 0
INVARIANTS InventoryInv StockAccounted
PROPERTY PromiseKept
CHECK_DEADLOCK FALSE
