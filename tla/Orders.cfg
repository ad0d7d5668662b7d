SPECIFICATION FairSpec
CONSTANTS
  o1 = o1  o2 = o2  c1 = c1  c2 = c2  None = None
  Orders = {o1}
  Consumers = {c1, c2}
  Copies = 1
  MaxReceive = 2
  Shards = 1
  MaxRetries = 1
  MaxFaults = 1
INVARIANTS OrdersInv ShippedStockHeld StatusTruthful
PROPERTIES LifecycleKept ReservationUsed NothingStranded
CHECK_DEADLOCK FALSE
