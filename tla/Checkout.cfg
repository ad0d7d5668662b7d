SPECIFICATION Spec
\* A customer may stop, and the bounds stop every customer.
CHECK_DEADLOCK FALSE
CONSTANTS
  t1 = t1  t2 = t2  pa = pa  pb = pb  None = None
  Tabs = {t1, t2}
  Products = {pa, pb}
  MaxQuantity = 2
  MaxAttempts = 2
  MaxEdits = 2
  MaxVisits = 4
INVARIANTS CheckoutInv OrderedAsChecked StoredIsLastCart
PROPERTIES CartKept
