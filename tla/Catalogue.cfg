SPECIFICATION Spec
CONSTANTS
  pa = pa  pb = pb  t1 = t1  t2 = t2  h1 = h1  h2 = h2  h3 = h3  None = None
  Products = {pa}
  Tasks = {t1, t2}
  Calls = {h1, h2}
  MaxWrites = 1
  Copies = 2
INVARIANTS CatalogueInv OwnWritesServed AnnouncedIsShown
SYMMETRY Twins
CHECK_DEADLOCK FALSE
