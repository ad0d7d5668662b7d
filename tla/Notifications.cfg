SPECIFICATION Spec
CONSTANTS
  c1 = c1  r1 = r1
  Publishers = {c1, r1}
  Relays = {r1}
  StreamRetries = 1
  MaxPublish = 4
  Copies <- MCCopies
  MaxRetries = 2
  MaxFaults = 2
INVARIANTS NotificationsInv FewMails
PROPERTY Mailed
CHECK_DEADLOCK FALSE
