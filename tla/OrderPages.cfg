SPECIFICATION Spec
CONSTANTS
  o1 = o1
  o2 = o2
  None = None
  Orders <- const_Orders
  Start <- const_Start
  Mine <- const_Mine
  Subject = o1
  MaxCalls <- const_MaxCalls
  MaxChanges <- const_MaxChanges
  MaxFaults <- const_MaxFaults
INVARIANTS PagesInv NeverAhead QuietIsCurrent TwiceOnlyAfterAnother
PROPERTIES Recovers
CHECK_DEADLOCK FALSE
