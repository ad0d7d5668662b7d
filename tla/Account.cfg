SPECIFICATION Spec
CONSTANTS
  h1 = h1  h2 = h2
  Calls = {h1, h2}
  Typed = {"login", "profile"}
  Accounts <- MCAccounts
INVARIANTS AccountInv MfaIsTrue
PROPERTIES NotStranded EditsKept ButtonsReturn
