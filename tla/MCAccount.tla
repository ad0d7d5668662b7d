----------------------------- MODULE MCAccount -----------------------------
(* Two handlers at once; no account yet, a plain one, one with TOTP.        *)
EXTENDS Account
CONSTANTS h1, h2
Confirmed(totp, admin) == [state |-> "confirmed", totp |-> totp, admin |-> admin]
MCAccounts ==
  {[Confirmed(FALSE, FALSE) EXCEPT !.state = "none"],
   Confirmed(FALSE, FALSE), Confirmed(TRUE, FALSE)}
=============================================================================
