SPECIFICATION Spec
CONSTANTS
  User = {u1, u2}
  Email = {e1}
  LoginEmail = {e1}
  Token = {t1, t2, t3}
  Browser = {b1, b2}
  Request = {r1, r2}
  None = None
  Keep = Keep
SYMMETRY Symmetry
INVARIANTS CookieWorks OneLiveToken LogoutEnds
