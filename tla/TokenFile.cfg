CONSTANTS
  Emails = {e1, e2}
  Tokens = {t1, t2, t3}
  Calls = {k1, k2}
  None = None
  MaxFaults = 1
SPECIFICATION Spec
SYMMETRY Symmetry
INVARIANT TypeOK
INVARIANT RefreshTokenLives
PROPERTY OnlyLogoutForgets
PROPERTY AsksUnsignedOnly
