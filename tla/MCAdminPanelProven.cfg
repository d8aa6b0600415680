SPECIFICATION Spec
CONSTANTS
  Admins = {ada}
  Browsers = {laptop}
  Calls = {s1, s2}
  Secrets = {k1, k2}
  Life = 1
  MaxAttempts = 2
  MaxTime = 2
  NoSecret = NoSecret
  Nobody = Nobody
SYMMETRY Symmetry
INVARIANTS ConfirmedIsProven
