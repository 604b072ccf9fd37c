SPECIFICATION Spec
CONSTANTS
  Requests = {q1, q2, q3, q4}
  Addresses = {a1, a2}
  Window = 1
  MaxClaims = 2
  MaxAddrs = 1
  MaxUnits = 5
  MaxFailures = 1
  Estimate = 2
  Actuals = {1, 3}
  ConfigOK = FALSE
  SavesFail = FALSE
  MaxNow = 2
  MaxRestarts = 1
INVARIANTS
  BadConfigStaysTripped
CHECK_DEADLOCK FALSE
