\* Two requests at a time of the handlers that share keys, two writes of each table.
SPECIFICATION Spec
CONSTANTS
  Requests = {r1, r2}
  r1 = r1
  r2 = r2
  Workloads <- Together
  MaxVersion = 2
  None = None
SYMMETRY RequestSymmetry
INVARIANTS TypeOK NoForgottenInvalidation FreshAtRest
CHECK_DEADLOCK FALSE
