SPECIFICATION CodesSpec
CONSTANTS
  r1 = r1
  r2 = r2
  Codes = {1, 2, 3}
  Requests = {r1, r2}
  MaxAttempts = 2
  MaxWrong = 2
  Versioned = FALSE
SYMMETRY Symmetry
INVARIANTS
  ExhaustedCodeLocked
CHECK_DEADLOCK FALSE
