CONSTANTS
  m1 = m1
  m2 = m2
  Messages <- MCMessages
  Ops <- MCOps
  SafeOps <- MCSafeOps
  MaxCalls = 2
  MaxCuts = 1
SPECIFICATION Spec
INVARIANTS NoBlindRetry
CHECK_DEADLOCK FALSE
