CONSTANTS
  Requests = {q1, q2}
  Altered = {q2}
  MaxConns = 2
  MaxDowns = 1
  MaxFaults = 1
SPECIFICATION Spec
INVARIANTS TypeOK AtMostOnce HonestAnswer
PROPERTIES Answered ImplementsOnce
CHECK_DEADLOCK FALSE
