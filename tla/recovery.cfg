CONSTANTS
  m1 = m1
  m2 = m2
  Messages <- MCMessages
  Ops <- MCOneOp
  SafeOps <- MCNoOps
  MaxCalls = 2
  MaxCuts = 2
SPECIFICATION Spec
INVARIANTS TypeOK InputNotLost InputOnce RowsOnce LastCheckpointKept ContinuationWanted
PROPERTIES Handled
CHECK_DEADLOCK FALSE
