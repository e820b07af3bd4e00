CONSTANTS
  t1 = t1
  t2 = t2
  Triggers <- MCTriggers
  OnChannel <- MCOnChannel
  Deliveries <- MCDeliveries
  TriggerOf <- MCTriggerOf
  MaxAttempts = 3
  Batch = 2
  MaxDowns = 2
  MaxFaults = 1
SPECIFICATION Spec
INVARIANTS TypeOK NotLost RunAgainForCause GivenUpForCause InOrder
PROPERTIES Settles ImplementsQueue
CHECK_DEADLOCK FALSE
