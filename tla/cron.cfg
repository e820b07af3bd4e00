CONSTANTS
  once = once
  often = often
  Jobs <- MCJobs
  OneShot <- MCOneShot
  When <- MCWhen
  MaxTime = 2
  MaxEdits = 1
  MaxDowns = 1
  MaxFaults = 1
SPECIFICATION Spec
INVARIANTS TypeOK NotLost StaysStopped
PROPERTIES EndedOnce Runs
CHECK_DEADLOCK FALSE
