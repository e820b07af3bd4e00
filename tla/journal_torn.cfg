CONSTANTS
  Streams = {chat, control}
  Writers = {w1, w2}
  Keep = 2
  MaxRecords = 3
  MaxEvents = 6
  MaxFaults = 1
SPECIFICATION Spec
SYMMETRY MCSymmetry
INVARIANT ServesAcked
