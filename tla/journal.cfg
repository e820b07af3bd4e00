CONSTANTS
  Streams = {chat, control}
  Writers = {w1, w2}
  Keep = 2
  MaxRecords = 3
  MaxEvents = 6
  MaxFaults = 2
SPECIFICATION Spec
SYMMETRY MCSymmetry
INVARIANTS TypeOK HonestReplay ValidatesUnlessBehind
PROPERTIES AcksGrow BoundedJournal
