CONSTANTS
  s1 = s1  s2 = s2
  u1 = u1  u2 = u2  u3 = u3  v1 = v1
  r1 = r1  a1 = a1  a2 = a2
  stop1 = stop1  new1 = new1  drop1 = drop1
  None = None
  Sessions = {s1, s2}
  Messages = {u1, a1, stop1}
  QueueCap = 1
  GateSize = 1
  KindOf <- MCKindOf
  SessionOf <- MCSessionOf
SPECIFICATION FairSpec
CHECK_DEADLOCK FALSE
INVARIANTS WaiterAnswered
