SPECIFICATION Spec
CONSTANTS
  J1 = J1  J2 = J2  f1 = f1  f2 = f2  b1 = b1  b2 = b2  g1 = g1
  Slot = {J1, J2}
  Task = {b1, b2}
  Fuc = {}
  SlotOf <- Targets
  Nobody = Nobody
  Worker = {w1, w2}
INVARIANT BackwardKept
CHECK_DEADLOCK FALSE
