SPECIFICATION Spec
CONSTANTS
  J1 = J1  J2 = J2  f1 = f1  f2 = f2  b1 = b1  b2 = b2  g1 = g1
  Slot = {J1, J2}
  Task = {f1, b1}
  Fuc = {f1}
  SlotOf <- Targets
  Nobody = Nobody
  Worker = {w1}
INVARIANT SlotPresent
CHECK_DEADLOCK FALSE
