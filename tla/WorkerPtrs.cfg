SPECIFICATION Spec
CONSTANTS
  Task = {t1, t2, t3}
  None = None
INVARIANTS SlotTellsQueue
PROPERTY FifoSpec
