SPECIFICATION Spec
CONSTANTS
  leaf = leaf  src = src  u1 = u1  u2 = u2  u3 = u3  fin = fin
  c1 = c1  c2 = c2  m1 = m1  w1 = w1  w2 = w2
  Task <- JoinTask
  Order <- JoinOrder
  Prio <- JoinPrio
  Out <- JoinOut
  Cell = {c1, c2}
  NoCell = NoCell
  LockOf <- JoinLockOf
  Msg = {m1}
  MsgTo <- MCMsgTo
  Worker = {w1, w2}
  None = None
INVARIANT RingsEmptyAtExit
