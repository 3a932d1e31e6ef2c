SPECIFICATION FairSpec
CONSTANTS
  c1 = c1
  c2 = c2
  s1 = s1
  s2 = s2
  u1 = u1
  u2 = u2
  w1 = w1
  w2 = w2
  i1 = i1
  i2 = i2
  None = None
  Connections = {c1, c2}
  Sessions = {s1, s2}
  Users = {u1}
  Workspaces = {w1}
  Members <- OneMember
  Slots = {i1, i2}
  MaxClientSeq = 1
  MaxServerSeq = 2
  Faults = {"store_failure"}
PROPERTIES EndIsAnswered
CHECK_DEADLOCK FALSE
