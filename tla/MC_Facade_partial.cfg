CONSTANTS
  Threads = {t1, t2}
  Packets <- MCPackets
  Caps = {16, 64}
  DomainBufSize = 2
  MaxCalls = 2
  MaxResets = 1
  MAX_LABELS = 2
SYMMETRY MCThreadSymmetry
SPECIFICATION Spec
CHECK_DEADLOCK FALSE
INVARIANT ErrorLeavesResultUnchanged
