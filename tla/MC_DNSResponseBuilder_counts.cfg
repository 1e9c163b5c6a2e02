CONSTANTS
  MAX_LABELS = 2
  Bytes = {0, 1, 65}
  MaxLen = 17
  DomainBufSize = 4
SPECIFICATION Spec
CHECK_DEADLOCK FALSE
INVARIANT NsCountZeroed
