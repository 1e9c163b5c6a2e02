CONSTANTS
  MAX_LABELS = 2
  Bytes = {0, 1, 192, 18}
  MaxLen = 19
  DomainBufSize = 4
SPECIFICATION Spec
CHECK_DEADLOCK FALSE
INVARIANT RoundTrip
