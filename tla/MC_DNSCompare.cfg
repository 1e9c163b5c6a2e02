CONSTANTS
  MAX_LABELS = 2
  Bytes = {0, 1, 2, 97, 192, 6}
  MaxName = 6
  Candidates <- MCCandidates
  DomainBufSize = 8
SPECIFICATION Spec
CHECK_DEADLOCK FALSE
INVARIANT EqualsSound
INVARIANT EndsWithAsSpecified
