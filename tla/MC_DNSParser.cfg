CONSTANTS
  MAX_LABELS = 2
  Bytes = {0, 1, 65, 192, 14, 16}
  MaxLen = 19
  MaxLenNoQ = 17
  DomainBufSize = 2
SPECIFICATION Spec
CHECK_DEADLOCK FALSE
INVARIANT ParseStaysInPacket
INVARIANT DecodeAgreesWithParse
