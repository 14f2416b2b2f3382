SPECIFICATION Spec
CONSTANTS
  Byte = {b1, b2}
  RING_BUF_SIZE = 4
INVARIANT TypeOK
PROPERTY ImplementsFifo
CHECK_DEADLOCK FALSE
