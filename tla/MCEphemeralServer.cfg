SPECIFICATION Spec
CONSTANTS
  ImageA = ImageA
  ImageB = ImageB
  Byte <- MCByte
  PutRequest <- HonestPuts
  MinBlock = 1
  WordSize = 16
INVARIANTS
  TypeOK
  PanicNeedsRefusal
PROPERTIES
  RepetitionRunsNothing
CHECK_DEADLOCK FALSE
