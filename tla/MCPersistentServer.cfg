SPECIFICATION Spec
CONSTANTS
  ImageA = ImageA
  ImageB = ImageB
  Flash = Flash
  Byte <- MCByte
  StaticProgram <- MCStatic
  PutRequest <- AllPuts
  MinBlock = 1
  WordSize = 8
INVARIANTS
  TypeOK
  ProgramPinned
  AdvertisedAreServed
  AnswersTruthful
  InPlace
PROPERTIES
  OutageIsAskedFor
  FailedStartIsFinal
CHECK_DEADLOCK FALSE
