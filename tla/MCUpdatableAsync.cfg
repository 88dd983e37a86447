SPECIFICATION FairSpec
CONSTANTS
  ImageA = ImageA
  ImageB = ImageB
  Flash = Flash
  Byte <- MCByte
  InitialPayload <- MCInitial
  PutRequest <- HonestPuts
  MinBlock = 1
  WordSize = 16
INVARIANTS
  TypeOK
  ObeysLastUpdate
  InPlace
PROPERTIES
  LatestUpdateImplemented
  UpdatesTaken
CHECK_DEADLOCK FALSE
