SPECIFICATION FairBSpec
CONSTANTS
  ImageA = ImageA
  ImageB = ImageB
  Flash = Flash
  Byte <- MCByte
  StaticProgram <- MCStatic
  PutRequest <- MCPuts
  MinBlock = 1
  WordSize = 16
  Images <- TwoImages
  Szx = 0
  Settings <- MCSettings
  StartsFail = TRUE
  Capacity = 2
  MaxToken = 6
INVARIANTS
  BTypeOK
  BufferIsPrefix
PROPERTIES
  UpdateImplemented
  UploadsConfirmed
CHECK_DEADLOCK FALSE
