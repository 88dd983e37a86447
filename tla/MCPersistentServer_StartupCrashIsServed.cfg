SPECIFICATION Spec
CONSTANTS
  ImageA = ImageA
  ImageB = ImageB
  Flash = Flash
  Byte <- MCByte
  StaticProgram <- MCStatic
  PutRequest <- HonestPuts
  MinBlock = 1
  WordSize = 16
PROPERTIES
  StartupCrashIsServed
CHECK_DEADLOCK FALSE
