SPECIFICATION FairSpec
CONSTANTS
  Byte <- MCByte
  Zero <- MCZero
  File <- MCFiles
  SizePacket <- MCSizePacket
  Misread = 2
  SizeBytes = 1
  ChunkSize = 2
  BufferSize = 3
  MCBufferSize = 3
INVARIANTS
  TypeOK
  TransferWithinBuffer
  RunningUnchanged
PROPERTIES
  OnlyFilesRun
  TransfersEnd
CHECK_DEADLOCK FALSE
