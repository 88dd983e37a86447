SPECIFICATION Spec
CONSTANTS
  ImageA = ImageA
  ImageB = ImageB
  PathP = PathP
  PathQ = PathQ
  Byte <- MCByte
  Path <- MCPath
  PutRequest <- HonestPuts
  MinBlock = 1
  WordSize = 16
SYMMETRY Symmetry
INVARIANTS
  TypeOK
  InPlace
  ContinueCanContinue
  AnswersTruthful
PROPERTIES
  PathsIndependent
  CapsuleStays
