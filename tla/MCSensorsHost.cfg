SPECIFICATION FairSpec
CONSTANTS
  Registry <- MCRegistry
  Fake <- MCFake
  Categories <- MCCategories
  Channels <- MCChannels
  Category = {"Temperature", "Gyroscope"}
  Label = {"Temperature", "RelativeHumidity"}
  OtherLabel = "Other"
INVARIANTS
  TypeOK
  WaitIsExact
PROPERTIES
  WaitEnds
CHECK_DEADLOCK FALSE
