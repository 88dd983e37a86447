SPECIFICATION Spec
CONSTANTS
  Registry <- MCRegistry
  Fake <- MCFake
  Categories <- MCCategories
  Channels <- MCChannels
  Category = {"Temperature", "Gyroscope", "RelativeHumidity"}
  Label = {"Temperature", "RelativeHumidity"}
  OtherLabel = "Other"
INVARIANTS
  CategoryTriggered
CHECK_DEADLOCK FALSE
