SPECIFICATION PSpec
CONSTANTS
  Script <- RebuildScript
  MaxBuilds = 1
INVARIANTS
  RebuiltExamplesStart
CHECK_DEADLOCK FALSE
