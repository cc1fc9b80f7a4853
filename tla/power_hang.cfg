\* CAN commands alone, with a Pi that may halt at any moment.
SPECIFICATION FairSpec
CONSTANTS
  Short = 1
  Long = 3
  MaxCmd = 3
  MaxPress = 0
  MaxReset = 0
PROPERTY
  SetReturns
CHECK_DEADLOCK FALSE
