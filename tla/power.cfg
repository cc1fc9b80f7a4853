\* CAN commands and button presses at any time, halts of the Pi and resets at
\* any step.
SPECIFICATION FairSpec
CONSTANTS
  Short = 1
  Long = 3
  MaxCmd = 2
  MaxPress = 2
  MaxReset = 1
INVARIANT
  TypeOK
PROPERTIES
  ResetRestores
  LowIsNoticed
  HangsInHasteOnly
  ShutdownPulsed
CHECK_DEADLOCK FALSE
