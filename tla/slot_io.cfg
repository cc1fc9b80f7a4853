\* One full access to the clock, from the last second before
\* midnight, or short ones to the matrix with all its tasks at work.
SPECIFICATION BrambleSpec
CONSTANTS
  Uptime = {86399}
  Garbage = {7}
  SetYear = {}
  MaxTick = 2
  Row = {0, 6}
  Col = {0, 1}
  Font <- MCFont
  SlotAddress = 5
  MaxPulse = 1
  MaxRed = 1
  Base = {0, 8, 13}
  Byte <- MCByte
  MaxEvent = 26
  NR_CPUS = 1
  Sample <- MCSample
  Temperature = {85}
  Garbled = {0}
  LedArgs <- MCLedArgs
INVARIANTS
  ClockReadNear
  
  EachWriteOnce
  ShowsWhatIsPending
  GreenRests
  DisplayIsLast
PROPERTIES
  ClockValid
  PulseEnds
CONSTRAINT OneAtATime
CHECK_DEADLOCK FALSE
