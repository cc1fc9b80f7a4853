\* Any day of a leap year and of one that is not.
SPECIFICATION RtcSpec
CONSTANTS
  Uptime = {0}
  Garbage = {7}
  SetYear = {0, 1}
  MaxTick = 2
PROPERTY
  MidnightIsTomorrow
CHECK_DEADLOCK FALSE
