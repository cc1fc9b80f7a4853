\* Any day of the last year that rtc.h has a number for.
SPECIFICATION RtcSpec
CONSTANTS
  Uptime = {0}
  Garbage = {7}
  SetYear = {99}
  MaxTick = 2
INVARIANT
  YearInCentury
CHECK_DEADLOCK FALSE
