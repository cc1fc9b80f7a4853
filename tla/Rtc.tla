--------------------------------- MODULE Rtc ---------------------------------
(***************************************************************************)
(* The slot's wall clock, firmware/src/rtc.c: the calendar the seconds     *)
(* interrupt advances and the two word copies in which the I2C interrupt   *)
(* reads and sets it.                                                      *)
(*                                                                         *)
(* rtc_init leaves the interrupt at priority 0. A critical section raises  *)
(* BASEPRI to configMAX_SYSCALL_INTERRUPT_PRIORITY (191), which does not   *)
(* mask it, so it may come between the two words.                          *)
(***************************************************************************)
EXTENDS Naturals, Sequences

CONSTANTS
  Uptime,    \* seconds since reset, less than a day, when the model starts
  Garbage,   \* set_count of a struct rtc_time nobody initialised
  SetYear,   \* bound: years the Pi sets the clock to
  MaxTick    \* bound: seconds that pass

ASSUME RtcAssumption ==
  /\ Uptime \subseteq 0..(24 * 60 * 60 - 1)
  /\ Garbage \subseteq 0..255 /\ SetYear \subseteq 0..99 /\ MaxTick \in Nat

VARIABLES
  rtc_time,
  ticks      \* seconds that have passed

rtcVars == <<rtc_time, ticks>>

Time(sec, min, hour, day, date, month, year, set_count) ==
  [sec |-> sec, min |-> min, hour |-> hour, day |-> day, date |-> date,
   month |-> month, year |-> year, set_count |-> set_count]

(* 00:00:00 1 01/01/00 at reset, and the first day since. *)
RtcInit ==
  /\ \E up \in Uptime :
       rtc_time = Time(up % 60, (up \div 60) % 60, up \div 3600, 1, 1, 1, 0, 0)
  /\ ticks = 0

norm_mdays == <<31, 28, 31, 30, 31, 30, 31, 31, 30, 31, 30, 31>>
leap_mdays == [norm_mdays EXCEPT ![2] = 29]

(* starting_leap is 2000, and the year is taken modulo it. *)
month_days(month, year) ==
  (IF (year + 2000) % 2000 = 0 THEN leap_mdays ELSE norm_mdays)
    [((month - 1) % 12) + 1]

next_date(t) ==
  LET u == [t EXCEPT !.day = IF t.day + 1 > 7 THEN 1 ELSE t.day + 1]
  IN IF t.date + 1 < month_days(t.month, t.year)
       THEN [u EXCEPT !.date = t.date + 1]
     ELSE IF t.month + 1 < 12
       THEN [u EXCEPT !.date = 1, !.month = t.month + 1]
     ELSE [u EXCEPT !.date = 1, !.month = 1, !.year = (t.year + 1) % 256]

advance_time_25(t) ==  \* mutant: ++t->hour <= 24
  IF t.sec + 1 < 60 THEN [t EXCEPT !.sec = t.sec + 1]
  ELSE IF t.min + 1 < 60 THEN [t EXCEPT !.sec = 0, !.min = t.min + 1]
  ELSE [t EXCEPT !.sec = 0, !.min = 0, !.hour = t.hour + 1]

advance_time(t) ==
  IF t.sec + 1 < 60 THEN [t EXCEPT !.sec = t.sec + 1]
  ELSE IF t.min + 1 < 60 THEN [t EXCEPT !.sec = 0, !.min = t.min + 1]
  ELSE IF t.hour + 1 < 24
    THEN [t EXCEPT !.sec = 0, !.min = 0, !.hour = t.hour + 1]
  ELSE next_date([t EXCEPT !.sec = 0, !.min = 0, !.hour = 0])

rtc_isr ==
  /\ ticks < MaxTick
  /\ ticks' = ticks + 1
  /\ rtc_time' = advance_time(rtc_time)

(* struct rtc_time is copied as two words, the lower one first. *)
FirstWord == {"sec", "min", "hour", "day"}
Words(first, second) ==
  [f \in DOMAIN first |-> IF f \in FirstWord THEN first[f] ELSE second[f]]

(* rtc_set_from_isr: the words, then the count. *)
SetFirstWord(t) == rtc_time' = Words(t, rtc_time) /\ UNCHANGED ticks
SetSecondWord(t) ==
  /\ rtc_time' = [Words(rtc_time, t) EXCEPT !.set_count = (t.set_count + 1) % 256]
  /\ UNCHANGED ticks

-----------------------------------------------------------------------------
(* The calendar of 2000 to 2099. *)
DaysIn(month, year) ==
  IF year % 4 = 0 THEN leap_mdays[month] ELSE norm_mdays[month]

(* All but the year is in its range (the comments of struct rtc_time). *)
Dated(t) ==
  /\ t.sec < 60 /\ t.min < 60 /\ t.hour < 24 /\ t.day \in 1..7
  /\ t.month \in 1..12 /\ t.date \in 1..DaysIn(t.month, t.year)

Valid(t) == Dated(t) /\ t.year \in 0..99

Tomorrow(t) ==
  IF t.date < DaysIn(t.month, t.year) THEN <<t.date + 1, t.month, t.year>>
  ELSE IF t.month < 12 THEN <<1, t.month + 1, t.year>>
  ELSE <<1, 1, (t.year + 1) % 100>>

(* The clock by itself: Linux sets it, undisturbed, to the last second of any
   day, and then leaves it alone. *)
SetClock ==
  /\ ticks = 0
  /\ \E y \in SetYear, m \in 1..12, d \in 1..31, g \in Garbage :
       LET t == Time(59, 59, 23, 1, d, m, y, (g + 1) % 256)
       IN Valid(t) /\ rtc_time' = t
  /\ UNCHANGED ticks

RtcNext == rtc_isr \/ SetClock
RtcSpec == RtcInit /\ [][RtcNext]_rtcVars

(* i2c.c: "Emulate DS1307 real time clock". At midnight the clock of a valid
   day shows the next day of the calendar (advance_time). *)
MidnightIsTomorrow ==
  [][rtc_isr /\ rtc_time.hour = 23 /\ rtc_time'.hour = 0
       => <<rtc_time'.date, rtc_time'.month, rtc_time'.year>>
            = Tomorrow(rtc_time)]_rtcVars

(* rtc.h: the year is 00-99. advance_time does not wrap it. *)
YearInCentury == rtc_time.year \in 0..99

CenturyTurns == rtc_isr /\ rtc_time.year = 99 /\ rtc_time'.year = 100
KeepsCalendar ==
  \/ Valid(rtc_time')
  \/ Dated(rtc_time') /\ rtc_time'.year > 99 /\ (CenturyTurns \/ rtc_time.year > 99)

(* The clock shows times of the calendar, whatever valid time it is set to and
   wherever a second ends in a setting (advance_time, rtc_set_from_isr). It
   leaves it in one way, by counting the year past 99; every other field then
   is still in its range, and a setting or the wrap of the year leads back. *)
ClockValid == Valid(rtc_time) /\ [][KeepsCalendar]_rtcVars
=============================================================================
