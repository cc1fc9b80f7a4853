--------------------------- MODULE Bramble_proofs ---------------------------
(***************************************************************************)
(* Proofs about the slot and its Pi (Bramble, with Nvram, Rtc and Matrix), *)
(* for any commands, any number of rows, columns, pulses, events and       *)
(* seconds, and any font: the clock stays on the calendar but for the end  *)
(* of its century and is read as it was, no change of the display is lost, *)
(* the activity LED rests, what is written over I2C is put exactly once,   *)
(* and the matrix ends up showing the last command.                        *)
(***************************************************************************)
EXTENDS Bramble, Integers, TLAPS

----------------------------------------------------------------------------
(* The clock: the seconds interrupt skips days of the calendar, but it     *)
(* leaves it only by counting past year 99, for any length of time.        *)

ClockFields == {"sec", "min", "hour", "day", "date", "month", "year", "set_count"}
DateOK(t) ==  \* but for the year, which is any of 8 bits
  /\ t \in [sec : 0..255, min : 0..255, hour : 0..255, day : 0..255, date : 0..255,
            month : 0..255, year : 0..255, set_count : 0..255]
  /\ Dated(t)
TimeOK(t) == DateOK(t) /\ t.year \in 0..99

LEMMA MonthTables ==
  /\ DOMAIN norm_mdays = 1..12 /\ DOMAIN leap_mdays = 1..12
  /\ \A m \in 1..12 : /\ norm_mdays[m] \in 28..31 /\ leap_mdays[m] \in 28..31
                      /\ norm_mdays[m] <= leap_mdays[m]
                      /\ m # 2 => norm_mdays[m] = leap_mdays[m]
BY DEF norm_mdays, leap_mdays

LEMMA MonthLength ==
  ASSUME NEW m, NEW y, m \in 1..12, y \in 0..255
  PROVE  DaysIn(m, y) \in 28..31
BY MonthTables DEF DaysIn

(* The firmware gives no month more days than the calendar does. *)
LEMMA NoDayTooMany ==
  ASSUME NEW m, NEW y, m \in 1..12, y \in 0..255
  PROVE  month_days(m, y) \in Nat /\ month_days(m, y) <= DaysIn(m, y)
<1>1. ((m - 1) % 12) + 1 = m
  OBVIOUS
<1>2. (y + 2000) % 2000 = 0 => y = 0
  OBVIOUS
<1>3. y = 0 => y % 4 = 0
  OBVIOUS
<1> QED
  BY <1>1, <1>2, <1>3, MonthTables DEF month_days, DaysIn

(* A clock that shows a valid time, and its fields. *)
LEMMA ValidTime ==
  ASSUME NEW sec, NEW min, NEW hour, NEW day, NEW date, NEW month, NEW year, NEW n,
         sec \in 0..59, min \in 0..59, hour \in 0..23, day \in 1..7,
         month \in 1..12, year \in 0..255, date \in 1..DaysIn(month, year),
         n \in 0..255
  PROVE  DateOK(Time(sec, min, hour, day, date, month, year, n))
<1>1. DaysIn(month, year) \in 28..31
  BY MonthLength
<1>2. date \in 0..255 /\ date <= DaysIn(month, year)
  BY <1>1
<1> DEFINE t == Time(sec, min, hour, day, date, month, year, n)
<1>3. /\ t.sec = sec /\ t.min = min /\ t.hour = hour /\ t.day = day
      /\ t.date = date /\ t.month = month /\ t.year = year
  BY DEF Time
<1>4. t \in [sec : 0..255, min : 0..255, hour : 0..255, day : 0..255, date : 0..255,
             month : 0..255, year : 0..255, set_count : 0..255]
  BY <1>2 DEF Time
<1> HIDE DEF t
<1>5. Dated(t)
  BY <1>3 DEF Dated
<1> QED
  BY <1>4, <1>5 DEF DateOK, t

LEMMA FieldsOf ==
  ASSUME NEW t, DateOK(t)
  PROVE  /\ t.sec \in 0..59 /\ t.min \in 0..59 /\ t.hour \in 0..23 /\ t.day \in 1..7
         /\ t.month \in 1..12 /\ t.year \in 0..255 /\ t.date \in 1..DaysIn(t.month, t.year)
         /\ t.set_count \in 0..255 /\ t.date \in 0..255
         /\ t = Time(t.sec, t.min, t.hour, t.day, t.date, t.month, t.year, t.set_count)
BY DEF DateOK, Dated, Time

(* Setting the time of day to midnight leaves the date a valid one. *)
LEMMA AtMidnight ==
  ASSUME NEW t, DateOK(t)
  PROVE  /\ DateOK([t EXCEPT !.sec = 0, !.min = 0, !.hour = 0])
         /\ [t EXCEPT !.sec = 0, !.min = 0, !.hour = 0].year = t.year
<1> DEFINE a == [t EXCEPT !.sec = 0]
           b == [a EXCEPT !.min = 0]
           u == [b EXCEPT !.hour = 0]
           R == [sec : 0..255, min : 0..255, hour : 0..255, day : 0..255, date : 0..255,
                 month : 0..255, year : 0..255, set_count : 0..255]
<1>1. t \in R /\ Dated(t)
  BY DEF DateOK
<1>2. /\ a \in R /\ a.sec = 0 /\ a.day = t.day
      /\ a.date = t.date /\ a.month = t.month /\ a.year = t.year
  BY <1>1
<1> HIDE DEF a
<1>3. /\ b \in R /\ b.sec = 0 /\ b.min = 0 /\ b.day = t.day
      /\ b.date = t.date /\ b.month = t.month /\ b.year = t.year
  BY <1>2
<1> HIDE DEF b
<1>4. /\ u \in R /\ u.sec = 0 /\ u.min = 0 /\ u.hour = 0 /\ u.day = t.day
      /\ u.date = t.date /\ u.month = t.month /\ u.year = t.year
  BY <1>3
<1> HIDE DEF u
<1>5. DateOK(u) /\ u.year = t.year
  BY <1>1, <1>4 DEF DateOK, Dated
<1> QED
  BY <1>5 DEF u, b, a

(* The next date of a valid date is valid. *)
LEMMA NextDateValid ==
  ASSUME NEW t, DateOK(t)
  PROVE  DateOK(next_date(t))
<1>0. /\ t.sec \in 0..59 /\ t.min \in 0..59 /\ t.hour \in 0..23 /\ t.day \in 1..7
      /\ t.month \in 1..12 /\ t.year \in 0..255 /\ t.date \in 1..DaysIn(t.month, t.year)
      /\ t.set_count \in 0..255 /\ t.date \in 0..255
      /\ t = Time(t.sec, t.min, t.hour, t.day, t.date, t.month, t.year, t.set_count)
  BY FieldsOf
<1> DEFINE day == IF t.day + 1 > 7 THEN 1 ELSE t.day + 1
<1>1. day \in 1..7
  BY <1>0
<1> HIDE DEF day
<1>2. CASE t.date + 1 < month_days(t.month, t.year)
  <2>1. next_date(t) = Time(t.sec, t.min, t.hour, day, t.date + 1, t.month, t.year, t.set_count)
    BY <1>2, <1>0 DEF next_date, Time, day
  <2>2. t.date + 1 \in 1..DaysIn(t.month, t.year)
    BY <1>2, <1>0, NoDayTooMany, MonthLength
  <2> QED
    BY <1>1, <2>1, <2>2, <1>0, ValidTime
<1>3. CASE ~(t.date + 1 < month_days(t.month, t.year)) /\ t.month + 1 < 12
  <2>1. next_date(t) = Time(t.sec, t.min, t.hour, day, 1, t.month + 1, t.year, t.set_count)
    BY <1>3, <1>0 DEF next_date, Time, day
  <2>2. t.month + 1 \in 1..12
    BY <1>3, <1>0
  <2>3. 1 \in 1..DaysIn(t.month + 1, t.year)
    BY <2>2, <1>0, MonthLength
  <2> QED
    BY <1>1, <2>1, <2>2, <2>3, <1>0, ValidTime
<1>4. CASE ~(t.date + 1 < month_days(t.month, t.year)) /\ ~(t.month + 1 < 12)
  <2> DEFINE year == (t.year + 1) % 256
  <2>1. next_date(t) = Time(t.sec, t.min, t.hour, day, 1, 1, year, t.set_count)
    BY <1>4, <1>0, ZenonT(60) DEF next_date, Time, day
  <2>2. year \in 0..255
    BY <1>0
  <2> HIDE DEF year
  <2>3. 1 \in 1..DaysIn(1, year)
    BY <2>2, MonthLength
  <2> QED
    BY <1>1, <2>1, <2>2, <2>3, <1>0, ValidTime
<1> QED
  BY <1>2, <1>3, <1>4

(* A second later every field but the year is still in its range. *)
LEMMA AdvanceKeepsDate ==
  ASSUME NEW t, DateOK(t)
  PROVE  DateOK(advance_time(t))
<1>0. /\ t.sec \in 0..59 /\ t.min \in 0..59 /\ t.hour \in 0..23 /\ t.day \in 1..7
      /\ t.month \in 1..12 /\ t.year \in 0..255 /\ t.date \in 1..DaysIn(t.month, t.year)
      /\ t.set_count \in 0..255 /\ t.date \in 0..255
      /\ t = Time(t.sec, t.min, t.hour, t.day, t.date, t.month, t.year, t.set_count)
  BY FieldsOf
<1>1. CASE t.sec + 1 < 60
  <2>1. advance_time(t) = Time(t.sec + 1, t.min, t.hour, t.day, t.date, t.month, t.year, t.set_count)
    BY <1>1, <1>0 DEF advance_time, Time
  <2>2. t.sec + 1 \in 0..59
    BY <1>1, <1>0
  <2> QED
    BY <2>1, <2>2, <1>0, ValidTime
<1>2. CASE ~(t.sec + 1 < 60) /\ t.min + 1 < 60
  <2>1. advance_time(t) = Time(0, t.min + 1, t.hour, t.day, t.date, t.month, t.year, t.set_count)
    BY <1>2, <1>0 DEF advance_time, Time
  <2>2. t.min + 1 \in 0..59 /\ 0 \in 0..59
    BY <1>2, <1>0
  <2> QED
    BY <2>1, <2>2, <1>0, ValidTime
<1>3. CASE ~(t.sec + 1 < 60) /\ ~(t.min + 1 < 60) /\ t.hour + 1 < 24
  <2>1. advance_time(t) = Time(0, 0, t.hour + 1, t.day, t.date, t.month, t.year, t.set_count)
    BY <1>3, <1>0 DEF advance_time, Time
  <2>2. t.hour + 1 \in 0..23 /\ 0 \in 0..59
    BY <1>3, <1>0
  <2> QED
    BY <2>1, <2>2, <1>0, ValidTime
<1>4. CASE ~(t.sec + 1 < 60) /\ ~(t.min + 1 < 60) /\ ~(t.hour + 1 < 24)
  <2>1. advance_time(t) = next_date([t EXCEPT !.sec = 0, !.min = 0, !.hour = 0])
    BY <1>4, <1>0 DEF advance_time
  <2> DEFINE u == [t EXCEPT !.sec = 0, !.min = 0, !.hour = 0]
  <2>2. DateOK(u)
    BY AtMidnight
  <2> HIDE DEF u
  <2>3. DateOK(next_date(u))
    BY <2>2, NextDateValid
  <2> QED
    BY <2>1, <2>3 DEF u
<1> QED
  BY <1>1, <1>2, <1>3, <1>4

(* The year is counted as 8 bits. *)
LEMMA YearAdvances ==
  ASSUME NEW t, DateOK(t)
  PROVE  advance_time(t).year \in {t.year, (t.year + 1) % 256}
<1>1. ASSUME NEW u, u = next_date([t EXCEPT !.sec = 0, !.min = 0, !.hour = 0])
      PROVE  u.year \in {t.year, (t.year + 1) % 256}
  <2> DEFINE v == [t EXCEPT !.sec = 0, !.min = 0, !.hour = 0]
  <2>1. DateOK(v) /\ v.year = t.year
    BY AtMidnight
  <2> HIDE DEF v
  <2>2. next_date(v).year \in {v.year, (v.year + 1) % 256}
    BY <2>1 DEF next_date, DateOK
  <2> QED
    BY <1>1, <2>1, <2>2 DEF v
<1>2. CASE t.sec + 1 < 60
  BY <1>2 DEF advance_time, DateOK
<1>3. CASE ~(t.sec + 1 < 60) /\ t.min + 1 < 60
  BY <1>3 DEF advance_time, DateOK
<1>4. CASE ~(t.sec + 1 < 60) /\ ~(t.min + 1 < 60) /\ t.hour + 1 < 24
  BY <1>4 DEF advance_time, DateOK
<1>5. CASE ~(t.sec + 1 < 60) /\ ~(t.min + 1 < 60) /\ ~(t.hour + 1 < 24)
  BY <1>1, <1>5 DEF advance_time
<1> QED
  BY <1>2, <1>3, <1>4, <1>5

(* A second after a valid time is a valid time, or the start of a year 100:
   advance_time rolls every field over where it should but the year
   (advance_time). *)
THEOREM AdvanceStaysValid ==
  ASSUME NEW t, TimeOK(t)
  PROVE  \/ TimeOK(advance_time(t))
         \/ t.year = 99 /\ DateOK(advance_time(t)) /\ advance_time(t).year = 100
<1>1. DateOK(advance_time(t)) /\ advance_time(t).year \in {t.year, (t.year + 1) % 256}
  BY AdvanceKeepsDate, YearAdvances DEF TimeOK
<1>2. t.year \in 0..99
  BY DEF TimeOK
<1>3. CASE t.year < 99
  <2>1. (t.year + 1) % 256 \in 0..99
    BY <1>2, <1>3
  <2> QED
    BY <1>1, <1>2, <2>1 DEF TimeOK
<1>4. CASE t.year = 99
  <2>1. (t.year + 1) % 256 = 100
    BY <1>4
  <2> QED
    BY <1>1, <1>2, <1>4, <2>1 DEF TimeOK
<1> QED
  BY <1>2, <1>3, <1>4

(* Two words of dates are a date. *)
LEMMA TornDate ==
  ASSUME NEW s, DateOK(s), NEW t, DateOK(t)
  PROVE  DateOK(Words(s, t))
<1> DEFINE w == Words(s, t)
<1>1. DOMAIN s = ClockFields
  BY DEF DateOK, ClockFields
<1>2. w = [f \in ClockFields |-> IF f \in FirstWord THEN s[f] ELSE t[f]]
  BY <1>1 DEF Words
<1>3. w = [sec |-> s.sec, min |-> s.min, hour |-> s.hour, day |-> s.day,
           date |-> t.date, month |-> t.month, year |-> t.year,
           set_count |-> t.set_count]
  BY <1>2 DEF ClockFields, FirstWord
<1> HIDE DEF w
<1> QED
  BY <1>3 DEF DateOK, Dated, w

LEMMA WordsYear ==
  ASSUME NEW s, DateOK(s), NEW t
  PROVE  Words(s, t).year = t.year
BY DEF Words, FirstWord, DateOK

(* A time set or read in two words, one from each of two valid times
   (rtc_set_from_isr, or a read cut in half by the interrupt), is valid: the
   words have no field of the calendar in common. *)
THEOREM TornStaysValid ==
  ASSUME NEW s, TimeOK(s), NEW t, TimeOK(t)
  PROVE  TimeOK(Words(s, t))
<1>1. DateOK(Words(s, t))
  BY TornDate DEF TimeOK
<1>2. Words(s, t).year = t.year
  BY WordsYear DEF TimeOK
<1> QED
  BY <1>1, <1>2 DEF TimeOK

LEMMA Bounds ==
  (\A y \in SetYear : y \in 0..255) /\ (\A g \in Garbage : g \in 0..255)
<1>1. SetYear \subseteq 0..99 /\ Garbage \subseteq 0..255
  BY RtcAssumption
<1>2. \A y : y \in 0..99 => y \in 0..255
  OBVIOUS
<1> QED
  BY <1>1, <1>2

(* The seconds of a day. *)
LEMMA DayLength == 24 * 60 * 60 = 86400
<1>1. 24 * 60 = 1440
  BY SMT
<1>2. 1440 * 60 = 86400
  BY SMT
<1> QED
  BY <1>1, <1>2, SMT

(* The time of day of an uptime of less than a day. *)
LEMMA DayTime ==
  ASSUME NEW n \in Nat, n < 86400
  PROVE  n % 60 \in 0..59 /\ (n \div 60) % 60 \in 0..59 /\ n \div 3600 \in 0..23
<1>1. n < 24 * 3600
  BY SMT
<1>2. n % 60 \in 0..59
  BY SMT
<1>3. (n \div 60) \in Nat
  BY SMT
<1>4. (n \div 60) % 60 \in 0..59
  BY <1>3, SMT
<1>5. n \div 3600 \in Nat /\ 3600 * (n \div 3600) <= n
  BY SMT
<1>6. n \div 3600 < 24
  BY <1>1, <1>5, SMT
<1>7. n \div 3600 \in 0..23
  BY <1>5, <1>6, SMT
<1> QED
  BY <1>2, <1>4, <1>7, SMT

LEMMA ClockInit == RtcInit => TimeOK(rtc_time)
<1> SUFFICES ASSUME NEW up \in Uptime,
               rtc_time = Time(up % 60, (up \div 60) % 60, up \div 3600, 1, 1, 1, 0, 0)
             PROVE  TimeOK(rtc_time)
  BY DEF RtcInit
<1>1. up \in 0..(24 * 60 * 60 - 1)
  BY RtcAssumption, Zenon
<1>2. up \in Nat /\ up < 86400
  <2>1. 24 * 60 * 60 \in Nat
    BY DayLength, SMT
  <2>2. \A d \in Nat : \A n \in 0..(d - 1) : n \in Nat /\ n < d
    BY SMT
  <2>3. up \in Nat /\ up < 24 * 60 * 60
    BY <1>1, <2>1, <2>2, Zenon
  <2> QED
    BY <2>3, DayLength, SMT
<1>3. up % 60 \in 0..59 /\ (up \div 60) % 60 \in 0..59 /\ up \div 3600 \in 0..23
  BY <1>2, DayTime, SMT
<1>4. 1 \in 1..DaysIn(1, 0)
  BY MonthLength
<1>5. DateOK(rtc_time)
  BY <1>3, <1>4, ValidTime
<1> QED
  BY <1>5 DEF TimeOK, Time

LEMMA TickKeeps ==
  ASSUME DateOK(rtc_time), rtc_isr
  PROVE  DateOK(rtc_time') /\ KeepsCalendar
<1>1. rtc_time' = advance_time(rtc_time)
  BY DEF rtc_isr
<1>2. DateOK(rtc_time')
  BY <1>1, AdvanceKeepsDate
<1> DEFINE y == rtc_time.year
           z == rtc_time'.year
<1>3. y \in 0..255 /\ z \in {y, (y + 1) % 256}
  <2>1. rtc_time.year \in 0..255
    BY DEF DateOK
  <2> QED
    BY <1>1, <2>1, YearAdvances
<1> HIDE DEF y, z
<1>4. z \in 0..99 \/ (z > 99 /\ (y > 99 \/ (y = 99 /\ z = 100)))
  <2>1. CASE y < 99
    BY <1>3, <2>1
  <2>2. CASE y = 99
    BY <1>3, <2>2
  <2>3. CASE y > 99
    BY <1>3, <2>3
  <2> QED
    BY <1>3, <2>1, <2>2, <2>3
<1>5. Dated(rtc_time')
  BY <1>2 DEF DateOK
<1> QED
  BY <1>2, <1>4, <1>5 DEF KeepsCalendar, CenturyTurns, Valid, y, z

(* The clock by itself, advance_time once a second after any setting, leaves the
   calendar only by counting past 99, though it skips days of it. *)
THEOREM StaysOnCalendar == RtcSpec => ClockValid
<1>1. RtcInit => DateOK(rtc_time) /\ Valid(rtc_time)
  BY ClockInit DEF TimeOK, DateOK, Valid
<1>2. DateOK(rtc_time) /\ [RtcNext]_rtcVars => DateOK(rtc_time)' /\ [KeepsCalendar]_rtcVars
  <2> SUFFICES ASSUME DateOK(rtc_time), [RtcNext]_rtcVars
               PROVE  DateOK(rtc_time') /\ [KeepsCalendar]_rtcVars
    OBVIOUS
  <2>1. CASE rtc_isr
    BY <2>1, TickKeeps
  <2>2. CASE SetClock
    <3>1. PICK y \in SetYear, m \in 1..12, d \in 1..31, g \in Garbage :
            LET t == Time(59, 59, 23, 1, d, m, y, (g + 1) % 256)
            IN Valid(t) /\ rtc_time' = t
      BY <2>2 DEF SetClock
    <3>2. y \in 0..255 /\ g \in 0..255
      BY <3>1, Bounds
    <3>3. (g + 1) % 256 \in 0..255
      BY <3>2
    <3>4. Valid(rtc_time')
      BY <3>1
    <3>5. DateOK(rtc_time')
      BY <3>1, <3>2, <3>3 DEF Time, DateOK, Valid
    <3> QED
      BY <3>4, <3>5 DEF KeepsCalendar
  <2>3. CASE UNCHANGED rtcVars
    BY <2>3 DEF rtcVars
  <2> QED
    BY <2>1, <2>2, <2>3 DEF RtcNext
<1> QED
  BY <1>1, <1>2, PTL DEF RtcSpec, ClockValid

----------------------------------------------------------------------------

TaskStep ==
  \/ Tasks(MatrixTask) \/ Tasks(GreenTask) \/ Tasks(InitTask)
  \/ Tasks(SetRed) \/ Tasks(RedSync) \/ Tasks(PulseGreen)

(* What the slot sees of a step: the Pi's commands are transactions to it. *)
LEMMA StepCases ==
  ASSUME [BrambleNext]_allVars
  PROVE  \/ Addressed \/ TxData \/ StopOrNack
         \/ \E reg : RxBase(reg)
         \/ \E val : RxData(val)
         \/ GetRest \/ PutRest \/ Second \/ TaskStep
         \/ UNCHANGED vars
<1>1. CASE Command
  BY <1>1 DEF Command, Measure, Fails, nvram_write, nvram_read, Request,
     update_display, sighandler, led_main, slot_get, version_main
<1>2. CASE SendStart \/ RepeatStart
  BY <1>2 DEF SendStart, RepeatStart, Transfer
<1>3. CASE SendRegister
  BY <1>3 DEF SendRegister, Transfer
<1>4. CASE SendByte
  BY <1>4 DEF SendByte, Transfer
<1>5. CASE TakeByte \/ Finish
  BY <1>5 DEF TakeByte, Transfer, Finish
<1>6. CASE I2c
  BY <1>6 DEF I2c
<1>7. CASE SlotNext
  BY <1>7 DEF SlotNext, TaskStep
<1>8. CASE UNCHANGED allVars
  BY <1>8 DEF allVars
<1> QED
  BY <1>1, <1>2, <1>3, <1>4, <1>5, <1>6, <1>7, <1>8 DEF BrambleNext, Transaction

----------------------------------------------------------------------------
(* The display.                                                            *)

(* ShowsWhatIsPending is not inductive. A change that matrix_task has not
   copied has somebody about to tell of it, or has been told of; what was
   copied is on the chip but for the rows still to be sent. *)
Announced ==
  \/ rpc = "sync" \/ gpc \in {"onSync", "offSync"}
  \/ ipc \in {"addressSync", "blankSync"}
  \/ mNotified \/ mpc \in {"config", "sync"}
CopyOnChip ==
  /\ mpc \in {"selftest", "take", "sync"} => update = {}
  /\ mpc # "config" => \A r \in AllRows \ update : shown[r] = visible[r]
GreenOnlyInPulse ==
  gpc \in {"take", "on", "offSync"} => Green \notin pending[Lights]

DisplayInv ==
  /\ MatrixTypeOK /\ CopyOnChip /\ GreenOnlyInPulse
  /\ pending = visible \/ Announced

LEMMA DisplayImplies ==
  ASSUME DisplayInv PROVE ShowsWhatIsPending /\ GreenRests
<1>1. ASSUME mpc = "take", ~mNotified, rpc # "sync", gpc \notin {"onSync", "offSync"},
             ipc \notin {"addressSync", "blankSync"}
      PROVE  shown = pending
  <2>1. pending = visible
    BY <1>1 DEF DisplayInv, Announced
  <2>2. \A r \in AllRows : shown[r] = visible[r]
    BY <1>1 DEF DisplayInv, CopyOnChip
  <2> QED
    BY <2>1, <2>2 DEF DisplayInv, MatrixTypeOK
<1>2. GreenRests
  BY DEF DisplayInv, GreenOnlyInPulse, GreenRests
<1> QED
  BY <1>1, <1>2 DEF ShowsWhatIsPending

LEMMA DisplayInit ==
  ASSUME MatrixInit PROVE DisplayInv
<1>1. Dark \in [AllRows -> SUBSET (0..7)] /\ Dark[Lights] = {}
  BY DEF Dark, AllRows
<1>2. 0 \in 0..MaxPulse /\ 0 \in 0..MaxRed
  BY MatrixAssumption
<1>3. MatrixTypeOK
  BY <1>1, <1>2 DEF MatrixInit, MatrixTypeOK
<1> QED
  BY <1>1, <1>3 DEF MatrixInit, DisplayInv, CopyOnChip, GreenOnlyInPulse

(* A picture leaves the row of the LEDs alone. *)
LEMMA PictureType ==
  ASSUME MatrixTypeOK, NEW cols
  PROVE  /\ matrix_xfrm(cols) \in [AllRows -> SUBSET (0..7)]
         /\ matrix_xfrm(cols)[Lights] = pending[Lights]
<1>1. Lights \notin Row /\ Lights \in AllRows
  BY MatrixAssumption DEF Lights, AllRows
<1>2. \A r \in AllRows : pending[r] \in SUBSET (0..7)
  BY DEF MatrixTypeOK
<1>3. \A r \in Row : {c \in Col : r \in cols[c]} \in SUBSET (0..7)
  <2>1. Col \subseteq 0..7
    BY MatrixAssumption
  <2> QED
    BY <2>1
<1>4. \A r \in AllRows : (IF r \in Row THEN {c \in Col : r \in cols[c]} ELSE pending[r])
                           \in SUBSET (0..7)
  BY <1>2, <1>3
<1> QED
  BY <1>1, <1>4 DEF matrix_xfrm

LEMMA LightType ==
  ASSUME MatrixTypeOK, NEW bit \in {Red, Green}, NEW on \in BOOLEAN, SetLight(bit, on)
  PROVE  /\ pending' \in [AllRows -> SUBSET (0..7)]
         /\ Green \in pending'[Lights]
              <=> IF bit = Green THEN on ELSE Green \in pending[Lights]
<1>1. Lights \in AllRows /\ Red \in 0..7 /\ Green \in 0..7 /\ Red # Green
  BY DEF AllRows, Lights, Red, Green
<1>2. pending \in [AllRows -> SUBSET (0..7)] /\ pending[Lights] \in SUBSET (0..7)
  BY <1>1 DEF MatrixTypeOK
<1>3. pending' = [pending EXCEPT ![Lights] =
                    IF on THEN pending[Lights] \cup {bit} ELSE pending[Lights] \ {bit}]
  BY DEF SetLight
<1>4. pending'[Lights] = IF on THEN pending[Lights] \cup {bit} ELSE pending[Lights] \ {bit}
  BY <1>1, <1>2, <1>3
<1>5. pending'[Lights] \in SUBSET (0..7)
  BY <1>1, <1>2, <1>4
<1>6. pending' \in [AllRows -> SUBSET (0..7)]
  BY <1>2, <1>3, <1>4, <1>5
<1> QED
  BY <1>1, <1>4, <1>6

(* matrix_task. *)
LEMMA MatrixTaskKeeps ==
  ASSUME DisplayInv, MatrixTask PROVE DisplayInv'
<1> USE DEF DisplayInv, MatrixTypeOK, CopyOnChip, GreenOnlyInPulse, Announced
<1>1. CASE Config
  BY <1>1 DEF Config, SyncFrame
<1>2. CASE SendRow
  <2> DEFINE r == CHOOSE r \in update : \A s \in update : r <= s
  <2>1. /\ mpc \in {"first", "send"} /\ shown' = [shown EXCEPT ![r] = visible[r]]
        /\ update' = update \ {r}
        /\ UNCHANGED <<pending, visible, mpc, gpc, rpc, ipc, mNotified, gNotified,
                       pulses, reds>>
    BY <1>2 DEF SendRow
  <2>2. \A s \in AllRows \ update' : shown'[s] = visible'[s]
    BY <2>1
  <2>3. shown' \in [AllRows -> SUBSET (0..7)]
    BY <2>1
  <2> HIDE DEF r
  <2> QED
    BY <2>1, <2>2, <2>3
<1>3. CASE SyncDone
  BY <1>3 DEF SyncDone
<1>4. CASE Selftest
  BY <1>4 DEF Selftest
<1>5. CASE MatrixTake
  BY <1>5 DEF MatrixTake
<1>6. CASE Sync
  <2>1. \A r \in AllRows \ update' : shown'[r] = visible'[r]
    BY <1>6 DEF Sync, SyncFrame
  <2> QED
    BY <1>6, <2>1 DEF Sync, SyncFrame
<1> QED
  BY <1>1, <1>2, <1>3, <1>4, <1>5, <1>6 DEF MatrixTask

(* The writers of the frame buffer. *)
LEMMA PictureKeeps ==
  ASSUME DisplayInv, NEW cols, matrix_set_from_isr(cols) PROVE DisplayInv'
<1>1. /\ pending' \in [AllRows -> SUBSET (0..7)]
      /\ pending'[Lights] = pending[Lights]
  BY PictureType DEF DisplayInv, matrix_set_from_isr
<1> QED
  BY <1>1 DEF DisplayInv, MatrixTypeOK, CopyOnChip, GreenOnlyInPulse, Announced,
     matrix_set_from_isr

LEMMA InitTaskKeeps ==
  ASSUME DisplayInv, InitTask PROVE DisplayInv'
<1>1. ASSUME NEW char, \/ InitSet("address", "addressSync", char)
                       \/ InitSet("blank", "blankSync", char)
      PROVE  DisplayInv'
  <2>1. /\ pending' \in [AllRows -> SUBSET (0..7)]
        /\ pending'[Lights] = pending[Lights]
    BY <1>1, PictureType DEF DisplayInv, InitSet
  <2> QED
    BY <1>1, <2>1 DEF DisplayInv, MatrixTypeOK, CopyOnChip, GreenOnlyInPulse,
       Announced, InitSet
<1>2. CASE InitSync("addressSync", "blank") \/ InitSync("blankSync", "done")
  BY <1>2 DEF DisplayInv, MatrixTypeOK, CopyOnChip, GreenOnlyInPulse, Announced, InitSync
<1> QED
  BY <1>1, <1>2 DEF InitTask

LEMMA LightsKeep ==
  ASSUME DisplayInv, SetRed \/ RedSync \/ PulseGreen \/ GreenTask PROVE DisplayInv'
<1> USE DEF DisplayInv, MatrixTypeOK, CopyOnChip, GreenOnlyInPulse, Announced
<1>1. CASE SetRed
  <2>1. /\ pending' \in [AllRows -> SUBSET (0..7)]
        /\ Green \in pending'[Lights] <=> Green \in pending[Lights]
    <3>1. PICK on \in BOOLEAN : SetLight(Red, on)
      BY <1>1 DEF SetRed
    <3> QED
      BY <3>1, LightType DEF Red, Green
  <2> QED
    BY <1>1, <2>1, MatrixAssumption DEF SetRed
<1>2. CASE RedSync
  BY <1>2 DEF RedSync
<1>3. CASE PulseGreen
  BY <1>3, MatrixAssumption DEF PulseGreen
<1>4. CASE GreenTake \/ GreenOnSync \/ GreenOffSync
  BY <1>4, ZenonT(60) DEF GreenTake, GreenOnSync, GreenOffSync, GreenSync, GreenStep
<1>5. CASE GreenOn
  <2>1. pending' \in [AllRows -> SUBSET (0..7)]
    BY <1>5, LightType DEF GreenOn, GreenSet
  <2> QED
    BY <1>5, <2>1 DEF GreenOn, GreenSet, GreenStep
<1>6. CASE GreenOff
  <2>1. pending' \in [AllRows -> SUBSET (0..7)] /\ Green \notin pending'[Lights]
    BY <1>6, LightType DEF GreenOff, GreenSet
  <2> QED
    BY <1>6, <2>1 DEF GreenOff, GreenSet, GreenStep
<1> QED
  BY <1>1, <1>2, <1>3, <1>4, <1>5, <1>6 DEF GreenTask

(* Whatever a step does to the display. *)
DisplayStep ==
  \/ MatrixTask \/ InitTask \/ SetRed \/ RedSync \/ PulseGreen \/ GreenTask
  \/ \E cols : matrix_set_from_isr(cols)
  \/ UNCHANGED matrixVars

LEMMA StepToDisplay ==
  ASSUME [BrambleNext]_allVars PROVE DisplayStep
<1>1. PutPictures => DisplayStep
  BY DEF PutPictures, DisplayStep
<1>2. CASE StopOrNack
  <2>1. UNCHANGED matrixVars \/ PutPictures
    BY <1>2 DEF StopOrNack
  <2> QED
    BY <1>1, <2>1 DEF DisplayStep
<1>3. CASE PutRest
  BY <1>1, <1>3 DEF PutRest
<1>4. CASE Addressed \/ TxData \/ GetRest \/ Second
  BY <1>4 DEF Addressed, TxData, GetRest, Second, DisplayStep
<1>5. CASE (\E reg : RxBase(reg)) \/ (\E val : RxData(val))
  BY <1>5 DEF RxBase, RxData, DisplayStep
<1>6. CASE TaskStep
  BY <1>6 DEF TaskStep, Tasks, DisplayStep
<1>7. CASE UNCHANGED vars
  BY <1>7 DEF vars, DisplayStep
<1> QED
  BY <1>2, <1>3, <1>4, <1>5, <1>6, <1>7, StepCases

LEMMA DisplayKeeps ==
  ASSUME DisplayInv, [BrambleNext]_allVars PROVE DisplayInv'
<1>1. DisplayStep
  BY StepToDisplay
<1>2. CASE UNCHANGED matrixVars
  BY <1>2 DEF matrixVars, DisplayInv, MatrixTypeOK, CopyOnChip, GreenOnlyInPulse,
     Announced
<1>3. CASE \E cols : matrix_set_from_isr(cols)
  BY <1>3, PictureKeeps
<1> QED
  BY <1>1, <1>2, <1>3, MatrixTaskKeeps, InitTaskKeeps, LightsKeep DEF DisplayStep

LEMMA DisplayCorrect == BrambleSpec => []DisplayInv
<1>1. BrambleInit => DisplayInv
  BY DisplayInit DEF BrambleInit, Init
<1>2. DisplayInv /\ [BrambleNext]_allVars => DisplayInv'
  BY DisplayKeeps
<1> QED
  BY <1>1, <1>2, PTL DEF BrambleSpec

(* No update of the display is lost: when matrix_task sleeps and nothing is
   about to wake it, the chip shows the frame buffer. *)
THEOREM NoUpdateLost == BrambleSpec => []ShowsWhatIsPending
<1>1. DisplayInv => ShowsWhatIsPending
  BY DisplayImplies
<1> QED
  BY <1>1, DisplayCorrect, PTL

(* The activity LED is off in the frame buffer whenever green_task rests. *)
THEOREM ActivityRests == BrambleSpec => []GreenRests
<1>1. DisplayInv => GreenRests
  BY DisplayImplies
<1> QED
  BY <1>1, DisplayCorrect, PTL

----------------------------------------------------------------------------
(* What is written over I2C.                                               *)

(* EachWriteOnce is not inductive: the regions that are dirty are those
   written to, one store ahead of their puts, and a flush that the seconds
   interrupt may split ends before the next transaction. *)
IsrFits ==
  \/ isr = Idle
  \/ isr.pc = "get" /\ phase # "free"
  \/ isr.pc = "put" /\ phase = "free"
PutInv ==
  /\ IsrFits
  /\ dirty = {r \in HasPut : Stored(r)}
  /\ stores \in [HasPut -> Nat] /\ puts \in [HasPut -> Nat]
  /\ \A r \in HasPut : stores[r] = puts[r] + IF r \in dirty THEN 1 ELSE 0
  /\ isr = Idle /\ phase = "free" => dirty = {}

LEMMA NothingStored == written = <<>> => \A r : ~Stored(r)
BY DEF Stored

(* One byte more written. *)
LEMMA WriteCounts ==
  ASSUME PutInv, NEW addr, NEW mem, NEW val, WriteByte(addr, mem, val)
  PROVE  /\ dirty' = {r \in HasPut : Stored(r)'}
         /\ stores' \in [HasPut -> Nat]
         /\ \A r \in HasPut : stores'[r] = puts[r] + IF r \in dirty' THEN 1 ELSE 0
<1>1. DOMAIN written' = {addr} \cup DOMAIN written
  BY DEF WriteByte, With
<1>2. \A r : Stored(r)' <=> r \in find_region_containing(addr) \/ Stored(r)
  BY <1>1 DEF Stored
<1>3. dirty' = dirty \cup (find_region_containing(addr) \cap HasPut)
  BY DEF WriteByte, MakesDirty
<1>4. dirty' = {r \in HasPut : Stored(r)'}
  BY <1>2, <1>3 DEF PutInv
<1>5. stores' = [r \in HasPut |->
                   stores[r] + IF r \in find_region_containing(addr) /\ ~Stored(r)
                                 THEN 1 ELSE 0]
  BY DEF WriteByte, MakesDirty
<1> QED
  BY <1>2, <1>3, <1>4, <1>5 DEF PutInv

LEMMA AccessKeeps ==
  ASSUME PutInv, NEW op, NEW mem, Access(op, mem), phase # "free", phase' # "free",
         IsrFits', UNCHANGED puts
  PROVE  PutInv'
<1>1. CASE op.read
  BY <1>1 DEF Access, ReadByte, PutInv, Stored
<1>2. CASE ~op.read
  <2>1. WriteByte(op.addr, mem, op.val)
    BY <1>2 DEF Access
  <2> QED
    BY <2>1, WriteCounts DEF PutInv
<1> QED
  BY <1>1, <1>2

LEMMA BeginKeeps ==
  ASSUME PutInv, NEW op, Begin(op), isr = Idle, phase # "free", phase' # "free", UNCHANGED puts
  PROVE  PutInv'
<1>1. CASE ToFetch(op.addr) \cap CopiesClock # {}
  BY <1>1 DEF Begin, PutInv, IsrFits, Stored
<1>2. CASE ToFetch(op.addr) \cap CopiesClock = {}
  <2>1. Access(op, Fetched(ToFetch(op.addr), rtc_time)) /\ UNCHANGED isr
    BY <1>2 DEF Begin
  <2>2. IsrFits'
    BY <2>1 DEF IsrFits
  <2> QED
    BY <2>1, <2>2, AccessKeeps
<1> QED
  BY <1>1, <1>2

LEMMA FlushKeeps ==
  ASSUME PutInv, Flushed, IsrFits', UNCHANGED stores
  PROVE  PutInv'
<1>1. \A r : ~Stored(r)'
  BY DEF Flushed, Stored
<1>2. dirty' = {} /\ dirty' = {r \in HasPut : Stored(r)'}
  BY <1>1 DEF Flushed
<1>3. puts' = [r \in HasPut |-> puts[r] + IF r \in dirty THEN 1 ELSE 0]
  BY DEF Flushed
<1> QED
  BY <1>2, <1>3 DEF PutInv

LEMMA PutKeeps ==
  ASSUME PutInv, [BrambleNext]_allVars PROVE PutInv'
<1>1. CASE Addressed
  BY <1>1 DEF Addressed, Event, PutInv, IsrFits, Stored, Idle
<1>2. CASE \E reg : RxBase(reg)
  BY <1>2 DEF RxBase, Event, PutInv, IsrFits, Stored, Idle
<1>3. CASE \E val : RxData(val)
  <2>1. PICK val : RxData(val)
    BY <1>3
  <2>2. /\ Begin([read |-> FALSE, addr |-> Here, val |-> val]) /\ isr = Idle
        /\ phase # "free" /\ phase' # "free" /\ UNCHANGED puts
    BY <2>1 DEF RxData, Event
  <2> QED
    BY <2>2, BeginKeeps
<1>4. CASE TxData
  <2>1. /\ Begin([read |-> TRUE, addr |-> Here]) /\ isr = Idle
        /\ phase # "free" /\ phase' # "free" /\ UNCHANGED puts
    BY <1>4 DEF TxData, Event
  <2> QED
    BY <2>1, BeginKeeps
<1>5. CASE StopOrNack
  <2>1. isr = Idle /\ phase' = "free" /\ UNCHANGED stores
    BY <1>5 DEF StopOrNack, Event
  <2>2. CASE Clock \in dirty
    BY <1>5, <2>1, <2>2 DEF StopOrNack, PutInv, IsrFits, Stored, Idle
  <2>3. CASE Clock \notin dirty
    <3>1. Flushed /\ UNCHANGED isr
      BY <1>5, <2>3 DEF StopOrNack
    <3> QED
      BY <2>1, <3>1, FlushKeeps DEF IsrFits
  <2> QED
    BY <2>2, <2>3
<1>6. CASE GetRest
  <2> DEFINE mem == Fetched(find_region_containing(isr.op.addr), Words(isr.first, rtc_time))
  <2>1. /\ isr.pc = "get" /\ Access(isr.op, mem) /\ isr' = Idle
        /\ UNCHANGED <<phase, puts>>
    BY <1>6 DEF GetRest
  <2>2. phase # "free" /\ IsrFits'
    BY <2>1 DEF PutInv, IsrFits, Idle
  <2> HIDE DEF mem
  <2> QED
    BY <2>1, <2>2, AccessKeeps
<1>7. CASE PutRest
  BY <1>7, FlushKeeps DEF PutRest, IsrFits
<1>8. CASE Second \/ TaskStep \/ UNCHANGED vars
  BY <1>8 DEF Second, TaskStep, Tasks, vars, i2cVars, busVars, PutInv, IsrFits, Stored
<1> QED
  BY <1>1, <1>2, <1>3, <1>4, <1>5, <1>6, <1>7, <1>8, StepCases

(* A transaction that wrote to a window of the slot puts it exactly once, even
   one that repeats a start or whose flush is torn by the seconds interrupt. *)
THEOREM PutOnce == BrambleSpec => []EachWriteOnce
<1>1. BrambleInit => PutInv
  BY DEF BrambleInit, Init, PutInv, IsrFits, Stored
<1>2. PutInv => EachWriteOnce
  <2> SUFFICES ASSUME PutInv, isr = Idle, phase = "free" PROVE puts = stores
    BY DEF EachWriteOnce
  <2>1. \A r \in HasPut : stores[r] = puts[r]
    BY DEF PutInv
  <2> QED
    BY <2>1 DEF PutInv
<1> QED
  BY <1>1, <1>2, PutKeeps, PTL DEF BrambleSpec

----------------------------------------------------------------------------
(* The cache. As long as the Pi does not repeat a start after writing data, *)
(* what is dirty is valid, so that no access reloads it.                   *)

LEMMA RegionsApart ==
  /\ \A a : \A q, r \in find_region_containing(a) : q = r
  /\ \A a : find_region_containing(a) # {} => a \in Address
<1>1. \A r \in Region : /\ r \in 0..48
                         /\ size[r] \in 1..22
                         /\ r + size[r] <= 56
                         /\ \A q \in Region : q < r => q + size[q] <= r
  BY DEF Region, size, Clock, Columns, Char, Slot, Version, Debug
<1>2. ASSUME NEW a, NEW q \in find_region_containing(a), NEW r \in find_region_containing(a)
      PROVE  q = r
  <2>1. q \in Region /\ r \in Region /\ a \in q..(q + size[q] - 1) /\ a \in r..(r + size[r] - 1)
    BY DEF find_region_containing
  <2> QED
    BY <1>1, <2>1, SMTT(40)
<1>3. ASSUME NEW a, find_region_containing(a) # {}
      PROVE  a \in Address
  <2>1. PICK r \in Region : a \in r..(r + size[r] - 1)
    BY <1>3 DEF find_region_containing
  <2> QED
    BY <1>1, <2>1 DEF Address, NVRAM_SIZE
<1> QED
  BY <1>2, <1>3

Windowed(a) == find_region_containing(a) \cap HasPut # {}
CacheInv ==
  /\ PutInv
  /\ phase = "write" =>
       /\ \A a \in DOMAIN written : Windowed(a) => nvram[a] = written[a]
       /\ dirty \subseteq valid
       /\ isr.pc = "get" => /\ find_region_containing(isr.op.addr) \subseteq valid
                            /\ find_region_containing(isr.op.addr) \cap dirty = {}

(* Loading regions that are not dirty takes away nothing that was written. *)
LEMMA FetchHolds ==
  ASSUME CacheInv, phase = "write", NEW R, NEW t, R \cap dirty = {},
         NEW a \in DOMAIN written, Windowed(a)
  PROVE  Fetched(R, t)[a] = written[a]
<1>1. PICK r \in find_region_containing(a) : r \in HasPut
  BY DEF Windowed
<1>2. r \in dirty
  BY <1>1 DEF CacheInv, PutInv, Stored
<1>3. find_region_containing(a) \cap R = {}
  BY <1>1, <1>2, RegionsApart
<1>4. a \in Address
  BY <1>1, RegionsApart
<1> QED
  BY <1>3, <1>4 DEF Fetched, CacheInv

LEMMA AccessHolds ==
  ASSUME CacheInv, NEW R, NEW t, NEW op, R \cap dirty = {}, Access(op, Fetched(R, t)),
         PutInv', find_region_containing(op.addr) \subseteq valid', valid \subseteq valid',
         isr' = Idle, phase = "write", UNCHANGED phase
  PROVE  CacheInv'
<1> DEFINE mem == Fetched(R, t)
<1>1. \A a \in DOMAIN written : Windowed(a) => mem[a] = written[a]
  BY FetchHolds
<1>2. dirty \subseteq valid
  BY DEF CacheInv
<1>3. isr'.pc # "get"
  BY DEF Idle
<1>4. CASE op.read
  <2>1. nvram' = mem /\ UNCHANGED <<dirty, written>>
    BY <1>4 DEF Access, ReadByte
  <2> HIDE DEF mem
  <2> QED
    BY <1>1, <1>2, <1>3, <2>1 DEF CacheInv, Windowed
<1>5. CASE ~op.read
  <2>1. /\ nvram' = [mem EXCEPT ![op.addr] = op.val]
        /\ dirty' = dirty \cup (find_region_containing(op.addr) \cap HasPut)
        /\ written' = [b \in DOMAIN written \cup {op.addr} |->
                         IF b = op.addr THEN op.val ELSE written[b]]
    BY <1>5 DEF Access, WriteByte, MakesDirty, With
  <2>2. mem = [a \in Address |-> mem[a]]
    BY DEF Fetched
  <2> HIDE DEF mem
  <2>3. ASSUME NEW a \in DOMAIN written', Windowed(a) PROVE nvram'[a] = written'[a]
    <3>1. a \in Address
      BY <2>3, RegionsApart DEF Windowed
    <3>2. CASE a = op.addr
      BY <2>1, <2>2, <3>1, <3>2
    <3>3. CASE a # op.addr
      BY <1>1, <2>1, <2>2, <2>3, <3>1, <3>3
    <3> QED
      BY <3>2, <3>3
  <2>4. dirty' \subseteq valid'
    BY <1>2, <2>1
  <2> QED
    BY <1>3, <2>3, <2>4 DEF CacheInv, Windowed
<1> QED
  BY <1>4, <1>5

LEMMA BeginHolds ==
  ASSUME CacheInv, NEW op, Begin(op), PutInv', isr = Idle, phase = "write",
         UNCHANGED phase
  PROVE  CacheInv'
<1> DEFINE R == ToFetch(op.addr)
<1>1. dirty \subseteq valid
  BY DEF CacheInv
<1>2. /\ R \cap valid = {} /\ R \cap dirty = {}
      /\ find_region_containing(op.addr) \subseteq valid \cup R
  BY <1>1 DEF ToFetch
<1>3. valid' = valid \cup R
  BY DEF Begin
<1>4. CASE R \cap CopiesClock # {}
  <2>1. /\ isr' = [pc |-> "get", op |-> op, first |-> rtc_time]
        /\ UNCHANGED <<nvram, dirty, written>>
    BY <1>4 DEF Begin
  <2>2. isr'.op = op
    BY <2>1
  <2>3. find_region_containing(op.addr) = R
    BY <1>4, RegionsApart DEF ToFetch
  <2> HIDE DEF R
  <2> QED
    BY <1>1, <1>2, <1>3, <2>1, <2>2, <2>3 DEF CacheInv, Windowed
<1>5. CASE R \cap CopiesClock = {}
  <2>1. Access(op, Fetched(R, rtc_time)) /\ UNCHANGED isr
    BY <1>5 DEF Begin
  <2> HIDE DEF R
  <2> QED
    BY <1>2, <1>3, <2>1, AccessHolds
<1> QED
  BY <1>4, <1>5

LEMMA CacheKeeps ==
  ASSUME CacheInv, [BrambleNext]_allVars PROVE CacheInv'
<1>0. PutInv'
  BY PutKeeps DEF CacheInv
<1>0a. CASE phase' # "write"
  BY <1>0, <1>0a DEF CacheInv
<1>1. CASE Addressed /\ phase' = "write"
  <2>1. isr = Idle /\ phase = "free" /\ UNCHANGED <<isr, dirty, written>>
    BY <1>1 DEF Addressed, Event
  <2>2. dirty = {} /\ isr'.pc # "get"
    BY <2>1 DEF CacheInv, PutInv, Idle
  <2>3. \A a \in DOMAIN written : ~Windowed(a)
    BY <2>2 DEF CacheInv, PutInv, Stored, Windowed
  <2> QED
    BY <1>0, <2>1, <2>2, <2>3 DEF CacheInv, Windowed
<1>2. CASE \E reg : RxBase(reg)
  BY <1>0, <1>2 DEF RxBase, Event, CacheInv, Windowed
<1>3. CASE \E val : RxData(val)
  <2>1. PICK val : RxData(val)
    BY <1>3
  <2> QED
    BY <1>0, <2>1, BeginHolds DEF RxData, Event
<1>4. CASE TxData \/ StopOrNack
  BY <1>0a, <1>4 DEF TxData, StopOrNack, Event
<1>6. CASE GetRest /\ phase' = "write"
  <2> DEFINE R == find_region_containing(isr.op.addr)
  <2>1. /\ isr.pc = "get" /\ Access(isr.op, Fetched(R, Words(isr.first, rtc_time)))
        /\ isr' = Idle /\ UNCHANGED <<valid, phase>>
    BY <1>6 DEF GetRest
  <2>2. phase = "write" /\ R \subseteq valid /\ R \cap dirty = {}
    BY <1>6, <2>1 DEF CacheInv
  <2> QED
    BY <1>0, <2>1, <2>2, AccessHolds
<1>7. CASE PutRest
  <2>1. phase' = "free"
    BY <1>7 DEF PutRest, CacheInv, PutInv, IsrFits, Idle
  <2> QED
    BY <1>0a, <2>1
<1>8. CASE Second \/ TaskStep \/ UNCHANGED vars
  BY <1>0, <1>8 DEF Second, TaskStep, Tasks, vars, i2cVars, busVars, CacheInv, Windowed
<1> QED
  BY <1>0a, <1>1, <1>2, <1>3, <1>4, <1>6, <1>7, <1>8, StepCases

(* As long as the Pi goes on writing no access takes what it wrote to a window
   out of the cache, whether or not it repeats starts. *)
THEOREM WritesStay == BrambleSpec => []CacheHoldsWrites
<1>1. BrambleInit => CacheInv
  BY DEF BrambleInit, Init, CacheInv, PutInv, IsrFits, Stored, Idle
<1>2. CacheInv => CacheHoldsWrites
  BY DEF CacheInv, Windowed, CacheHoldsWrites
<1> QED
  BY <1>1, <1>2, CacheKeeps, PTL DEF BrambleSpec

----------------------------------------------------------------------------
(* The clock over I2C.  A word is copied at once, and a copy of two words   *)
(* sees at most one second end: the first word in nvram[] is the clock's    *)
(* at one moment of the transaction and the second word its at that moment  *)
(* or the next.                                                             *)

SetsTime == isr.pc = "put" => TimeOK(isr.time)

(* The count does not matter to the calendar. *)
LEMMA CountedDate ==
  ASSUME NEW t, DateOK(t), NEW n \in 0..255
  PROVE  DateOK([t EXCEPT !.set_count = n]) /\ [t EXCEPT !.set_count = n].year = t.year
BY DEF DateOK, Dated

LEMMA ClockKeeps ==
  ASSUME DateOK(rtc_time), SetsTime, SetsTime', [BrambleNext]_allVars
  PROVE  DateOK(rtc_time)' /\ [KeepsCalendar]_rtcVars
<1>1. CASE Second
  BY <1>1, TickKeeps DEF Second
<1>2. CASE StopOrNack
  <2>1. CASE UNCHANGED rtcVars
    BY <2>1 DEF rtcVars
  <2>2. CASE \E t : isr' = [pc |-> "put", time |-> t] /\ SetFirstWord(t)
    <3>1. PICK t : isr' = [pc |-> "put", time |-> t] /\ SetFirstWord(t)
      BY <2>2
    <3>2. DateOK(t) /\ rtc_time' = Words(t, rtc_time)
      BY <3>1 DEF SetsTime, SetFirstWord, TimeOK
    <3>3. DateOK(rtc_time')
      BY <3>2, TornDate
    <3>4. rtc_time'.year = rtc_time.year /\ rtc_time.year \in 0..255 /\ Dated(rtc_time')
      BY <3>2, <3>3, WordsYear DEF DateOK
    <3>5. rtc_time.year \in 0..99 \/ rtc_time.year > 99
      BY <3>4
    <3> QED
      BY <3>3, <3>4, <3>5 DEF KeepsCalendar, Valid
  <2> QED
    BY <1>2, <2>1, <2>2 DEF StopOrNack
<1>3. CASE PutRest
  <2>1. /\ DateOK(isr.time) /\ isr.time.year \in 0..99
        /\ rtc_time' = [Words(rtc_time, isr.time) EXCEPT
                          !.set_count = (isr.time.set_count + 1) % 256]
    BY <1>3 DEF PutRest, SetSecondWord, SetsTime, TimeOK
  <2>2. isr.time.set_count \in 0..255
    BY <2>1, FieldsOf
  <2>3. (isr.time.set_count + 1) % 256 \in 0..255
    BY <2>2
  <2> DEFINE w == Words(rtc_time, isr.time)
             n == (isr.time.set_count + 1) % 256
  <2>4. DateOK(w) /\ w.year = isr.time.year
    BY <2>1, TornDate, WordsYear
  <2>5. rtc_time' = [w EXCEPT !.set_count = n] /\ n \in 0..255
    BY <2>1, <2>3
  <2> HIDE DEF w, n
  <2>6. DateOK(rtc_time') /\ rtc_time'.year = w.year
    BY <2>4, <2>5, CountedDate
  <2>7. Dated(rtc_time')
    BY <2>6 DEF DateOK
  <2>8. Valid(rtc_time')
    BY <2>1, <2>4, <2>6, <2>7 DEF Valid
  <2> QED
    BY <2>6, <2>8 DEF KeepsCalendar
<1>4. CASE UNCHANGED rtcVars
  BY <1>4 DEF rtcVars
<1>5. CASE Addressed \/ TxData \/ GetRest \/ TaskStep
  BY <1>4, <1>5 DEF Addressed, TxData, GetRest, TaskStep, Tasks
<1>6. CASE (\E reg : RxBase(reg)) \/ (\E val : RxData(val))
  BY <1>4, <1>6 DEF RxBase, RxData
<1>7. CASE UNCHANGED vars
  BY <1>4, <1>7 DEF vars
<1> QED
  BY <1>1, <1>2, <1>3, <1>5, <1>6, <1>7, StepCases

(* If what the Pi sets are valid times, the clock leaves the calendar only by
   counting past 99, wherever the seconds interrupt falls between the words of
   a setting (rtc_set_from_isr, advance_time). *)
THEOREM SettingStaysValid == BrambleSpec => ([]SetsTime => ClockValid)
<1>1. BrambleInit => DateOK(rtc_time) /\ Valid(rtc_time)
  BY ClockInit DEF BrambleInit, Init, TimeOK, DateOK, Valid
<1>2. DateOK(rtc_time) /\ SetsTime /\ SetsTime' /\ [BrambleNext]_allVars
        => DateOK(rtc_time)' /\ [KeepsCalendar]_rtcVars
  BY ClockKeeps
<1> QED
  BY <1>1, <1>2, PTL DEF BrambleSpec, ClockValid

IsSeq(s) == \E S : s \in Seq(S)
Near(f) ==
  \E i, j \in 1..Len(was) :
    /\ j \in {i, i + 1}
    /\ \A a \in 0..6 : f[a] = ClockBytes(Words(was[i], was[j]))[a + 1]
Copying == isr.pc = "get" /\ Clock \in find_region_containing(isr.op.addr)
Cached == Clock \in valid /\ ~Copying
CopyRecent ==
  \E i \in 1..Len(was) : isr.first = was[i] /\ (i = Len(was) \/ i + 1 = Len(was))

(* ClockReadNear is not inductive: what was read is what is in the cache, and
   that was copied, once in a transaction, from two recent values. *)
ReadInv ==
  /\ IsrFits /\ phase \in {"free", "read", "write"} /\ IsSeq(was)
  /\ phase # "free" => Len(was) > 0 /\ was[Len(was)] = rtc_time
  /\ isr.pc = "get" => /\ CopyRecent /\ (phase = "read" <=> isr.op.read)
                       /\ find_region_containing(isr.op.addr) \subseteq valid
  /\ phase = "read" /\ Cached => Near(nvram)
  /\ phase = "write" => DOMAIN heard = {}
  /\ phase = "read" => \A a \in DOMAIN heard \cap (0..6) : Cached /\ heard[a] = nvram[a]
  /\ 0..6 \subseteq DOMAIN heard => Near(heard)

LEMMA LongerSeq ==
  ASSUME NEW S, NEW s \in Seq(S), NEW x
  PROVE  /\ Append(s, x) \in Seq(S \cup {x}) /\ Len(s) \in Nat
         /\ Len(Append(s, x)) = Len(s) + 1 /\ Append(s, x)[Len(s) + 1] = x
         /\ \A i \in 1..Len(s) : Append(s, x)[i] = s[i]
<1>1. s \in Seq(S \cup {x})
  OBVIOUS
<1> QED
  BY <1>1

(* What was near the clock stays near it. *)
LEMMA NearStays ==
  ASSUME ReadInv, was' = was \/ \E t : was' = Append(was, t), NEW f, Near(f)
  PROVE  Near(f)'
<1>1. CASE was' = was
  BY <1>1 DEF Near
<1>2. CASE \E t : was' = Append(was, t)
  <2>1. PICK t, S : was' = Append(was, t) /\ was \in Seq(S)
    BY <1>2 DEF ReadInv, IsSeq
  <2>2. /\ Len(was) \in Nat /\ Len(was') = Len(was) + 1
        /\ \A i \in 1..Len(was) : was'[i] = was[i]
    BY <2>1, LongerSeq
  <2>3. \A i \in 1..Len(was) : i \in 1..Len(was')
    BY <2>2
  <2> QED
    BY <2>2, <2>3 DEF Near
<1> QED
  BY <1>1, <1>2

LEMMA ClockWindow ==
  ASSUME NEW R, NEW t, NEW a \in 0..6
  PROVE  /\ find_region_containing(a) = {Clock}
         /\ Clock \in R => Fetched(R, t)[a] = ClockBytes(t)[a + 1]
         /\ Clock \notin R => Fetched(R, t)[a] = nvram[a]
<1>1. Clock \in find_region_containing(a)
  BY DEF find_region_containing, Region, size, Clock, Columns, Char, Slot, Version, Debug
<1>2. find_region_containing(a) = {Clock}
  BY <1>1, RegionsApart
<1>3. a \in Address
  BY <1>2, RegionsApart
<1>4. Get(Clock, a, t) = ClockBytes(t)[a + 1]
  <2>1. /\ Clock \in CopiesClock /\ a - Clock + 1 = a + 1
        /\ Clock # Slot /\ Clock # Version
    BY DEF CopiesClock, Clock, Slot, Version
  <2> QED
    BY <2>1 DEF Get
<1>5. (CHOOSE r \in {Clock} : TRUE) = Clock
  OBVIOUS
<1> QED
  BY <1>2, <1>3, <1>4, <1>5 DEF Fetched

(* An access after which nvram[] holds what it should. *)
LEMMA AccessReads ==
  ASSUME ReadInv, NEW op, NEW mem, Access(op, mem), phase # "free", isr' = Idle,
         UNCHANGED <<phase, was, rtc_time>>,
         phase = "read" <=> op.read,
         phase = "read" /\ Clock \in valid' => Near(mem),
         \A a \in DOMAIN heard \cap (0..6) : mem[a] = nvram[a],
         valid \subseteq valid', find_region_containing(op.addr) \subseteq valid'
  PROVE  ReadInv'
<1>1. IsrFits' /\ isr'.pc # "get"
  BY DEF IsrFits, Idle
<1>2. CASE phase = "write"
  <2>1. DOMAIN heard = {}
    BY <1>2 DEF ReadInv
  <2>2. heard' = heard
    BY <1>2 DEF Access, WriteByte
  <2>3. ~(0..6 \subseteq DOMAIN heard')
    <3>1. 0 \in 0..6
      OBVIOUS
    <3> QED
      BY <2>1, <2>2, <3>1
  <2> QED
    BY <1>1, <1>2, <2>1, <2>2, <2>3 DEF ReadInv
<1>3. CASE phase = "read"
  <2>1. /\ nvram' = mem
        /\ heard' = [b \in DOMAIN heard \cup {op.addr} |-> IF b = op.addr THEN mem[b] ELSE heard[b]]
    BY <1>3 DEF Access, ReadByte, With
  <2>2. ASSUME NEW a \in DOMAIN heard' \cap (0..6)
        PROVE  Clock \in valid' /\ heard'[a] = mem[a]
    <3>1. CASE a = op.addr
      BY <2>1, <3>1, ClockWindow
    <3>2. CASE a # op.addr
      <4>1. a \in DOMAIN heard \cap (0..6)
        BY <2>1, <3>2
      <4>2. Clock \in valid /\ heard[a] = nvram[a]
        BY <1>3, <4>1 DEF ReadInv, Cached
      <4> QED
        BY <2>1, <3>2, <4>1, <4>2
    <3> QED
      BY <3>1, <3>2
  <2>3. ASSUME 0..6 \subseteq DOMAIN heard' PROVE Near(heard)'
    <3>1. 0 \in 0..6
      OBVIOUS
    <3>2. Near(mem)
      BY <1>3, <2>2, <2>3, <3>1
    <3>3. \A a \in 0..6 : heard'[a] = mem[a]
      BY <2>2, <2>3
    <3> QED
      BY <3>2, <3>3 DEF Near
  <2>4. Cached' => Near(nvram)'
    BY <1>3, <2>1 DEF Cached, Near
  <2>5. Cached' <=> Clock \in valid'
    BY <1>1 DEF Cached, Copying
  <2>6. /\ IsSeq(was') /\ phase' = "read" /\ phase' # "free" /\ phase' # "write"
        /\ Len(was') > 0 /\ was'[Len(was')] = rtc_time'
    BY <1>3 DEF ReadInv
  <2>7. \A a \in DOMAIN heard' \cap (0..6) : Cached' /\ heard'[a] = nvram'[a]
    BY <2>1, <2>2, <2>5
  <2> QED
    BY <1>1, <2>3, <2>4, <2>6, <2>7 DEF ReadInv
<1> QED
  BY <1>2, <1>3 DEF ReadInv

LEMMA BeginReads ==
  ASSUME ReadInv, NEW op, Begin(op), isr = Idle, phase # "free", UNCHANGED <<phase, was, rtc_time>>,
         phase = "read" <=> op.read
  PROVE  ReadInv'
<1> PICK R : R = ToFetch(op.addr)
  OBVIOUS
<1>1. /\ valid' = valid \cup R /\ R = find_region_containing(op.addr) \ valid
      /\ find_region_containing(op.addr) \subseteq valid'
  BY DEF Begin, ToFetch
<1>2. isr.pc # "get"
  BY DEF Idle
<1>3. phase = "read" => \A a \in DOMAIN heard \cap (0..6) : Clock \in valid /\ heard[a] = nvram[a]
  BY DEF ReadInv, Cached
<1>4. phase = "write" => DOMAIN heard = {}
  BY DEF ReadInv
<1>5. CASE R \cap CopiesClock # {}
  <2>1. /\ isr' = [pc |-> "get", op |-> op, first |-> rtc_time]
        /\ UNCHANGED <<nvram, heard>>
    BY <1>5 DEF Begin
  <2>2. isr'.pc = "get" /\ isr'.op = op /\ isr'.first = rtc_time
    BY <2>1
  <2>3. CopyRecent'
    <3>1. PICK S : was \in Seq(S)
      BY DEF ReadInv, IsSeq
    <3>2. Len(was) > 0 /\ was[Len(was)] = rtc_time /\ Len(was) \in Nat
      BY <3>1 DEF ReadInv
    <3>3. Len(was) \in 1..Len(was)
      BY <3>2
    <3> QED
      BY <2>2, <3>2, <3>3 DEF CopyRecent
  <2>4. Clock \in valid => ~Copying'
    <3> SUFFICES ASSUME Clock \in valid, Clock \in find_region_containing(op.addr) PROVE FALSE
      BY <2>2 DEF Copying
    <3>1. PICK r \in R : TRUE
      BY <1>5
    <3>2. r = Clock
      BY <1>1, <3>1, RegionsApart
    <3> QED
      BY <1>1, <3>1, <3>2
  <2>5. Cached' => Clock \in valid
    <3>1. CASE Clock \in R
      BY <1>1, <2>2, <3>1 DEF Cached, Copying
    <3>2. CASE Clock \notin R
      BY <1>1, <3>2 DEF Cached
    <3> QED
      BY <3>1, <3>2
  <2>6. phase' = "read" /\ Cached' => Near(nvram)'
    BY <1>2, <2>1, <2>5 DEF ReadInv, Cached, Copying, Near
  <2>7. phase' = "read" => \A a \in DOMAIN heard' \cap (0..6) : Cached' /\ heard'[a] = nvram'[a]
    BY <1>1, <1>3, <2>1, <2>4 DEF Cached
  <2>8. 0..6 \subseteq DOMAIN heard' => Near(heard)'
    BY <2>1 DEF ReadInv, Near
  <2>9. IsrFits'
    BY <2>2 DEF IsrFits
  <2>10. /\ IsSeq(was') /\ phase' \in {"read", "write"} /\ phase' # "free"
         /\ Len(was') > 0 /\ was'[Len(was')] = rtc_time'
    BY DEF ReadInv
  <2>11. /\ (phase' = "read" <=> isr'.op.read)
         /\ find_region_containing(isr'.op.addr) \subseteq valid'
    BY <1>1, <2>2
  <2>12. phase' = "write" => DOMAIN heard' = {}
    BY <1>4, <2>1
  <2> QED
    BY <2>3, <2>6, <2>7, <2>8, <2>9, <2>10, <2>11, <2>12 DEF ReadInv
<1>6. CASE R \cap CopiesClock = {}
  <2> PICK mem : mem = Fetched(R, rtc_time)
    OBVIOUS
  <2>1. Access(op, mem) /\ isr' = Idle
    BY <1>6 DEF Begin
  <2>2. Clock \notin R
    BY <1>6 DEF CopiesClock
  <2>3. \A a \in 0..6 : mem[a] = nvram[a]
    BY <2>2, ClockWindow
  <2>4. phase = "read" /\ Clock \in valid' => Near(mem)
    <3> SUFFICES ASSUME phase = "read", Clock \in valid' PROVE Near(mem)
      OBVIOUS
    <3>1. Near(nvram)
      BY <1>1, <1>2, <2>2 DEF ReadInv, Cached, Copying
    <3> QED
      BY <2>3, <3>1, SMTT(40) DEF Near
  <2>5. \A a \in DOMAIN heard \cap (0..6) : mem[a] = nvram[a]
    BY <2>3
  <2>6. valid \subseteq valid'
    BY <1>1
  <2> QED
    BY <1>1, <2>1, <2>4, <2>5, <2>6, AccessReads
<1> QED
  BY <1>5, <1>6

(* The second word follows the first. *)
LEMMA CopyEnds ==
  ASSUME ReadInv, GetRest
  PROVE  ReadInv'
<1> PICK op : op = isr.op
  OBVIOUS
<1> PICK R : R = find_region_containing(op.addr)
  OBVIOUS
<1> PICK t : t = Words(isr.first, rtc_time)
  OBVIOUS
<1> PICK mem : mem = Fetched(R, t)
  OBVIOUS
<1>1. /\ isr.pc = "get" /\ Access(op, mem) /\ isr' = Idle
      /\ UNCHANGED <<phase, was, rtc_time, valid>>
  BY DEF GetRest, rtcVars
<1>2. /\ phase # "free" /\ CopyRecent /\ (phase = "read" <=> op.read) /\ R \subseteq valid
      /\ phase \in {"read", "write"}
  BY <1>1 DEF ReadInv, IsrFits, Idle
<1>3. Clock \in R => Near(mem)
  <2> SUFFICES ASSUME Clock \in R PROVE Near(mem)
    OBVIOUS
  <2>1. PICK i \in 1..Len(was) : isr.first = was[i] /\ (i = Len(was) \/ i + 1 = Len(was))
    BY <1>2 DEF CopyRecent
  <2>2. \A a \in 0..6 : mem[a] = ClockBytes(t)[a + 1]
    BY ClockWindow
  <2>3. PICK S : was \in Seq(S)
    BY DEF ReadInv, IsSeq
  <2>4. Len(was) \in 1..Len(was) /\ Len(was) \in {i, i + 1}
    BY <2>1, <2>3
  <2>5. t = Words(was[i], was[Len(was)])
    BY <1>2, <2>1 DEF ReadInv
  <2> QED
    BY <2>2, <2>4, <2>5 DEF Near
<1>4. \A a \in DOMAIN heard \cap (0..6) : mem[a] = nvram[a]
  <2>1. CASE phase = "read"
    <3> SUFFICES ASSUME NEW a \in DOMAIN heard \cap (0..6) PROVE mem[a] = nvram[a]
      OBVIOUS
    <3>1. Clock \notin R
      BY <1>1, <2>1 DEF ReadInv, Cached, Copying
    <3> QED
      BY <3>1, ClockWindow
  <2>2. CASE phase = "write"
    BY <2>2 DEF ReadInv
  <2> QED
    BY <1>2, <2>1, <2>2
<1>5. phase = "read" /\ Clock \in valid' => Near(mem)
  <2> SUFFICES ASSUME phase = "read", Clock \in valid, Clock \notin R PROVE Near(mem)
    BY <1>1, <1>3
  <2>1. Near(nvram)
    BY DEF ReadInv, Cached, Copying
  <2>2. \A a \in 0..6 : mem[a] = nvram[a]
    BY ClockWindow
  <2> QED
    BY <2>1, <2>2 DEF Near
<1> QED
  BY <1>1, <1>2, <1>4, <1>5, AccessReads

LEMMA ReadKeeps ==
  ASSUME ReadInv, [BrambleNext]_allVars PROVE ReadInv'
<1>0. PICK S : was \in Seq(S)
  BY DEF ReadInv, IsSeq
<1>1. CASE Addressed
  <2>1. /\ isr = Idle /\ isr' = Idle /\ was' = <<rtc_time>> /\ rtc_time' = rtc_time
        /\ valid' = {} /\ heard' = <<>> /\ phase' \in {"read", "write"}
    BY <1>1 DEF Addressed, Event, rtcVars
  <2>2. Len(was') = 1 /\ was'[1] = rtc_time' /\ IsSeq(was') /\ DOMAIN heard' = {}
    <3>1. <<rtc_time>> \in Seq({rtc_time}) /\ DOMAIN <<>> = {}
          /\ Len(<<rtc_time>>) = 1 /\ <<rtc_time>>[1] = rtc_time
      OBVIOUS
    <3> QED
      BY <2>1, <3>1 DEF IsSeq
  <2>3. isr'.pc # "get" /\ IsrFits' /\ ~Cached'
    BY <2>1 DEF Idle, IsrFits, Cached
  <2>4. 0 \in 0..6
    OBVIOUS
  <2> QED
    BY <2>1, <2>2, <2>3, <2>4 DEF ReadInv
<1>2. CASE \E reg : RxBase(reg)
  <2>1. isr.pc # "get"
    BY <1>2 DEF RxBase, Event, Idle
  <2>2. UNCHANGED <<rtc_time, nvram, valid, isr, heard, was, phase>>
    BY <1>2 DEF RxBase, Event, rtcVars
  <2> QED
    BY <2>1, <2>2 DEF ReadInv, IsrFits, Cached, Copying, Near
<1>3. CASE \E val : RxData(val)
  <2>1. PICK val : RxData(val)
    BY <1>3
  <2> PICK op : op = [read |-> FALSE, addr |-> Here, val |-> val]
    OBVIOUS
  <2>2. /\ Begin(op) /\ isr = Idle /\ phase = "write" /\ ~op.read
        /\ UNCHANGED <<phase, was, rtc_time>>
    BY <2>1 DEF RxData, Event, rtcVars
  <2> QED
    BY <2>2, BeginReads
<1>4. CASE TxData
  <2> PICK op : op = [read |-> TRUE, addr |-> Here]
    OBVIOUS
  <2>1. /\ Begin(op) /\ isr = Idle /\ phase = "read" /\ op.read
        /\ UNCHANGED <<phase, was, rtc_time>>
    BY <1>4 DEF TxData, Event, rtcVars
  <2> QED
    BY <2>1, BeginReads
<1>5. CASE StopOrNack \/ PutRest
  <2>1. /\ phase' = "free" /\ isr'.pc # "get" /\ UNCHANGED <<heard, was>>
        /\ isr' = Idle \/ isr'.pc = "put"
    BY <1>5 DEF StopOrNack, PutRest, Event, Idle, ReadInv, IsrFits
  <2> QED
    BY <1>0, <2>1 DEF ReadInv, IsrFits, Near
<1>6. CASE Second
  <2>1. /\ was' = Append(was, rtc_time') /\ (isr.pc = "get" => rtc_time = isr.first)
        /\ UNCHANGED <<phase, isr, valid, nvram, heard>>
    BY <1>6 DEF Second, i2cVars
  <2>2. /\ was' \in Seq(S \cup {rtc_time'}) /\ Len(was') = Len(was) + 1 /\ Len(was) \in Nat
        /\ was'[Len(was')] = rtc_time' /\ \A i \in 1..Len(was) : was'[i] = was[i]
    BY <1>0, <2>1, LongerSeq
  <2>3. isr.pc = "get" => CopyRecent'
    <3> SUFFICES ASSUME isr.pc = "get" PROVE CopyRecent'
      OBVIOUS
    <3>1. phase # "free"
      BY DEF ReadInv, IsrFits, Idle
    <3>2. Len(was) > 0 /\ was[Len(was)] = isr.first
      BY <2>1, <3>1 DEF ReadInv
    <3>3. Len(was) \in 1..Len(was') /\ was'[Len(was)] = isr'.first
      BY <2>1, <2>2, <3>2
    <3> QED
      BY <2>2, <3>3 DEF CopyRecent
  <2>4. phase = "read" /\ Cached => Near(nvram)'
    <3> PICK m : m = nvram
      OBVIOUS
    <3>1. phase = "read" /\ Cached => Near(m)'
      BY <2>1, NearStays DEF ReadInv
    <3> QED
      BY <2>1, <3>1, ZenonT(60) DEF Near
  <2>5. 0..6 \subseteq DOMAIN heard => Near(heard)'
    <3> PICK m : m = heard
      OBVIOUS
    <3>1. 0..6 \subseteq DOMAIN heard => Near(m)'
      BY <2>1, NearStays DEF ReadInv
    <3> QED
      BY <2>1, <3>1, ZenonT(60) DEF Near
  <2>6. IsrFits' /\ (Cached' <=> Cached)
    BY <2>1 DEF ReadInv, IsrFits, Cached, Copying
  <2>7. Len(was') > 0 /\ IsSeq(was')
    BY <2>2 DEF IsSeq
  <2> QED
    BY <2>1, <2>2, <2>3, <2>4, <2>5, <2>6, <2>7 DEF ReadInv
<1>7. CASE TaskStep \/ UNCHANGED vars
  <2>1. UNCHANGED <<rtc_time, nvram, valid, isr, heard, was, phase>>
    BY <1>7 DEF TaskStep, Tasks, vars, rtcVars, i2cVars, busVars
  <2> QED
    BY <2>1 DEF ReadInv, IsrFits, CopyRecent, Cached, Copying, Near
<1> QED
  BY <1>1, <1>2, <1>3, <1>4, <1>5, <1>6, <1>7, CopyEnds, StepCases

(* Of a clock read in one go, each word was the clock's at a moment of the
   transaction, the second at most one second after the first (nvram_get,
   rtc_get_from_isr). *)
THEOREM ReadsWhatWas == BrambleSpec => []ClockReadNear
<1>1. BrambleInit => ReadInv
  <2> SUFFICES ASSUME BrambleInit PROVE ReadInv
    OBVIOUS
  <2>1. /\ isr = Idle /\ phase = "free" /\ heard = <<>> /\ was = <<rtc_time>>
    BY DEF BrambleInit, Init
  <2>2. isr.pc # "get" /\ IsrFits /\ IsSeq(was) /\ DOMAIN heard = {}
    <3>1. <<rtc_time>> \in Seq({rtc_time}) /\ DOMAIN <<>> = {}
      OBVIOUS
    <3> QED
      BY <2>1, <3>1 DEF Idle, IsrFits, IsSeq
  <2>3. 0 \in 0..6
    OBVIOUS
  <2> QED
    BY <2>1, <2>2, <2>3 DEF ReadInv
<1>2. ReadInv /\ [BrambleNext]_allVars => ReadInv'
  BY ReadKeeps
<1>3. ReadInv => ClockReadNear
  <2> SUFFICES ASSUME ReadInv, 0..6 \subseteq DOMAIN heard
               PROVE  \E i, j \in DOMAIN was :
                        /\ j \in {i, i + 1}
                        /\ \A a \in 0..6 : heard[a] = ClockBytes(Words(was[i], was[j]))[a + 1]
    BY DEF ClockReadNear
  <2>1. DOMAIN was = 1..Len(was)
    BY DEF ReadInv, IsSeq
  <2> QED
    BY <2>1 DEF ReadInv, Near
<1> QED
  BY <1>1, <1>2, <1>3, PTL DEF BrambleSpec

----------------------------------------------------------------------------
(* The commands. What a picture comes to in bytes.                         *)

LEMMA PowersOfTwo ==
  /\ 2^0 = 1 /\ 2^1 = 2 /\ 2^2 = 4 /\ 2^3 = 8 /\ 2^4 = 16 /\ 2^5 = 32 /\ 2^6 = 64
  /\ 2^7 = 128
OBVIOUS

(* Seven binary digits, the lowest first. *)
LEMMA Digits ==
  ASSUME NEW a \in 0..1, NEW b \in 0..1, NEW c \in 0..1, NEW d \in 0..1,
         NEW e \in 0..1, NEW f \in 0..1, NEW g \in 0..1, NEW n,
         n = a + 2 * (b + 2 * (c + 2 * (d + 2 * (e + 2 * (f + 2 * g)))))
  PROVE  /\ n \in 0..127
         /\ n % 2 = a /\ (n \div 2) % 2 = b /\ (n \div 4) % 2 = c
         /\ (n \div 8) % 2 = d /\ (n \div 16) % 2 = e /\ (n \div 32) % 2 = f
         /\ (n \div 64) % 2 = g /\ (n \div 128) % 2 = 0
OBVIOUS

(* The bits of a byte, one by one. *)
LEMMA BitsAre ==
  ASSUME NEW n \in Nat, NEW S, S \subseteq 0..7,
         n % 2 = 1 <=> 0 \in S, ((n \div 2) % 2 = 1) <=> 1 \in S,
         (n \div 4) % 2 = 1 <=> 2 \in S, (n \div 8) % 2 = 1 <=> 3 \in S,
         (n \div 16) % 2 = 1 <=> 4 \in S, (n \div 32) % 2 = 1 <=> 5 \in S,
         (n \div 64) % 2 = 1 <=> 6 \in S, (n \div 128) % 2 = 1 <=> 7 \in S
  PROVE  Bits(n) = S
<1> DEFINE P(k) == (n \div 2^k) % 2 = 1 <=> k \in S
<1>0. n \div 1 = n
  OBVIOUS
<1>1. P(0)
  BY <1>0, PowersOfTwo
<1>2. P(1) /\ P(2) /\ P(3)
  BY PowersOfTwo
<1>3. P(4) /\ P(5) /\ P(6) /\ P(7)
  BY PowersOfTwo
<1> HIDE DEF P
<1>4. \A k \in 0..7 : P(k)
  <2>1. \A k \in 0..7 : k \in {0, 1, 2, 3, 4, 5, 6, 7}
    OBVIOUS
  <2> QED
    BY <1>1, <1>2, <1>3, <2>1, Zenon
<1>5. \A k \in S : k \in 0..7
  OBVIOUS
<1> QED
  BY <1>4, <1>5, Zenon DEF Bits, P

(* Every set of rows is the bits of a byte. *)
LEMMA BitsOfByte ==
  ASSUME NEW S, S \subseteq 0..6
  PROVE  ByteOf(S) \in 0..255 /\ Bits(ByteOf(S)) = S
<1> DEFINE bit(j) == IF j \in S THEN 1 ELSE 0
           n == bit(0) + 2 * (bit(1) + 2 * (bit(2) + 2 * (bit(3)
                  + 2 * (bit(4) + 2 * (bit(5) + 2 * bit(6))))))
<1>1. \A j : bit(j) \in 0..1 /\ (bit(j) = 1 <=> j \in S)
  OBVIOUS
<1>2. 7 \notin S /\ S \subseteq 0..7
  OBVIOUS
<1> HIDE DEF bit
<1>3. /\ n \in 0..127
      /\ n % 2 = bit(0) /\ (n \div 2) % 2 = bit(1) /\ (n \div 4) % 2 = bit(2)
      /\ (n \div 8) % 2 = bit(3) /\ (n \div 16) % 2 = bit(4) /\ (n \div 32) % 2 = bit(5)
      /\ (n \div 64) % 2 = bit(6) /\ (n \div 128) % 2 = 0
  BY <1>1, Digits
<1> HIDE DEF n
<1>4. n \in Nat /\ n \in 0..255
  BY <1>3
<1>5. /\ n % 2 = 1 <=> 0 \in S
      /\ (n \div 2) % 2 = 1 <=> 1 \in S
      /\ (n \div 4) % 2 = 1 <=> 2 \in S
      /\ (n \div 8) % 2 = 1 <=> 3 \in S
      /\ (n \div 16) % 2 = 1 <=> 4 \in S
      /\ (n \div 32) % 2 = 1 <=> 5 \in S
      /\ (n \div 64) % 2 = 1 <=> 6 \in S
      /\ (n \div 128) % 2 = 1 <=> 7 \in S
  BY <1>1, <1>2, <1>3, SMTT(40)
<1>6. Bits(n) = S
  BY <1>2, <1>4, <1>5, BitsAre, ZenonT(60)
<1> QED
  BY <1>4, <1>6, Zenon DEF ByteOf

LEMMA NoBits == Bits(0) = {}
<1> SUFFICES ASSUME NEW n, NEW S, n = 0, S = {} PROVE Bits(n) = S
  OBVIOUS
<1>1. n \in Nat /\ S \subseteq 0..7
  OBVIOUS
<1>2. /\ n % 2 = 1 <=> 0 \in S
      /\ (n \div 2) % 2 = 1 <=> 1 \in S
      /\ (n \div 4) % 2 = 1 <=> 2 \in S
      /\ (n \div 8) % 2 = 1 <=> 3 \in S
      /\ (n \div 16) % 2 = 1 <=> 4 \in S
      /\ (n \div 32) % 2 = 1 <=> 5 \in S
      /\ (n \div 64) % 2 = 1 <=> 6 \in S
      /\ (n \div 128) % 2 = 1 <=> 7 \in S
  OBVIOUS
<1> QED
  BY <1>1, <1>2, BitsAre, Zenon

(* The whole part of a quotient is m or more when m divisors fit. *)
LEMMA WholePart ==
  ASSUME NEW a \in Nat, NEW t \in Nat, t > 0, NEW m \in Nat
  PROVE  a \div t \in Nat /\ (a \div t >= m <=> a >= m * t)
<1> DEFINE q == a \div t
<1>1. q \in Nat /\ q * t <= a /\ a < (q + 1) * t
  OBVIOUS
<1> HIDE DEF q
<1>2. q >= m => q * t >= m * t
  BY <1>1
<1>3. q < m => (q + 1) * t <= m * t
  BY <1>1
<1>4. q * t \in Nat /\ m * t \in Nat /\ (q + 1) * t \in Nat
  BY <1>1
<1>5. a \div t \in Nat /\ (q >= m <=> a >= m * t)
  BY <1>1, <1>2, <1>3, <1>4 DEF q
<1> QED
  BY <1>5 DEF q

(* The busy time of a CPU does not shrink while its time grows. Otherwise
   create_bargraphs counts down from below 0 and lights the whole column. *)
CountersGrow ==
  \A s, t \in Sample : cpu_total(s) < cpu_total(t) => s.busy <= t.busy

(* The pixels of a load are what the load means. *)
LEMMA ColumnOfLoad ==
  ASSUME CountersGrow, NEW s \in Sample \cup {Unread}, NEW t \in Sample \cup {Unread}
  PROVE  Column(usage(s, t)) = BusyRows(s, t)
<1>1. \A x \in Sample \cup {Unread} : /\ x.busy \in Nat /\ x.idle \in Nat /\ x.iowait \in Nat
                                      /\ cpu_idle(x) \in Nat /\ cpu_total(x) \in Nat
                                      /\ cpu_total(x) = cpu_idle(x) + x.busy
                                      /\ (cpu_total(x) = 0 <=> x = Unread)
  <2> SUFFICES ASSUME NEW x \in Sample \cup {Unread}
               PROVE  /\ x.busy \in Nat /\ x.idle \in Nat /\ x.iowait \in Nat
                      /\ cpu_idle(x) \in Nat /\ cpu_total(x) \in Nat
                      /\ cpu_total(x) = cpu_idle(x) + x.busy
                      /\ (cpu_total(x) = 0 <=> x = Unread)
    OBVIOUS
  <2>1. x \in [busy : Nat, idle : Nat, iowait : Nat]
    BY BrambleAssumption DEF Unread
  <2>2. x.busy \in Nat /\ x.idle \in Nat /\ x.iowait \in Nat
        /\ x = [busy |-> x.busy, idle |-> x.idle, iowait |-> x.iowait]
    BY <2>1
  <2>3. x.busy = 0 /\ x.idle = 0 /\ x.iowait = 0 => x = Unread
    BY <2>2, Zenon DEF Unread
  <2>4. x = Unread => x.busy = 0 /\ x.idle = 0 /\ x.iowait = 0
    BY DEF Unread
  <2> QED
    BY <2>2, <2>3, <2>4 DEF cpu_idle, cpu_total
<1> DEFINE time == cpu_total(t) - cpu_total(s)
           busy == t.busy - s.busy
           n == usage(s, t)
<1>2. CASE Unread \notin {s, t} /\ time > 0
  <2>1. s \in Sample /\ t \in Sample /\ busy \in Nat /\ time \in Nat
    BY <1>1, <1>2 DEF CountersGrow
  <2>2. n = (7 * busy) \div time
    <3>1. time - (cpu_idle(t) - cpu_idle(s)) = busy
      BY <1>1
    <3>2. cpu_total(s) # 0 /\ cpu_total(t) # 0 /\ ~(time <= 0)
      BY <1>1, <1>2
    <3> QED
      BY <3>1, <3>2, Zenon DEF usage, floor7, NR_ROWS
  <2>3. 7 * busy \in Nat
    BY <2>1
  <2> HIDE DEF busy, time, n
  <2>4. ASSUME NEW j \in 0..6 PROVE 6 - j < n <=> 7 * busy >= (7 - j) * time
    <3>1. 7 - j \in Nat
      OBVIOUS
    <3>2. n \in Nat /\ (n >= 7 - j <=> 7 * busy >= (7 - j) * time)
      BY <1>2, <2>1, <2>2, <2>3, <3>1, WholePart
    <3> QED
      BY <3>2
  <2>5. n \in Nat
    BY <1>2, <2>1, <2>2, <2>3, WholePart
  <2>6. BusyRows(s, t) = {r \in 0..6 : 7 * busy >= (7 - r) * time}
    BY <1>2 DEF BusyRows, NR_ROWS, busy, time
  <2>7. Column(n) = {j \in 0..6 : 6 - j < n}
    BY <2>5 DEF Column, NR_ROWS
  <2> QED
    BY <2>4, <2>6, <2>7 DEF n
<1>3. CASE ~(Unread \notin {s, t} /\ time > 0)
  <2>1. n = 0
    BY <1>1, <1>3 DEF usage
  <2>2. Column(0) = {}
    BY DEF Column, NR_ROWS
  <2>3. BusyRows(s, t) = {}
    BY <1>3 DEF BusyRows
  <2> QED
    BY <2>1, <2>2, <2>3
<1> QED
  BY <1>2, <1>3

----------------------------------------------------------------------------
(* The commands on the bus. DisplayIsLast is not inductive: the bytes of a  *)
(* command are partly in nvram[], partly still to come, and together mean   *)
(* its picture; the frame buffer shows the last command's until the flush;  *)
(* and matrix_task is told of every change of the picture.                  *)

(* What bytes f, n of them, show when they are written to a window. *)
Encodes(reg, n, f, p) ==
  \/ reg = Char /\ n = 1 /\ f[1] \in 32..126 /\ p = Font(f[1])
  \/ reg = Columns /\ n = NR_COLS /\ \A c \in Col : Bits(f[c + 1]) = p[c]

(* The bytes of a write, sent or not. *)
Whole == [i \in 1..(offset + Len(bus.bytes)) |->
            IF i <= offset THEN nvram[base + (i - 1)] ELSE bus.bytes[i - offset]]

(* A write: before its first byte the cache is clean; from then on only its
   window is dirty, and valid, so that no access reloads it. *)
Writing ==
  /\ bus.reg \in {Columns, Char} /\ bus.wanted = 0 /\ bus.bytes \in Seq(0..255)
  /\ isr = Idle
  /\ IF bus.at = "bytes"
       THEN /\ phase = "write" /\ base = bus.reg /\ offset \in Nat
            /\ dirty = (IF offset = 0 THEN {} ELSE {bus.reg}) /\ dirty \subseteq valid
            /\ Encodes(bus.reg, offset + Len(bus.bytes), Whole, bus.picture)
       ELSE /\ <<bus.at, phase>> \in {<<"start", "free">>, <<"register", "write">>}
            /\ dirty = {}
            /\ Encodes(bus.reg, Len(bus.bytes), bus.bytes, bus.picture)

(* A read leaves the cache clean and the picture as it was. *)
Reading ==
  /\ bus.bytes = <<>> /\ bus.wanted \in Nat /\ bus.picture = drawn /\ dirty = {}
  /\ \/ bus.at = "take" /\ (isr = Idle \/ (isr.pc = "get" /\ isr.op.read))
     \/ bus.at \in {"start", "register", "repeat"} /\ bus.wanted > 0 /\ isr = Idle

BusFits ==  \* where the command is, the interrupt is
  \/ bus = Nobody /\ phase = "free" /\ isr = Idle /\ dirty = {}
  \/ /\ bus = [by |-> bus.by, at |-> bus.at, reg |-> bus.reg, bytes |-> bus.bytes,
               wanted |-> bus.wanted, picture |-> bus.picture]
     /\ ipc = "done" /\ (Writing \/ Reading)

BarFits ==  \* what usage-bargraph is about to write is what it means
  /\ bar.pc = "update" => /\ bar.bytes \in Seq(0..255)
                          /\ Encodes(Columns, Len(bar.bytes), bar.bytes, bar.picture)
  /\ bar.last = <<>> \/ bar.last \in [Cpu -> Sample \cup {Unread}]
  /\ bar = [pc |-> bar.pc, last |-> bar.last, bytes |-> bar.bytes, picture |-> bar.picture]

(* The frame buffer shows the last command, or the blank of init_task. *)
Drawn(f) == \A r \in Row : f[r] = {c \in Col : r \in drawn[c]}
RowsShow ==
  /\ ipc \in {"blankSync", "done"} => Drawn(pending)
  /\ ipc # "done" => bus = Nobody /\ drawn = Blank
RowsAnnounced ==  \* the picture alone: a light may be changing
  \/ \A r \in Row : pending[r] = visible[r]
  \/ mNotified \/ mpc \in {"config", "sync"} \/ ipc \in {"addressSync", "blankSync"}

DrawnInv ==
  /\ RowsAnnounced
  /\ bus # Anyone => BusFits /\ BarFits /\ RowsShow

LEMMA EncodesSame ==
  ASSUME NEW reg, NEW n, NEW f, NEW g, NEW p, Encodes(reg, n, f, p),
         \A i \in 1..n : f[i] = g[i]
  PROVE  Encodes(reg, n, g, p)
<1>1. CASE reg = Char /\ n = 1 /\ f[1] \in 32..126 /\ p = Font(f[1])
  <2>1. f[1] = g[1]
    BY <1>1
  <2> QED
    BY <1>1, <2>1, Zenon DEF Encodes
<1>2. CASE reg = Columns /\ n = NR_COLS /\ \A c \in Col : Bits(f[c + 1]) = p[c]
  <2>1. \A c \in Col : c + 1 \in 1..n
    BY <1>2, MatrixAssumption DEF NR_COLS
  <2>2. \A c \in Col : f[c + 1] = g[c + 1]
    BY <2>1
  <2> QED
    BY <1>2, <2>2, Zenon DEF Encodes
<1> QED
  BY <1>1, <1>2, Zenon DEF Encodes

LEMMA EncodedLength ==
  ASSUME NEW reg, NEW n, NEW f, NEW p, Encodes(reg, n, f, p)
  PROVE  (reg = Char /\ n = 1) \/ (reg = Columns /\ n = 5)
BY DEF Encodes, NR_COLS

(* The windows on the matrix hold no byte of the clock. *)
LEMMA WindowAt ==
  ASSUME NEW reg, NEW n, (reg = Char /\ n = 1) \/ (reg = Columns /\ n = 5), NEW k \in 0..(n - 1)
  PROVE  /\ (reg + k) % NVRAM_SIZE = reg + k /\ reg + k \in Address
         /\ find_region_containing(reg + k) = {reg}
         /\ reg \in HasPut /\ reg \notin CopiesClock /\ reg # Clock
<1>1. /\ (reg + k) % NVRAM_SIZE = reg + k /\ reg + k \in Address
  BY DEF NVRAM_SIZE, Address, Char, Columns
<1>2. reg \in Region /\ size[reg] = n /\ reg \in HasPut /\ reg \notin CopiesClock /\ reg # Clock
  BY DEF Region, size, Clock, Columns, Char, Slot, Version, Debug, HasPut, CopiesClock
<1>3. reg + k \in reg..(reg + size[reg] - 1)
  BY <1>2 DEF Char, Columns
<1>4. reg \in find_region_containing(reg + k)
  BY <1>2, <1>3, Zenon DEF find_region_containing
<1>5. find_region_containing(reg + k) = {reg}
  <2>1. \A q \in find_region_containing(reg + k) : q = reg
    BY <1>4, RegionsApart, Zenon
  <2> QED
    BY <1>4, <2>1
<1> QED
  BY <1>1, <1>2, <1>5

(* The request after a step of its transaction. *)
IsRequest(b) ==
  b = [by |-> b.by, at |-> b.at, reg |-> b.reg, bytes |-> b.bytes,
       wanted |-> b.wanted, picture |-> b.picture]
Staged(b, d, to, x, y) == d = [b EXCEPT !.at = to, !.bytes = x, !.wanted = y]

LEMMA NextStage ==
  ASSUME NEW b, NEW d, NEW to, NEW x, NEW y, IsRequest(b),
         Staged(b, d, to, x, y)
  PROVE  /\ IsRequest(d) /\ d.by = b.by /\ d.at = to /\ d.reg = b.reg
         /\ d.bytes = x /\ d.wanted = y /\ d.picture = b.picture
<1> DEFINE rec(at, bytes, wanted) ==
             [by |-> b.by, at |-> at, reg |-> b.reg, bytes |-> bytes, wanted |-> wanted,
              picture |-> b.picture]
<1>1. b = rec(b.at, b.bytes, b.wanted)
  BY DEF IsRequest
<1>2. /\ [rec(b.at, b.bytes, b.wanted) EXCEPT !.at = to] = rec(to, b.bytes, b.wanted)
      /\ [rec(to, b.bytes, b.wanted) EXCEPT !.bytes = x] = rec(to, x, b.wanted)
      /\ [rec(to, x, b.wanted) EXCEPT !.wanted = y] = rec(to, x, y)
  OBVIOUS
<1>3. d = rec(to, x, y)
  <2>1. d = [[[b EXCEPT !.at = to] EXCEPT !.bytes = x] EXCEPT !.wanted = y]
    BY DEF Staged
  <2> HIDE DEF rec
  <2> QED
    BY <1>1, <1>2, <2>1
<1>4. /\ d.by = b.by /\ d.at = to /\ d.reg = b.reg
      /\ d.bytes = x /\ d.wanted = y /\ d.picture = b.picture
  BY <1>3
<1>5. IsRequest(d)
  BY <1>3, <1>4, Zenon DEF IsRequest
<1> QED
  BY <1>4, <1>5

LEMMA GoingFits ==
  ASSUME BusFits, bus # Nobody
  PROVE  IsRequest(bus) /\ ipc = "done" /\ (Writing \/ Reading)
BY Zenon DEF BusFits, IsRequest

LEMMA IdleIs == Idle.pc = "idle" /\ Anyone.by = "anyone" /\ Nobody.by = "nobody" /\ Anyone # Nobody
<1>1. Idle.pc = "idle" /\ Anyone.by = "anyone" /\ Nobody.by = "nobody"
  BY DEF Idle, Anyone, Nobody
<1> QED
  BY <1>1

(* The start and the register address. *)
LEMMA SendStartFits ==
  ASSUME BusFits, bus # Anyone, SendStart
  PROVE  BusFits' /\ UNCHANGED <<matrixVars, drawn, bar>>
<1>1. /\ bus # Nobody /\ bus.at = "start" /\ Addressed /\ phase' = "write"
      /\ Staged(bus, bus', "register", bus.bytes, bus.wanted)
      /\ UNCHANGED <<bar, drawn>>
  BY DEF SendStart, Transfer, Going, Staged
<1>2. UNCHANGED <<matrixVars, dirty, isr>>
  BY <1>1 DEF Addressed
<1>3. IsRequest(bus) /\ ipc = "done" /\ (Writing \/ Reading)
  BY <1>1, GoingFits
<1>4. /\ IsRequest(bus') /\ bus'.at = "register" /\ bus'.reg = bus.reg
      /\ bus'.bytes = bus.bytes /\ bus'.wanted = bus.wanted /\ bus'.picture = bus.picture
  BY <1>1, <1>3, NextStage, SMT
<1>5. ipc' = "done"
  BY <1>2, <1>3 DEF matrixVars
<1>6. Writing => Writing'
  BY <1>1, <1>2, <1>4, Zenon DEF Writing
<1>7. Reading => Reading'
  BY <1>1, <1>2, <1>4, Zenon DEF Reading
<1> QED
  BY <1>1, <1>2, <1>3, <1>4, <1>5, <1>6, <1>7, Zenon DEF BusFits, IsRequest

LEMMA SendRegisterFits ==
  ASSUME BusFits, bus # Anyone, SendRegister
  PROVE  BusFits' /\ UNCHANGED <<matrixVars, drawn, bar>>
<1>1. PICK to : /\ (to = "bytes" /\ bus.wanted = 0) \/ (to = "repeat" /\ bus.wanted > 0)
                /\ Staged(bus, bus', to, bus.bytes, bus.wanted)
  <2>1. CASE Transfer("register", bus.wanted = 0 /\ RxBase(bus.reg), "bytes")
    BY <2>1 DEF Transfer, Staged
  <2>2. CASE Transfer("register", bus.wanted > 0 /\ RxBase(bus.reg), "repeat")
    BY <2>2 DEF Transfer, Staged
  <2> QED
    BY <2>1, <2>2 DEF SendRegister
<1>2. /\ bus # Nobody /\ bus.at = "register" /\ RxBase(bus.reg)
      /\ UNCHANGED <<bar, drawn>>
  BY DEF SendRegister, Transfer, Going
<1>3. /\ UNCHANGED <<matrixVars, dirty, isr>> /\ base' = bus.reg /\ offset' = 0
      /\ phase' = "write" /\ isr = Idle
  BY <1>2 DEF RxBase, Event
<1>4. IsRequest(bus) /\ ipc = "done" /\ (Writing \/ Reading)
  BY <1>2, GoingFits
<1>5. /\ IsRequest(bus') /\ bus'.at = to /\ bus'.reg = bus.reg
      /\ bus'.bytes = bus.bytes /\ bus'.wanted = bus.wanted /\ bus'.picture = bus.picture
  BY <1>1, <1>4, NextStage, SMT
<1>6. ipc' = "done"
  BY <1>3, <1>4 DEF matrixVars
<1>7. UNCHANGED <<matrixVars, drawn, bar>>
  BY <1>2, <1>3
<1>8. CASE Writing
  <2>1. /\ bus.reg \in {Columns, Char} /\ bus.wanted = 0 /\ bus.bytes \in Seq(0..255)
        /\ dirty = {} /\ Encodes(bus.reg, Len(bus.bytes), bus.bytes, bus.picture)
    BY <1>2, <1>8 DEF Writing
  <2>2. to = "bytes"
    BY <1>1, <2>1
  <2>3. offset' \in Nat /\ offset' + Len(bus'.bytes) = Len(bus.bytes)
    BY <1>3, <1>5, <2>1
  <2>4. \A i \in 1..Len(bus.bytes) : bus.bytes[i] = Whole'[i]
    BY <1>3, <1>5, <2>1, <2>3 DEF Whole
  <2>5. Encodes(bus.reg, Len(bus.bytes), Whole', bus.picture)
    BY <2>1, <2>4, EncodesSame
  <2>6. Writing'
    BY <1>3, <1>5, <2>1, <2>2, <2>3, <2>5 DEF Writing
  <2> QED
    BY <1>5, <1>6, <1>7, <2>6, Zenon DEF BusFits, IsRequest
<1>9. CASE Reading
  <2>1. /\ bus.wanted > 0 /\ bus.wanted \in Nat /\ bus.bytes = <<>>
        /\ bus.picture = drawn /\ dirty = {}
    BY <1>2, <1>9 DEF Reading
  <2>2. to = "repeat"
    BY <1>1, <2>1
  <2>3. Reading'
    BY <1>2, <1>3, <1>5, <2>1, <2>2 DEF Reading
  <2> QED
    BY <1>5, <1>6, <1>7, <2>3, Zenon DEF BusFits, IsRequest
<1> QED
  BY <1>4, <1>8, <1>9

(* One byte of a write: those sent are in nvram[], and stay there. *)
LEMMA SendByteFits ==
  ASSUME BusFits, bus # Anyone, SendByte
  PROVE  BusFits' /\ UNCHANGED <<matrixVars, drawn, bar>>
<1> DEFINE n == offset + Len(bus.bytes)
           addr == bus.reg + offset
           mem == Fetched(ToFetch(addr), rtc_time)
<1>1. /\ bus # Nobody /\ bus.at = "bytes" /\ bus.bytes # <<>> /\ RxData(Head(bus.bytes))
      /\ Staged(bus, bus', "bytes", Tail(bus.bytes), bus.wanted)
      /\ UNCHANGED <<bar, drawn>>
  BY DEF SendByte, Transfer, Going, Staged
<1>2. /\ UNCHANGED <<matrixVars, base>> /\ phase' = "write" /\ isr = Idle
      /\ offset' = (offset + 1) % 256
      /\ Begin([read |-> FALSE, addr |-> Here, val |-> Head(bus.bytes)])
  BY <1>1 DEF RxData, Event
<1>3. IsRequest(bus) /\ ipc = "done" /\ (Writing \/ Reading)
  BY <1>1, GoingFits
<1>4. /\ IsRequest(bus') /\ bus'.at = "bytes" /\ bus'.reg = bus.reg
      /\ bus'.bytes = Tail(bus.bytes) /\ bus'.wanted = bus.wanted /\ bus'.picture = bus.picture
  BY <1>1, <1>3, NextStage, SMT
<1>5. /\ bus.reg \in {Columns, Char} /\ bus.wanted = 0 /\ bus.bytes \in Seq(0..255)
      /\ base = bus.reg /\ offset \in Nat
      /\ dirty = (IF offset = 0 THEN {} ELSE {bus.reg}) /\ dirty \subseteq valid
      /\ Encodes(bus.reg, n, Whole, bus.picture)
  BY <1>1, <1>3 DEF Writing, Reading
<1>6. /\ Len(bus.bytes) \in Nat \ {0} /\ Head(bus.bytes) = bus.bytes[1]
      /\ Tail(bus.bytes) \in Seq(0..255) /\ Len(Tail(bus.bytes)) = Len(bus.bytes) - 1
      /\ \A i \in 1..Len(Tail(bus.bytes)) : Tail(bus.bytes)[i] = bus.bytes[i + 1]
  BY <1>1, <1>5
<1>7. (bus.reg = Char /\ n = 1) \/ (bus.reg = Columns /\ n = 5)
  BY <1>5, EncodedLength
<1>8. offset \in 0..(n - 1) /\ n \in 1..5
  BY <1>5, <1>6, <1>7
<1>9. /\ (bus.reg + offset) % NVRAM_SIZE = addr /\ addr \in Address
      /\ find_region_containing(addr) = {bus.reg}
      /\ bus.reg \in HasPut /\ bus.reg \notin CopiesClock
  BY <1>7, <1>8, WindowAt
<1>10. Here = addr
  BY <1>5, <1>9 DEF Here
<1> HIDE DEF n, addr, mem
<1>11. /\ valid' = valid \cup ToFetch(addr)
       /\ WriteByte(addr, mem, Head(bus.bytes)) /\ UNCHANGED isr
  <2>1. ToFetch(addr) \cap CopiesClock = {}
    BY <1>9 DEF ToFetch
  <2> QED
    BY <1>2, <1>10, <2>1 DEF Begin, Access, mem
<1>12. bus.reg \in valid' /\ dirty' = {bus.reg}
  BY <1>5, <1>9, <1>11 DEF WriteByte, MakesDirty, ToFetch
<1>13. /\ nvram'[addr] = bus.bytes[1]
       /\ \A a \in Address : a # addr /\ offset # 0 => nvram'[a] = nvram[a]
  <2>1. nvram' = [mem EXCEPT ![addr] = bus.bytes[1]]
    BY <1>6, <1>11 DEF WriteByte
  <2>2. mem = [a \in Address |-> mem[a]]
    BY DEF mem, Fetched
  <2>3. ASSUME offset # 0, NEW a \in Address PROVE mem[a] = nvram[a]
    <3>1. ToFetch(addr) = {}
      BY <1>5, <1>9, <2>3 DEF ToFetch
    <3> QED
      BY <2>3, <3>1 DEF mem, Fetched
  <2> QED
    BY <1>9, <2>1, <2>2, <2>3
<1>14. offset' = offset + 1 /\ offset' \in Nat /\ offset' # 0 /\ offset' + Len(bus'.bytes) = n
  <2>1. offset' = offset + 1
    BY <1>2, <1>8
  <2>2. Len(bus'.bytes) = Len(bus.bytes) - 1
    BY <1>4, <1>6
  <2>3. n = offset + Len(bus.bytes) /\ offset \in Nat /\ Len(bus.bytes) \in Nat
    BY <1>5, <1>6 DEF n
  <2>4. \A m \in Nat, o \in Nat :
           (o + 1) + (m - 1) = o + m /\ o + 1 \in Nat /\ o + 1 # 0
    OBVIOUS
  <2>5. (offset + 1) + (Len(bus.bytes) - 1) = n /\ offset + 1 \in Nat /\ offset + 1 # 0
    BY <2>3, <2>4, Zenon
  <2> QED
    BY <2>1, <2>2, <2>5, Zenon
<1>15. ASSUME NEW i \in 1..n PROVE Whole[i] = Whole'[i]
  <2>1. Whole[i] = IF i <= offset THEN nvram[base + (i - 1)] ELSE bus.bytes[i - offset]
    BY DEF Whole, n
  <2>2. Whole'[i] = IF i <= offset' THEN nvram'[base' + (i - 1)] ELSE bus'.bytes[i - offset']
    BY <1>14 DEF Whole
  <2>3. CASE i <= offset
    <3>1. i <= offset' /\ offset # 0 /\ base + (i - 1) # addr /\ i - 1 \in 0..(n - 1)
      BY <1>5, <1>8, <1>14, <2>3 DEF addr, Columns, Char
    <3>2. base + (i - 1) \in Address
      BY <1>5, <1>7, <3>1, WindowAt
    <3> QED
      BY <1>2, <1>13, <2>1, <2>2, <2>3, <3>1, <3>2
  <2>4. CASE i = offset + 1
    <3>1. ~(i <= offset) /\ i <= offset' /\ base' + (i - 1) = addr /\ i - offset = 1
      BY <1>2, <1>5, <1>7, <1>14, <2>4 DEF addr, Columns, Char
    <3> QED
      BY <1>13, <2>1, <2>2, <3>1
  <2>5. CASE i > offset + 1
    <3>1. /\ ~(i <= offset) /\ ~(i <= offset')
          /\ i - offset' \in 1..Len(Tail(bus.bytes)) /\ i - offset' + 1 = i - offset
      BY <1>4, <1>5, <1>6, <1>14, <2>5 DEF n
    <3> QED
      BY <1>4, <1>6, <2>1, <2>2, <3>1
  <2> QED
    BY <1>5, <1>8, <2>3, <2>4, <2>5
<1>16. Encodes(bus.reg, n, Whole', bus.picture)
  BY <1>5, <1>15, EncodesSame DEF n
<1>17. Writing'
  <2>1. /\ bus'.reg \in {Columns, Char} /\ bus'.wanted = 0 /\ bus'.bytes \in Seq(0..255)
        /\ isr' = Idle /\ bus'.at = "bytes"
    BY <1>2, <1>4, <1>5, <1>6, <1>11
  <2>2. phase' = "write" /\ base' = bus'.reg /\ offset' \in Nat /\ offset' # 0
    BY <1>2, <1>4, <1>5, <1>14
  <2>3. dirty' = {bus'.reg} /\ dirty' \subseteq valid'
    BY <1>4, <1>12
  <2>4. Encodes(bus'.reg, offset' + Len(bus'.bytes), Whole', bus'.picture)
    BY <1>4, <1>14, <1>16, Zenon
  <2> QED
    BY <2>1, <2>2, <2>3, <2>4, Zenon DEF Writing
<1>18. ipc' = "done"
  BY <1>2, <1>3 DEF matrixVars
<1> QED
  BY <1>1, <1>2, <1>4, <1>17, <1>18, Zenon DEF BusFits, IsRequest

(* The bytes of a read. *)
LEMMA RepeatStartFits ==
  ASSUME BusFits, bus # Anyone, RepeatStart
  PROVE  BusFits' /\ UNCHANGED <<matrixVars, drawn, bar>>
<1>1. /\ bus # Nobody /\ bus.at = "repeat" /\ Addressed
      /\ Staged(bus, bus', "take", bus.bytes, bus.wanted)
      /\ UNCHANGED <<bar, drawn>>
  BY DEF RepeatStart, Transfer, Going, Staged
<1>2. UNCHANGED <<matrixVars, dirty, isr>> /\ isr = Idle
  BY <1>1 DEF Addressed, Event
<1>3. IsRequest(bus) /\ ipc = "done" /\ (Writing \/ Reading)
  BY <1>1, GoingFits
<1>4. /\ IsRequest(bus') /\ bus'.at = "take" /\ bus'.reg = bus.reg
      /\ bus'.bytes = bus.bytes /\ bus'.wanted = bus.wanted /\ bus'.picture = bus.picture
  BY <1>1, <1>3, NextStage, SMT
<1>5. ipc' = "done"
  BY <1>2, <1>3 DEF matrixVars
<1>6. Reading
  BY <1>1, <1>3 DEF Writing
<1>7. Reading'
  BY <1>1, <1>2, <1>4, <1>6 DEF Reading
<1> QED
  BY <1>1, <1>2, <1>4, <1>5, <1>7, Zenon DEF BusFits, IsRequest

LEMMA TakeByteFits ==
  ASSUME BusFits, bus # Anyone, TakeByte
  PROVE  BusFits' /\ UNCHANGED <<matrixVars, drawn, bar>>
<1> DEFINE op == [read |-> TRUE, addr |-> Here]
<1>1. /\ bus # Nobody /\ bus.at = "take" /\ bus.wanted > 0 /\ TxData
      /\ Staged(bus, bus', "take", bus.bytes, bus.wanted - 1)
      /\ UNCHANGED <<bar, drawn>>
  BY DEF TakeByte, Transfer, Going, Staged
<1>2. UNCHANGED matrixVars /\ isr = Idle /\ Begin(op)
  BY <1>1 DEF TxData, Event
<1>3. IsRequest(bus) /\ ipc = "done" /\ (Writing \/ Reading)
  BY <1>1, GoingFits
<1>4. /\ IsRequest(bus') /\ bus'.at = "take" /\ bus'.reg = bus.reg
      /\ bus'.bytes = bus.bytes /\ bus'.wanted = bus.wanted - 1 /\ bus'.picture = bus.picture
  BY <1>1, <1>3, NextStage, SMT
<1>5. ipc' = "done"
  BY <1>2, <1>3 DEF matrixVars
<1>6. Reading
  BY <1>1, <1>3 DEF Writing
<1>7. op.read
  OBVIOUS
<1> HIDE DEF op
<1>8. UNCHANGED dirty /\ (isr' = Idle \/ (isr'.pc = "get" /\ isr'.op.read))
  <2>1. CASE ToFetch(op.addr) \cap CopiesClock # {}
    BY <1>2, <1>7, <2>1 DEF Begin
  <2>2. CASE ToFetch(op.addr) \cap CopiesClock = {}
    BY <1>2, <1>7, <2>2 DEF Begin, Access, ReadByte
  <2> QED
    BY <2>1, <2>2
<1>9. bus'.wanted \in Nat
  BY <1>1, <1>4, <1>6 DEF Reading
<1>10. Reading'
  BY <1>1, <1>4, <1>6, <1>8, <1>9 DEF Reading
<1> QED
  BY <1>1, <1>2, <1>4, <1>5, <1>10, Zenon DEF BusFits, IsRequest

(* The end of a transaction: what was written is on its way to the display. *)
LEMMA FinishFits ==
  ASSUME BusFits, bus # Anyone, RowsShow, Finish
  PROVE  BusFits' /\ RowsShow'
<1>1. /\ bus # Nobody /\ bus.at \in {"bytes", "take"} /\ bus.bytes = <<>> /\ StopOrNack
      /\ bus' = Nobody /\ drawn' = bus.picture
  BY DEF Finish, Going
<1>2. bus = bus /\ ipc = "done" /\ (Writing \/ Reading)
  BY <1>1, GoingFits
<1>3. isr = Idle /\ phase' = "free"
  BY <1>1 DEF StopOrNack, Event
<1>4. Drawn(pending)
  BY <1>2 DEF RowsShow
<1>5. CASE Writing
  <2>1. /\ base = bus.reg /\ offset \in Nat /\ bus.reg \in {Columns, Char}
        /\ dirty = (IF offset = 0 THEN {} ELSE {bus.reg})
        /\ Encodes(bus.reg, offset + Len(bus.bytes), Whole, bus.picture)
    BY <1>1, <1>5 DEF Writing
  <2>2. offset + Len(bus.bytes) = offset
    BY <1>1, <2>1
  <2>3. Encodes(bus.reg, offset, Whole, bus.picture)
    BY <2>1, <2>2
  <2>4. dirty = {bus.reg}
    BY <2>1, <2>3, EncodedLength
  <2>5. Clock \notin dirty
    BY <2>1, <2>4 DEF Clock, Columns, Char
  <2>6. PutPictures /\ Flushed /\ UNCHANGED isr
    BY <1>1, <2>5 DEF StopOrNack
  <2>7. \A i \in 1..offset : Whole[i] = nvram[bus.reg + (i - 1)]
    BY <2>1, <2>2 DEF Whole
  <2>8. ipc' = "done" /\ Drawn(pending)'
    <3>1. CASE bus.reg = Char
      <4>1. Whole[1] \in 32..126 /\ bus.picture = Font(Whole[1]) /\ offset = 1
        BY <2>3, <3>1 DEF Encodes, Char, Columns
      <4>2. Whole[1] = nvram[Char]
        BY <2>7, <3>1, <4>1 DEF Char
      <4>3. nvram[Char] \in 32..127 /\ Char \in dirty
        BY <2>4, <3>1, <4>1, <4>2
      <4>4. matrix_set_from_isr(Font(nvram[Char]))
        BY <2>6, <4>3 DEF PutPictures
      <4>5. /\ pending' = matrix_xfrm(drawn') /\ ipc' = ipc
        BY <1>1, <4>1, <4>2, <4>4 DEF matrix_set_from_isr
      <4> QED
        BY <1>2, <4>5 DEF matrix_xfrm, Drawn, AllRows
    <3>2. CASE bus.reg = Columns
      <4> DEFINE cols == [c \in Col |-> Bits(nvram[Columns + c])]
      <4>1. offset = 5 /\ \A c \in Col : Bits(Whole[c + 1]) = bus.picture[c]
        BY <2>3, <3>2 DEF Encodes, Char, Columns, NR_COLS
      <4>2. ASSUME NEW c \in Col PROVE cols[c] = bus.picture[c]
        <5>1. c + 1 \in 1..offset /\ (c + 1) - 1 = c
          BY <4>1, MatrixAssumption
        <5>2. Whole[c + 1] = nvram[Columns + c]
          BY <2>7, <3>2, <5>1
        <5> QED
          BY <4>1, <5>2
      <4>3. Char \notin dirty /\ Columns \in dirty
        BY <2>4, <3>2 DEF Char, Columns
      <4>4. matrix_set_from_isr(cols)
        BY <2>6, <4>3 DEF PutPictures
      <4> HIDE DEF cols
      <4>5. pending' = matrix_xfrm(cols) /\ ipc' = ipc
        BY <4>4 DEF matrix_set_from_isr
      <4>6. \A r \in Row : pending'[r] = {c \in Col : r \in cols[c]}
        BY <4>5 DEF matrix_xfrm, AllRows
      <4>7. \A r \in Row : {c \in Col : r \in cols[c]} = {c \in Col : r \in drawn'[c]}
        BY <1>1, <4>2
      <4> QED
        BY <1>2, <4>5, <4>6, <4>7 DEF Drawn
    <3> QED
      BY <2>1, <3>1, <3>2
  <2>9. dirty' = {}
    BY <2>6 DEF Flushed
  <2> QED
    BY <1>1, <1>3, <2>6, <2>8, <2>9 DEF BusFits, RowsShow
<1>6. CASE Reading
  <2>1. dirty = {} /\ drawn' = drawn
    BY <1>1, <1>6 DEF Reading
  <2>2. PutPictures /\ Flushed /\ UNCHANGED isr
    BY <1>1, <2>1 DEF StopOrNack
  <2>3. UNCHANGED matrixVars
    BY <2>1, <2>2 DEF PutPictures
  <2>4. Drawn(pending)' /\ ipc' = "done"
    BY <1>2, <1>4, <2>1, <2>3 DEF Drawn, matrixVars
  <2>5. dirty' = {}
    BY <2>2 DEF Flushed
  <2> QED
    BY <1>1, <1>3, <2>2, <2>4, <2>5 DEF BusFits, RowsShow
<1> QED
  BY <1>2, <1>5, <1>6

(* The requests. *)
LEMMA RequestFits ==
  ASSUME BusFits, NEW by, NEW reg, NEW bytes, NEW wanted, NEW picture,
         Request(by, reg, bytes, wanted, picture),
         \/ /\ 8 + reg \in {Columns, Char} /\ wanted = 0 /\ bytes \in Seq(0..255)
            /\ Encodes(8 + reg, Len(bytes), bytes, picture)
         \/ bytes = <<>> /\ wanted \in Nat /\ wanted > 0 /\ picture = drawn
  PROVE  BusFits'
<1>1. /\ bus = Nobody /\ ipc = "done"
      /\ bus' = [by |-> by, at |-> "start", reg |-> 8 + reg, bytes |-> bytes,
                 wanted |-> wanted, picture |-> picture]
      /\ UNCHANGED <<vars, drawn>>
  BY DEF Request
<1>2. phase = "free" /\ isr = Idle /\ dirty = {}
  BY <1>1 DEF BusFits, Nobody
<1>3. phase' = "free" /\ isr' = Idle /\ dirty' = {} /\ ipc' = "done"
  BY <1>1, <1>2 DEF vars, i2cVars, busVars, matrixVars
<1>4. /\ bus'.by = by /\ bus'.at = "start" /\ bus'.reg = 8 + reg /\ bus'.bytes = bytes
      /\ bus'.wanted = wanted /\ bus'.picture = picture
  BY <1>1
<1>5. IsRequest(bus')
  BY <1>1, <1>4, Zenon DEF IsRequest
<1>6. CASE /\ 8 + reg \in {Columns, Char} /\ wanted = 0 /\ bytes \in Seq(0..255)
           /\ Encodes(8 + reg, Len(bytes), bytes, picture)
  <2>1. Writing'
    BY <1>3, <1>4, <1>6 DEF Writing
  <2> QED
    BY <1>3, <1>5, <2>1, Zenon DEF BusFits, IsRequest
<1>7. CASE bytes = <<>> /\ wanted \in Nat /\ wanted > 0 /\ picture = drawn
  <2>1. Reading'
    BY <1>1, <1>3, <1>4, <1>7 DEF Reading
  <2> QED
    BY <1>3, <1>5, <2>1, Zenon DEF BusFits, IsRequest
<1> QED
  BY <1>6, <1>7

(* A picture of the load is sent as it is meant. *)
LEMMA MeasureFits ==
  ASSUME CountersGrow, BarFits, Measure PROVE BarFits'
<1> DEFINE Lit(cur, n) ==
             [c \in 0..(NR_COLS - 1) |->
                IF c \in Cpu THEN Column(usage(bar.last[c], cur[c]))
                ELSE IF c = NR_CPUS THEN Column(n) ELSE {}]
           Sent(cur, n) == [i \in 1..NR_COLS |-> ByteOf(Lit(cur, n)[i - 1])]
           Meant(cur, n) ==
             [c \in Col |-> IF c \in Cpu THEN BusyRows(bar.last[c], cur[c])
                            ELSE Lit(cur, n)[c]]
           Bars(cur, n) == [pc |-> "update", last |-> cur, bytes |-> Sent(cur, n),
                            picture |-> Meant(cur, n)]
<1>1. PICK cur \in proc_stat_get_cpus :
        \/ bar.last = <<>> /\ bar' = [bar EXCEPT !.last = cur]
        \/ bar.last # <<>> /\ \E n \in TempColumn : bar' = Bars(cur, n)
  BY DEF Measure
<1>2. cur \in [Cpu -> Sample \cup {Unread}]
  <2>1. PICK n \in 0..NR_CPUS :
          \E f \in [0..(n - 1) -> Sample] : cur = [c \in Cpu |-> IF c < n THEN f[c] ELSE Unread]
    BY DEF proc_stat_get_cpus, read_proc_stat_cpu
  <2>2. PICK f \in [0..(n - 1) -> Sample] : cur = [c \in Cpu |-> IF c < n THEN f[c] ELSE Unread]
    BY <2>1
  <2>3. \A c \in Cpu : c < n => c \in 0..(n - 1)
    BY BrambleAssumption DEF Cpu
  <2> QED
    BY <2>2, <2>3
<1>3. bar.pc = "sample"
  BY DEF Measure
<1>4. CASE bar.last = <<>> /\ bar' = [bar EXCEPT !.last = cur]
  <2>1. bar = [pc |-> bar.pc, last |-> bar.last, bytes |-> bar.bytes, picture |-> bar.picture]
    BY DEF BarFits
  <2>2. bar' = [pc |-> bar.pc, last |-> cur, bytes |-> bar.bytes, picture |-> bar.picture]
    BY <1>4, <2>1
  <2> QED
    BY <1>2, <1>3, <2>2 DEF BarFits
<1>5. ASSUME bar.last # <<>>, NEW n, bar' = Bars(cur, n)
      PROVE  BarFits'
  <2> DEFINE bits == Lit(cur, n)
             bytes == Sent(cur, n)
             picture == Meant(cur, n)
  <2>1. \A m : Column(m) \subseteq 0..6
    BY DEF Column, NR_ROWS
  <2>2. \A c \in 0..4 : bits[c] \subseteq 0..6
    BY <2>1 DEF NR_COLS
  <2>3. \A c \in Col : c \in 0..4 /\ picture[c] = bits[c]
    <3> SUFFICES ASSUME NEW c \in Col PROVE c \in 0..4 /\ picture[c] = bits[c]
      OBVIOUS
    <3>1. c \in 0..4
      BY MatrixAssumption
    <3>2. CASE c \in Cpu
      <4>1. bar.last[c] \in Sample \cup {Unread} /\ cur[c] \in Sample \cup {Unread}
        BY <1>2, <1>5, <3>2 DEF BarFits
      <4>2. Column(usage(bar.last[c], cur[c])) = BusyRows(bar.last[c], cur[c])
        BY <4>1, ColumnOfLoad
      <4> QED
        BY <3>1, <3>2, <4>2 DEF NR_COLS
    <3>3. CASE c \notin Cpu
      BY <3>1, <3>3
    <3> QED
      BY <3>2, <3>3
  <2>0. bytes = [i \in 1..NR_COLS |-> ByteOf(bits[i - 1])]
    OBVIOUS
  <2> HIDE DEF bits, picture, bytes
  <2>4. ASSUME NEW c \in 0..4
        PROVE  bytes[c + 1] \in 0..255 /\ Bits(bytes[c + 1]) = bits[c]
    <3>1. ByteOf(bits[c]) \in 0..255 /\ Bits(ByteOf(bits[c])) = bits[c]
      BY <2>2, BitsOfByte
    <3>2. c + 1 \in 1..NR_COLS /\ (c + 1) - 1 = c
      BY DEF NR_COLS
    <3>3. bytes[c + 1] = ByteOf(bits[c])
      BY <2>0, <3>2
    <3> QED
      BY <3>1, <3>3
  <2>5. bytes \in Seq(0..255) /\ Len(bytes) = NR_COLS
    <3>1. \A i \in 1..5 : i - 1 \in 0..4 /\ (i - 1) + 1 = i
      OBVIOUS
    <3>2. \A i \in 1..5 : ByteOf(bits[i - 1]) \in 0..255
      BY <2>2, <3>1, BitsOfByte
    <3>3. 5 \in Nat /\ bytes \in [1..5 -> 0..255]
      BY <2>0, <3>2 DEF NR_COLS
    <3>4. bytes = [i \in 1..5 |-> bytes[i]] /\ \A i \in 1..5 : bytes[i] \in 0..255
      BY <3>3
    <3>5. bytes \in Seq(0..255) /\ Len(bytes) = 5
      BY <3>4
    <3> QED
      BY <3>5 DEF NR_COLS
  <2>6. \A c \in Col : Bits(bytes[c + 1]) = picture[c]
    BY <2>3, <2>4
  <2>7. Encodes(Columns, Len(bytes), bytes, picture)
    BY <2>5, <2>6, Zenon DEF Encodes
  <2>8. bar' = [pc |-> "update", last |-> cur, bytes |-> bytes, picture |-> picture]
    BY <1>5 DEF bytes, picture, bits
  <2>9. bar'.bytes = bytes /\ bar'.picture = picture /\ bar'.last = cur /\ bar'.pc = "update"
    BY <2>8
  <2> QED
    BY <1>2, <2>5, <2>7, <2>8, <2>9 DEF BarFits
<1> HIDE DEF Bars
<1> QED
  BY <1>1, <1>4, <1>5

LEMMA BarAtFits ==
  ASSUME BarFits, NEW pc, pc # "update", BarAt(pc) PROVE BarFits'
<1>1. bar = [pc |-> bar.pc, last |-> bar.last, bytes |-> bar.bytes, picture |-> bar.picture]
  BY DEF BarFits
<1> DEFINE rec(at, bytes, picture) ==
             [pc |-> at, last |-> bar.last, bytes |-> bytes, picture |-> picture]
<1>2. /\ [rec(bar.pc, bar.bytes, bar.picture) EXCEPT !.pc = pc] = rec(pc, bar.bytes, bar.picture)
      /\ [rec(pc, bar.bytes, bar.picture) EXCEPT !.bytes = <<>>] = rec(pc, <<>>, bar.picture)
      /\ [rec(pc, <<>>, bar.picture) EXCEPT !.picture = Blank] = rec(pc, <<>>, Blank)
  OBVIOUS
<1>3. bar = rec(bar.pc, bar.bytes, bar.picture)
  BY <1>1
<1>4. bar' = rec(pc, <<>>, Blank)
  <2>1. bar' = [[[bar EXCEPT !.pc = pc] EXCEPT !.bytes = <<>>] EXCEPT !.picture = Blank]
    BY DEF BarAt
  <2> HIDE DEF rec
  <2> QED
    BY <1>2, <1>3, <2>1
<1>5. bar' = [pc |-> pc, last |-> bar.last, bytes |-> <<>>, picture |-> Blank]
  BY <1>4
<1>6. bar'.pc = pc /\ bar'.last = bar.last /\ bar'.bytes = <<>> /\ bar'.picture = Blank
  BY <1>5
<1> QED
  BY <1>5, <1>6 DEF BarFits

LEMMA FitsStill ==
  ASSUME BusFits, UNCHANGED <<vars, drawn, bus>> PROVE BusFits'
<1>1. UNCHANGED <<phase, isr, dirty, valid, base, offset, nvram, ipc, drawn, bus>>
  BY DEF vars, i2cVars, busVars, matrixVars
<1>2. Whole' = Whole
  BY <1>1 DEF Whole
<1> QED
  BY <1>1, <1>2 DEF BusFits, Writing, Reading

LEMMA CommandFits ==
  ASSUME CountersGrow, BusFits, BarFits, bus # Anyone, Command
  PROVE  /\ BusFits' /\ BarFits' /\ UNCHANGED <<vars, drawn>>
         /\ bus' = bus \/ ipc = "done"
<1>1. CASE Measure
  <2>1. UNCHANGED <<vars, drawn, bus>>
    BY <1>1 DEF Measure
  <2> QED
    BY <1>1, <2>1, MeasureFits, FitsStill
<1>2. ASSUME NEW pc, pc # "update", Fails(pc)
      PROVE  BusFits' /\ BarFits' /\ UNCHANGED <<vars, drawn>> /\ bus' = bus
  BY <1>2, BarAtFits, FitsStill DEF Fails
<1>3. ASSUME NEW by, NEW reg, NEW bytes, NEW wanted, NEW picture,
             Request(by, reg, bytes, wanted, picture)
      PROVE  UNCHANGED <<vars, drawn>> /\ ipc = "done"
  BY <1>3 DEF Request
<1>4. CASE update_display
  <2>1. CASE Fails("sample")
    BY <1>2, <2>1
  <2>2. CASE /\ Request("bar", 0, bar.bytes, 0, bar.picture)
             /\ BarAt("writing")
    <3>1. bar.bytes \in Seq(0..255) /\ Encodes(Columns, Len(bar.bytes), bar.bytes, bar.picture)
      BY <1>4 DEF update_display, BarFits
    <3>2. 8 + 0 = Columns
      BY DEF Columns
    <3>3. BusFits'
      BY <2>2, <3>1, <3>2, RequestFits
    <3> QED
      BY <1>3, <2>2, <3>3, BarAtFits
  <2> QED
    BY <1>4, <2>1, <2>2 DEF update_display, nvram_write, NVRAM_MATRIX_COLUMNS_ADDR
<1>5. CASE sighandler
  <2>1. CASE Fails("blank") \/ Fails("gone")
    BY <1>2, <2>1
  <2>2. CASE /\ Request("bar", 0, [i \in 1..NR_COLS |-> 0], 0, Blank)
             /\ BarAt("blanking")
    <3> DEFINE zeros == [i \in 1..NR_COLS |-> 0]
    <3>1. zeros \in Seq(0..255) /\ Len(zeros) = NR_COLS
      BY DEF NR_COLS
    <3>2. \A c \in Col : Bits(zeros[c + 1]) = Blank[c]
      <4>1. \A c \in Col : c + 1 \in 1..NR_COLS
        BY MatrixAssumption DEF NR_COLS
      <4> QED
        BY <4>1, NoBits DEF Blank
    <3> HIDE DEF zeros
    <3>3. Encodes(Columns, Len(zeros), zeros, Blank)
      BY <3>1, <3>2, Zenon DEF Encodes
    <3>4. 8 + 0 = Columns
      BY DEF Columns
    <3>5. BusFits'
      BY <2>2, <3>1, <3>3, <3>4, RequestFits DEF zeros
    <3> QED
      BY <1>3, <2>2, <3>5, BarAtFits
  <2> QED
    BY <1>5, <2>1, <2>2 DEF sighandler, nvram_write, NVRAM_MATRIX_COLUMNS_ADDR
<1>6. CASE led_main
  <2>1. PICK a \in LedArgs :
          /\ Accepts(a)
          /\ Request("led", a.reg, a.bytes, 0,
               IF a.reg = NVRAM_MATRIX_CHAR_ADDR THEN Font(a.bytes[1])
               ELSE [c \in Col |-> Bits(a.bytes[c + 1])])
          /\ UNCHANGED bar
    BY <1>6 DEF led_main, nvram_write
  <2>2. /\ a.bytes \in Seq(0..255)
        /\ Len(a.bytes) = IF a.reg = NVRAM_MATRIX_CHAR_ADDR THEN 1 ELSE NR_COLS
    BY LedAssumption
  <2>3. CASE a.reg = NVRAM_MATRIX_CHAR_ADDR
    <3>1. a.bytes[1] \in 32..126 /\ 8 + a.reg = Char /\ Len(a.bytes) = 1
      BY <2>1, <2>2, <2>3 DEF Accepts, NVRAM_MATRIX_CHAR_ADDR, NVRAM_MATRIX_COLUMNS_ADDR, Char
    <3>2. Encodes(Char, 1, a.bytes, Font(a.bytes[1]))
      BY <3>1 DEF Encodes
    <3>3. BusFits'
      BY <2>1, <2>2, <2>3, <3>1, <3>2, RequestFits
    <3> QED
      BY <1>3, <2>1, <3>3 DEF BarFits
  <2>4. CASE a.reg # NVRAM_MATRIX_CHAR_ADDR
    <3> DEFINE picture == [c \in Col |-> Bits(a.bytes[c + 1])]
    <3>1. 8 + a.reg = Columns /\ Len(a.bytes) = NR_COLS
      BY <2>1, <2>2, <2>4 DEF Accepts, NVRAM_MATRIX_COLUMNS_ADDR, Columns
    <3>2. \A c \in Col : Bits(a.bytes[c + 1]) = picture[c]
      OBVIOUS
    <3> HIDE DEF picture
    <3>3. Encodes(Columns, Len(a.bytes), a.bytes, picture)
      BY <3>1, <3>2, Zenon DEF Encodes
    <3>4. BusFits'
      BY <2>1, <2>2, <2>4, <3>1, <3>3, RequestFits DEF picture
    <3> QED
      BY <1>3, <2>1, <3>4 DEF BarFits
  <2> QED
    BY <2>3, <2>4
<1>7. CASE slot_get
  <2>1. Request("slot", 6, <<>>, 1, drawn) /\ UNCHANGED bar
    BY <1>7 DEF slot_get, nvram_read, NVRAM_SLOT_ADDR
  <2>2. BusFits'
    BY <2>1, RequestFits
  <2> QED
    BY <1>3, <2>1, <2>2 DEF BarFits
<1>8. CASE version_main
  <2>1. Request("version", 7, <<>>, 22, drawn) /\ UNCHANGED bar
    BY <1>8 DEF version_main, nvram_read, NVRAM_VERSION_ADDR, size, Region, Version, Clock,
       Columns, Debug
  <2>2. BusFits'
    BY <2>1, RequestFits
  <2> QED
    BY <1>3, <2>1, <2>2 DEF BarFits
<1> QED
  BY <1>1, <1>4, <1>5, <1>6, <1>7, <1>8 DEF Command

LEMMA TransactionFits ==
  ASSUME BusFits, BarFits, RowsShow, bus # Anyone, Transaction
  PROVE  BusFits' /\ BarFits' /\ RowsShow'
<1>1. ipc = "done"
  <2>1. bus # Nobody
    BY DEF Transaction, SendStart, SendRegister, SendByte, RepeatStart, TakeByte, Finish,
       Transfer, Going
  <2> QED
    BY <2>1, GoingFits
<1>2. ASSUME BusFits', UNCHANGED <<matrixVars, drawn, bar>>
      PROVE  BusFits' /\ BarFits' /\ RowsShow'
  BY <1>1, <1>2 DEF BarFits, RowsShow, Drawn, matrixVars
<1>3. CASE Finish
  <2>1. \/ bar' = bar
        \/ \E pc \in {"gone", "sample"} : bar' = [bar EXCEPT !.pc = pc]
    BY <1>3 DEF Finish
  <2>2. ASSUME NEW pc \in {"gone", "sample"}, bar' = [bar EXCEPT !.pc = pc]
        PROVE  BarFits'
    <3>1. bar = [pc |-> bar.pc, last |-> bar.last, bytes |-> bar.bytes,
                 picture |-> bar.picture]
      BY DEF BarFits
    <3>2. bar' = [pc |-> pc, last |-> bar.last, bytes |-> bar.bytes, picture |-> bar.picture]
      BY <2>2, <3>1
    <3>3. /\ bar'.pc = pc /\ bar'.last = bar.last /\ bar'.bytes = bar.bytes
          /\ bar'.picture = bar.picture
      BY <3>2
    <3> QED
      BY <3>2, <3>3 DEF BarFits
  <2>3. BarFits'
    BY <2>1, <2>2 DEF BarFits
  <2> QED
    BY <1>3, <2>3, FinishFits
<1>4. CASE SendStart \/ SendRegister \/ SendByte \/ RepeatStart \/ TakeByte
  BY <1>2, <1>4, SendStartFits, SendRegisterFits, SendByteFits, RepeatStartFits, TakeByteFits
<1> QED
  BY <1>3, <1>4 DEF Transaction

(* The tasks of the slot leave the picture alone once it has started up. *)
LEMMA LightsLeaveRows ==
  ASSUME MatrixTypeOK, SetRed \/ GreenTask \/ RedSync \/ PulseGreen
  PROVE  /\ \A r \in Row : pending'[r] = pending[r]
         /\ UNCHANGED <<visible, mpc, ipc>> /\ (mNotified => mNotified')
<1>1. Lights \notin Row
  BY MatrixAssumption DEF Lights
<1>2. ASSUME NEW bit, NEW on, SetLight(bit, on)
      PROVE  \A r \in Row : pending'[r] = pending[r]
  <2>1. pending = [r \in AllRows |-> pending[r]]
    BY DEF MatrixTypeOK
  <2> QED
    BY <1>1, <1>2, <2>1 DEF SetLight, AllRows
<1>3. CASE SetRed
  BY <1>2, <1>3 DEF SetRed
<1>4. CASE RedSync \/ PulseGreen
  BY <1>4 DEF RedSync, PulseGreen
<1>5. CASE GreenOn \/ GreenOff
  <2>1. SetLight(Green, TRUE) \/ SetLight(Green, FALSE)
    BY <1>5 DEF GreenOn, GreenOff, GreenSet
  <2>2. \A r \in Row : pending'[r] = pending[r]
    BY <1>2, <2>1
  <2>3. UNCHANGED <<visible, mpc, ipc>>
    BY <1>5 DEF GreenOn, GreenOff, GreenSet, GreenStep
  <2>4. UNCHANGED mNotified
    BY <1>5 DEF GreenOn, GreenOff, GreenSet
  <2> QED
    BY <2>2, <2>3, <2>4
<1>6. CASE GreenTake \/ GreenOnSync \/ GreenOffSync
  BY <1>6 DEF GreenTake, GreenOnSync, GreenOffSync, GreenSync, GreenStep
<1> QED
  BY <1>3, <1>4, <1>5, <1>6 DEF GreenTask

LEMMA TasksShow ==
  ASSUME MatrixTypeOK, RowsShow, UNCHANGED <<bus, drawn>>,
         MatrixTask \/ GreenTask \/ InitTask \/ SetRed \/ RedSync \/ PulseGreen
  PROVE  RowsShow' /\ (ipc = "done" => ipc' = "done")
<1>1. CASE MatrixTask
  <2>1. UNCHANGED <<pending, ipc>>
    BY <1>1 DEF MatrixTask, Config, SendRow, SyncDone, Selftest, MatrixTake, Sync
  <2> QED
    BY <2>1 DEF RowsShow, Drawn
<1>2. CASE GreenTask \/ SetRed \/ RedSync \/ PulseGreen
  <2>1. (\A r \in Row : pending'[r] = pending[r]) /\ UNCHANGED ipc
    BY <1>2, LightsLeaveRows
  <2> QED
    BY <2>1 DEF RowsShow, Drawn
<1>3. CASE InitSet("address", "addressSync", addrchr(SlotAddress))
  BY <1>3 DEF InitSet, RowsShow
<1>4. CASE InitSync("addressSync", "blank")
  BY <1>4 DEF InitSync, RowsShow
<1>5. CASE InitSet("blank", "blankSync", 32)
  <2>1. pending' = matrix_xfrm(Font(32)) /\ drawn' = Blank /\ bus' = Nobody
    BY <1>5 DEF InitSet, RowsShow
  <2>2. \A r \in Row : pending'[r] = {c \in Col : r \in Font(32)[c]}
    BY <2>1 DEF matrix_xfrm, AllRows
  <2>3. Drawn(pending)'
    BY <2>1, <2>2, FontAssumption DEF Drawn, Blank
  <2> QED
    BY <1>5, <2>1, <2>3 DEF InitSet, RowsShow
<1>6. CASE InitSync("blankSync", "done")
  BY <1>6 DEF InitSync, RowsShow, Drawn
<1> QED
  BY <1>1, <1>2, <1>3, <1>4, <1>5, <1>6 DEF InitTask

LEMMA SlotFits ==
  ASSUME MatrixTypeOK, BusFits, BarFits, RowsShow, SlotNext, UNCHANGED commandVars
  PROVE  BusFits' /\ BarFits' /\ RowsShow'
<1>1. UNCHANGED <<bus, bar, drawn>> /\ BarFits'
  BY DEF commandVars, BarFits
<1>2. CASE GetRest
  <2>1. isr.pc = "get" /\ isr' = Idle /\ UNCHANGED <<matrixVars, phase, ipc>>
        /\ Access(isr.op, Fetched(find_region_containing(isr.op.addr),
                                  Words(isr.first, rtc_time)))
    BY <1>2 DEF GetRest, matrixVars
  <2>2. isr # Idle
    BY <2>1 DEF Idle
  <2>3. /\ IsRequest(bus) /\ ipc = "done" /\ Reading /\ isr.op.read
    BY <2>2 DEF BusFits, Writing, Reading, IsRequest
  <2>4. UNCHANGED dirty
    BY <2>1, <2>3 DEF Access, ReadByte
  <2>5. Reading'
    BY <1>1, <2>1, <2>2, <2>3, <2>4 DEF Reading
  <2>6. RowsShow'
    BY <1>1, <2>1 DEF RowsShow, Drawn, matrixVars
  <2> QED
    BY <1>1, <2>1, <2>3, <2>5, <2>6 DEF BusFits, IsRequest
<1>3. CASE PutRest
  <2>1. isr.pc = "put" /\ isr # Idle
    BY <1>3 DEF PutRest, Idle
  <2> QED
    BY <2>1 DEF BusFits, Writing, Reading
<1>4. CASE Second
  <2>1. UNCHANGED <<matrixVars, i2cVars, phase>>
    BY <1>4 DEF Second
  <2>2. UNCHANGED <<phase, isr, dirty, valid, base, offset, nvram, ipc>>
    BY <2>1 DEF i2cVars, matrixVars
  <2>3. Whole' = Whole
    BY <1>1, <2>2 DEF Whole
  <2>4. BusFits'
    BY <1>1, <2>2, <2>3 DEF BusFits, Writing, Reading
  <2> QED
    BY <1>1, <2>1, <2>4 DEF RowsShow, Drawn, matrixVars
<1>5. CASE TaskStep
  <2>1. /\ MatrixTask \/ GreenTask \/ InitTask \/ SetRed \/ RedSync \/ PulseGreen
        /\ UNCHANGED <<i2cVars, busVars>>
    BY <1>5 DEF TaskStep, Tasks
  <2>2. RowsShow' /\ (ipc = "done" => ipc' = "done")
    BY <1>1, <2>1, TasksShow
  <2>3. UNCHANGED <<phase, isr, dirty, valid, base, offset, nvram>>
    BY <2>1 DEF i2cVars, busVars
  <2>4. Whole' = Whole
    BY <1>1, <2>3 DEF Whole
  <2>5. BusFits'
    BY <1>1, <2>2, <2>3, <2>4 DEF BusFits, Writing, Reading
  <2> QED
    BY <1>1, <2>2, <2>5
<1> QED
  BY <1>2, <1>3, <1>4, <1>5 DEF SlotNext, TaskStep

(* A picture that matrix_task has not copied is announced to it. *)
LEMMA RowsKeep ==
  ASSUME MatrixTypeOK, RowsAnnounced, DisplayStep PROVE RowsAnnounced'
<1>1. CASE MatrixTask
  <2>1. CASE Config \/ Sync
    BY <2>1 DEF Config, Sync, SyncFrame, RowsAnnounced
  <2>2. CASE SendRow \/ SyncDone \/ Selftest
    BY <2>2 DEF SendRow, SyncDone, Selftest, RowsAnnounced
  <2>3. CASE MatrixTake
    BY <2>3 DEF MatrixTake, RowsAnnounced
  <2> QED
    BY <1>1, <2>1, <2>2, <2>3 DEF MatrixTask
<1>2. CASE InitTask
  BY <1>2 DEF InitTask, InitSet, InitSync, RowsAnnounced
<1>3. CASE SetRed \/ GreenTask \/ RedSync \/ PulseGreen
  BY <1>3, LightsLeaveRows DEF RowsAnnounced
<1>4. CASE \E cols : matrix_set_from_isr(cols)
  BY <1>4 DEF matrix_set_from_isr, RowsAnnounced
<1>5. CASE UNCHANGED matrixVars
  BY <1>5 DEF matrixVars, RowsAnnounced
<1> QED
  BY <1>1, <1>2, <1>3, <1>4, <1>5 DEF DisplayStep

LEMMA AnyoneStays ==
  ASSUME bus = Anyone, [BrambleNext]_allVars PROVE bus' = Anyone
<1>1. bus # Nobody /\ ~Going
  BY IdleIs DEF Going
<1>2. ~Transaction
  BY <1>1 DEF Transaction, SendStart, SendRegister, SendByte, RepeatStart, TakeByte, Finish,
     Transfer
<1>3. CASE Command
  BY <1>1, <1>3 DEF Command, Measure, Fails, nvram_write, nvram_read, Request,
     update_display, sighandler, led_main, slot_get, version_main
<1> QED
  BY <1>2, <1>3 DEF BrambleNext, commandVars, allVars

LEMMA DrawnKeeps ==
  ASSUME CountersGrow, MatrixTypeOK, DrawnInv, [BrambleNext]_allVars PROVE DrawnInv'
<1>1. RowsAnnounced'
  BY StepToDisplay, RowsKeep DEF DrawnInv
<1>2. CASE bus = Anyone
  BY <1>1, <1>2, AnyoneStays DEF DrawnInv
<1>3. CASE bus # Anyone
  <2>1. BusFits /\ BarFits /\ RowsShow
    BY <1>3 DEF DrawnInv
  <2>2. CASE Transaction
    BY <1>1, <1>3, <2>1, <2>2, TransactionFits DEF DrawnInv
  <2>3. CASE Command
    <3>1. /\ BusFits' /\ BarFits' /\ UNCHANGED <<vars, drawn>>
          /\ bus' = bus \/ ipc = "done"
      BY <1>3, <2>1, <2>3, CommandFits
    <3>2. RowsShow'
      BY <2>1, <3>1 DEF RowsShow, Drawn, vars, matrixVars
    <3> QED
      BY <1>1, <3>1, <3>2 DEF DrawnInv
  <2>4. CASE SlotNext /\ UNCHANGED commandVars
    BY <1>1, <2>1, <2>4, SlotFits DEF DrawnInv
  <2>5. CASE UNCHANGED allVars
    <3>1. UNCHANGED <<vars, drawn, bus, bar>>
      BY <2>5 DEF allVars, commandVars
    <3>2. RowsShow' /\ BarFits'
      BY <2>1, <3>1 DEF RowsShow, Drawn, BarFits, vars, matrixVars
    <3> QED
      BY <1>1, <2>1, <3>1, <3>2, FitsStill DEF DrawnInv
  <2> QED
    BY <1>3, <2>2, <2>3, <2>4, <2>5 DEF BrambleNext
<1> QED
  BY <1>2, <1>3

(* Once everything has come to rest, the matrix shows what the last command
   was to show, whatever commands ran and whatever they were interrupted by,
   as long as the busy time of a CPU grows with its time (led_main,
   usage_bargraph_main, nvram_put, cache_flush, max7219_sync). *)
THEOREM ShowsLastCommand ==
  ASSUME CountersGrow
  PROVE  BrambleSpec => []DisplayIsLast
<1>1. BrambleInit => DrawnInv
  <2> SUFFICES ASSUME BrambleInit PROVE DrawnInv
    OBVIOUS
  <2>1. RowsAnnounced
    BY DEF BrambleInit, Init, MatrixInit, RowsAnnounced
  <2>2. bus = Nobody => RowsShow /\ BusFits
    BY DEF BrambleInit, Init, MatrixInit, RowsShow, BusFits
  <2>3. BarFits
    <3>1. bar = [pc |-> "sample", last |-> <<>>, bytes |-> <<>>, picture |-> Blank]
      BY DEF BrambleInit
    <3> QED
      BY <3>1 DEF BarFits
  <2> QED
    BY <2>1, <2>2, <2>3 DEF BrambleInit, DrawnInv
<1>2. MatrixTypeOK /\ DrawnInv /\ [BrambleNext]_allVars => DrawnInv'
  BY DrawnKeeps
<1>3. DisplayInv => MatrixTypeOK
  BY DEF DisplayInv
<1>4. DisplayInv /\ DrawnInv => DisplayIsLast
  <2> SUFFICES ASSUME DisplayInv, DrawnInv, bus = Nobody, ipc = "done", mpc = "take", ~mNotified,
                      NEW r \in Row
               PROVE  shown[r] = {c \in Col : r \in drawn[c]}
    BY DEF DisplayIsLast
  <2>1. pending[r] = {c \in Col : r \in drawn[c]}
    BY IdleIs DEF DrawnInv, RowsShow, Drawn
  <2>2. pending[r] = visible[r]
    BY DEF DrawnInv, RowsAnnounced
  <2>3. r \in AllRows /\ update = {}
    BY DEF DisplayInv, CopyOnChip, AllRows
  <2>4. shown[r] = visible[r]
    BY <2>3 DEF DisplayInv, CopyOnChip
  <2> QED
    BY <2>1, <2>2, <2>4
<1> QED
  BY <1>1, <1>2, <1>3, <1>4, DisplayCorrect, PTL DEF BrambleSpec
=============================================================================
