------------------------------- MODULE Calendar -------------------------------
(* Dates of the scripting language (src/client/src/builtins/datetime.rs).     *)
(*                                                                            *)
(* The code keeps a date as a count of days since 1899-12-30 with the time as *)
(* a fraction; here it is that count times 86400, a whole number of seconds,  *)
(* which is what the code rounds times to.  The whole days and the time have  *)
(* to be told apart by truncating: before day 0 the time still runs forward,  *)
(* so that -1.25 is six in the morning of the day before.                     *)
EXTENDS Integers, Sequences

CONSTANTS DateMin, DateMax      \* days the code accepts, -657434 and 2958466

DaySeconds   == 86400
UnixEpochOle == 25569
InvalidCall  == 5
Failed       == -2147483647     \* what an operation answers instead of error 5

AbsOf(n) == IF n < 0 THEN -n ELSE n
Truncated(a, b) == IF a < 0 THEN -((-a) \div b) ELSE a \div b
Least(a, b) == IF a < b THEN a ELSE b

----------------------------------------------------------------------------
(* Days and civil dates, by the algorithm of the code: years start in March,  *)
(* eras are of 400 years.                                                     *)

DaysFromCivil(y, m, d) ==
    LET yy  == IF m <= 2 THEN y - 1 ELSE y
        era == Truncated(IF yy >= 0 THEN yy ELSE yy - 399, 400)
        yoe == yy - era * 400
        mp  == (m + 9) % 12
        doy == (153 * mp + 2) \div 5 + d - 1
        doe == yoe * 365 + yoe \div 4 - yoe \div 100 + doy
    IN  era * 146097 + doe - 719468

CivilFromDays(z0) ==
    LET z   == z0 + 719468
        era == Truncated(IF z >= 0 THEN z ELSE z - 146096, 146097)
        doe == z - era * 146097
        yoe == (doe - doe \div 1460 + doe \div 36524 - doe \div 146096) \div 365
        doy == doe - (365 * yoe + yoe \div 4 - yoe \div 100)
        mp  == (5 * doy + 2) \div 153
        m   == IF mp < 10 THEN mp + 3 ELSE mp - 9
    IN  [y |-> yoe + era * 400 + (IF m <= 2 THEN 1 ELSE 0),
         m |-> m, d |-> doy - (153 * mp + 2) \div 5 + 1]

DaysInMonth(y, m) ==
    CASE m \in {1, 3, 5, 7, 8, 10, 12} -> 31
      [] m \in {4, 6, 9, 11}           -> 30
      [] OTHER -> IF (y % 4 = 0 /\ y % 100 # 0) \/ y % 400 = 0 THEN 29 ELSE 28

----------------------------------------------------------------------------
(* The parts of a date.                                                       *)

Split(v) == LET day == Truncated(v, DaySeconds)
            IN  [day |-> day, time |-> AbsOf(v - day * DaySeconds)]
ToYmd(v) == CivilFromDays(Split(v).day - UnixEpochOle)
ToHms(v) == LET t == Split(v).time
            IN  [h |-> t \div 3600, m |-> (t \div 60) % 60, s |-> t % 60]
FromYmd(y, m, d) == DaysFromCivil(y, m, d) + UnixEpochOle

\* combine: days and a time, the time counted away from zero.
Combine(days, time) ==
    IF days < 0 THEN days * DaySeconds - time ELSE days * DaySeconds + time

\* 1 is Sunday; day 0 was a Saturday.
WeekdayOf(v) == (((Split(v).day % 7) + 7 + 6) % 7) + 1

InRange(v) == DateMin * DaySeconds <= v /\ v < DateMax * DaySeconds
Checked(v) == IF InRange(v) THEN v ELSE Failed

----------------------------------------------------------------------------
(* DateSerial and TimeSerial: months and days out of range roll over.         *)

NormalizeYear(y) == CASE y \in 0..29 -> 2000 + y [] y \in 30..99 -> 1900 + y [] OTHER -> y

DateSerial(y0, m, d) ==
    LET months == NormalizeYear(y0) * 12 + (m - 1)
        ny == months \div 12
        nm == (months % 12) + 1
    IN  IF ny \in -32768..32767
        THEN Checked((DaysFromCivil(ny, nm, 1) + d - 1 + UnixEpochOle) * DaySeconds) ELSE Failed

TimeSerial(h, m, s) == Checked(h * 3600 + m * 60 + s)

----------------------------------------------------------------------------
(* DateAdd and DateDiff.                                                      *)

ShiftRolling(v, months) ==                  \* mutant: a day too many rolls over
    LET at == ToYmd(v)
        total == at.y * 12 + (at.m - 1) + months
    IN  Combine(FromYmd(total \div 12, (total % 12) + 1, at.d), Split(v).time)
\* shift_months keeps the day, or takes the month's last.
ShiftMonths(v, months) ==
    LET at == ToYmd(v)
        total == at.y * 12 + (at.m - 1) + months
        ny == total \div 12
        nm == (total % 12) + 1
    IN  Combine(FromYmd(ny, nm, Least(at.d, DaysInMonth(ny, nm))), Split(v).time)

Intervals == {"yyyy", "q", "m", "y", "d", "w", "ww", "h", "n", "s"}

\* Years to weeks move the day and keep the time; hours to seconds are added
\* to the number as it is.
DateAdd(interval, n, v) ==
    LET at == Split(v)
    IN  Checked(CASE interval = "yyyy" -> ShiftMonths(v, n * 12)
                  [] interval = "q"    -> ShiftMonths(v, n * 3)
                  [] interval = "m"    -> ShiftMonths(v, n)
                  [] interval \in {"d", "y", "w"} -> Combine(at.day + n, at.time)
                  [] interval = "ww"   -> Combine(at.day + n * 7, at.time)
                  [] interval = "h"    -> v + n * 3600
                  [] interval = "n"    -> v + n * 60
                  [] interval = "s"    -> v + n)

\* linear, in seconds: days and time put back in the order of the calendar.
Linear(v) == Split(v).day * DaySeconds + Split(v).time
LinearDay(v) == Linear(v) \div DaySeconds

FirstDay(fdw) == IF fdw = 0 THEN 1 ELSE fdw
WeekStart(v, fdw) ==
    (v \div DaySeconds) - ((WeekdayOf(v) - FirstDay(fdw) + 7) % 7)

DateDiff(interval, a, b, fdw) ==
    LET ya == ToYmd(a)
        yb == ToYmd(b)
    IN  CASE interval = "yyyy" -> yb.y - ya.y
          [] interval = "q" -> (yb.y * 4 + (yb.m - 1) \div 3) - (ya.y * 4 + (ya.m - 1) \div 3)
          [] interval = "m" -> (yb.y * 12 + yb.m) - (ya.y * 12 + ya.m)
          [] interval \in {"d", "y"} -> LinearDay(b) - LinearDay(a)
          [] interval = "w"  -> Truncated(LinearDay(b) - LinearDay(a), 7)
          [] interval = "ww" -> IF FirstDay(fdw) \in 1..7
                                THEN Truncated(WeekStart(b, fdw) - WeekStart(a, fdw), 7)
                                ELSE Failed
          [] interval = "h"  -> (Linear(b) \div 3600) - (Linear(a) \div 3600)
          [] interval = "n"  -> (Linear(b) \div 60) - (Linear(a) \div 60)
          [] interval = "s"  -> Linear(b) - Linear(a)

----------------------------------------------------------------------------
(* DatePart.                                                                  *)

Weekday(v, fdw) ==
    IF FirstDay(fdw) \in 1..7 THEN ((WeekdayOf(v) - FirstDay(fdw) + 7) % 7) + 1 ELSE Failed

\* Week 1 has January 1, or four days of the year, or all seven.
Week1Start(y, fdw, fwy) ==
    LET jan1   == FromYmd(y, 1, 1)
        offset == (WeekdayOf(jan1 * DaySeconds) - fdw + 7) % 7
        full   == jan1 + ((7 - offset) % 7)
    IN  CASE fwy = 1 -> jan1 - offset
          [] fwy = 2 -> IF offset <= 3 THEN jan1 - offset ELSE full
          [] OTHER   -> full

\* A day before week 1 is in the last week of the year before.
RECURSIVE WeekOfYear(_, _, _)
WeekOfYear(v, fdw0, fwy0) ==
    LET fdw == FirstDay(fdw0)
        fwy == FirstDay(fwy0)
        y   == ToYmd(v).y
        n   == ((v \div DaySeconds) - Week1Start(y, fdw, fwy)) \div 7 + 1
    IN  CASE fdw \notin 1..7 \/ fwy \notin 1..3 -> Failed
          [] fdw \in 1..7 /\ fwy \in 1..3 /\ n >= 1 -> n
          [] OTHER -> WeekOfYear(FromYmd(y - 1, 12, 31) * DaySeconds, fdw0, fwy0)

DatePart(interval, v, fdw, fwy) ==
    LET at == ToYmd(v)
        t  == ToHms(v)
    IN  CASE interval = "yyyy" -> at.y
          [] interval = "q"  -> (at.m - 1) \div 3 + 1
          [] interval = "m"  -> at.m
          [] interval = "y"  -> DaysFromCivil(at.y, at.m, at.d) - DaysFromCivil(at.y, 1, 1) + 1
          [] interval = "d"  -> at.d
          [] interval = "w"  -> Weekday(v, fdw)
          [] interval = "ww" -> WeekOfYear(v, fdw, fwy)
          [] interval = "h"  -> t.h
          [] interval = "n"  -> t.m
          [] interval = "s"  -> t.s

\* weekday_name: d counts from the first day of the week.
WeekdayName(d, fdw) ==
    LET names == <<"Sunday", "Monday", "Tuesday", "Wednesday", "Thursday", "Friday", "Saturday">>
    IN  IF d \in 1..7 /\ FirstDay(fdw) \in 1..7
        THEN names[((d - 1 + FirstDay(fdw) - 1) % 7) + 1] ELSE Failed
===============================================================================
