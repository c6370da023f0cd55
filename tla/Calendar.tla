------------------------------ MODULE Calendar ------------------------------
(***************************************************************************)
(* The date at which an amount of a scheduled transfer is released:        *)
(* secondsToTm and timeToDisplayText (src/src/common/time.c), next to a    *)
(* calendar that goes on day by day.                                       *)
(*                                                                         *)
(* A time is a day since 1970-01-01 and a second of it, for TLC's integers *)
(* end in 2038. A text is its characters: digits and, for any other, Mark. *)
(***************************************************************************)
EXTENDS Integers, Sequences

CONSTANTS Years,    \* the years the calendar goes through
          Seconds   \* of each day, those looked at

ASSUME CalendarAssumption ==
  /\ \A y \in Years : y \in Nat /\ y >= 1970
  /\ \A s \in Seconds : s \in Nat /\ s < 86400

Mark == -1
DisplayLength == 25   \* sizeof(displayTimestamp)

(***************************************************************************)
(* The code.                                                               *)
(***************************************************************************)
LeapDay == 11017      \* LEAPOCH: 2000-03-01, the day after a leap day
DaysPer400Y == 365 * 400 + 97
DaysPer100Y == 365 * 100 + 24
DaysPer4Y   == 365 * 4 + 1

\* Years begin in March: the leap day comes last.
daysInMonth == <<31, 30, 31, 30, 31, 31, 30, 31, 30, 31, 31, 29>>
MonthBegins[m \in 0..11] == IF m = 0 THEN 0 ELSE MonthBegins[m - 1] + daysInMonth[m]
MonthOf(inYear) ==
  CHOOSE m \in 0..11 : MonthBegins[m] <= inYear /\ inYear < MonthBegins[m] + daysInMonth[m + 1]

\* C divides towards zero, and leaves a remainder of the dividend's sign.
Quotient(n, d)  == IF n < 0 THEN -((-n) \div d) ELSE n \div d
Remainder(n, d) == n - d * Quotient(n, d)

\* Days and seconds since LEAPOCH, both below zero before it, made to count from the
\* midnight before.
DaysAndSeconds(day, second) ==
  LET before == day < LeapDay /\ second > 0
      days == IF before THEN day - LeapDay + 1 ELSE day - LeapDay
      remsecs == IF before THEN second - 86400 ELSE second
  IN IF remsecs < 0 THEN <<days - 1, remsecs + 86400>> ELSE <<days, remsecs>>

\* Cycles of so many days in so many days, at most the last of them.
CyclesUncapped(days, length, last) == days \div length

\* A cycle that ends with a leap day is a day longer than the others.
Cycles(days, length, last) ==
  IF days \div length = last + 1 THEN last ELSE days \div length

\* The time so many seconds into a day of the cycle of 400 years number qc.
tmInCycle(qc, inCycle, second) ==
  LET c       == Cycles(inCycle, DaysPer100Y, 3)
      in100   == inCycle - c * DaysPer100Y
      q       == Cycles(in100, DaysPer4Y, 24)
      in4     == in100 - q * DaysPer4Y
      y       == Cycles(in4, 365, 3)
      inYear  == in4 - y * 365
      months  == MonthOf(inYear)
      years   == y + 4 * q + 100 * c + 400 * qc
      wraps   == months + 2 >= 12
  IN [tm_year |-> years + 100 + (IF wraps THEN 1 ELSE 0),
      tm_mon  |-> IF wraps THEN months - 10 ELSE months + 2,
      tm_mday |-> inYear - MonthBegins[months] + 1,
      tm_hour |-> second \div 3600, tm_min |-> (second \div 60) % 60,
      tm_sec  |-> second % 60]

secondsToTm(day, second) ==
  LET split  == DaysAndSeconds(day, second)
      rem400 == Remainder(split[1], DaysPer400Y)
      qc     == Quotient(split[1], DaysPer400Y) - (IF rem400 < 0 THEN 1 ELSE 0)
  IN tmInCycle(qc, IF rem400 < 0 THEN rem400 + DaysPer400Y ELSE rem400, split[2])

\* The numbers of an accepted date, as texts, are far below the last power.
Tens == <<1, 10, 100, 1000, 10000, 100000, 1000000, 10000000, 100000000>>
lengthOfNumber(n) ==
  CHOOSE k \in 1..9 : (k = 1 \/ Tens[k] <= n) /\ (k < 9 => n < Tens[k + 1])

numberToText(n) ==
  LET len == lengthOfNumber(n)
  IN  [k \in 1..len |-> (n \div Tens[len - k + 1]) % 10]

prefixWithZero(n) == (IF n < 10 THEN <<0>> ELSE <<>>) \o numberToText(n)

timeToDisplayText(tm) ==
  numberToText(tm.tm_year + 1900) \o <<Mark>> \o prefixWithZero(tm.tm_mon + 1) \o <<Mark>>
    \o prefixWithZero(tm.tm_mday) \o <<Mark>> \o prefixWithZero(tm.tm_hour) \o <<Mark>>
    \o prefixWithZero(tm.tm_min) \o <<Mark>> \o prefixWithZero(tm.tm_sec)

\* processNextScheduledAmount refuses a year it has no room for.
TooFar(tm) == tm.tm_year > 9999
-----------------------------------------------------------------------------
(***************************************************************************)
(* The calendar.                                                           *)
(***************************************************************************)
VARIABLES day,    \* days since 1970-01-01
          date    \* which day that is

calendarVars == <<day, date>>

IsLeapYear(y) == y % 4 = 0 /\ (y % 100 # 0 \/ y % 400 = 0)
LeapYears(y)  == y \div 4 - y \div 100 + y \div 400
DaysIn(y) ==
  <<31, IF IsLeapYear(y) THEN 29 ELSE 28, 31, 30, 31, 30, 31, 31, 30, 31, 30, 31>>

NewYear ==
  \E y \in Years :
    /\ date = [year |-> y, month |-> 1, day |-> 1]
    /\ day = 365 * (y - 1970) + LeapYears(y - 1) - LeapYears(1969)

NextDay ==
  /\ date.day < DaysIn(date.year)[date.month]
  /\ date' = [date EXCEPT !.day = @ + 1]
  /\ day' = day + 1

NextMonth ==
  /\ date.month < 12 /\ date.day = DaysIn(date.year)[date.month]
  /\ date' = [date EXCEPT !.month = @ + 1, !.day = 1]
  /\ day' = day + 1

NextYear ==
  /\ date.month = 12 /\ date.day = 31 /\ date.year + 1 \in Years
  /\ date' = [year |-> date.year + 1, month |-> 1, day |-> 1]
  /\ day' = day + 1

Tomorrow == NextDay \/ NextMonth \/ NextYear
DayByDay == NewYear /\ [][Tomorrow]_calendarVars
-----------------------------------------------------------------------------
TwoDigits(n) == <<n \div 10, n % 10>>
YearDigits(n) ==
  IF n < 10000 THEN <<n \div 1000, (n \div 100) % 10, (n \div 10) % 10, n % 10>>
  ELSE <<n \div 10000, (n \div 1000) % 10, (n \div 100) % 10, (n \div 10) % 10, n % 10>>
Shown(s) ==
  YearDigits(date.year) \o <<Mark>> \o TwoDigits(date.month) \o <<Mark>> \o TwoDigits(date.day)
    \o <<Mark>> \o TwoDigits(s \div 3600) \o <<Mark>> \o TwoDigits((s \div 60) % 60)
    \o <<Mark>> \o TwoDigits(s % 60)

\* The text shown for a time (secondsToTm, then timeToDisplayText) is the day the
\* calendar has come to and the clock at that second, across the leap days of 4, 100
\* and 400 years and on both sides of LEAPOCH, and fits displayTimestamp; the handler
\* refuses the year 11900 and all behind it, and no year before.
DateIsShown ==
  \A s \in Seconds :
    LET tm == secondsToTm(day, s) IN
    /\ TooFar(tm) <=> date.year > 11899
    /\ ~TooFar(tm) => timeToDisplayText(tm) = Shown(s) /\ Len(timeToDisplayText(tm)) < DisplayLength
=============================================================================
