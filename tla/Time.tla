-------------------------------- MODULE Time --------------------------------
(***************************************************************************)
(* Waiting on the timer of the chip (src/time.c).                          *)
(*                                                                         *)
(* The timer has TimerSize values and starts again; its sum with the time  *)
(* that was set, and differences, are of 64 bits, of which Wide stands for *)
(* the number of values.                                                   *)
(***************************************************************************)
EXTENDS Integers, Sequences, FiniteSets

CONSTANTS TimerSize, Wide,
          Delays    \* asked of usleep

ASSUME ClockAssumption == TimerSize \in Nat \ {0} /\ Wide \in Nat /\ Wide > 4 * TimerSize

VARIABLES timer,   \* TIMER_CLO
          delta,   \* current_time_delta
          sleep    \* usleep: when it began, what it waits for, the time since

tvars == <<timer, delta, sleep>>

ClockInit ==
  /\ timer = 0 /\ delta \in {0, TimerSize}
  /\ sleep = [start |-> 0, wait |-> 0, passed |-> 0, ended |-> TRUE]

TimeUs == delta + timer

\* Bound: no more is told of a wait after twice the values of the timer.
Tick ==
  /\ sleep.passed < 2 * TimerSize
  /\ timer' = (timer + 1) % TimerSize
  /\ sleep' = IF sleep.ended THEN sleep ELSE [sleep EXCEPT !.passed = @ + 1]
  /\ UNCHANGED delta

Usleep(wait) ==
  /\ sleep.ended
  /\ sleep' = [start |-> TimeUs, wait |-> wait, passed |-> 0, ended |-> FALSE]
  /\ UNCHANGED <<timer, delta>>

Elapsed(start) == (TimeUs - start) % Wide

Wakes ==
  /\ ~sleep.ended /\ Elapsed(sleep.start) >= sleep.wait
  /\ sleep' = [sleep EXCEPT !.ended = TRUE]
  /\ UNCHANGED <<timer, delta>>

ClockNext == Tick \/ Wakes \/ \E wait \in Delays : Usleep(wait)

ClockSpec == ClockInit /\ [][ClockNext]_tvars

-----------------------------------------------------------------------------
\* time.c:43: only one thing ends a wait before its time: the timer, which
\* starts again every 71 minutes, did so while it went on; the difference is
\* huge then.
SleepLasts ==
  sleep.ended /\ sleep.start - delta + sleep.wait < TimerSize => sleep.passed >= sleep.wait

-----------------------------------------------------------------------------
(***************************************************************************)
(* The dates of the SDK (compiler/sdk/lib/time.h).                         *)
(*                                                                         *)
(* A moment is a day since 1 January 1970 and a second of that day; as     *)
(* days have 86400 seconds, which 60 and 3600 divide, dividing the seconds *)
(* as gmtime does comes to the same.  A time_t is a signed number of 32    *)
(* bits (types.h:102): 2^32 seconds are 49710 days and 23296 seconds, and  *)
(* the last moment is in January 2038.                                     *)
(***************************************************************************)

CONSTANTS Days,      \* that are looked at, from 1970 on
          Seconds,   \* of a day
          Shifts     \* fields an application adds to, and what it adds

ASSUME CalendarAssumption == Days \subseteq Nat /\ Seconds \subseteq 0..86399

VARIABLES moment,  \* [day, sec]
          fields   \* struct tm

dvars == <<moment, fields>>

IsLeapYearWithoutEras(year) == year % 4 = 0 /\ year % 100 # 0
IsLeapYear(year) == year % 4 = 0 /\ (year % 100 # 0 \/ year % 400 = 0)

Lengths == <<31, 28, 31, 30, 31, 30, 31, 31, 30, 31, 30, 31>>
DaysInMonth(year, month) ==
  Lengths[month + 1] + IF month = 1 /\ IsLeapYear(year) THEN 1 ELSE 0

\* The days of the years from..to-1, and of the months before a month.
DaysOfYears(from, to) ==
  365 * (to - from) + Cardinality({y \in from..(to - 1) : IsLeapYear(y)})
DaysOfMonths(year, month) ==
  LET before[m \in 0..12] == IF m = 0 THEN 0 ELSE before[m - 1] + DaysInMonth(year, m - 1)
  IN  before[month]

\* The year and the month in which the day is.
YearOf(day) == CHOOSE y \in (1970 + day \div 366)..(1970 + day \div 365) :
                 DaysOfYears(1970, y) <= day /\ day < DaysOfYears(1970, y + 1)
MonthOf(year, day) == CHOOSE m \in 0..11 :
                 DaysOfMonths(year, m) <= day /\ day < DaysOfMonths(year, m + 1)

Gmtime(t) ==
  LET year == YearOf(t.day)
      yday == t.day - DaysOfYears(1970, year)
      month == MonthOf(year, yday) IN
  [sec |-> t.sec % 60, min |-> (t.sec \div 60) % 60, hour |-> t.sec \div 3600,
   mday |-> yday - DaysOfMonths(year, month) + 1, mon |-> month, year |-> year - 1900,
   wday |-> (t.day + 4) % 7, yday |-> yday]

Earlier(t, u) == t.day < u.day \/ (t.day = u.day /\ t.sec < u.sec)
FirstMoment == [day |-> -24856, sec |-> 74752]
LastMoment  == [day |-> 24855, sec |-> 11647]
IsTimeT(t)  == ~Earlier(t, FirstMoment) /\ ~Earlier(LastMoment, t)

\* The cast to time_t.  Bound: of less than 2^32 seconds too many.
TimeT(t) ==
  LET turn == IF Earlier(LastMoment, t) THEN -1 ELSE IF Earlier(t, FirstMoment) THEN 1 ELSE 0
      sec == t.sec + turn * 23296 IN
  [day |-> t.day + turn * 49710 + sec \div 86400, sec |-> sec % 86400]

\* mktime takes fields outside their ranges; the days before 1970 count down.
Mktime(tm) ==
  LET year == tm.year + 1900 + tm.mon \div 12
      month == tm.mon % 12
      before == IF year >= 1970 THEN DaysOfYears(1970, year) ELSE -DaysOfYears(year, 1970)
      days == before + DaysOfMonths(year, month) + tm.mday - 1
      seconds == tm.hour * 3600 + tm.min * 60 + tm.sec IN
  TimeT([day |-> days + seconds \div 86400, sec |-> seconds % 86400])

\* mktime leaves year and month in range and no day of the week or of the year.
MadeFields(tm) ==
  [tm EXCEPT !.year = @ + tm.mon \div 12, !.mon = tm.mon % 12, !.wday = -1, !.yday = -1]

CalendarInit ==
  /\ moment \in {t \in [day : Days, sec : Seconds] : IsTimeT(t)}
  /\ fields = Gmtime(moment)

\* An application adds to a field of a date and asks for the moment.
Shift(field, by) ==
  /\ fields.yday >= 0
  /\ LET tm == [fields EXCEPT ![field] = @ + by] IN
       moment' = Mktime(tm) /\ fields' = MadeFields(tm)

CalendarNext == \E change \in Shifts : Shift(change[1], change[2])

CalendarSpec == CalendarInit /\ [][CalendarNext]_dvars

-----------------------------------------------------------------------------
\* time.h: gmtime's date is the one of the Gregorian calendar: counted from
\* March in eras of 400 years, it is the day.
Era(year) == year \div 400
CivilDay(year, month, mday) ==
  LET y == IF month <= 2 THEN year - 1 ELSE year
      m == IF month > 2 THEN month - 3 ELSE month + 9
      inEra == y - 400 * Era(y) IN
  146097 * Era(y) + 365 * inEra + inEra \div 4 - inEra \div 100 + (153 * m + 2) \div 5 + mday - 719469

IsGregorian ==
  fields.yday >= 0 =>
    /\ CivilDay(fields.year + 1900, fields.mon + 1, fields.mday) = moment.day
    /\ fields.mday \in 1..31 /\ fields.mon \in 0..11

\* mktime gives back the moment of a date, and counts what is added to a
\* field from there: the months by the calendar.  The moment of a date that
\* a time_t has no room for is another one (time.h:165).
MomentOf(tm) ==
  LET whole == tm.sec + 60 * tm.min + 3600 * tm.hour IN
  [day |-> CivilDay(tm.year + 1900, tm.mon + 1, 1) + tm.mday - 1 + whole \div 86400,
   sec |-> whole % 86400]

AddsUp ==
  /\ fields.yday >= 0 => Mktime(fields) = moment
  /\ IsTimeT(MomentOf(fields)) => moment = MomentOf(fields)
  /\ IsTimeT(moment)

\* Dates are those of the calendar, and moments come back from them.
DatesAreRight == IsGregorian /\ AddsUp

\* time.c, time.h: sleeps last, and dates are those of the calendar.
TimeIsRight == SleepLasts /\ DatesAreRight
=============================================================================
