------------------------------- MODULE Dates -------------------------------
(***************************************************************************)
(* Date (src/src/ge/util/Date.cpp): a time_t and the calendar it is moved  *)
(* along.  localtime_r() and mktime() are the C library's, in a zone of    *)
(* fixed offset; their struct tm is a record of the fields Date uses.      *)
(***************************************************************************)
EXTENDS Integers, FiniteSetsExt

CONSTANTS
    Starts,    \* the arguments of the constructor, <<year, month, day, second>>
    Offset,    \* seconds local time is ahead of UTC
    MaxSteps   \* operations on one date

VARIABLES date, last, spoilt, steps

vars == <<date, last, spoilt, steps>>

Day == 86400
Years == 1950..2030
FEBRUARY == 1
DECEMBER == 11

-----------------------------------------------------------------------------
\* The C library.

IsLeap(y) == ((y % 4 = 0) /\ (y % 100 # 0)) \/ (y % 400 = 0)
MonthLength(m, y) ==
    IF m = 1 THEN IF IsLeap(y) THEN 29 ELSE 28
    ELSE IF m \in {3, 5, 8, 10} THEN 30 ELSE 31

LeapsBefore(y) == ((y - 1) \div 4) - ((y - 1) \div 100) + ((y - 1) \div 400)
DaysBefore(m, y) ==
    <<0, 31, 59, 90, 120, 151, 181, 212, 243, 273, 304, 334>>[m + 1]
    + (IF m > FEBRUARY /\ IsLeap(y) THEN 1 ELSE 0)
DayNumber(y, m, d) ==
    365 * (y - 1970) + LeapsBefore(y) - LeapsBefore(1970) + DaysBefore(m, y) + d - 1

LocalTime(t) ==
    LET day == (t + Offset) \div Day
        y == CHOOSE y \in Years : DayNumber(y, 0, 1) <= day /\ day < DayNumber(y + 1, 0, 1)
        m == CHOOSE m \in 0..11 :
                 LET first == DayNumber(y, m, 1)
                 IN first <= day /\ day < first + MonthLength(m, y)
    IN [year |-> y, mon |-> m, mday |-> day - DayNumber(y, m, 1) + 1,
        wday |-> (day + 4) % 7, sec |-> (t + Offset) % Day]

\* Fields out of range carry into the next.
mktime(tm) ==
    Day * DayNumber(tm.year + (tm.mon \div 12), tm.mon % 12, tm.mday) + tm.sec - Offset

-----------------------------------------------------------------------------
\* The remainder and the quotient of C round towards zero.
Rem(a, b) == IF a < 0 THEN -((-a) % b) ELSE a % b
Quot(a, b) == IF a < 0 THEN -((-a) \div b) ELSE a \div b

\* Of a month before January, what lies before the table: Strays has one
\* number that clips every day and one that clips none.
Strays == {0, 31}
getDaysInMonth(m, y, stray) == IF m < 0 THEN stray ELSE MonthLength(m, y)

Clipped(tm, stray) ==
    LET most == getDaysInMonth(tm.mon, tm.year, stray)
    IN IF tm.mday > most THEN [tm EXCEPT !.mday = most] ELSE tm

roundToYear(tm) == [tm EXCEPT !.mon = 0, !.mday = 1, !.sec = 0]
roundToMonth(tm) == [tm EXCEPT !.mday = 1, !.sec = 0]
roundToWeek(tm) == [tm EXCEPT !.mday = @ - tm.wday, !.sec = 0]
roundToDay(tm) == [tm EXCEPT !.sec = 0]
roundToHour(tm) == [tm EXCEPT !.sec = @ - (@ % 3600)]
addYears(tm, n) == Clipped([tm EXCEPT !.year = @ + n], 31)
addMonths(tm, n, stray) ==
    LET m == tm.mon + Rem(n, 12)
        y == tm.year + Quot(n, 12)
    IN Clipped(IF m > DECEMBER THEN [tm EXCEPT !.mon = m % 12, !.year = y + 1]
               ELSE [tm EXCEPT !.mon = m, !.year = y], stray)
addDays(tm, n) == [tm EXCEPT !.mday = @ + n]
roundToMinute(t) == t - Rem(t, 60)

-----------------------------------------------------------------------------

Init ==
    /\ \E s \in Starts :
           date = mktime([year |-> s[1], mon |-> s[2], mday |-> s[3], sec |-> s[4]])
    /\ last = [op |-> "init", n |-> 0, from |-> date]
    /\ spoilt = FALSE
    /\ steps = 0

Become(t, op, n) ==
    /\ steps < MaxSteps
    /\ ~ spoilt
    /\ date' = t
    /\ last' = [op |-> op, n |-> n, from |-> date]
    /\ steps' = steps + 1

Round ==
    LET tm == LocalTime(date)
    IN /\ \/ Become(mktime(roundToYear(tm)), "year", 0)
          \/ Become(mktime(roundToMonth(tm)), "month", 0)
          \/ Become(mktime(roundToWeek(tm)), "week", 0)
          \/ Become(mktime(roundToDay(tm)), "day", 0)
          \/ Become(mktime(roundToHour(tm)), "hour", 0)
          \/ Become(roundToMinute(date), "minute", 0)
       /\ UNCHANGED spoilt

AddYears ==
    \E n \in {-1, 1, 4} :
        /\ Become(mktime(addYears(LocalTime(date), n)), "years", n)
        /\ UNCHANGED spoilt

AddMonths ==
    \E n \in {-13, -1, 1, 12, 25}, stray \in Strays :
        LET tm == LocalTime(date)
        IN /\ Become(mktime(addMonths(tm, n, stray)), "months", n)
           /\ spoilt' = (tm.mon + Rem(n, 12) < 0)

\* Weeks are days by seven; the units below are added to the time_t itself.
AddDays ==
    /\ \/ \E n \in {-2, 1} : Become(mktime(addDays(LocalTime(date), 7 * n)), "seconds", 7 * n * Day)
       \/ \E n \in {-1, 30} : Become(mktime(addDays(LocalTime(date), n)), "seconds", n * Day)
    /\ UNCHANGED spoilt
AddTime ==
    /\ \/ \E n \in {-1, 25} : Become(date + 3600 * n, "seconds", 3600 * n)
       \/ \E n \in {-1, 61} : Become(date + 60 * n, "seconds", 60 * n)
       \/ \E n \in {-1, 1} : Become(date + n, "seconds", n)
    /\ UNCHANGED spoilt

Next == Round \/ AddYears \/ AddMonths \/ AddDays \/ AddTime

-----------------------------------------------------------------------------

TypeOK ==
    /\ date \in Int
    /\ last.from \in Int
    /\ spoilt \in BOOLEAN
    /\ steps \in 0..MaxSteps

\* The first second of the period t is in, as Date.h promises of rounding.
FirstOf(t, period) ==
    LET tm == LocalTime(t)
        start(d) == Day * d - Offset
    IN CASE period = "year"  -> start(DayNumber(tm.year, 0, 1))
         [] period = "month" -> start(DayNumber(tm.year, tm.mon, 1))
         [] period = "week"  -> CHOOSE s \in {start((t + Offset) \div Day - i) : i \in 0..6} :
                                    LocalTime(s).wday = 0
         [] period = "day"   -> start((t + Offset) \div Day)
         [] period = "hour"  -> 3600 * ((t + Offset) \div 3600) - Offset
         [] period = "minute" -> 60 * (t \div 60)

\* A whole number of months on: the same day, or the last one there is.
MonthsOn(t, n) ==
    LET tm == LocalTime(t)
        count == 12 * tm.year + tm.mon + n
        y == count \div 12
        m == count % 12
    IN Day * DayNumber(y, m, Min({tm.mday, MonthLength(m, y)})) + tm.sec - Offset

(* Rounding goes back to the first second of the period and no further,    *)
(* years and months keep the day or clip it to the month's last, and the   *)
(* units from weeks down are a plain number of seconds -- across leap days,*)
(* leap centuries and the turn of a year.  Exempt is what the code gets    *)
(* wrong: months counted back past January (spoilt), and minutes rounded   *)
(* before 1970, which go up although Date.h says that rounding decrements. *)
Held ==
    \/ spoilt
    \/ CASE last.op = "init" -> TRUE
         [] last.op = "seconds" -> date = last.from + last.n
         [] last.op = "years" -> date = MonthsOn(last.from, 12 * last.n)
         [] last.op = "months" -> date = MonthsOn(last.from, last.n)
         [] last.op = "minute" /\ last.from < 0 -> TRUE
         [] OTHER -> date = FirstOf(last.from, last.op)
=============================================================================
