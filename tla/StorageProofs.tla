---------------------------- MODULE StorageProofs ----------------------------
(***************************************************************************)
(* Proofs about strings, dates, files, streams and sockets for every value *)
(* of the constants: for each part an invariant that says more than its    *)
(* Held, and that each of its calls keeps it.                              *)
(***************************************************************************)
EXTENDS Storage, WellFoundedInduction, SequenceTheorems, TLAPS

-----------------------------------------------------------------------------
(* Dates.                                                                   *)

\* Months of the calendar, and years between the centuries that are no leap
\* years.
OfYear(m) == m \in Int /\ 0 <= m /\ m <= 11
Near(y) == y \in Int /\ 1901 <= y /\ y <= 2099

\* The number of the first day of such a year, and the days of it before m.
YearStart(y) == 365 * (y - 1970) + (y - 1) \div 4 - 492
MonthStart(m, y) == T!DaysBefore(m, y)

\* Between those centuries every fourth year is a leap year.
LEMMA LeapYears ==
  ASSUME NEW y, Near(y)
  PROVE  (T!IsLeap(y) <=> y % 4 = 0) /\ T!LeapsBefore(y) = (y - 1) \div 4 - 15
<1>0. y \in Int /\ 1901 <= y /\ y <= 2099
  BY DEF Near
<1>1. y % 100 = 0 <=> y = 2000
  BY <1>0
<1>2. y = 2000 => y % 400 = 0
  BY <1>0
<1>3. T!IsLeap(y) <=> y % 4 = 0
  BY <1>0, <1>1, <1>2 DEF T!IsLeap
<1>4. (y - 1) \div 100 = (IF y <= 2000 THEN 19 ELSE 20) /\ (y - 1) \div 400 = (IF y <= 2000 THEN 4 ELSE 5)
  BY <1>0
<1> QED BY <1>0, <1>3, <1>4 DEF T!LeapsBefore

\* The months, as days before them and days in them.
Spans(m, y) ==
  /\ MonthStart(m, y) \in Nat /\ MonthStart(m, y) <= 335
  /\ T!MonthLength(m, y) \in Nat /\ T!MonthLength(m, y) >= 28 /\ T!MonthLength(m, y) <= 31
  /\ m # 11 => OfYear(m + 1) /\ MonthStart(m, y) + T!MonthLength(m, y) = MonthStart(m + 1, y)

\* The months of a year lie end to end.
LEMMA MonthSpans ==
  ASSUME NEW m, NEW y, OfYear(m), Near(y)
  PROVE  Spans(m, y)
<1>0. y \in Int /\ m \in Int /\ 0 <= m /\ m <= 11
  BY DEF Near, OfYear
<1>1. T!IsLeap(y) <=> y % 4 = 0
  BY LeapYears
<1>2. m # 11 => OfYear(m + 1)
  BY <1>0 DEF OfYear
<1> QED BY <1>0, <1>1, <1>2 DEF MonthStart, T!DaysBefore, T!MonthLength, T!FEBRUARY, Spans

\* And they make a year.
LEMMA WholeYear ==
  ASSUME NEW y, Near(y)
  PROVE  /\ MonthStart(0, y) = 0
         /\ MonthStart(11, y) + T!MonthLength(11, y) = (IF y % 4 = 0 THEN 366 ELSE 365)
<1>0. y \in Int
  BY DEF Near
<1>1. T!IsLeap(y) <=> y % 4 = 0
  BY LeapYears
<1> QED BY <1>0, <1>1 DEF MonthStart, T!DaysBefore, T!MonthLength, T!FEBRUARY

\* The number of a day, by its year and the days before its month.
LEMMA DayNumberIs ==
  ASSUME NEW y, Near(y), NEW m, OfYear(m), NEW d \in Int
  PROVE  /\ T!DayNumber(y, m, d) = YearStart(y) + MonthStart(m, y) + d - 1
         /\ YearStart(y) \in Int /\ MonthStart(m, y) \in Nat
<1>0. y \in Int /\ Near(1970)
  BY DEF Near
<1>1. T!LeapsBefore(y) = (y - 1) \div 4 - 15 /\ T!LeapsBefore(1970) = 477
  BY <1>0, LeapYears
<1>2. MonthStart(m, y) \in Nat
  BY MonthSpans DEF Spans
<1>3. T!DayNumber(y, m, d) =
        365 * (y - 1970) + T!LeapsBefore(y) - T!LeapsBefore(1970) + MonthStart(m, y) + d - 1
  BY DEF T!DayNumber, MonthStart
<1> QED BY <1>0, <1>1, <1>2, <1>3 DEF YearStart

\* One year behind the other.
Ahead(y, z) ==
  /\ YearStart(y) \in Int /\ YearStart(z) \in Int
  /\ YearStart(y) + 365 * (z - y) <= YearStart(z)

\* A year has at least 365 days.
LEMMA YearAhead ==
  ASSUME NEW y \in Int, NEW z \in Int, y <= z
  PROVE  Ahead(y, z)
BY DEF YearStart, Ahead

\* And a leap year one more.
LEMMA NextYear ==
  ASSUME NEW y \in Int
  PROVE  YearStart(y + 1) = YearStart(y) + (IF y % 4 = 0 THEN 366 ELSE 365)
BY DEF YearStart

\* The year of a day.
InYear(day, y) == y \in Int /\ YearStart(y) <= day /\ day < YearStart(y + 1)

\* Days of the years a to b.
Days(day, a, b) == /\ a \in Int /\ b \in Int /\ 1950 <= a /\ b <= 2030
                   /\ day \in Int /\ YearStart(a) <= day /\ day < YearStart(b + 1)

\* A day of the years a to b is in none but these.
LEMMA YearBetween ==
  ASSUME NEW day, NEW a, NEW b, Days(day, a, b), NEW y, InYear(day, y)
  PROVE  a <= y /\ y <= b
<1>0. /\ a \in Int /\ b \in Int /\ day \in Int
      /\ YearStart(a) <= day /\ day < YearStart(b + 1)
      /\ y \in Int /\ YearStart(y) <= day /\ day < YearStart(y + 1)
  BY DEF Days, InYear
<1>1. PICK z \in Int : z = y + 1 /\ day < YearStart(z)
  BY <1>0
<1>2. a <= y
  <2>1. SUFFICES ASSUME z <= a PROVE FALSE
    BY <1>0, <1>1
  <2>2. Ahead(z, a)
    BY <1>0, <2>1, YearAhead
  <2> QED BY <1>0, <1>1, <2>1, <2>2 DEF Ahead
<1>3. PICK x \in Int : x = b + 1 /\ day < YearStart(x)
  BY <1>0
<1>4. y <= b
  <2>1. SUFFICES ASSUME x <= y PROVE FALSE
    BY <1>0, <1>3
  <2>2. Ahead(x, y)
    BY <1>0, <2>1, YearAhead
  <2> QED BY <1>0, <1>3, <2>1, <2>2 DEF Ahead
<1> QED BY <1>2, <1>4

\* Every day is in a year.
LEMMA YearOfDay ==
  ASSUME NEW day \in Int
  PROVE  \E y : InYear(day, y)
<1>1. PICK q \in Int : 1461 * q <= 4 * day + 2 /\ 4 * day + 2 < 1461 * q + 1461
  <2>1. PICK x \in Int : x = 4 * day + 2
    OBVIOUS
  <2>2. x \div 1461 \in Int /\ 1461 * (x \div 1461) <= x /\ x < 1461 * (x \div 1461) + 1461
    OBVIOUS
  <2> QED BY <2>1, <2>2
<1>2. PICK y \in Int : y = 1970 + q
  OBVIOUS
<1>3. PICK z \in Int : z = y + 1
  OBVIOUS
<1>4. YearStart(y) <= day /\ day < YearStart(z)
  BY <1>1, <1>2, <1>3 DEF YearStart
<1> QED BY <1>3, <1>4 DEF InYear

\* And in a month of it.
InMonth(e, m, y) == MonthStart(m, y) <= e /\ e < MonthStart(m, y) + T!MonthLength(m, y)

\* The day e of a year, from 0, is in one of its months.
LEMMA MonthOfDay ==
  ASSUME NEW y, Near(y), NEW e \in Nat, e < MonthStart(11, y) + T!MonthLength(11, y)
  PROVE  \E m : OfYear(m) /\ InMonth(e, m, y)
<1> DEFINE P(m) == MonthStart(m, y) <= e
<1>0. \A m : OfYear(m) => Spans(m, y)
  BY MonthSpans
<1>1. P(0)
  BY WholeYear
<1>2. PICK m : OfYear(m) /\ P(m) /\ (m = 11 \/ ~ P(m + 1))
  <2>1. SUFFICES ASSUME \A m : OfYear(m) /\ P(m) => m # 11 /\ P(m + 1) PROVE FALSE
    OBVIOUS
  <2>2. /\ OfYear(0) /\ OfYear(1) /\ OfYear(2) /\ OfYear(3) /\ OfYear(4) /\ OfYear(5)
        /\ OfYear(6) /\ OfYear(7) /\ OfYear(8) /\ OfYear(9) /\ OfYear(10) /\ OfYear(11)
    BY DEF OfYear
  <2> HIDE DEF P
  <2>3. P(0 + 1) /\ P(1 + 1) /\ P(2 + 1) /\ P(3 + 1) /\ P(4 + 1) /\ P(5 + 1)
    BY <1>1, <2>1, <2>2
  <2>4. P(6 + 1) /\ P(7 + 1) /\ P(8 + 1) /\ P(9 + 1) /\ P(10 + 1)
    BY <2>1, <2>2, <2>3
  <2> QED BY <2>1, <2>2, <2>4
<1>3. CASE m = 11
  BY <1>2, <1>3 DEF InMonth
<1>4. CASE m # 11
  <2>1. OfYear(m + 1) /\ MonthStart(m, y) + T!MonthLength(m, y) = MonthStart(m + 1, y)
    BY <1>0, <1>2, <1>4 DEF Spans
  <2>2. MonthStart(m + 1, y) \in Nat
    BY <1>0, <2>1 DEF Spans
  <2> QED BY <1>2, <1>4, <2>1, <2>2 DEF InMonth
<1> QED BY <1>2, <1>3, <1>4

\* What localtime_r() makes of t, a time of the years a to b.
Fields(t, a, b, y, m, d, w, s) ==
  /\ y \in Int /\ a <= y /\ y <= b /\ Near(y) /\ OfYear(m)
  /\ d \in Int /\ 1 <= d /\ d <= T!MonthLength(m, y)
  /\ s \in Int /\ 0 <= s /\ s < 86400
  /\ t + Offset = 86400 * (T!DayNumber(y, m, 1) + d - 1) + s
  /\ w = (T!DayNumber(y, m, 1) + d + 3) % 7
  /\ T!LocalTime(t) = [year |-> y, mon |-> m, mday |-> d, wday |-> w, sec |-> s]

DayOf(t) == (t + Offset) \div 86400

\* localtime_r() finds year and month of every day of the calendar.
LEMMA LocalTimeFields ==
  ASSUME NEW t \in Int, NEW a, NEW b, Days(DayOf(t), a, b)
  PROVE  \E y, m, d, w, s : Fields(t, a, b, y, m, d, w, s)
<1>0. Offset \in Int
  BY DatesAssumption
<1> DEFINE day == (t + Offset) \div T!Day
           s == (t + Offset) % T!Day
           y == CHOOSE q \in T!Years : T!DayNumber(q, 0, 1) <= day /\ day < T!DayNumber(q + 1, 0, 1)
           m == CHOOSE q \in 0..11 :
                  LET first == T!DayNumber(y, q, 1)
                  IN first <= day /\ day < first + T!MonthLength(q, y)
           d == day - T!DayNumber(y, m, 1) + 1
           w == (day + 4) % 7
<1>3. T!LocalTime(t) = [year |-> y, mon |-> m, mday |-> d, wday |-> w, sec |-> s]
  BY Zenon DEF T!LocalTime
<1>15. w = (day + 4) % 7 /\ d = day - T!DayNumber(y, m, 1) + 1
  OBVIOUS
<1> HIDE DEF d, w
<1>1. /\ day = DayOf(t) /\ day \in Int /\ s \in Int
      /\ 0 <= s /\ s < 86400 /\ t + Offset = 86400 * day + s
  BY <1>0 DEF DayOf, T!Day
<1> HIDE DEF s
<1>2. a \in Int /\ b \in Int /\ 1950 <= a /\ b <= 2030
  BY DEF Days
<1>4. /\ \A q : q \in T!Years <=> q \in Int /\ 1950 <= q /\ q <= 2030
      /\ \A q : q \in T!Years => Near(q) /\ Near(q + 1)
  <2>1. \A q : q \in T!Years <=> q \in Int /\ 1950 <= q /\ q <= 2030
    BY DEF T!Years
  <2> QED BY <2>1 DEF Near
<1>5. \A q : q \in T!Years => /\ T!DayNumber(q, 0, 1) = YearStart(q)
                              /\ T!DayNumber(q + 1, 0, 1) = YearStart(q + 1)
  <2>1. ASSUME NEW q, Near(q) PROVE T!DayNumber(q, 0, 1) = YearStart(q)
    <3>1. OfYear(0) /\ MonthStart(0, q) = 0 /\ 1 \in Int
      BY <2>1, WholeYear DEF OfYear
    <3>2. T!DayNumber(q, 0, 1) = YearStart(q) + MonthStart(0, q) + 1 - 1 /\ YearStart(q) \in Int
      BY <2>1, <3>1, DayNumberIs
    <3> QED BY <3>1, <3>2
  <2> QED BY <1>4, <2>1
<1>6. y \in T!Years /\ InYear(day, y)
  <2> HIDE DEF day, m
  <2>1. PICK q : InYear(day, q)
    BY <1>1, YearOfDay
  <2>2. q \in T!Years
    <3>1. a <= q /\ q <= b
      BY <1>1, <2>1, YearBetween
    <3>2. q \in Int
      BY <2>1 DEF InYear
    <3> QED BY <1>2, <1>4, <3>1, <3>2
  <2>3. T!DayNumber(q, 0, 1) <= day /\ day < T!DayNumber(q + 1, 0, 1)
    BY <1>5, <2>1, <2>2 DEF InYear
  <2>4. y \in T!Years /\ T!DayNumber(y, 0, 1) <= day /\ day < T!DayNumber(y + 1, 0, 1)
    BY <2>2, <2>3
  <2> HIDE DEF y
  <2> QED BY <1>4, <1>5, <2>4 DEF InYear
<1> HIDE DEF y, day
<1>7. y \in Int /\ Near(y) /\ a <= y /\ y <= b
  BY <1>1, <1>4, <1>6, YearBetween
<1>8. \A q : OfYear(q) => T!DayNumber(y, q, 1) = YearStart(y) + MonthStart(q, y)
  <2>1. ASSUME NEW q, OfYear(q) PROVE T!DayNumber(y, q, 1) = YearStart(y) + MonthStart(q, y)
    <3>1. /\ T!DayNumber(y, q, 1) = YearStart(y) + MonthStart(q, y) + 1 - 1
          /\ YearStart(y) \in Int /\ MonthStart(q, y) \in Nat
      BY <1>7, <2>1, DayNumberIs
    <3> QED BY <3>1
  <2> QED BY <2>1
<1>9. YearStart(y) \in Int /\ \A q : OfYear(q) => MonthStart(q, y) \in Nat /\ T!MonthLength(q, y) \in Nat
  <2>1. YearStart(y) \in Int
    BY <1>7 DEF YearStart
  <2>2. \A q : OfYear(q) => Spans(q, y)
    BY <1>7, MonthSpans
  <2> QED BY <2>1, <2>2 DEF Spans
<1>10. OfYear(m) /\ T!DayNumber(y, m, 1) <= day /\ day < T!DayNumber(y, m, 1) + T!MonthLength(m, y)
  <2>0. \A q : q \in 0..11 <=> OfYear(q)
    BY DEF OfYear
  <2>1. PICK e \in Nat : e = day - YearStart(y)
    BY <1>1, <1>6, <1>9 DEF InYear
  <2>2. e < MonthStart(11, y) + T!MonthLength(11, y)
    <3>1. YearStart(y + 1) = YearStart(y) + (MonthStart(11, y) + T!MonthLength(11, y))
      BY <1>7, NextYear, WholeYear
    <3>2. day < YearStart(y + 1)
      BY <1>6 DEF InYear
    <3>3. OfYear(11)
      BY DEF OfYear
    <3> QED BY <1>1, <1>9, <2>1, <3>1, <3>2, <3>3
  <2>3. PICK q : OfYear(q) /\ InMonth(e, q, y)
    BY <1>7, <2>2, MonthOfDay
  <2>4. T!DayNumber(y, q, 1) <= day /\ day < T!DayNumber(y, q, 1) + T!MonthLength(q, y)
    BY <1>1, <1>8, <1>9, <2>1, <2>3 DEF InMonth
  <2> DEFINE P(r) == LET first == T!DayNumber(y, r, 1)
                     IN first <= day /\ day < first + T!MonthLength(r, y)
  <2>5. q \in 0..11 /\ P(q)
    BY <2>0, <2>3, <2>4
  <2>6. m = CHOOSE r \in 0..11 : P(r)
    OBVIOUS
  <2>7. m \in 0..11 /\ P(m)
    <3> HIDE DEF P, m
    <3> QED BY <2>5, <2>6
  <2>8. P(m) => T!DayNumber(y, m, 1) <= day /\ day < T!DayNumber(y, m, 1) + T!MonthLength(m, y)
    <3> HIDE DEF m
    <3> QED OBVIOUS
  <2> HIDE DEF m, P
  <2> QED BY <2>0, <2>7, <2>8
<1> HIDE DEF m
<1>11. PICK n \in Int : n = T!DayNumber(y, m, 1)
  BY <1>8, <1>9, <1>10
<1>12. d = day - n + 1 /\ n <= day /\ day < n + T!MonthLength(m, y) /\ T!MonthLength(m, y) \in Int
  BY <1>9, <1>10, <1>11, <1>15
<1>13. d \in Int /\ 1 <= d /\ d <= T!MonthLength(m, y) /\ day = n + d - 1
  BY <1>1, <1>12
<1>16. day + 4 = n + d + 3
  BY <1>1, <1>13
<1>17. w = (n + d + 3) % 7
  BY <1>15, <1>16
<1>18. t + Offset = 86400 * (n + d - 1) + s
  BY <1>1, <1>13
<1>14. Fields(t, a, b, y, m, d, w, s)
  BY <1>1, <1>3, <1>7, <1>10, <1>11, <1>13, <1>17, <1>18 DEF Fields
<1> QED BY <1>14

\* Days are counted within a month.
LEMMA DayInMonth ==
  ASSUME NEW y \in Int, NEW m, OfYear(m)
  PROVE  /\ T!DayNumber(y, m, 1) \in Int
         /\ \A d \in Int : T!DayNumber(y, m, d) = T!DayNumber(y, m, 1) + d - 1
<1>1. T!LeapsBefore(y) \in Int /\ T!LeapsBefore(1970) \in Int
  BY DEF T!LeapsBefore
<1>2. T!DaysBefore(m, y) \in Int
  <2>1. m \in Int /\ 0 <= m /\ m <= 11
    BY DEF OfYear
  <2> QED BY <2>1 DEF T!DaysBefore
<1> QED BY <1>1, <1>2 DEF T!DayNumber

\* mktime() of a month of the year, and of one that is not.
Broken(y, m, d, w, s) == [year |-> y, mon |-> m, mday |-> d, wday |-> w, sec |-> s]

\* And mktime() is the day's number in seconds.
LEMMA MktimeIs ==
  ASSUME NEW y \in Int, NEW m, OfYear(m), NEW d \in Int, NEW w, NEW s \in Int
  PROVE  T!mktime(Broken(y, m, d, w, s)) = 86400 * (T!DayNumber(y, m, 1) + d - 1) + s - Offset
<1>0. m \in Int /\ 0 <= m /\ m <= 11
  BY DEF OfYear
<1>1. m \div 12 = 0 /\ m % 12 = m
  BY <1>0
<1>2. T!mktime(Broken(y, m, d, w, s)) =
        86400 * T!DayNumber(y + (m \div 12), m % 12, d) + s - Offset
  BY DEF T!mktime, Broken, T!Day
<1>3. T!mktime(Broken(y, m, d, w, s)) = 86400 * T!DayNumber(y, m, d) + s - Offset
  BY <1>1, <1>2
<1>4. T!DayNumber(y, m, d) = T!DayNumber(y, m, 1) + d - 1
  BY DayInMonth
<1> QED BY <1>3, <1>4

\* A time some days of a near year away.
LEMMA Moved ==
  ASSUME NEW a \in Int, NEW b \in Int, 1950 <= a - 6, b + 6 <= 2030,
         NEW y \in Int, a - 5 <= y, y <= b + 5, NEW m, OfYear(m),
         NEW d \in Int, -30 <= d, d <= 100, NEW s \in Int, 0 <= s, s < 86400,
         NEW t, t = 86400 * (T!DayNumber(y, m, 1) + d - 1) + s - Offset
  PROVE  Days(DayOf(t), a - 6, b + 6)
<1>0. Offset \in Int
  BY DatesAssumption
<1>1. Near(y)
  BY DEF Near
<1>2. PICK n \in Int, f \in Int, k \in Nat :
        n = T!DayNumber(y, m, 1) /\ f = YearStart(y) /\ k = MonthStart(m, y)
        /\ n = f + k /\ k <= 335
  <2>1. /\ T!DayNumber(y, m, 1) = YearStart(y) + MonthStart(m, y) + 1 - 1
        /\ YearStart(y) \in Int /\ MonthStart(m, y) \in Nat
    BY <1>1, DayNumberIs
  <2>2. MonthStart(m, y) <= 335
    BY <1>1, MonthSpans DEF Spans
  <2> QED BY <2>1, <2>2
<1>3. DayOf(t) = n + d - 1
  <2>1. PICK x \in Int : x = n + d - 1
    OBVIOUS
  <2>2. t + Offset = 86400 * x + s
    BY <1>0, <1>2, <2>1
  <2>3. (86400 * x + s) \div 86400 = x
    OBVIOUS
  <2> QED BY <2>1, <2>2, <2>3 DEF DayOf
<1>4. YearStart(a - 6) + 365 <= f
  <2>1. Ahead(a - 6, y)
    BY YearAhead
  <2> QED BY <1>2, <2>1 DEF Ahead
<1>5. f + 730 <= YearStart((b + 6) + 1)
  <2>1. Ahead(y, (b + 6) + 1)
    BY YearAhead
  <2> QED BY <1>2, <2>1 DEF Ahead
<1>6. YearStart(a - 6) \in Int /\ YearStart((b + 6) + 1) \in Int
  BY DEF YearStart
<1> QED BY <1>2, <1>3, <1>4, <1>5, <1>6 DEF Days

\* A time at most a year of days away.
LEMMA Shifted ==
  ASSUME NEW a, NEW b, 1950 <= a - 6, b + 6 <= 2030, NEW day, Days(day, a, b),
         NEW other \in Int, day - 300 <= other, other <= day + 300
  PROVE  Days(other, a - 6, b + 6)
<1>0. /\ a \in Int /\ b \in Int /\ day \in Int /\ YearStart(a) <= day /\ day < YearStart(b + 1)
  BY DEF Days
<1>1. YearStart(a - 6) + 365 <= YearStart(a) /\ YearStart(a - 6) \in Int /\ YearStart(a) \in Int
  <2>1. a - 6 \in Int /\ a - 6 <= a
    BY <1>0
  <2>2. Ahead(a - 6, a)
    BY <1>0, <2>1, YearAhead
  <2> QED BY <1>0, <2>2 DEF Ahead
<1>2. /\ YearStart(b + 1) + 365 <= YearStart((b + 6) + 1)
      /\ YearStart((b + 6) + 1) \in Int /\ YearStart(b + 1) \in Int
  <2>1. (b + 6) + 1 \in Int /\ b + 1 \in Int /\ b + 1 <= (b + 6) + 1
    BY <1>0
  <2>2. Ahead(b + 1, (b + 6) + 1)
    BY <1>0, <2>1, YearAhead
  <2> QED BY <1>0, <2>2 DEF Ahead
<1> QED BY <1>0, <1>1, <1>2 DEF Days

\* The years a date can have come to after k steps.
Lo(k) == 1950 + 6 * (MaxSteps + 1 - k)
Hi(k) == 2030 - 6 * (MaxSteps + 1 - k)

DatesInv ==
  /\ T!TypeOK
  /\ T!Held
  /\ ~ spoilt => Days(DayOf(date), Lo(steps), Hi(steps))

\* The fields of the date before a step.
Here(a, b, y, m, d, w, s) ==
  /\ a = Lo(steps) /\ b = Hi(steps) /\ a \in Int /\ b \in Int
  /\ 1950 <= a - 6 /\ b + 6 <= 2030
  /\ Lo(steps + 1) = a - 6 /\ Hi(steps + 1) = b + 6
  /\ Days(DayOf(date), a, b) /\ Fields(date, a, b, y, m, d, w, s)

\* A date that is not spoilt has fields.
LEMMA DatesHere ==
  ASSUME DatesInv, ~ spoilt, steps < MaxSteps
  PROVE  \E a, b, y, m, d, w, s : Here(a, b, y, m, d, w, s)
<1>1. MaxSteps \in Nat /\ steps \in Nat /\ date \in Int
  BY DatesAssumption DEF DatesInv, T!TypeOK
<1>2. PICK a \in Int, b \in Int : a = Lo(steps) /\ b = Hi(steps)
  BY <1>1 DEF Lo, Hi
<1>3. 1950 <= a - 6 /\ b + 6 <= 2030 /\ Lo(steps + 1) = a - 6 /\ Hi(steps + 1) = b + 6
  BY <1>1, <1>2 DEF Lo, Hi
<1>4. Days(DayOf(date), a, b)
  BY <1>2 DEF DatesInv
<1>5. PICK y, m, d, w, s : Fields(date, a, b, y, m, d, w, s)
  BY <1>1, <1>4, LocalTimeFields
<1>6. Here(a, b, y, m, d, w, s)
  BY <1>2, <1>3, <1>4, <1>5 DEF Here
<1> QED BY <1>6

\* The date is what its fields say.
LEMMA HereIs ==
  ASSUME NEW a, NEW b, NEW y, NEW m, NEW d, NEW w, NEW s, Here(a, b, y, m, d, w, s)
  PROVE  /\ y \in Int /\ d \in Int /\ s \in Int /\ OfYear(m) /\ T!DayNumber(y, m, 1) \in Int
         /\ T!LocalTime(date) = Broken(y, m, d, w, s)
         /\ date + Offset = 86400 * (T!DayNumber(y, m, 1) + d - 1) + s
<1>1. y \in Int /\ OfYear(m)
  BY DEF Here, Fields
<1>2. T!DayNumber(y, m, 1) \in Int
  BY <1>1, DayInMonth
<1> QED BY <1>1, <1>2 DEF Here, Fields, Broken

\* A date that is moved keeps the invariant, if it comes out right.
LEMMA DatesBecome ==
  ASSUME DatesInv, NEW a, NEW b, NEW y, NEW m, NEW d, NEW w, NEW s, Here(a, b, y, m, d, w, s),
         NEW t \in Int, NEW op, NEW n, T!Become(t, op, n), spoilt' \in BOOLEAN,
         ~ spoilt' => Days(DayOf(t), a - 6, b + 6), T!Held'
  PROVE  DatesInv'
<1>1. date' = t /\ last' = [op |-> op, n |-> n, from |-> date] /\ steps' = steps + 1 /\ steps < MaxSteps
  BY DEF T!Become
<1>2. steps \in 0..MaxSteps /\ date \in Int /\ MaxSteps \in Nat
  BY DatesAssumption DEF DatesInv, T!TypeOK
<1>3. steps + 1 \in 0..MaxSteps
  BY <1>1, <1>2
<1>4. T!TypeOK'
  BY <1>1, <1>2, <1>3 DEF T!TypeOK
<1>5. Lo(steps') = a - 6 /\ Hi(steps') = b + 6
  BY <1>1 DEF Here
<1>6. DayOf(date') = DayOf(t)
  BY <1>1
<1> QED BY <1>4, <1>5, <1>6 DEF DatesInv

\* A plain number of seconds.
LEMMA DatesSeconds ==
  ASSUME DatesInv, NEW k \in Int, -10000000 <= k, k <= 10000000, ~ spoilt,
         T!Become(date + k, "seconds", k), UNCHANGED spoilt
  PROVE  DatesInv'
<1>0. date \in Int /\ Offset \in Int /\ steps < MaxSteps
  BY DatesAssumption DEF DatesInv, T!TypeOK, T!Become
<1>1. PICK a, b, y, m, d, w, s : Here(a, b, y, m, d, w, s)
  BY <1>0, DatesHere
<1>2. T!Held'
  <2>1. date' = date + k /\ last'.op = "seconds" /\ last'.n = k /\ last'.from = date
    BY DEF T!Become
  <2> QED BY <2>1 DEF T!Held
<1>3. DayOf(date) \in Int /\ DayOf(date + k) \in Int
      /\ DayOf(date) - 300 <= DayOf(date + k) /\ DayOf(date + k) <= DayOf(date) + 300
  <2>1. PICK x \in Int, z \in Int : x = date + Offset /\ z = date + k + Offset
    BY <1>0
  <2>2. x - 10000000 <= z /\ z <= x + 10000000
    BY <1>0, <2>1
  <2>3. (x \div 86400) - 300 <= z \div 86400 /\ z \div 86400 <= (x \div 86400) + 300
        /\ x \div 86400 \in Int /\ z \div 86400 \in Int
    BY <2>2
  <2> QED BY <2>1, <2>3 DEF DayOf
<1>4. Days(DayOf(date + k), a - 6, b + 6)
  <2>1. Days(DayOf(date), a, b) /\ 1950 <= a - 6 /\ b + 6 <= 2030
    BY <1>1 DEF Here
  <2> QED BY <1>3, <2>1, Shifted
<1>5. date + k \in Int /\ spoilt' \in BOOLEAN
  BY <1>0 DEF DatesInv, T!TypeOK
<1> QED BY <1>1, <1>2, <1>4, <1>5, DatesBecome

\* Days and weeks are seconds.
LEMMA DatesDays ==
  ASSUME DatesInv, NEW n \in Int, -100 <= n, n <= 100, ~ spoilt, steps < MaxSteps
  PROVE  T!mktime(T!addDays(T!LocalTime(date), n)) = date + 86400 * n
<1>0. date \in Int /\ Offset \in Int
  BY DatesAssumption DEF DatesInv, T!TypeOK
<1>1. PICK a, b, y, m, d, w, s : Here(a, b, y, m, d, w, s)
  BY DatesHere
<1>2. /\ y \in Int /\ d \in Int /\ s \in Int /\ OfYear(m) /\ T!DayNumber(y, m, 1) \in Int
      /\ T!LocalTime(date) = Broken(y, m, d, w, s)
      /\ date + Offset = 86400 * (T!DayNumber(y, m, 1) + d - 1) + s
  BY <1>1, HereIs
<1>3. T!addDays(Broken(y, m, d, w, s), n) = Broken(y, m, d + n, w, s)
  BY DEF T!addDays, Broken
<1>4. d + n \in Int
  BY <1>2
<1>5. T!mktime(Broken(y, m, d + n, w, s)) = 86400 * (T!DayNumber(y, m, 1) + (d + n) - 1) + s - Offset
  BY <1>2, <1>4, MktimeIs
<1> QED BY <1>0, <1>2, <1>3, <1>5

\* addDays() and addWeeks() keep the invariant.
LEMMA DatesAddDays ==
  ASSUME DatesInv, ~ spoilt, T!AddDays  PROVE DatesInv'
<1>1. steps < MaxSteps /\ UNCHANGED spoilt
  BY DEF T!AddDays, T!Become
<1>2. ASSUME NEW k \in Int, -14 <= k, k <= 30,
             T!Become(T!mktime(T!addDays(T!LocalTime(date), k)), "seconds", 86400 * k)
      PROVE  DatesInv'
  <2>1. T!mktime(T!addDays(T!LocalTime(date), k)) = date + 86400 * k
    BY <1>1, <1>2, DatesDays
  <2>2. PICK x \in Int : x = 86400 * k /\ -10000000 <= x /\ x <= 10000000
    BY <1>2
  <2>3. T!Become(date + x, "seconds", x)
    BY <1>2, <2>1, <2>2
  <2> QED BY <1>1, <2>2, <2>3, DatesSeconds
<1>3. ASSUME NEW j \in {-2, 1},
             T!Become(T!mktime(T!addDays(T!LocalTime(date), 7 * j)), "seconds", 7 * j * T!Day)
      PROVE  DatesInv'
  <2>1. PICK k \in Int : k = 7 * j /\ -14 <= k /\ k <= 30
    BY <1>3
  <2>2. 7 * j * T!Day = 86400 * k
    BY <2>1 DEF T!Day
  <2> QED BY <1>2, <1>3, <2>1, <2>2
<1>4. ASSUME NEW k \in {-1, 30},
             T!Become(T!mktime(T!addDays(T!LocalTime(date), k)), "seconds", k * T!Day)
      PROVE  DatesInv'
  <2>1. k \in Int /\ -14 <= k /\ k <= 30 /\ k * T!Day = 86400 * k
    BY <1>4 DEF T!Day
  <2> QED BY <1>2, <1>4, <2>1
<1> QED BY <1>3, <1>4 DEF T!AddDays

\* Hours, minutes and seconds.
LEMMA DatesAddTime ==
  ASSUME DatesInv, ~ spoilt, T!AddTime  PROVE DatesInv'
<1>1. UNCHANGED spoilt
  BY DEF T!AddTime
<1>2. PICK k \in {-3600, 90000, -60, 3660, -1, 1} : T!Become(date + k, "seconds", k)
  BY DEF T!AddTime
<1>3. k \in Int /\ -10000000 <= k /\ k <= 10000000
  BY <1>2
<1> QED BY <1>1, <1>2, <1>3, DatesSeconds

\* A step that keeps to the calendar: its fields, and what is expected of it.
LEMMA DatesComes ==
  ASSUME DatesInv, ~ spoilt, spoilt' \in BOOLEAN,
         NEW a, NEW b, NEW y, NEW m, NEW d, NEW w, NEW s, Here(a, b, y, m, d, w, s),
         NEW y2 \in Int, a - 5 <= y2, y2 <= b + 5, NEW m2, OfYear(m2),
         NEW d2 \in Int, -30 <= d2, d2 <= 100, NEW s2 \in Int, 0 <= s2, s2 < 86400, NEW op, NEW n,
         T!Become(T!mktime(Broken(y2, m2, d2, w, s2)), op, n), T!Held'
  PROVE  DatesInv'
<1>0. Offset \in Int /\ a \in Int /\ b \in Int /\ 1950 <= a - 6 /\ b + 6 <= 2030
  BY DatesAssumption DEF Here
<1>1. PICK t : t = T!mktime(Broken(y2, m2, d2, w, s2))
  OBVIOUS
<1>2. t = 86400 * (T!DayNumber(y2, m2, 1) + d2 - 1) + s2 - Offset
  BY <1>1, MktimeIs
<1>3. t \in Int
  <2>1. T!DayNumber(y2, m2, 1) \in Int
    BY DayInMonth
  <2> QED BY <1>0, <1>2, <2>1
<1>4. Days(DayOf(t), a - 6, b + 6)
  BY <1>0, <1>2, Moved
<1>5. T!Become(t, op, n)
  BY <1>1
<1> QED BY <1>3, <1>4, <1>5, DatesBecome

\* The hours of a day.
HourOf(t) == t \div 3600
HourStart(s) == s - (s % 3600)

\* Days are whole hours.
LEMMA WholeHours ==
  ASSUME NEW k \in Int, NEW s \in Int
  PROVE  /\ 3600 * HourOf(86400 * k + s) = 86400 * k + HourStart(s)
         /\ HourStart(s) \in Int /\ HourStart(s) <= s /\ s < HourStart(s) + 3600
         /\ 0 <= s => 0 <= HourStart(s)
<1>1. PICK q \in Int, r \in Int : s = 3600 * q + r /\ 0 <= r /\ r < 3600
  <2>1. PICK q \in Int : q = s \div 3600 /\ 3600 * q <= s /\ s < 3600 * q + 3600
    OBVIOUS
  <2>2. PICK r \in Int : r = s - 3600 * q
    BY <2>1
  <2> QED BY <2>1, <2>2
<1>2. HourStart(s) = s - r
  <2>1. (3600 * q + r) % 3600 = r
    BY <1>1
  <2> QED BY <1>1, <2>1 DEF HourStart
<1>3. PICK x \in Int : x = 24 * k + q
  BY <1>1
<1>4. 86400 * k + s = 3600 * x + r
  BY <1>1, <1>3
<1>5. (3600 * x + r) \div 3600 = x
  BY <1>1
<1>6. HourOf(86400 * k + s) = x
  BY <1>4, <1>5 DEF HourOf
<1>7. 3600 * x = 86400 * k + (s - r)
  BY <1>1, <1>3
<1>8. HourStart(s) \in Int /\ HourStart(s) <= s /\ s < HourStart(s) + 3600
  BY <1>1, <1>2
<1>9. 0 <= s => 0 <= HourStart(s)
  BY <1>1, <1>2
<1> QED BY <1>2, <1>6, <1>7, <1>8, <1>9

\* What rounding is measured against, in the fields of the date.
LEMMA FirstOfIs ==
  ASSUME NEW a, NEW b, NEW y, NEW m, NEW d, NEW w, NEW s, Here(a, b, y, m, d, w, s),
         NEW k, k = T!DayNumber(y, m, 1) + d - 1
  PROVE  /\ T!FirstOf(date, "year") = 86400 * T!DayNumber(y, 0, 1) - Offset
         /\ T!FirstOf(date, "month") = 86400 * T!DayNumber(y, m, 1) - Offset
         /\ T!FirstOf(date, "day") = 86400 * k - Offset
         /\ T!FirstOf(date, "hour") = 86400 * k + HourStart(s) - Offset
<1>0. Offset \in Int
  BY DatesAssumption
<1>1. PICK n \in Int : n = T!DayNumber(y, m, 1)
  BY HereIs
<1>2. /\ y \in Int /\ d \in Int /\ s \in Int /\ 0 <= s /\ s < 86400 /\ k \in Int
      /\ T!LocalTime(date) = Broken(y, m, d, w, s) /\ date + Offset = 86400 * k + s
  <2>1. /\ y \in Int /\ d \in Int /\ s \in Int
        /\ T!LocalTime(date) = Broken(y, m, d, w, s) /\ date + Offset = 86400 * (n + d - 1) + s
    BY <1>1, HereIs
  <2>2. 0 <= s /\ s < 86400
    BY DEF Here, Fields
  <2> QED BY <1>1, <2>1, <2>2
<1>3. (date + Offset) \div 86400 = k
  BY <1>2
<1>4. 3600 * HourOf(date + Offset) = 86400 * k + HourStart(s)
  BY <1>2, WholeHours
<1>5. Broken(y, m, d, w, s).year = y /\ Broken(y, m, d, w, s).mon = m
  BY DEF Broken
<1>6. T!FirstOf(date, "year") = 86400 * T!DayNumber(y, 0, 1) - Offset
  BY <1>2, <1>5 DEF T!FirstOf, T!Day
<1>7. T!FirstOf(date, "month") = 86400 * T!DayNumber(y, m, 1) - Offset
  BY <1>2, <1>5 DEF T!FirstOf, T!Day
<1>8. T!FirstOf(date, "day") = 86400 * k - Offset
  BY <1>3 DEF T!FirstOf, T!Day
<1>9. T!FirstOf(date, "hour") = 86400 * k + HourStart(s) - Offset
  <2>1. T!FirstOf(date, "hour") = 3600 * HourOf(date + Offset) - Offset
    BY DEF T!FirstOf, HourOf
  <2>2. HourStart(s) \in Int
    BY <1>2, WholeHours
  <2> QED BY <1>0, <1>2, <1>4, <2>1, <2>2
<1> QED BY <1>6, <1>7, <1>8, <1>9

\* The first day of a week is a Sunday, six days back at most.
LEMMA FirstOfWeek ==
  ASSUME NEW a, NEW b, NEW y, NEW m, NEW d, NEW w, NEW s, Here(a, b, y, m, d, w, s),
         NEW k, k = T!DayNumber(y, m, 1) + d - 1
  PROVE  w \in Int /\ 0 <= w /\ w <= 6 /\ T!FirstOf(date, "week") = 86400 * (k - w) - Offset
<1>0. Offset \in Int
  BY DatesAssumption
<1>1. PICK n \in Int : n = T!DayNumber(y, m, 1)
  BY HereIs
<1>2. d \in Int /\ s \in Int /\ date + Offset = 86400 * (n + d - 1) + s
  BY <1>1, HereIs
<1>3. 0 <= s /\ s < 86400 /\ w = (n + d + 3) % 7
  BY <1>1 DEF Here, Fields
<1>4. k \in Int /\ k = n + d - 1 /\ date + Offset = 86400 * k + s
  BY <1>1, <1>2
<1>5. (date + Offset) \div 86400 = k
  BY <1>2, <1>3, <1>4
<1>6. w = (k + 4) % 7 /\ w \in Int /\ 0 <= w /\ w <= 6
  <2>1. k + 4 = n + d + 3
    BY <1>2, <1>4
  <2>2. w = (k + 4) % 7
    BY <1>3, <2>1
  <2>3. (k + 4) % 7 \in Int /\ 0 <= (k + 4) % 7 /\ (k + 4) % 7 <= 6
    BY <1>4
  <2> QED BY <2>2, <2>3
<1> DEFINE start(j) == 86400 * j - Offset
           Sunday(x) == T!LocalTime(x).wday = 0
           Week == {start(k - i) : i \in 0..6}
<1>7. T!FirstOf(date, "week") = CHOOSE x \in Week : Sunday(x)
  <2>1. T!FirstOf(date, "week") = CHOOSE x \in {T!Day * ((date + Offset) \div T!Day - i) - Offset : i \in 0..6} :
                                     T!LocalTime(x).wday = 0
    BY DEF T!FirstOf
  <2>2. T!Day = 86400
    BY DEF T!Day
  <2>3. {T!Day * ((date + Offset) \div T!Day - i) - Offset : i \in 0..6} = Week
    BY <1>5, <2>2
  <2> HIDE DEF Week
  <2> QED BY <2>1, <2>3
<1>8. ASSUME NEW i \in 0..6 PROVE Sunday(start(k - i)) <=> i = w
  <2>0. PICK j \in Int : j = k - i
    BY <1>4
  <2>1. PICK x \in Int : j = k - i /\ x = start(j)
    BY <1>0, <2>0
  <2>2. (x + Offset) \div 86400 = j
    BY <1>0, <2>1
  <2>3. T!LocalTime(x).wday = ((x + Offset) \div T!Day + 4) % 7
    BY DEF T!LocalTime
  <2>4. T!LocalTime(x).wday = (j + 4) % 7
    BY <2>2, <2>3 DEF T!Day
  <2>5. (j + 4) % 7 = 0 <=> i = (k + 4) % 7
    BY <1>4, <2>1
  <2> QED BY <1>6, <2>1, <2>4, <2>5
<1>9. w \in 0..6
  BY <1>6
<1> HIDE DEF start, Sunday
<1>10. \A x \in Week : Sunday(x) <=> x = start(k - w)
  BY <1>8, <1>9
<1>11. start(k - w) \in Week
  BY <1>9
<1> HIDE DEF Week
<1>12. T!FirstOf(date, "week") = start(k - w)
  BY <1>7, <1>10, <1>11
<1> QED BY <1>6, <1>12 DEF start

\* Rounding that comes to the first second of its period.
LEMMA DatesRounded ==
  ASSUME DatesInv, ~ spoilt, UNCHANGED spoilt,
         NEW a, NEW b, NEW y, NEW m, NEW d, NEW w, NEW s, Here(a, b, y, m, d, w, s),
         NEW m2, OfYear(m2), NEW d2 \in Int, -30 <= d2, d2 <= 100,
         NEW s2 \in Int, 0 <= s2, s2 < 86400, NEW op \in {"year", "month", "week", "day", "hour"},
         T!Become(T!mktime(Broken(y, m2, d2, w, s2)), op, 0),
         T!FirstOf(date, op) = 86400 * (T!DayNumber(y, m2, 1) + d2 - 1) + s2 - Offset
  PROVE  DatesInv'
<1>1. y \in Int /\ a - 5 <= y /\ y <= b + 5
  BY DEF Here, Fields
<1>2. T!mktime(Broken(y, m2, d2, w, s2)) = T!FirstOf(date, op)
  BY <1>1, MktimeIs
<1>3. date' = T!FirstOf(date, op) /\ last'.op = op /\ last'.from = date
  BY <1>2 DEF T!Become
<1>4. T!Held'
  BY <1>3 DEF T!Held
<1>5. spoilt' \in BOOLEAN
  BY DEF DatesInv, T!TypeOK
<1> QED BY <1>1, <1>4, <1>5, DatesComes

\* Minutes are rounded on the time itself, before 1970 to the next one.
LEMMA DatesMinute ==
  ASSUME DatesInv, ~ spoilt, UNCHANGED spoilt, T!Become(T!roundToMinute(date), "minute", 0)
  PROVE  DatesInv'
<1>0. date \in Int /\ Offset \in Int /\ steps < MaxSteps
  BY DatesAssumption DEF DatesInv, T!TypeOK, T!Become
<1>1. PICK a, b, y, m, d, w, s : Here(a, b, y, m, d, w, s)
  BY <1>0, DatesHere
<1>2. PICK t : t = T!roundToMinute(date)
  OBVIOUS
<1>3. /\ t \in Int /\ date - 60 <= t /\ t <= date + 60
      /\ date < 0 => t - 60 < date /\ date <= t
      /\ date >= 0 => t = 60 * (date \div 60)
  BY <1>0, <1>2 DEF T!roundToMinute, T!Rem
<1>4. date' = t /\ last'.op = "minute" /\ last'.from = date
  BY <1>2 DEF T!Become
<1>5. T!Held'
  <2>1. T!FirstOf(date, "minute") = 60 * (date \div 60)
    BY DEF T!FirstOf
  <2>2. CASE date < 0
    BY <1>3, <1>4, <2>2 DEF T!Held
  <2>3. CASE ~ (date < 0)
    <3>1. date' = T!FirstOf(date, "minute")
      BY <1>0, <1>3, <1>4, <2>1, <2>3
    <3> QED BY <1>4, <2>3, <3>1 DEF T!Held
  <2> QED BY <2>2, <2>3
<1>6. DayOf(date) \in Int /\ DayOf(t) \in Int
      /\ DayOf(date) - 300 <= DayOf(t) /\ DayOf(t) <= DayOf(date) + 300
  <2>1. PICK x \in Int, z \in Int : x = date + Offset /\ z = t + Offset
    BY <1>0, <1>3
  <2>2. x - 60 <= z /\ z <= x + 60
    BY <1>0, <1>3, <2>1
  <2>3. (x \div 86400) - 300 <= z \div 86400 /\ z \div 86400 <= (x \div 86400) + 300
        /\ x \div 86400 \in Int /\ z \div 86400 \in Int
    BY <2>2
  <2> QED BY <2>1, <2>3 DEF DayOf
<1>7. Days(DayOf(t), a - 6, b + 6)
  <2>1. Days(DayOf(date), a, b) /\ 1950 <= a - 6 /\ b + 6 <= 2030
    BY <1>1 DEF Here
  <2> QED BY <1>6, <2>1, Shifted
<1>8. spoilt' \in BOOLEAN /\ T!Become(t, "minute", 0)
  BY <1>2 DEF DatesInv, T!TypeOK
<1> QED BY <1>1, <1>3, <1>5, <1>7, <1>8, DatesBecome

\* Rounding keeps the invariant.
LEMMA DatesRound ==
  ASSUME DatesInv, ~ spoilt, T!Round  PROVE DatesInv'
<1>0. steps < MaxSteps /\ UNCHANGED spoilt
  BY DEF T!Round, T!Become
<1>1. PICK a, b, y, m, d, w, s : Here(a, b, y, m, d, w, s)
  BY <1>0, DatesHere
<1>2. /\ y \in Int /\ d \in Int /\ s \in Int /\ OfYear(m) /\ T!DayNumber(y, m, 1) \in Int
      /\ T!LocalTime(date) = Broken(y, m, d, w, s)
  BY <1>1, HereIs
<1>3. 1 <= d /\ d <= 31 /\ 0 <= s /\ s < 86400
  <2>1. Near(y) /\ 1 <= d /\ d <= T!MonthLength(m, y) /\ 0 <= s /\ s < 86400
    BY <1>1 DEF Here, Fields
  <2>2. T!MonthLength(m, y) \in Nat /\ T!MonthLength(m, y) <= 31
    BY <1>2, <2>1, MonthSpans DEF Spans
  <2> QED BY <1>2, <2>1, <2>2
<1>4. PICK n \in Int, k \in Int : n = T!DayNumber(y, m, 1) /\ k = n + d - 1 /\ k = T!DayNumber(y, m, 1) + d - 1
  BY <1>2
<1>5. /\ T!FirstOf(date, "year") = 86400 * T!DayNumber(y, 0, 1) - Offset
      /\ T!FirstOf(date, "month") = 86400 * n - Offset
      /\ T!FirstOf(date, "day") = 86400 * k - Offset
      /\ T!FirstOf(date, "hour") = 86400 * k + HourStart(s) - Offset
  BY <1>1, <1>4, FirstOfIs
<1>6. w \in Int /\ 0 <= w /\ w <= 6 /\ T!FirstOf(date, "week") = 86400 * (k - w) - Offset
  BY <1>1, <1>4, FirstOfWeek
<1>7. Offset \in Int /\ OfYear(0)
  BY DatesAssumption DEF OfYear
<1>8. /\ T!roundToYear(Broken(y, m, d, w, s)) = Broken(y, 0, 1, w, 0)
      /\ T!roundToMonth(Broken(y, m, d, w, s)) = Broken(y, m, 1, w, 0)
      /\ T!roundToWeek(Broken(y, m, d, w, s)) = Broken(y, m, d - w, w, 0)
      /\ T!roundToDay(Broken(y, m, d, w, s)) = Broken(y, m, d, w, 0)
      /\ T!roundToHour(Broken(y, m, d, w, s)) = Broken(y, m, d, w, HourStart(s))
  <2>1. T!roundToYear(Broken(y, m, d, w, s)) = Broken(y, 0, 1, w, 0)
    <3>1. [Broken(y, m, d, w, s) EXCEPT !.mon = 0] = Broken(y, 0, d, w, s)
      BY DEF Broken
    <3>2. [Broken(y, 0, d, w, s) EXCEPT !.mday = 1] = Broken(y, 0, 1, w, s)
      BY DEF Broken
    <3>3. [Broken(y, 0, 1, w, s) EXCEPT !.sec = 0] = Broken(y, 0, 1, w, 0)
      BY DEF Broken
    <3>4. T!roundToYear(Broken(y, m, d, w, s)) =
            [[[Broken(y, m, d, w, s) EXCEPT !.mon = 0] EXCEPT !.mday = 1] EXCEPT !.sec = 0]
      BY DEF T!roundToYear
    <3> QED BY <3>1, <3>2, <3>3, <3>4
  <2>2. T!roundToMonth(Broken(y, m, d, w, s)) = Broken(y, m, 1, w, 0)
    <3>1. [Broken(y, m, d, w, s) EXCEPT !.mday = 1] = Broken(y, m, 1, w, s)
      BY DEF Broken
    <3>2. [Broken(y, m, 1, w, s) EXCEPT !.sec = 0] = Broken(y, m, 1, w, 0)
      BY DEF Broken
    <3>3. T!roundToMonth(Broken(y, m, d, w, s)) =
            [[Broken(y, m, d, w, s) EXCEPT !.mday = 1] EXCEPT !.sec = 0]
      BY DEF T!roundToMonth
    <3> QED BY <3>1, <3>2, <3>3
  <2>3. T!roundToWeek(Broken(y, m, d, w, s)) = Broken(y, m, d - w, w, 0)
    <3>1. [Broken(y, m, d, w, s) EXCEPT !.mday = d - w] = Broken(y, m, d - w, w, s)
      BY DEF Broken
    <3>2. [Broken(y, m, d - w, w, s) EXCEPT !.sec = 0] = Broken(y, m, d - w, w, 0)
      BY DEF Broken
    <3>3. T!roundToWeek(Broken(y, m, d, w, s)) =
            [[Broken(y, m, d, w, s) EXCEPT !.mday = d - w] EXCEPT !.sec = 0]
      BY DEF T!roundToWeek, Broken
    <3> QED BY <3>1, <3>2, <3>3
  <2>4. T!roundToDay(Broken(y, m, d, w, s)) = Broken(y, m, d, w, 0)
    BY DEF T!roundToDay, Broken
  <2>5. T!roundToHour(Broken(y, m, d, w, s)) = Broken(y, m, d, w, HourStart(s))
    BY DEF T!roundToHour, Broken, HourStart
  <2> QED BY <2>1, <2>2, <2>3, <2>4, <2>5
<1>9. CASE T!Become(T!mktime(Broken(y, 0, 1, w, 0)), "year", 0)
  <2>1. T!DayNumber(y, 0, 1) \in Int
    BY <1>2, <1>7, DayInMonth
  <2>2. T!FirstOf(date, "year") = 86400 * (T!DayNumber(y, 0, 1) + 1 - 1) + 0 - Offset
    BY <1>5, <1>7, <2>1
  <2> QED BY <1>0, <1>1, <1>7, <1>9, <2>2, DatesRounded
<1>10. CASE T!Become(T!mktime(Broken(y, m, 1, w, 0)), "month", 0)
  <2>1. T!FirstOf(date, "month") = 86400 * (T!DayNumber(y, m, 1) + 1 - 1) + 0 - Offset
    BY <1>4, <1>5, <1>7
  <2> QED BY <1>0, <1>1, <1>2, <1>10, <2>1, DatesRounded
<1>11. CASE T!Become(T!mktime(Broken(y, m, d - w, w, 0)), "week", 0)
  <2>1. T!FirstOf(date, "week") = 86400 * (T!DayNumber(y, m, 1) + (d - w) - 1) + 0 - Offset
    BY <1>2, <1>4, <1>6, <1>7
  <2>2. d - w \in Int /\ -30 <= d - w /\ d - w <= 100
    BY <1>2, <1>3, <1>6
  <2> QED BY <1>0, <1>1, <1>2, <1>11, <2>1, <2>2, DatesRounded
<1>12. CASE T!Become(T!mktime(Broken(y, m, d, w, 0)), "day", 0)
  <2>1. T!FirstOf(date, "day") = 86400 * (T!DayNumber(y, m, 1) + d - 1) + 0 - Offset
    BY <1>4, <1>5, <1>7
  <2>2. -30 <= d /\ d <= 100
    BY <1>2, <1>3
  <2> QED BY <1>0, <1>1, <1>2, <1>12, <2>1, <2>2, DatesRounded
<1>13. CASE T!Become(T!mktime(Broken(y, m, d, w, HourStart(s))), "hour", 0)
  <2>1. T!FirstOf(date, "hour") = 86400 * (T!DayNumber(y, m, 1) + d - 1) + HourStart(s) - Offset
    BY <1>4, <1>5
  <2>2. -30 <= d /\ d <= 100
    BY <1>2, <1>3
  <2>3. HourStart(s) \in Int /\ 0 <= HourStart(s) /\ HourStart(s) < 86400
    <3>1. HourStart(s) \in Int /\ HourStart(s) <= s /\ (0 <= s => 0 <= HourStart(s))
      BY <1>2, WholeHours
    <3> QED BY <1>2, <1>3, <3>1
  <2> QED BY <1>0, <1>1, <1>2, <1>13, <2>1, <2>2, <2>3, DatesRounded
<1>14. CASE T!Become(T!roundToMinute(date), "minute", 0)
  BY <1>0, <1>14, DatesMinute
<1>15. \/ T!Become(T!mktime(T!roundToYear(T!LocalTime(date))), "year", 0)
       \/ T!Become(T!mktime(T!roundToMonth(T!LocalTime(date))), "month", 0)
       \/ T!Become(T!mktime(T!roundToWeek(T!LocalTime(date))), "week", 0)
       \/ T!Become(T!mktime(T!roundToDay(T!LocalTime(date))), "day", 0)
       \/ T!Become(T!mktime(T!roundToHour(T!LocalTime(date))), "hour", 0)
       \/ T!Become(T!roundToMinute(date), "minute", 0)
  BY DEF T!Round
<1> QED BY <1>2, <1>8, <1>9, <1>10, <1>11, <1>12, <1>13, <1>14, <1>15

\* A day clipped to the length of its month.
Least(d, n) == IF d > n THEN n ELSE d

\* The least of two numbers.
LEMMA LeastIs ==
  ASSUME NEW d \in Int, NEW n \in Int
  PROVE  T!Min({d, n}) = Least(d, n) /\ Least(d, n) \in Int
<1> DEFINE Pair == {d, n}
<1>1. T!Min(Pair) = CHOOSE x \in Pair : \A z \in Pair : x <= z
  BY DEF T!Min
<1>2. Least(d, n) \in Pair /\ \A z \in Pair : Least(d, n) <= z
  BY DEF Least
<1>3. \A x \in Pair : (\A z \in Pair : x <= z) => x = Least(d, n)
  BY DEF Least
<1>4. T!Min(Pair) = Least(d, n)
  <2> HIDE DEF Pair
  <2> QED BY <1>1, <1>2, <1>3
<1>5. Least(d, n) \in Int
  BY DEF Least
<1> QED BY <1>4, <1>5

\* Clipping in a month of the calendar.
LEMMA ClippedIs ==
  ASSUME NEW y \in Int, NEW m, OfYear(m), NEW d \in Int, NEW w, NEW s, NEW stray
  PROVE  T!Clipped(Broken(y, m, d, w, s), stray) = Broken(y, m, Least(d, T!MonthLength(m, y)), w, s)
<1>1. m \in Int /\ ~ (m < 0)
  BY DEF OfYear
<1>2. PICK k : k = T!MonthLength(m, y)
  OBVIOUS
<1>3. T!getDaysInMonth(m, y, stray) = k
  BY <1>1, <1>2 DEF T!getDaysInMonth
<1>4. /\ Broken(y, m, d, w, s).mon = m /\ Broken(y, m, d, w, s).year = y
      /\ Broken(y, m, d, w, s).mday = d
      /\ [Broken(y, m, d, w, s) EXCEPT !.mday = k] = Broken(y, m, k, w, s)
  BY DEF Broken
<1>5. T!Clipped(Broken(y, m, d, w, s), stray) =
        IF d > k THEN Broken(y, m, k, w, s) ELSE Broken(y, m, d, w, s)
  BY <1>3, <1>4 DEF T!Clipped
<1> QED BY <1>2, <1>5 DEF Least

\* A whole number of months on, in the fields of the date.
LEMMA MonthsOnIs ==
  ASSUME NEW a, NEW b, NEW y, NEW m, NEW d, NEW w, NEW s, Here(a, b, y, m, d, w, s),
         NEW n \in Int, NEW y2 \in Int, Near(y2), NEW m2, OfYear(m2), 12 * y + m + n = 12 * y2 + m2
  PROVE  T!MonthsOn(date, n) =
           86400 * (T!DayNumber(y2, m2, 1) + Least(d, T!MonthLength(m2, y2)) - 1) + s - Offset
<1>0. /\ y \in Int /\ d \in Int /\ s \in Int /\ OfYear(m) /\ T!LocalTime(date) = Broken(y, m, d, w, s)
  BY HereIs
<1>1. m \in Int /\ m2 \in Int /\ 0 <= m2 /\ m2 <= 11
  BY <1>0 DEF OfYear
<1>2. PICK c \in Int : c = 12 * y + m + n
  BY <1>0, <1>1
<1>3. c \div 12 = y2 /\ c % 12 = m2
  <2>1. c = 12 * y2 + m2
    BY <1>2
  <2> QED BY <1>1, <2>1
<1>4. PICK k \in Int : k = T!MonthLength(m2, y2)
  BY MonthSpans DEF Spans
<1>5. T!MonthsOn(date, n) = 86400 * T!DayNumber(y2, m2, T!Min({d, k})) + s - Offset
  <2>0. PICK tm : tm = T!LocalTime(date)
    OBVIOUS
  <2>1. tm.year = y /\ tm.mon = m /\ tm.mday = d /\ tm.sec = s
    BY <1>0, <2>0 DEF Broken
  <2> DEFINE count == 12 * tm.year + tm.mon + n
             on(x, z) == T!Day * T!DayNumber(x, z, T!Min({tm.mday, T!MonthLength(z, x)})) + tm.sec - Offset
  <2>2. T!MonthsOn(date, n) = on(count \div 12, count % 12)
    BY Zenon, <2>0 DEF T!MonthsOn
  <2>3. count = c
    BY <1>2, <2>1
  <2> HIDE DEF count, on
  <2>4. T!MonthsOn(date, n) = on(y2, m2)
    BY <1>3, <2>2, <2>3
  <2> QED BY <1>4, <2>1, <2>4 DEF on, T!Day
<1>6. T!Min({d, k}) = Least(d, k) /\ Least(d, k) \in Int
  BY <1>0, <1>4, LeastIs
<1>7. T!DayNumber(y2, m2, Least(d, k)) = T!DayNumber(y2, m2, 1) + Least(d, k) - 1
  BY <1>6, DayInMonth
<1> QED BY <1>4, <1>5, <1>6, <1>7

\* n years or months are k months.
Counts(op, n, k) ==
  \/ op = "years" /\ k = 12 * n
  \/ op = "months" /\ k = n

\* Counting on by whole months, of which a year is twelve.
LEMMA DatesCounted ==
  ASSUME DatesInv, ~ spoilt, spoilt' \in BOOLEAN,
         NEW a, NEW b, NEW y, NEW m, NEW d, NEW w, NEW s, Here(a, b, y, m, d, w, s),
         NEW y2 \in Int, a - 5 <= y2, y2 <= b + 5, NEW m2, OfYear(m2), NEW stray,
         NEW k \in Int, 12 * y + m + k = 12 * y2 + m2,
         NEW op, NEW n, Counts(op, n, k),
         T!Become(T!mktime(T!Clipped(Broken(y2, m2, d, w, s), stray)), op, n)
  PROVE  DatesInv'
<1>1. a \in Int /\ b \in Int /\ 1950 <= a - 6 /\ b + 6 <= 2030
  BY DEF Here
<1>2. Near(y2)
  BY <1>1 DEF Near
<1>3. d \in Int /\ s \in Int
  BY HereIs
<1>4. 1 <= d /\ 0 <= s /\ s < 86400
  BY DEF Here, Fields
<1>5. PICK c \in Int : c = Least(d, T!MonthLength(m2, y2)) /\ 1 <= c /\ c <= 31
  <2>1. T!MonthLength(m2, y2) \in Nat /\ T!MonthLength(m2, y2) >= 28 /\ T!MonthLength(m2, y2) <= 31
    BY <1>2, MonthSpans DEF Spans
  <2> QED BY <1>3, <1>4, <2>1 DEF Least
<1>6. T!Become(T!mktime(Broken(y2, m2, c, w, s)), op, n)
  BY <1>3, <1>5, ClippedIs
<1>7. T!mktime(Broken(y2, m2, c, w, s)) = T!MonthsOn(date, k)
  <2>1. T!mktime(Broken(y2, m2, c, w, s)) = 86400 * (T!DayNumber(y2, m2, 1) + c - 1) + s - Offset
    BY <1>3, MktimeIs
  <2> QED BY <1>2, <1>5, <2>1, MonthsOnIs
<1>8. T!Held'
  <2>1. date' = T!MonthsOn(date, k) /\ last'.op = op /\ last'.n = n /\ last'.from = date
    BY <1>6, <1>7 DEF T!Become
  <2>2. CASE op = "years" /\ k = 12 * n
    BY <2>1, <2>2 DEF T!Held
  <2>3. CASE op = "months" /\ k = n
    BY <2>1, <2>3 DEF T!Held
  <2> QED BY <2>2, <2>3 DEF Counts
<1>9. -30 <= c /\ c <= 100
  BY <1>5
<1> QED BY <1>3, <1>4, <1>6, <1>8, <1>9, DatesComes

\* Years, with the twenty-ninth of February clipped.
LEMMA DatesAddYears ==
  ASSUME DatesInv, ~ spoilt, T!AddYears  PROVE DatesInv'
<1>1. PICK n \in {-1, 1, 4} : T!Become(T!mktime(T!addYears(T!LocalTime(date), n)), "years", n)
  BY DEF T!AddYears
<1>2. steps < MaxSteps /\ UNCHANGED spoilt /\ spoilt' \in BOOLEAN
  BY DEF T!AddYears, T!Become, DatesInv, T!TypeOK
<1>3. PICK a, b, y, m, d, w, s : Here(a, b, y, m, d, w, s)
  BY <1>2, DatesHere
<1>4. y \in Int /\ OfYear(m) /\ T!LocalTime(date) = Broken(y, m, d, w, s)
  BY <1>3, HereIs
<1>5. a \in Int /\ b \in Int /\ a <= y /\ y <= b /\ m \in Int
  BY <1>3 DEF Here, Fields, OfYear
<1>6. n \in Int /\ -1 <= n /\ n <= 4
  BY <1>1
<1>7. PICK y2 \in Int : y2 = y + n
  BY <1>4, <1>6
<1>8. T!addYears(Broken(y, m, d, w, s), n) = T!Clipped(Broken(y2, m, d, w, s), 31)
  BY <1>7 DEF T!addYears, Broken
<1>9. T!Become(T!mktime(T!Clipped(Broken(y2, m, d, w, s), 31)), "years", n)
  BY <1>1, <1>4, <1>8
<1>10. a - 5 <= y2 /\ y2 <= b + 5
  BY <1>4, <1>5, <1>6, <1>7
<1>11. PICK k \in Int : k = 12 * n /\ 12 * y + m + k = 12 * y2 + m
  BY <1>4, <1>5, <1>6, <1>7
<1>12. Counts("years", n, k)
  BY <1>11 DEF Counts
<1> QED BY <1>2, <1>3, <1>4, <1>9, <1>10, <1>11, <1>12, DatesCounted

\* n months are q years and r months, with C's division.
Divided(n, q, r) ==
  /\ n \in Int /\ q \in Int /\ r \in Int /\ n = 12 * q + r
  /\ -1 <= r /\ r <= 1 /\ -1 <= q /\ q <= 2

\* From a month of the years a to b they come to month e of the year f, which
\* may be the one before the first or the one behind the last.
Come(a, b, y, m, n, e, f) ==
  /\ a - 5 <= f /\ f <= b + 5 /\ a - 5 <= f + 1 /\ f + 1 <= b + 5
  /\ 12 * y + m + n = 12 * f + e
  /\ e > 11 => e = 12 /\ 12 * y + m + n = 12 * (f + 1) + 0
  /\ e < 0 => -1 <= e

Among(a, b, y, m) ==
  /\ a \in Int /\ b \in Int /\ y \in Int /\ a <= y /\ y <= b
  /\ m \in Int /\ 0 <= m /\ m <= 11

\* That is where they come to.
LEMMA Coming ==
  ASSUME NEW a, NEW b, NEW y, NEW m, NEW n, NEW r, NEW q, Among(a, b, y, m), Divided(n, q, r)
  PROVE  /\ n \in Int
         /\ \E e \in Int, f \in Int : e = m + r /\ f = y + q /\ Come(a, b, y, m, n, e, f)
<1>1. /\ n \in Int /\ q \in Int /\ r \in Int /\ n = 12 * q + r
      /\ -1 <= r /\ r <= 1 /\ -1 <= q /\ q <= 2
  BY DEF Divided
<1>0. /\ a \in Int /\ b \in Int /\ y \in Int /\ a <= y /\ y <= b
      /\ m \in Int /\ 0 <= m /\ m <= 11
  BY DEF Among
<1>2. PICK e \in Int, f \in Int : e = m + r /\ f = y + q
  BY <1>0, <1>1
<1>3. 12 * y + m + n = 12 * f + e
  BY <1>0, <1>1, <1>2
<1>4. a - 5 <= f /\ f <= b + 5 /\ a - 5 <= f + 1 /\ f + 1 <= b + 5
  BY <1>0, <1>1, <1>2
<1>5. e > 11 => e = 12 /\ 12 * y + m + n = 12 * (f + 1) + 0
  BY <1>0, <1>1, <1>2
<1>6. e < 0 => -1 <= e
  BY <1>0, <1>1, <1>2
<1>7. Come(a, b, y, m, n, e, f)
  BY <1>3, <1>4, <1>5, <1>6 DEF Come
<1> QED BY <1>1, <1>2, <1>7

\* Months, within the calendar and before its first, as years and the rest.
LEMMA DatesMonthsOf ==
  ASSUME DatesInv, ~ spoilt, NEW n, NEW stray \in Int, NEW r, NEW q, Divided(n, q, r),
         r = T!Rem(n, 12), q = T!Quot(n, 12),
         T!Become(T!mktime(T!addMonths(T!LocalTime(date), n, stray)), "months", n),
         spoilt' = (T!LocalTime(date).mon + r < 0)
  PROVE  DatesInv'
<1>2. steps < MaxSteps
  BY DEF T!Become
<1>3. PICK a, b, y, m, d, w, s : Here(a, b, y, m, d, w, s)
  BY <1>2, DatesHere
<1>4. /\ y \in Int /\ d \in Int /\ s \in Int /\ OfYear(m)
      /\ T!LocalTime(date) = Broken(y, m, d, w, s)
  BY <1>3, HereIs
<1>5. a \in Int /\ b \in Int /\ a <= y /\ y <= b /\ m \in Int /\ 0 <= m /\ m <= 11
  BY <1>3 DEF Here, Fields, OfYear
<1>6. n \in Int /\ \E e \in Int, f \in Int : e = m + r /\ f = y + q /\ Come(a, b, y, m, n, e, f)
  <2>1. Among(a, b, y, m)
    BY <1>4, <1>5 DEF Among
  <2> QED BY <2>1, Coming
<1>7. PICK e \in Int, f \in Int : e = m + r /\ f = y + q /\ Come(a, b, y, m, n, e, f)
  BY <1>6
<1>8. /\ Broken(y, m, d, w, s).mon = m /\ Broken(y, m, d, w, s).year = y
      /\ \A p, z : [Broken(y, m, d, w, s) EXCEPT !.mon = p, !.year = z] = Broken(z, p, d, w, s)
  <2>1. \A p : [Broken(y, m, d, w, s) EXCEPT !.mon = p] = Broken(y, p, d, w, s)
    BY DEF Broken
  <2>2. \A p, z : [Broken(y, p, d, w, s) EXCEPT !.year = z] = Broken(z, p, d, w, s)
    BY DEF Broken
  <2>3. Broken(y, m, d, w, s).mon = m /\ Broken(y, m, d, w, s).year = y
    BY DEF Broken
  <2> QED BY <2>1, <2>2, <2>3
<1>9. T!addMonths(Broken(y, m, d, w, s), n, stray) =
        T!Clipped(IF e > 11 THEN Broken(f + 1, e % 12, d, w, s) ELSE Broken(f, e, d, w, s), stray)
  <2>1. T!addMonths(Broken(y, m, d, w, s), n, stray) =
          T!Clipped(IF e > T!DECEMBER
                    THEN [Broken(y, m, d, w, s) EXCEPT !.mon = e % 12, !.year = f + 1]
                    ELSE [Broken(y, m, d, w, s) EXCEPT !.mon = e, !.year = f], stray)
    BY <1>7, <1>8 DEF T!addMonths
  <2>2. e > T!DECEMBER <=> e > 11
    BY DEF T!DECEMBER
  <2> HIDE DEF Broken
  <2>3. CASE e > 11
    BY <1>8, <2>1, <2>2, <2>3
  <2>4. CASE ~ (e > 11)
    BY <1>8, <2>1, <2>2, <2>4
  <2> QED BY <2>3, <2>4
<1>10. spoilt' = (e < 0)
  BY <1>4, <1>7, <1>8
<1>11. CASE e > 11
  <2>1. e = 12 /\ e % 12 = 0 /\ OfYear(0)
    <3>1. e = 12
      BY <1>7, <1>11 DEF Come
    <3>2. OfYear(0)
      BY DEF OfYear
    <3> QED BY <3>1, <3>2
  <2>2. PICK y2 \in Int : y2 = f + 1
    OBVIOUS
  <2>3. T!Become(T!mktime(T!Clipped(Broken(y2, 0, d, w, s), stray)), "months", n)
    BY <1>4, <1>9, <1>11, <2>1, <2>2
  <2>4. a - 5 <= y2 /\ y2 <= b + 5
    BY <1>7, <2>2 DEF Come
  <2>5. 12 * y + m + n = 12 * y2 + 0
    BY <1>7, <1>11, <2>2 DEF Come
  <2>6. spoilt' \in BOOLEAN
    BY <1>10
  <2>7. Counts("months", n, n)
    BY DEF Counts
  <2> QED BY <1>3, <2>1, <2>3, <2>4, <2>5, <2>6, <2>7, <1>6, DatesCounted
<1>12. CASE 0 <= e /\ e <= 11
  <2>1. OfYear(e)
    BY <1>12 DEF OfYear
  <2>2. T!Become(T!mktime(T!Clipped(Broken(f, e, d, w, s), stray)), "months", n)
    <3>1. ~ (e > 11)
      BY <1>12
    <3> QED BY <1>4, <1>9, <3>1
  <2>3. a - 5 <= f /\ f <= b + 5
    BY <1>7 DEF Come
  <2>4. spoilt' \in BOOLEAN
    BY <1>10
  <2>5. Counts("months", n, n)
    BY DEF Counts
  <2>6. 12 * y + m + n = 12 * f + e
    BY <1>7 DEF Come
  <2> QED BY <1>3, <1>6, <2>1, <2>2, <2>3, <2>4, <2>5, <2>6, DatesCounted
<1>13. CASE e < 0
  <2>1. e \div 12 = -1 /\ e % 12 = 11
    <3>1. -1 <= e
      BY <1>7, <1>13 DEF Come
    <3>2. e \div 12 = -1 /\ e % 12 = e + 12
      BY <1>13, <3>1
    <3>3. e + 12 = 11
      BY <1>13, <3>1
    <3> QED BY <3>2, <3>3
  <2>2. PICK c \in Int : T!Clipped(Broken(f, e, d, w, s), stray) = Broken(f, e, c, w, s)
    <3>1. T!getDaysInMonth(e, f, stray) = stray
      BY <1>13 DEF T!getDaysInMonth
    <3>2. /\ Broken(f, e, d, w, s).mon = e /\ Broken(f, e, d, w, s).year = f
          /\ Broken(f, e, d, w, s).mday = d
          /\ [Broken(f, e, d, w, s) EXCEPT !.mday = stray] = Broken(f, e, stray, w, s)
      BY DEF Broken
    <3>3. T!Clipped(Broken(f, e, d, w, s), stray) =
            IF d > stray THEN Broken(f, e, stray, w, s) ELSE Broken(f, e, d, w, s)
      BY <3>1, <3>2 DEF T!Clipped
    <3> QED BY <1>4, <3>3
  <2>3. PICK t : t = T!mktime(Broken(f, e, c, w, s))
    OBVIOUS
  <2>4. t = 86400 * T!DayNumber(f + (e \div 12), e % 12, c) + s - Offset
    BY <2>3 DEF T!mktime, Broken, T!Day
  <2>5. T!DayNumber(f + (e \div 12), e % 12, c) \in Int
    <3>1. PICK z \in Int : z = f + (e \div 12)
      BY <2>1
    <3>2. OfYear(11) /\ e % 12 = 11
      BY <2>1 DEF OfYear
    <3>3. T!DayNumber(z, 11, c) = T!DayNumber(z, 11, 1) + c - 1 /\ T!DayNumber(z, 11, 1) \in Int
      BY <3>2, DayInMonth
    <3> QED BY <3>1, <3>2, <3>3
  <2>6. t \in Int
    <3>1. Offset \in Int
      BY DatesAssumption
    <3> QED BY <1>4, <2>4, <2>5, <3>1
  <2>7. T!Become(t, "months", n)
    <3>1. ~ (e > 11)
      BY <1>13
    <3> QED BY <1>4, <1>9, <2>2, <2>3, <3>1
  <2>8. spoilt' = TRUE
    BY <1>10, <1>13
  <2>9. T!Held'
    BY <2>8 DEF T!Held
  <2> QED BY <1>3, <2>6, <2>7, <2>8, <2>9, DatesBecome
<1> QED BY <1>7, <1>11, <1>12, <1>13

\* addMonths() keeps the invariant.
LEMMA DatesAddMonths ==
  ASSUME DatesInv, ~ spoilt, T!AddMonths  PROVE DatesInv'
<1>1. PICK n \in {-13, -1, 1, 12, 25}, stray \in T!Strays :
        /\ T!Become(T!mktime(T!addMonths(T!LocalTime(date), n, stray)), "months", n)
        /\ spoilt' = (T!LocalTime(date).mon + T!Rem(n, 12) < 0)
  BY DEF T!AddMonths
<1>2. PICK r \in Int, q \in Int : /\ r = T!Rem(n, 12) /\ q = T!Quot(n, 12)
                                  /\ n \in Int /\ n = 12 * q + r
                                  /\ -1 <= r /\ r <= 1 /\ -1 <= q /\ q <= 2
  BY DEF T!Rem, T!Quot
<1>3. stray \in Int
  BY DEF T!Strays
<1>4. Divided(n, q, r)
  BY <1>2 DEF Divided
<1> QED BY <1>1, <1>2, <1>3, <1>4, DatesMonthsOf

\* Every step keeps the invariant; a spoilt date is done with.
LEMMA DatesStep ==
  ASSUME DatesInv, T!Next  PROVE DatesInv'
<1>1. ~ spoilt
  BY DEF T!Next, T!Round, T!AddYears, T!AddMonths, T!AddDays, T!AddTime, T!Become
<1>2. T!Round \/ T!AddYears \/ T!AddMonths \/ T!AddDays \/ T!AddTime
  BY DEF T!Next
<1> QED BY <1>1, <1>2, DatesRound, DatesAddYears, DatesAddMonths, DatesAddDays, DatesAddTime

\* A day of a month is a day of its year.
LEMMA DayOfYear ==
  ASSUME NEW y, Near(y), NEW m, OfYear(m), NEW d \in Int, 1 <= d, d <= T!MonthLength(m, y)
  PROVE  /\ T!DayNumber(y, m, d) \in Int
         /\ YearStart(y) <= T!DayNumber(y, m, d) /\ T!DayNumber(y, m, d) < YearStart(y + 1)
<1>0. y \in Int /\ m \in Int /\ 0 <= m /\ m <= 11
  BY DEF Near, OfYear
<1>1. PICK f \in Int, k \in Nat, l \in Nat :
        /\ f = YearStart(y) /\ k = MonthStart(m, y) /\ l = T!MonthLength(m, y)
        /\ T!DayNumber(y, m, d) = f + k + d - 1
  <2>1. /\ T!DayNumber(y, m, d) = YearStart(y) + MonthStart(m, y) + d - 1
        /\ YearStart(y) \in Int /\ MonthStart(m, y) \in Nat
    BY DayNumberIs
  <2>2. T!MonthLength(m, y) \in Nat
    BY MonthSpans DEF Spans
  <2> QED BY <2>1, <2>2
<1>2. k + l <= (IF y % 4 = 0 THEN 366 ELSE 365)
  <2>1. CASE m = 11
    <3>1. MonthStart(11, y) + T!MonthLength(11, y) = (IF y % 4 = 0 THEN 366 ELSE 365)
      BY WholeYear
    <3> QED BY <1>1, <2>1, <3>1
  <2>2. CASE m # 11
    <3>1. OfYear(m + 1) /\ MonthStart(m, y) + T!MonthLength(m, y) = MonthStart(m + 1, y)
      BY <2>2, MonthSpans DEF Spans
    <3>2. MonthStart(m + 1, y) \in Nat /\ MonthStart(m + 1, y) <= 335
      BY <3>1, MonthSpans DEF Spans
    <3> QED BY <1>1, <3>1, <3>2
  <2> QED BY <2>1, <2>2
<1>3. YearStart(y + 1) = f + (IF y % 4 = 0 THEN 366 ELSE 365)
  BY <1>0, <1>1, NextYear
<1> QED BY <1>0, <1>1, <1>2, <1>3

\* The constructor's date is of the year it was given.
LEMMA DatesInit ==
  ASSUME T!Init  PROVE DatesInv
<1>1. PICK p \in Starts :
        date = T!mktime([year |-> p[1], mon |-> p[2], mday |-> p[3], sec |-> p[4]])
  BY DEF T!Init
<1>0. MaxSteps \in Nat /\ Offset \in Int
  BY DatesAssumption
<1>2. /\ p[1] \in (1950 + 6 * (MaxSteps + 1))..(2030 - 6 * (MaxSteps + 1))
      /\ p[2] \in 0..11 /\ p[3] \in 1..T!MonthLength(p[2], p[1]) /\ p[4] \in 0..(T!Day - 1)
  BY <1>1, DatesAssumption
<1>3. PICK lo \in Int, hi \in Int : /\ lo = 1950 + 6 * (MaxSteps + 1) /\ hi = 2030 - 6 * (MaxSteps + 1)
                                    /\ 1950 <= lo /\ hi <= 2030
  BY <1>0
<1>4. PICK y, m, d, s : y = p[1] /\ m = p[2] /\ d = p[3] /\ s = p[4]
  OBVIOUS
<1>5. y \in Int /\ lo <= y /\ y <= hi /\ OfYear(m) /\ d \in Int /\ 1 <= d /\ d <= T!MonthLength(m, y)
  BY <1>2, <1>3, <1>4 DEF OfYear
<1>6. s \in Int /\ 0 <= s /\ s < 86400
  <2>1. PICK k \in Int : k = T!Day - 1 /\ k < 86400
    BY DEF T!Day
  <2>2. s \in 0..k
    BY <1>2, <1>4, <2>1
  <2>3. s \in Int /\ 0 <= s /\ s <= k
    BY <2>2
  <2> QED BY <2>1, <2>3
<1>7. Near(y)
  BY <1>3, <1>5 DEF Near
<1>8. PICK n \in Int : /\ n = T!DayNumber(y, m, d) /\ YearStart(y) <= n /\ n < YearStart(y + 1)
  BY <1>5, <1>7, DayOfYear
<1>9. date = 86400 * n + s - Offset
  <2>1. m \in Int /\ m \div 12 = 0 /\ m % 12 = m
    BY <1>5 DEF OfYear
  <2>2. date = 86400 * T!DayNumber(y + (m \div 12), m % 12, d) + s - Offset
    BY <1>1, <1>4 DEF T!mktime, T!Day
  <2> QED BY <1>5, <1>8, <2>1, <2>2
<1>10. date \in Int /\ DayOf(date) = n
  <2>1. date + Offset = 86400 * n + s
    BY <1>0, <1>6, <1>9
  <2>2. (86400 * n + s) \div 86400 = n
    BY <1>6
  <2> QED BY <1>0, <1>6, <1>9, <2>1, <2>2 DEF DayOf
<1>11. YearStart(lo) <= YearStart(y) /\ YearStart(lo) \in Int /\ YearStart(y) \in Int
  <2>1. Ahead(lo, y)
    BY <1>5, YearAhead
  <2> QED BY <1>5, <2>1 DEF Ahead
<1>12. YearStart(y + 1) <= YearStart(hi + 1) /\ YearStart(y + 1) \in Int /\ YearStart(hi + 1) \in Int
  <2>1. Ahead(y + 1, hi + 1)
    BY <1>5, YearAhead
  <2> QED BY <1>5, <2>1 DEF Ahead
<1>13. Days(DayOf(date), lo, hi)
  BY <1>3, <1>8, <1>10, <1>11, <1>12 DEF Days
<1>14. steps = 0 /\ spoilt = FALSE /\ last.from = date /\ last.op = "init"
  BY DEF T!Init
<1>15. T!TypeOK
  <2>1. steps \in 0..MaxSteps
    BY <1>0, <1>14
  <2>2. date \in Int /\ last.from \in Int /\ spoilt \in BOOLEAN
    BY <1>10, <1>14
  <2> QED BY <2>1, <2>2 DEF T!TypeOK
<1>16. T!Held
  BY <1>14 DEF T!Held
<1>17. Lo(steps) = lo /\ Hi(steps) = hi
  BY <1>0, <1>3, <1>14 DEF Lo, Hi
<1> QED BY <1>13, <1>15, <1>16, <1>17 DEF DatesInv

\* What else changes does not concern the date.
LEMMA DatesStutter ==
  ASSUME DatesInv, UNCHANGED <<date, last, spoilt, steps>>  PROVE DatesInv'
<1>1. T!TypeOK' /\ (steps' = steps /\ spoilt' = spoilt /\ date' = date)
  BY DEF DatesInv, T!TypeOK
<1>2. T!Held'
  <2>1. date' = date /\ last' = last /\ spoilt' = spoilt
    OBVIOUS
  <2> QED BY <2>1 DEF DatesInv, T!Held
<1> QED BY <1>1, <1>2 DEF DatesInv

\* The two invariants are part of it.
LEMMA DatesTyped == DatesInv => T!TypeOK
BY DEF DatesInv
\* So is Held.
LEMMA DatesHeld == DatesInv => T!Held
BY DEF DatesInv
\* A function of the first n numbers is a sequence of length n.
LEMMA FirstNumbers ==
  ASSUME NEW T0, NEW n \in Nat, NEW f \in [1..n -> T0]
  PROVE  f \in Seq(T0) /\ Len(f) = n /\ DOMAIN f = 1..n
OBVIOUS

-----------------------------------------------------------------------------
(* Sockets.                                                                 *)

SocketTypes ==
  /\ S!TypeOK
  /\ spoilt \subseteq {"deleted", "dropped", "leak"}

\* Held, said of each descriptor and each object.
Owners ==
  /\ \A s \in Objects : m_fd[s] # S!None => kernel[m_fd[s]] # "free"
  /\ \A f \in Fds : kernel[f] # "free" => \E s \in Objects : m_fd[s] = f
  /\ \A s, c \in Objects : m_fd[s] = m_fd[c] /\ m_fd[s] # S!None => s = c

SocketsInv == SocketTypes /\ (spoilt = {} => Owners)

\* The descriptors are numbers, so that the least free one exists.
LEMMA FreshFree ==
  ASSUME NEW A, A \subseteq Fds, A # {}
  PROVE  S!Min(A) \in A
<1>1. A \subseteq Nat
  BY StorageAssumption
<1>2. PICK x \in A : \A y \in A : ~ (<<y, x>> \in OpToRel(<, Nat))
  BY <1>1, WFMin, NatLessThanWellFounded, Zenon
<1>3. \A y \in A : ~ (y < x)
  BY <1>1, <1>2, Zenon DEF OpToRel
<1>4. \A y \in A : x <= y
  BY <1>1, <1>3
<1> QED BY <1>4 DEF S!Min

\* New sockets own nothing.
LEMMA SocketsInit ==
  ASSUME S!Init  PROVE SocketsInv
<1>1. -1 \notin Fds
  BY StorageAssumption
<1> QED BY <1>1 DEF S!Init, SocketsInv, SocketTypes, S!TypeOK, Owners, S!None

\* A call that fails changes nothing that is owned.
LEMMA SocketsThrow ==
  ASSUME SocketsInv, S!Throws, UNCHANGED unix  PROVE SocketsInv'
BY DEF S!Throws, SocketsInv, SocketTypes, S!TypeOK, Owners, S!None

\* A step after which nothing can be trusted only has to keep the types.
LEMMA SocketsOwn ==
  ASSUME SocketsInv, S!Trusted, NEW s \in Objects, NEW f \in Fds, NEW how,
         m_fd[s] = S!None, kernel[f] = "free", how # "free",
         m_fd' = [m_fd EXCEPT ![s] = f], kernel' = [kernel EXCEPT ![f] = how]
  PROVE  Owners'
<1>1. /\ m_fd \in [Objects -> Fds \cup {S!None}] /\ Owners
      /\ kernel \in [Fds -> {"free", "fresh", "bound", "listening", "connected"}]
      /\ S!None \notin Fds
  BY StorageAssumption DEF SocketsInv, SocketTypes, S!TypeOK, S!Trusted, S!None
<1>2. \A c \in Objects : m_fd[c] # f
  BY <1>1 DEF Owners
<1>3. \A c \in Objects : m_fd'[c] = IF c = s THEN f ELSE m_fd[c]
  BY <1>1
<1>4. \A g \in Fds : kernel'[g] = IF g = f THEN how ELSE kernel[g]
  BY <1>1
<1>5. \A c \in Objects : m_fd'[c] # S!None => kernel'[m_fd'[c]] # "free"
  BY <1>1, <1>2, <1>3, <1>4 DEF Owners
<1>6. \A g \in Fds : kernel'[g] # "free" => \E c \in Objects : m_fd'[c] = g
  BY <1>1, <1>3, <1>4 DEF Owners
<1>7. \A b, c \in Objects : m_fd'[b] = m_fd'[c] /\ m_fd'[b] # S!None => b = c
  BY <1>1, <1>2, <1>3 DEF Owners
<1> QED BY <1>5, <1>6, <1>7 DEF Owners, S!None

\* A step that only changes what an open descriptor is used for.
LEMMA SocketsUse ==
  ASSUME SocketsInv, S!Trusted, m_fd' = m_fd,
         \A f \in Fds : kernel'[f] = "free" <=> kernel[f] = "free"
  PROVE  Owners'
BY DEF SocketsInv, SocketTypes, S!TypeOK, S!Trusted, Owners, S!None

\* Every call keeps the invariant.
LEMMA SocketsStep ==
  ASSUME SocketsInv, S!Next
  PROVE  SocketsInv'
<1>0. Fds \subseteq Nat /\ S!None \notin Fds
  BY StorageAssumption DEF S!None
<1>1. /\ m_fd \in [Objects -> Fds \cup {S!None}]
      /\ kernel \in [Fds -> {"free", "fresh", "bound", "listening", "connected"}]
      /\ S!Open \subseteq Fds
      /\ spoilt = {} => Owners
  BY DEF S!Open, SocketsInv, SocketTypes, S!TypeOK
<1>3. ASSUME NEW s \in Objects, NEW family \in Families, S!init(s, family)
      PROVE  SocketsInv'
  <2>1. CASE S!Throws
    BY <1>3, <2>1, SocketsThrow DEF S!init
  <2>2. CASE ~ S!Throws
    <3>1. /\ m_fd[s] = S!None /\ Fds # S!Open
          /\ kernel' = [kernel EXCEPT ![S!Fresh] = "fresh"]
          /\ m_fd' = [m_fd EXCEPT ![s] = S!Fresh]
          /\ m_family' = [m_family EXCEPT ![s] = family]
          /\ threw' = FALSE /\ UNCHANGED <<unix, streams, spoilt>> /\ S!Trusted
      BY <1>3, <2>2 DEF S!init
    <3>2. S!Fresh \in Fds /\ kernel[S!Fresh] = "free"
      BY <1>1, <3>1, FreshFree DEF S!Fresh, S!Open
    <3>3. Owners'
      BY <3>1, <3>2, SocketsOwn
    <3>4. SocketTypes'
      BY <3>1, <3>2 DEF SocketsInv, SocketTypes, S!TypeOK
    <3> QED BY <3>3, <3>4 DEF SocketsInv
  <2> QED BY <2>1, <2>2
<1>4. ASSUME NEW s \in Objects, S!close(s) PROVE SocketsInv'
  <2>1. SocketTypes'
    BY <1>4 DEF S!close, SocketsInv, SocketTypes, S!TypeOK
  <2>2. \A c \in Objects : m_fd'[c] = IF c = s THEN S!None ELSE m_fd[c]
    BY <1>1, <1>4 DEF S!close
  <2>3. \A f \in Fds : kernel'[f] = IF f = m_fd[s] THEN "free" ELSE kernel[f]
    BY <1>1, <1>4 DEF S!close
  <2>4. Owners
    BY <1>1, <1>4 DEF S!close, S!Trusted
  <2>5. \A c \in Objects : m_fd'[c] # S!None => kernel'[m_fd'[c]] # "free"
    BY <1>1, <2>2, <2>3, <2>4 DEF Owners
  <2>6. \A f \in Fds : kernel'[f] # "free" => \E c \in Objects : m_fd'[c] = f
    BY <1>1, <2>2, <2>3, <2>4 DEF Owners
  <2>7. \A b, c \in Objects : m_fd'[b] = m_fd'[c] /\ m_fd'[b] # S!None => b = c
    BY <2>2, <2>4 DEF Owners
  <2> QED BY <2>1, <2>5, <2>6, <2>7 DEF SocketsInv, Owners, S!None
<1>5. ASSUME NEW s \in Objects,
             S!listen(s) \/ \E family \in Families : S!bind(s, family) \/ S!connect(s, family)
      PROVE  SocketsInv'
  <2>1. CASE S!Throws
    BY <1>5, <2>1, SocketsThrow DEF S!bind, S!listen, S!connect
  <2>2. CASE ~ S!Throws
    <3>1. PICK how \in {"bound", "listening", "connected"} :
              /\ m_fd[s] # S!None /\ kernel[m_fd[s]] # "free"
              /\ kernel' = [kernel EXCEPT ![m_fd[s]] = how]
      BY <1>5, <2>2 DEF S!bind, S!listen, S!connect
    <3>2. threw' = FALSE /\ UNCHANGED <<unix, m_fd, m_family, streams, spoilt>> /\ S!Trusted
      BY <1>5, <2>2 DEF S!bind, S!listen, S!connect
    <3>3. SocketTypes'
      BY <1>1, <3>1, <3>2 DEF SocketsInv, SocketTypes, S!TypeOK
    <3>4. Owners'
      BY <1>1, <3>1, <3>2, SocketsUse
    <3> QED BY <3>3, <3>4 DEF SocketsInv
  <2> QED BY <2>1, <2>2
<1>6. ASSUME NEW s \in Objects, NEW c \in Objects, S!accept(s, c) PROVE SocketsInv'
  <2>1. CASE S!Throws
    BY <1>6, <2>1, SocketsThrow DEF S!accept
  <2>2. CASE ~ S!Throws
    <3> DEFINE own == S!Min(Fds \ S!Open)
               rest == (Fds \ S!Open) \ {own}
    <3>1. /\ m_fd[c] = S!None /\ Fds # S!Open /\ S!Trusted
          /\ m_family' = [m_family EXCEPT ![c] = m_family[s]]
          /\ UNCHANGED <<unix, streams>> /\ threw' \in BOOLEAN
      BY <1>6, <2>2 DEF S!accept
    <3>2. own \in Fds /\ kernel[own] = "free"
      BY <1>1, <3>1, FreshFree DEF S!Open
    <3>3. CASE /\ kernel' = [kernel EXCEPT ![own] = "fresh"]
               /\ m_fd' = [m_fd EXCEPT ![c] = own] /\ spoilt' = spoilt
      <4> HIDE DEF own
      <4>1. SocketTypes'
        BY <3>1, <3>2, <3>3 DEF SocketsInv, SocketTypes, S!TypeOK
      <4>2. Owners'
        BY <3>1, <3>2, <3>3, SocketsOwn
      <4> QED BY <4>1, <4>2 DEF SocketsInv
    <3>4. CASE ~ /\ kernel' = [kernel EXCEPT ![own] = "fresh"]
                 /\ m_fd' = [m_fd EXCEPT ![c] = own] /\ spoilt' = spoilt
      <4>1. /\ rest # {}
            /\ kernel' = [[kernel EXCEPT ![own] = "fresh"] EXCEPT ![S!Min(rest)] = "connected"]
            /\ m_fd' = [m_fd EXCEPT ![c] = S!Taken(own, S!Min(rest))]
            /\ spoilt' = {IF unix THEN "dropped" ELSE "leak"}
        BY <1>6, <2>2, <3>4 DEF S!accept
      <4>2. S!Min(rest) \in Fds
        BY <4>1, FreshFree
      <4>3. S!Taken(own, S!Min(rest)) \in Fds
        BY <3>2, <4>2 DEF S!Taken
      <4> HIDE DEF own, rest
      <4>4. SocketTypes'
        BY <3>1, <3>2, <4>1, <4>2, <4>3 DEF SocketsInv, SocketTypes, S!TypeOK
      <4> QED BY <4>1, <4>4 DEF SocketsInv
    <3> QED BY <3>3, <3>4
  <2> QED BY <2>1, <2>2
<1>7. ASSUME NEW s \in Objects, S!getStreams(s) \/ S!transfer(s) PROVE SocketsInv'
  <2>1. CASE S!Throws
    BY <1>7, <2>1, SocketsThrow DEF S!getStreams, S!transfer
  <2>2. CASE ~ S!Throws
    <3>1. UNCHANGED <<unix, kernel, m_fd, m_family, spoilt>> /\ S!Trusted /\ threw' = FALSE
      BY <1>7, <2>2 DEF S!getStreams, S!transfer
    <3>2. streams' \in [Objects -> {"none", "own", "garbage"}]
      BY <1>7, <2>2 DEF S!getStreams, S!transfer, SocketsInv, SocketTypes, S!TypeOK
    <3> QED BY <3>1, <3>2, SocketsUse DEF SocketsInv, SocketTypes, S!TypeOK
  <2> QED BY <2>1, <2>2
<1>8. ASSUME NEW a \in Objects, NEW b \in Objects, NEW constructs \in BOOLEAN, S!move(a, b, constructs)
      PROVE SocketsInv'
  <2>1. SocketTypes'
    BY <1>1, <1>8 DEF S!move, SocketsInv, SocketTypes, S!TypeOK
  <2>2. \A c \in Objects : m_fd'[c] = IF c = a THEN S!None ELSE IF c = b THEN m_fd[a] ELSE m_fd[c]
    BY <1>1, <1>8 DEF S!move
  <2>3. kernel' = kernel /\ Owners /\ a # b
    BY <1>1, <1>8 DEF S!move, S!Trusted
  <2>4. CASE m_fd[b] = S!None
    <3>1. Owners'
      BY <1>0, <1>1, <2>2, <2>3, <2>4 DEF Owners, S!None
    <3> QED BY <2>1, <3>1 DEF SocketsInv
  <2>5. CASE m_fd[b] # S!None
    BY <1>8, <2>1, <2>5 DEF S!move, SocketsInv
  <2> QED BY <2>4, <2>5
<1> QED BY <1>3, <1>4, <1>5, <1>6, <1>7, <1>8 DEF S!Next

\* What the invariant says of the kernel and the Sockets is Held.
LEMMA SocketsHeld ==
  ASSUME SocketsInv  PROVE S!Held
<1>1. SUFFICES ASSUME spoilt = {} PROVE /\ S!Open = {m_fd[s] : s \in Objects} \ {S!None}
                                        /\ \A s, c \in Objects : m_fd[s] = m_fd[c] /\ m_fd[s] # S!None => s = c
  BY DEF S!Held
<1>2. Owners /\ m_fd \in [Objects -> Fds \cup {S!None}] /\ S!None \notin Fds
  BY <1>1, StorageAssumption DEF SocketsInv, SocketTypes, S!TypeOK, S!None
<1>3. S!Open = {m_fd[s] : s \in Objects} \ {S!None}
  BY <1>2 DEF Owners, S!Open
<1> QED BY <1>2, <1>3 DEF Owners

\* The type is part of the invariant.
LEMMA SocketsTyped ==
  ASSUME SocketsInv  PROVE S!TypeOK
BY DEF SocketsInv, SocketTypes

\* What else changes does not concern the sockets.
LEMMA SocketsStutter ==
  ASSUME SocketsInv, UNCHANGED <<unix, kernel, m_fd, m_family, streams, threw, spoilt>>
  PROVE  SocketsInv'
BY DEF SocketsInv, SocketTypes, S!TypeOK, Owners, S!None, S!Open

-----------------------------------------------------------------------------
(* RAFile.                                                                  *)

\* A file on the disk, or none, is within its bound; an open one is there.
RAFileInv ==
  /\ unix \in BOOLEAN
  /\ handle = R!Closed \/ handle \subseteq {"read", "write"}
  /\ asked \subseteq {"read", "write"}
  /\ pos \in 0..MaxFile
  /\ file = R!NoFile \/ (file \in Seq(Nat) /\ Len(file) <= MaxFile)
  /\ R!IsOpen => file \in Seq(Nat) /\ Len(file) <= MaxFile
  /\ R!Held

\* A sequence whose elements are those of all its places.
LEMMA WholeSeq ==
  ASSUME NEW T0, NEW s0 \in Seq(T0)
  PROVE  SubSeq(s0, 1, Len(s0)) = s0
<1>1. Len(s0) \in Nat /\ \A i \in 1..Len(s0) : s0[i] \in T0
  BY LenProperties, ElementOfSeq
<1>2. PICK n \in Nat : n = Len(s0)
  BY <1>1
<1>3. /\ SubSeq(s0, 1, n) \in Seq(T0) /\ Len(SubSeq(s0, 1, n)) = n
      /\ \A i \in 1..n : SubSeq(s0, 1, n)[i] = s0[i]
  BY <1>1, <1>2, SubSeqProperties
<1> QED BY <1>2, <1>3, SeqEqual

\* A file that is not there is no sequence of bytes.
LEMMA NotThere ==
  R!NoFile \notin Seq(Nat) /\ DOMAIN R!NoFile = 1..1
<1>1. PICK none : none = <<-1>>
  OBVIOUS
<1>2. Len(none) = 1 /\ none[1] = -1 /\ DOMAIN none = 1..1
  BY <1>1
<1>3. none \notin Seq(Nat)
  <2>1. SUFFICES ASSUME none \in Seq(Nat) PROVE FALSE
    OBVIOUS
  <2>2. 1 \in 1..Len(none)
    BY <1>2
  <2>3. none[1] \in Nat
    BY <2>1, <2>2, ElementOfSeq
  <2> QED BY <1>2, <2>3
<1> QED BY <1>1, <1>2, <1>3 DEF R!NoFile

\* The type is part of the invariant.
LEMMA RAFileTyped ==
  ASSUME RAFileInv  PROVE R!TypeOK
<1>1. DOMAIN file \subseteq 1..MaxFile
  <2>1. CASE file = R!NoFile
    <3>1. 1 <= MaxFile /\ MaxFile \in Nat
      BY StorageAssumption
    <3> QED BY <2>1, <3>1, NotThere
  <2>2. CASE file \in Seq(Nat) /\ Len(file) <= MaxFile
    <3>1. Len(file) \in Nat /\ DOMAIN file = 1..Len(file)
      BY <2>2, LenProperties
    <3> QED BY <2>2, <3>1, StorageAssumption
  <2> QED BY <2>1, <2>2 DEF RAFileInv
<1> QED BY <1>1, NotThere DEF RAFileInv, R!TypeOK

\* A file of n bytes, the missing ones zero.
LEMMA FilledFile ==
  ASSUME NEW bytes \in Seq(Nat), NEW n \in Nat
  PROVE  /\ R!Filled(bytes, n) \in Seq(Nat) /\ Len(R!Filled(bytes, n)) = n
         /\ \A i \in 1..n : R!Filled(bytes, n)[i] \in Nat
<1>1. \A i \in 1..Len(bytes) : bytes[i] \in Nat
  BY ElementOfSeq
<1>2. Len(bytes) \in Nat
  BY LenProperties
<1>3. R!Filled(bytes, n) \in [1..n -> Nat]
  BY <1>1, <1>2 DEF R!Filled
<1> QED BY <1>3, FirstNumbers

\* Data put into a file leaves a file, as long as it was or up to the data's end.
LEMMA PutFile ==
  ASSUME NEW bytes \in Seq(Nat), NEW p \in Nat, NEW data \in Seq(Nat),
         NEW bound \in Nat, Len(bytes) <= bound, p + Len(data) <= bound
  PROVE  R!Put(bytes, p, data) \in Seq(Nat) /\ Len(R!Put(bytes, p, data)) <= bound
<1>1. Len(bytes) \in Nat /\ Len(data) \in Nat
  BY LenProperties
<1>2. PICK n \in Nat : n = (IF p + Len(data) > Len(bytes) THEN p + Len(data) ELSE Len(bytes)) /\ n <= bound
  BY <1>1
<1>3. \A i \in 1..n : R!Filled(bytes, n)[i] \in Nat
  BY FilledFile
<1>4. ASSUME NEW i \in 1..n, i > p, i <= p + Len(data) PROVE data[i - p] \in Nat
  <2>1. i - p \in 1..Len(data)
    BY <1>1, <1>4
  <2> QED BY <2>1, ElementOfSeq
<1>5. R!Put(bytes, p, data) =
        [i \in 1..n |-> IF i > p /\ i <= p + Len(data) THEN data[i - p] ELSE R!Filled(bytes, n)[i]]
  BY <1>2 DEF R!Put
<1>6. R!Put(bytes, p, data) \in [1..n -> Nat]
  BY <1>3, <1>4, <1>5
<1> QED BY <1>2, <1>6, FirstNumbers

\* What a read of n bytes at p returns: never past the end of the file.
LEMMA FromFile ==
  ASSUME NEW bytes \in Seq(Nat), NEW p \in Nat, NEW n \in Nat
  PROVE  /\ R!From(bytes, p, n) \in Seq(Nat) /\ Len(R!From(bytes, p, n)) \in 0..n
         /\ p + Len(R!From(bytes, p, n)) <= p \/ p + Len(R!From(bytes, p, n)) <= Len(bytes)
         /\ p + n <= Len(bytes) => Len(R!From(bytes, p, n)) = n
         /\ Len(R!From(bytes, p, n)) = n => n = 0 \/ p + n <= Len(bytes)
         /\ \A i \in 1..Len(R!From(bytes, p, n)) : R!From(bytes, p, n)[i] = bytes[p + i]
<1>1. Len(bytes) \in Nat /\ \A i \in 1..Len(bytes) : bytes[i] \in Nat
  BY LenProperties, ElementOfSeq
<1>2. PICK last0 \in Nat : last0 = (IF p + n > Len(bytes) THEN Len(bytes) ELSE p + n)
  BY <1>1
<1>3. PICK first \in Nat : first = p + 1
  OBVIOUS
<1>4. R!From(bytes, p, n) = SubSeq(bytes, first, last0)
  BY <1>2, <1>3 DEF R!From
<1>5. \A i \in first..last0 : bytes[i] \in Nat
  <2>1. first..last0 \subseteq 1..Len(bytes)
    BY <1>1, <1>2, <1>3
  <2> QED BY <1>1, <2>1
<1>6. /\ SubSeq(bytes, first, last0) \in Seq(Nat)
      /\ Len(SubSeq(bytes, first, last0)) = IF first <= last0 THEN last0 - first + 1 ELSE 0
      /\ \A i \in 1..(last0 - first + 1) : SubSeq(bytes, first, last0)[i] = bytes[first + i - 1]
  BY <1>5, SubSeqProperties
<1>7. PICK len \in Nat : len = (IF first <= last0 THEN last0 - first + 1 ELSE 0)
  <2>1. first <= last0 => last0 - first + 1 \in Nat
    BY <1>2, <1>3
  <2> QED BY <2>1
<1>8. /\ len \in 0..n /\ (p + len <= p \/ p + len <= Len(bytes))
      /\ p + n <= Len(bytes) => len = n
      /\ len = n => n = 0 \/ p + n <= Len(bytes)
  BY <1>1, <1>2, <1>3, <1>7
<1>9. \A i \in 1..len : SubSeq(bytes, first, last0)[i] = bytes[p + i]
  <2>1. \A i \in 1..len : i \in 1..(last0 - first + 1) /\ first + i - 1 = p + i
    BY <1>3, <1>7
  <2> QED BY <1>6, <2>1
<1>10. Len(R!From(bytes, p, n)) = len
  BY <1>4, <1>6, <1>7
<1> QED BY <1>4, <1>6, <1>8, <1>9, <1>10

\* A read that ends before the file does returns all it asked for.
LEMMA FromInside ==
  ASSUME NEW bytes \in Seq(Nat), NEW p \in Nat, NEW n \in Nat, p + n <= Len(bytes)
  PROVE  /\ R!From(bytes, p, n) \in Seq(Nat) /\ Len(R!From(bytes, p, n)) = n
         /\ \A i \in 1..n : R!From(bytes, p, n)[i] = bytes[p + i]
<1>1. Len(R!From(bytes, p, n)) = n
  BY FromFile
<1>2. R!From(bytes, p, n) \in Seq(Nat)
  BY FromFile
<1>3. \A i \in 1..Len(R!From(bytes, p, n)) : R!From(bytes, p, n)[i] = bytes[p + i]
  BY FromFile
<1> QED BY <1>1, <1>2, <1>3

\* Two reads in a row read what one read of both would.
LEMMA FromTwice ==
  ASSUME NEW bytes \in Seq(Nat), NEW p \in Nat, NEW n \in Nat, NEW k \in 0..n,
         p + n <= Len(bytes)
  PROVE  R!From(bytes, p, k) \o R!From(bytes, p + k, n - k) = R!From(bytes, p, n)
<1>1. PICK a : a = R!From(bytes, p, k)
  OBVIOUS
<1>2. PICK b : b = R!From(bytes, p + k, n - k)
  OBVIOUS
<1>3. PICK c : c = R!From(bytes, p, n)
  OBVIOUS
<1>4. PICK m \in Nat : m = n - k
  OBVIOUS
<1>5. PICK q \in Nat : q = p + k
  OBVIOUS
<1>6. k \in Nat /\ p + k <= Len(bytes) /\ q + m <= Len(bytes) /\ Len(bytes) \in Nat
  BY <1>4, <1>5, LenProperties
<1>7. a \in Seq(Nat) /\ Len(a) = k /\ \A i \in 1..k : a[i] = bytes[p + i]
  <2>1. p + k <= Len(bytes)
    BY <1>5, <1>6
  <2> QED BY <1>1, <1>6, <2>1, FromInside
<1>8. b \in Seq(Nat) /\ Len(b) = m /\ \A i \in 1..m : b[i] = bytes[q + i]
  <2>1. b = R!From(bytes, q, m)
    BY <1>2, <1>4, <1>5
  <2>2. q + m <= Len(bytes) /\ q \in Nat /\ m \in Nat
    BY <1>4, <1>5, <1>6
  <2>3. /\ R!From(bytes, q, m) \in Seq(Nat) /\ Len(R!From(bytes, q, m)) = m
        /\ \A i \in 1..m : R!From(bytes, q, m)[i] = bytes[q + i]
    BY <2>2, FromInside
  <2> QED BY <2>1, <2>3
<1>9. c \in Seq(Nat) /\ Len(c) = n /\ \A i \in 1..n : c[i] = bytes[p + i]
  BY <1>3, FromInside
<1>10. /\ a \o b \in Seq(Nat) /\ Len(a \o b) = k + m
       /\ \A i \in 1..(k + m) : (a \o b)[i] = IF i <= k THEN a[i] ELSE b[i - k]
  <2>1. /\ a \o b \in Seq(Nat) /\ Len(a \o b) = Len(a) + Len(b)
        /\ \A i \in 1..(Len(a) + Len(b)) : (a \o b)[i] = IF i <= Len(a) THEN a[i] ELSE b[i - Len(a)]
    BY <1>7, <1>8, ConcatProperties
  <2> QED BY <1>7, <1>8, <2>1
<1>11. k + m = n
  BY <1>4, <1>6
<1>12. ASSUME NEW i \in 1..n PROVE (a \o b)[i] = c[i]
  <2>1. CASE i <= k
    <3>1. i \in 1..k /\ i \in 1..(k + m)
      BY <1>6, <1>11, <2>1
    <3>2. (a \o b)[i] = a[i]
      BY <1>10, <2>1, <3>1
    <3> QED BY <1>7, <1>9, <3>1, <3>2
  <2>2. CASE ~ (i <= k)
    <3>1. i - k \in 1..m /\ q + (i - k) = p + i
      BY <1>4, <1>5, <1>6, <2>2
    <3>2. b[i - k] = bytes[p + i]
      BY <1>8, <3>1
    <3> QED BY <1>9, <1>10, <1>11, <2>2, <3>2
  <2> QED BY <2>1, <2>2
<1>13. Len(a \o b) = Len(c)
  BY <1>9, <1>10, <1>11
<1>14. a \o b = c
  BY <1>9, <1>10, <1>12, <1>13, SeqEqual
<1> QED BY <1>1, <1>2, <1>3, <1>14

\* A file that is not open has the invariant.
LEMMA RAFileInit ==
  ASSUME R!Init  PROVE RAFileInv
<1>1. PICK n \in {0, 3, MaxFile} : file \in {R!NoFile, [i \in 1..n |-> 9]}
  BY DEF R!Init
<1>2. n \in Nat /\ n <= MaxFile
  BY StorageAssumption
<1>3. file = R!NoFile \/ (file \in Seq(Nat) /\ Len(file) <= MaxFile)
  <2>1. CASE file = R!NoFile
    BY <2>1
  <2>2. CASE file = [i \in 1..n |-> 9]
    <3>1. file \in [1..n -> Nat]
      BY <2>2
    <3>2. file \in Seq(Nat) /\ Len(file) = n
      BY <1>2, <3>1, FirstNumbers
    <3> QED BY <1>2, <3>2
  <2> QED BY <1>1, <2>1, <2>2
<1> QED BY <1>3, StorageAssumption DEF R!Init, RAFileInv, R!IsOpen, R!Held

\* What is known where a step begins.
LEMMA FileHere ==
  ASSUME RAFileInv, spoilt = {}
  PROVE  /\ want = [file |-> file, pos |-> pos, got |-> got]
         /\ want.file = file /\ want.pos = pos /\ want.got = got
         /\ pos \in Nat /\ pos <= MaxFile /\ MaxFile \in Nat /\ MaxFile >= 3
BY StorageAssumption DEF RAFileInv, R!Held

\* write() at a position keeps the invariant.
LEMMA RAFileWrite ==
  ASSUME RAFileInv, NEW data \in Seq(Nat), NEW meant \in Seq(Nat), NEW harm,
         Len(data) > 0, harm = {} => data = meant, R!write(data, meant, harm)
  PROVE  RAFileInv'
<1> DEFINE may == R!IsOpen /\ "write" \in handle
           should == R!IsOpen /\ "write" \in asked
<1>1. spoilt = {} /\ pos + Len(data) <= MaxFile
  BY DEF R!write, R!Trusted
<1>2. PICK taken \in IF may THEN (IF unix THEN 0..Len(data) ELSE {Len(data)}) ELSE {0} :
        /\ file' = IF may /\ taken > 0 THEN R!Put(file, pos, SubSeq(data, 1, taken)) ELSE file
        /\ pos' = pos + taken
        /\ spoilt' = (IF may # should THEN {"rights"} ELSE {})
                     \cup (IF may /\ taken < Len(data) THEN {"short"} ELSE {})
                     \cup (IF may THEN harm ELSE {})
  BY DEF R!write
<1>3. /\ want' = IF should
                 THEN [file |-> R!Put(want.file, want.pos, meant),
                       pos |-> want.pos + Len(meant), got |-> R!None]
                 ELSE [want EXCEPT !.got = R!None]
      /\ got' = R!None /\ UNCHANGED <<unix, handle, asked>>
  BY DEF R!write
<1>4. Len(data) \in Nat /\ taken \in 0..Len(data)
  <2>1. Len(data) \in Nat
    BY LenProperties
  <2> QED BY <1>2, <2>1
<1>5. spoilt' = {} => (may <=> should) /\ (may => taken = Len(data) /\ harm = {})
  <2>1. ASSUME spoilt' = {} PROVE may = should
    BY <1>2, <2>1
  <2>2. ASSUME spoilt' = {}, may PROVE ~ (taken < Len(data)) /\ harm = {}
    BY <1>2, <2>2
  <2>3. ASSUME spoilt' = {}, may PROVE taken = Len(data)
    BY <1>4, <2>2, <2>3
  <2> QED BY <2>1, <2>2, <2>3
<1>6. /\ unix' \in BOOLEAN /\ asked' \subseteq {"read", "write"}
      /\ handle' = R!Closed \/ handle' \subseteq {"read", "write"}
  BY <1>3 DEF RAFileInv
<1>7. pos' \in 0..MaxFile
  BY <1>1, <1>2, <1>4, FileHere
<1>8. CASE may
  <2>1. file \in Seq(Nat) /\ Len(file) <= MaxFile
    BY <1>8 DEF RAFileInv
  <2>2. SubSeq(data, 1, taken) \in Seq(Nat) /\ Len(SubSeq(data, 1, taken)) = taken
    <3>1. \A i \in 1..taken : data[i] \in Nat
      BY <1>4, ElementOfSeq
    <3> QED BY <1>4, <3>1, SubSeqProperties
  <2>3. file' \in Seq(Nat) /\ Len(file') <= MaxFile
    <3>1. CASE taken > 0
      <4>1. pos \in Nat /\ MaxFile \in Nat /\ pos + taken <= MaxFile
        BY <1>1, <1>4, FileHere
      <4>2. /\ R!Put(file, pos, SubSeq(data, 1, taken)) \in Seq(Nat)
            /\ Len(R!Put(file, pos, SubSeq(data, 1, taken))) <= MaxFile
        BY <2>1, <2>2, <4>1, PutFile
      <4> QED BY <1>2, <1>8, <3>1, <4>2
    <3>2. CASE ~ (taken > 0)
      BY <1>2, <2>1, <3>2
    <3> QED BY <3>1, <3>2
  <2>4. ASSUME spoilt' = {} PROVE want' = [file |-> file', pos |-> pos', got |-> got']
    <3>1. should /\ taken = Len(data) /\ data = meant
      BY <1>5, <1>8, <2>4
    <3>2. file' = R!Put(file, pos, data)
      BY <1>2, <1>8, <3>1, WholeSeq
    <3>3. want.file = file /\ want.pos = pos
      BY <1>1, FileHere
    <3> QED BY <1>2, <1>3, <3>1, <3>2, <3>3
  <2> QED BY <1>6, <1>7, <2>3, <2>4 DEF RAFileInv, R!Held
<1>9. CASE ~ may
  <2>1. taken = 0 /\ file' = file /\ pos' = pos
    BY <1>1, <1>2, <1>9, FileHere
  <2>2. ASSUME spoilt' = {} PROVE want' = [file |-> file', pos |-> pos', got |-> got']
    <3>1. want' = [want EXCEPT !.got = R!None]
      BY <1>3, <1>5, <1>9, <2>2
    <3>2. want = [file |-> file, pos |-> pos, got |-> got]
      BY <1>1, FileHere
    <3> QED BY <1>3, <2>1, <3>1, <3>2
  <2>3. /\ file' = R!NoFile \/ (file' \in Seq(Nat) /\ Len(file') <= MaxFile)
        /\ R!IsOpen' => file' \in Seq(Nat) /\ Len(file') <= MaxFile
    BY <1>3, <2>1 DEF RAFileInv, R!IsOpen
  <2> QED BY <1>6, <1>7, <2>2, <2>3 DEF RAFileInv, R!Held
<1> QED BY <1>8, <1>9

\* Bytes turned around are as many bytes.
LEMMA TurnedBytes ==
  ASSUME NEW bytes \in Seq(Nat)
  PROVE  R!Reverse(bytes) \in Seq(Nat) /\ Len(R!Reverse(bytes)) = Len(bytes)
<1>1. PICK n \in Nat : n = Len(bytes)
  BY LenProperties
<1>2. \A i \in 1..n : bytes[(n - i) + 1] \in Nat
  <2>1. \A i \in 1..n : (n - i) + 1 \in 1..Len(bytes)
    BY <1>1
  <2> QED BY <2>1, ElementOfSeq
<1>3. R!Reverse(bytes) \in [1..n -> Nat]
  BY <1>1, <1>2 DEF R!Reverse
<1> QED BY <1>1, <1>3, FirstNumbers

\* Four bytes written from the last one on: as many, and the first is not theirs.
LEMMA ShiftedBytes ==
  ASSUME NEW bytes \in Seq(Nat), Len(bytes) = 4
  PROVE  R!writeLE(bytes) \in Seq(Nat) /\ Len(R!writeLE(bytes)) = 4
<1>1. PICK turned : turned = R!Reverse(bytes)
  OBVIOUS
<1>2. \A i \in 1..3 : turned[i] \in Nat
  <2>1. turned \in Seq(Nat) /\ Len(turned) = 4
    BY <1>1, TurnedBytes
  <2>2. \A i \in 1..3 : i \in 1..Len(turned)
    BY <2>1
  <2> QED BY <2>1, <2>2, ElementOfSeq
<1>3. PICK few : few = SubSeq(turned, 1, 3)
  OBVIOUS
<1>4. few \in Seq(Nat) /\ Len(few) = 3
  BY <1>2, <1>3, SubSeqProperties
<1>5. PICK one : one = <<Unwritten>>
  OBVIOUS
<1>6. one \in Seq(Nat) /\ Len(one) = 1
  BY <1>5, StorageAssumption
<1>7. one \o few \in Seq(Nat) /\ Len(one \o few) = Len(one) + Len(few)
  BY <1>4, <1>6, ConcatProperties
<1>8. R!writeLE(bytes) = one \o few
  BY <1>1, <1>3, <1>5 DEF R!writeLE
<1> QED BY <1>4, <1>6, <1>7, <1>8

\* A number is as many bytes as it is wide.
LEMMA ValueBytes ==
  ASSUME NEW w \in R!Widths
  PROVE  R!ValueOf(w) \in Seq(Nat) /\ Len(R!ValueOf(w)) = w /\ w \in Nat /\ w > 0
<1>1. w \in Nat /\ w > 0
  BY DEF R!Widths
<1>2. R!ValueOf(w) \in [1..w -> Nat]
  BY <1>1 DEF R!ValueOf
<1> QED BY <1>1, <1>2, FirstNumbers

\* The bytes of a value, in either order, as they are meant and as they are
\* written: not the same when the value has four and the first goes last.
LEMMA WrittenBytes ==
  ASSUME NEW bytes \in Seq(Nat), NEW order \in {"BE", "LE"}
  PROVE  /\ R!Meant(order, bytes) \in Seq(Nat) /\ Len(R!Meant(order, bytes)) = Len(bytes)
         /\ R!Writes(order, bytes) \in Seq(Nat) /\ Len(R!Writes(order, bytes)) = Len(bytes)
         /\ ~ (order = "LE" /\ Len(bytes) = 4) => R!Writes(order, bytes) = R!Meant(order, bytes)
<1>1. R!Reverse(bytes) \in Seq(Nat) /\ Len(R!Reverse(bytes)) = Len(bytes)
  BY TurnedBytes
<1>2. R!Meant(order, bytes) = IF order = "BE" THEN bytes ELSE R!Reverse(bytes)
  BY DEF R!Meant
<1>3. CASE order = "LE" /\ Len(bytes) = 4
  <2>1. R!Writes(order, bytes) = R!writeLE(bytes)
    BY <1>3 DEF R!Writes
  <2> QED BY <1>1, <1>2, <1>3, <2>1, ShiftedBytes
<1>4. CASE ~ (order = "LE" /\ Len(bytes) = 4)
  <2>1. R!Writes(order, bytes) = IF order = "BE" THEN bytes ELSE R!Reverse(bytes)
    BY <1>4 DEF R!Writes, R!writeBE, R!writeLE
  <2> QED BY <1>1, <1>2, <1>4, <2>1
<1> QED BY <1>3, <1>4

\* The typed writes keep the invariant.
LEMMA RAFileWrites ==
  ASSUME RAFileInv, R!writeInt \/ R!writeFloating  PROVE RAFileInv'
<1>1. ASSUME R!writeInt PROVE RAFileInv'
  <2>1. PICK order \in {"BE", "LE"}, w \in R!Widths :
          R!write(R!Writes(order, R!ValueOf(w)), R!Meant(order, R!ValueOf(w)),
                  IF order = "LE" /\ w = 4 THEN {"shifted"} ELSE {})
    BY <1>1 DEF R!writeInt
  <2>2. PICK v : v = R!ValueOf(w)
    OBVIOUS
  <2>3. v \in Seq(Nat) /\ Len(v) = w /\ w > 0
    BY <2>1, <2>2, ValueBytes
  <2>4. PICK harm : harm = IF order = "LE" /\ w = 4 THEN {"shifted"} ELSE {}
    OBVIOUS
  <2>5. R!write(R!Writes(order, v), R!Meant(order, v), harm)
    BY <2>1, <2>2, <2>4
  <2>6. /\ R!Meant(order, v) \in Seq(Nat)
        /\ R!Writes(order, v) \in Seq(Nat) /\ Len(R!Writes(order, v)) > 0
    BY <2>1, <2>3, WrittenBytes
  <2>7. harm = {} => R!Writes(order, v) = R!Meant(order, v)
    BY <2>1, <2>3, <2>4, WrittenBytes
  <2> QED BY <2>5, <2>6, <2>7, RAFileWrite
<1>2. ASSUME R!writeFloating PROVE RAFileInv'
  <2>1. PICK order \in {"BE", "LE"} :
          R!write(R!writeDouble(order, R!ValueOf(8)), R!Meant(order, R!ValueOf(8)),
                  IF unix THEN {"halved"} ELSE {})
    BY <1>2 DEF R!writeFloating
  <2>2. PICK v : v = R!ValueOf(8)
    OBVIOUS
  <2>3. v \in Seq(Nat) /\ Len(v) = 8
    <3>1. 8 \in R!Widths
      BY DEF R!Widths
    <3> QED BY <2>2, <3>1, ValueBytes
  <2>4. R!Meant(order, v) \in Seq(Nat)
    BY <2>1, <2>3, WrittenBytes
  <2>5. PICK harm : harm = IF unix THEN {"halved"} ELSE {}
    OBVIOUS
  <2>6. R!write(R!writeDouble(order, v), R!Meant(order, v), harm)
    BY <2>1, <2>2, <2>5
  <2>7. CASE ~ unix
    <3>1. R!writeDouble(order, v) = R!Writes(order, v)
      BY <2>7 DEF R!writeDouble
    <3>2. R!Writes(order, v) = R!Meant(order, v) /\ R!Writes(order, v) \in Seq(Nat) /\ Len(R!Writes(order, v)) > 0
      <4>1. Len(v) # 4
        BY <2>3
      <4>2. Len(R!Writes(order, v)) = Len(v) /\ R!Writes(order, v) \in Seq(Nat)
        BY <2>1, <2>3, WrittenBytes
      <4>3. R!Writes(order, v) = R!Meant(order, v)
        BY <2>1, <2>3, <4>1, WrittenBytes
      <4> QED BY <2>3, <4>2, <4>3
    <3> QED BY <2>4, <2>6, <3>1, <3>2, RAFileWrite
  <2>8. CASE unix
    <3>1. PICK four : four = R!Truncated(v, 4)
      OBVIOUS
    <3>2. four \in Seq(Nat) /\ Len(four) = 4
      <4>1. \A i \in 5..8 : v[i] \in Nat
        <5>1. \A i \in 5..8 : i \in 1..Len(v)
          BY <2>3
        <5> QED BY <2>3, <5>1, ElementOfSeq
      <4>2. four = SubSeq(v, 5, 8)
        <5>1. 8 - 4 + 1 = 5
          OBVIOUS
        <5> QED BY <2>3, <3>1, <5>1 DEF R!Truncated
      <4> QED BY <4>1, <4>2, SubSeqProperties
    <3>3. R!Writes(order, four) \in Seq(Nat) /\ Len(R!Writes(order, four)) > 0
      <4>1. Len(R!Writes(order, four)) = Len(four) /\ R!Writes(order, four) \in Seq(Nat)
        BY <2>1, <3>2, WrittenBytes
      <4> QED BY <3>2, <4>1
    <3>4. R!writeDouble(order, v) = R!Writes(order, four)
      BY <2>8, <3>1 DEF R!writeDouble
    <3>5. harm # {}
      BY <2>5, <2>8
    <3>6. R!write(R!Writes(order, four), R!Meant(order, v), harm)
      BY <2>6, <3>4
    <3> QED BY <2>4, <3>3, <3>5, <3>6, RAFileWrite
  <2> QED BY <2>7, <2>8
<1> QED BY <1>1, <1>2

\* A read at the position stays within the file or where it was.
LEMMA ReadWithin ==
  ASSUME NEW bytes \in Seq(Nat), NEW p \in Nat, NEW n \in Nat,
         p <= MaxFile, Len(bytes) <= MaxFile
  PROVE  Len(R!From(bytes, p, n)) \in Nat /\ p + Len(R!From(bytes, p, n)) <= MaxFile
<1>1. PICK len \in 0..n : len = Len(R!From(bytes, p, n)) /\ (p + len <= p \/ p + len <= Len(bytes))
  BY FromFile
<1>2. Len(bytes) \in Nat /\ MaxFile \in Nat
  BY LenProperties, StorageAssumption
<1> QED BY <1>1, <1>2

\* read() keeps the invariant.
LEMMA RAFileRead ==
  ASSUME RAFileInv, NEW n \in Nat, R!read(n)  PROVE RAFileInv'
<1> DEFINE may == R!IsOpen /\ "read" \in handle
           should == R!IsOpen /\ "read" \in asked
<1>1. /\ spoilt = {}
      /\ got' = IF may THEN R!From(file, pos, n) ELSE R!None
      /\ pos' = pos + Len(got')
      /\ want' = IF should
                 THEN [want EXCEPT !.got = R!From(want.file, want.pos, n),
                                   !.pos = want.pos + Len(R!From(want.file, want.pos, n))]
                 ELSE [want EXCEPT !.got = R!None]
      /\ spoilt' = {} => may = should
      /\ UNCHANGED <<unix, file, handle, asked>>
  BY DEF R!read, R!Trusted
<1>2. /\ want = [file |-> file, pos |-> pos, got |-> got] /\ pos \in Nat /\ pos <= MaxFile
  BY <1>1, FileHere
<1>3. pos' \in 0..MaxFile
  <2>1. CASE may
    <3>1. file \in Seq(Nat) /\ Len(file) <= MaxFile
      BY <2>1 DEF RAFileInv
    <3>2. Len(R!From(file, pos, n)) \in Nat /\ pos + Len(R!From(file, pos, n)) <= MaxFile
      BY <1>2, <3>1, ReadWithin
    <3>3. pos' = pos + Len(R!From(file, pos, n))
      BY <1>1, <2>1
    <3> QED BY <1>2, <3>2, <3>3, StorageAssumption
  <2>2. CASE ~ may
    <3>1. Len(R!None) = 0
      BY EmptySeq DEF R!None
    <3>2. pos' = pos + 0
      BY <1>1, <2>2, <3>1
    <3> QED BY <1>2, <3>2, StorageAssumption
  <2> QED BY <2>1, <2>2
<1>4. ASSUME spoilt' = {} PROVE want' = [file |-> file', pos |-> pos', got |-> got']
  <2>1. CASE may
    <3>1. want' = [want EXCEPT !.got = R!From(file, pos, n), !.pos = pos + Len(R!From(file, pos, n))]
      BY <1>1, <1>2, <1>4, <2>1
    <3>2. got' = R!From(file, pos, n) /\ pos' = pos + Len(R!From(file, pos, n)) /\ file' = file
      BY <1>1, <2>1
    <3> QED BY <1>2, <3>1, <3>2
  <2>2. CASE ~ may
    <3>1. want' = [want EXCEPT !.got = R!None]
      BY <1>1, <1>4, <2>2
    <3>2. got' = R!None /\ pos' = pos + Len(R!None) /\ file' = file /\ Len(R!None) = 0
      BY <1>1, <2>2, EmptySeq DEF R!None
    <3> QED BY <1>2, <3>1, <3>2
  <2> QED BY <2>1, <2>2
<1> QED BY <1>1, <1>3, <1>4 DEF RAFileInv, R!Held, R!IsOpen

\* readFully(): what it takes in two reads, where that goes well, is what one
\* read would have taken, and the position is behind it.
LEMMA RAFileReadFully ==
  ASSUME RAFileInv, NEW n \in R!Widths, NEW order \in {"BE", "LE"}, R!readFully(n, order)
  PROVE  RAFileInv'
<1>1. PICK left : left = Len(R!From(file, pos, n))
  OBVIOUS
<1>2. PICK first \in 0..left :
        /\ spoilt = {}
        /\ got' = R!Decoded(order,
                     IF unix /\ first > 0
                     THEN (IF first = n THEN <<>> ELSE R!From(file, pos + first, R!Again(n, first)))
                          \o SubSeq(R!From(file, pos, first),
                                    Len(IF first = n THEN <<>> ELSE R!From(file, pos + first, R!Again(n, first))) + 1, first)
                     ELSE R!From(file, pos, first)
                          \o (IF first = n THEN <<>> ELSE R!From(file, pos + first, R!Again(n, first))))
        /\ pos' = pos + first + Len(IF first = n THEN <<>> ELSE R!From(file, pos + first, R!Again(n, first)))
        /\ spoilt' = {} => ~ (left < n) /\ ~ (first < n /\ unix /\ first > 0)
  BY <1>1 DEF R!readFully, R!Trusted
<1>3. PICK more : more = IF first = n THEN <<>> ELSE R!From(file, pos + first, R!Again(n, first))
  OBVIOUS
<1>4. PICK read1 : read1 = R!From(file, pos, first)
  OBVIOUS
<1>5. PICK joined :
        /\ joined = IF unix /\ first > 0 THEN more \o SubSeq(read1, Len(more) + 1, first)
                    ELSE read1 \o more
        /\ got' = R!Decoded(order, joined) /\ pos' = pos + first + Len(more)
  BY <1>2, <1>3, <1>4
<1>6. /\ R!IsOpen
      /\ want' = [want EXCEPT !.got = R!Meant(order, R!From(want.file, want.pos, n)),
                              !.pos = want.pos + Len(R!From(want.file, want.pos, n))]
      /\ UNCHANGED <<unix, file, handle, asked>>
  BY DEF R!readFully
<1>7. n \in Nat /\ n > 0
  BY DEF R!Widths
<1>8. /\ file \in Seq(Nat) /\ Len(file) <= MaxFile /\ Len(file) \in Nat /\ MaxFile \in Nat
      /\ pos \in Nat /\ pos <= MaxFile /\ want = [file |-> file, pos |-> pos, got |-> got]
  <2>1. file \in Seq(Nat) /\ Len(file) <= MaxFile
    BY <1>6 DEF RAFileInv
  <2>2. pos \in Nat /\ pos <= MaxFile /\ MaxFile \in Nat /\ want = [file |-> file, pos |-> pos, got |-> got]
    BY <1>2, FileHere
  <2> QED BY <2>1, <2>2, LenProperties
<1>9. /\ left \in 0..n /\ pos + left <= MaxFile /\ first \in Nat /\ first <= left
      /\ left = n => pos + n <= Len(file)
  <2>1. left \in 0..n
    BY <1>1, <1>7, <1>8, FromFile
  <2>2. pos + left <= MaxFile
    BY <1>1, <1>7, <1>8, ReadWithin
  <2>3. left = n => pos + n <= Len(file)
    <3>1. Len(R!From(file, pos, n)) = n => n = 0 \/ pos + n <= Len(file)
      BY <1>7, <1>8, FromFile
    <3> QED BY <1>1, <1>7, <3>1
  <2> QED BY <1>2, <2>1, <2>2, <2>3
<1>10. PICK p \in Nat : p = pos + first /\ p <= MaxFile
  BY <1>8, <1>9
<1>11. PICK again \in Nat : again = R!Again(n, first)
  <2>1. n - first \in Nat
    BY <1>7, <1>9
  <2>2. R!Again(n, first) = IF unix THEN n ELSE n - first
    BY DEF R!Again
  <2> QED BY <1>7, <2>1, <2>2
<1>12. pos' \in 0..MaxFile
  <2>1. CASE first = n
    <3>1. Len(more) = 0
      BY <1>3, <2>1, EmptySeq
    <3> QED BY <1>5, <1>8, <1>10, <3>1
  <2>2. CASE first # n
    <3>1. more = R!From(file, p, again)
      BY <1>3, <1>10, <1>11, <2>2
    <3>2. Len(more) \in Nat /\ p + Len(more) <= MaxFile
      BY <1>8, <1>10, <3>1, ReadWithin
    <3> QED BY <1>5, <1>8, <1>10, <3>2
  <2> QED BY <2>1, <2>2
<1>13. ASSUME spoilt' = {} PROVE want' = [file |-> file', pos |-> pos', got |-> got']
  <2>1. left = n /\ pos + n <= Len(file) /\ ~ (first < n /\ unix /\ first > 0)
    BY <1>2, <1>7, <1>9, <1>13
  <2>2. PICK whole : whole = R!From(file, pos, n)
    OBVIOUS
  <2>3. whole \in Seq(Nat) /\ Len(whole) = n
    BY <1>1, <1>7, <1>8, <2>1, <2>2, FromFile
  <2>4. pos' = pos + n /\ joined = whole
    <3>1. CASE first = n
      <4>1. more = <<>> /\ Len(more) = 0 /\ read1 = whole
        BY <1>3, <1>4, <2>2, <3>1, EmptySeq
      <4>2. SubSeq(read1, Len(more) + 1, first) = whole
        <5>1. Len(more) + 1 = 1
          BY <4>1
        <5> QED BY <2>3, <3>1, <4>1, <5>1, WholeSeq
      <4>3. more \o whole = whole /\ whole \o more = whole
        BY <2>3, <4>1, ConcatEmptySeq
      <4>4. joined = whole
        BY <1>5, <4>1, <4>2, <4>3
      <4>5. pos' = pos + n
        BY <1>5, <1>7, <1>8, <3>1, <4>1
      <4> QED BY <4>4, <4>5
    <3>2. CASE first # n /\ first = 0
      <4>1. pos + first = pos /\ R!Again(n, first) = n
        BY <1>7, <1>8, <3>2 DEF R!Again
      <4>2. more = whole
        BY <1>3, <2>2, <3>2, <4>1
      <4>3. read1 = <<>>
        <5>1. R!From(file, pos, 0) \in Seq(Nat) /\ Len(R!From(file, pos, 0)) \in 0..0
          BY <1>8, FromFile
        <5>2. read1 \in Seq(Nat) /\ Len(read1) = 0
          BY <1>4, <3>2, <5>1
        <5> QED BY <5>2, EmptySeq
      <4>4. read1 \o more = whole
        BY <2>3, <4>2, <4>3, ConcatEmptySeq
      <4> QED BY <1>5, <1>8, <2>3, <3>2, <4>2, <4>4
    <3>3. CASE first # n /\ first # 0
      <4>1. ~ unix /\ first \in 0..n /\ first < n
        BY <1>7, <1>9, <2>1, <3>3
      <4>2. more = R!From(file, pos + first, n - first)
        BY <1>3, <3>3, <4>1 DEF R!Again
      <4>3. read1 \o more = whole
        BY <1>4, <1>7, <1>8, <2>1, <2>2, <4>1, <4>2, FromTwice
      <4>4. PICK m \in Nat : m = n - first
        BY <1>7, <4>1
      <4>5. Len(more) = m
        <5>1. more = R!From(file, p, m) /\ p + m <= Len(file)
          BY <1>7, <1>8, <1>10, <2>1, <4>1, <4>2, <4>4
        <5> QED BY <1>8, <1>10, <4>4, <5>1, FromFile
      <4>6. pos + first + m = pos + n
        BY <1>7, <1>8, <4>1, <4>4
      <4> QED BY <1>5, <4>1, <4>3, <4>5, <4>6
    <3> QED BY <3>1, <3>2, <3>3
  <2>5. R!Decoded(order, whole) = R!Meant(order, whole)
    BY DEF R!Decoded, R!Meant, R!FromBE, R!FromLE
  <2>6. want' = [want EXCEPT !.got = R!Meant(order, whole), !.pos = pos + n]
    BY <1>6, <1>8, <2>2, <2>3
  <2> QED BY <1>5, <1>6, <1>8, <2>4, <2>5, <2>6
<1> QED BY <1>6, <1>12, <1>13 DEF RAFileInv, R!Held, R!IsOpen

\* readLine() keeps the invariant.
LEMMA RAFileReadLine ==
  ASSUME RAFileInv, R!readLine  PROVE RAFileInv'
<1>1. PICK rest : rest = SubSeq(file, pos + 1, Len(file))
  OBVIOUS
<1>2. PICK end : end = R!SelectInSeq(rest, LAMBDA c : c = 10)
  OBVIOUS
<1>3. PICK size : size = IF end = 0 THEN Len(rest) ELSE end
  OBVIOUS
<1>4. /\ spoilt = {} /\ R!IsOpen
      /\ pos' = pos + size
      /\ want' = [want EXCEPT !.got = got', !.pos = want.pos + size]
      /\ UNCHANGED <<unix, file, handle, asked, spoilt>>
  BY <1>1, <1>2, <1>3 DEF R!readLine, R!Trusted
<1>5. /\ file \in Seq(Nat) /\ Len(file) <= MaxFile /\ Len(file) \in Nat /\ MaxFile \in Nat
      /\ pos \in Nat /\ pos <= MaxFile /\ want = [file |-> file, pos |-> pos, got |-> got]
  <2>1. file \in Seq(Nat) /\ Len(file) <= MaxFile
    BY <1>4 DEF RAFileInv
  <2>2. pos \in Nat /\ pos <= MaxFile /\ MaxFile \in Nat /\ want = [file |-> file, pos |-> pos, got |-> got]
    BY <1>4, FileHere
  <2> QED BY <2>1, <2>2, LenProperties
<1>6. rest \in Seq(Nat) /\ Len(rest) \in Nat /\ pos + Len(rest) <= MaxFile
  <2>1. \A i \in (pos + 1)..Len(file) : file[i] \in Nat
    <3>1. \A i \in (pos + 1)..Len(file) : i \in 1..Len(file)
      BY <1>5
    <3> QED BY <1>5, <3>1, ElementOfSeq
  <2>2. PICK first \in Nat : first = pos + 1
    BY <1>5
  <2>3. rest \in Seq(Nat) /\ Len(rest) = IF first <= Len(file) THEN Len(file) - first + 1 ELSE 0
    BY <1>1, <1>5, <2>1, <2>2, SubSeqProperties
  <2> QED BY <1>5, <2>2, <2>3
<1>7. end \in 0..Len(rest)
  <2>1. PICK I : I = {i \in 1..Len(rest) : rest[i] = 10}
    OBVIOUS
  <2>2. end = IF I # {} THEN R!Min(I) ELSE 0
    BY <1>2, <2>1 DEF R!SelectInSeq
  <2>3. CASE I = {}
    BY <1>6, <2>2, <2>3
  <2>4. CASE I # {}
    <3>1. I \subseteq Nat
      BY <2>1
    <3>2. PICK x \in I : \A y \in I : ~ (<<y, x>> \in OpToRel(<, Nat))
      BY <2>4, <3>1, WFMin, NatLessThanWellFounded, Zenon
    <3>3. \A y \in I : ~ (y < x)
      BY <3>1, <3>2, Zenon DEF OpToRel
    <3>4. \A y \in I : x <= y
      BY <3>1, <3>3
    <3>5. R!Min(I) \in I
      BY <3>4 DEF R!Min
    <3> QED BY <1>6, <2>1, <2>2, <2>4, <3>5
  <2> QED BY <2>3, <2>4
<1>8. size \in Nat /\ pos + size <= MaxFile
  BY <1>3, <1>5, <1>6, <1>7
<1>9. pos' \in 0..MaxFile
  BY <1>4, <1>5, <1>8
<1>10. want' = [file |-> file', pos |-> pos', got |-> got']
  BY <1>4, <1>5
<1> QED BY <1>4, <1>9, <1>10 DEF RAFileInv, R!Held, R!IsOpen

\* open() keeps the invariant.
LEMMA RAFileOpen ==
  ASSUME RAFileInv, NEW mode \in Modes, NEW permissions \in SUBSET {"read", "write"}, R!open(mode, permissions)
  PROVE  RAFileInv'
<1> DEFINE rights == R!Granted(permissions)
           exists == file # R!NoFile
           denied == ~ unix /\ mode = "CREATE_OR_TRUNCATE" /\ exists /\ "write" \notin rights
           opened == IF ~ exists \/ R!Emptied(mode) THEN <<>> ELSE file
           wished == IF ~ exists \/ R!Empties(mode) THEN <<>> ELSE file
<1>1. /\ spoilt = {} /\ asked' = permissions /\ got' = R!None /\ unix' = unix
      /\ spoilt' = {} => ~ (~ unix /\ R!MustNotExist(mode) /\ exists)
      /\ \/ /\ R!OpenFails(mode, rights)
            /\ handle' = R!Closed
            /\ want' = [want EXCEPT !.got = R!None]
            /\ UNCHANGED <<file, pos>>
         \/ /\ ~ R!OpenFails(mode, rights)
            /\ handle' = rights
            /\ file' = IF denied THEN file ELSE opened
            /\ pos' = 0
            /\ want' = [file |-> IF denied THEN file ELSE wished, pos |-> 0, got |-> R!None]
  BY DEF R!open, R!Trusted
<1>2. rights \subseteq {"read", "write"}
  BY DEF R!Granted
<1>3. /\ want = [file |-> file, pos |-> pos, got |-> got] /\ unix \in BOOLEAN
      /\ pos \in 0..MaxFile /\ (exists => file \in Seq(Nat) /\ Len(file) <= MaxFile)
  BY <1>1, FileHere DEF RAFileInv
<1>4. <<>> \in Seq(Nat) /\ Len(<<>>) <= MaxFile /\ 0 \in 0..MaxFile
  BY StorageAssumption, EmptySeq
<1> HIDE DEF rights
<1>5. CASE R!OpenFails(mode, rights)
  <2>1. /\ handle' = R!Closed /\ want' = [want EXCEPT !.got = R!None] /\ file' = file /\ pos' = pos
    BY <1>1, <1>5
  <2>2. want' = [file |-> file', pos |-> pos', got |-> got']
    BY <1>1, <1>3, <2>1
  <2> QED BY <1>1, <1>3, <2>1, <2>2 DEF RAFileInv, R!Held, R!IsOpen
<1>6. CASE ~ R!OpenFails(mode, rights)
  <2>1. /\ handle' = rights /\ pos' = 0
        /\ file' = IF denied THEN file ELSE opened
        /\ want' = [file |-> IF denied THEN file ELSE wished, pos |-> 0, got |-> R!None]
    BY <1>1, <1>6
  <2>2. file' \in Seq(Nat) /\ Len(file') <= MaxFile
    BY <1>3, <1>4, <2>1
  <2>3. ASSUME spoilt' = {} PROVE opened = wished
    BY <1>1, <2>3 DEF R!Emptied
  <2>4. ASSUME spoilt' = {} PROVE want' = [file |-> file', pos |-> pos', got |-> got']
    <3>1. opened = wished
      BY <2>3, <2>4
    <3> HIDE DEF opened, wished, denied
    <3> QED BY <1>1, <2>1, <3>1
  <2> QED BY <1>1, <1>2, <1>3, <1>4, <2>1, <2>2, <2>4 DEF RAFileInv, R!Held, R!IsOpen
<1> QED BY <1>5, <1>6

\* setLength() keeps the invariant.
LEMMA RAFileSetLength ==
  ASSUME RAFileInv, NEW n \in Nat, n <= MaxFile, R!setFileLength(n)  PROVE RAFileInv'
<1> DEFINE may == R!IsOpen /\ "write" \in handle
           should == R!IsOpen /\ "write" \in asked
<1>1. /\ spoilt = {} /\ R!IsOpen
      /\ file' = IF may THEN R!Filled(file, n) ELSE file
      /\ pos' = IF ~ unix /\ ~ may THEN n ELSE pos
      /\ want' = IF should THEN [want EXCEPT !.file = R!Filled(want.file, n)] ELSE want
      /\ UNCHANGED <<unix, handle, asked, got>>
  BY DEF R!setFileLength, R!Trusted
<1>2. spoilt' = {} => may = should /\ (unix \/ may)
  BY DEF R!setFileLength
<1>3. /\ file \in Seq(Nat) /\ Len(file) <= MaxFile /\ MaxFile \in Nat
      /\ pos \in 0..MaxFile /\ want = [file |-> file, pos |-> pos, got |-> got]
  BY <1>1, FileHere DEF RAFileInv
<1>4. R!Filled(file, n) \in Seq(Nat) /\ Len(R!Filled(file, n)) = n
  BY <1>3, FilledFile
<1>5. file' \in Seq(Nat) /\ Len(file') <= MaxFile /\ pos' \in 0..MaxFile
  BY <1>1, <1>3, <1>4
<1>6. ASSUME spoilt' = {} PROVE want' = [file |-> file', pos |-> pos', got |-> got']
  <2>1. pos' = pos /\ got' = got
    BY <1>1, <1>2, <1>6
  <2>2. CASE may
    <3>1. file' = R!Filled(file, n) /\ want' = [want EXCEPT !.file = R!Filled(file, n)]
      BY <1>1, <1>2, <1>3, <1>6, <2>2
    <3> QED BY <1>3, <2>1, <3>1
  <2>3. CASE ~ may
    <3>1. file' = file /\ want' = want
      BY <1>1, <1>2, <1>6, <2>3
    <3> QED BY <1>3, <2>1, <3>1
  <2> QED BY <2>2, <2>3
<1> QED BY <1>1, <1>5, <1>6 DEF RAFileInv, R!Held, R!IsOpen

\* The calls that leave the file alone.
LEMMA RAFileOthers ==
  ASSUME RAFileInv, R!close \/ R!destroy \/ R!getFileOffset \/ R!fileLength
  PROVE  RAFileInv'
<1>1. spoilt = {} /\ UNCHANGED <<unix, file>> /\ pos' = pos
  BY DEF R!close, R!destroy, R!getFileOffset, R!fileLength, R!Trusted
<1>2. want = [file |-> file, pos |-> pos, got |-> got]
  BY <1>1, FileHere
<1>3. CASE R!close \/ R!destroy
  BY <1>1, <1>3 DEF RAFileInv, R!Held, R!IsOpen, R!close, R!destroy
<1>4. CASE R!getFileOffset
  <2>1. got' = <<pos>> /\ want' = [want EXCEPT !.got = <<pos>>] /\ UNCHANGED <<handle, asked>>
    BY <1>2, <1>4 DEF R!getFileOffset
  <2>2. want' = [file |-> file', pos |-> pos', got |-> got']
    BY <1>1, <1>2, <2>1
  <2> QED BY <1>1, <2>1, <2>2 DEF RAFileInv, R!Held, R!IsOpen
<1>5. CASE R!fileLength
  <2>1. got' = <<Len(file)>> /\ want' = [want EXCEPT !.got = <<Len(file)>>] /\ UNCHANGED <<handle, asked>>
    BY <1>2, <1>5 DEF R!fileLength
  <2>2. want' = [file |-> file', pos |-> pos', got |-> got']
    BY <1>1, <1>2, <2>1
  <2> QED BY <1>1, <2>1, <2>2 DEF RAFileInv, R!Held, R!IsOpen
<1> QED BY <1>3, <1>4, <1>5

\* seek() keeps the invariant.
LEMMA RAFileSeek ==
  ASSUME RAFileInv, NEW p \in {0, 2, MaxFile}, R!seek(p)  PROVE RAFileInv'
<1>1. /\ spoilt = {} /\ pos' = p /\ want' = [want EXCEPT !.pos = p]
      /\ UNCHANGED <<unix, file, handle, asked, got>>
  BY DEF R!seek, R!Trusted
<1>2. want = [file |-> file, pos |-> pos, got |-> got] /\ p \in 0..MaxFile
  BY <1>1, FileHere
<1>3. want' = [file |-> file', pos |-> pos', got |-> got']
  BY <1>1, <1>2
<1> QED BY <1>1, <1>2, <1>3 DEF RAFileInv, R!Held, R!IsOpen

\* Every call on a file keeps the invariant.
LEMMA RAFileStep ==
  ASSUME RAFileInv, R!Next  PROVE RAFileInv'
<1>1. ASSUME NEW mode \in Modes, NEW permissions \in SUBSET {"read", "write"}, R!open(mode, permissions)
      PROVE  RAFileInv'
  BY <1>1, RAFileOpen
<1>2. CASE R!close \/ R!destroy \/ R!getFileOffset \/ R!fileLength
  BY <1>2, RAFileOthers
<1>3. CASE R!writeInt \/ R!writeFloating
  BY <1>3, RAFileWrites
<1>4. ASSUME NEW n \in 1..3, R!read(n) PROVE RAFileInv'
  BY <1>4, RAFileRead
<1>5. CASE R!readBE \/ R!readLE
  <2>1. PICK w \in R!Widths, order \in {"BE", "LE"} : R!readFully(w, order)
    BY <1>5 DEF R!readBE, R!readLE
  <2> QED BY <2>1, RAFileReadFully
<1>6. CASE R!readLine
  BY <1>6, RAFileReadLine
<1>7. ASSUME NEW p \in {0, 2, MaxFile}, R!seek(p) PROVE RAFileInv'
  BY <1>7, RAFileSeek
<1>8. ASSUME NEW n \in {0, 2, MaxFile}, R!setFileLength(n) PROVE RAFileInv'
  <2>1. n \in Nat /\ n <= MaxFile
    BY StorageAssumption
  <2> QED BY <1>8, <2>1, RAFileSetLength
<1> QED BY <1>1, <1>2, <1>3, <1>4, <1>5, <1>6, <1>7, <1>8 DEF R!Next

\* What was read is what is in the file.
LEMMA RAFileHeld ==
  ASSUME RAFileInv  PROVE R!Held
BY DEF RAFileInv

\* What else changes does not concern the file.
LEMMA RAFileStutter ==
  ASSUME RAFileInv, UNCHANGED <<unix, file, handle, asked, pos, got, want, spoilt, calls>>
  PROVE  RAFileInv'
BY DEF RAFileInv, R!Held, R!IsOpen, R!NoFile, R!Closed

-----------------------------------------------------------------------------
(* StringBuffer.                                                            *)

Octets == Chars \cup {Nul, Junk}
Strings ==
  [shortStr : [1..SmallLen -> Octets], at : {"inline", "heap", "away"}, heap : Seq(Octets),
   len : Nat, reserved : Nat]

\* What strData points at has the size "reserved" and begins with the text and
\* its terminator; a String that gave its buffer away is empty.
Stored(s, text) ==
  /\ s.len = Len(text) /\ s.len < s.reserved
  /\ s.at = "away" => s.len = 0
  /\ s.at # "away" => s.reserved = Len(B!Written(s))
  /\ \A i \in 1..s.len : B!Written(s)[i] = text[i]
  /\ s.len > 0 => B!Written(s)[s.len + 1] = Nul

\* And the readers look where the writers wrote.
Reads(s, text) == Stored(s, text) /\ (s.at = "heap" /\ s.len > 0 => s.len >= B!SmallMax)

StringInv ==
  /\ str \in Strings /\ str.len <= MaxLen
  /\ want \in Seq(Chars) /\ Len(want) <= MaxLen
  /\ spoilt \subseteq {"inlineFreed", "freedRead", "stolen", "unread", "dangling"}
  /\ spoilt = {} => Reads(str, want)

\* The buffer that is written is a sequence of its size.
LEMMA WrittenBuffer ==
  ASSUME NEW s \in Strings
  PROVE  /\ B!Written(s) \in Seq(Octets) /\ Len(B!Written(s)) \in Nat
         /\ B!Written(s) \in [1..Len(B!Written(s)) -> Octets]
         /\ \A i \in 1..Len(B!Written(s)) : B!Written(s)[i] \in Octets
<1>1. s.shortStr \in Seq(Octets) /\ s.heap \in Seq(Octets)
  <2>1. s.shortStr \in [1..SmallLen -> Octets] /\ s.heap \in Seq(Octets) /\ SmallLen \in Nat
    BY StorageAssumption DEF Strings
  <2> QED BY <2>1, FirstNumbers
<1>2. B!Written(s) \in Seq(Octets)
  BY <1>1 DEF B!Written
<1> QED BY <1>2, LenProperties, ElementOfSeq

\* A text put over a buffer leaves the rest of it.
LEMMA OverlaidBuffer ==
  ASSUME NEW m \in Nat, NEW buffer \in [1..m -> Octets], NEW offset \in Nat, NEW text \in Seq(Octets)
  PROVE  /\ B!Overlay(buffer, offset, text) \in [1..m -> Octets]
         /\ \A i \in 1..m : B!Overlay(buffer, offset, text)[i] =
              IF i > offset /\ i <= offset + Len(text) THEN text[i - offset] ELSE buffer[i]
<1>1. Len(text) \in Nat
  BY LenProperties
<1>2. ASSUME NEW i \in 1..m, i > offset, i <= offset + Len(text) PROVE text[i - offset] \in Octets
  <2>1. i - offset \in 1..Len(text)
    BY <1>1, <1>2
  <2> QED BY <2>1, ElementOfSeq
<1> QED BY <1>2 DEF B!Overlay

\* A buffer with a text and its terminator reads as the text.
LEMMA TerminatedText ==
  ASSUME NEW text \in Seq(Chars)
  PROVE  /\ B!Terminated(text) \in Seq(Octets) /\ Len(B!Terminated(text)) = Len(text) + 1
         /\ \A i \in 1..Len(text) : B!Terminated(text)[i] = text[i]
         /\ B!Terminated(text)[Len(text) + 1] = Nul
         /\ Len(text) \in Nat /\ text \in Seq(Octets)
<1>1. text \in Seq(Octets)
  BY SeqMonotonic DEF Octets
<1>2. Nul \in Octets
  BY DEF Octets
<1>3. Len(text) \in Nat
  BY LenProperties
<1> QED BY <1>1, <1>2, <1>3, AppendProperties DEF B!Terminated

\* A new buffer has nothing but junk.
LEMMA FreshBuffer ==
  ASSUME NEW n \in Nat
  PROVE  B!FreshMemory(n) \in [1..n -> Octets]
BY DEF B!FreshMemory, Octets

\* The buffer of an empty string reads as no text.
LEMMA EmptyStored ==
  /\ B!EmptyString \in Strings /\ Reads(B!EmptyString, <<>>) /\ B!EmptyString.at = "inline"
  /\ B!EmptyString.shortStr \in [1..SmallLen -> Octets] /\ B!EmptyString.reserved = SmallLen
  /\ B!EmptyString.len = 0
<1>1. B!FreshMemory(SmallLen) \in [1..SmallLen -> Octets]
  BY StorageAssumption, FreshBuffer
<1>2. <<>> \in Seq(Octets) /\ Len(<<>>) = 0
  BY EmptySeq
<1>3. /\ B!EmptyString \in Strings /\ B!EmptyString.at = "inline" /\ B!EmptyString.len = 0
      /\ B!EmptyString.shortStr = B!FreshMemory(SmallLen) /\ B!EmptyString.reserved = SmallLen
  BY <1>1, <1>2, StorageAssumption DEF B!EmptyString, Strings
<1>4. B!Written(B!EmptyString) = B!FreshMemory(SmallLen) /\ Len(B!FreshMemory(SmallLen)) = SmallLen
  BY <1>1, <1>3, StorageAssumption, FirstNumbers DEF B!Written
<1>5. Reads(B!EmptyString, <<>>)
  BY <1>2, <1>3, <1>4, StorageAssumption DEF Reads, Stored
<1> QED BY <1>1, <1>3, <1>5

\* Every constructor and assignment makes a String that reads as its text.
LEMMA HoldingReads ==
  ASSUME NEW shortStr \in [1..SmallLen -> Octets], NEW text \in Seq(Chars)
  PROVE  /\ B!Holding(shortStr, text) \in Strings /\ B!Holding(shortStr, text).len = Len(text)
         /\ Reads(B!Holding(shortStr, text), text)
<1>1. PICK n \in Nat : n = Len(text)
  BY TerminatedText
<1>2. PICK ended : ended = B!Terminated(text)
  OBVIOUS
<1>3. /\ ended \in Seq(Octets) /\ Len(ended) = n + 1
      /\ \A i \in 1..n : ended[i] = text[i]
      /\ ended[n + 1] = Nul
  BY <1>1, <1>2, TerminatedText
<1>4. PICK s : s = B!Holding(shortStr, text)
  OBVIOUS
<1>5. CASE n < B!SmallMax
  <2>1. PICK cells : cells = B!Overlay(shortStr, 0, ended)
    OBVIOUS
  <2>2. /\ cells \in [1..SmallLen -> Octets]
        /\ \A i \in 1..SmallLen : cells[i] = IF i > 0 /\ i <= 0 + (n + 1) THEN ended[i - 0] ELSE shortStr[i]
    <3>1. SmallLen \in Nat /\ shortStr \in [1..SmallLen -> Octets] /\ 0 \in Nat /\ ended \in Seq(Octets)
      BY <1>3, StorageAssumption
    <3>2. /\ B!Overlay(shortStr, 0, ended) \in [1..SmallLen -> Octets]
          /\ \A i \in 1..SmallLen : B!Overlay(shortStr, 0, ended)[i] =
               IF i > 0 /\ i <= 0 + Len(ended) THEN ended[i - 0] ELSE shortStr[i]
      BY <3>1, OverlaidBuffer
    <3> QED BY <1>3, <2>1, <3>2
  <2>3. /\ s \in Strings /\ s.shortStr = cells /\ s.at = "inline" /\ s.len = n /\ s.reserved = SmallLen
    BY <1>1, <1>2, <1>4, <1>5, <2>1, <2>2, EmptyStored DEF B!Holding, Strings
  <2>4. B!Written(s) = cells /\ Len(cells) = SmallLen
    BY <2>2, <2>3, StorageAssumption, FirstNumbers DEF B!Written
  <2>5. n + 1 \in 1..SmallLen /\ n < SmallLen
    BY <1>1, <1>5, StorageAssumption DEF B!SmallMax
  <2>6. \A i \in 1..n : cells[i] = text[i]
    <3>1. \A i \in 1..n : i \in 1..SmallLen /\ i > 0 /\ i <= 0 + (n + 1) /\ i - 0 = i
      BY <2>5, StorageAssumption
    <3> QED BY <1>3, <2>2, <3>1
  <2>7. cells[n + 1] = Nul
    <3>1. n + 1 > 0 /\ n + 1 <= 0 + (n + 1) /\ (n + 1) - 0 = n + 1
      OBVIOUS
    <3> QED BY <1>3, <2>2, <2>5, <3>1
  <2> QED BY <1>1, <1>4, <2>3, <2>4, <2>5, <2>6, <2>7 DEF Reads, Stored
<1>6. CASE ~ (n < B!SmallMax)
  <2>1. s = [shortStr |-> shortStr, at |-> "heap", heap |-> ended, len |-> n, reserved |-> n + 1]
    BY <1>1, <1>2, <1>4, <1>6 DEF B!Holding
  <2>2. s \in Strings /\ B!Written(s) = ended
    BY <1>3, <2>1 DEF Strings, B!Written
  <2>3. n >= B!SmallMax /\ n < n + 1
    BY <1>6, StorageAssumption DEF B!SmallMax
  <2> QED BY <1>1, <1>3, <1>4, <2>1, <2>2, <2>3 DEF Reads, Stored
<1> QED BY <1>5, <1>6

\* The buffer append_raw() writes.
AppendedCells(s, text) ==
  IF s.len + Len(text) < s.reserved THEN B!Overlay(B!Written(s), s.len, B!Terminated(text))
  ELSE B!Overlay(B!FreshMemory(2 * (s.len + Len(text) + 1)), 0,
                 SubSeq(B!Written(s), 1, s.len) \o B!Terminated(text))
CellsLen(s, text) ==
  IF s.len + Len(text) < s.reserved THEN Len(B!Written(s)) ELSE 2 * (s.len + Len(text) + 1)

\* It holds what was there, the text, and the terminator.
LEMMA AppendedBuffer ==
  ASSUME NEW s \in Strings, NEW text \in Seq(Chars), s.len <= Len(B!Written(s))
  PROVE  /\ CellsLen(s, text) \in Nat
         /\ AppendedCells(s, text) \in [1..CellsLen(s, text) -> Octets]
         /\ AppendedCells(s, text) \in Seq(Octets) /\ Len(AppendedCells(s, text)) = CellsLen(s, text)
         /\ \A i \in 1..CellsLen(s, text) :
              /\ i <= s.len => AppendedCells(s, text)[i] = B!Written(s)[i]
              /\ i > s.len /\ i <= s.len + Len(text) => AppendedCells(s, text)[i] = text[i - s.len]
              /\ i = s.len + Len(text) + 1 => AppendedCells(s, text)[i] = Nul
<1>1. PICK k \in Nat : k = s.len
  BY DEF Strings
<1>2. PICK t \in Nat : t = Len(text)
  BY TerminatedText
<1>0. k \in Nat /\ t \in Nat /\ k + t + 1 = k + (t + 1) /\ k + (t + 1) \in Nat
  BY <1>1, <1>2
<1>3. PICK w : w = B!Written(s)
  OBVIOUS
<1>4. PICK size \in Nat : size = Len(w)
  BY <1>3, WrittenBuffer
<1>5. w \in Seq(Octets) /\ w \in [1..size -> Octets] /\ k <= size /\ \A i \in 1..size : w[i] \in Octets
  BY <1>1, <1>3, <1>4, WrittenBuffer
<1>6. PICK ended : ended = B!Terminated(text)
  OBVIOUS
<1>7. /\ ended \in Seq(Octets) /\ Len(ended) = t + 1
      /\ \A i \in 1..t : ended[i] = text[i]
      /\ ended[t + 1] = Nul
  BY <1>2, <1>6, TerminatedText
<1>8. PICK cells : cells = AppendedCells(s, text)
  OBVIOUS
<1>9. PICK m : m = CellsLen(s, text)
  OBVIOUS
<1>10. s.reserved \in Nat
  BY DEF Strings
<1>11. CASE k + t < s.reserved
  <2>1. cells = B!Overlay(w, k, ended) /\ m = size
    BY <1>1, <1>2, <1>3, <1>4, <1>6, <1>8, <1>9, <1>11 DEF AppendedCells, CellsLen
  <2>2. /\ cells \in [1..size -> Octets]
        /\ \A i \in 1..size : cells[i] = IF i > k /\ i <= k + (t + 1) THEN ended[i - k] ELSE w[i]
    BY SMTT(30), <1>5, <1>7, <2>1, OverlaidBuffer
  <2>3. ASSUME NEW i \in 1..size
        PROVE  /\ i <= k => cells[i] = w[i]
               /\ i > k /\ i <= k + t => cells[i] = text[i - k]
               /\ i = k + t + 1 => cells[i] = Nul
    <3>1. i <= k => cells[i] = w[i]
      BY <1>1, <2>2
    <3>2. ASSUME i > k, i <= k + t PROVE cells[i] = text[i - k]
      <4>1. i - k \in 1..t /\ i <= k + (t + 1)
        BY <1>1, <1>2, <3>2
      <4> QED BY <1>7, <2>2, <3>2, <4>1
    <3>3. ASSUME i = k + t + 1 PROVE cells[i] = Nul
      <4>1. i > k /\ i <= k + (t + 1) /\ i - k = t + 1
        BY <1>0, <3>3
      <4> QED BY <1>7, <2>2, <4>1
    <3> QED BY <3>1, <3>2, <3>3
  <2>4. cells \in Seq(Octets) /\ Len(cells) = size
    BY <1>4, <2>2, FirstNumbers
  <2> QED BY <1>1, <1>2, <1>3, <1>4, <1>8, <1>9, <2>1, <2>2, <2>3, <2>4
<1>12. CASE ~ (k + t < s.reserved)
  <2>1. PICK kept : kept = SubSeq(w, 1, k)
    OBVIOUS
  <2>2. kept \in Seq(Octets) /\ Len(kept) = k /\ \A i \in 1..k : kept[i] = w[i]
    <3>1. \A i \in 1..k : w[i] \in Octets
      BY <1>1, <1>4, <1>5
    <3> QED BY <1>1, <2>1, <3>1, SubSeqProperties
  <2>3. PICK joined : joined = kept \o ended
    OBVIOUS
  <2>4. /\ joined \in Seq(Octets) /\ Len(joined) = k + (t + 1)
        /\ \A i \in 1..(k + (t + 1)) : joined[i] = IF i <= k THEN kept[i] ELSE ended[i - k]
    <3>1. /\ kept \o ended \in Seq(Octets) /\ Len(kept \o ended) = Len(kept) + Len(ended)
          /\ \A i \in 1..(Len(kept) + Len(ended)) :
               (kept \o ended)[i] = IF i <= Len(kept) THEN kept[i] ELSE ended[i - Len(kept)]
      BY ZenonT(30), <1>7, <2>2, ConcatProperties
    <3> QED BY <1>7, <2>2, <2>3, <3>1
  <2>5. PICK room \in Nat : room = 2 * (k + t + 1) /\ k + (t + 1) <= room
    BY <1>0
  <2>6. cells = B!Overlay(B!FreshMemory(room), 0, joined) /\ m = room
    BY <1>1, <1>2, <1>3, <1>6, <1>8, <1>9, <1>12, <2>1, <2>3, <2>5 DEF AppendedCells, CellsLen
  <2>7. /\ cells \in [1..room -> Octets]
        /\ \A i \in 1..room : cells[i] =
             IF i > 0 /\ i <= 0 + (k + (t + 1)) THEN joined[i - 0] ELSE B!FreshMemory(room)[i]
    <3>1. PICK blank : blank = B!FreshMemory(room)
      OBVIOUS
    <3>2. blank \in [1..room -> Octets]
      BY <2>5, <3>1, FreshBuffer
    <3>3. /\ B!Overlay(blank, 0, joined) \in [1..room -> Octets]
          /\ \A i \in 1..room : B!Overlay(blank, 0, joined)[i] =
               IF i > 0 /\ i <= 0 + Len(joined) THEN joined[i - 0] ELSE blank[i]
      BY <2>4, <2>5, <3>2, OverlaidBuffer
    <3> QED BY <2>4, <2>6, <3>1, <3>3
  <2>8. \A i \in 1..(k + (t + 1)) : cells[i] = joined[i]
    <3>1. \A i \in 1..(k + (t + 1)) : i \in 1..room /\ i > 0 /\ i <= 0 + (k + (t + 1)) /\ i - 0 = i
      BY SMTT(30), <1>1, <1>2, <2>5
    <3> QED BY <2>7, <3>1
  <2>9. ASSUME NEW i \in 1..room
        PROVE  /\ i <= k => cells[i] = w[i]
               /\ i > k /\ i <= k + t => cells[i] = text[i - k]
               /\ i = k + t + 1 => cells[i] = Nul
    <3>1. ASSUME i <= k PROVE cells[i] = w[i]
      <4>1. i \in 1..k /\ i \in 1..(k + (t + 1))
        BY <1>1, <1>2, <3>1
      <4> QED BY <2>2, <2>4, <2>8, <3>1, <4>1
    <3>2. ASSUME i > k, i <= k + t PROVE cells[i] = text[i - k]
      <4>1. i - k \in 1..t /\ i \in 1..(k + (t + 1)) /\ ~ (i <= k)
        BY <1>1, <1>2, <3>2
      <4> QED BY <1>7, <2>4, <2>8, <4>1
    <3>3. ASSUME i = k + t + 1 PROVE cells[i] = Nul
      <4>1. i \in 1..(k + (t + 1)) /\ ~ (i <= k) /\ i - k = t + 1
        BY <1>0, <3>3
      <4> QED BY <1>7, <2>4, <2>8, <4>1
    <3> QED BY <3>1, <3>2, <3>3
  <2>10. cells \in Seq(Octets) /\ Len(cells) = room
    BY <2>5, <2>7, FirstNumbers
  <2> QED BY <1>1, <1>2, <1>3, <1>8, <1>9, <2>5, <2>6, <2>7, <2>9, <2>10
<1> QED BY <1>1, <1>2, <1>11, <1>12

\* Appending to a stored text stores the longer one.
LEMMA AppendedString ==
  ASSUME NEW s \in Strings, NEW text \in Seq(Chars), s.len <= Len(B!Written(s))
  PROVE  /\ B!Appended(s, text) \in Strings
         /\ B!Appended(s, text).len = s.len + Len(text)
         /\ B!Appended(s, text).at = IF s.len + Len(text) < s.reserved THEN s.at ELSE "heap"
         /\ B!Appended(s, text).reserved = IF s.len + Len(text) < s.reserved THEN s.reserved
                                           ELSE 2 * (s.len + Len(text) + 1)
         /\ B!Written(B!Appended(s, text)) = AppendedCells(s, text)
<1>1. PICK cells : cells = AppendedCells(s, text)
  OBVIOUS
<1>2. PICK n \in Nat : n = s.len + Len(text)
  BY TerminatedText DEF Strings
<1>3. cells \in Seq(Octets) /\ cells \in [1..CellsLen(s, text) -> Octets]
  BY <1>1, AppendedBuffer
<1>4. B!Appended(s, text) =
        IF n < s.reserved /\ s.at = "inline"
        THEN [s EXCEPT !.shortStr = cells, !.len = n]
        ELSE [s EXCEPT !.heap = cells, !.len = n,
                       !.at = IF n < s.reserved THEN @ ELSE "heap",
                       !.reserved = IF n < @ THEN @ ELSE 2 * (n + 1)]
  BY <1>1, <1>2 DEF B!Appended, AppendedCells
<1>5. 2 * (n + 1) \in Nat
  BY <1>2
<1>6. CASE n < s.reserved /\ s.at = "inline"
  <2>1. CellsLen(s, text) = SmallLen
    <3>1. B!Written(s) = s.shortStr /\ s.shortStr \in [1..SmallLen -> Octets]
      BY <1>6 DEF B!Written, Strings
    <3>2. Len(B!Written(s)) = SmallLen
      BY <3>1, StorageAssumption, FirstNumbers
    <3> QED BY <1>2, <1>6, <3>2 DEF CellsLen
  <2>2. B!Appended(s, text) = [s EXCEPT !.shortStr = cells, !.len = n]
    BY <1>4, <1>6
  <2> QED BY <1>1, <1>2, <1>3, <1>6, <2>1, <2>2 DEF Strings, B!Written
<1>7. CASE ~ (n < s.reserved /\ s.at = "inline")
  <2>1. B!Appended(s, text) =
          [s EXCEPT !.heap = cells, !.len = n,
                    !.at = IF n < s.reserved THEN s.at ELSE "heap",
                    !.reserved = IF n < s.reserved THEN s.reserved ELSE 2 * (n + 1)]
    BY <1>4, <1>7
  <2> QED BY <1>1, <1>2, <1>3, <1>5, <1>7, <2>1 DEF Strings, B!Written
<1> QED BY <1>6, <1>7

\* An append to a buffer of its own stores the text behind the one before.
LEMMA AppendedStored ==
  ASSUME NEW s \in Strings, NEW before \in Seq(Chars), NEW text \in Seq(Chars),
         Stored(s, before), s.at # "away"
  PROVE  /\ B!Appended(s, text) \in Strings /\ B!Appended(s, text).at # "away"
         /\ Stored(B!Appended(s, text), before \o text)
<1>1. PICK k \in Nat : k = s.len /\ k = Len(before)
  BY DEF Strings, Stored
<1>2. PICK t \in Nat : t = Len(text)
  BY TerminatedText
<1>3. PICK size \in Nat : size = Len(B!Written(s)) /\ s.reserved = size /\ k < size /\ k <= size
  BY <1>1, WrittenBuffer DEF Stored
<1>4. PICK r : r = B!Appended(s, text)
  OBVIOUS
<1>5. PICK cells : cells = AppendedCells(s, text)
  OBVIOUS
<1>0. s.len <= Len(B!Written(s))
  BY <1>1, <1>3
<1>6. PICK m \in Nat : m = CellsLen(s, text)
  BY <1>0, AppendedBuffer
<1>7. /\ r \in Strings /\ r.len = k + t /\ B!Written(r) = cells
      /\ r.at = IF k + t < size THEN s.at ELSE "heap"
      /\ r.reserved = IF k + t < size THEN size ELSE 2 * (k + t + 1)
  <2>1. /\ r \in Strings /\ r.len = s.len + Len(text) /\ B!Written(r) = AppendedCells(s, text)
        /\ r.at = IF s.len + Len(text) < s.reserved THEN s.at ELSE "heap"
        /\ r.reserved = IF s.len + Len(text) < s.reserved THEN s.reserved ELSE 2 * (s.len + Len(text) + 1)
    BY <1>4, <1>0, AppendedString
  <2> QED BY <1>1, <1>2, <1>3, <1>5, <2>1
<1>8. /\ Len(cells) = m
      /\ \A i \in 1..m : /\ i <= k => cells[i] = B!Written(s)[i]
                         /\ i > k /\ i <= k + t => cells[i] = text[i - k]
                         /\ i = k + t + 1 => cells[i] = Nul
  <2>1. /\ Len(cells) = m
        /\ \A i \in 1..m : /\ i <= s.len => cells[i] = B!Written(s)[i]
                           /\ i > s.len /\ i <= s.len + Len(text) => cells[i] = text[i - s.len]
                           /\ i = s.len + Len(text) + 1 => cells[i] = Nul
    BY <1>5, <1>6, <1>0, AppendedBuffer
  <2> QED BY <1>1, <1>2, <2>1
<1>9. m = r.reserved /\ k + t < m
  <2>1. m = IF k + t < size THEN size ELSE 2 * (k + t + 1)
    BY <1>1, <1>2, <1>3, <1>6 DEF CellsLen
  <2>2. m = r.reserved
    BY <1>7, <2>1
  <2>3. k \in Nat /\ t \in Nat /\ size \in Nat
    BY <1>1, <1>2, <1>3
  <2>4. k + t < m
    BY <2>1, <2>3
  <2> QED BY <2>2, <2>4
<1>10. PICK both : both = before \o text
  OBVIOUS
<1>11. /\ Len(both) = k + t
       /\ \A i \in 1..(k + t) : both[i] = IF i <= k THEN before[i] ELSE text[i - k]
  <2>1. /\ Len(before \o text) = Len(before) + Len(text)
        /\ \A i \in 1..(Len(before) + Len(text)) :
             (before \o text)[i] = IF i <= Len(before) THEN before[i] ELSE text[i - Len(before)]
    BY ConcatProperties
  <2> QED BY <1>1, <1>2, <1>10, <2>1
<1>12. ASSUME NEW i \in 1..(k + t) PROVE cells[i] = both[i]
  <2>1. i \in 1..m
    BY <1>1, <1>2, <1>6, <1>9
  <2>2. CASE i <= k
    <3>1. i \in 1..k
      BY <1>1, <2>2
    <3>2. B!Written(s)[i] = before[i]
      BY <1>1, <3>1 DEF Stored
    <3> QED BY <1>8, <1>11, <2>1, <2>2, <3>2
  <2>3. CASE ~ (i <= k)
    <3>1. i > k /\ i <= k + t
      BY <1>1, <1>2, <2>3
    <3> QED BY <1>8, <1>11, <2>1, <2>3, <3>1
  <2> QED BY <2>2, <2>3
<1>13. cells[k + t + 1] = Nul
  <2>1. k + t + 1 \in 1..m
    BY <1>1, <1>2, <1>6, <1>9
  <2> QED BY <1>8, <2>1
<1>14. r.at # "away"
  BY <1>7
<1> QED BY <1>4, <1>7, <1>8, <1>9, <1>10, <1>11, <1>12, <1>13, <1>14 DEF Stored

\* reserve() keeps what is stored, unless it frees the buffer in the object.
LEMMA EnlargedStored ==
  ASSUME NEW s \in Strings, NEW text \in Seq(Chars), NEW n \in Nat, Reads(s, text)
  PROVE  /\ B!Enlarged(s, n) \in Strings /\ B!Enlarged(s, n).len = s.len
         /\ B!ReserveHarm(s, n) = {} => Reads(B!Enlarged(s, n), text)
         /\ B!Enlarged(s, n).at = IF B!Ignored(s, n) THEN s.at ELSE "heap"
<1>1. CASE B!Ignored(s, n)
  BY <1>1 DEF B!Enlarged
<1>2. CASE ~ B!Ignored(s, n)
  <2>1. PICK k \in Nat : k = s.len /\ k = Len(text)
    BY DEF Strings, Reads, Stored
  <2>2. PICK w : w = B!Written(s)
    OBVIOUS
  <2>3. PICK kept : kept = IF k > 0 THEN SubSeq(w, 1, k + 1) ELSE <<>>
    OBVIOUS
  <2>4. n > s.reserved /\ n >= B!SmallMax /\ s.reserved \in Nat /\ k < n
    BY <1>2, <2>1, StorageAssumption DEF B!Ignored, Strings, Reads, Stored, B!SmallMax
  <2>5. k > 0 => /\ kept \in Seq(Octets) /\ Len(kept) = k + 1
                 /\ \A i \in 1..(k + 1) : kept[i] = w[i]
    <3>1. SUFFICES ASSUME k > 0
                   PROVE  /\ kept \in Seq(Octets) /\ Len(kept) = k + 1
                          /\ \A i \in 1..(k + 1) : kept[i] = w[i]
      OBVIOUS
    <3>2. PICK size \in Nat : size = Len(w) /\ k < size
      BY <2>1, <2>2, <3>1, WrittenBuffer DEF Reads, Stored
    <3>3. \A i \in 1..(k + 1) : w[i] \in Octets
      <4>1. \A i \in 1..(k + 1) : i \in 1..size
        BY <2>1, <3>2
      <4> QED BY <2>2, <3>2, <4>1, WrittenBuffer
    <3>4. PICK j \in Nat : j = k + 1
      BY <2>1
    <3>5. kept = SubSeq(w, 1, j)
      BY <2>3, <3>1, <3>4
    <3>6. /\ SubSeq(w, 1, j) \in Seq(Octets) /\ Len(SubSeq(w, 1, j)) = j
          /\ \A i \in 1..j : SubSeq(w, 1, j)[i] = w[i]
      <4>1. \A i \in 1..j : w[i] \in Octets
        BY <3>3, <3>4
      <4> QED BY <3>4, <4>1, SubSeqProperties
    <3> QED BY <3>4, <3>5, <3>6
  <2>6. kept \in Seq(Octets)
    <3>1. CASE k > 0
      BY <2>5, <3>1
    <3>2. CASE ~ (k > 0)
      BY <2>3, <3>2, EmptySeq
    <3> QED BY <3>1, <3>2
  <2>7. PICK room \in Nat : room = n + 1
    OBVIOUS
  <2>8. PICK blank \in [1..room -> Octets] : blank = B!FreshMemory(room)
    BY <2>7, FreshBuffer
  <2>9. PICK cells : cells = B!Overlay(blank, 0, kept)
    OBVIOUS
  <2>10. /\ cells \in [1..room -> Octets]
         /\ \A i \in 1..room : cells[i] = IF i > 0 /\ i <= 0 + Len(kept) THEN kept[i - 0] ELSE blank[i]
    <3>1. /\ B!Overlay(blank, 0, kept) \in [1..room -> Octets]
          /\ \A i \in 1..room : B!Overlay(blank, 0, kept)[i] =
               IF i > 0 /\ i <= 0 + Len(kept) THEN kept[i - 0] ELSE blank[i]
      BY <2>6, <2>7, <2>8, OverlaidBuffer
    <3> QED BY <2>9, <3>1
  <2>11. cells \in Seq(Octets) /\ Len(cells) = room
    BY <2>7, <2>10, FirstNumbers
  <2>12. B!Enlarged(s, n) = [s EXCEPT !.at = "heap", !.reserved = n + 1, !.heap = cells]
    BY <1>2, <2>1, <2>2, <2>3, <2>7, <2>8, <2>9 DEF B!Enlarged
  <2>13. PICK r : r = B!Enlarged(s, n)
    OBVIOUS
  <2>14. /\ r \in Strings /\ r.len = k /\ r.at = "heap" /\ r.reserved = room /\ B!Written(r) = cells
    BY <2>1, <2>7, <2>11, <2>12, <2>13 DEF Strings, B!Written
  <2>15. ASSUME B!ReserveHarm(s, n) = {} PROVE Reads(r, text)
    <3>1. ASSUME k > 0 PROVE k >= B!SmallMax
      <4>1. s.at # "inline" /\ s.at # "away"
        BY <1>2, <2>1, <2>15, <3>1 DEF B!ReserveHarm, Reads, Stored
      <4>2. s.at = "heap"
        BY <4>1 DEF Strings
      <4> QED BY <2>1, <3>1, <4>2 DEF Reads
    <3>2. ASSUME NEW i \in 1..(k + 1), k > 0 PROVE cells[i] = w[i]
      <4>1. i \in 1..room /\ i > 0 /\ i <= 0 + (k + 1) /\ i - 0 = i
        BY <2>1, <2>4, <2>7, <3>2
      <4>2. cells[i] = kept[i]
        BY <2>5, <2>10, <3>2, <4>1
      <4> QED BY <2>5, <3>2, <4>2
    <3>3. \A i \in 1..k : cells[i] = text[i]
      <4>1. ASSUME NEW i \in 1..k PROVE cells[i] = text[i]
        <5>1. i \in 1..(k + 1) /\ k > 0
          BY <2>1
        <5>2. w[i] = text[i]
          BY <2>1, <2>2 DEF Reads, Stored
        <5> QED BY <3>2, <5>1, <5>2
      <4> QED BY <4>1
    <3>4. ASSUME k > 0 PROVE cells[k + 1] = Nul
      <4>1. w[k + 1] = Nul
        BY <2>1, <2>2, <3>4 DEF Reads, Stored
      <4>2. k + 1 \in 1..(k + 1)
        BY <2>1
      <4> QED BY <3>2, <3>4, <4>1, <4>2
    <3>5. k < room
      BY <2>1, <2>4, <2>7
    <3> QED BY <2>1, <2>11, <2>14, <3>1, <3>3, <3>4, <3>5 DEF Reads, Stored
  <2> QED BY <1>2, <2>1, <2>13, <2>14, <2>15
<1> QED BY <1>1, <1>2

\* The buffer in the object has the size it is made with.
LEMMA InlineSize ==
  ASSUME NEW s \in Strings, NEW text, Stored(s, text), s.at = "inline"
  PROVE  s.reserved = SmallLen /\ B!Written(s) = s.shortStr
<1>1. B!Written(s) = s.shortStr /\ s.shortStr \in [1..SmallLen -> Octets] /\ s.reserved = Len(B!Written(s))
  BY DEF B!Written, Stored, Strings
<1> QED BY <1>1, StorageAssumption, FirstNumbers

\* operator+ : the empty string reserves for both texts, and is long if it does.
LEMMA SumReads ==
  ASSUME NEW first \in Seq(Chars), NEW second \in Seq(Chars)
  PROVE  /\ B!Sum(first, second) \in Strings /\ B!Sum(first, second).len = Len(first) + Len(second)
         /\ Reads(B!Sum(first, second), first \o second)
<1>1. PICK a \in Nat : a = Len(first)
  BY TerminatedText
<1>2. PICK b \in Nat : b = Len(second)
  BY TerminatedText
<1>3. PICK n \in Nat : n = a + b
  BY <1>1, <1>2
<1>4. PICK s : s = B!Enlarged(B!EmptyString, n)
  OBVIOUS
<1>5. <<>> \in Seq(Chars) /\ Len(<<>>) = 0
  BY EmptySeq
<1>6. B!ReserveHarm(B!EmptyString, n) = {}
  BY EmptyStored DEF B!ReserveHarm
<1>7. s \in Strings /\ s.len = 0 /\ Reads(s, <<>>) /\ s.at = IF B!Ignored(B!EmptyString, n) THEN "inline" ELSE "heap"
  BY <1>3, <1>4, <1>5, <1>6, EmptyStored, EnlargedStored
<1>8. PICK t : t = B!Appended(s, first)
  OBVIOUS
<1>9. /\ t \in Strings /\ t.at # "away" /\ Stored(t, first)
  <2>1. Stored(s, <<>>) /\ s.at # "away" /\ <<>> \o first = first
    BY <1>7, ConcatEmptySeq DEF Reads
  <2>2. t \in Strings /\ t.at # "away" /\ Stored(t, <<>> \o first)
    BY <1>5, <1>7, <1>8, <2>1, AppendedStored
  <2> QED BY <2>1, <2>2
<1>10. PICK u : u = B!Appended(t, second)
  OBVIOUS
<1>11. u \in Strings /\ u.at # "away" /\ Stored(u, first \o second)
  BY <1>9, <1>10, AppendedStored
<1>12. u = B!Sum(first, second)
  BY <1>1, <1>2, <1>3, <1>4, <1>8, <1>10 DEF B!Sum
<1>13. s.len <= Len(B!Written(s)) /\ t.len <= Len(B!Written(t))
  BY <1>7, <1>9, WrittenBuffer DEF Reads, Stored, Strings
<1>14. /\ t.len = a /\ t.at = IF a < s.reserved THEN s.at ELSE "heap"
       /\ u.len = n /\ u.at = IF n < t.reserved THEN t.at ELSE "heap"
  <2>1. t.len = s.len + Len(first) /\ t.at = IF s.len + Len(first) < s.reserved THEN s.at ELSE "heap"
    BY <1>7, <1>8, <1>13, AppendedString
  <2>2. u.len = t.len + Len(second) /\ u.at = IF t.len + Len(second) < t.reserved THEN t.at ELSE "heap"
    BY <1>9, <1>10, <1>13, AppendedString
  <2>3. t.len = a
    BY <1>1, <1>7, <2>1
  <2>4. s.len + Len(first) = a /\ t.len + Len(second) = n
    BY <1>1, <1>2, <1>3, <1>7, <2>3
  <2> QED BY <2>1, <2>2, <2>3, <2>4
<1>15. ASSUME u.at = "heap" PROVE n >= B!SmallMax
  <2>1. SmallLen \in Nat /\ B!SmallMax = SmallLen - 1
    BY StorageAssumption DEF B!SmallMax
  <2>2. CASE s.at = "heap"
    <3>1. ~ B!Ignored(B!EmptyString, n)
      BY <1>7, <2>2
    <3> QED BY <1>3, <2>1, <3>1 DEF B!Ignored
  <2>3. CASE s.at = "inline" /\ ~ (a < s.reserved)
    <3>1. s.reserved = SmallLen
      BY <1>7, <2>3, InlineSize DEF Reads
    <3> QED BY <1>1, <1>2, <1>3, <2>1, <2>3, <3>1
  <2>4. CASE s.at = "inline" /\ a < s.reserved
    <3>1. t.at = "inline" /\ ~ (n < t.reserved)
      BY <1>14, <1>15, <2>4
    <3>2. t.reserved = SmallLen
      BY <1>9, <3>1, InlineSize
    <3> QED BY <1>3, <2>1, <3>1, <3>2
  <2> QED BY <1>7, <2>2, <2>3, <2>4
<1>16. Reads(u, first \o second)
  BY <1>11, <1>14, <1>15 DEF Reads
<1> QED BY <1>1, <1>2, <1>3, <1>11, <1>12, <1>14, <1>16

\* What is read is what is stored.
LEMMA ReadsText ==
  ASSUME NEW s \in Strings, NEW text \in Seq(Chars), Reads(s, text)
  PROVE  /\ B!Text(s) = text /\ s.len = Len(text)
         /\ text # <<>> => B!data(s)[s.len + 1] = Nul
<1>1. PICK k \in Nat : k = s.len /\ k = Len(text)
  BY DEF Strings, Reads, Stored
<1>2. ASSUME k > 0 PROVE B!data(s) = B!Written(s)
  <2>1. CASE s.at = "inline"
    BY <2>1 DEF B!data, B!Written
  <2>2. CASE s.at = "heap"
    <3>1. k >= B!SmallMax /\ B!SmallMax \in Int
      BY <1>1, <1>2, <2>2, StorageAssumption DEF Reads, B!SmallMax
    <3> QED BY <1>1, <3>1 DEF B!data
  <2>3. CASE s.at = "away"
    BY <1>1, <1>2, <2>3 DEF Reads, Stored
  <2> QED BY <2>1, <2>2, <2>3 DEF Strings
<1>3. \A i \in 1..k : B!data(s)[i] = text[i]
  <2>1. ASSUME NEW i \in 1..k PROVE B!data(s)[i] = text[i]
    <3>1. B!data(s) = B!Written(s)
      BY <1>1, <1>2
    <3> QED BY <1>1, <3>1 DEF Reads, Stored
  <2> QED BY <2>1
<1>4. \A i \in 1..k : text[i] \in Chars
  BY <1>1, ElementOfSeq
<1>5. /\ SubSeq(B!data(s), 1, k) \in Seq(Chars) /\ Len(SubSeq(B!data(s), 1, k)) = k
      /\ \A i \in 1..k : SubSeq(B!data(s), 1, k)[i] = B!data(s)[i]
  <2>1. \A i \in 1..k : B!data(s)[i] \in Chars
    BY <1>3, <1>4
  <2> QED BY <1>1, <2>1, SubSeqProperties
<1>6. SubSeq(B!data(s), 1, k) = text
  BY <1>1, <1>3, <1>5, SeqEqual
<1>7. text # <<>> => k > 0
  BY <1>1, EmptySeq
<1>8. text # <<>> => B!data(s)[k + 1] = Nul
  BY <1>1, <1>2, <1>7 DEF Reads, Stored
<1> QED BY <1>1, <1>6, <1>8 DEF B!Text

\* The string reads as its text.
LEMMA StringHeld ==
  ASSUME StringInv  PROVE B!Held
<1>1. SUFFICES ASSUME spoilt = {}
               PROVE  /\ B!Text(str) = want
                      /\ want # <<>> => B!data(str)[str.len + 1] = Nul
                      /\ str.at # "away" => str.reserved = Len(B!Written(str))
                      /\ str.len > 0 /\ str.at = "heap" => str.len >= B!SmallMax
  BY DEF B!Held
<1>2. str \in Strings /\ want \in Seq(Chars) /\ Reads(str, want)
  BY <1>1 DEF StringInv
<1>3. /\ B!Text(str) = want
      /\ want # <<>> => B!data(str)[str.len + 1] = Nul
  BY <1>2, ReadsText
<1>4. str.at # "away" => str.reserved = Len(B!Written(str))
  BY <1>2 DEF Reads, Stored
<1>5. str.len > 0 /\ str.at = "heap" => str.len >= B!SmallMax
  BY <1>2 DEF Reads
<1> QED BY <1>3, <1>4, <1>5

\* The type is part of the invariant.
LEMMA StringTyped ==
  ASSUME StringInv  PROVE B!TypeOK
<1>1. str.len \in 0..MaxLen
  BY StorageAssumption DEF StringInv, Strings
<1> QED BY <1>1 DEF StringInv, Strings, B!TypeOK, Octets

\* A new string has the invariant.
LEMMA StringInit ==
  ASSUME B!Init  PROVE StringInv
<1>1. <<>> \in Seq(Chars) /\ Len(<<>>) = 0
  BY EmptySeq
<1>2. CASE str = B!EmptyString /\ want = <<>>
  BY <1>1, <1>2, EmptyStored, StorageAssumption DEF B!Init, StringInv
<1>3. ASSUME NEW text \in Pieces, str = B!Made(text), want = text PROVE StringInv
  <2>1. text \in Seq(Chars) /\ Len(text) <= MaxLen
    BY StorageAssumption
  <2>2. str \in Strings /\ str.len = Len(text) /\ Reads(str, text)
    BY <1>3, <2>1, EmptyStored, HoldingReads DEF B!Made
  <2> QED BY <1>3, <2>1, <2>2 DEF B!Init, StringInv
<1> QED BY <1>2, <1>3 DEF B!Init

\* What a step has to leave.
LEMMA StringBecomes ==
  ASSUME str' \in Strings, want' \in Seq(Chars), str'.len = Len(want'), Len(want') <= MaxLen,
         spoilt' \subseteq {"inlineFreed", "freedRead", "stolen", "unread", "dangling"},
         spoilt' = {} => Reads(str', want')
  PROVE  StringInv'
BY DEF StringInv

\* A step that holds a text from now on, as every assignment does.
LEMMA StringHolds ==
  ASSUME NEW shortStr \in [1..SmallLen -> Octets], NEW text \in Seq(Chars), Len(text) <= MaxLen,
         str' = B!Holding(shortStr, text), want' = text,
         spoilt' \subseteq {"inlineFreed", "freedRead", "stolen", "unread", "dangling"}
  PROVE  StringInv'
<1>1. /\ B!Holding(shortStr, text) \in Strings /\ B!Holding(shortStr, text).len = Len(text)
      /\ Reads(B!Holding(shortStr, text), text)
  BY HoldingReads
<1> QED BY <1>1, StringBecomes

\* What is known where a step begins.
LEMMA StringHere ==
  ASSUME StringInv, spoilt = {}
  PROVE  /\ str \in Strings /\ want \in Seq(Chars) /\ Reads(str, want) /\ Stored(str, want)
         /\ str.len = Len(want) /\ Len(want) <= MaxLen /\ Len(want) \in Nat /\ MaxLen \in Nat
         /\ B!Text(str) = want
         /\ str.shortStr \in [1..SmallLen -> Octets]
<1>1. str \in Strings /\ want \in Seq(Chars) /\ Reads(str, want) /\ Len(want) <= MaxLen
  BY DEF StringInv
<1>2. str.len = Len(want) /\ B!Text(str) = want
  BY <1>1, ReadsText
<1> QED BY <1>1, <1>2, LenProperties, StorageAssumption DEF Reads, Strings

\* Assignment keeps the invariant.
LEMMA StringAssign ==
  ASSUME StringInv, spoilt = {}, NEW text \in Pieces, B!assign(text)  PROVE StringInv'
<1>1. text \in Seq(Chars) /\ Len(text) <= MaxLen
  BY StorageAssumption
<1>2. str' = B!Holding(str.shortStr, text) /\ want' = text
  BY DEF B!assign
<1>3. spoilt' \subseteq {"inlineFreed", "freedRead", "stolen", "unread", "dangling"}
  BY DEF B!assign, B!ReleaseHarm
<1> QED BY <1>1, <1>2, <1>3, StringHere, StringHolds

\* Assignment of a part keeps the invariant.
LEMMA StringAssignPart ==
  ASSUME StringInv, spoilt = {}, NEW i \in 1..str.len, NEW asRef \in BOOLEAN, B!assignPart(i, asRef)
  PROVE  StringInv'
<1>1. PICK n \in Nat : n = Len(want) /\ n = str.len /\ n <= MaxLen
  BY StringHere
<1>2. PICK text : text = SubSeq(want, i, n)
  OBVIOUS
<1>3. text \in Seq(Chars) /\ Len(text) = n - i + 1
  <2>1. want \in Seq(Chars)
    BY StringHere
  <2>2. \A j \in i..n : want[j] \in Chars
    <3>1. \A j \in i..n : j \in 1..Len(want)
      BY <1>1
    <3> QED BY <2>1, <3>1, ElementOfSeq
  <2>3. i \in Int /\ n \in Int /\ i <= n
    BY <1>1
  <2> QED BY <1>2, <2>2, <2>3, SubSeqProperties
<1>4. str' = B!Holding(str.shortStr, text) /\ want' = text
  BY <1>1, <1>2, StringHere DEF B!assignPart
<1>5. spoilt' \subseteq {"inlineFreed", "freedRead", "stolen", "unread", "dangling"}
  BY DEF B!assignPart, B!ReleaseHarm
<1>6. Len(text) <= MaxLen
  BY <1>1, <1>3, StorageAssumption
<1> QED BY <1>3, <1>4, <1>5, <1>6, StringHere, StringHolds

\* append() keeps the invariant.
LEMMA StringAppend ==
  ASSUME StringInv, spoilt = {}, NEW text \in Pieces, Len(want \o text) <= MaxLen, B!append(text)
  PROVE  StringInv'
<1>1. text \in Seq(Chars) /\ Len(text) \in Nat
  BY StorageAssumption, LenProperties
<1>2. str' = B!Appended(str, text) /\ want' = want \o text /\ B!AppendHarm(str, text) \subseteq spoilt'
  BY DEF B!append
<1>3. want' \in Seq(Chars) /\ Len(want') = Len(want) + Len(text) /\ Len(want') <= MaxLen
  <2>1. want \in Seq(Chars)
    BY StringHere
  <2> QED BY <1>1, <1>2, <2>1, ConcatProperties
<1>4. spoilt' \subseteq {"inlineFreed", "freedRead", "stolen", "unread", "dangling"}
  BY DEF B!append, B!AppendHarm
<1>5. str.len <= Len(B!Written(str)) /\ str \in Strings
  <2>1. CASE str.at = "away"
    BY <2>1, StringHere, WrittenBuffer DEF Stored
  <2>2. CASE str.at # "away"
    BY <2>2, StringHere, WrittenBuffer DEF Stored, Strings
  <2> QED BY <2>1, <2>2, StringHere
<1>6. /\ B!Appended(str, text) \in Strings /\ B!Appended(str, text).len = str.len + Len(text)
      /\ B!Appended(str, text).at = IF str.len + Len(text) < str.reserved THEN str.at ELSE "heap"
  BY <1>1, <1>5, AppendedString
<1>7. str' \in Strings /\ str'.len = Len(want')
  BY <1>2, <1>3, <1>6, StringHere
<1>8. ASSUME spoilt' = {} PROVE Reads(str', want')
  <2>1. B!AppendHarm(str, text) = {}
    BY <1>2, <1>8
  <2>2. str.at # "away"
    BY <2>1 DEF B!AppendHarm
  <2>3. Stored(str', want')
    <3>1. want \in Seq(Chars) /\ Stored(str, want)
      BY StringHere
    <3> QED BY <1>1, <1>2, <1>5, <2>2, <3>1, AppendedStored
  <2>4. ASSUME str'.at = "heap", str'.len > 0 PROVE str'.len >= B!SmallMax
    <3>1. PICK n \in Nat : n = str.len + Len(text) /\ n = str'.len
      BY <1>1, <1>2, <1>6, StringHere
    <3>2. B!SmallMax = SmallLen - 1 /\ SmallLen \in Nat
      BY StorageAssumption DEF B!SmallMax
    <3>3. CASE str.at = "heap"
      <4>1. ~ (n \in 1..(B!SmallMax - 1))
        BY <2>1, <3>1, <3>3 DEF B!AppendHarm
      <4> QED BY <2>4, <3>1, <3>2, <4>1
    <3>4. CASE str.at = "inline"
      <4>1. str.reserved = SmallLen
        BY <3>4, StringHere, InlineSize
      <4>2. ~ (n < str.reserved)
        BY <1>2, <1>6, <2>4, <3>1, <3>4
      <4> QED BY <3>1, <3>2, <4>1, <4>2
    <3> QED BY <1>5, <2>2, <3>3, <3>4 DEF Strings
  <2> QED BY <2>3, <2>4 DEF Reads
<1> QED BY <1>3, <1>4, <1>7, <1>8, StringBecomes

\* Concatenation keeps the invariant.
LEMMA StringPlus ==
  ASSUME StringInv, spoilt = {}, NEW text \in Pieces, Len(want \o text) <= MaxLen, B!plus(text)
  PROVE  StringInv'
<1>1. text \in Seq(Chars)
  BY StorageAssumption
<1>2. str' = B!Sum(want, text) /\ want' = want \o text /\ spoilt' = spoilt
  BY StringHere DEF B!plus
<1>3. want \in Seq(Chars) /\ want' \in Seq(Chars) /\ Len(want') = Len(want) + Len(text) /\ Len(want') <= MaxLen
  <2>1. want \in Seq(Chars)
    BY StringHere
  <2> QED BY <1>1, <1>2, <2>1, ConcatProperties
<1>4. str' \in Strings /\ str'.len = Len(want') /\ Reads(str', want')
  BY <1>1, <1>2, <1>3, SumReads
<1>5. spoilt' \subseteq {"inlineFreed", "freedRead", "stolen", "unread", "dangling"}
  BY <1>2
<1> QED BY <1>3, <1>4, <1>5, StringBecomes

\* reserve() keeps the invariant.
LEMMA StringReserve ==
  ASSUME StringInv, spoilt = {}, NEW n \in Nat, B!reserve(n)  PROVE StringInv'
<1>1. str' = B!Enlarged(str, n) /\ want' = want /\ spoilt' = B!ReserveHarm(str, n)
  BY DEF B!reserve
<1>2. str \in Strings /\ want \in Seq(Chars) /\ Reads(str, want) /\ str.len = Len(want) /\ Len(want) <= MaxLen
  BY StringHere
<1>3. str' \in Strings /\ str'.len = Len(want') /\ (spoilt' = {} => Reads(str', want'))
  BY <1>1, <1>2, EnlargedStored
<1>4. spoilt' \subseteq {"inlineFreed", "freedRead", "stolen", "unread", "dangling"}
  BY <1>1 DEF B!ReserveHarm
<1>5. want' \in Seq(Chars) /\ Len(want') <= MaxLen
  BY <1>1, <1>2
<1> QED BY <1>3, <1>4, <1>5, StringBecomes

\* A string copied or moved has the invariant.
LEMMA StringMove ==
  ASSUME StringInv, spoilt = {}, B!copy \/ B!move  PROVE StringInv'
<1>1. B!EmptyString.shortStr \in [1..SmallLen -> Octets]
  BY EmptyStored
<1>2. CASE B!copy
  <2>1. str' = B!Holding(B!EmptyString.shortStr, want) /\ want' = want /\ spoilt' = {}
    BY <1>2, StringHere DEF B!copy
  <2> QED BY <1>1, <2>1, StringHere, StringHolds
<1>3. CASE B!move /\ str.len < B!SmallMax
  <2>1. str' = B!Holding(B!EmptyString.shortStr, want) /\ want' = want /\ spoilt' = {}
    <3>1. ~ (str.len >= B!SmallMax)
      BY <1>3, StringHere, StorageAssumption DEF B!SmallMax
    <3> QED BY <1>3, <3>1, StringHere DEF B!move, B!Made
  <2> QED BY <1>1, <2>1, StringHere, StringHolds
<1>4. CASE B!move /\ ~ (str.len < B!SmallMax)
  <2>1. /\ str' = [str EXCEPT !.shortStr = B!EmptyString.shortStr] /\ want' = want
        /\ str.len >= B!SmallMax /\ str.len > 0
        /\ spoilt' = IF str.at = "inline" THEN {"dangling"} ELSE {}
    <3>1. str.len >= B!SmallMax /\ str.len > 0
      BY <1>4, StringHere, StorageAssumption DEF B!SmallMax
    <3> QED BY <1>4, <3>1 DEF B!move
  <2>2. str' \in Strings /\ str'.len = Len(want')
    BY <1>1, <2>1, StringHere DEF Strings
  <2>3. ASSUME spoilt' = {} PROVE Reads(str', want')
    <3>1. str.at = "heap"
      <4>1. str.at # "inline"
        BY <2>1, <2>3
      <4>2. str.at # "away"
        <5>1. str.at = "away" => str.len = 0
          BY StringHere DEF Stored
        <5> QED BY <2>1, <5>1
      <4>3. str.at \in {"inline", "heap", "away"}
        BY StringHere DEF Strings
      <4> QED BY <4>1, <4>2, <4>3
    <3>2. str'.at = str.at /\ str'.len = str.len /\ str'.reserved = str.reserved /\ B!Written(str') = B!Written(str)
      BY <2>1, <3>1, StringHere DEF Strings, B!Written
    <3> QED BY <2>1, <3>2, StringHere DEF Reads, Stored
  <2>4. /\ want' \in Seq(Chars) /\ Len(want') <= MaxLen
        /\ spoilt' \subseteq {"inlineFreed", "freedRead", "stolen", "unread", "dangling"}
    BY <2>1, StringHere
  <2> QED BY <2>2, <2>3, <2>4, StringBecomes
<1> QED BY <1>2, <1>3, <1>4

\* A string that was moved from keeps the invariant.
LEMMA StringMovedFrom ==
  ASSUME StringInv, spoilt = {}, B!movedFrom  PROVE StringInv'
<1>1. /\ str' = [str EXCEPT !.len = 0, !.at = IF str.at = "heap" THEN "away" ELSE str.at]
      /\ want' = <<>> /\ spoilt' = {}
  BY DEF B!movedFrom
<1>2. want' \in Seq(Chars) /\ Len(want') = 0 /\ Len(want') <= MaxLen
  BY <1>1, EmptySeq, StorageAssumption
<1>3. str' \in Strings /\ str'.len = 0 /\ str'.reserved = str.reserved /\ str'.at # "heap"
  BY <1>1, StringHere DEF Strings
<1>4. str'.at = "inline" => B!Written(str') = B!Written(str) /\ str.at = "inline"
  BY <1>1, StringHere DEF Strings, B!Written
<1>5. 0 < str'.reserved
  BY <1>3, StringHere DEF Strings, Stored
<1>6. str'.at # "away" => str'.reserved = Len(B!Written(str'))
  BY <1>3, <1>4, StringHere DEF Stored, Strings
<1>7. Reads(str', want')
  BY <1>2, <1>3, <1>5, <1>6 DEF Reads, Stored
<1>8. spoilt' \subseteq {"inlineFreed", "freedRead", "stolen", "unread", "dangling"} /\ str'.len = Len(want')
  BY <1>1, <1>2, <1>3
<1> QED BY <1>2, <1>3, <1>7, <1>8, StringBecomes

\* Every step of a string keeps the invariant.
LEMMA StringStep ==
  ASSUME StringInv, B!Next  PROVE StringInv'
<1>1. spoilt = {}
  BY DEF B!Next
<1>2. ASSUME NEW text \in Pieces, B!assign(text) PROVE StringInv'
  BY <1>1, <1>2, StringAssign
<1>3. ASSUME NEW i \in 1..str.len, NEW asRef \in BOOLEAN, B!assignPart(i, asRef) PROVE StringInv'
  BY <1>1, <1>3, StringAssignPart
<1>4. ASSUME NEW text \in Pieces, Len(want \o text) <= MaxLen, B!append(text) PROVE StringInv'
  BY <1>1, <1>4, StringAppend
<1>5. ASSUME NEW text \in Pieces, Len(want \o text) <= MaxLen, B!plus(text) PROVE StringInv'
  BY <1>1, <1>5, StringPlus
<1>6. ASSUME NEW n \in 0..MaxLen, B!reserve(n) PROVE StringInv'
  <2>1. n \in Nat
    BY StorageAssumption
  <2> QED BY <1>1, <1>6, <2>1, StringReserve
<1>7. CASE B!copy \/ B!move
  BY <1>1, <1>7, StringMove
<1>8. CASE B!movedFrom
  BY <1>1, <1>8, StringMovedFrom
<1> QED BY <1>2, <1>3, <1>4, <1>5, <1>6, <1>7, <1>8 DEF B!Next

\* What else changes does not concern the string.
LEMMA StringStutter ==
  ASSUME StringInv, UNCHANGED <<str, want, spoilt>>
  PROVE  StringInv'
BY DEF StringInv, Reads, Stored, B!Written, Strings, B!SmallMax

-----------------------------------------------------------------------------
(* Streams.                                                                 *)

\* The file is NoFile or bytes within the bound, the output stream is inside
\* it, and while nothing went wrong it is what the callers want.
StreamsInv ==
  /\ F!TypeOK
  /\ file # F!NoFile => file \in Seq(Bytes) /\ Len(file) <= MaxStream
  /\ out # F!Closed => out <= Len(F!Existing)
  /\ spoilt = {} => want = [file |-> file, got |-> got]

\* Sequences with the same elements are the same.
LEMMA SameSeq ==
  ASSUME NEW T0, NEW a \in Seq(T0), NEW b \in Seq(T0), Len(a) = Len(b),
         \A i \in 1..Len(a) : a[i] = b[i]
  PROVE  a = b
<1>1. a = [i \in 1..Len(a) |-> a[i]] /\ b = [i \in 1..Len(b) |-> b[i]]
  BY SeqDef, LenProperties
<1> QED BY <1>1

\* Part of a sequence, from one place to another inside of it.
LEMMA CutSeq ==
  ASSUME NEW T0, NEW s \in Seq(T0), NEW a \in Nat, NEW e \in Nat, e <= Len(s)
  PROVE  /\ SubSeq(s, a + 1, e) \in Seq(T0)
         /\ Len(SubSeq(s, a + 1, e)) = IF a < e THEN e - a ELSE 0
         /\ \A i \in 1..(e - a) : SubSeq(s, a + 1, e)[i] = s[a + i]
<1>1. Len(s) \in Nat /\ \A i \in 1..Len(s) : s[i] \in T0
  BY LenProperties, ElementOfSeq
<1>2. a + 1 \in Int /\ e \in Int /\ \A i \in (a + 1)..e : s[i] \in T0
  BY <1>1
<1>3. /\ SubSeq(s, a + 1, e) \in Seq(T0)
      /\ Len(SubSeq(s, a + 1, e)) = IF a + 1 <= e THEN e - (a + 1) + 1 ELSE 0
      /\ \A i \in 1..(e - (a + 1) + 1) : SubSeq(s, a + 1, e)[i] = s[(a + 1) + i - 1]
  BY <1>2, SubSeqProperties
<1>4. PICK c : c = SubSeq(s, a + 1, e)
  OBVIOUS
<1>5. /\ c \in Seq(T0)
      /\ Len(c) = IF a + 1 <= e THEN e - (a + 1) + 1 ELSE 0
      /\ \A i \in 1..(e - (a + 1) + 1) : c[i] = s[(a + 1) + i - 1]
  BY <1>3, <1>4
<1>6. e - (a + 1) + 1 = e - a /\ (a + 1 <= e <=> a < e) /\ \A i \in 1..(e - a) : (a + 1) + i - 1 = a + i
  OBVIOUS
<1>7. \A i \in 1..(e - a) : c[i] = s[a + i]
  BY <1>5, <1>6
<1> QED BY <1>4, <1>5, <1>6, <1>7

\* No file is no bytes.
LEMMA NoBytes ==
  /\ \A s \in Seq(Bytes) : s # F!NoFile
  /\ F!Closed = -1 /\ <<>> \in Seq(Bytes) /\ Len(<<>>) = 0
<1>1. ASSUME NEW s \in Seq(Bytes), s = F!NoFile PROVE FALSE
  <2>1. PICK none : none = <<-1>>
    OBVIOUS
  <2>2. Len(none) = 1 /\ none[1] = -1
    BY <2>1
  <2>3. s[1] \in Bytes
    BY <1>1, <2>1, <2>2, ElementOfSeq DEF F!NoFile
  <2> QED BY <1>1, <2>1, <2>2, <2>3, StorageAssumption DEF F!NoFile
<1> QED BY <1>1, EmptySeq DEF F!Closed

\* What a program reads and writes.
LEMMA StreamHere ==
  ASSUME StreamsInv
  PROVE  /\ F!Existing \in Seq(Bytes) /\ Len(F!Existing) \in Nat /\ Len(F!Existing) <= MaxStream
         /\ in \in -1..MaxStream /\ out \in -1..MaxStream /\ MaxStream \in Nat
         /\ out <= Len(F!Existing)
         /\ unix \in BOOLEAN /\ append \in BOOLEAN
         /\ in # -1 \/ out # -1 => file # F!NoFile
         /\ file # F!NoFile => F!Existing = file
<1>1. /\ in \in -1..MaxStream /\ out \in -1..MaxStream /\ MaxStream \in Nat
      /\ unix \in BOOLEAN /\ append \in BOOLEAN
      /\ in # -1 \/ out # -1 => file # F!NoFile
  BY StorageAssumption, NoBytes DEF StreamsInv, F!TypeOK
<1>2. F!Existing \in Seq(Bytes) /\ Len(F!Existing) <= MaxStream
  BY <1>1, NoBytes DEF StreamsInv, F!Existing
<1>3. Len(F!Existing) \in Nat
  BY <1>2, LenProperties
<1>4. out <= Len(F!Existing)
  BY <1>1, <1>3, NoBytes DEF StreamsInv
<1> QED BY <1>1, <1>2, <1>3, <1>4 DEF F!Existing

\* The step ends with the bytes b in the file.
LEMMA StreamBecomes ==
  ASSUME NEW b \in Seq(Bytes), file' = b, Len(b) <= MaxStream,
         in' \in -1..MaxStream, out' \in -1..MaxStream, out' <= Len(b),
         unix' \in BOOLEAN, append' \in BOOLEAN,
         spoilt' = {} => want' = [file |-> b, got |-> got']
  PROVE  StreamsInv'
<1>1. b # F!NoFile
  BY NoBytes
<1>2. F!Range(b) \subseteq Bytes \cup {0}
  <2>1. \A i \in DOMAIN b : b[i] \in Bytes
    BY LenProperties, ElementOfSeq
  <2> QED BY <2>1 DEF F!Range
<1>3. F!TypeOK'
  BY <1>1, <1>2 DEF F!TypeOK
<1> QED BY <1>1, <1>3 DEF StreamsInv, F!Existing

\* The step leaves the file as it is.
LEMMA StreamStays ==
  ASSUME StreamsInv, file' = file, in' \in -1..MaxStream,
         in' = -1 \/ file # F!NoFile,
         out' = out \/ out' = -1,
         unix' = unix, append' = append,
         spoilt' = {} => want' = [file |-> file, got |-> got']
  PROVE  StreamsInv'
<1>1. out' \in -1..MaxStream /\ out' <= Len(F!Existing)
  BY StreamHere
<1>2. F!Existing' = F!Existing
  BY DEF F!Existing
<1>3. F!TypeOK'
  BY <1>1, NoBytes DEF StreamsInv, F!TypeOK
<1> QED BY <1>1, <1>2, <1>3 DEF StreamsInv

\* Streams that are not open have the invariant.
LEMMA StreamInit ==
  ASSUME F!Init  PROVE StreamsInv
<1>1. PICK n \in 0..MaxStream : file \in [1..n -> Bytes] \cup {F!NoFile}
  BY DEF F!Init
<1>2. file # F!NoFile => file \in Seq(Bytes) /\ Len(file) <= MaxStream
  <2>1. n \in Nat /\ n <= MaxStream
    BY <1>1, StorageAssumption
  <2> QED BY <1>1, <2>1, FirstNumbers
<1>3. F!TypeOK
  <2>1. file = F!NoFile \/ F!Range(file) \subseteq Bytes \cup {0}
    BY <1>2, LenProperties, ElementOfSeq DEF F!Range
  <2>2. in = -1 /\ out = -1 /\ append \in BOOLEAN /\ unix \in BOOLEAN
    BY NoBytes DEF F!Init
  <2>3. -1 \in -1..MaxStream
    BY StorageAssumption
  <2> QED BY <2>1, <2>2, <2>3, NoBytes DEF F!TypeOK
<1> QED BY <1>2, <1>3 DEF F!Init, StreamsInv

\* What was read and written is what was meant.
LEMMA StreamHeld == ASSUME StreamsInv PROVE F!Held
BY DEF StreamsInv, F!Held

\* The type is part of the invariant.
LEMMA StreamTyped == ASSUME StreamsInv PROVE F!TypeOK
BY DEF StreamsInv

\* What else changes does not concern the streams.
LEMMA StreamStutter ==
  ASSUME StreamsInv, UNCHANGED <<unix, file, in, out, append, got, want, spoilt>>
  PROVE  StreamsInv'
BY DEF StreamsInv, F!TypeOK, F!Existing

\* What the callers want while a call can be trusted.
LEMMA StreamWant ==
  ASSUME StreamsInv, F!Trusted  PROVE spoilt = {} /\ want = [file |-> file, got |-> got]
BY DEF StreamsInv, F!Trusted

\* A call that returns what was meant leaves the rest of the wish alone.
LEMMA StreamReturns ==
  ASSUME want = [file |-> file, got |-> got], NEW v, F!Returns(v, v)
  PROVE  want' = [file |-> file, got |-> got']
BY DEF F!Returns

\* Opening the input keeps the invariant.
LEMMA StreamOpenIn ==
  ASSUME StreamsInv, F!openIn  PROVE StreamsInv'
<1>1. want = [file |-> file, got |-> got]
  BY StreamWant DEF F!openIn
<1>2. unix' = unix /\ out' = out /\ append' = append
  BY DEF F!openIn
<1>3. CASE in # F!Closed \/ (~ unix /\ file = F!NoFile)
  <2>1. F!Returns(F!Throws, F!Throws) /\ file' = file /\ in' = in /\ spoilt' = spoilt
    BY <1>3 DEF F!openIn
  <2>2. want' = [file |-> file, got |-> got']
    BY <1>1, <2>1, StreamReturns
  <2> QED BY <1>2, <2>1, <2>2, StreamHere, StreamStays
<1>4. CASE ~ (in # F!Closed \/ (~ unix /\ file = F!NoFile))
  <2>1. /\ F!Returns(<<>>, <<>>) /\ in' = 0 /\ file' = F!Existing
        /\ spoilt' = IF unix /\ file = F!NoFile THEN {"created"} ELSE {}
    BY <1>4 DEF F!openIn
  <2>2. want' = [file |-> file, got |-> got']
    BY <1>1, <2>1, StreamReturns
  <2>3. spoilt' = {} => want' = [file |-> F!Existing, got |-> got']
    BY <1>4, <2>1, <2>2, StreamHere
  <2> QED BY <1>2, <2>1, <2>3, StreamHere, StreamBecomes
<1> QED BY <1>3, <1>4

\* Closing the input keeps the invariant.
LEMMA StreamCloseIn ==
  ASSUME StreamsInv, F!closeIn  PROVE StreamsInv'
<1>1. want = [file |-> file, got |-> got]
  BY StreamWant DEF F!closeIn
<1>2. unix' = unix /\ out' = out /\ append' = append /\ file' = file /\ in' = -1
  BY NoBytes DEF F!closeIn
<1>3. want' = [file |-> file, got |-> got']
  BY <1>1, StreamReturns DEF F!closeIn
<1> QED BY <1>2, <1>3, StreamHere, StreamStays

\* Closing the output keeps the invariant.
LEMMA StreamCloseOut ==
  ASSUME StreamsInv, F!closeOut  PROVE StreamsInv'
<1>1. want = [file |-> file, got |-> got]
  BY StreamWant DEF F!closeOut
<1>2. unix' = unix /\ in' = in /\ append' = append /\ file' = file /\ out' = -1
  BY NoBytes DEF F!closeOut
<1>3. want' = [file |-> file, got |-> got']
  BY <1>1, StreamReturns DEF F!closeOut
<1> QED BY <1>2, <1>3, StreamHere, StreamStays

\* Moving an input stream keeps the invariant.
LEMMA StreamMoveIn ==
  ASSUME StreamsInv, NEW overOpen, F!moveIn(overOpen)  PROVE StreamsInv'
<1>1. want = [file |-> file, got |-> got]
  BY StreamWant DEF F!moveIn
<1>2. unix' = unix /\ in' = in /\ append' = append /\ file' = file /\ out' = out
  BY DEF F!moveIn
<1>3. want' = [file |-> file, got |-> got']
  BY <1>1, StreamReturns DEF F!moveIn
<1> QED BY <1>2, <1>3, StreamHere, StreamStays

\* The bytes of one read are those at the position, no more than are left.
LEMMA StreamReads ==
  ASSUME StreamsInv, in # F!Closed, NEW n \in Nat, NEW bytes \in F!internalRead(in, n)
  PROVE  /\ bytes \in Seq(Bytes) /\ Len(bytes) \in Nat /\ Len(bytes) <= n
         /\ in + Len(bytes) \in -1..MaxStream
         /\ bytes = SubSeq(F!Existing, in + 1, in + Len(bytes))
<1>1. PICK s \in Seq(Bytes) : s = F!Existing
  BY StreamHere
<1>2. PICK l \in Nat : l = Len(s) /\ l <= MaxStream
  BY <1>1, StreamHere
<1>3. in \in Nat /\ in <= MaxStream /\ MaxStream \in Nat
  BY StreamHere, NoBytes
<1>4. PICK e \in Nat : e = IF in + n > l THEN l ELSE in + n
  <2>1. in + n \in Nat
    BY <1>3
  <2> QED BY <1>2, <2>1
<1>5. PICK left : left = SubSeq(s, in + 1, e)
  OBVIOUS
<1>6. e <= l /\ e <= in + n
  BY <1>2, <1>3, <1>4
<1>7. PICK m \in Nat : m = IF in < e THEN e - in ELSE 0
  <2>1. in < e => e - in \in Nat
    BY <1>3
  <2> QED BY <2>1
<1>8. left \in Seq(Bytes) /\ Len(left) = m /\ \A i \in 1..(e - in) : left[i] = s[in + i]
  BY <1>1, <1>2, <1>3, <1>4, <1>5, <1>6, <1>7, CutSeq
<1>9. F!internalRead(in, n) =
        IF left = <<>> THEN {<<>>}
        ELSE IF unix THEN {SubSeq(left, 1, k) : k \in 1..Len(left)} ELSE {left}
  BY <1>1, <1>2, <1>4, <1>5 DEF F!internalRead
<1>10. CASE bytes = <<>>
  <2>1. Len(bytes) = 0 /\ bytes \in Seq(Bytes)
    BY <1>10, NoBytes
  <2>2. SubSeq(s, in + 1, in) = <<>>
    BY <1>3
  <2> QED BY <1>1, <1>3, <1>10, <2>1, <2>2
<1>11. CASE bytes # <<>>
  <2>1. left # <<>> /\ m > 0
    BY <1>8, <1>9, <1>11, EmptySeq
  <2>2. PICK k \in 1..m : bytes = SubSeq(left, 1, k)
    <3>1. CASE unix
      BY <1>8, <1>9, <2>1, <3>1
    <3>2. CASE ~ unix
      <4>1. bytes = left /\ m \in 1..m
        BY <1>9, <2>1, <3>2
      <4>2. bytes \in Seq(Bytes) /\ Len(bytes) = m /\ m \in Nat
        BY <1>8, <4>1
      <4>3. 0 + 1 = 1 /\ m - 0 = m
        OBVIOUS
      <4>4. /\ SubSeq(bytes, 1, m) \in Seq(Bytes) /\ Len(SubSeq(bytes, 1, m)) = m
            /\ \A i \in 1..m : SubSeq(bytes, 1, m)[i] = bytes[0 + i]
        BY <2>1, <4>2, <4>3, CutSeq
      <4>5. SubSeq(bytes, 1, m) = bytes
        <5>1. PICK c : c = SubSeq(bytes, 1, m)
          OBVIOUS
        <5>2. c \in Seq(Bytes) /\ Len(c) = m /\ \A i \in 1..m : c[i] = bytes[i]
          BY <4>4, <5>1
        <5>3. c = bytes
          BY <4>2, <5>2, SameSeq
        <5> QED BY <5>1, <5>3
      <4> QED BY <4>1, <4>5
    <3> QED BY <3>1, <3>2
  <2>3. k \in Nat /\ k <= m /\ 0 < k
    BY <2>2
  <2>4. bytes \in Seq(Bytes) /\ Len(bytes) = k /\ \A i \in 1..k : bytes[i] = left[i]
    <3>1. k <= Len(left) /\ 0 \in Nat /\ 0 + 1 = 1 /\ k - 0 = k
      BY <1>8, <2>3
    <3>2. /\ SubSeq(left, 1, k) \in Seq(Bytes) /\ Len(SubSeq(left, 1, k)) = k
          /\ \A i \in 1..k : SubSeq(left, 1, k)[i] = left[0 + i]
      BY <1>8, <2>3, <3>1, CutSeq
    <3> QED BY <2>2, <3>2
  <2>5. in + k \in Nat /\ in + k <= l /\ (in + k) - in = k /\ in < in + k /\ k <= n
        /\ k <= e - in
    BY <1>2, <1>3, <1>4, <1>6, <1>7, <2>3
  <2>6. PICK c : c = SubSeq(s, in + 1, in + k)
    OBVIOUS
  <2>7. c \in Seq(Bytes) /\ Len(c) = k /\ \A i \in 1..k : c[i] = s[in + i]
    BY <1>1, <1>2, <1>3, <2>5, <2>6, CutSeq
  <2>8. \A i \in 1..k : left[i] = s[in + i]
    <3>1. e - in \in Int
      BY <1>3
    <3>2. \A i \in 1..k : i \in 1..(e - in)
      BY <2>5, <3>1
    <3> QED BY <1>8, <3>2
  <2>9. bytes = c
    BY <2>4, <2>7, <2>8, SameSeq
  <2>10. in + k \in -1..MaxStream
    BY <1>2, <1>3, <2>5
  <2> QED BY <1>1, <2>3, <2>4, <2>5, <2>6, <2>9, <2>10
<1> QED BY <1>10, <1>11

\* readByte() keeps the invariant.
LEMMA StreamReadByte ==
  ASSUME StreamsInv, F!readByte  PROVE StreamsInv'
<1>1. spoilt = {} /\ want = [file |-> file, got |-> got]
  BY StreamWant DEF F!readByte
<1>2. unix' = unix /\ out' = out /\ append' = append /\ file' = file
  BY DEF F!readByte
<1>3. CASE in = F!Closed
  <2>1. F!Returns(F!Throws, F!Throws) /\ in' = in /\ spoilt' = spoilt
    BY <1>3 DEF F!readByte
  <2>2. want' = [file |-> file, got |-> got']
    BY <1>1, <2>1, StreamReturns
  <2> QED BY <1>2, <2>1, <2>2, StreamHere, StreamStays
<1>4. CASE in # F!Closed
  <2>1. PICK bytes \in F!internalRead(in, 1) :
          /\ in' = in + Len(bytes)
          /\ IF bytes = <<>> THEN F!Returns(<<F!End>>, <<F!End>>)
             ELSE F!Returns(<<F!Signed(bytes[1])>>, <<bytes[1]>>)
          /\ spoilt' = IF bytes # <<>> /\ bytes[1] > 127 THEN {"sign"} ELSE {}
    BY <1>4 DEF F!readByte
  <2>2. in' \in -1..MaxStream /\ bytes \in Seq(Bytes)
    <3>1. 1 \in Nat
      OBVIOUS
    <3> QED BY <1>4, <2>1, <3>1, StreamReads
  <2>3. spoilt' = {} => want' = [file |-> file, got |-> got']
    <3>1. CASE bytes = <<>>
      BY <1>1, <2>1, <3>1, StreamReturns
    <3>2. ASSUME bytes # <<>>, spoilt' = {} PROVE want' = [file |-> file, got |-> got']
      <4>1. bytes[1] \in Int /\ ~ (bytes[1] > 127)
        <5>1. Len(bytes) \in Nat /\ Len(bytes) # 0
          BY <2>2, <3>2, EmptySeq, LenProperties
        <5>2. bytes[1] \in Bytes
          BY <2>2, <5>1, ElementOfSeq
        <5>3. bytes[1] \in Int
          <6>1. \A b \in Bytes : b \in Int
            BY StorageAssumption
          <6> QED BY <5>2, <6>1
        <5>4. bytes[1] > 127 => spoilt' = {"sign"}
          BY <2>1, <3>2
        <5> QED BY <3>2, <5>3, <5>4
      <4>2. F!Signed(bytes[1]) = bytes[1]
        BY <4>1 DEF F!Signed
      <4> QED BY <1>1, <2>1, <3>2, <4>2, StreamReturns
    <3> QED BY <3>1, <3>2
  <2>4. file # F!NoFile
    BY <1>4, StreamHere, NoBytes
  <2> QED BY <1>2, <2>2, <2>3, <2>4, StreamStays
<1> QED BY <1>3, <1>4

\* read() of a block keeps the invariant.
LEMMA StreamReadBlock ==
  ASSUME StreamsInv, NEW n \in Nat, F!readBlock(n)  PROVE StreamsInv'
<1>1. spoilt = {} /\ want = [file |-> file, got |-> got]
  BY StreamWant DEF F!readBlock
<1>2. unix' = unix /\ out' = out /\ append' = append /\ file' = file
  BY DEF F!readBlock
<1>3. CASE in = F!Closed
  <2>1. F!Returns(F!Throws, F!Throws) /\ in' = in
    BY <1>3 DEF F!readBlock
  <2>2. want' = [file |-> file, got |-> got']
    BY <1>1, <2>1, StreamReturns
  <2> QED BY <1>2, <2>1, <2>2, StreamHere, StreamStays
<1>4. CASE in # F!Closed
  <2>1. PICK bytes \in F!internalRead(in, n) :
          /\ in' = in + Len(bytes)
          /\ F!Returns(bytes, SubSeq(want.file, in + 1, in + Len(bytes)))
    BY <1>4 DEF F!readBlock
  <2>2. in' \in -1..MaxStream /\ bytes = SubSeq(F!Existing, in + 1, in + Len(bytes))
    BY <1>4, <2>1, StreamReads
  <2>3. file # F!NoFile /\ F!Existing = file
    BY <1>4, StreamHere, NoBytes
  <2>4. F!Returns(bytes, bytes)
    BY <1>1, <2>1, <2>2, <2>3
  <2>5. want' = [file |-> file, got |-> got']
    BY <1>1, <2>4, StreamReturns
  <2> QED BY <1>2, <2>2, <2>3, <2>5, StreamStays
<1> QED BY <1>3, <1>4

\* What is left of the file.
LEMMA StreamAhead ==
  ASSUME StreamsInv, in # F!Closed
  PROVE  /\ F!Ahead \in Seq(Bytes) /\ Len(F!Ahead) \in Nat
         /\ \A j \in 0..Len(F!Ahead) : in + j \in -1..MaxStream
         /\ file # F!NoFile /\ F!Existing = file
<1>1. PICK s \in Seq(Bytes) : s = F!Existing
  BY StreamHere
<1>2. PICK l \in Nat : l = Len(s) /\ l <= MaxStream
  BY <1>1, StreamHere
<1>3. in \in Nat /\ in <= MaxStream /\ MaxStream \in Nat
  BY StreamHere, NoBytes
<1>4. SubSeq(s, in + 1, l) \in Seq(Bytes) /\ Len(SubSeq(s, in + 1, l)) = IF in < l THEN l - in ELSE 0
  <2>1. l <= Len(s)
    BY <1>2
  <2> QED BY <1>1, <1>2, <1>3, <2>1, CutSeq
<1>5. PICK m : m = Len(SubSeq(s, in + 1, l))
  OBVIOUS
<1>6. m \in Nat /\ \A j \in 0..m : in + j \in -1..MaxStream
  BY <1>2, <1>3, <1>4, <1>5
<1>7. F!Ahead = SubSeq(s, in + 1, l)
  BY <1>1, <1>2 DEF F!Ahead
<1>8. file # F!NoFile /\ F!Existing = file
  BY <1>3, StreamHere
<1> QED BY <1>4, <1>5, <1>6, <1>7, <1>8

\* Reading to the end keeps the invariant.
LEMMA StreamReadAll ==
  ASSUME StreamsInv, F!readAll  PROVE StreamsInv'
<1>1. spoilt = {} /\ want = [file |-> file, got |-> got]
  BY StreamWant DEF F!readAll
<1>2. /\ unix' = unix /\ out' = out /\ append' = append /\ file' = file
      /\ in' = in + Len(F!Ahead) /\ in # F!Closed
      /\ F!Returns(F!Ahead, SubSeq(want.file, in + 1, Len(want.file)))
  BY DEF F!readAll
<1>3. in' \in -1..MaxStream /\ file # F!NoFile /\ F!Existing = file
  <2>1. Len(F!Ahead) \in 0..Len(F!Ahead)
    BY <1>2, StreamAhead
  <2> QED BY <1>2, <2>1, StreamAhead
<1>4. F!Returns(F!Ahead, F!Ahead)
  BY <1>1, <1>2, <1>3 DEF F!Ahead
<1>5. want' = [file |-> file, got |-> got']
  BY <1>1, <1>4, StreamReturns
<1> QED BY <1>2, <1>3, <1>5, StreamStays

\* Opening the output keeps the invariant.
LEMMA StreamOpenOut ==
  ASSUME StreamsInv, NEW appending \in BOOLEAN, F!openOut(appending)  PROVE StreamsInv'
<1>1. spoilt = {} /\ want = [file |-> file, got |-> got]
  BY StreamWant DEF F!openOut
<1>2. unix' = unix /\ in' = in
  BY DEF F!openOut
<1>3. CASE out # F!Closed
  <2>1. F!Returns(F!Throws, F!Throws) /\ UNCHANGED <<file, out, append, spoilt>>
    BY <1>3 DEF F!openOut
  <2>2. want' = [file |-> file, got |-> got']
    BY <1>1, <2>1, StreamReturns
  <2> QED BY <1>2, <2>1, <2>2, StreamHere, StreamStays
<1>4. CASE out = F!Closed
  <2>1. /\ out' = 0 /\ append' = appending /\ got' = <<>>
        /\ file' = IF appending \/ ~ unix THEN F!Existing ELSE <<>>
        /\ want' = [file |-> IF appending THEN F!Existing ELSE <<>>, got |-> <<>>]
        /\ spoilt' = (IF ~ appending /\ ~ unix /\ F!Existing # <<>> THEN {"kept"} ELSE {})
                     \cup (IF appending /\ ~ unix THEN {"overlapped"} ELSE {})
    BY <1>4 DEF F!openOut
  <2>2. PICK b : b = file'
    OBVIOUS
  <2>3. b \in Seq(Bytes) /\ Len(b) <= MaxStream /\ 0 <= Len(b)
    BY <2>1, <2>2, StreamHere, NoBytes
  <2>4. spoilt' = {} => want' = [file |-> b, got |-> got']
    <3>1. CASE appending
      BY <2>1, <2>2, <3>1
    <3>2. CASE ~ appending
      BY <2>1, <2>2, <3>2
    <3> QED BY <3>1, <3>2
  <2>5. 0 \in -1..MaxStream /\ in' \in -1..MaxStream /\ unix' \in BOOLEAN
    BY <1>2, StreamHere
  <2> QED BY <2>1, <2>2, <2>3, <2>4, <2>5, StreamBecomes
<1> QED BY <1>3, <1>4

\* The bytes after a write in the midst of them.
LEMMA StreamOverwritten ==
  ASSUME NEW s \in Seq(Bytes), NEW at \in Nat, at <= Len(s), NEW data \in Seq(Bytes),
         NEW bound \in Nat, Len(s) <= bound, at + Len(data) <= bound
  PROVE  /\ F!Overwritten(s, at, data) \in Seq(Bytes)
         /\ Len(F!Overwritten(s, at, data)) <= bound
         /\ at + Len(data) <= Len(F!Overwritten(s, at, data))
<1>1. PICK l \in Nat, m \in Nat : l = Len(s) /\ m = Len(data)
  BY LenProperties
<1>2. PICK a : a = SubSeq(s, 1, at)
  OBVIOUS
<1>3. a \in Seq(Bytes) /\ Len(a) = at
  <2>1. 0 \in Nat /\ 0 + 1 = 1 /\ (IF 0 < at THEN at - 0 ELSE 0) = at
    OBVIOUS
  <2>2. SubSeq(s, 0 + 1, at) \in Seq(Bytes) /\ Len(SubSeq(s, 0 + 1, at)) = IF 0 < at THEN at - 0 ELSE 0
    BY <2>1, CutSeq
  <2> QED BY <1>2, <2>1, <2>2
<1>4. PICK c : c = SubSeq(s, at + m + 1, l)
  OBVIOUS
<1>5. c \in Seq(Bytes) /\ Len(c) = IF at + m < l THEN l - (at + m) ELSE 0
  <2>1. at + m \in Nat /\ l <= Len(s)
    BY <1>1
  <2> QED BY <1>1, <1>4, <2>1, CutSeq
<1>6. a \o data \in Seq(Bytes) /\ Len(a \o data) = at + m
  BY <1>1, <1>3, ConcatProperties
<1>7. PICK d \in Seq(Bytes) : d = a \o data
  BY <1>6
<1>8. d \o c \in Seq(Bytes) /\ Len(d \o c) = Len(d) + Len(c)
  BY <1>5, ConcatProperties
<1>9. F!Overwritten(s, at, data) = d \o c
  BY <1>1, <1>2, <1>4, <1>7 DEF F!Overwritten
<1>10. PICK k : k = Len(d \o c)
  OBVIOUS
<1>11. k <= bound /\ at + m <= k
  <2>1. k = at + m + Len(c) /\ l <= bound /\ at + m <= bound
    BY <1>1, <1>6, <1>7, <1>8, <1>10
  <2>2. CASE at + m < l
    BY <1>1, <1>5, <2>1, <2>2
  <2>3. CASE ~ (at + m < l)
    BY <1>1, <1>5, <2>1, <2>3
  <2> QED BY <2>2, <2>3
<1> QED BY <1>1, <1>8, <1>9, <1>10, <1>11

\* write() keeps the invariant.
LEMMA StreamWrite ==
  ASSUME StreamsInv, NEW data \in Seq(Bytes), data # <<>>, F!write(data)  PROVE StreamsInv'
<1>1. spoilt = {} /\ want = [file |-> file, got |-> got]
  BY StreamWant DEF F!write
<1>2. PICK at : at = IF append THEN Len(F!Existing) ELSE out
  OBVIOUS
<1>3. unix' = unix /\ in' = in /\ append' = append /\ spoilt' = spoilt /\ at + Len(data) <= MaxStream
  BY <1>2 DEF F!write
<1>4. CASE out = F!Closed
  <2>1. F!Returns(F!Throws, F!Throws) /\ UNCHANGED <<file, out>>
    BY <1>4 DEF F!write
  <2>2. want' = [file |-> file, got |-> got']
    BY <1>1, <2>1, StreamReturns
  <2> QED BY <1>3, <2>1, <2>2, StreamHere, StreamStays
<1>5. CASE out # F!Closed
  <2>1. PICK n \in (IF unix THEN 1..Len(data) ELSE {Len(data)}) :
          /\ file' = F!Overwritten(F!Existing, at, SubSeq(data, 1, n))
          /\ out' = at + n
          /\ got' = <<n>>
          /\ want' = [file |-> F!Overwritten(want.file, at, SubSeq(data, 1, n)), got |-> <<n>>]
    BY <1>2, <1>5 DEF F!write
  <2>2. PICK m \in Nat : m = Len(data) /\ m > 0
    BY LenProperties, EmptySeq
  <2>3. n \in Nat /\ n <= m /\ 0 < n
    BY <2>1, <2>2
  <2>4. PICK taken : taken = SubSeq(data, 1, n)
    OBVIOUS
  <2>5. taken \in Seq(Bytes) /\ Len(taken) = n
    <3>1. 0 \in Nat /\ 0 + 1 = 1 /\ n - 0 = n /\ n <= Len(data)
      BY <2>2, <2>3
    <3>2. SubSeq(data, 0 + 1, n) \in Seq(Bytes) /\ Len(SubSeq(data, 0 + 1, n)) = IF 0 < n THEN n - 0 ELSE 0
      BY <2>3, <3>1, CutSeq
    <3> QED BY <2>3, <2>4, <3>1, <3>2
  <2>6. PICK s \in Seq(Bytes) : s = F!Existing
    BY StreamHere
  <2>7. at \in Nat /\ at <= Len(s) /\ Len(s) <= MaxStream /\ MaxStream \in Nat
    BY <1>2, <1>5, <2>6, StreamHere, NoBytes
  <2>8. at + n <= MaxStream
    BY <1>3, <2>2, <2>3, <2>7
  <2>9. PICK b : b = F!Overwritten(s, at, taken)
    OBVIOUS
  <2>10. b \in Seq(Bytes) /\ Len(b) <= MaxStream /\ at + n <= Len(b)
    BY <2>5, <2>7, <2>8, <2>9, StreamOverwritten
  <2>11. F!Existing = file
    BY <1>5, StreamHere, NoBytes
  <2>12. file' = b /\ want' = [file |-> b, got |-> got']
    BY <1>1, <2>1, <2>4, <2>6, <2>9, <2>11
  <2>13. out' \in -1..MaxStream /\ out' <= Len(b)
    BY <2>1, <2>3, <2>7, <2>8, <2>10
  <2> QED BY <1>3, <2>10, <2>12, <2>13, StreamHere, StreamBecomes
<1> QED BY <1>4, <1>5

\* A line with the characters c in front.
Longer(c, r) == [r EXCEPT !.text = c \o @]

\* What the line at place i of the bytes b is, read from the later places of f.
LineStep(b, f, i) ==
  IF i > Len(b) THEN [text |-> <<>>, next |-> Len(b) + 1]
  ELSE IF b[i] = F!LF THEN [text |-> <<>>, next |-> i + 1]
  ELSE IF b[i] # F!CR THEN Longer(<<b[i]>>, f[i + 1])
  ELSE LET behind == IF i = Len(b) THEN F!CR ELSE b[i + 1]
       IN IF behind = F!LF THEN [text |-> <<>>, next |-> i + 2]
          ELSE Longer(<<F!CR, behind>>, f[i + 2])

Lines(b, f) == f = [i \in 1..(Len(b) + 2) |-> LineStep(b, f, i)]

\* Such lines there are: place by place from the end.
LEMMA LinesExist ==
  ASSUME NEW b \in Seq(Bytes)
  PROVE  \E f : Lines(b, f)
<1>1. PICK l \in Nat : l = Len(b)
  BY LenProperties
<1> DEFINE N == l + 2
           From(j, g) == g = [i \in (N - j)..N |-> LineStep(b, g, i)]
           Bad == {j \in 0..(l + 1) : ~ \E g : From(j, g)}
<1>2. Bad = {}
  <2>1. SUFFICES ASSUME Bad # {} PROVE FALSE
    OBVIOUS
  <2>2. Bad \subseteq Nat
    OBVIOUS
  <2>3. PICK x \in Bad : \A y \in Bad : ~ (<<y, x>> \in OpToRel(<, Nat))
    <3> HIDE DEF Bad
    <3> QED BY <2>1, <2>2, WFMin, NatLessThanWellFounded, Zenon
  <2>4. \A y \in Bad : ~ (y < x)
    <3> HIDE DEF Bad
    <3> QED BY <2>2, <2>3, Zenon DEF OpToRel
  <2>5. x \in 0..(l + 1) /\ ~ \E g : From(x, g)
    <3> HIDE DEF From
    <3> QED BY <2>3
  <2>6. x # 0
    <3>1. SUFFICES ASSUME x = 0 PROVE FALSE
      OBVIOUS
    <3>2. PICK g : g = [i \in N..N |-> [text |-> <<>>, next |-> l + 1]]
      OBVIOUS
    <3>3. \A i \in N..N : LineStep(b, g, i) = [text |-> <<>>, next |-> l + 1]
      BY <1>1 DEF LineStep
    <3>4. N - 0 = N
      OBVIOUS
    <3>5. From(0, g)
      BY <3>2, <3>3, <3>4
    <3> HIDE DEF From
    <3> QED BY <2>5, <3>1, <3>5
  <2>7. x - 1 \in 0..(l + 1) /\ x - 1 < x
    BY <2>5, <2>6
  <2>8. PICK g : From(x - 1, g)
    <3> HIDE DEF From
    <3> QED BY <2>4, <2>7
  <2>9. PICK m \in Nat : m = N - x /\ N - (x - 1) = m + 1 /\ m \in 1..(l + 1)
    <3>1. N - x \in Nat /\ N - (x - 1) = (N - x) + 1 /\ N - x \in 1..(l + 1)
      BY <2>5, <2>6
    <3> QED BY <3>1
  <2>10. g = [i \in (m + 1)..N |-> LineStep(b, g, i)]
    BY <2>8, <2>9
  <2>11. PICK h : h = [i \in m..N |-> IF i = m THEN LineStep(b, g, m) ELSE g[i]]
    OBVIOUS
  <2>12. /\ \A i \in m..N : h[i] = IF i = m THEN LineStep(b, g, m) ELSE g[i]
         /\ \A i \in (m + 1)..N : i \in m..N /\ h[i] = g[i] /\ g[i] = LineStep(b, g, i)
    <3>1. \A i \in (m + 1)..N : i \in m..N /\ i # m
      BY <2>9
    <3> QED BY <2>10, <2>11, <3>1
  <2>13. ASSUME NEW i \in m..N PROVE LineStep(b, h, i) = LineStep(b, g, i)
    <3>1. CASE i > l
      BY <1>1, <3>1 DEF LineStep
    <3>2. CASE ~ (i > l)
      <4>1. i + 1 \in (m + 1)..N /\ i + 2 \in (m + 1)..N
        BY <2>9, <3>2
      <4>2. h[i + 1] = g[i + 1] /\ h[i + 2] = g[i + 2]
        BY <2>12, <4>1
      <4> QED BY <4>2 DEF LineStep
    <3> QED BY <3>1, <3>2
  <2>14. \A i \in m..N : h[i] = LineStep(b, h, i)
    <3>1. ASSUME NEW i \in m..N PROVE h[i] = LineStep(b, h, i)
      <4>1. CASE i = m
        BY <2>12, <2>13, <4>1
      <4>2. CASE i # m
        <5>1. i \in (m + 1)..N
          BY <2>9, <4>2
        <5> QED BY <2>12, <2>13, <5>1
      <4> QED BY <4>1, <4>2
    <3> QED BY <3>1
  <2>15. h = [i \in m..N |-> h[i]]
    BY <2>11
  <2>16. From(x, h)
    <3>1. h = [i \in m..N |-> LineStep(b, h, i)]
      BY <2>14, <2>15
    <3> QED BY <2>9, <3>1
  <2> HIDE DEF From
  <2> QED BY <2>5, <2>16
<1>3. l + 1 \in 0..(l + 1) /\ N - (l + 1) = 1
  OBVIOUS
<1>4. PICK g : From(l + 1, g)
  <2> HIDE DEF From
  <2> QED BY <1>2, <1>3
<1> QED BY <1>1, <1>3, <1>4 DEF Lines

\* LineFrom() takes one of them.
LEMMA LineIsOne ==
  ASSUME NEW b \in Seq(Bytes)
  PROVE  \E f : Lines(b, f) /\ F!LineFrom(b) = f[1]
<1> DEFINE f0 == CHOOSE f : f = [i \in 1..(Len(b) + 2) |->
        IF i > Len(b) THEN [text |-> <<>>, next |-> Len(b) + 1]
        ELSE IF b[i] = F!LF THEN [text |-> <<>>, next |-> i + 1]
        ELSE IF b[i] # F!CR THEN [f[i + 1] EXCEPT !.text = <<b[i]>> \o @]
        ELSE LET behind == IF i = Len(b) THEN F!CR ELSE b[i + 1]
             IN IF behind = F!LF THEN [text |-> <<>>, next |-> i + 2]
                ELSE [f[i + 2] EXCEPT !.text = <<F!CR, behind>> \o @]]
<1>1. f0 = CHOOSE f : Lines(b, f)
  BY DEF Lines, LineStep, Longer
<1>2. F!LineFrom(b) = f0[1]
  BY DEF F!LineFrom
<1> HIDE DEF f0
<1>3. Lines(b, f0)
  BY <1>1, LinesExist
<1> QED BY <1>2, <1>3

\* The characters in front of a part of a sequence join it.
LEMMA JoinOne ==
  ASSUME NEW T0, NEW s \in Seq(T0), NEW i \in Nat, i > 0, NEW e \in Nat, i <= e, e <= Len(s)
  PROVE  <<s[i]>> \o SubSeq(s, i + 1, e) = SubSeq(s, i, e)
<1>1. s[i] \in T0
  <2>1. i \in 1..Len(s)
    BY LenProperties
  <2> QED BY <2>1, ElementOfSeq
<1>2. PICK a \in Seq(T0) : a = <<s[i]>>
  <2>1. <<s[i]>> \in Seq(T0)
    BY <1>1
  <2> QED BY <2>1
<1>3. Len(a) = 1 /\ a[1] = s[i]
  BY <1>2
<1>4. PICK c \in Seq(T0) : /\ c = SubSeq(s, i + 1, e)
                           /\ Len(c) = e - i /\ \A k \in 1..(e - i) : c[k] = s[i + k]
  <2>1. (IF i < e THEN e - i ELSE 0) = e - i
    OBVIOUS
  <2>2. /\ SubSeq(s, i + 1, e) \in Seq(T0)
        /\ Len(SubSeq(s, i + 1, e)) = IF i < e THEN e - i ELSE 0
        /\ \A k \in 1..(e - i) : SubSeq(s, i + 1, e)[k] = s[i + k]
    BY CutSeq
  <2> QED BY <2>1, <2>2
<1>5. PICK h \in Nat : h + 1 = i
  <2>1. i - 1 \in Nat /\ (i - 1) + 1 = i
    OBVIOUS
  <2> QED BY <2>1
<1>6. PICK d \in Seq(T0) : /\ d = SubSeq(s, i, e)
                           /\ Len(d) = (e - i) + 1 /\ \A k \in 1..((e - i) + 1) : d[k] = s[h + k]
  <2>1. (IF h < e THEN e - h ELSE 0) = (e - i) + 1 /\ e - h = (e - i) + 1
    BY <1>5
  <2>2. /\ SubSeq(s, h + 1, e) \in Seq(T0)
        /\ Len(SubSeq(s, h + 1, e)) = IF h < e THEN e - h ELSE 0
        /\ \A k \in 1..(e - h) : SubSeq(s, h + 1, e)[k] = s[h + k]
    BY CutSeq
  <2> QED BY <1>5, <2>1, <2>2
<1>7. /\ a \o c \in Seq(T0) /\ Len(a \o c) = 1 + (e - i)
      /\ \A k \in 1..(1 + (e - i)) : (a \o c)[k] = IF k <= 1 THEN a[k] ELSE c[k - 1]
  <2>1. /\ a \o c \in Seq(T0) /\ Len(a \o c) = Len(a) + Len(c)
        /\ \A k \in 1..(Len(a) + Len(c)) : (a \o c)[k] = IF k <= Len(a) THEN a[k] ELSE c[k - Len(a)]
    BY ConcatProperties
  <2> QED BY <1>3, <1>4, <2>1
<1>8. PICK g \in Seq(T0) : g = a \o c
  BY <1>7
<1>9. e - i \in Nat /\ 1 + (e - i) = (e - i) + 1
  OBVIOUS
<1>10. ASSUME NEW k \in 1..((e - i) + 1) PROVE g[k] = d[k]
  <2>1. CASE k = 1
    BY <1>3, <1>5, <1>6, <1>7, <1>8, <1>9, <2>1
  <2>2. CASE k # 1
    <3>1. k - 1 \in 1..(e - i) /\ ~ (k <= 1) /\ k \in 1..(1 + (e - i)) /\ i + (k - 1) = h + k
      BY <1>5, <1>9, <2>2
    <3> QED BY <1>4, <1>6, <1>7, <1>8, <3>1
  <2> QED BY <2>1, <2>2
<1>11. g = d
  BY <1>6, <1>7, <1>8, <1>9, <1>10, SameSeq
<1> QED BY <1>2, <1>4, <1>6, <1>8, <1>11

\* Two pieces joined.
LEMMA JoinTwo ==
  ASSUME NEW T0, NEW s \in Seq(T0), NEW i \in Nat, i > 0, NEW e \in Nat, i + 1 <= e, e <= Len(s)
  PROVE  <<s[i], s[i + 1]>> \o SubSeq(s, i + 2, e) = SubSeq(s, i, e)
<1>1. i \in 1..Len(s) /\ i + 1 \in 1..Len(s)
  BY LenProperties
<1>2. s[i] \in T0 /\ s[i + 1] \in T0
  BY <1>1, ElementOfSeq
<1>3. PICK a \in Seq(T0), b \in Seq(T0) : a = <<s[i]>> /\ b = <<s[i + 1]>>
  <2>1. <<s[i]>> \in Seq(T0) /\ <<s[i + 1]>> \in Seq(T0)
    BY <1>2
  <2> QED BY <2>1
<1>4. a \o b = <<s[i], s[i + 1]>>
  <2>1. Len(a) = 1 /\ Len(b) = 1 /\ a[1] = s[i] /\ b[1] = s[i + 1]
    BY <1>3
  <2>2. /\ a \o b \in Seq(T0) /\ Len(a \o b) = Len(a) + Len(b)
        /\ \A k \in 1..(Len(a) + Len(b)) : (a \o b)[k] = IF k <= Len(a) THEN a[k] ELSE b[k - Len(a)]
    BY ConcatProperties
  <2>3. PICK g \in Seq(T0) : g = a \o b
    BY <2>2
  <2>4. Len(g) = 2 /\ g[1] = s[i] /\ g[2] = s[i + 1]
    BY <2>1, <2>2, <2>3
  <2>5. PICK h \in Seq(T0) : h = <<s[i], s[i + 1]>>
    <3>1. <<s[i], s[i + 1]>> \in Seq(T0)
      BY <1>2
    <3> QED BY <3>1
  <2>6. Len(h) = 2 /\ h[1] = s[i] /\ h[2] = s[i + 1]
    BY <2>5
  <2>7. \A k \in 1..2 : g[k] = h[k]
    BY <2>4, <2>6
  <2>8. g = h
    BY <2>4, <2>6, <2>7, SameSeq
  <2> QED BY <2>3, <2>5, <2>8
<1>5. PICK c \in Seq(T0) : c = SubSeq(s, i + 2, e)
  <2>1. i + 1 \in Nat /\ (i + 1) + 1 = i + 2
    OBVIOUS
  <2> QED BY <2>1, CutSeq
<1>6. b \o c = SubSeq(s, i + 1, e)
  <2>1. i + 1 \in Nat /\ i + 1 > 0 /\ (i + 1) + 1 = i + 2
    OBVIOUS
  <2>2. <<s[i + 1]>> \o SubSeq(s, (i + 1) + 1, e) = SubSeq(s, i + 1, e)
    BY <2>1, JoinOne
  <2> QED BY <1>3, <1>5, <2>1, <2>2
<1>7. a \o (b \o c) = SubSeq(s, i, e)
  <2>1. i <= e
    OBVIOUS
  <2> QED BY <1>3, <1>6, <2>1, JoinOne
<1>8. (a \o b) \o c = a \o (b \o c)
  BY SMTT(30), ConcatAssociative
<1> QED BY <1>4, <1>5, <1>7, <1>8

\* The line from i on, as one reads it, and the place behind it: up to a line
\* feed and a carriage return before it, or all there is.
Fed(b, i, t, m, e) ==
  /\ e \in i..Len(b) /\ b[e] = F!LF /\ \A k \in i..(e - 1) : b[k] # F!LF
  /\ m = e + 1
  /\ t = SubSeq(b, i, IF e > i /\ b[e - 1] = F!CR THEN e - 2 ELSE e - 1)
Unfed(b, i, t, m) ==
  /\ \A k \in i..Len(b) : b[k] # F!LF
  /\ m = Len(b) + 1
  /\ i > Len(b) \/ b[Len(b)] # F!CR => t = SubSeq(b, i, Len(b))
LineAt(b, i, t, m) ==
  /\ m \in 1..(Len(b) + 1)
  /\ ~ F!Paired(b) => Unfed(b, i, t, m) \/ \E e : Fed(b, i, t, m, e)
LineKnown(b, i, r) == \E t, m : r = [text |-> t, next |-> m] /\ LineAt(b, i, t, m)

\* A piece of no length.
LEMMA EmptyCut ==
  ASSUME NEW T0, NEW s \in Seq(T0), NEW i \in Nat, NEW e \in Int, e < i
  PROVE  SubSeq(s, i, e) = <<>>
OBVIOUS

\* At the end of the bytes.
LEMMA LineEnd ==
  ASSUME NEW b \in Seq(Bytes), NEW i \in Nat, i > Len(b)
  PROVE  LineAt(b, i, <<>>, Len(b) + 1)
<1>1. PICK l \in Nat : l = Len(b)
  BY LenProperties
<1>2. SubSeq(b, i, l) = <<>>
  BY <1>1, EmptyCut
<1>3. \A k \in i..l : b[k] # F!LF
  BY <1>1
<1>4. l + 1 \in 1..(l + 1)
  OBVIOUS
<1> QED BY <1>1, <1>2, <1>3, <1>4 DEF LineAt, Unfed

\* At a line feed.
LEMMA LineFeed ==
  ASSUME NEW b \in Seq(Bytes), NEW i \in 1..Len(b), b[i] = F!LF
  PROVE  LineAt(b, i, <<>>, i + 1)
<1>1. PICK l \in Nat : l = Len(b)
  BY LenProperties
<1>2. i \in Nat /\ i - 1 \in Int /\ i - 1 < i /\ ~ (i > i) /\ i \in i..l /\ i + 1 \in 1..(l + 1)
  BY <1>1
<1>3. SubSeq(b, i, i - 1) = <<>>
  BY <1>2, EmptyCut
<1>4. \A k \in i..(i - 1) : b[k] # F!LF
  BY <1>2
<1>5. Fed(b, i, <<>>, i + 1, i)
  BY <1>1, <1>2, <1>3, <1>4 DEF Fed
<1> QED BY <1>1, <1>2, <1>5 DEF LineAt

\* At a character of a line.
LEMMA LinePlain ==
  ASSUME NEW b \in Seq(Bytes), NEW i \in 1..Len(b), b[i] # F!LF, b[i] # F!CR,
         NEW t, NEW m, LineAt(b, i + 1, t, m)
  PROVE  LineAt(b, i, <<b[i]>> \o t, m)
<1>1. PICK l \in Nat : l = Len(b)
  BY LenProperties
<1>2. i \in Nat /\ i > 0 /\ i <= l /\ i \in 1..l
  BY <1>1
<1>3. m \in 1..(l + 1)
  BY <1>1 DEF LineAt
<1>4. ASSUME Unfed(b, i + 1, t, m) PROVE Unfed(b, i, <<b[i]>> \o t, m)
  <2>1. \A k \in i..l : b[k] # F!LF
    <3>1. \A k \in i..l : k = i \/ k \in (i + 1)..l
      BY <1>2
    <3>2. \A k \in (i + 1)..l : b[k] # F!LF
      BY <1>1, <1>4 DEF Unfed
    <3> QED BY <3>1, <3>2
  <2>2. ASSUME i > l \/ b[l] # F!CR PROVE <<b[i]>> \o t = SubSeq(b, i, l)
    <3>1. t = SubSeq(b, i + 1, l)
      BY <1>1, <1>2, <1>4, <2>2 DEF Unfed
    <3> QED BY <1>1, <1>2, <3>1, JoinOne
  <2> QED BY <1>1, <1>4, <2>1, <2>2 DEF Unfed
<1>5. ASSUME NEW e, Fed(b, i + 1, t, m, e) PROVE Fed(b, i, <<b[i]>> \o t, m, e)
  <2>1. /\ e \in (i + 1)..l /\ b[e] = F!LF /\ \A k \in (i + 1)..(e - 1) : b[k] # F!LF
        /\ m = e + 1
        /\ t = SubSeq(b, i + 1, IF e > i + 1 /\ b[e - 1] = F!CR THEN e - 2 ELSE e - 1)
    BY <1>1, <1>5 DEF Fed
  <2>2. e \in Nat /\ e > i /\ e <= l /\ e \in i..l
    BY <1>2, <2>1
  <2>3. \A k \in i..(e - 1) : b[k] # F!LF
    <3>1. \A k \in i..(e - 1) : k = i \/ k \in (i + 1)..(e - 1)
      BY <1>2, <2>2
    <3> QED BY <2>1, <3>1
  <2>4. PICK z \in Nat : /\ z = (IF e > i /\ b[e - 1] = F!CR THEN e - 2 ELSE e - 1)
                         /\ i <= z /\ z <= l
                         /\ t = SubSeq(b, i + 1, z)
    <3>1. CASE e = i + 1
      <4>1. e - 1 = i /\ b[e - 1] # F!CR /\ ~ (e > i + 1)
        BY <1>2, <3>1
      <4>2. t = SubSeq(b, i + 1, i)
        BY <2>1, <4>1
      <4> QED BY <1>2, <4>1, <4>2
    <3>2. CASE e # i + 1
      <4>1. e > i + 1 /\ e - 2 \in Nat /\ e - 1 \in Nat /\ i <= e - 2 /\ i <= e - 1 /\ e - 2 <= l /\ e - 1 <= l
        BY <1>2, <2>1, <2>2, <3>2
      <4> QED BY <2>1, <2>2, <4>1
    <3> QED BY <3>1, <3>2
  <2>5. <<b[i]>> \o t = SubSeq(b, i, z)
    BY <1>1, <1>2, <2>4, JoinOne
  <2> QED BY <1>1, <2>1, <2>2, <2>3, <2>4, <2>5 DEF Fed
<1> QED BY <1>1, <1>3, <1>4, <1>5 DEF LineAt

\* At a carriage return that ends the bytes.
LEMMA LineReturn ==
  ASSUME NEW b \in Seq(Bytes), NEW i \in 1..Len(b), b[i] = F!CR, i = Len(b), NEW t
  PROVE  LineAt(b, i, t, Len(b) + 1)
<1>1. PICK l \in Nat : l = Len(b)
  BY LenProperties
<1>2. \A k \in i..l : b[k] # F!LF
  BY <1>1 DEF F!LF, F!CR
<1>3. ~ (i > l) /\ l + 1 \in 1..(l + 1)
  BY <1>1
<1> QED BY <1>1, <1>2, <1>3 DEF LineAt, Unfed

\* At a carriage return with its line feed.
LEMMA LineBreak ==
  ASSUME NEW b \in Seq(Bytes), NEW i \in 1..Len(b), b[i] = F!CR, i # Len(b), b[i + 1] = F!LF
  PROVE  LineAt(b, i, <<>>, i + 2)
<1>1. PICK l \in Nat : l = Len(b)
  BY LenProperties
<1>2. PICK e : e = i + 1
  OBVIOUS
<1>3. i \in Nat /\ i + 1 \in i..l /\ e > i /\ e - 1 = i /\ e - 2 = i - 1 /\ i - 1 \in Int /\ i - 1 < i
      /\ e + 1 = i + 2 /\ i + 2 \in 1..(l + 1)
  BY <1>1, <1>2
<1>4. SubSeq(b, i, e - 2) = <<>>
  BY <1>3, EmptyCut
<1>5. \A k \in i..(e - 1) : b[k] # F!LF
  BY <1>3 DEF F!LF, F!CR
<1>6. Fed(b, i, <<>>, i + 2, e)
  BY <1>1, <1>2, <1>3, <1>4, <1>5 DEF Fed
<1> QED BY <1>1, <1>3, <1>6 DEF LineAt

\* At a carriage return with something else behind it.
LEMMA LineKept ==
  ASSUME NEW b \in Seq(Bytes), NEW i \in 1..Len(b), b[i] = F!CR, i # Len(b), b[i + 1] # F!LF,
         NEW t, NEW m, LineAt(b, i + 2, t, m)
  PROVE  LineAt(b, i, <<b[i], b[i + 1]>> \o t, m)
<1>1. PICK l \in Nat : l = Len(b)
  BY LenProperties
<1>2. i \in Nat /\ i > 0 /\ i + 1 <= l /\ i \in 1..l /\ i \in 1..(l - 1)
  BY <1>1
<1>3. m \in 1..(l + 1)
  BY <1>1 DEF LineAt
<1>4. b[i] # F!LF
  BY DEF F!LF, F!CR
<1>5. ~ F!Paired(b) => b[i + 1] # F!CR
  BY <1>1, <1>2 DEF F!Paired
<1>6. PICK u : u = <<b[i], b[i + 1]>> \o t
  OBVIOUS
<1>7. ASSUME Unfed(b, i + 2, t, m), b[i + 1] # F!CR PROVE Unfed(b, i, u, m)
  <2>1. \A k \in i..l : b[k] # F!LF
    <3>1. \A k \in i..l : k = i \/ k = i + 1 \/ k \in (i + 2)..l
      BY <1>2
    <3>2. \A k \in (i + 2)..l : b[k] # F!LF
      BY <1>1, <1>7 DEF Unfed
    <3> QED BY <1>4, <3>1, <3>2
  <2>2. ASSUME i > l \/ b[l] # F!CR PROVE u = SubSeq(b, i, l)
    <3>1. t = SubSeq(b, i + 2, l)
      BY <1>1, <1>2, <1>7, <2>2 DEF Unfed
    <3>2. l \in Nat /\ l <= Len(b)
      BY <1>1
    <3>3. <<b[i], b[i + 1]>> \o SubSeq(b, i + 2, l) = SubSeq(b, i, l)
      BY <1>2, <3>2, JoinTwo
    <3> QED BY <1>6, <3>1, <3>3
  <2> QED BY <1>1, <1>7, <2>1, <2>2 DEF Unfed
<1>8. ASSUME NEW e, Fed(b, i + 2, t, m, e), b[i + 1] # F!CR PROVE Fed(b, i, u, m, e)
  <2>1. /\ e \in (i + 2)..l /\ b[e] = F!LF /\ \A k \in (i + 2)..(e - 1) : b[k] # F!LF
        /\ m = e + 1
        /\ t = SubSeq(b, i + 2, IF e > i + 2 /\ b[e - 1] = F!CR THEN e - 2 ELSE e - 1)
    BY <1>1, <1>8 DEF Fed
  <2>2. e \in Nat /\ e > i /\ e <= l /\ e \in i..l
    BY <1>2, <2>1
  <2>3. \A k \in i..(e - 1) : b[k] # F!LF
    <3>1. \A k \in i..(e - 1) : k = i \/ k = i + 1 \/ k \in (i + 2)..(e - 1)
      BY <1>2, <2>2
    <3> QED BY <1>4, <2>1, <3>1
  <2>4. PICK z \in Nat : /\ z = (IF e > i /\ b[e - 1] = F!CR THEN e - 2 ELSE e - 1)
                         /\ i + 1 <= z /\ z <= l
                         /\ t = SubSeq(b, i + 2, z)
    <3>1. CASE e = i + 2
      <4>1. e - 1 = i + 1 /\ b[e - 1] # F!CR /\ ~ (e > i + 2)
        BY <1>2, <1>8, <3>1
      <4>2. t = SubSeq(b, i + 2, i + 1)
        BY <2>1, <4>1
      <4> QED BY <1>2, <4>1, <4>2
    <3>2. CASE e # i + 2
      <4>1. e > i + 2 /\ e - 2 \in Nat /\ e - 1 \in Nat /\ i + 1 <= e - 2 /\ i + 1 <= e - 1 /\ e - 2 <= l /\ e - 1 <= l
        BY <1>2, <2>1, <2>2, <3>2
      <4> QED BY <2>1, <2>2, <4>1
    <3> QED BY <3>1, <3>2
  <2>5. u = SubSeq(b, i, z)
    BY <1>1, <1>2, <1>6, <2>4, JoinTwo
  <2> QED BY <1>1, <2>1, <2>2, <2>3, <2>4, <2>5 DEF Fed
<1> QED BY <1>1, <1>3, <1>5, <1>6, <1>7, <1>8 DEF LineAt

\* A longer line.
LEMMA LineLonger ==
  ASSUME NEW t, NEW m, NEW c, NEW r, r = [text |-> t, next |-> m]
  PROVE  Longer(c, r) = [text |-> c \o t, next |-> m]
<1>1. PICK u : u = c \o t
  OBVIOUS
<1>2. r.text = t
  OBVIOUS
<1>3. [r EXCEPT !.text = c \o @] = [r EXCEPT !.text = u]
  BY <1>1, <1>2
<1>4. [r EXCEPT !.text = u] = [text |-> u, next |-> m]
  OBVIOUS
<1> QED BY <1>1, <1>3, <1>4 DEF Longer

\* So every line is as one reads it.
LEMMA LinesKnown ==
  ASSUME NEW b \in Seq(Bytes), NEW f, Lines(b, f)
  PROVE  LineKnown(b, 1, f[1])
<1>1. PICK l \in Nat : l = Len(b)
  BY LenProperties
<1>2. \A i \in 1..(l + 2) : f[i] = LineStep(b, f, i)
  BY <1>1 DEF Lines
<1>3. ASSUME NEW i \in 1..(l + 2),
             i <= l => LineKnown(b, i + 1, f[i + 1]) /\ LineKnown(b, i + 2, f[i + 2])
      PROVE  LineKnown(b, i, f[i])
  <2>1. CASE i > l
    <3>1. f[i] = [text |-> <<>>, next |-> Len(b) + 1]
      BY <1>1, <1>2, <2>1 DEF LineStep
    <3>2. i \in Nat /\ i > Len(b)
      BY <1>1, <2>1
    <3> QED BY <3>1, <3>2, LineEnd DEF LineKnown
  <2>2. ASSUME ~ (i > l) PROVE LineKnown(b, i, f[i])
    <3>1. i \in 1..Len(b) /\ i <= l /\ ~ (i > Len(b))
      BY <1>1, <2>2
    <3>2. CASE b[i] = F!LF
      <4>1. f[i] = [text |-> <<>>, next |-> i + 1]
        BY <1>2, <3>1, <3>2 DEF LineStep
      <4> QED BY <3>1, <3>2, <4>1, LineFeed DEF LineKnown
    <3>3. CASE b[i] # F!LF /\ b[i] # F!CR
      <4>1. PICK t, m : f[i + 1] = [text |-> t, next |-> m] /\ LineAt(b, i + 1, t, m)
        BY <1>3, <3>1 DEF LineKnown
      <4>2. f[i] = [text |-> <<b[i]>> \o t, next |-> m]
        <5>1. f[i] = Longer(<<b[i]>>, f[i + 1])
          BY <1>2, <3>1, <3>3 DEF LineStep
        <5> QED BY ZenonT(30), <4>1, <5>1, LineLonger
      <4>3. LineAt(b, i, <<b[i]>> \o t, m)
        BY <3>1, <3>3, <4>1, LinePlain
      <4> QED BY <4>2, <4>3 DEF LineKnown
    <3>4. CASE b[i] # F!LF /\ b[i] = F!CR
      <4>1. PICK t, m : f[i + 2] = [text |-> t, next |-> m] /\ LineAt(b, i + 2, t, m)
        BY <1>3, <3>1 DEF LineKnown
      <4>2. ASSUME i = Len(b) PROVE LineKnown(b, i, f[i])
        <5>0. f[i + 2] = [text |-> <<>>, next |-> Len(b) + 1]
          <6>1. i + 2 \in 1..(l + 2) /\ i + 2 > Len(b)
            BY <1>1, <4>2
          <6> QED BY <1>2, <6>1 DEF LineStep
        <5>1. f[i] = Longer(<<F!CR, F!CR>>, f[i + 2])
          BY <1>2, <3>1, <3>4, <4>2 DEF LineStep, F!CR, F!LF
        <5>2. f[i] = [text |-> <<F!CR, F!CR>> \o <<>>, next |-> Len(b) + 1]
          BY ZenonT(30), <5>0, <5>1, LineLonger
        <5> QED BY <3>1, <3>4, <4>2, <5>2, LineReturn DEF LineKnown
      <4>3. ASSUME i # Len(b), b[i + 1] = F!LF PROVE LineKnown(b, i, f[i])
        <5>1. f[i] = [text |-> <<>>, next |-> i + 2]
          BY <1>2, <3>1, <3>4, <4>3 DEF LineStep
        <5> QED BY <3>1, <3>4, <4>3, <5>1, LineBreak DEF LineKnown
      <4>4. ASSUME i # Len(b), b[i + 1] # F!LF PROVE LineKnown(b, i, f[i])
        <5>1. f[i] = Longer(<<F!CR, b[i + 1]>>, f[i + 2])
          BY <1>2, <3>1, <3>4, <4>4 DEF LineStep
        <5>2. f[i] = [text |-> <<b[i], b[i + 1]>> \o t, next |-> m]
          <6>1. PICK c : c = <<F!CR, b[i + 1]>> /\ c = <<b[i], b[i + 1]>>
            BY <3>4
          <6>2. Longer(c, f[i + 2]) = [text |-> c \o t, next |-> m]
            BY <4>1, LineLonger
          <6> QED BY <5>1, <6>1, <6>2
        <5>3. LineAt(b, i, <<b[i], b[i + 1]>> \o t, m)
          BY <3>1, <3>4, <4>1, <4>4, LineKept
        <5> QED BY <5>2, <5>3 DEF LineKnown
      <4> QED BY <4>2, <4>3, <4>4
    <3> QED BY <3>2, <3>3, <3>4
  <2> QED BY <2>1, <2>2
<1> DEFINE N == l + 2
           Bad == {j \in 0..(l + 1) : ~ LineKnown(b, N - j, f[N - j])}
<1>4. Bad = {}
  <2>1. SUFFICES ASSUME Bad # {} PROVE FALSE
    OBVIOUS
  <2>2. Bad \subseteq Nat
    OBVIOUS
  <2>3. PICK x \in Bad : \A y \in Bad : ~ (<<y, x>> \in OpToRel(<, Nat))
    <3> HIDE DEF Bad
    <3> QED BY <2>1, <2>2, WFMin, NatLessThanWellFounded, Zenon
  <2>4. \A y \in Bad : ~ (y < x)
    <3> HIDE DEF Bad
    <3> QED BY <2>2, <2>3, Zenon DEF OpToRel
  <2>5. x \in 0..(l + 1) /\ ~ LineKnown(b, N - x, f[N - x])
    BY <2>3
  <2>6. PICK i \in 1..N : i = N - x
    <3>1. N - x \in 1..N
      BY <2>5
    <3> QED BY <3>1
  <2>7. ASSUME NEW d \in {1, 2}, i <= l PROVE LineKnown(b, i + d, f[i + d])
    <3>1. x - d \in 0..(l + 1) /\ x - d < x /\ N - (x - d) = i + d
      BY <2>5, <2>6, <2>7
    <3> QED BY <2>4, <3>1
  <2>8. i <= l => LineKnown(b, i + 1, f[i + 1]) /\ LineKnown(b, i + 2, f[i + 2])
    BY <2>7
  <2> QED BY <1>3, <2>5, <2>6, <2>8
<1>5. l + 1 \in 0..(l + 1) /\ N - (l + 1) = 1
  OBVIOUS
<1> QED BY <1>4, <1>5

\* The end of the first line, as readLine() is meant to find it.
LEMMA LineMeantFed ==
  ASSUME NEW b \in Seq(Bytes), NEW t, NEW m, NEW e, Fed(b, 1, t, m, e)
  PROVE  t = F!LineMeant(b)
<1>1. PICK l \in Nat : l = Len(b)
  BY LenProperties
<1>2. /\ e \in 1..l /\ b[e] = F!LF /\ \A k \in 1..(e - 1) : b[k] # F!LF
      /\ t = SubSeq(b, 1, IF e > 1 /\ b[e - 1] = F!CR THEN e - 2 ELSE e - 1)
  BY <1>1 DEF Fed
<1> DEFINE I == {i \in 1..Len(b) : b[i] = F!LF}
<1>4. F!Min(I) = e
  <2>1. e \in I /\ \A y \in I : e <= y
    <3>1. ASSUME NEW y \in 1..l, b[y] = F!LF PROVE e <= y
      <4>1. ~ (y \in 1..(e - 1))
        BY <1>2, <3>1
      <4> QED BY <1>2, <4>1
    <3> QED BY <1>1, <1>2, <3>1
  <2>2. F!Min(I) = CHOOSE x \in I : \A y \in I : x <= y
    BY DEF F!Min
  <2>3. F!Min(I) \in I /\ \A y \in I : F!Min(I) <= y
    <3> HIDE DEF I
    <3> QED BY <2>1, <2>2
  <2>4. I \subseteq Nat
    BY <1>1
  <2> HIDE DEF I
  <2>5. PICK x : x = F!Min(I)
    OBVIOUS
  <2>6. x \in Nat /\ e \in Nat /\ x <= e /\ e <= x
    BY <2>1, <2>3, <2>4, <2>5
  <2> QED BY <2>5, <2>6
<1>5. (IF I # {} THEN F!Min(I) ELSE 0) = e
  <2>1. I # {}
    BY <1>1, <1>2
  <2> HIDE DEF I
  <2> QED BY <1>4, <2>1
<1>6. PICK text : text = SubSeq(b, 1, e - 1)
  OBVIOUS
<1>7. PICK d \in Nat : d = e - 1 /\ d <= l
  <2>1. e - 1 \in Nat /\ e - 1 <= l
    BY <1>2
  <2> QED BY <2>1
<1>8. text \in Seq(Bytes) /\ Len(text) = d /\ \A i \in 1..d : text[i] = b[i]
  <2>1. 0 \in Nat /\ 0 + 1 = 1 /\ d - 0 = d /\ d <= Len(b) /\ (IF 0 < d THEN d - 0 ELSE 0) = d
        /\ \A i \in 1..d : 0 + i = i
    BY <1>1, <1>7
  <2>2. /\ SubSeq(b, 0 + 1, d) \in Seq(Bytes)
        /\ Len(SubSeq(b, 0 + 1, d)) = IF 0 < d THEN d - 0 ELSE 0
        /\ \A i \in 1..(d - 0) : SubSeq(b, 0 + 1, d)[i] = b[0 + i]
    BY <2>1, CutSeq
  <2> QED BY <1>6, <1>7, <2>1, <2>2
<1>9. F!LineMeant(b) = IF e # 0 /\ text # <<>> /\ F!Last(text) = F!CR THEN F!Front(text) ELSE text
  <2> DEFINE Meant(end) ==
               LET text0 == IF end = 0 THEN b ELSE SubSeq(b, 1, end - 1)
               IN IF end # 0 /\ text0 # <<>> /\ F!Last(text0) = F!CR THEN F!Front(text0) ELSE text0
  <2>1. F!LineMeant(b) = Meant(IF I # {} THEN F!Min(I) ELSE 0)
    BY DEF F!LineMeant, F!SelectInSeq
  <2>2. Meant(IF I # {} THEN F!Min(I) ELSE 0) = Meant(e)
    <3> HIDE DEF Meant, I
    <3> QED BY <1>5
  <2>3. e # 0
    BY <1>2
  <2>4. Meant(e) = IF e # 0 /\ text # <<>> /\ F!Last(text) = F!CR THEN F!Front(text) ELSE text
    BY <1>6, <2>3
  <2> HIDE DEF Meant, I
  <2> QED BY <2>1, <2>2, <2>4
<1>10. CASE e > 1 /\ b[e - 1] = F!CR
  <2>1. t = SubSeq(b, 1, e - 2) /\ d > 0 /\ d \in 1..d /\ e # 0 /\ e - 2 = d - 1
    BY <1>2, <1>7, <1>10
  <2>2. text # <<>> /\ F!Last(text) = F!CR
    BY <1>7, <1>8, <1>10, <2>1, EmptySeq DEF F!Last
  <2>3. F!LineMeant(b) = SubSeq(text, 1, d - 1)
    BY <1>8, <1>9, <2>1, <2>2 DEF F!Front
  <2>4. SubSeq(text, 1, d - 1) = SubSeq(b, 1, d - 1)
    <3>1. PICK h \in Nat : h = d - 1 /\ h <= d /\ h <= l
      <4>1. d - 1 \in Nat /\ d - 1 <= d /\ d - 1 <= l
        BY <1>7, <2>1
      <4> QED BY <4>1
    <3>2. 0 \in Nat /\ 0 + 1 = 1 /\ h - 0 = h /\ h <= Len(b) /\ h <= Len(text)
          /\ \A i \in 1..h : 0 + i = i /\ i \in 1..d
      BY <1>1, <1>8, <3>1
    <3>3. /\ SubSeq(b, 0 + 1, h) \in Seq(Bytes)
          /\ Len(SubSeq(b, 0 + 1, h)) = IF 0 < h THEN h - 0 ELSE 0
          /\ \A i \in 1..(h - 0) : SubSeq(b, 0 + 1, h)[i] = b[0 + i]
      BY <3>2, CutSeq
    <3>4. /\ SubSeq(text, 0 + 1, h) \in Seq(Bytes)
          /\ Len(SubSeq(text, 0 + 1, h)) = IF 0 < h THEN h - 0 ELSE 0
          /\ \A i \in 1..(h - 0) : SubSeq(text, 0 + 1, h)[i] = text[0 + i]
      BY <1>8, <3>2, CutSeq
    <3>5. PICK u \in Seq(Bytes), v \in Seq(Bytes) : u = SubSeq(text, 1, h) /\ v = SubSeq(b, 1, h)
      BY <3>2, <3>3, <3>4
    <3>6. Len(u) = h /\ Len(v) = h /\ \A i \in 1..h : u[i] = v[i]
      <4>1. (IF 0 < h THEN h - 0 ELSE 0) = h
        OBVIOUS
      <4>2. \A i \in 1..h : u[i] = text[i] /\ v[i] = b[i]
        BY <3>2, <3>3, <3>4, <3>5
      <4> QED BY <1>8, <3>2, <3>3, <3>4, <3>5, <4>1, <4>2
    <3>7. u = v
      BY <3>6, SameSeq
    <3> QED BY <3>1, <3>5, <3>7
  <2> QED BY <2>1, <2>3, <2>4
<1>11. CASE ~ (e > 1 /\ b[e - 1] = F!CR)
  <2>1. t = text
    BY <1>2, <1>6, <1>11
  <2>2. ~ (text # <<>> /\ F!Last(text) = F!CR)
    <3>1. SUFFICES ASSUME text # <<>>, F!Last(text) = F!CR PROVE FALSE
      OBVIOUS
    <3>2. d > 0
      BY <1>8, <3>1, EmptySeq
    <3>3. text[d] = b[e - 1] /\ e > 1
      BY <1>2, <1>7, <1>8, <3>2
    <3> QED BY <1>8, <1>11, <3>1, <3>3 DEF F!Last
  <2> QED BY <1>9, <2>1, <2>2
<1> QED BY <1>10, <1>11

\* The line meant when no line feed is left.
LEMMA LineMeantUnfed ==
  ASSUME NEW b \in Seq(Bytes), \A k \in 1..Len(b) : b[k] # F!LF
  PROVE  F!LineMeant(b) = b
<1> DEFINE I == {i \in 1..Len(b) : b[i] = F!LF}
<1>1. F!SelectInSeq(b, LAMBDA c : c = F!LF) = IF I # {} THEN F!Min(I) ELSE 0
  BY DEF F!SelectInSeq
<1>2. I = {}
  OBVIOUS
<1>3. F!SelectInSeq(b, LAMBDA c : c = F!LF) = 0
  BY <1>1, <1>2
<1> QED BY <1>3 DEF F!LineMeant

\* readLine() keeps the invariant.
LEMMA StreamReadLine ==
  ASSUME StreamsInv, F!readLine  PROVE StreamsInv'
<1>1. spoilt = {} /\ want = [file |-> file, got |-> got]
  BY StreamWant DEF F!readLine
<1>2. PICK b : b = F!Ahead
  OBVIOUS
<1>3. PICK line : line = F!LineFrom(b)
  OBVIOUS
<1>4. /\ unix' = unix /\ out' = out /\ append' = append /\ file' = file /\ in # F!Closed
      /\ in' = in + line.next - 1
      /\ F!Returns(line.text, F!LineMeant(b))
      /\ spoilt' = (IF b # <<>> /\ line.next > Len(b) /\ F!Last(b) = F!CR THEN {"doubled"} ELSE {})
                   \cup (IF F!Paired(b) THEN {"paired"} ELSE {})
  BY <1>2, <1>3 DEF F!readLine
<1>5. PICK l \in Nat : /\ b \in Seq(Bytes) /\ l = Len(b)
                       /\ \A j \in 0..l : in + j \in -1..MaxStream
                       /\ file # F!NoFile
  BY <1>2, <1>4, StreamAhead
<1>6. PICK t, m : line = [text |-> t, next |-> m] /\ LineAt(b, 1, t, m)
  BY <1>3, <1>5, LineIsOne, LinesKnown DEF LineKnown
<1>7. m \in 1..(l + 1) /\ line.next = m /\ line.text = t
  BY <1>5, <1>6 DEF LineAt
<1>8. in' \in -1..MaxStream
  <2>1. m - 1 \in 0..l
    BY <1>7
  <2>2. in \in Int
    BY StreamHere
  <2>3. in + m - 1 = in + (m - 1)
    BY <1>7, <2>2
  <2> QED BY <1>4, <1>5, <1>7, <2>1, <2>3
<1>9. ASSUME spoilt' = {} PROVE t = F!LineMeant(b)
  <2>1. ~ F!Paired(b) /\ ~ (b # <<>> /\ m > l /\ F!Last(b) = F!CR)
    BY <1>4, <1>5, <1>7, <1>9
  <2>2. CASE \E e : Fed(b, 1, t, m, e)
    BY <1>5, <2>2, LineMeantFed
  <2>3. CASE Unfed(b, 1, t, m)
    <3>1. m = l + 1 /\ (1 > l \/ b[l] # F!CR => t = SubSeq(b, 1, l)) /\ \A k \in 1..Len(b) : b[k] # F!LF
      BY <1>5, <2>3 DEF Unfed
    <3>2. b # <<>> => b[l] # F!CR
      BY <1>5, <2>1, <3>1 DEF F!Last
    <3>3. b = <<>> => 1 > l
      BY <1>5, EmptySeq
    <3>4. t = b
      BY <1>5, <3>1, <3>2, <3>3, WholeSeq
    <3> QED BY <1>5, <3>1, <3>4, LineMeantUnfed
  <2> QED BY <1>6, <2>1, <2>2, <2>3 DEF LineAt
<1>10. spoilt' = {} => want' = [file |-> file, got |-> got']
  <2>1. ASSUME spoilt' = {} PROVE want' = [file |-> file, got |-> got']
    <3>1. F!Returns(t, t)
      BY <1>4, <1>7, <1>9, <2>1
    <3> QED BY <1>1, <3>1, StreamReturns
  <2> QED BY <2>1
<1> QED BY <1>4, <1>5, <1>8, <1>10, StreamStays

\* Every step keeps the invariant.
LEMMA StreamStep ==
  ASSUME StreamsInv, F!Next  PROVE StreamsInv'
<1>1. CASE F!openIn \/ F!closeIn \/ F!readByte \/ F!readLine \/ F!readAll \/ F!closeOut
  BY <1>1, StreamOpenIn, StreamCloseIn, StreamReadByte, StreamReadLine, StreamReadAll, StreamCloseOut
<1>2. CASE F!readBlock(2)
  <2>1. 2 \in Nat
    OBVIOUS
  <2> QED BY <1>2, <2>1, StreamReadBlock
<1>3. ASSUME NEW appending \in BOOLEAN, F!openOut(appending) PROVE StreamsInv'
  BY <1>3, StreamOpenOut
<1>4. ASSUME NEW c \in Bytes, F!write(<<c>>) \/ F!write(<<c, F!LF>>) PROVE StreamsInv'
  <2>1. <<c>> \in Seq(Bytes) /\ <<c>> # <<>>
    OBVIOUS
  <2>2. <<c, F!LF>> \in Seq(Bytes) /\ <<c, F!LF>> # <<>>
    BY StorageAssumption DEF F!LF
  <2> QED BY <1>4, <2>1, <2>2, StreamWrite
<1>5. ASSUME NEW overOpen \in BOOLEAN, F!moveIn(overOpen) PROVE StreamsInv'
  BY <1>5, StreamMoveIn
<1> QED BY <1>1, <1>2, <1>3, <1>4, <1>5 DEF F!Next

=============================================================================
