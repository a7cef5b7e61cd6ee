--------------------------- MODULE CalendarProofs ---------------------------
(***************************************************************************)
(* The arithmetic of birthdays, for every date of birth, zone, time of the *)
(* day and calendar of up to three centuries: leap years are where they    *)
(* belong, clocks that change lose no birthday, and what the code computes *)
(* is what a birthday is.                                                  *)
(***************************************************************************)
EXTENDS DeliveryTime, TLAPS

-----------------------------------------------------------------------------
(***************************************************************************)
(* Years and days.  The leap years before a year are counted by three      *)
(* divisions, which digits to the bases 4, 25 and 4 turn into sums.        *)
(***************************************************************************)
Leaps(n) == n \div 4 - n \div 100 + n \div 400

HasDigits(n, a, b, c, d) ==
  /\ a \in Int /\ b \in 0 .. 3 /\ c \in 0 .. 24 /\ d \in 0 .. 3
  /\ n = 400 * a + 100 * b + 4 * c + d
  /\ Leaps(n) = 97 * a + 24 * b + c

LEMMA LeapDigits == \A n \in Int : \E a, b, c, d : HasDigits(n, a, b, c, d)
<1> SUFFICES ASSUME NEW n \in Int PROVE \E a, b, c, d : HasDigits(n, a, b, c, d)
  OBVIOUS
<1> DEFINE a == n \div 400
           r == n % 400
           b == r \div 100
           s == r % 100
           c == s \div 4
           d == s % 4
<1>1. a \in Int /\ r \in 0 .. 399 /\ n = 400 * a + r
  OBVIOUS
<1>2. b \in 0 .. 3 /\ s \in 0 .. 99 /\ r = 100 * b + s
  BY <1>1
<1>3. c \in 0 .. 24 /\ d \in 0 .. 3 /\ s = 4 * c + d
  BY <1>2
<1> HIDE DEF b, s, c, d, r
<1>4. n \div 100 = 4 * a + b
  BY <1>1, <1>2
<1>5. n \div 4 = 100 * a + 25 * b + c
  BY <1>1, <1>2, <1>3
<1>6. Leaps(n) = 97 * a + 24 * b + c
  BY <1>1, <1>2, <1>3, <1>4, <1>5 DEF Leaps
<1>7. HasDigits(n, a, b, c, d)
  BY <1>1, <1>2, <1>3, <1>6 DEF HasDigits
<1> QED BY <1>7

LEMMA LeapsGrow ==
  ASSUME NEW n \in Int, NEW m \in Int, n <= m
  PROVE  Leaps(n) \in Int /\ Leaps(m) \in Int /\ 0 <= Leaps(m) - Leaps(n) /\ Leaps(m) - Leaps(n) <= m - n
<1>1. PICK a, b, c, d : HasDigits(n, a, b, c, d)
  BY LeapDigits
<1>2. PICK a2, b2, c2, d2 : HasDigits(m, a2, b2, c2, d2)
  BY LeapDigits
<1>3. a2 < a \/ a2 = a \/ a2 > a
  BY <1>1, <1>2 DEF HasDigits
<1> QED BY <1>1, <1>2 DEF HasDigits

Apart(x, y) ==
  /\ YearStart(x) \in Int /\ YearStart(y) \in Int
  /\ YearStart(y) - YearStart(x) >= 365 * (y - x)
  /\ YearStart(y) - YearStart(x) <= 366 * (y - x)

LEMMA YearsGrow == \A x, y \in Int : x <= y => Apart(x, y)
<1> SUFFICES ASSUME NEW x \in Int, NEW y \in Int, x <= y PROVE Apart(x, y)
  OBVIOUS
<1>1. FirstYear \in Int
  BY CalendarAssumption
<1>2. \A z \in Int : LeapsBefore(z) = Leaps(z - 1) /\ LeapsBefore(z) \in Int
  BY LeapsGrow DEF LeapsBefore, Leaps
<1>3. 0 <= LeapsBefore(y) - LeapsBefore(x) /\ LeapsBefore(y) - LeapsBefore(x) <= y - x
  <2>1. x - 1 \in Int /\ y - 1 \in Int /\ x - 1 <= y - 1
    OBVIOUS
  <2>2. 0 <= Leaps(y - 1) - Leaps(x - 1) /\ Leaps(y - 1) - Leaps(x - 1) <= (y - 1) - (x - 1)
    BY <2>1, LeapsGrow
  <2> QED BY <1>2, <2>2
<1>4. LeapsBefore(x) \in Int /\ LeapsBefore(y) \in Int /\ LeapsBefore(FirstYear) \in Int
  BY <1>1, <1>2
<1> QED BY <1>1, <1>3, <1>4 DEF YearStart, Apart

LEMMA YearsFollow ==
  ASSUME NEW x \in Int, NEW y \in Int, x < y
  PROVE  YearStart(x) \in Int /\ YearStart(x + 1) <= YearStart(y) /\ YearStart(x) < YearStart(y)
<1>1. Apart(x + 1, y) /\ Apart(x, x + 1)
  BY YearsGrow
<1> QED BY <1>1 DEF Apart

LEMMA YearsAreInt == \A y \in Int : YearStart(y) \in Int
BY YearsGrow DEF Apart

LEMMA YearIsLong ==
  ASSUME NEW y \in Int
  PROVE  YearStart(y + 1) = YearStart(y) + IF IsLeap(y) THEN 366 ELSE 365
<1>1. FirstYear \in Int
  BY CalendarAssumption
<1>2. y \div 4 = (y - 1) \div 4 + IF y % 4 = 0 THEN 1 ELSE 0
  OBVIOUS
<1>3. y \div 100 = (y - 1) \div 100 + IF y % 100 = 0 THEN 1 ELSE 0
  OBVIOUS
<1>4. y \div 400 = (y - 1) \div 400 + IF y % 400 = 0 THEN 1 ELSE 0
  OBVIOUS
<1>5. (y % 100 = 0 => y % 4 = 0) /\ (y % 400 = 0 => y % 100 = 0)
  OBVIOUS
<1>6. LeapsBefore(y + 1) = LeapsBefore(y) + IF IsLeap(y) THEN 1 ELSE 0
  BY <1>2, <1>3, <1>4, <1>5 DEF LeapsBefore, IsLeap
<1>7. LeapsBefore(y) \in Int /\ LeapsBefore(FirstYear) \in Int
  BY <1>1 DEF LeapsBefore
<1> QED BY <1>1, <1>6, <1>7 DEF YearStart

LEMMA FirstDay == YearStart(FirstYear) = 0
<1>1. FirstYear \in Int /\ LeapsBefore(FirstYear) \in Int
  BY CalendarAssumption DEF LeapsBefore
<1> QED BY <1>1 DEF YearStart

\* The year of a day is the one it lies in.
LEMMA YearOfDay ==
  ASSUME NEW n \in Nat, n < 366 * 365
  PROVE  /\ YearOf(n) \in Nat /\ YearOf(n) >= FirstYear
         /\ YearStart(YearOf(n)) <= n /\ n < YearStart(YearOf(n) + 1)
<1> DEFINE q == n \div 366
           y == FirstYear + q
<1>1. FirstYear \in Nat
  BY CalendarAssumption
<1>2. q \in 0 .. 364 /\ 366 * q <= n /\ n <= 366 * q + 365
  OBVIOUS
<1> HIDE DEF q
<1>3. y \in Nat /\ y + 1 \in Nat /\ y + 2 \in Nat /\ y >= FirstYear /\ (y + 1) + 1 = y + 2
  BY <1>1, <1>2
<1> HIDE DEF y
<1>4. Apart(FirstYear, y) /\ Apart(FirstYear, y + 2) /\ Apart(y, y + 1)
  BY <1>1, <1>3, YearsGrow
<1>5. y - FirstYear = q /\ y + 2 - FirstYear = q + 2
  BY <1>1, <1>2 DEF y
<1>6. YearOf(n) = IF n < YearStart(y + 1) THEN y ELSE y + 1
  BY DEF YearOf, y, q
<1>7. /\ YearStart(y) <= 366 * q /\ YearStart(y + 2) >= 365 * (q + 2)
      /\ YearStart(y) \in Int /\ YearStart(y + 1) \in Int /\ YearStart(y + 2) \in Int
  BY <1>1, <1>2, <1>3, <1>4, <1>5, FirstDay DEF Apart
<1>8. YearStart(y) <= n /\ n < YearStart(y + 2)
  BY <1>2, <1>7
<1>9. CASE n < YearStart(y + 1)
  BY <1>3, <1>6, <1>8, <1>9
<1>10. CASE ~(n < YearStart(y + 1))
  <2>1. YearOf(n) = y + 1 /\ YearOf(n) + 1 = y + 2
    BY <1>3, <1>6, <1>10
  <2> QED BY <1>1, <1>3, <1>7, <1>8, <1>10, <2>1
<1> QED BY <1>9, <1>10

\* And no other year is.
LEMMA YearIsUnique ==
  ASSUME NEW n \in Int, NEW x \in Int, NEW y \in Int,
         YearStart(x) <= n, n < YearStart(x + 1), YearStart(y) <= n, n < YearStart(y + 1)
  PROVE  x = y
<1>1. CASE x < y
  BY <1>1, YearsFollow
<1>2. CASE y < x
  BY <1>2, YearsFollow
<1> QED BY <1>1, <1>2

-----------------------------------------------------------------------------
(***************************************************************************)
(* Dates.                                                                  *)
(***************************************************************************)
LeapDays(y) == IF IsLeap(y) THEN 1 ELSE 0

LEMMA MonthTable ==
  ASSUME NEW y
  PROVE  /\ DaysBefore(y, 1) = 0 /\ DaysBefore(y, 2) = 31
         /\ DaysBefore(y, 3) = 59 + LeapDays(y) /\ DaysBefore(y, 4) = 90 + LeapDays(y)
         /\ DaysBefore(y, 5) = 120 + LeapDays(y) /\ DaysBefore(y, 6) = 151 + LeapDays(y)
         /\ DaysBefore(y, 7) = 181 + LeapDays(y) /\ DaysBefore(y, 8) = 212 + LeapDays(y)
         /\ DaysBefore(y, 9) = 243 + LeapDays(y) /\ DaysBefore(y, 10) = 273 + LeapDays(y)
         /\ DaysBefore(y, 11) = 304 + LeapDays(y) /\ DaysBefore(y, 12) = 334 + LeapDays(y)
         /\ DaysBefore(y, 13) = 365 + LeapDays(y)
         /\ LeapDays(y) \in 0 .. 1
BY DEF DaysBefore, LeapDays

MonthOf(y, month) ==
  /\ DaysBefore(y, month) \in 0 .. 335
  /\ DaysBefore(y, month) + DaysInMonth(y, month) <= 365 + LeapDays(y)
  /\ DaysInMonth(y, month) = IF month = 2 THEN 28 + LeapDays(y)
                             ELSE IF month \in {4, 6, 9, 11} THEN 30 ELSE 31

LEMMA MonthLengths ==
  ASSUME NEW y, NEW month \in 1 .. 12
  PROVE  /\ DaysBefore(y, month) \in 0 .. 335
         /\ DaysInMonth(y, month) \in 28 .. 31
         /\ DaysBefore(y, month) + DaysInMonth(y, month) <= 365 + LeapDays(y)
         /\ month = 2 => DaysInMonth(y, month) = 28 + LeapDays(y)
         /\ month # 2 => \A z : DaysInMonth(z, month) = DaysInMonth(y, month)
<1>1. \/ month = 1 \/ month = 2 \/ month = 3 \/ month = 4 \/ month = 5 \/ month = 6
      \/ month = 7 \/ month = 8 \/ month = 9 \/ month = 10 \/ month = 11 \/ month = 12
  OBVIOUS
<1>2. \A z : MonthOf(z, month)
  <2> TAKE z
  <2>1. LeapDays(z) \in 0 .. 1 /\ DaysInMonth(z, month) = DaysBefore(z, month + 1) - DaysBefore(z, month)
    BY DEF DaysInMonth, LeapDays
  <2>2. month \in {1, 2, 3, 4, 5, 6} => MonthOf(z, month)
    BY <2>1, MonthTable DEF MonthOf
  <2>3. month \in {7, 8, 9, 10, 11, 12} => MonthOf(z, month)
    BY <2>1, MonthTable DEF MonthOf
  <2> QED BY <1>1, <2>2, <2>3
<1> QED BY <1>2 DEF MonthOf, LeapDays

\* A date of the calendar lies in its year.
LEMMA DateInYear ==
  ASSUME NEW y \in Int, NEW month \in 1 .. 12, NEW day \in 1 .. DaysInMonth(y, month)
  PROVE  /\ DayNumber(y, month, day) \in Int
         /\ YearStart(y) <= DayNumber(y, month, day) /\ DayNumber(y, month, day) < YearStart(y + 1)
<1>1. YearStart(y) \in Int /\ YearStart(y + 1) = YearStart(y) + 365 + LeapDays(y)
  BY YearsFollow, YearIsLong DEF LeapDays
<1>2. LeapDays(y) \in 0 .. 1
  BY DEF LeapDays
<1>3. /\ DaysBefore(y, month) \in 0 .. 335 /\ DaysInMonth(y, month) \in 28 .. 31
      /\ DaysBefore(y, month) + DaysInMonth(y, month) <= 365 + LeapDays(y)
  BY MonthLengths
<1>4. DayNumber(y, month, day) = YearStart(y) + DaysBefore(y, month) + day - 1
  BY DEF DayNumber
<1> QED BY <1>1, <1>2, <1>3, <1>4

\* The date of birth is one of the calendar.
Born(birth) ==
  /\ birth.year \in Int /\ birth.month \in 1 .. 12
  /\ birth.day \in 1 .. DaysInMonth(birth.year, birth.month)

\* The day of a birthday in year y, and its wall clock.
DayOf(birth, y) == IF birth.day > DaysInMonth(y, birth.month) THEN 28 ELSE birth.day

WallOf(birth, y, at) == DayNumber(y, birth.month, DayOf(birth, y)) * Day + at

LEMMA BirthdayDay ==
  ASSUME NEW birth, Born(birth), NEW y \in Int
  PROVE  /\ DayOf(birth, y) \in 1 .. DaysInMonth(y, birth.month)
         /\ DayOf(birth, y) = IF birth.month = 2 /\ birth.day = 29 /\ ~isLeapYear(y)
                              THEN 28 ELSE birth.day
<1> DEFINE m == birth.month
           d == birth.day
           len == DaysInMonth(birth.year, m)
<1>1. m \in 1 .. 12 /\ d \in 1 .. len /\ len \in 28 .. 31
  BY MonthLengths DEF Born
<1>2. isLeapYear(y) <=> IsLeap(y)
  <2>1. y % 400 = 0 => y % 4 = 0
    OBVIOUS
  <2> QED BY <2>1 DEF isLeapYear, IsLeap
<1>3. CASE m = 2
  <2>1. DaysInMonth(y, m) = 28 + LeapDays(y) /\ d \in 1 .. 29
    BY <1>1, <1>3, MonthLengths DEF LeapDays
  <2> QED BY <1>1, <1>2, <1>3, <2>1 DEF DayOf, LeapDays
<1>4. CASE m # 2
  <2>1. DaysInMonth(y, m) = len
    BY <1>1, <1>4, MonthLengths
  <2> QED BY <1>1, <1>4, <2>1 DEF DayOf
<1> QED BY <1>3, <1>4

\* Birthdays of a year are in it.
LEMMA BirthdayInYear ==
  ASSUME NEW birth, Born(birth), NEW y \in Int, NEW at \in Int, 0 <= at, at < Day
  PROVE  \E n \in Int : /\ WallOf(birth, y, at) = n * Day + at
                        /\ YearStart(y) <= n /\ n + 1 <= YearStart(y + 1)
<1> DEFINE m == birth.month
           d == DayOf(birth, y)
           n == DayNumber(y, m, d)
<1>1. m \in 1 .. 12 /\ d \in 1 .. DaysInMonth(y, m)
  BY BirthdayDay DEF Born
<1>2. YearStart(y + 1) \in Int
  BY YearsAreInt
<1>3. WallOf(birth, y, at) = n * Day + at
  BY DEF WallOf
<1> HIDE DEF m, d
<1>4. n \in Int /\ YearStart(y) <= n /\ n < YearStart(y + 1)
  BY <1>1, DateInYear
<1> HIDE DEF n
<1>5. n + 1 <= YearStart(y + 1)
  BY <1>2, <1>4
<1> QED BY <1>3, <1>4, <1>5

LEMMA WallInYear ==
  ASSUME NEW birth, Born(birth), NEW y \in Int, NEW at \in Int, 0 <= at, at < Day
  PROVE  /\ WallOf(birth, y, at) \in Int
         /\ YearStart(y) * Day + at <= WallOf(birth, y, at)
         /\ WallOf(birth, y, at) + Day <= YearStart(y + 1) * Day + at
<1>1. PICK n \in Int : /\ WallOf(birth, y, at) = n * Day + at
                       /\ YearStart(y) <= n /\ n + 1 <= YearStart(y + 1)
  BY BirthdayInYear
<1>2. PICK a \in Int, b \in Int : a = YearStart(y) /\ b = YearStart(y + 1)
  BY YearsAreInt
<1>3. a * 86400 <= n * 86400 /\ n * 86400 + 86400 <= b * 86400
  BY <1>1, <1>2
<1> QED BY <1>1, <1>2, <1>3 DEF Day

\* They are a day apart at least.
LEMMA BirthdaysFollow ==
  ASSUME NEW birth, Born(birth), NEW x \in Int, NEW y \in Int, x < y, NEW at \in Int, 0 <= at, at < Day
  PROVE  WallOf(birth, x, at) + Day <= WallOf(birth, y, at)
<1>1. /\ WallOf(birth, x, at) \in Int /\ WallOf(birth, y, at) \in Int
      /\ WallOf(birth, x, at) + Day <= YearStart(x + 1) * Day + at
      /\ YearStart(y) * Day + at <= WallOf(birth, y, at)
  BY WallInYear
<1>2. PICK a \in Int, b \in Int : a = YearStart(x + 1) /\ b = YearStart(y)
  BY YearsAreInt
<1>3. a <= b
  BY <1>2, YearsFollow
<1>4. a * 86400 <= b * 86400
  BY <1>3
<1> QED BY <1>1, <1>2, <1>4 DEF Day

-----------------------------------------------------------------------------
(***************************************************************************)
(* Clocks.                                                                 *)
(***************************************************************************)
Horizon == 366 * 365 * Day

SummerOf(y, t) ==
  /\ (YearStart(y) + LeapDays(y) + 72) * Day + 7 * Hour <= t
  /\ t < (YearStart(y) + LeapDays(y) + 310) * Day + 6 * Hour

LEMMA YearOfInstant ==
  ASSUME NEW t \in Nat, t < Horizon
  PROVE  /\ YearOf(t \div Day) \in Nat /\ YearOf(t \div Day) >= FirstYear
         /\ YearStart(YearOf(t \div Day)) * Day <= t
         /\ t < YearStart(YearOf(t \div Day) + 1) * Day
<1>1. PICK n \in Nat : n = t \div Day /\ n * 86400 <= t /\ t < n * 86400 + 86400 /\ n < 366 * 365
  BY DEF Horizon, Day
<1>2. PICK y \in Nat : /\ y = YearOf(n) /\ y >= FirstYear
                       /\ YearStart(y) <= n /\ n < YearStart(y + 1)
  BY <1>1, YearOfDay
<1>3. PICK a \in Int, b \in Int : a = YearStart(y) /\ b = YearStart(y + 1)
  BY YearsAreInt
<1>4. a * 86400 <= n * 86400 /\ n * 86400 + 86400 <= b * 86400
  BY <1>2, <1>3
<1> QED BY <1>1, <1>2, <1>3, <1>4 DEF Day

\* An instant is in one year.
LEMMA InstantYear ==
  ASSUME NEW t \in Int, NEW x \in Int, NEW y \in Int,
         YearStart(x) * Day <= t, t < YearStart(x + 1) * Day,
         YearStart(y) * Day <= t, t < YearStart(y + 1) * Day
  PROVE  x = y
<1>1. ASSUME NEW v \in Int, NEW w \in Int, v < w, t < YearStart(v + 1) * Day, YearStart(w) * Day <= t
      PROVE  FALSE
  <2>1. PICK a \in Int, b \in Int : a = YearStart(v + 1) /\ b = YearStart(w)
    BY YearsAreInt
  <2>2. a <= b
    BY <1>1, <2>1, YearsFollow
  <2>3. a * 86400 <= b * 86400
    BY <2>2
  <2> QED BY <1>1, <2>1, <2>3 DEF Day
<1>2. ~(x < y)
  BY <1>1
<1>3. ~(y < x)
  BY <1>1
<1> QED BY <1>2, <1>3

LEMMA SummerDays ==
  ASSUME NEW y \in Int
  PROVE  /\ DayNumber(y, 3, 14) = YearStart(y) + LeapDays(y) + 72
         /\ DayNumber(y, 11, 7) = YearStart(y) + LeapDays(y) + 310
<1>1. YearStart(y) \in Int /\ LeapDays(y) \in Int
  BY YearsAreInt DEF LeapDays
<1> QED BY <1>1, MonthTable DEF DayNumber

\* Summer is well inside its year.
LEMMA SummerInYear ==
  ASSUME NEW y \in Int, NEW t \in Int, SummerOf(y, t)
  PROVE  YearStart(y) * Day + 30 * Day <= t /\ t + 30 * Day <= YearStart(y + 1) * Day
<1>1. PICK a \in Int, l \in 0 .. 1 : a = YearStart(y) /\ l = LeapDays(y)
  BY YearsAreInt DEF LeapDays
<1>2. YearStart(y + 1) = a + 365 + l
  BY <1>1, YearIsLong DEF LeapDays
<1>3. (a + l + 72) * 86400 + 7 * 3600 <= t /\ t < (a + l + 310) * 86400 + 6 * 3600
  BY <1>1 DEF SummerOf, Day, Hour
<1> QED BY <1>1, <1>2, <1>3 DEF Day

LEMMA SummerIsOfAYear ==
  ASSUME NEW t \in Nat, t < Horizon
  PROVE  IsSummer(t) <=> \E y \in Nat : y >= FirstYear /\ SummerOf(y, t)
<1>1. PICK y \in Nat : /\ y = YearOf(t \div Day) /\ y >= FirstYear
                       /\ YearStart(y) * Day <= t /\ t < YearStart(y + 1) * Day
  BY YearOfInstant
<1>2. IsSummer(t) <=> SummerOf(y, t)
  BY <1>1, SummerDays DEF IsSummer, SummerOf
<1>3. ASSUME NEW x \in Nat, SummerOf(x, t) PROVE x = y
  <2>1. PICK a \in Int, b \in Int : a = YearStart(x) /\ b = YearStart(x + 1)
    BY YearsAreInt
  <2>2. YearStart(x) * Day <= t /\ t < YearStart(x + 1) * Day
    BY <1>3, <2>1, SummerInYear DEF Day
  <2> QED BY <1>1, <2>2, InstantYear
<1> QED BY <1>1, <1>2, <1>3

-----------------------------------------------------------------------------
LEMMA ZoneTable ==
  /\ Zones = {"UTC", "New_York", "Kiritimati"}
  /\ StandardOffset["UTC"] = 0
  /\ StandardOffset["New_York"] = -18000
  /\ StandardOffset["Kiritimati"] = 50400
BY DEF Zones, StandardOffset, Hour

\* A zone has its standard offset, or in the summer of New York an hour more.
LEMMA OffsetTable ==
  ASSUME NEW zone \in Zones
  PROVE  /\ StandardOffset[zone] \in {0, -18000, 50400}
         /\ \A t : Offset(zone, t) \in {StandardOffset[zone], StandardOffset[zone] + Hour}
         /\ \A t : Offset(zone, t) # StandardOffset[zone] =>
                     zone = "New_York" /\ IsSummer(t) /\ StandardOffset[zone] = -18000
         /\ \A t : Offset(zone, t) \in Int
<1>1. StandardOffset[zone] \in {0, -18000, 50400}
  BY ZoneTable
<1>2. \A t : Offset(zone, t) = StandardOffset[zone] + IF zone = "New_York" /\ IsSummer(t) THEN 3600 ELSE 0
  BY DEF Offset, Hour
<1>3. PICK s \in Int : s = StandardOffset[zone] /\ s \in {0, -18000, 50400}
  BY <1>1
<1>4. zone = "New_York" => s = -18000
  BY <1>3, ZoneTable
<1>5. \A t : /\ Offset(zone, t) \in {s, s + 3600} /\ Offset(zone, t) \in Int
             /\ Offset(zone, t) # s => zone = "New_York" /\ IsSummer(t)
  BY <1>2, <1>3
<1> QED BY <1>3, <1>4, <1>5 DEF Hour

\* Where a wall clock is shown: at its standard time, an hour earlier in summer, or, when
\* it is skipped, an hour late.
Shows(zone, t, wall) ==
  LET s == StandardOffset[zone]
  IN  \/ t = wall - s /\ Offset(zone, wall - s) = s
      \/ t = wall - s - Hour /\ Offset(zone, wall - s - Hour) = s + Hour
      \/ t = wall - s /\ Offset(zone, wall - s) # s /\ Offset(zone, wall - s - Hour) # s + Hour

LEMMA InstantsShow ==
  ASSUME NEW zone \in Zones, NEW wall \in Int, NEW t
  PROVE  t \in Instants(wall, zone) <=> Shows(zone, t, wall)
<1>1. PICK s \in Int : s = StandardOffset[zone]
  BY OffsetTable
<1>2. PICK a \in Int, b \in Int : a = wall - s /\ b = wall - s - Hour /\ a - b = Hour
  BY DEF Hour
<1>3. PICK oa \in {s, s + Hour}, ob \in {s, s + Hour} : oa = Offset(zone, a) /\ ob = Offset(zone, b)
  BY <1>1, OffsetTable
<1> DEFINE shown == {c \in {a, b} : toWallClock(c, zone) = wall}
<1>4. Instants(wall, zone) = IF shown # {} THEN shown ELSE {a}
  BY <1>1, <1>2 DEF Instants
<1>5. (a \in shown <=> oa = s) /\ (b \in shown <=> ob = s + Hour)
  <2>1. toWallClock(a, zone) = a + oa /\ toWallClock(b, zone) = b + ob
    BY <1>3 DEF toWallClock
  <2>2. oa \in Int /\ ob \in Int /\ s + Hour \in Int
    BY DEF Hour
  <2>3. (a + oa = wall <=> oa = s) /\ (b + ob = wall <=> ob = s + Hour)
    BY <1>2, <2>2 DEF Hour
  <2> QED BY <2>1, <2>3
<1>6. shown \subseteq {a, b}
  OBVIOUS
<1>7. s # s + Hour
  BY DEF Hour
<1> HIDE DEF shown
<1>8. Shows(zone, t, wall) <=> \/ t = a /\ oa = s
                               \/ t = b /\ ob = s + Hour
                               \/ t = a /\ oa # s /\ ob # s + Hour
  BY <1>1, <1>2, <1>3 DEF Shows
<1> QED BY <1>4, <1>5, <1>6, <1>8

\* Whatever offset is guessed, the conversion finds an instant of the wall clock.
LEMMA FixedIsShown ==
  ASSUME NEW zone \in Zones, NEW wall \in Int, NEW present
  PROVE  /\ fixOffset(wall, Offset(zone, present), zone) \in Int
         /\ Shows(zone, fixOffset(wall, Offset(zone, present), zone), wall)
<1>1. PICK s \in Int : s = StandardOffset[zone]
  BY OffsetTable
<1>2. PICK a \in Int, b \in Int : a = wall - s /\ b = wall - (s + Hour) /\ b = wall - s - Hour
  BY DEF Hour
<1>3. PICK oa \in {s, s + Hour}, ob \in {s, s + Hour} : oa = Offset(zone, a) /\ ob = Offset(zone, b)
  BY <1>1, OffsetTable
<1>4. PICK g \in {s, s + Hour} : g = Offset(zone, present)
  BY <1>1, OffsetTable
<1>5. /\ s \in Int /\ s + Hour \in Int /\ s < s + Hour
  BY DEF Hour
<1> DEFINE t == fixOffset(wall, g, zone)
<1>6. Shows(zone, t, wall) <=> \/ t = a /\ oa = s
                               \/ t = b /\ ob = s + Hour
                               \/ t = a /\ oa # s /\ ob # s + Hour
  BY <1>1, <1>2, <1>3 DEF Shows
<1>7. CASE g = s
  <2>1. t = IF oa # s /\ ob = oa THEN b ELSE a
    BY <1>2, <1>3, <1>5, <1>7 DEF fixOffset
  <2> QED BY <1>2, <1>3, <1>4, <1>5, <1>6, <2>1
<1>8. CASE g = s + Hour
  <2>1. t = IF ob = g THEN b ELSE a
    BY <1>2, <1>3, <1>5, <1>8 DEF fixOffset
  <2> QED BY <1>2, <1>3, <1>4, <1>5, <1>6, <1>8, <2>1
<1> QED BY <1>4, <1>7, <1>8

-----------------------------------------------------------------------------
(***************************************************************************)
(* The next occurrence is the next birthday.                               *)
(***************************************************************************)
LEMMA YearsInHorizon ==
  ASSUME NEW y \in Years
  PROVE  /\ y \in Nat /\ YearStart(y) \in Int /\ YearStart(y + 1) \in Int
         /\ 0 <= YearStart(y) * Day /\ YearStart(y + 1) * Day + 10 * Day < Horizon
<1>1. FirstYear \in Nat /\ y \in Nat /\ y >= FirstYear /\ y <= FirstYear + 300
  BY CalendarAssumption DEF Years
<1>2. Apart(FirstYear, y) /\ Apart(FirstYear, y + 1)
  BY <1>1, YearsGrow
<1>3. PICK a \in Int, b \in Int : a = YearStart(y) /\ b = YearStart(y + 1)
  BY YearsAreInt, <1>1
<1>4. 0 <= a /\ b <= 366 * 301
  BY <1>1, <1>2, <1>3, FirstDay DEF Apart
<1>5. 0 <= a * 86400 /\ b * 86400 <= 366 * 301 * 86400
  BY <1>4
<1> QED BY <1>1, <1>3, <1>5 DEF Day, Horizon

\* An instant is in the year its wall clock shows, in standard time.
LEMMA ShownInYear ==
  ASSUME NEW zone \in Zones, NEW wall \in Nat, wall + Day < Horizon, NEW y \in Nat,
         YearStart(y) * Day <= wall, wall < YearStart(y + 1) * Day,
         NEW t, Shows(zone, t, wall)
  PROVE  /\ t \in Int
         /\ YearStart(y) * Day - StandardOffset[zone] <= t
         /\ t < YearStart(y + 1) * Day - StandardOffset[zone]
         /\ wall - StandardOffset[zone] - Hour <= t
         /\ t <= wall - StandardOffset[zone]
<1>1. PICK s \in Int : s = StandardOffset[zone] /\ (s # -18000 => \A c : Offset(zone, c) = s)
  BY OffsetTable
<1>2. PICK a \in Int, b \in Int : a = YearStart(y) * Day /\ b = YearStart(y + 1) * Day
  BY YearsAreInt DEF Day
<1>3. CASE t = wall - s
  BY <1>1, <1>2, <1>3 DEF Hour
<1>4. CASE t = wall - s - Hour /\ Offset(zone, t) = s + Hour
  <2>1. t \in Int /\ s = -18000 /\ IsSummer(t)
    BY <1>1, <1>4, OffsetTable DEF Hour
  <2>2. t \in Nat /\ t < Horizon /\ t = wall + 14400
    BY <1>4, <2>1 DEF Hour, Day, Horizon
  <2>3. PICK v \in Nat : SummerOf(v, t)
    BY <2>1, <2>2, SummerIsOfAYear
  <2>4. YearStart(v) * Day + 30 * Day <= t /\ t + 30 * Day <= YearStart(v + 1) * Day
    BY <2>1, <2>3, SummerInYear
  <2>5. PICK c \in Int, d \in Int : c = YearStart(v) * Day /\ d = YearStart(v + 1) * Day
    BY YearsAreInt DEF Day
  <2>6. YearStart(v) * Day <= wall /\ wall < YearStart(v + 1) * Day
    BY <2>2, <2>4, <2>5 DEF Day
  <2>7. v = y
    BY <2>6, InstantYear
  <2> QED BY <1>1, <1>2, <1>4, <2>1, <2>2, <2>4, <2>7 DEF Day, Hour
<1> QED BY <1>1, <1>3, <1>4 DEF Shows

LEMMA ClockShows ==
  ASSUME NEW zone \in Zones, NEW t \in Int
  PROVE  toWallClock(t, zone) \in Int /\ Shows(zone, t, toWallClock(t, zone))
<1>1. PICK s \in Int, o \in Int : s = StandardOffset[zone] /\ o = Offset(zone, t) /\ (o = s \/ o = s + Hour)
  BY OffsetTable
<1>2. PICK wall \in Int : wall = t + o /\ wall = toWallClock(t, zone)
  BY <1>1 DEF toWallClock
<1>3. CASE o = s
  <2>1. t = wall - s
    BY <1>2, <1>3
  <2> QED BY <1>1, <1>2, <1>3, <2>1 DEF Shows
<1>4. CASE o = s + Hour
  <2>1. t = wall - s - Hour
    BY <1>2, <1>4 DEF Hour
  <2> QED BY <1>1, <1>2, <1>4, <2>1 DEF Shows
<1> QED BY <1>1, <1>3, <1>4

\* The instants from which a next birthday is within the years.
InYears(t) == t \in Int /\ Day <= t /\ t + 2 * Day < YearStart(LastYear) * Day

LEMMA YearOfClock ==
  ASSUME NEW zone \in Zones, NEW t, InYears(t)
  PROVE  LET wall == toWallClock(t, zone)
             y    == YearOf(wall \div Day)
         IN  /\ wall \in Nat /\ wall + Day < Horizon
             /\ y \in Years /\ y + 1 \in Years
             /\ YearStart(y) * Day <= wall /\ wall < YearStart(y + 1) * Day
             /\ YearStart(y) * Day - StandardOffset[zone] <= t
             /\ t < YearStart(y + 1) * Day - StandardOffset[zone]
<1>1. PICK o \in Int : o = Offset(zone, t) /\ -18000 <= o /\ o <= 54000
  BY OffsetTable DEF Hour
<1>2. PICK wall \in Int : wall = t + o /\ wall = toWallClock(t, zone)
  BY <1>1 DEF toWallClock, InYears
<1>3. LastYear \in Years /\ LastYear \in Nat /\ FirstYear \in Nat
  BY CalendarAssumption DEF Years
<1>4. PICK z \in Int : z = YearStart(LastYear) * Day /\ z + 2 * Day < Horizon
  <2>1. YearStart(LastYear) \in Int /\ YearStart(LastYear + 1) \in Int
        /\ YearStart(LastYear) < YearStart(LastYear + 1)
    BY <1>3, YearsFollow, YearsAreInt
  <2>2. YearStart(LastYear + 1) * Day + 10 * Day < Horizon
    BY <1>3, YearsInHorizon
  <2>3. PICK a \in Int, b \in Int : a = YearStart(LastYear) /\ b = YearStart(LastYear + 1)
    BY <2>1
  <2>4. a * 86400 <= b * 86400
    BY <2>1, <2>3
  <2> QED BY <2>2, <2>3, <2>4 DEF Day, Horizon
<1>5. wall \in Nat /\ wall + Day < Horizon /\ wall < z
  BY <1>1, <1>2, <1>4 DEF InYears, Day, Horizon
<1>6. PICK y \in Nat : /\ y = YearOf(wall \div Day) /\ y >= FirstYear
                       /\ YearStart(y) * Day <= wall /\ wall < YearStart(y + 1) * Day
  <2>1. wall < Horizon
    BY <1>5 DEF Day, Horizon
  <2> QED BY <1>5, <2>1, YearOfInstant
<1>7. y < LastYear
  <2> SUFFICES ASSUME LastYear <= y PROVE FALSE
    BY <1>3
  <2>1. PICK a \in Int, b \in Int : a = YearStart(LastYear) /\ b = YearStart(y) /\ a <= b
    <3>1. LastYear = y \/ LastYear < y
      BY <1>3
    <3> QED BY <1>3, <3>1, YearsAreInt, YearsFollow
  <2>2. a * 86400 <= b * 86400
    BY <2>1
  <2> QED BY <1>4, <1>5, <1>6, <2>1, <2>2 DEF Day
<1>8. y \in Years /\ y + 1 \in Years
  BY <1>3, <1>6, <1>7 DEF Years
<1>9. Shows(zone, t, wall)
  BY <1>2, ClockShows DEF InYears
<1>10. YearStart(y) * Day - StandardOffset[zone] <= t /\ t < YearStart(y + 1) * Day - StandardOffset[zone]
  BY <1>5, <1>6, <1>9, ShownInYear
<1> QED BY <1>2, <1>5, <1>6, <1>8, <1>10

\* The birthday of year y as the code finds it.
LEMMA BirthdayIsFixed ==
  ASSUME NEW birth, Born(birth), NEW y \in Int, NEW zone, NEW ref, NEW at
  PROVE  createBirthdayDateTime(ref, zone, y, birth, at) =
           fixOffset(WallOf(birth, y, at), Offset(zone, ref), zone)
BY BirthdayDay DEF createBirthdayDateTime, WallOf

LEMMA WallOfYear ==
  ASSUME NEW birth, Born(birth), NEW y \in Years, NEW at \in Int, 0 <= at, at < Day
  PROVE  LET wall == WallOf(birth, y, at)
         IN  /\ wall \in Nat /\ wall + Day < Horizon /\ y \in Nat
             /\ YearStart(y) * Day <= wall /\ wall < YearStart(y + 1) * Day
<1>1. PICK wall \in Int : /\ wall = WallOf(birth, y, at)
                          /\ YearStart(y) * Day + at <= wall
                          /\ wall + Day <= YearStart(y + 1) * Day + at
  BY YearsInHorizon, WallInYear
<1>2. PICK a \in Int, b \in Int : /\ a = YearStart(y) * Day /\ b = YearStart(y + 1) * Day
                                  /\ 0 <= a /\ b + 10 * Day < Horizon /\ y \in Nat
  BY YearsInHorizon DEF Day
<1> QED BY <1>1, <1>2 DEF Day, Horizon

\* Where birth's day of year y is celebrated.
BirthdayOf(t, birth, y, zone, at) == y \in Years /\ Shows(zone, t, WallOf(birth, y, at))

LEMMA BirthdayIsBirthday ==
  ASSUME NEW birth, Born(birth), NEW zone \in Zones, NEW at \in Int, 0 <= at, at < Day,
         NEW y, NEW t, BirthdayOf(t, birth, y, zone, at)
  PROVE  IsBirthday(t, birth, zone, at)
<1>1. WallOf(birth, y, at) \in Int
  BY WallOfYear DEF BirthdayOf
<1>2. t \in Instants(WallOf(birth, y, at), zone)
  BY <1>1, InstantsShow DEF BirthdayOf
<1>3. WallOf(birth, y, at) \in Birthdays(birth, at)
  BY DEF Birthdays, WallOf, DayOf, BirthdayOf
<1> QED BY <1>2, <1>3 DEF IsBirthday

\* Birthdays of different years are in order, and none overtakes another.
LEMMA BirthdaysAreOrdered ==
  ASSUME NEW birth, Born(birth), NEW zone \in Zones, NEW at \in Int, 0 <= at, at < Day,
         NEW x, NEW y, x < y, NEW t, NEW i,
         BirthdayOf(t, birth, x, zone, at), BirthdayOf(i, birth, y, zone, at)
  PROVE  t \in Int /\ i \in Int /\ t < i
<1>1. PICK v \in Nat, w \in Nat : /\ v = WallOf(birth, x, at) /\ w = WallOf(birth, y, at)
                                  /\ x \in Nat /\ y \in Nat /\ v + Day <= w
  BY WallOfYear, BirthdaysFollow DEF BirthdayOf
<1>2. PICK s \in Int : s = StandardOffset[zone]
  BY OffsetTable
<1>3. t \in Int /\ t <= v - s
  BY <1>1, <1>2, WallOfYear, ShownInYear DEF BirthdayOf
<1>4. i \in Int /\ w - s - Hour <= i
  BY <1>1, <1>2, WallOfYear, ShownInYear DEF BirthdayOf
<1> QED BY <1>1, <1>2, <1>3, <1>4 DEF Day, Hour

\* The next occurrence the code computes, one of two years' birthdays, is the next
\* birthday: on its day or the 28th, on the zone's clock, after the reference, and with
\* no birthday in between, for every date of birth, zone, time of the day and reference.
THEOREM NextOccurrence ==
  ASSUME NEW birth, Born(birth), NEW zone \in Zones, NEW at \in Int, 0 <= at, at < Day,
         NEW ref, InYears(ref)
  PROVE  LET t == calculateNextOccurrence(birth, zone, ref, at)
         IN  /\ t \in Int /\ ref < t
             /\ IsNextBirthday(t, birth, zone, at, ref)
             /\ \E y \in Years : /\ BirthdayOf(t, birth, y, zone, at)
                                 /\ t = fixOffset(WallOf(birth, y, at), Offset(zone, ref), zone)
                                 /\ LET this == YearOf(toWallClock(ref, zone) \div Day)
                                    IN  y = this \/ y = this + 1
<1> DEFINE t == calculateNextOccurrence(birth, zone, ref, at)
           s == StandardOffset[zone]
           g == Offset(zone, ref)
           found(x) == fixOffset(WallOf(birth, x, at), g, zone)
<1>1. PICK y \in Years : /\ y = YearOf(toWallClock(ref, zone) \div Day) /\ y + 1 \in Years
                         /\ YearStart(y) * Day - s <= ref
                         /\ ref < YearStart(y + 1) * Day - s
  BY YearOfClock
<1>2. y \in Nat /\ y + 1 \in Nat /\ ref \in Int /\ s \in Int
  BY <1>1, YearsInHorizon, OffsetTable DEF InYears
<1>3. t = IF found(y) <= ref THEN found(y + 1) ELSE found(y)
  BY <1>1, <1>2, BirthdayIsFixed DEF calculateNextOccurrence
<1>4. \A x \in Years : found(x) \in Int /\ BirthdayOf(found(x), birth, x, zone, at)
  <2> TAKE x \in Years
  <2>1. WallOf(birth, x, at) \in Int
    BY WallOfYear
  <2> QED BY <2>1, FixedIsShown DEF BirthdayOf
<1> HIDE DEF t
<1>5. \A x \in Years : x < y => found(x) <= ref
  <2> TAKE x \in Years
  <2> HAVE x < y
  <2>1. x \in Nat /\ x + 1 \in Nat /\ Shows(zone, found(x), WallOf(birth, x, at))
    BY <1>4, YearsInHorizon DEF BirthdayOf
  <2>2. found(x) \in Int /\ found(x) < YearStart(x + 1) * Day - s
    BY <2>1, WallOfYear, ShownInYear
  <2>3. PICK a \in Int, b \in Int : a = YearStart(x + 1) /\ b = YearStart(y)
    BY <1>2, <2>1, YearsAreInt
  <2>4. a <= b
    BY <1>2, <2>1, <2>3, YearsFollow
  <2>5. a * 86400 <= b * 86400
    BY <2>4
  <2> QED BY <1>1, <1>2, <2>2, <2>3, <2>5 DEF Day
<1>6. ref < found(y + 1)
  <2>1. found(y + 1) \in Int /\ YearStart(y + 1) * Day - s <= found(y + 1)
    BY <1>1, <1>2, <1>4, WallOfYear, ShownInYear DEF BirthdayOf
  <2>2. PICK a \in Int : a = YearStart(y + 1) * Day
    BY <1>2, YearsAreInt DEF Day
  <2> QED BY <1>1, <1>2, <2>1, <2>2
<1> HIDE DEF found
<1>7. PICK z \in Years : /\ t = found(z) /\ ref < t
                         /\ z = y \/ (z = y + 1 /\ found(y) <= ref)
  <2>1. CASE found(y) <= ref
    BY <1>1, <1>3, <1>6, <2>1
  <2>2. CASE ~(found(y) <= ref)
    <3>1. found(y) \in Int
      BY <1>1, <1>4
    <3> QED BY <1>1, <1>2, <1>3, <2>2, <3>1
  <2> QED BY <2>1, <2>2
<1>8. \A x \in Years : found(x) <= ref \/ t <= found(x)
  <2> TAKE x \in Years
  <2>1. x \in Nat /\ z \in Nat /\ found(x) \in Int
    BY <1>4, YearsInHorizon
  <2>2. CASE x < z
    BY <1>2, <1>5, <1>7, <2>1, <2>2
  <2>3. CASE x = z
    BY <1>7, <2>1, <2>3
  <2>4. CASE z < x
    <3>1. BirthdayOf(found(z), birth, z, zone, at) /\ BirthdayOf(found(x), birth, x, zone, at)
      BY <1>4
    <3>2. found(z) \in Int /\ found(z) < found(x)
      BY <2>1, <2>4, <3>1, BirthdaysAreOrdered
    <3> QED BY <1>7, <2>1, <3>2
  <2> QED BY <2>1, <2>2, <2>3, <2>4
<1>9. \A wall \in Birthdays(birth, at) : \E i \in Instants(wall, zone) : i <= ref \/ t <= i
  <2> TAKE wall \in Birthdays(birth, at)
  <2>1. PICK x \in Years : wall = WallOf(birth, x, at)
    BY DEF Birthdays, WallOf, DayOf
  <2>2. wall \in Int
    BY <2>1, WallOfYear
  <2>3. found(x) \in Instants(wall, zone)
    BY <1>4, <2>1, <2>2, InstantsShow DEF BirthdayOf
  <2> QED BY <1>8, <2>3
<1>10. t \in Int /\ BirthdayOf(t, birth, z, zone, at)
  BY <1>4, <1>7
<1>11. IsNextBirthday(t, birth, zone, at, ref)
  BY <1>7, <1>9, <1>10, BirthdayIsBirthday DEF IsNextBirthday
<1> QED BY <1>1, <1>7, <1>10, <1>11 DEF t, found

-----------------------------------------------------------------------------
(***************************************************************************)
(* Times are converted twice.  The second conversion changes nothing.      *)
(***************************************************************************)
LEMMA SummerInNewYork ==
  ASSUME NEW t \in Nat, t < Horizon
  PROVE  /\ StandardOffset["New_York"] = -18000
         /\ Offset("New_York", t) = IF \E y \in Nat : y >= FirstYear /\ SummerOf(y, t) THEN -14400 ELSE -18000
<1>1. Offset("New_York", t) = -18000 + IF IsSummer(t) THEN 3600 ELSE 0
  BY ZoneTable DEF Offset, Hour
<1> QED BY <1>1, ZoneTable, SummerIsOfAYear

\* Summer lasts longer than an hour.
LEMMA SummerGoesOn ==
  ASSUME NEW t \in Nat, t >= Hour, t + Hour < Horizon,
         Offset("New_York", t) = -14400, Offset("New_York", t - Hour) = -18000
  PROVE  Offset("New_York", t + Hour) = -14400
<1>1. t - Hour \in Nat /\ t + Hour \in Nat /\ t - Hour < Horizon /\ t < Horizon
  BY DEF Hour, Horizon, Day
<1>2. PICK y \in Nat : y >= FirstYear /\ SummerOf(y, t)
  BY <1>1, SummerInNewYork
<1>3. ~SummerOf(y, t - Hour)
  BY <1>1, <1>2, SummerInNewYork
<1>4. PICK a \in Int : a = YearStart(y) + LeapDays(y)
  BY YearsAreInt DEF LeapDays
<1>5. SummerOf(y, t + Hour)
  BY <1>2, <1>3, <1>4 DEF SummerOf, Day, Hour
<1> QED BY <1>1, <1>2, <1>5, SummerInNewYork

\* The wall clock of an instant that was found is found there again.
LEMMA ConversionIsStable ==
  ASSUME NEW zone \in Zones, NEW wall \in Nat, wall + Day < Horizon, NEW present
  PROVE  LET t == fixOffset(wall, Offset(zone, present), zone)
         IN  fixOffset(toWallClock(t, zone), Offset(zone, present), zone) = t
<1> DEFINE g == Offset(zone, present)
           t == fixOffset(wall, g, zone)
<1>1. PICK s \in Int : s = StandardOffset[zone]
  BY OffsetTable
<1>2. t \in Int /\ Shows(zone, t, wall)
  BY FixedIsShown
<1>3. g = s \/ g = s + Hour
  BY <1>1, OffsetTable
<1>4. CASE toWallClock(t, zone) = wall
  BY <1>4
<1>5. CASE t = wall - s /\ Offset(zone, t) # s /\ Offset(zone, t - Hour) # s + Hour
  <2>1. zone = "New_York" /\ s = -18000
    BY <1>1, <1>5, OffsetTable
  <2>2. t = wall + 18000 /\ t - Hour \in Int
    BY <1>2, <1>5, <2>1 DEF Hour
  <2>3. Offset(zone, t) = -14400 /\ Offset(zone, t - Hour) = -18000
    <3>1. \A c : Offset(zone, c) = -18000 \/ Offset(zone, c) = -14400
      BY <1>1, <2>1, OffsetTable DEF Hour
    <3> QED BY <1>5, <2>1, <3>1 DEF Hour
  <2>4. Offset(zone, t + Hour) = -14400
    <3>1. t \in Nat /\ t >= Hour /\ t + Hour < Horizon
      BY <2>2 DEF Hour, Day, Horizon
    <3> QED BY <2>1, <2>3, <3>1, SummerGoesOn
  <2>5. PICK c \in Int : c = toWallClock(t, zone) /\ c = t - 14400
    BY <1>2, <2>3 DEF toWallClock
  <2>6. c + 14400 = t /\ c + 18000 = t + Hour
    BY <1>2, <2>5 DEF Hour
  <2>7. c - (-14400) = t /\ c - (-18000) = t + Hour
    BY <2>5, <2>6
  <2>8. g = -18000 \/ g = -14400
    BY <1>3, <2>1 DEF Hour
  <2> HIDE DEF g, t
  <2>9. CASE g = -14400
    BY <2>3, <2>5, <2>7, <2>9 DEF fixOffset, g, t
  <2>10. CASE g = -18000
    BY <2>3, <2>4, <2>5, <2>7, <2>10 DEF fixOffset, g, t
  <2> QED BY <2>8, <2>9, <2>10
<1>6. \/ t = wall - s /\ Offset(zone, t) = s
      \/ t = wall - s - Hour /\ Offset(zone, t) = s + Hour
      \/ t = wall - s /\ Offset(zone, t) # s /\ Offset(zone, t - Hour) # s + Hour
  BY <1>1, <1>2 DEF Shows
<1>7. t = wall - s /\ Offset(zone, t) = s => toWallClock(t, zone) = wall
  BY <1>1 DEF toWallClock
<1>8. t = wall - s - Hour /\ Offset(zone, t) = s + Hour => toWallClock(t, zone) = wall
  BY <1>1 DEF toWallClock, Hour
<1> QED BY <1>4, <1>5, <1>6, <1>7, <1>8

\* Clocks are not changed after eight in the morning of a day n.
LEMMA SummerByDay ==
  ASSUME NEW y \in Int, NEW n \in Int, NEW c \in Int, NEW d \in Int,
         8 * Hour <= c, c < Day, 8 * Hour <= d, d < Day
  PROVE  SummerOf(y, n * Day + c + 5 * Hour) <=> SummerOf(y, n * Day + d + 5 * Hour)
<1>1. PICK a \in Int, b \in Int : /\ a = YearStart(y) + LeapDays(y) + 72
                                  /\ b = YearStart(y) + LeapDays(y) + 310
  BY YearsAreInt DEF LeapDays
<1>2. ASSUME NEW e \in Int, 8 * Hour <= e, e < Day
      PROVE  SummerOf(y, n * Day + e + 5 * Hour) <=> a <= n /\ n < b
  <2>1. PICK k \in Int, m \in Int : k = a - n /\ m = b - n
    OBVIOUS
  <2>2. a * 86400 + 7 * 3600 <= n * 86400 + e + 5 * 3600 <=> k * 86400 <= e - 7200
    BY <2>1
  <2>3. n * 86400 + e + 5 * 3600 < b * 86400 + 6 * 3600 <=> e - 3600 < m * 86400
    BY <2>1
  <2>4. k * 86400 <= e - 7200 <=> k <= 0
    BY <1>2 DEF Hour, Day
  <2>5. e - 3600 < m * 86400 <=> m >= 1
    BY <1>2 DEF Hour, Day
  <2>6. SummerOf(y, n * Day + e + 5 * Hour) <=>
          a * 86400 + 7 * 3600 <= n * 86400 + e + 5 * 3600 /\ n * 86400 + e + 5 * 3600 < b * 86400 + 6 * 3600
    BY <1>1 DEF SummerOf, Day, Hour
  <2> QED BY <2>1, <2>2, <2>3, <2>4, <2>5, <2>6
<1> QED BY <1>2

LEMMA OffsetByDay ==
  ASSUME NEW zone \in Zones, NEW n \in Nat, (n + 2) * Day < Horizon,
         NEW c \in Int, NEW d \in Int, 8 * Hour <= c, c < Day, 8 * Hour <= d, d < Day
  PROVE  Offset(zone, n * Day + c - StandardOffset[zone]) = Offset(zone, n * Day + d - StandardOffset[zone])
<1>1. PICK s \in Int : s = StandardOffset[zone] /\ (s # -18000 => \A t : Offset(zone, t) = s)
                       /\ (s = -18000 => zone = "New_York")
  BY OffsetTable, ZoneTable
<1>2. CASE s # -18000
  BY <1>1, <1>2
<1>3. CASE s = -18000
  <2>1. PICK p \in Nat, q \in Nat : /\ p = n * Day + c + 5 * Hour /\ p < Horizon
                                    /\ q = n * Day + d + 5 * Hour /\ q < Horizon
    BY DEF Day, Hour, Horizon
  <2>2. p = n * Day + c - s /\ q = n * Day + d - s
    BY <1>3, <2>1 DEF Day, Hour
  <2>3. \A y \in Nat : SummerOf(y, p) <=> SummerOf(y, q)
    BY <2>1, SummerByDay
  <2>4. Offset("New_York", p) = Offset("New_York", q)
    BY <2>1, <2>3, SummerInNewYork
  <2> QED BY <1>1, <1>3, <2>2, <2>4
<1> QED BY <1>2, <1>3

\* After nine a wall clock is shown once.
LEMMA ShownOnce ==
  ASSUME NEW zone \in Zones, NEW n \in Nat, (n + 2) * Day < Horizon,
         NEW at \in Int, 9 * Hour <= at, at < Day,
         NEW wall \in Int, wall = n * Day + at, NEW t, Shows(zone, t, wall)
  PROVE  /\ t \in Int /\ toWallClock(t, zone) = wall
         /\ t = wall - Offset(zone, wall - StandardOffset[zone])
         /\ \A present : fixOffset(wall, Offset(zone, present), zone) = t
<1>1. PICK s \in Int : s = StandardOffset[zone]
  BY OffsetTable
<1>2. PICK o \in Int : o = Offset(zone, wall - s) /\ (o = s \/ o = s + Hour)
  BY <1>1, OffsetTable
<1>3. Offset(zone, wall - s - Hour) = o
  <2>1. PICK d \in Int : d = at - Hour /\ 8 * Hour <= d /\ d < Day
    BY DEF Hour, Day
  <2>2. Offset(zone, n * Day + at - s) = Offset(zone, n * Day + d - s)
    <3>1. 8 * Hour <= at
      BY DEF Hour
    <3> QED BY <1>1, <2>1, <3>1, OffsetByDay
  <2>3. n * Day + d - s = wall - s - Hour
    BY <1>1, <2>1 DEF Day, Hour
  <2>4. n * Day + at - s = wall - s
    BY <1>1 DEF Day
  <2> QED BY <1>2, <2>2, <2>3, <2>4
<1>4. ASSUME NEW c, Shows(zone, c, wall) PROVE c = wall - o /\ toWallClock(c, zone) = wall
  <2>1. s + Hour \in Int /\ s # s + Hour
    BY <1>1 DEF Hour
  <2>2. \/ o = s /\ c = wall - s
        \/ o = s + Hour /\ c = wall - s - Hour
    BY <1>1, <1>2, <1>3, <1>4, <2>1 DEF Shows
  <2>3. c = wall - o /\ Offset(zone, c) = o
    <3>1. wall - s - Hour = wall - o \/ o = s
      BY <1>2 DEF Hour
    <3> QED BY <1>2, <1>3, <2>1, <2>2, <3>1
  <2> QED BY <1>2, <2>3 DEF toWallClock
<1>5. \A present : Shows(zone, fixOffset(wall, Offset(zone, present), zone), wall)
  BY FixedIsShown
<1>6. t = wall - o /\ toWallClock(t, zone) = wall /\ wall - o \in Int
  BY <1>4
<1>7. \A present : fixOffset(wall, Offset(zone, present), zone) = wall - o
  BY <1>4, <1>5
<1> QED BY <1>1, <1>2, <1>6, <1>7

LEMMA YearOfBirthday ==
  ASSUME NEW birth, Born(birth), NEW y \in Years, NEW at \in Int, 0 <= at, at < Day
  PROVE  /\ YearOf(WallOf(birth, y, at) \div Day) = y
         /\ \E n \in Nat : WallOf(birth, y, at) = n * Day + at /\ (n + 2) * Day < Horizon
<1>1. PICK wall \in Nat : /\ wall = WallOf(birth, y, at) /\ wall + Day < Horizon
                          /\ YearStart(y) * Day <= wall /\ wall < YearStart(y + 1) * Day
  BY WallOfYear
<1>2. y \in Nat /\ wall < Horizon
  BY <1>1, YearsInHorizon DEF Day, Horizon
<1>3. PICK x \in Nat : /\ x = YearOf(wall \div Day)
                       /\ YearStart(x) * Day <= wall /\ wall < YearStart(x + 1) * Day
  BY <1>2, YearOfInstant
<1>4. x = y
  BY <1>1, <1>2, <1>3, InstantYear
<1>5. PICK n \in Int : wall = n * Day + at /\ YearStart(y) <= n /\ n + 1 <= YearStart(y + 1)
  BY <1>1, <1>2, BirthdayInYear
<1>6. PICK a \in Int, b \in Int : /\ a = YearStart(y) /\ b = YearStart(y + 1)
                                  /\ 0 <= a * Day /\ b * Day + 10 * Day < Horizon
  BY YearsInHorizon
<1>7. n \in Nat /\ (n + 2) * Day < Horizon
  BY <1>5, <1>6 DEF Day, Horizon
<1> QED BY <1>1, <1>3, <1>4, <1>5, <1>7

LEMMA BirthdayOnce ==
  ASSUME NEW birth, Born(birth), NEW zone \in Zones, NEW at \in Int, 9 * Hour <= at, at < Day,
         NEW y, NEW t, BirthdayOf(t, birth, y, zone, at)
  PROVE  /\ t \in Int
         /\ YearOf(toWallClock(t, zone) \div Day) = y
         /\ \A present : fixOffset(WallOf(birth, y, at), Offset(zone, present), zone) = t
         /\ \A present : fixOffset(toWallClock(t, zone), Offset(zone, present), zone) = t
<1>1. 0 <= at /\ y \in Years
  BY DEF Hour, BirthdayOf
<1>2. PICK wall \in Nat : wall = WallOf(birth, y, at)
  BY <1>1, WallOfYear
<1>3. PICK n \in Nat : wall = n * Day + at /\ (n + 2) * Day < Horizon
  BY <1>1, <1>2, YearOfBirthday
<1>4. Shows(zone, t, wall)
  BY <1>2 DEF BirthdayOf
<1>5. /\ t \in Int /\ toWallClock(t, zone) = wall
      /\ \A present : fixOffset(wall, Offset(zone, present), zone) = t
  BY <1>2, <1>4, <1>3, ShownOnce
<1> QED BY <1>1, <1>2, <1>5, YearOfBirthday

\* What follows a birthday celebrated at nine or later is the birthday of the next year.
LEMMA FollowerIsYearLater ==
  ASSUME NEW birth, Born(birth), NEW zone \in Zones, NEW at \in Int, BIRTHDAY <= at, at < Day,
         NEW y, NEW ref, BirthdayOf(ref, birth, y, zone, at), InYears(ref)
  PROVE  BirthdayOf(calculateNextOccurrence(birth, zone, ref, BIRTHDAY), birth, y + 1, zone, BIRTHDAY)
<1> DEFINE t == calculateNextOccurrence(birth, zone, ref, BIRTHDAY)
<1>1. /\ 9 * Hour <= at /\ 0 <= at /\ y \in Years
      /\ BIRTHDAY \in Int /\ 9 * Hour <= BIRTHDAY /\ 0 <= BIRTHDAY /\ BIRTHDAY < Day
      /\ 8 * Hour <= at /\ 8 * Hour <= BIRTHDAY
  BY DEF BIRTHDAY, Hour, Day, BirthdayOf
<1>2. YearOf(toWallClock(ref, zone) \div Day) = y
  BY <1>1, BirthdayOnce
<1>3. PICK z \in Years : /\ BirthdayOf(t, birth, z, zone, BIRTHDAY) /\ ref < t /\ t \in Int
                         /\ z = y \/ z = y + 1
  BY <1>1, <1>2, NextOccurrence
<1>4. ASSUME z = y PROVE FALSE
  <2> DEFINE k == DayNumber(y, birth.month, DayOf(birth, y))
  <2>1. k \in Int
    <3>1. y \in Int /\ birth.month \in 1 .. 12
      BY <1>1, YearsInHorizon DEF Born
    <3>2. DayOf(birth, y) \in 1 .. DaysInMonth(y, birth.month)
      BY <3>1, BirthdayDay
    <3> QED BY <3>1, <3>2, DateInYear
  <2>2. /\ WallOf(birth, y, at) = k * Day + at /\ WallOf(birth, y, BIRTHDAY) = k * Day + BIRTHDAY
        /\ WallOf(birth, y, at) \in Nat /\ WallOf(birth, y, BIRTHDAY) \in Nat
    BY <1>1, WallOfYear DEF WallOf
  <2> HIDE DEF k
  <2>3. PICK n \in Int, w \in Nat, v \in Nat : /\ w = WallOf(birth, y, at) /\ w = n * Day + at
                                               /\ v = WallOf(birth, y, BIRTHDAY) /\ v = n * Day + BIRTHDAY
    BY <2>1, <2>2, SMTT(30)
  <2>4. n \in Nat /\ (n + 2) * Day < Horizon
    <3>1. PICK m \in Nat : w = m * Day + at /\ (m + 2) * Day < Horizon
      BY <1>1, <2>3, YearOfBirthday
    <3>2. m = n
      BY <2>3, <3>1 DEF Day
    <3> QED BY <3>1, <3>2
  <2>5. PICK s \in Int : s = StandardOffset[zone]
    BY OffsetTable
  <2>6. PICK o \in Int : o = Offset(zone, w - s) /\ o = Offset(zone, v - s)
    <3>1. Offset(zone, n * Day + at - s) = Offset(zone, n * Day + BIRTHDAY - s)
      BY <1>1, <2>4, <2>5, OffsetByDay
    <3>2. n * Day + at - s = w - s /\ n * Day + BIRTHDAY - s = v - s
      BY <1>1, <2>3 DEF Day
    <3> QED BY <3>1, <3>2, OffsetTable
  <2>7. ref = w - o
    BY <1>1, <2>3, <2>4, <2>5, <2>6, ShownOnce DEF BirthdayOf
  <2>8. t = v - o
    BY <1>1, <1>3, <1>4, <2>3, <2>4, <2>5, <2>6, ShownOnce DEF BirthdayOf
  <2>9. v <= w
    BY <1>1, <2>3 DEF BIRTHDAY, Day, Hour
  <2> QED BY <1>3, <2>3, <2>6, <2>7, <2>8, <2>9
<1> QED BY <1>3, <1>4

-----------------------------------------------------------------------------
(***************************************************************************)
(* Days and their dates.                                                   *)
(***************************************************************************)
IsMonthOf(y, d, m) == DaysBefore(y, m) <= d /\ d < DaysBefore(y, m + 1)

LEMMA MonthOfDay ==
  ASSUME NEW y, NEW d \in Int, 0 <= d, d < 365 + LeapDays(y)
  PROVE  \E m \in d \div 31 + 1 .. d \div 31 + 2 : IsMonthOf(y, d, m)
<1>1. PICK m \in 1 .. 12 : IsMonthOf(y, d, m)
  BY MonthTable DEF IsMonthOf
<1>2. 31 * (m - 2) <= d /\ d < 31 * m
  BY <1>1, MonthTable DEF IsMonthOf
<1>3. m = d \div 31 + 1 \/ m = d \div 31 + 2
  BY <1>2
<1> QED BY <1>1, <1>3

\* Dates are to days what days are to dates.
LEMMA DateOfDay ==
  ASSUME NEW n \in Nat, NEW y \in Nat, y = YearOf(n), YearStart(y) <= n, n < YearStart(y + 1)
  PROVE  LET date == DateOf(n)
         IN  /\ date.year = y /\ date.month \in 1 .. 12 /\ date.day \in 1 .. DaysInMonth(y, date.month)
             /\ DayNumber(y, date.month, date.day) = n
<1>1. PICK d \in Int : d = n - YearStart(y) /\ 0 <= d /\ d < 365 + LeapDays(y)
  BY YearIsLong, YearsAreInt DEF LeapDays
<1> DEFINE m == CHOOSE m \in d \div 31 + 1 .. d \div 31 + 2 : DaysBefore(y, m) <= d /\ d < DaysBefore(y, m + 1)
<1>2. DateOf(n) = [year |-> y, month |-> m, day |-> d - DaysBefore(y, m) + 1]
  BY <1>1 DEF DateOf
<1>3. m \in d \div 31 + 1 .. d \div 31 + 2 /\ DaysBefore(y, m) <= d /\ d < DaysBefore(y, m + 1)
  BY <1>1, MonthOfDay DEF IsMonthOf
<1> HIDE DEF m
<1>4. m \in 1 .. 12
  <2>1. m \in Int /\ 1 <= m /\ m <= 13
    BY <1>1, <1>3, MonthTable
  <2>2. ASSUME m = 13 PROVE FALSE
    BY <1>1, <1>3, <2>2, MonthTable
  <2> QED BY <2>1, <2>2
<1>5. PICK b \in Int, l \in Int : b = DaysBefore(y, m) /\ l = DaysInMonth(y, m) /\ DaysBefore(y, m + 1) = b + l
  <2>1. DaysBefore(y, m) \in Int /\ DaysBefore(y, m + 1) \in Int
    BY <1>4, MonthTable
  <2> QED BY <2>1 DEF DaysInMonth
<1>6. PICK s \in Int : s = YearStart(y)
  BY YearsAreInt
<1> QED BY <1>1, <1>2, <1>3, <1>4, <1>5, <1>6 DEF DayNumber

\* The order of two dates is the order of their days: within a year, and across years.
SameOrder(y, m, d, k, e) ==
  DayNumber(y, m, d) <= DayNumber(y, k, e) <=> m * 100 + d <= k * 100 + e

LEMMA DatesInYear ==
  ASSUME NEW y \in Int, NEW m \in 1 .. 12, NEW d \in 1 .. DaysInMonth(y, m),
         NEW k \in 1 .. 12, NEW e \in 1 .. DaysInMonth(y, k)
  PROVE  SameOrder(y, m, d, k, e)
<1>1. PICK s \in Int : s = YearStart(y)
  BY YearsAreInt
<1>2. PICK a \in Int, b \in Int : a = DaysBefore(y, m) /\ b = DaysBefore(y, k)
  <2>1. DaysBefore(y, m) \in Int /\ DaysBefore(y, k) \in Int
    BY MonthTable
  <2> QED BY <2>1
<1>3. d \in 1 .. 31 /\ e \in 1 .. 31 /\ d <= DaysInMonth(y, m) /\ e <= DaysInMonth(y, k)
  BY MonthLengths
<1>4. CASE m = k
  BY <1>1, <1>2, <1>3, <1>4 DEF DayNumber, SameOrder
<1>5. CASE m < k
  <2>1. a + d <= b
    <3>1. a + DaysInMonth(y, m) <= b
      BY <1>2, <1>5, MonthTable DEF DaysInMonth
    <3> QED BY <1>2, <1>3, <3>1, MonthLengths
  <2> QED BY <1>1, <1>2, <1>3, <1>5, <2>1 DEF DayNumber, SameOrder
<1>6. CASE k < m
  <2>1. b + e <= a
    <3>1. b + DaysInMonth(y, k) <= a
      BY <1>2, <1>6, MonthTable DEF DaysInMonth
    <3> QED BY <1>2, <1>3, <3>1, MonthLengths
  <2> QED BY <1>1, <1>2, <1>3, <1>6, <2>1 DEF DayNumber, SameOrder
<1> QED BY <1>4, <1>5, <1>6

\* A clock that has reached a midnight does not go back behind it: New York's goes back at two.
LEMMA MidnightStays ==
  ASSUME NEW zone \in Zones, NEW k \in Nat, NEW t \in Int, NEW i \in Int, t <= i, i < Horizon,
         k * Day <= toWallClock(t, zone)
  PROVE  k * Day <= toWallClock(i, zone)
<1>1. PICK mid \in Nat : mid = k * Day
  BY DEF Day
<1>2. CASE zone # "New_York"
  <2>1. PICK s \in Int : Offset(zone, t) = s /\ Offset(zone, i) = s
    BY <1>2, OffsetTable
  <2> QED BY <1>1, <2>1 DEF toWallClock
<1>3. CASE zone = "New_York"
  <2>1. PICK o \in {-18000, -14400} : o = Offset(zone, t)
    BY <1>3, OffsetTable, ZoneTable DEF Hour
  <2>2. PICK p \in {-18000, -14400} : p = Offset(zone, i)
    BY <1>3, OffsetTable, ZoneTable DEF Hour
  <2>3. t \in Nat /\ i \in Nat /\ t < Horizon /\ mid <= t + o
    BY <1>1, <2>1 DEF toWallClock, Horizon, Day
  <2>4. CASE o <= p
    BY <1>1, <2>1, <2>2, <2>3, <2>4 DEF toWallClock
  <2>5. CASE o = -14400 /\ p = -18000
    <3>1. PICK y \in Nat : y >= FirstYear /\ SummerOf(y, t)
      BY <1>3, <2>1, <2>3, <2>5, SummerInNewYork
    <3>2. ~SummerOf(y, i)
      BY <1>3, <2>2, <2>3, <2>5, <3>1, SummerInNewYork
    <3>3. PICK b \in Int, c \in Int : /\ b = (YearStart(y) + LeapDays(y) + 72) * Day + 7 * Hour
                                      /\ c = YearStart(y) + LeapDays(y) + 310
      BY YearsAreInt DEF LeapDays, Day, Hour
    <3>4. b <= t /\ t < c * Day + 6 * Hour /\ ~(b <= i /\ i < c * Day + 6 * Hour)
      BY <3>1, <3>2, <3>3 DEF SummerOf
    <3>5. c * Day + 6 * Hour <= i
      BY <3>4 DEF Day, Hour
    <3>6. k * Day < c * Day + 2 * Hour
      BY <1>1, <2>3, <2>5, <3>4 DEF Day, Hour
    <3>7. k <= c
      BY <3>6 DEF Day, Hour
    <3>8. k * Day <= i - 18000
      BY <3>5, <3>7 DEF Day, Hour
    <3> QED BY <2>2, <2>5, <3>8 DEF toWallClock
  <2> QED BY <2>1, <2>2, <2>4, <2>5
<1> QED BY <1>2, <1>3

\* A date the entities accept has begun: it is not after the host's today.
Begun(birth, zone, t) ==
  birth.year < FirstYear \/ DayNumber(birth.year, birth.month, birth.day) * Day <= toWallClock(t, zone)

LEMMA BornDay ==
  ASSUME NEW birth, Born(birth), birth.year >= FirstYear
  PROVE  DayNumber(birth.year, birth.month, birth.day) \in Nat
<1>1. YearStart(FirstYear) <= YearStart(birth.year)
  <2>1. Apart(FirstYear, birth.year)
    BY YearsGrow, CalendarAssumption DEF Born
  <2>2. PICK a \in Int, b \in Int : /\ a = YearStart(FirstYear) /\ b = YearStart(birth.year)
                                    /\ b - a >= 365 * (birth.year - FirstYear)
    BY <2>1 DEF Apart
  <2> QED BY <2>2, CalendarAssumption DEF Born
<1>2. /\ DayNumber(birth.year, birth.month, birth.day) \in Int
      /\ YearStart(birth.year) <= DayNumber(birth.year, birth.month, birth.day)
  BY DateInYear DEF Born
<1>3. YearStart(birth.year) \in Int
  BY YearsAreInt DEF Born
<1> QED BY <1>1, <1>2, <1>3, FirstDay

LEMMA EarlierDate ==
  ASSUME NEW birth, Born(birth), NEW n \in Nat, NEW y \in Nat, y >= FirstYear, y = YearOf(n),
         YearStart(y) <= n, n < YearStart(y + 1),
         \/ birth.year < FirstYear
         \/ DayNumber(birth.year, birth.month, birth.day) <= n
  PROVE  LET today == DateOf(n)
         IN  \/ birth.year < today.year
             \/ /\ birth.year = today.year
                /\ \/ birth.month < today.month
                   \/ birth.month = today.month /\ birth.day <= today.day
<1> DEFINE today == DateOf(n)
<1>1. /\ today.year = y /\ today.month \in 1 .. 12 /\ today.day \in 1 .. DaysInMonth(y, today.month)
      /\ DayNumber(y, today.month, today.day) = n
  BY DateOfDay
<1> HIDE DEF today
<1>2. birth.year \in Int /\ birth.month \in 1 .. 12 /\ birth.day \in 1 .. DaysInMonth(birth.year, birth.month)
  BY DEF Born
<1>3. birth.year <= y
  <2>1. SUFFICES ASSUME y < birth.year PROVE FALSE
    BY <1>2
  <2>2. birth.year >= FirstYear
    BY <1>2, <2>1, CalendarAssumption
  <2>3. YearStart(y + 1) <= YearStart(birth.year)
    BY <1>2, <2>1, YearsFollow
  <2>4. PICK k \in Int : /\ k = DayNumber(birth.year, birth.month, birth.day)
                         /\ YearStart(birth.year) <= k /\ k <= n
    BY <1>2, <2>2, DateInYear, CalendarAssumption
  <2>5. PICK a \in Int, b \in Int : a = YearStart(y + 1) /\ b = YearStart(birth.year)
    BY <1>2, YearsAreInt
  <2> QED BY <2>3, <2>4, <2>5
<1>4. CASE birth.year = y
  <2>1. birth.month * 100 + birth.day <= today.month * 100 + today.day
    <3>1. DayNumber(y, birth.month, birth.day) <= DayNumber(y, today.month, today.day)
      BY <1>1, <1>2, <1>4, CalendarAssumption
    <3>2. birth.day \in 1 .. DaysInMonth(y, birth.month) /\ y \in Int
      BY <1>2, <1>4
    <3>3. SameOrder(y, birth.month, birth.day, today.month, today.day)
      BY <1>1, <1>2, <3>2, DatesInYear
    <3> QED BY <3>1, <3>3 DEF SameOrder
  <2>2. birth.day \in 1 .. 31 /\ today.day \in 1 .. 31
    BY <1>1, <1>2, MonthLengths
  <2> QED BY <1>1, <1>2, <1>4, <2>1, <2>2 DEF today
<1> QED BY <1>1, <1>2, <1>3, <1>4 DEF today

\* What has begun on a clock has a date on or before today's.
LEMMA BegunIsEarlier ==
  ASSUME NEW birth, Born(birth), NEW zone \in Zones, NEW t, InYears(t), Begun(birth, zone, t)
  PROVE  LET today == DateOf(toWallClock(t, zone) \div Day)
         IN  \/ birth.year < today.year
             \/ /\ birth.year = today.year
                /\ \/ birth.month < today.month
                   \/ birth.month = today.month /\ birth.day <= today.day
<1>1. PICK wall \in Nat, y \in Years : /\ wall = toWallClock(t, zone) /\ y = YearOf(wall \div Day)
                                       /\ YearStart(y) * Day <= wall /\ wall < YearStart(y + 1) * Day
  BY YearOfClock
<1>2. PICK a \in Int, b \in Int : /\ a = YearStart(y) /\ b = YearStart(y + 1)
                                  /\ y \in Nat /\ y >= FirstYear
  BY YearsAreInt, YearsInHorizon, CalendarAssumption DEF Years
<1>3. PICK n \in Nat : n = wall \div Day /\ n * Day <= wall /\ wall < (n + 1) * Day
  BY DEF Day
<1>4. a <= n /\ n < b
  BY <1>1, <1>2, <1>3 DEF Day
<1>5. \/ birth.year < FirstYear
      \/ DayNumber(birth.year, birth.month, birth.day) <= n
  <2>1. SUFFICES ASSUME birth.year >= FirstYear PROVE DayNumber(birth.year, birth.month, birth.day) <= n
    BY CalendarAssumption DEF Born
  <2>2. PICK k \in Nat : k = DayNumber(birth.year, birth.month, birth.day)
    BY <2>1, BornDay
  <2>3. k * Day <= wall
    BY <1>1, <2>1, <2>2, CalendarAssumption DEF Begun, Born
  <2> QED BY <1>3, <2>2, <2>3 DEF Day
<1> QED BY <1>1, <1>2, <1>3, <1>4, <1>5, EarlierDate

-----------------------------------------------------------------------------
(***************************************************************************)
(* The search for upcoming birthdays compares months and days as numbers,  *)
(* which is the order of the days but for births on 29 February.           *)
(***************************************************************************)
BirthdayIn(birth, y) == DayNumber(y, birth.month, DayOf(birth, y))

LEMMA BirthdayOfYear ==
  ASSUME NEW birth, Born(birth), NEW y \in Int
  PROVE  /\ BirthdayIn(birth, y) \in Int
         /\ YearStart(y) <= BirthdayIn(birth, y) /\ BirthdayIn(birth, y) < YearStart(y + 1)
         /\ DayOf(birth, y) \in 1 .. DaysInMonth(y, birth.month)
         /\ \/ DayOf(birth, y) = birth.day
            \/ /\ DayOf(birth, y) = 28 /\ birth.month = 2 /\ birth.day = 29
               /\ DaysInMonth(y, 2) = 28 /\ ~IsLeap(y)
<1>1. DayOf(birth, y) \in 1 .. DaysInMonth(y, birth.month) /\ birth.month \in 1 .. 12
  BY BirthdayDay DEF Born
<1>2. ASSUME birth.day > DaysInMonth(y, birth.month)
      PROVE  /\ birth.month = 2 /\ birth.day = 29
             /\ DaysInMonth(y, 2) = 28 /\ ~IsLeap(y)
  <2>1. PICK k \in 1 .. 12, d \in Int, l \in Int :
          /\ k = birth.month /\ d = birth.day /\ l = DaysInMonth(birth.year, k) /\ d <= l
    <3>1. birth.month \in 1 .. 12 /\ birth.day \in Int /\ DaysInMonth(birth.year, birth.month) \in Int
      BY <1>1, MonthLengths DEF Born
    <3> QED BY <3>1 DEF Born
  <2>2. k = 2
    <3>1. k # 2 => DaysInMonth(y, k) = l
      BY <2>1, MonthLengths
    <3> QED BY <1>2, <2>1, <3>1
  <2>3. l = 28 + LeapDays(birth.year) /\ DaysInMonth(y, 2) = 28 + LeapDays(y)
    BY <2>1, <2>2, MonthLengths
  <2> QED BY <1>2, <2>1, <2>2, <2>3 DEF LeapDays
<1>3. BirthdayIn(birth, y) \in Int /\ YearStart(y) <= BirthdayIn(birth, y) /\ BirthdayIn(birth, y) < YearStart(y + 1)
  BY <1>1, DateInYear DEF BirthdayIn
<1> QED BY <1>1, <1>2, <1>3 DEF DayOf

NotAfter(m, d, birth) == m * 100 + d <= birth.month * 100 + birth.day

NotBefore(m, d, birth) == birth.month * 100 + birth.day <= m * 100 + d

LEMMA NotAfterBirthday ==
  ASSUME NEW birth, Born(birth), NEW y \in Int, NEW m \in 1 .. 12, NEW d \in 1 .. DaysInMonth(y, m)
  PROVE  NotAfter(m, d, birth) <=> DayNumber(y, m, d) <= BirthdayIn(birth, y)
<1>1. PICK k \in 1 .. 12, b \in Int : k = birth.month /\ b = birth.day
  BY MonthLengths DEF Born
<1>2. PICK e \in 1 .. DaysInMonth(y, k) : e = DayOf(birth, y)
  BY <1>1, BirthdayOfYear
<1>3. DayNumber(y, m, d) <= BirthdayIn(birth, y) <=> m * 100 + d <= k * 100 + e
  <2>1. SameOrder(y, m, d, k, e)
    BY <1>2, DatesInYear
  <2> QED BY <1>1, <1>2, <2>1 DEF SameOrder, BirthdayIn
<1>4. d \in 1 .. 31
  BY MonthLengths
<1>5. \/ e = b
      \/ e = 28 /\ k = 2 /\ b = 29 /\ DaysInMonth(y, 2) = 28
  BY <1>1, <1>2, BirthdayOfYear
<1>6. m * 100 + d <= k * 100 + e <=> m * 100 + d <= k * 100 + b
  BY <1>4, <1>5
<1> QED BY <1>1, <1>3, <1>6 DEF NotAfter

LEMMA NotBeforeBirthday ==
  ASSUME NEW birth, Born(birth), NEW y \in Int, NEW m \in 1 .. 12, NEW d \in 1 .. DaysInMonth(y, m),
         ~(birth.month = 2 /\ birth.day = 29 /\ m = 2 /\ d = 28 /\ ~IsLeap(y))
  PROVE  NotBefore(m, d, birth) <=> BirthdayIn(birth, y) <= DayNumber(y, m, d)
<1>1. PICK k \in 1 .. 12, b \in Int : k = birth.month /\ b = birth.day
  BY MonthLengths DEF Born
<1>2. PICK e \in 1 .. DaysInMonth(y, k) : e = DayOf(birth, y)
  BY <1>1, BirthdayOfYear
<1>3. BirthdayIn(birth, y) <= DayNumber(y, m, d) <=> k * 100 + e <= m * 100 + d
  <2>1. SameOrder(y, k, e, m, d)
    BY <1>2, DatesInYear
  <2> QED BY <1>1, <1>2, <2>1 DEF SameOrder, BirthdayIn
<1>4. d \in 1 .. 31
  BY MonthLengths
<1>5. \/ e = b
      \/ e = 28 /\ k = 2 /\ b = 29 /\ ~(m = 2 /\ d = 28)
  BY <1>1, <1>2, BirthdayOfYear
<1>6. k * 100 + e <= m * 100 + d <=> k * 100 + b <= m * 100 + d
  BY <1>4, <1>5
<1> QED BY <1>1, <1>3, <1>6 DEF NotBefore

Sooner(k, e, m, d) == k * 100 + e < m * 100 + d

\* Less than a year ahead, the date has not come round.
LEMMA LessThanAYear ==
  ASSUME NEW y \in Int, NEW m \in 1 .. 12, NEW d \in 1 .. DaysInMonth(y, m),
         NEW k \in 1 .. 12, NEW e \in 1 .. DaysInMonth(y + 1, k),
         DayNumber(y + 1, k, e) <= DayNumber(y, m, d) + 364
  PROVE  Sooner(k, e, m, d)
<1>1. PICK s \in Int, l \in 0 .. 1 : /\ s = YearStart(y) /\ l = LeapDays(y)
                                     /\ YearStart(y + 1) = s + 365 + l
  BY YearsAreInt, YearIsLong DEF LeapDays
<1>2. PICK i \in 0 .. 1 : i = LeapDays(y + 1)
  BY DEF LeapDays
<1>3. PICK n \in Int, x \in Int : /\ n = DayNumber(y, m, d) /\ x = DayNumber(y + 1, k, e)
                                  /\ x <= n + 364
  <2>1. DayNumber(y, m, d) \in Int
    BY DateInYear
  <2>2. y + 1 \in Int
    OBVIOUS
  <2>3. DayNumber(y + 1, k, e) \in Int
    BY <2>2, DateInYear
  <2> QED BY <2>1, <2>3
<1>4. d \in 1 .. 31 /\ e \in 1 .. 31
  BY MonthLengths
<1> DEFINE f == IF d <= DaysInMonth(y + 1, m) THEN d ELSE 28
<1>5. f \in 1 .. DaysInMonth(y + 1, m) /\ f <= d /\ (f # d => m = 2 /\ d = 29 /\ f = 28 /\ l = 1)
  <2>1. m # 2 => DaysInMonth(y + 1, m) = DaysInMonth(y, m)
    BY MonthLengths
  <2>2. m = 2 => DaysInMonth(y + 1, m) = 28 + i /\ DaysInMonth(y, m) = 28 + l
    BY <1>1, <1>2, MonthLengths
  <2>3. DaysInMonth(y, m) \in Int /\ DaysInMonth(y + 1, m) \in Int /\ d <= DaysInMonth(y, m)
    BY MonthLengths
  <2> QED BY <1>4, <2>1, <2>2, <2>3
<1> HIDE DEF f
<1>6. PICK g \in Int : g = DayNumber(y + 1, m, f) /\ n + 365 <= g
  <2>1. PICK a \in Int, b \in Int : /\ a = DaysBefore(y, m) /\ b = DaysBefore(y + 1, m)
                                    /\ b - a = IF m > 2 THEN i - l ELSE 0
    BY <1>1, <1>2, MonthTable
  <2>2. n = s + a + d - 1 /\ DayNumber(y + 1, m, f) = s + 365 + l + b + f - 1
    BY <1>1, <1>3, <2>1 DEF DayNumber
  <2> QED BY <1>1, <1>2, <1>4, <1>5, <2>1, <2>2
<1>7. ~(m * 100 + f <= k * 100 + e)
  <2>1. SameOrder(y + 1, m, f, k, e)
    <3>1. PICK z \in Int : z = y + 1
      OBVIOUS
    <3>2. f \in 1 .. DaysInMonth(z, m) /\ e \in 1 .. DaysInMonth(z, k)
      BY <1>5, <3>1
    <3>3. SameOrder(z, m, f, k, e)
      BY <3>2, DatesInYear
    <3> QED BY <3>1, <3>3
  <2> QED BY <1>3, <1>6, <2>1 DEF SameOrder
<1> QED BY <1>4, <1>5, <1>7 DEF Sooner

\* The days of the birthdays of a range of less than a year are in its first or next year.
LEMMA BirthdaysInRange ==
  ASSUME NEW birth, Born(birth), NEW y \in Years, y + 1 \in Years, NEW n \in Int, NEW last \in Int,
         YearStart(y) <= n, n < YearStart(y + 1), n <= last, last <= n + 364
  PROVE  (\E wall \in Birthdays(birth, 0) : wall \div Day \in n .. last) <=>
           \/ n <= BirthdayIn(birth, y) /\ BirthdayIn(birth, y) <= last
           \/ BirthdayIn(birth, y + 1) <= last
<1>1. y \in Int /\ y + 1 \in Int
  BY YearsInHorizon
<1>2. \A x \in Years : /\ BirthdayIn(birth, x) \in Int /\ x \in Int
                       /\ WallOf(birth, x, 0) \div Day = BirthdayIn(birth, x)
  <2>1. SUFFICES ASSUME NEW x \in Years
                 PROVE  /\ BirthdayIn(birth, x) \in Int /\ x \in Int
                        /\ WallOf(birth, x, 0) \div Day = BirthdayIn(birth, x)
    OBVIOUS
  <2>2. x \in Int
    BY YearsInHorizon
  <2>3. PICK k \in Int : k = BirthdayIn(birth, x)
    BY <2>2, BirthdayOfYear
  <2>4. WallOf(birth, x, 0) = k * Day
    BY <2>3 DEF WallOf, BirthdayIn, Day
  <2>5. (k * Day) \div Day = k
    BY DEF Day
  <2> QED BY <2>2, <2>3, <2>4, <2>5
<1>3. \A wall : wall \in Birthdays(birth, 0) <=> \E x \in Years : wall = WallOf(birth, x, 0)
  BY DEF Birthdays, WallOf, DayOf
<1>4. (\E wall \in Birthdays(birth, 0) : wall \div Day \in n .. last) <=>
        \E x \in Years : n <= BirthdayIn(birth, x) /\ BirthdayIn(birth, x) <= last
  BY <1>2, <1>3
<1>5. PICK a \in Int, b \in Int, c \in Int : /\ a = YearStart(y) /\ b = YearStart(y + 1) /\ c = YearStart(y + 1 + 1)
                                             /\ a + 365 <= b /\ b + 365 <= c /\ b <= a + 366
  <2>1. PICK z \in Int : z = y + 1
    BY <1>1
  <2>2. /\ YearStart(y) \in Int /\ YearStart(z) \in Int /\ YearStart(z + 1) \in Int
        /\ YearStart(y) + 365 <= YearStart(z) /\ YearStart(z) <= YearStart(y) + 366
        /\ YearStart(z) + 365 <= YearStart(z + 1)
    BY <1>1, <2>1, YearsAreInt, YearIsLong
  <2> QED BY <2>1, <2>2
<1>6. ASSUME NEW x \in Years, n <= BirthdayIn(birth, x), BirthdayIn(birth, x) <= last
      PROVE  x = y \/ x = y + 1
  <2>1. PICK k \in Int : /\ k = BirthdayIn(birth, x)
                         /\ YearStart(x) <= k /\ k < YearStart(x + 1) /\ x \in Int
    BY <1>2, BirthdayOfYear
  <2>2. ASSUME x < y PROVE FALSE
    <3>1. YearStart(x + 1) <= a /\ YearStart(x + 1) \in Int
      BY <1>1, <1>5, <2>1, <2>2, YearsFollow, YearsAreInt
    <3> QED BY <1>5, <1>6, <2>1, <3>1
  <2>3. ASSUME y + 1 < x PROVE FALSE
    <3>1. c <= YearStart(x) /\ YearStart(x) \in Int
      <4>1. PICK z \in Int : z = y + 1 /\ z < x
        BY <1>1, <2>3
      <4> QED BY <1>5, <2>1, <4>1, YearsFollow, YearsAreInt
    <3> QED BY <1>5, <1>6, <2>1, <3>1
  <2> QED BY <1>1, <2>1, <2>2, <2>3
<1>7. n <= BirthdayIn(birth, y + 1)
  <2>1. YearStart(y + 1) <= BirthdayIn(birth, y + 1) /\ BirthdayIn(birth, y + 1) \in Int
    BY <1>1, BirthdayOfYear
  <2> QED BY <1>5, <2>1
<1> QED BY <1>4, <1>6, <1>7

\* What the search finds of a range, but for its exception.
LEMMA SearchIsRight ==
  ASSUME NEW birth, Born(birth), NEW n \in Nat, NEW y \in Years, y + 1 \in Years, y = YearOf(n),
         YearStart(y) <= n, n < YearStart(y + 1), NEW days \in Nat, days <= 364
  PROVE  LET md(d) == d.month * 100 + d.day
             first == md(DateOf(n))
             last  == md(DateOf(n + days))
             found == IF first <= last THEN first <= md(birth) /\ md(birth) <= last
                                       ELSE first <= md(birth) \/ md(birth) <= last
         IN  \/ found <=> \E wall \in Birthdays(birth, 0) : wall \div Day \in n .. n + days
             \/ /\ birth.month = 2 /\ birth.day = 29
                /\ DateOf(n + days).month = 2 /\ DateOf(n + days).day = 28
                /\ ~IsLeap(DateOf(n + days).year)
<1> DEFINE A == DateOf(n)
           B == DateOf(n + days)
           md(d) == d.month * 100 + d.day
           found == IF md(A) <= md(B) THEN md(A) <= md(birth) /\ md(birth) <= md(B)
                                      ELSE md(A) <= md(birth) \/ md(birth) <= md(B)
           Exception == birth.month = 2 /\ birth.day = 29 /\ B.month = 2 /\ B.day = 28 /\ ~IsLeap(B.year)
<1>1. PICK x \in Nat : x = n + days /\ n <= x /\ x <= n + 364
  OBVIOUS
<1>2. y \in Nat /\ y + 1 \in Nat
  BY YearsInHorizon
<1>3. PICK a \in Int, b \in Int, c \in Int : /\ a = YearStart(y) /\ b = YearStart(y + 1) /\ c = YearStart(y + 1 + 1)
                                             /\ a + 365 <= b /\ b + 365 <= c /\ b <= a + 366
                                             /\ c + 10 < 366 * 365
  <2>1. PICK z \in Years : z = y + 1
    OBVIOUS
  <2>2. z \in Int /\ YearStart(z + 1) \in Int /\ YearStart(z + 1) * Day + 10 * Day < Horizon
    BY YearsInHorizon
  <2>3. /\ YearStart(y) \in Int /\ YearStart(z) \in Int
        /\ YearStart(y) + 365 <= YearStart(z) /\ YearStart(z) <= YearStart(y) + 366
        /\ YearStart(z) + 365 <= YearStart(z + 1)
    BY <1>2, <2>1, <2>2, YearsAreInt, YearIsLong
  <2>4. YearStart(z + 1) + 10 < 366 * 365
    BY <2>2 DEF Day, Horizon
  <2> QED BY <2>1, <2>2, <2>3, <2>4
<1>4. /\ A.month \in 1 .. 12 /\ A.day \in 1 .. DaysInMonth(y, A.month)
      /\ DayNumber(y, A.month, A.day) = n
  BY <1>2, DateOfDay
<1>5. PICK z \in Nat : z = YearOf(x) /\ YearStart(z) <= x /\ x < YearStart(z + 1)
  BY <1>1, <1>3, YearOfDay
<1>6. /\ B.year = z /\ B.month \in 1 .. 12 /\ B.day \in 1 .. DaysInMonth(z, B.month)
      /\ DayNumber(z, B.month, B.day) = x
  BY <1>1, <1>5, DateOfDay
<1>7. z = y \/ z = y + 1
  <2>1. x < b => z = y
    BY <1>1, <1>2, <1>3, <1>5, YearIsUnique
  <2>2. b <= x => z = y + 1
    <3>1. PICK w \in Int : w = y + 1 /\ YearStart(w) = b /\ YearStart(w + 1) = c
      BY <1>2, <1>3
    <3>2. x < c /\ x \in Int /\ z \in Int
      BY <1>1, <1>3, <1>5
    <3>3. b <= x => z = w
      BY <1>5, <3>1, <3>2, YearIsUnique
    <3> QED BY <3>1, <3>3
  <2> QED BY <1>1, <1>3, <2>1, <2>2
<1> HIDE DEF A, B
<1>8. PICK f \in Int, g \in Int : /\ f = BirthdayIn(birth, y) /\ g = BirthdayIn(birth, y + 1)
                                  /\ a <= f /\ f < b /\ b <= g
  BY <1>2, <1>3, BirthdayOfYear
<1>9. (\E wall \in Birthdays(birth, 0) : wall \div Day \in n .. x) <=> (n <= f /\ f <= x) \/ g <= x
  BY <1>1, <1>8, BirthdaysInRange
<1>10. md(A) <= md(birth) <=> n <= f
  <2>1. NotAfter(A.month, A.day, birth) <=> n <= f
    BY <1>2, <1>4, <1>8, NotAfterBirthday
  <2> QED BY <2>1 DEF NotAfter
<1>11. ~Exception => (md(birth) <= md(B) <=> BirthdayIn(birth, z) <= x)
  <2>1. ~Exception => (NotBefore(B.month, B.day, birth) <=> BirthdayIn(birth, z) <= x)
    BY <1>5, <1>6, NotBeforeBirthday
  <2> QED BY <2>1 DEF NotBefore
<1>12. CASE z = y
  <2>1. md(A) <= md(B)
    <3>1. y \in Int /\ B.month \in 1 .. 12 /\ B.day \in 1 .. DaysInMonth(y, B.month)
      BY <1>2, <1>6, <1>12
    <3>2. SameOrder(y, A.month, A.day, B.month, B.day)
      BY <1>4, <3>1, DatesInYear
    <3> QED BY <1>1, <1>4, <1>6, <1>12, <3>2 DEF SameOrder
  <2>2. ~(g <= x)
    BY <1>3, <1>5, <1>8, <1>12
  <2>3. ~Exception => (found <=> (n <= f /\ f <= x) \/ g <= x)
    BY <1>8, <1>10, <1>11, <1>12, <2>1, <2>2
  <2> QED BY <1>1, <1>9, <2>3 DEF A, B
<1>13. CASE z = y + 1
  <2>1. ~(md(A) <= md(B))
    <3>1. /\ y \in Int /\ B.month \in 1 .. 12 /\ B.day \in 1 .. DaysInMonth(y + 1, B.month)
          /\ DayNumber(y + 1, B.month, B.day) <= DayNumber(y, A.month, A.day) + 364
      BY <1>1, <1>2, <1>4, <1>6, <1>13
    <3>2. Sooner(B.month, B.day, A.month, A.day)
      BY <1>4, <3>1, LessThanAYear
    <3>3. md(B) < md(A)
      BY <3>2 DEF Sooner
    <3>4. md(A) \in Int /\ md(B) \in Int
      BY <1>4, <1>6, MonthLengths
    <3> QED BY <3>3, <3>4
  <2>2. f <= x
    BY <1>3, <1>5, <1>8, <1>13
  <2>3. ~Exception => (found <=> (n <= f /\ f <= x) \/ g <= x)
    BY <1>8, <1>10, <1>11, <1>13, <2>1, <2>2
  <2> QED BY <1>1, <1>9, <2>3 DEF A, B
<1> QED BY <1>7, <1>12, <1>13
=============================================================================
