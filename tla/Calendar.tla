------------------------------ MODULE Calendar ------------------------------
(***************************************************************************)
(* Birthdays on the calendar: BirthdayEventHandler and TimezoneService,    *)
(* with the parts of luxon they stand on.                                  *)
(*                                                                         *)
(* An instant is a number of seconds since the first day of FirstYear in   *)
(* UTC; a wall clock is the same count on the clock of a zone.  A time of  *)
(* the day is a number of seconds since midnight.                          *)
(***************************************************************************)
EXTENDS Integers

CONSTANTS FirstYear, LastYear  \* the years the clock may reach

\* The guess of YearOf is good for three centuries.
ASSUME CalendarAssumption ==
  FirstYear \in Nat /\ LastYear \in Nat /\ FirstYear < LastYear /\ LastYear <= FirstYear + 300

Years == FirstYear .. LastYear
Day == 86400
Hour == 3600

-----------------------------------------------------------------------------
(* luxon: dates *)

IsLeap(y) == y % 4 = 0 /\ (y % 100 # 0 \/ y % 400 = 0)

LeapsBefore(y) == (y - 1) \div 4 - (y - 1) \div 100 + (y - 1) \div 400

YearStart(y) == 365 * (y - FirstYear) + LeapsBefore(y) - LeapsBefore(FirstYear)

DaysBefore(y, month) ==
  <<0, 31, 59, 90, 120, 151, 181, 212, 243, 273, 304, 334, 365>>[month]
    + IF month > 2 /\ IsLeap(y) THEN 1 ELSE 0

DaysInMonth(y, month) == DaysBefore(y, month + 1) - DaysBefore(y, month)

\* A day past the end of its month overflows into the next one.
DayNumber(y, month, day) == YearStart(y) + DaysBefore(y, month) + day - 1

\* The year of a day, and its date.
YearOf(n) ==
  LET y == FirstYear + n \div 366 IN IF n < YearStart(y + 1) THEN y ELSE y + 1

DateOf(n) ==
  LET y == YearOf(n)
      d == n - YearStart(y)
      m == CHOOSE m \in d \div 31 + 1 .. d \div 31 + 2 : DaysBefore(y, m) <= d /\ d < DaysBefore(y, m + 1)
  IN  [year |-> y, month |-> m, day |-> d - DaysBefore(y, m) + 1]

(* luxon: zones; New York's summer time with its two Sundays on fixed dates *)

StandardOffset == [UTC |-> 0, New_York |-> (-5) * Hour, Kiritimati |-> 14 * Hour]
Zones == DOMAIN StandardOffset

IsSummer(t) ==
  LET y == YearOf(t \div Day)
  IN  /\ DayNumber(y, 3, 14) * Day + 7 * Hour <= t
      /\ t < DayNumber(y, 11, 7) * Day + 6 * Hour

Offset(zone, t) ==
  StandardOffset[zone] + IF zone = "New_York" /\ IsSummer(t) THEN Hour ELSE 0

toWallClock(t, zone) == t + Offset(zone, t)

\* The instant of a wall clock, from a guess at the offset.  A wall clock that is
\* skipped in spring is read with the offset before the change.
fixOffset(wall, guess, zone) ==
  LET second == Offset(zone, wall - guess)
      third  == Offset(zone, wall - second)
  IN  CASE second = guess                      -> wall - guess
        [] second # guess /\ third = second    -> wall - second
        [] second # guess /\ third # second    -> wall - (IF second < third THEN second ELSE third)

-----------------------------------------------------------------------------
(* TimezoneService.convertToUTC; luxon's first guess is the zone's offset now. *)
convertToUTC(wall, zone, present) == fixOffset(wall, Offset(zone, present), zone)

\* Mutant: every fourth year is taken for a leap year.
isLeapYearFourth(y) == y % 4 = 0

isLeapYear(y) == (y % 4 = 0 /\ y % 100 # 0) \/ y % 400 = 0

\* The birthday of year y at a time of the day, in the zone of the reference.
createBirthdayDateTime(ref, zone, y, birth, at) ==
  LET day == IF birth.month = 2 /\ birth.day = 29 /\ ~isLeapYear(y) THEN 28 ELSE birth.day
  IN  fixOffset(DayNumber(y, birth.month, day) * Day + at, Offset(zone, ref), zone)

\* Mutant: a birthday at the reference itself counts as the next one.
calculateNextOccurrenceFrom(birth, zone, ref, at) ==
  LET y    == YearOf(toWallClock(ref, zone) \div Day)
      this == createBirthdayDateTime(ref, zone, y, birth, at)
  IN  IF this < ref THEN createBirthdayDateTime(ref, zone, y + 1, birth, at) ELSE this

calculateNextOccurrence(birth, zone, ref, at) ==
  LET y    == YearOf(toWallClock(ref, zone) \div Day)
      this == createBirthdayDateTime(ref, zone, y, birth, at)
  IN  IF this <= ref THEN createBirthdayDateTime(ref, zone, y + 1, birth, at) ELSE this

-----------------------------------------------------------------------------
(* What a birthday is, without the code's way of finding it. *)

\* The wall clocks of a birthday: its day, or 28 February in a year without it.
Birthdays(birth, at) ==
  {DayNumber(y, birth.month, IF birth.day > DaysInMonth(y, birth.month) THEN 28 ELSE birth.day)
     * Day + at : y \in Years}

\* The instants at which a zone's clock shows a wall clock; one that is skipped in
\* spring is shown an hour later.
Instants(wall, zone) ==
  LET shown == {t \in {wall - StandardOffset[zone], wall - StandardOffset[zone] - Hour} :
                  toWallClock(t, zone) = wall}
  IN  IF shown # {} THEN shown ELSE {wall - StandardOffset[zone]}

IsBirthday(t, birth, zone, at) ==
  \E wall \in Birthdays(birth, at) : t \in Instants(wall, zone)

\* t is the first birthday after ref: none lies in between.  (Of a wall clock shown
\* twice in autumn either instant will do.)
IsNextBirthday(t, birth, zone, at, ref) ==
  /\ t > ref
  /\ IsBirthday(t, birth, zone, at)
  /\ \A wall \in Birthdays(birth, at) : \E i \in Instants(wall, zone) : i <= ref \/ t <= i
=============================================================================
