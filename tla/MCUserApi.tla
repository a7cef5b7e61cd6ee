----------------------------- MODULE MCUserApi ------------------------------
(* The API on the years around 2100, which has no leap day. *)
EXTENDS FastTest

At(y, month, day, hour, minute, second) ==
  DayNumber(y, month, day) * Day + hour * Hour + minute * 60 + second

Date(y, month, day) == [form |-> "date", year |-> y, month |-> month, day |-> day]
Malformed == [form |-> "malformed", year |-> 0, month |-> 0, day |-> 0]

LeapDay == Date(1996, 2, 29)
SkippedHourDay == Date(1990, 3, 14)
DoubledHourDay == Date(2000, 11, 7)
FirstOfMarch == Date(1999, 3, 1)
LastOfYear == Date(2000, 12, 30)

Body(name, birth, zone) == [name |-> name, birth |-> birth, zone |-> zone]

MCPostBodies ==
  {Body("fine", LeapDay, "UTC"), Body("fine", LeapDay, "Kiritimati"),
   Body("fine", FirstOfMarch, "UTC"), Body("fine", DoubledHourDay, "New_York"),
   Body("fine", SkippedHourDay, "New_York"), Body("fine", LastOfYear, "Kiritimati"),
   Body("blank", LeapDay, "UTC"), Body("fine", LeapDay, "Nowhere"),
   Body("fine", Date(1999, 2, 29), "UTC"), Body("fine", Date(2103, 3, 1), "UTC"),
   Body("fine", Malformed, "UTC")}

MCPutBodies ==
  {Body(Absent, NoBirthdate, zone) : zone \in Zones}
  \cup {Body(Absent, LeapDay, Absent), Body(Absent, DoubledHourDay, "Kiritimati"),
        Body("long", NoBirthdate, Absent), Body("blank", NoBirthdate, "UTC")}

Unset == [form |-> "unset", hour |-> 0, minute |-> 0, second |-> 0]
Time(hour, minute) == [form |-> "time", hour |-> hour, minute |-> minute, second |-> 0]
NoOffset == [form |-> "unset", n |-> 0]
Production == [up |-> TRUE, override |-> Unset, offset |-> NoOffset, webhook |-> TRUE, host |-> "UTC"]

BeforeMidnight == At(2103, 2, 28, 23, 59, 50)
NineOClock     == At(2099, 12, 30, 9, 0, 0)
HourSkipped    == At(2101, 3, 14, 6, 0, 0)
HourDoubled    == At(2101, 11, 7, 5, 40, 0)

MCScenarios ==
  [now : {BeforeMidnight, NineOClock}, server : {Production}]
  \cup [now    : {BeforeMidnight},
        server : {[Production EXCEPT !.webhook = FALSE, !.host = "New_York"],
                  [Production EXCEPT !.up = FALSE, !.host = "New_York"],
                  [Production EXCEPT !.offset = [form |-> "seconds", n |-> 30]]}]
  \cup [now    : {NineOClock},
        server : {[Production EXCEPT !.override = Time(25, 0), !.offset = [form |-> "seconds", n |-> 30]],
                  [Production EXCEPT !.offset = [form |-> "seconds", n |-> 1]],
                  [Production EXCEPT !.offset = [form |-> "minutes", n |-> 1440]]}]
  \cup [now : {HourSkipped}, server : {[Production EXCEPT !.override = Time(2, 30)]}]
  \cup [now : {HourDoubled}, server : {[Production EXCEPT !.override = Time(1, 30)]}]

MCWaits == {200 * Day}
=============================================================================
