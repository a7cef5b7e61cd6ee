---------------------------- MODULE DeliveryTime ----------------------------
(***************************************************************************)
(* delivery-time-config.ts: the time of the day at which birthdays are     *)
(* delivered, from two environment variables meant for tests.  A variable  *)
(* is unset, malformed, or has the numbers that were matched; a parser     *)
(* returns the set of its result, empty for null.                          *)
(***************************************************************************)
EXTENDS Calendar

\* EVENT_DELIVERY_TIMES.BIRTHDAY
BIRTHDAY == 9 * Hour

\* "HH:MM:SS" in range, as seconds since midnight.
parseTimeOverride(value) ==
  IF value.form = "time" /\ value.hour <= 23 /\ value.minute <= 59 /\ value.second <= 59
  THEN {value.hour * Hour + value.minute * 60 + value.second}
  ELSE {}

\* "5", "5m" or "30s", as seconds: from 0.0167 minutes to 1440 minutes.
parseTestOffset(value) ==
  LET seconds == CASE value.form = "seconds" -> {value.n}
                   [] value.form = "minutes" -> {value.n * 60}
                   [] OTHER                  -> {}
  IN  {s \in seconds : s * 10000 >= 167 * 60 /\ s <= 1440 * 60}

\* Mutant: the hours run past midnight.
getDeliveryTimeConfigUnwrapped(env, t) ==
  LET times   == parseTimeOverride(env.override)
      offsets == parseTestOffset(env.offset)
  IN  CASE times # {}                  -> CHOOSE s \in times : TRUE
        [] times = {} /\ offsets # {}  -> (t % Day) + CHOOSE s \in offsets : TRUE
        [] times = {} /\ offsets = {}  -> BIRTHDAY

\* Mutant: an offset is kept to the minute.
getDeliveryTimeConfigMinutes(env, t) ==
  LET times   == parseTimeOverride(env.override)
      offsets == {s - ((t + s) % 60) : s \in parseTestOffset(env.offset)}
  IN  CASE times # {}                  -> CHOOSE s \in times : TRUE
        [] times = {} /\ offsets # {}  -> (t + CHOOSE s \in offsets : TRUE) % Day
        [] times = {} /\ offsets = {}  -> BIRTHDAY

\* The override, else the time that far from now on the UTC clock, else the default.
getDeliveryTimeConfig(env, t) ==
  LET times   == parseTimeOverride(env.override)
      offsets == parseTestOffset(env.offset)
  IN  CASE times # {}                  -> CHOOSE s \in times : TRUE
        [] times = {} /\ offsets # {}  -> (t + CHOOSE s \in offsets : TRUE) % Day
        [] times = {} /\ offsets = {}  -> BIRTHDAY
=============================================================================
