------------------------------ MODULE UserApi -------------------------------
(***************************************************************************)
(* The REST API, one request at a time, on the real calendar: user.routes, *)
(* the schemas and entities that judge a request, the use cases it runs    *)
(* and the birthday event it leaves behind.  Users do not meet, so one is  *)
(* enough.  What requests do to each other is in UserUpdates.              *)
(***************************************************************************)
EXTENDS DeliveryTime

CONSTANTS NoUser, NoEvent,
          PostBodies,   \* the bodies clients send: a name ("fine", "blank", "empty" or
          PutBodies,    \* "long"), a date of birth and a zone, some of them absent
          DaysAhead,    \* the ranges searched for upcoming birthdays
          Scenarios,    \* the clock and the server a history begins with
          Waits,        \* how long nothing may happen
          MaxSteps      \* bound of the requests that change a row and of the waits

VARIABLES now,      \* the clock
          server,   \* the HTTP server: is it up, and its environment
          user,     \* the user's row
          event,    \* the row of its birthday event, as long as it is PENDING
          keys,     \* the idempotency keys of all its rows
          answer,   \* the status a request was answered with, 0 in other steps
          steps,    \* the steps that count for the bound
          basis     \* history: what the event's target was computed from

eventVars == <<event, keys, basis>>

apiVars == <<now, server, user, eventVars, answer, steps>>

Absent == "absent"
NoBirthdate == [form |-> Absent, year |-> 0, month |-> 0, day |-> 0]

\* What a body may hold, a row, and the environment of a server.
Bodies == [name  : {"fine", "blank", "empty", "long", Absent},
           birth : [form : {"date", "malformed", Absent}, year : Int, month : Int, day : Int],
           zone  : Zones \cup {"Nowhere", "", Absent}]

Events == [target : Int, local : Int, payload : {"complete", "messageOnly"}]

Kinds == {"none", "created", "moved", "rezoned", "followed"}

Bases == [kind : Kinds, ref : Int, at : 0 .. Day - 1, zone : Zones,
          last : [kind : Kinds, at : Int, target : Int]]

Servers == [up : BOOLEAN, webhook : BOOLEAN, host : Zones,
            override : [form : {"unset", "malformed", "time"}, hour : Nat, minute : Nat, second : Nat],
            offset   : [form : {"unset", "malformed", "seconds", "minutes"}, n : Nat]]

\* The clock begins after the first day of its years, so that no zone is before them.
ASSUME UserApiAssumption ==
  /\ PostBodies \subseteq Bodies /\ PutBodies \subseteq Bodies
  /\ NoUser \notin Bodies /\ NoEvent \notin Events
  /\ \A s \in Scenarios : s.now \in Nat /\ s.now >= Day /\ s.server \in Servers
  /\ Waits \subseteq Nat /\ DaysAhead \subseteq Nat /\ MaxSteps \in Nat

NoBasis == [kind |-> "none", ref |-> 0, at |-> 0, zone |-> "UTC",
            last |-> [kind |-> "none", at |-> 0, target |-> 0]]

UserApiInit ==
  /\ \E s \in Scenarios : now = s.now /\ server = s.server
  /\ user = NoUser
  /\ event = NoEvent
  /\ keys = {}
  /\ answer = 0
  /\ steps = 0
  /\ basis = NoBasis

-----------------------------------------------------------------------------
(* What a request must be. *)

SchemaAccepts(body) ==
  body.name \notin {"empty", "long"} /\ body.birth.form # "malformed" /\ body.zone # ""

UpdateUserSchema(body) == SchemaAccepts(body)

CreateUserSchema(body) ==
  /\ SchemaAccepts(body)
  /\ body.name # Absent /\ body.birth.form # Absent /\ body.zone # Absent

IsDate(birth) ==
  birth.month \in 1 .. 12 /\ birth.day \in 1 .. DaysInMonth(birth.year, birth.month)

\* Mutant: a date to come will do.
DateOfBirthAny(birth) == IsDate(birth)

\* A date that has begun on the clock of the host.
DateOfBirth(birth) ==
  /\ IsDate(birth)
  /\ \/ birth.year < FirstYear
     \/ convertToUTC(DayNumber(birth.year, birth.month, birth.day) * Day, server.host, now) <= now

Timezone(zone) == zone \in Zones

\* The constructor of User trims, the schemas do not.
User(name) == name \notin {"empty", "long", "blank"}

\* What the entities accept of the fields that are given.
EntitiesAccept(body) ==
  /\ User(body.name)
  /\ body.birth.form = Absent \/ DateOfBirth(body.birth)
  /\ body.zone = Absent \/ Timezone(body.zone)

\* Mutant: the range never goes around the new year.
FoundUpcomingUnwrapped(days) ==
  LET today == toWallClock(now, server.host) \div Day
      md(d) == d.month * 100 + d.day
  IN  md(DateOf(today)) <= md(user.birth) /\ md(user.birth) <= md(DateOf(today + days))

\* findUsersWithUpcomingBirthdays compares months and days, around the new year if need be.
FoundUpcoming(days) ==
  LET today == toWallClock(now, server.host) \div Day
      md(d) == d.month * 100 + d.day
      first == md(DateOf(today))
      last  == md(DateOf(today + days))
  IN  IF first <= last THEN first <= md(user.birth) /\ md(user.birth) <= last
                       ELSE first <= md(user.birth) \/ md(user.birth) <= last

-----------------------------------------------------------------------------
(* What the event bus makes of a request: the server's own delivery time. *)

DeliveryAt == getDeliveryTimeConfig(server, now)

OccurrenceUTC(local, zone) == convertToUTC(toWallClock(local, zone), zone, now)

ComputedNow(kind, zone) ==
  [kind |-> kind, ref |-> now, at |-> DeliveryAt, zone |-> zone, last |-> NoBasis.last]

\* CreateBirthdayEventUseCase: without a webhook URL it throws, and the bus logs that.
OnUserCreated(u) ==
  IF ~server.webhook
  THEN NoEvent
  ELSE LET local  == calculateNextOccurrence(u.birth, u.zone, now, DeliveryAt)
           target == OccurrenceUTC(local, u.zone)
       IN  [target |-> target, local |-> local, payload |-> "complete"]

OnUserBirthdayChanged(ev, u) ==
  LET local == calculateNextOccurrence(u.birth, u.zone, now, DeliveryAt)
  IN  IF ev = NoEvent
      THEN NoEvent
      ELSE [ev EXCEPT !.local = local, !.target = OccurrenceUTC(local, u.zone)]

\* The local time comes back from the database on the clock of UTC.
OnUserTimezoneChanged(ev, zone) ==
  IF ev = NoEvent
  THEN NoEvent
  ELSE [ev EXCEPT !.target = convertToUTC(toWallClock(ev.local, "UTC"), zone, now)]

-----------------------------------------------------------------------------
(* The routes.  A ZodError is answered 400, UserNotFoundError 404, any other error 500. *)

Accept(status) ==
  /\ answer' = status
  /\ steps < MaxSteps
  /\ steps' = steps + 1
  /\ UNCHANGED <<now, server>>

OnlyAnswer(status) ==
  /\ answer' = status
  /\ UNCHANGED <<now, server, user, steps, eventVars>>

\* The row, the event and the answer of a POST that is accepted.
Create(u) ==
  /\ user' = u
  /\ event' = OnUserCreated(u)
  /\ keys' = IF event' = NoEvent THEN {} ELSE {event'.target}
  /\ basis' = ComputedNow("created", u.zone)
  /\ Accept(201)

PostStatus(body) ==
  IF ~CreateUserSchema(body) THEN 400 ELSE IF ~EntitiesAccept(body) THEN 500 ELSE 201

Post(body) ==
  /\ server.up
  /\ user = NoUser
  /\ IF PostStatus(body) = 201 THEN Create(body) ELSE OnlyAnswer(PostStatus(body))

\* The copy of the row with the fields that are given.
Updated(body) ==
  [name  |-> IF body.name = Absent THEN user.name ELSE body.name,
   birth |-> IF body.birth.form = Absent THEN user.birth ELSE body.birth,
   zone  |-> IF body.zone = Absent THEN user.zone ELSE body.zone]

\* The row, then the handlers of UserBirthdayChanged and of UserTimezoneChanged.
Replace(u) ==
  LET moves   == event # NoEvent /\ u.birth # user.birth
      rezones == event # NoEvent /\ u.zone # user.zone
      moved   == IF moves THEN OnUserBirthdayChanged(event, u) ELSE event
      movedBy == IF moves
                 THEN ComputedNow("moved", u.zone)
                 ELSE basis
  IN  /\ user' = u
      /\ event' = IF rezones THEN OnUserTimezoneChanged(moved, u.zone) ELSE moved
      /\ basis' = IF rezones THEN [movedBy EXCEPT !.kind = "rezoned"] ELSE movedBy
      /\ UNCHANGED keys
      /\ Accept(200)

\* The status of a request for a user by its id: userToDomain constructs the entities
\* again, and an error there is not the client's.
IdStatus(id, otherwise) ==
  CASE id = "malformed"                                      -> 400
    [] id # "malformed" /\ user = NoUser                     -> 404
    [] id # "malformed" /\ user # NoUser /\ ~EntitiesAccept(user) -> 500
    [] OTHER                                                 -> otherwise

PutStatus(id, body) ==
  IF ~UpdateUserSchema(body) THEN 400
  ELSE IdStatus(id, IF EntitiesAccept(body) THEN 200 ELSE 500)

Put(id, body) ==
  /\ server.up
  /\ IF PutStatus(id, body) = 200 THEN Replace(Updated(body)) ELSE OnlyAnswer(PutStatus(id, body))

Get(id) ==
  /\ server.up
  /\ OnlyAnswer(IdStatus(id, 200))

Delete(id) ==
  /\ server.up
  /\ IF IdStatus(id, 204) = 204
     THEN Accept(204) /\ user' = NoUser /\ event' = NoEvent /\ keys' = {} /\ basis' = NoBasis
     ELSE OnlyAnswer(IdStatus(id, 204))

-----------------------------------------------------------------------------
(* The clock, and the pipeline in one step. *)

Wait ==
  /\ \E d \in Waits \cup (IF event = NoEvent THEN {} ELSE {event.target - now}) :
       d > 0 /\ now' = now + d
  /\ steps < MaxSteps
  /\ steps' = steps + 1
  /\ answer' = 0
  /\ UNCHANGED <<server, user, eventVars>>

\* The due event is claimed and completed, and the next one created: at the default time,
\* whatever the HTTP server is told, and without a webhook URL, so that it is the last
\* (what becomes of it is in WorkerLambda).
Celebrate ==
  /\ event # NoEvent
  /\ event.target <= now
  /\ event.payload = "complete"
  /\ LET local  == calculateNextOccurrence(user.birth, user.zone, event.local, BIRTHDAY)
         target == OccurrenceUTC(local, user.zone)
     IN  /\ event' = IF target \in keys
                     THEN NoEvent
                     ELSE [target |-> target, local |-> local, payload |-> "messageOnly"]
         /\ keys' = keys \cup {target}
  /\ basis' = [kind |-> "followed", ref |-> event.local, at |-> BIRTHDAY, zone |-> user.zone,
               last |-> [kind |-> basis.kind, at |-> basis.at, target |-> event.target]]
  /\ answer' = 0
  /\ UNCHANGED <<now, server, user, steps>>

-----------------------------------------------------------------------------
UserApiTypeOK ==
  /\ now \in Nat
  /\ server \in Servers
  /\ user \in Bodies \cup {NoUser}
  /\ event \in Events \cup {NoEvent}
  /\ event # NoEvent => user # NoUser
  /\ keys \subseteq Int
  /\ answer \in {0, 200, 201, 204, 400, 404, 500}
  /\ steps \in 0 .. MaxSteps
  /\ basis \in Bases

\* What a row holds can be read again: the entities' constructors judge it on every
\* read, and a row they refuse would answer 500 for ever.
StoredUserIsReadable ==
  user # NoUser =>
    LET today == DateOf(toWallClock(now, server.host) \div Day)
    IN  /\ user.name = "fine"
        /\ user.zone \in Zones
        /\ user.birth.day \in 1 .. DaysInMonth(user.birth.year, user.birth.month)
        /\ \/ user.birth.year < today.year
           \/ /\ user.birth.year = today.year
              /\ \/ user.birth.month < today.month
                 \/ user.birth.month = today.month /\ user.birth.day <= today.day

\* The waiting event is the first birthday after the instant it was computed from, on
\* the user's calendar and clock; after a timezone change it is one, if its local time
\* was written in UTC.  (A leap-day birth is celebrated on 28 February in a common
\* year, as the code's comment has it: see LeapDayInMarch.)
EventIsNextBirthday ==
  event # NoEvent =>
    IF basis.kind = "rezoned"
    THEN basis.zone = "UTC" => IsBirthday(event.target, user.birth, user.zone, basis.at)
    ELSE IsNextBirthday(event.target, user.birth, user.zone, basis.at, basis.ref)

\* What the product's documents say of leap-day births: in a year without 29 February the
\* event is due on 1 March.
LeapDayInMarch ==
  /\ event # NoEvent
  /\ basis.kind # "rezoned"
  /\ user.birth.month = 2
  /\ user.birth.day = 29
  => LET date == DateOf(toWallClock(event.target, user.zone) \div Day)
     IN  IsLeap(date.year) \/ (date.month = 3 /\ date.day = 1)

\* An offset for tests, from two seconds to a day, is kept to the second: where that
\* instant is on the birthday of a user on the UTC clock, a registration or a change of
\* birthday puts the event there, across midnight as well.
OffsetIsKept ==
  LET seconds == IF server.offset.form = "minutes" THEN server.offset.n * 60 ELSE server.offset.n
      due     == basis.ref + seconds
  IN  /\ event # NoEvent
      /\ basis.kind \in {"created", "moved"}
      /\ user.zone = "UTC"
      /\ parseTimeOverride(server.override) = {}
      /\ server.offset.form \in {"seconds", "minutes"}
      /\ seconds >= 2
      /\ seconds <= Day
      /\ due \in Birthdays(user.birth, due % Day)
      => event.target = due

\* Every user has a birthday event, in any order of requests and celebrations: without
\* one there is no webhook URL, or an event was moved since the registration, which keeps
\* its key, and a follower has the same.
UserHasEvent ==
  user # NoUser /\ server.webhook =>
    \/ event # NoEvent
    \/ basis.kind = "followed" /\ basis.last.kind # "created"

\* A birthday is celebrated once: the event that follows one is in a later year, unless
\* a timezone change moved the one before, or the HTTP server was told a time before the
\* default that the worker uses.
FollowerIsNextYear ==
  /\ event # NoEvent
  /\ basis.kind = "followed"
  /\ basis.last.kind # "rezoned"
  /\ basis.last.at >= BIRTHDAY
  => LET year(t) == YearOf(toWallClock(t, user.zone) \div Day)
     IN  year(event.target) = year(basis.last.target) + 1

\* The search finds exactly the users that celebrate in the days ahead; only leap-day
\* births are missed, when the range ends on the 28th in a year without the 29th.
SearchFindsBirthdays ==
  user # NoUser =>
    LET today == toWallClock(now, server.host) \div Day
    IN  \A days \in DaysAhead :
          \/ FoundUpcoming(days) <=> \E wall \in Birthdays(user.birth, 0) :
                                      wall \div Day \in today .. today + days
          \/ /\ user.birth.month = 2 /\ user.birth.day = 29
             /\ LET last == DateOf(today + days)
                IN  last.month = 2 /\ last.day = 28 /\ ~IsLeap(last.year)
=============================================================================
