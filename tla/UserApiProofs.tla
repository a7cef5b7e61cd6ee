--------------------------- MODULE UserApiProofs ----------------------------
(***************************************************************************)
(* What the API and the fast test script leave behind, for all clocks,     *)
(* servers, bodies and histories within the years of the calendar.         *)
(***************************************************************************)
EXTENDS FastTest, CalendarProofs

-----------------------------------------------------------------------------
(***************************************************************************)
(* Types.                                                                  *)
(***************************************************************************)
ScriptOK ==
  /\ script \in [pc : {"idle", "failed", "kill", "start", "wait", "create", "done"},
                 started : Nat, offset : Nat, restarted : BOOLEAN]
  /\ now >= Day

\* What the entities accepted: no absent name, a date and a zone.
UserIsValid ==
  user # NoUser => user.name = "fine" /\ user.zone \in Zones /\ Born(user.birth) /\ user \in Bodies

TypeInv == UserApiTypeOK /\ ScriptOK /\ UserIsValid

LEMMA TimeOfDayIsOfDay ==
  ASSUME NEW value, value.hour \in Nat, value.minute \in Nat, value.second \in Nat,
         NEW s \in parseTimeOverride(value)
  PROVE  s \in Int /\ 0 <= s /\ s < Day
BY DEF parseTimeOverride, Hour, Day

LEMMA OffsetIsNat ==
  ASSUME NEW value, value.n \in Nat, NEW s \in parseTestOffset(value)
  PROVE  s \in Nat
BY DEF parseTestOffset

LEMMA OfDay == \A at : at \in 0 .. Day - 1 <=> at \in Int /\ 0 <= at /\ at < Day
<1>1. Day \in Int
  BY DEF Day
<1> QED BY <1>1

LEMMA DeliveryTimeIsOfDay ==
  ASSUME NEW env \in Servers, NEW t \in Nat
  PROVE  getDeliveryTimeConfig(env, t) \in 0 .. Day - 1
<1> DEFINE times == parseTimeOverride(env.override)
           offsets == parseTestOffset(env.offset)
<1>1. /\ env.override.hour \in Nat /\ env.override.minute \in Nat /\ env.override.second \in Nat
      /\ env.offset.n \in Nat
  BY DEF Servers
<1>2. \A s \in times : s \in 0 .. Day - 1
  BY <1>1, TimeOfDayIsOfDay, OfDay
<1>3. \A s \in offsets : s \in Nat
  BY <1>1, OffsetIsNat
<1>4. \A s \in Nat : (t + s) % Day \in 0 .. Day - 1
  <2>1. Day \in Nat /\ Day > 0
    BY DEF Day
  <2> QED BY <2>1
<1>5. BIRTHDAY \in 0 .. Day - 1
  <2>1. BIRTHDAY \in Int /\ 0 <= BIRTHDAY /\ BIRTHDAY < Day
    BY DEF BIRTHDAY, Hour, Day
  <2> QED BY <2>1, OfDay
<1> HIDE DEF times, offsets
<1>6. CASE times # {}
  <2>1. (CHOOSE s \in times : TRUE) \in times
    BY <1>6
  <2> QED BY <1>2, <1>6, <2>1 DEF getDeliveryTimeConfig, times
<1>7. CASE times = {} /\ offsets # {}
  <2>1. (CHOOSE s \in offsets : TRUE) \in offsets
    BY <1>7
  <2>2. (t + CHOOSE s \in offsets : TRUE) % Day \in 0 .. Day - 1
    BY <1>3, <1>4, <2>1
  <2> QED BY <1>7, <2>2 DEF getDeliveryTimeConfig, times, offsets
<1>8. CASE times = {} /\ offsets = {}
  BY <1>5, <1>8 DEF getDeliveryTimeConfig, times, offsets
<1> QED BY <1>6, <1>7, <1>8

\* An occurrence is an instant, in the years of the calendar or not.
LEMMA OccurrenceIsInt ==
  ASSUME NEW birth, Born(birth), NEW zone \in Zones, NEW ref \in Int, NEW at \in 0 .. Day - 1,
         NEW present
  PROVE  /\ calculateNextOccurrence(birth, zone, ref, at) \in Int
         /\ \A t \in Int, z \in Zones : fixOffset(toWallClock(t, z), Offset(zone, present), zone) \in Int
<1>1. PICK y \in Int : y = YearOf(toWallClock(ref, zone) \div Day)
  <2>1. \A n \in Int : YearOf(n) \in Int
    BY CalendarAssumption, YearsAreInt DEF YearOf
  <2>2. toWallClock(ref, zone) \div Day \in Int
    <3>1. toWallClock(ref, zone) \in Int
      BY OffsetTable DEF toWallClock
    <3>2. \A n \in Int : n \div Day \in Int
      BY DEF Day
    <3> QED BY <3>1, <3>2
  <2> QED BY <2>1, <2>2
<1>2. WallOf(birth, y, at) \in Int /\ WallOf(birth, y + 1, at) \in Int
  BY <1>1, OfDay, WallInYear
<1>3. \A x \in {y, y + 1} : createBirthdayDateTime(ref, zone, x, birth, at) \in Int
  <2>1. \A x \in {y, y + 1} :
          createBirthdayDateTime(ref, zone, x, birth, at) =
            fixOffset(WallOf(birth, x, at), Offset(zone, ref), zone)
    BY <1>1, BirthdayIsFixed
  <2> QED BY <1>2, <2>1, FixedIsShown
<1>4. calculateNextOccurrence(birth, zone, ref, at) \in Int
  BY <1>1, <1>3 DEF calculateNextOccurrence
<1>5. \A t \in Int, z \in Zones : toWallClock(t, z) \in Int
  BY OffsetTable DEF toWallClock
<1> QED BY <1>4, <1>5, FixedIsShown

LEMMA BasisTypes ==
  /\ NoBasis \in Bases
  /\ \A kind \in Kinds, zone \in Zones :
       now \in Int /\ DeliveryAt \in 0 .. Day - 1 => ComputedNow(kind, zone) \in Bases
  /\ \A b \in Bases, kind \in Kinds : [b EXCEPT !.kind = kind] \in Bases
<1> DEFINE Lasts == [kind : Kinds, at : Int, target : Int]
           Times == 0 .. Day - 1
<1>1. Bases = [kind : Kinds, ref : Int, at : Times, zone : Zones, last : Lasts]
  BY DEF Bases
<1>2. 0 \in Times
  BY DEF Day
<1>3. "none" \in Kinds /\ "UTC" \in Zones
  BY ZoneTable DEF Kinds
<1>4. NoBasis.last \in Lasts
  BY <1>3 DEF NoBasis
<1> HIDE DEF Lasts, Times
<1>5. NoBasis \in Bases
  BY <1>1, <1>2, <1>3, <1>4 DEF NoBasis
<1>6. \A kind \in Kinds, zone \in Zones :
        now \in Int /\ DeliveryAt \in Times => ComputedNow(kind, zone) \in Bases
  BY <1>1, <1>4 DEF ComputedNow
<1>7. \A b \in Bases, kind \in Kinds : [b EXCEPT !.kind = kind] \in Bases
  BY <1>1
<1> QED BY <1>5, <1>6, <1>7 DEF Times

LEMMA InitTypes == FastTestInit => TypeInv
<1> SUFFICES ASSUME FastTestInit PROVE TypeInv
  OBVIOUS
<1>1. /\ now \in Nat /\ now >= Day /\ server \in Servers
      /\ user = NoUser /\ event = NoEvent /\ keys = {} /\ answer = 0 /\ steps = 0 /\ basis = NoBasis
      /\ script = IdleScript
  BY UserApiAssumption DEF FastTestInit, UserApiInit
<1>2. NoBasis \in Bases
  BY BasisTypes
<1>3. steps \in 0 .. MaxSteps
  BY <1>1, UserApiAssumption
<1>4. UserApiTypeOK
  BY <1>1, <1>2, <1>3 DEF UserApiTypeOK
<1>5. ScriptOK
  BY <1>1 DEF ScriptOK, IdleScript
<1> QED BY <1>1, <1>4, <1>5 DEF TypeInv, UserIsValid

LEMMA AcceptKeeps ==
  ASSUME TypeInv, NEW status \in {200, 201, 204}, Accept(status)
  PROVE  /\ now' = now /\ server' = server /\ steps' \in 0 .. MaxSteps
         /\ answer' \in {0, 200, 201, 204, 400, 404, 500}
BY UserApiAssumption DEF TypeInv, UserApiTypeOK, Accept

LEMMA AnswerKeeps ==
  ASSUME TypeInv, NEW status \in {200, 201, 204, 400, 404, 500}, OnlyAnswer(status), UNCHANGED script
  PROVE  TypeInv'
BY DEF TypeInv, UserApiTypeOK, ScriptOK, UserIsValid, OnlyAnswer, eventVars

\* The server's own delivery time.
LEMMA DeliveryAtIsOfDay == TypeInv => DeliveryAt \in 0 .. Day - 1
BY DeliveryTimeIsOfDay DEF TypeInv, UserApiTypeOK, DeliveryAt

LEMMA AcceptedBirthIsBorn ==
  ASSUME NEW birth, birth.year \in Int, DateOfBirth(birth)
  PROVE  Born(birth)
BY DEF DateOfBirth, IsDate, Born

LEMMA AcceptedIsValid ==
  ASSUME NEW body \in Bodies, PostStatus(body) = 201
  PROVE  body.name = "fine" /\ body.zone \in Zones /\ Born(body.birth)
<1>1. CreateUserSchema(body) /\ EntitiesAccept(body)
  BY DEF PostStatus
<1>2. /\ body.name \in {"fine", "blank", "empty", "long", Absent}
      /\ body.birth.year \in Int
  BY DEF Bodies
<1>3. /\ body.name \notin {Absent, "empty", "long", "blank"}
      /\ DateOfBirth(body.birth) /\ body.zone \in Zones
  BY <1>1 DEF CreateUserSchema, EntitiesAccept, User, Timezone
<1>4. body.name = "fine"
  BY <1>2, <1>3
<1>5. Born(body.birth)
  BY <1>2, <1>3, AcceptedBirthIsBorn
<1> QED BY <1>3, <1>4, <1>5

\* The event of a registration and of a celebration, and what it becomes.
LEMMA OccurrenceIsEvent ==
  ASSUME TypeInv, NEW u, Born(u.birth), u.zone \in Zones, NEW ref \in Int, NEW at \in 0 .. Day - 1
  PROVE  LET local == calculateNextOccurrence(u.birth, u.zone, ref, at)
         IN  local \in Int /\ OccurrenceUTC(local, u.zone) \in Int
<1>1. calculateNextOccurrence(u.birth, u.zone, ref, at) \in Int
  BY OccurrenceIsInt
<1>2. \A t \in Int, z \in Zones : fixOffset(toWallClock(t, z), Offset(u.zone, now), u.zone) \in Int
  BY OccurrenceIsInt
<1> QED BY <1>1, <1>2 DEF OccurrenceUTC, convertToUTC

LEMMA RezonedIsInt ==
  ASSUME NEW t \in Int, NEW zone \in Zones
  PROVE  convertToUTC(toWallClock(t, "UTC"), zone, now) \in Int
<1>1. toWallClock(t, "UTC") \in Int
  BY OffsetTable, ZoneTable DEF toWallClock
<1> QED BY <1>1, FixedIsShown DEF convertToUTC

LEMMA CreateTypes ==
  ASSUME TypeInv, NEW u \in Bodies, PostStatus(u) = 201, Create(u), ScriptOK'
  PROVE  TypeInv'
<1>1. /\ now \in Nat /\ server \in Servers /\ DeliveryAt \in 0 .. Day - 1
  BY DeliveryAtIsOfDay DEF TypeInv, UserApiTypeOK
<1>2. u.name = "fine" /\ u.zone \in Zones /\ Born(u.birth) /\ u # NoUser
  BY AcceptedIsValid, UserApiAssumption
<1>3. OnUserCreated(u) \in Events \cup {NoEvent}
  <2>1. /\ calculateNextOccurrence(u.birth, u.zone, now, DeliveryAt) \in Int
        /\ OccurrenceUTC(calculateNextOccurrence(u.birth, u.zone, now, DeliveryAt), u.zone) \in Int
    BY <1>1, <1>2, OccurrenceIsEvent
  <2> QED BY <2>1 DEF OnUserCreated, Events
<1>4. user' = u /\ event' \in Events \cup {NoEvent} /\ keys' \subseteq Int
  <2>1. event' # NoEvent => event'.target \in Int
    BY <1>3 DEF Create, Events
  <2> QED BY <1>3, <2>1 DEF Create
<1>5. basis' \in Bases
  <2>1. "created" \in Kinds /\ now \in Int
    BY <1>1 DEF Kinds
  <2> QED BY <1>1, <1>2, <2>1, BasisTypes DEF Create
<1>6. /\ now' = now /\ server' = server /\ steps' \in 0 .. MaxSteps
      /\ answer' \in {0, 200, 201, 204, 400, 404, 500}
  BY AcceptKeeps DEF Create
<1>7. UserApiTypeOK'
  BY <1>1, <1>2, <1>4, <1>5, <1>6 DEF UserApiTypeOK
<1>8. UserIsValid'
  BY <1>2, <1>4 DEF UserIsValid
<1> QED BY <1>7, <1>8 DEF TypeInv

LEMMA PostTypes ==
  ASSUME TypeInv, NEW body \in Bodies, Post(body), UNCHANGED script
  PROVE  TypeInv'
<1>1. CASE PostStatus(body) = 201
  <2>1. Create(body)
    BY <1>1 DEF Post
  <2>2. ScriptOK'
    BY <2>1 DEF TypeInv, ScriptOK, Create, Accept
  <2> QED BY <1>1, <2>1, <2>2, CreateTypes
<1>2. CASE PostStatus(body) # 201
  <2>1. OnlyAnswer(PostStatus(body)) /\ PostStatus(body) \in {400, 500}
    BY <1>2 DEF Post, PostStatus
  <2> QED BY <2>1, AnswerKeeps
<1> QED BY <1>1, <1>2

\* The copy of the row is as valid as the row and the body.
LEMMA UpdatedIsValid ==
  ASSUME TypeInv, user # NoUser, NEW body \in Bodies, UpdateUserSchema(body), EntitiesAccept(body)
  PROVE  LET u == Updated(body)
         IN  u \in Bodies /\ u.name = "fine" /\ u.zone \in Zones /\ Born(u.birth)
<1>1. user \in Bodies /\ user.name = "fine" /\ user.zone \in Zones /\ Born(user.birth)
  BY DEF TypeInv, UserIsValid
<1>2. /\ body.name \in {"fine", "blank", "empty", "long", Absent}
      /\ body.name \notin {"empty", "long", "blank"}
  BY DEF Bodies, EntitiesAccept, User
<1>3. body.birth.form # Absent => Born(body.birth)
  BY AcceptedBirthIsBorn DEF Bodies, EntitiesAccept
<1>4. body.zone # Absent => body.zone \in Zones
  BY DEF EntitiesAccept, Timezone
<1>5. Updated(body) \in Bodies
  BY <1>1 DEF Bodies, Updated
<1>6. /\ Updated(body).name = "fine" /\ Updated(body).zone \in Zones
      /\ Updated(body).birth \in {user.birth, body.birth}
      /\ body.birth.form = Absent => Updated(body).birth = user.birth
  BY <1>1, <1>2, <1>4 DEF Updated
<1> QED BY <1>1, <1>3, <1>5, <1>6

LEMMA ReplaceTypes ==
  ASSUME TypeInv, user # NoUser, NEW u \in Bodies, u.name = "fine", u.zone \in Zones, Born(u.birth),
         Replace(u), UNCHANGED script
  PROVE  TypeInv'
<1>1. /\ now \in Nat /\ server \in Servers /\ DeliveryAt \in 0 .. Day - 1 /\ u # NoUser
      /\ event \in Events \cup {NoEvent} /\ basis \in Bases
  BY DeliveryAtIsOfDay, UserApiAssumption DEF TypeInv, UserApiTypeOK
<1>2. \A ev \in Events : OnUserBirthdayChanged(ev, u) \in Events
  <2>1. /\ calculateNextOccurrence(u.birth, u.zone, now, DeliveryAt) \in Int
        /\ OccurrenceUTC(calculateNextOccurrence(u.birth, u.zone, now, DeliveryAt), u.zone) \in Int
    BY <1>1, OccurrenceIsEvent
  <2> QED BY <2>1, UserApiAssumption DEF OnUserBirthdayChanged, Events
<1>3. \A ev \in Events : OnUserTimezoneChanged(ev, u.zone) \in Events
  <2>1. \A ev \in Events : convertToUTC(toWallClock(ev.local, "UTC"), u.zone, now) \in Int
    BY RezonedIsInt DEF Events
  <2> QED BY <2>1, UserApiAssumption DEF OnUserTimezoneChanged, Events
<1>4. event' \in Events \cup {NoEvent}
  BY <1>1, <1>2, <1>3 DEF Replace
<1>5. basis' \in Bases
  <2>1. "moved" \in Kinds /\ "rezoned" \in Kinds /\ now \in Int
    BY <1>1 DEF Kinds
  <2> QED BY <1>1, <2>1, BasisTypes DEF Replace
<1>6. /\ now' = now /\ server' = server /\ steps' \in 0 .. MaxSteps
      /\ answer' \in {0, 200, 201, 204, 400, 404, 500}
      /\ user' = u /\ keys' = keys
  BY AcceptKeeps DEF Replace
<1>7. UserApiTypeOK'
  BY <1>1, <1>4, <1>5, <1>6 DEF TypeInv, UserApiTypeOK
<1>8. UserIsValid' /\ ScriptOK'
  BY <1>6 DEF UserIsValid, TypeInv, ScriptOK
<1> QED BY <1>7, <1>8 DEF TypeInv

LEMMA IdStatusIsStatus ==
  ASSUME NEW id, NEW otherwise \in {200, 204, 500}
  PROVE  /\ IdStatus(id, otherwise) \in {200, 204, 400, 404, 500}
         /\ IdStatus(id, otherwise) \in {200, 204} => user # NoUser /\ IdStatus(id, otherwise) = otherwise
<1>1. CASE id = "malformed"
  BY <1>1 DEF IdStatus
<1>2. CASE id # "malformed" /\ user = NoUser
  BY <1>2 DEF IdStatus
<1>3. CASE id # "malformed" /\ user # NoUser /\ ~EntitiesAccept(user)
  BY <1>3 DEF IdStatus
<1>4. CASE id # "malformed" /\ user # NoUser /\ EntitiesAccept(user)
  BY <1>4 DEF IdStatus
<1> QED BY <1>1, <1>2, <1>3, <1>4

\* A PUT that is accepted has a row and a body the entities accept.
LEMMA PutIsAccepted ==
  ASSUME NEW id, NEW body, Put(id, body)
  PROVE  \/ /\ user # NoUser /\ UpdateUserSchema(body) /\ EntitiesAccept(body)
            /\ Replace(Updated(body))
         \/ OnlyAnswer(PutStatus(id, body)) /\ PutStatus(id, body) \in {400, 404, 500}
<1> DEFINE otherwise == IF EntitiesAccept(body) THEN 200 ELSE 500
           s == IdStatus(id, otherwise)
<1>1. /\ s \in {200, 204, 400, 404, 500} /\ otherwise \in {200, 500}
      /\ s \in {200, 204} => user # NoUser /\ s = otherwise
  BY IdStatusIsStatus
<1>2. PutStatus(id, body) = IF UpdateUserSchema(body) THEN s ELSE 400
  BY DEF PutStatus
<1>3. otherwise = 200 => EntitiesAccept(body)
  OBVIOUS
<1> HIDE DEF s, otherwise
<1> QED BY <1>1, <1>2, <1>3 DEF Put

LEMMA PutTypes ==
  ASSUME TypeInv, NEW id, NEW body \in Bodies, Put(id, body), UNCHANGED script
  PROVE  TypeInv'
<1>1. CASE /\ user # NoUser /\ UpdateUserSchema(body) /\ EntitiesAccept(body)
           /\ Replace(Updated(body))
  BY <1>1, UpdatedIsValid, ReplaceTypes
<1>2. CASE OnlyAnswer(PutStatus(id, body)) /\ PutStatus(id, body) \in {400, 404, 500}
  BY <1>2, AnswerKeeps
<1> QED BY <1>1, <1>2, PutIsAccepted

LEMMA GetTypes ==
  ASSUME TypeInv, NEW id, Get(id), UNCHANGED script
  PROVE  TypeInv'
<1>1. IdStatus(id, 200) \in {200, 204, 400, 404, 500}
  BY IdStatusIsStatus
<1> QED BY <1>1, AnswerKeeps DEF Get

LEMMA DeleteTypes ==
  ASSUME TypeInv, NEW id, Delete(id), UNCHANGED script
  PROVE  TypeInv'
<1>1. IdStatus(id, 204) \in {200, 204, 400, 404, 500}
  BY IdStatusIsStatus
<1>2. CASE IdStatus(id, 204) = 204
  <2>1. Accept(204) /\ user' = NoUser /\ event' = NoEvent /\ keys' = {} /\ basis' = NoBasis
    BY <1>2 DEF Delete
  <2>2. UserApiTypeOK'
    BY <2>1, AcceptKeeps, BasisTypes DEF TypeInv, UserApiTypeOK
  <2> QED BY <2>1, <2>2 DEF TypeInv, UserIsValid, ScriptOK, Accept
<1>3. CASE IdStatus(id, 204) # 204
  BY <1>1, <1>3, AnswerKeeps DEF Delete
<1> QED BY <1>2, <1>3

LEMMA WaitTypes ==
  ASSUME TypeInv, Wait, UNCHANGED script
  PROVE  TypeInv'
<1>1. PICK d \in Int : d > 0 /\ now' = now + d
  BY UserApiAssumption DEF TypeInv, UserApiTypeOK, Wait, Events
<1>2. now' \in Nat /\ now' >= now
  BY <1>1 DEF TypeInv, UserApiTypeOK
<1>3. steps' \in 0 .. MaxSteps
  BY UserApiAssumption DEF TypeInv, UserApiTypeOK, Wait
<1>4. UserApiTypeOK'
  BY <1>2, <1>3 DEF TypeInv, UserApiTypeOK, Wait, eventVars
<1>5. ScriptOK'
  <2>1. Day \in Nat
    BY DEF Day
  <2> QED BY <1>2, <2>1 DEF TypeInv, UserApiTypeOK, ScriptOK
<1> QED BY <1>4, <1>5 DEF TypeInv, UserIsValid, Wait

\* What is celebrated, and what it leaves.
LEMMA CelebrateTypes ==
  ASSUME TypeInv, Celebrate, UNCHANGED script
  PROVE  TypeInv'
<1> DEFINE local  == calculateNextOccurrence(user.birth, user.zone, event.local, BIRTHDAY)
           target == OccurrenceUTC(local, user.zone)
<1>1. /\ event \in Events /\ user # NoUser /\ user \in Bodies
      /\ user.zone \in Zones /\ Born(user.birth) /\ basis \in Bases
      /\ event.local \in Int /\ event.target \in Int
  BY DEF TypeInv, UserApiTypeOK, UserIsValid, Celebrate, Events
<1>2. BIRTHDAY \in 0 .. Day - 1
  <2>1. BIRTHDAY \in Int /\ 0 <= BIRTHDAY /\ BIRTHDAY < Day
    BY DEF BIRTHDAY, Hour, Day
  <2> QED BY <2>1, OfDay
<1>3. local \in Int /\ target \in Int
  BY <1>1, <1>2, OccurrenceIsEvent
<1>4. /\ event' \in Events \cup {NoEvent} /\ keys' \subseteq Int
      /\ basis' = [kind |-> "followed", ref |-> event.local, at |-> BIRTHDAY, zone |-> user.zone,
                   last |-> [kind |-> basis.kind, at |-> basis.at, target |-> event.target]]
      /\ user' = user /\ now' = now /\ server' = server /\ steps' = steps /\ answer' = 0
  <2> HIDE DEF local, target
  <2>1. /\ event' = IF target \in keys
                    THEN NoEvent
                    ELSE [target |-> target, local |-> local, payload |-> "messageOnly"]
        /\ keys' = keys \cup {target}
    BY DEF Celebrate, local, target
  <2>2. event' \in Events \cup {NoEvent} /\ keys' \subseteq Int
    BY <1>3, <2>1 DEF Events, TypeInv, UserApiTypeOK
  <2> QED BY <2>2 DEF Celebrate
<1>5. basis' \in Bases
  <2>1. /\ basis.kind \in Kinds /\ basis.at \in 0 .. Day - 1 /\ "followed" \in Kinds
    BY <1>1 DEF Bases, Kinds
  <2>2. basis.at \in Int
    BY <2>1, OfDay
  <2> QED BY <1>1, <1>2, <1>4, <2>1, <2>2 DEF Bases
<1>6. UserApiTypeOK'
  BY <1>1, <1>4, <1>5 DEF TypeInv, UserApiTypeOK
<1> QED BY <1>4, <1>6 DEF TypeInv, UserIsValid, ScriptOK

LEMMA TimeOfDayTypes ==
  ASSUME NEW t \in Nat
  PROVE  /\ calculateTargetTime(t).form = "time" /\ calculateTargetTime(t).hour \in Nat
         /\ calculateTargetTime(t).minute \in Nat /\ calculateTargetTime(t).second \in Nat
         /\ calculateTargetTime(t) \in [form : {"unset", "malformed", "time"}, hour : Nat, minute : Nat, second : Nat]
<1>1. PICK s \in Nat : s = t % Day
  BY DEF Day
<1>2. s \div Hour \in Nat /\ (s % Hour) \div 60 \in Nat /\ s % 60 \in Nat
  <2>1. PICK r \in Nat : r = s % Hour
    BY DEF Hour
  <2>2. s \div Hour \in Nat /\ r \div 60 \in Nat
    BY DEF Hour
  <2> QED BY <2>1, <2>2
<1> QED BY <1>1, <1>2 DEF calculateTargetTime, TimeOfDay

\* The script leaves the rows alone and starts servers.
LEMMA ScriptKeepsRows ==
  ASSUME TypeInv, UNCHANGED <<user, steps, eventVars>>, server' \in Servers, now' \in Nat, now' >= now,
         answer' = 0,
         script' \in [pc : {"idle", "failed", "kill", "start", "wait", "create", "done"},
                      started : Nat, offset : Nat, restarted : BOOLEAN]
  PROVE  TypeInv'
<1>1. UserApiTypeOK'
  BY DEF TypeInv, UserApiTypeOK, eventVars
<1>2. now' >= Day
  <2>1. Day \in Nat
    BY DEF Day
  <2> QED BY <2>1 DEF TypeInv, UserApiTypeOK, ScriptOK
<1> QED BY <1>1, <1>2 DEF TypeInv, UserIsValid, ScriptOK

LEMMA ScriptTypes ==
  ASSUME TypeInv,
         \/ \E argument \in Arguments : RunScript(argument)
         \/ killProcessOnPort \/ startDevServer \/ waitForServer
  PROVE  TypeInv'
<1>1. /\ now \in Nat /\ server \in Servers
      /\ script \in [pc : {"idle", "failed", "kill", "start", "wait", "create", "done"},
                     started : Nat, offset : Nat, restarted : BOOLEAN]
  BY DEF TypeInv, UserApiTypeOK, ScriptOK
<1>2. ASSUME NEW argument \in Nat, RunScript(argument) PROVE TypeInv'
  <2>1. OFFSET_SECONDS(argument) \in Nat
    BY DEF OFFSET_SECONDS
  <2>2. script' \in [pc : {"idle", "failed", "kill", "start", "wait", "create", "done"},
                     started : Nat, offset : Nat, restarted : BOOLEAN]
    BY <1>1, <1>2, <2>1 DEF RunScript
  <2>3. server' \in Servers /\ now' \in Nat /\ now' >= now
    <3>1. server' = server /\ now' = now
      BY <1>2 DEF RunScript
    <3> QED BY <1>1, <3>1
  <2>4. answer' = 0 /\ UNCHANGED <<user, steps, eventVars>>
    BY <1>2 DEF RunScript
  <2> QED BY <2>2, <2>3, <2>4, ScriptKeepsRows
<1>3. ASSUME killProcessOnPort PROVE TypeInv'
  <2>1. server' \in Servers /\ now' \in Nat /\ now' >= now
    <3>1. [server EXCEPT !.up = FALSE] \in Servers
      BY <1>1 DEF Servers
    <3>2. \/ server' = [server EXCEPT !.up = FALSE] /\ now' = now + 1
          \/ server' = server /\ now' = now
      BY <1>3 DEF killProcessOnPort
    <3>3. server' \in Servers
      BY <1>1, <3>1, <3>2
    <3>4. now' = now + 1 \/ now' = now
      BY <3>2
    <3> QED BY <1>1, <3>3, <3>4
  <2>2. script' \in [pc : {"idle", "failed", "kill", "start", "wait", "create", "done"},
                     started : Nat, offset : Nat, restarted : BOOLEAN]
    BY <1>1, <1>3 DEF killProcessOnPort
  <2> QED BY <1>3, <2>1, <2>2, ScriptKeepsRows DEF killProcessOnPort
<1>4. ASSUME startDevServer PROVE TypeInv'
  <2>1. script.started + script.offset \in Nat
    BY <1>1
  <2>2. server' \in Servers
    BY <1>1, <1>4, <2>1, TimeOfDayTypes DEF startDevServer, Servers
  <2>3. script' \in [pc : {"idle", "failed", "kill", "start", "wait", "create", "done"},
                     started : Nat, offset : Nat, restarted : BOOLEAN]
    BY <1>1, <1>4 DEF startDevServer
  <2> QED BY <1>1, <1>4, <2>2, <2>3, ScriptKeepsRows DEF startDevServer
<1>5. ASSUME waitForServer PROVE TypeInv'
  <2>1. PICK delay \in Nat, ready \in BOOLEAN :
          /\ server' = [server EXCEPT !.up = ready]
          /\ script' = [script EXCEPT !.pc = IF ready THEN "create" ELSE "failed"]
          /\ now' = IF server.up THEN now ELSE now + delay
    BY <1>1, <1>5, FastTestAssumption DEF waitForServer, Servers
  <2>2. server' \in Servers /\ now' \in Nat /\ now' >= now
    BY <1>1, <2>1 DEF Servers
  <2>3. script' \in [pc : {"idle", "failed", "kill", "start", "wait", "create", "done"},
                     started : Nat, offset : Nat, restarted : BOOLEAN]
    BY <1>1, <2>1
  <2> QED BY <1>5, <2>2, <2>3, ScriptKeepsRows DEF waitForServer
<1> QED BY <1>2, <1>3, <1>4, <1>5, FastTestAssumption

\* The test user is a body like those that clients send, once it is accepted.
LEMMA TestUserIsBody ==
  ASSUME TypeInv, PostStatus(TestUser(DateOf(now \div Day))) = 201
  PROVE  TestUser(DateOf(now \div Day)) \in Bodies
<1> DEFINE today == DateOf(now \div Day)
           u == TestUser(today)
<1>1. today.year \in Int
  <2>1. now \div Day \in Int
    BY DEF TypeInv, UserApiTypeOK, Day
  <2>2. YearOf(now \div Day) \in Int
    BY <2>1, CalendarAssumption, YearsAreInt DEF YearOf
  <2> QED BY <2>2 DEF DateOf
<1> HIDE DEF today
<1>2. /\ u.name = "fine" /\ u.zone = "UTC" /\ u.birth.form = "date"
      /\ u.birth.year = today.year /\ u.birth.month = today.month /\ u.birth.day = today.day
  BY DEF TestUser
<1>3. Born(u.birth)
  <2>1. EntitiesAccept(u)
    BY DEF PostStatus, today
  <2>2. DateOfBirth(u.birth)
    BY <1>2, <2>1 DEF EntitiesAccept, Absent
  <2> QED BY <1>1, <1>2, <2>2, AcceptedBirthIsBorn
<1>4. today.month \in Int /\ today.day \in Int
  BY <1>2, <1>3, MonthLengths DEF Born
<1> QED BY <1>1, <1>4, ZoneTable DEF TestUser, Bodies, today

LEMMA CreateTestUserTypes ==
  ASSUME TypeInv, createTestUser
  PROVE  TypeInv'
<1> DEFINE u == TestUser(DateOf(now \div Day))
<1>1. script' \in [pc : {"idle", "failed", "kill", "start", "wait", "create", "done"},
                   started : Nat, offset : Nat, restarted : BOOLEAN]
  BY DEF TypeInv, ScriptOK, createTestUser
<1>2. CASE PostStatus(u) = 201
  <2>1. Create(u)
    BY <1>2 DEF createTestUser, Post
  <2>2. ScriptOK'
    BY <1>1, <2>1 DEF TypeInv, ScriptOK, Create, Accept
  <2>3. u \in Bodies
    BY <1>2, TestUserIsBody
  <2> HIDE DEF u
  <2> QED BY <1>2, <2>1, <2>2, <2>3, CreateTypes
<1>3. CASE PostStatus(u) # 201
  <2>1. OnlyAnswer(PostStatus(u)) /\ PostStatus(u) \in {400, 500}
    BY <1>3 DEF createTestUser, Post, PostStatus
  <2> HIDE DEF u
  <2>2. UserApiTypeOK' /\ UserIsValid'
    BY <2>1 DEF TypeInv, UserApiTypeOK, UserIsValid, OnlyAnswer, eventVars
  <2>3. ScriptOK'
    BY <1>1, <2>1 DEF TypeInv, ScriptOK, OnlyAnswer
  <2> QED BY <2>2, <2>3 DEF TypeInv
<1> QED BY <1>2, <1>3

LEMMA NextTypes == TypeInv /\ [FastTestNext]_fastTestVars => TypeInv'
<1> SUFFICES ASSUME TypeInv, [FastTestNext]_fastTestVars PROVE TypeInv'
  OBVIOUS
<1>1. CASE ScriptRuns
  BY <1>1, ScriptTypes, CreateTestUserTypes DEF ScriptRuns
<1>2. CASE Clients
  <2>1. UNCHANGED script
    BY <1>2 DEF Clients
  <2>2. ASSUME NEW body \in PostBodies, Post(body) PROVE TypeInv'
    BY <2>1, <2>2, PostTypes, UserApiAssumption
  <2>3. ASSUME NEW id \in Ids, NEW body \in PutBodies, Put(id, body) PROVE TypeInv'
    BY <2>1, <2>3, PutTypes, UserApiAssumption
  <2>4. ASSUME NEW id \in Ids, Get(id) \/ Delete(id) PROVE TypeInv'
    BY <2>1, <2>4, GetTypes, DeleteTypes
  <2>5. Wait \/ Celebrate => TypeInv'
    BY <2>1, WaitTypes, CelebrateTypes
  <2> QED BY <1>2, <2>2, <2>3, <2>4, <2>5 DEF Clients
<1>3. CASE UNCHANGED fastTestVars
  BY <1>3 DEF fastTestVars, apiVars, eventVars, TypeInv, UserApiTypeOK, ScriptOK, UserIsValid
<1> QED BY <1>1, <1>2, <1>3 DEF FastTestNext

LEMMA TypesHold == FastTestSpec => []TypeInv
<1> QED BY InitTypes, NextTypes, PTL DEF FastTestSpec

\* The API's state has its type, the delivery time and every date it computes included,
\* for all bodies, servers, waits and calendars.
THEOREM ApiTypeCorrect == FastTestSpec => []UserApiTypeOK
<1>1. TypeInv => UserApiTypeOK
  BY DEF TypeInv
<1> QED BY <1>1, TypesHold, PTL

-----------------------------------------------------------------------------
(***************************************************************************)
(* What waits is a birthday: at the time its basis says, on the clock its  *)
(* basis says, and after a timezone change where the local time is shown   *)
(* in the new zone.  From a local time of nine or later the next year's    *)
(* follows, which no key can refuse to the event of a registration.        *)
(***************************************************************************)
\* The clock is in the calendar's years, and so are the birthdays it leads to.
WithinYears == now + 3 * Day < YearStart(LastYear) * Day

EventIsRight ==
  event # NoEvent =>
    /\ Day <= event.local /\ event.local <= event.target + Day
    /\ \E y \in Years : BirthdayOf(event.local, user.birth, y, basis.zone, basis.at)
    /\ basis.kind = "rezoned" => Shows(user.zone, event.target, event.local)
    /\ basis.kind # "rezoned" =>
         /\ event.target = event.local /\ basis.zone = user.zone
         /\ IsNextBirthday(event.target, user.birth, user.zone, basis.at, basis.ref)

KeyIsOwn ==
  user # NoUser /\ server.webhook /\ basis.kind = "created" => keys = {event.target}

YearsInv == WithinYears => EventIsRight /\ KeyIsOwn /\ UserHasEvent /\ FollowerIsNextYear

LEMMA WithinIsIn ==
  ASSUME TypeInv, WithinYears, NEW t \in Int, Day <= t, t <= now + Day
  PROVE  InYears(t)
<1>1. PICK h \in Int : h = YearStart(LastYear) * Day
  BY CalendarAssumption, YearsAreInt DEF Day
<1>2. now + 3 * Day < h
  BY <1>1 DEF WithinYears
<1> QED BY <1>1, <1>2 DEF InYears, TypeInv, UserApiTypeOK, Day

LEMMA UtcIsStill == \A t \in Int : toWallClock(t, "UTC") = t
BY ZoneTable DEF toWallClock, Offset

\* The next occurrence from now survives its conversion.
LEMMA ComputedIsRight ==
  ASSUME TypeInv, WithinYears, NEW birth, Born(birth), NEW zone \in Zones
  PROVE  LET local == calculateNextOccurrence(birth, zone, now, DeliveryAt)
         IN  /\ local \in Int /\ now < local /\ Day <= local
             /\ OccurrenceUTC(local, zone) = local
             /\ \E y \in Years : BirthdayOf(local, birth, y, zone, DeliveryAt)
             /\ IsNextBirthday(local, birth, zone, DeliveryAt, now)
<1> DEFINE local == calculateNextOccurrence(birth, zone, now, DeliveryAt)
<1>1. now \in Int /\ Day <= now /\ Day \in Nat
  BY DEF TypeInv, UserApiTypeOK, ScriptOK, Day
<1>2. InYears(now)
  BY <1>1, WithinIsIn
<1>3. PICK at \in Int : at = DeliveryAt /\ 0 <= at /\ at < Day
  BY DeliveryAtIsOfDay, OfDay
<1>4. PICK y \in Years : /\ local \in Int /\ now < local
                         /\ IsNextBirthday(local, birth, zone, at, now)
                         /\ BirthdayOf(local, birth, y, zone, at)
                         /\ local = fixOffset(WallOf(birth, y, at), Offset(zone, now), zone)
  BY <1>2, <1>3, NextOccurrence
<1>5. PICK wall \in Nat : wall = WallOf(birth, y, at) /\ wall + Day < Horizon
  BY <1>3, WallOfYear
<1>6. fixOffset(toWallClock(local, zone), Offset(zone, now), zone) = local
  BY <1>4, <1>5, ConversionIsStable
<1>7. OccurrenceUTC(local, zone) = local
  BY <1>6 DEF OccurrenceUTC, convertToUTC
<1> QED BY <1>1, <1>3, <1>4, <1>7

\* Whatever leaves the rows and the URL alone leaves them right.
LEMMA RowsStay ==
  ASSUME YearsInv, UNCHANGED <<user, event, keys, basis>>, server'.webhook = server.webhook,
         now \in Int, now' \in Int, now' >= now
  PROVE  YearsInv'
<1>1. WithinYears' => WithinYears
  <2>1. PICK h \in Int : h = YearStart(LastYear) * Day
    BY CalendarAssumption, YearsAreInt DEF Day
  <2> QED BY <2>1 DEF WithinYears, Day
<1>2. EventIsRight => EventIsRight'
  BY DEF EventIsRight
<1>3. KeyIsOwn => KeyIsOwn'
  BY DEF KeyIsOwn
<1>4. UserHasEvent => UserHasEvent'
  BY DEF UserHasEvent
<1>5. FollowerIsNextYear => FollowerIsNextYear'
  BY DEF FollowerIsNextYear
<1> QED BY <1>1, <1>2, <1>3, <1>4, <1>5 DEF YearsInv

LEMMA CreateIsRight ==
  ASSUME TypeInv, YearsInv, NEW u \in Bodies, PostStatus(u) = 201, Create(u)
  PROVE  YearsInv'
<1> DEFINE local == calculateNextOccurrence(u.birth, u.zone, now, DeliveryAt)
<1>1. SUFFICES ASSUME WithinYears PROVE YearsInv'
  BY DEF YearsInv, WithinYears, Create, Accept
<1>2. u.zone \in Zones /\ Born(u.birth)
  BY AcceptedIsValid
<1>3. /\ local \in Int /\ now < local /\ Day <= local
      /\ OccurrenceUTC(local, u.zone) = local
      /\ \E y \in Years : BirthdayOf(local, u.birth, y, u.zone, DeliveryAt)
      /\ IsNextBirthday(local, u.birth, u.zone, DeliveryAt, now)
  BY <1>1, <1>2, ComputedIsRight
<1>4. /\ user' = u /\ server' = server
      /\ basis'.kind = "created" /\ basis'.ref = now /\ basis'.at = DeliveryAt /\ basis'.zone = u.zone
      /\ keys' = IF event' = NoEvent THEN {} ELSE {event'.target}
  BY DEF Create, ComputedNow, Accept
<1>5. /\ ~server.webhook => event' = NoEvent
      /\ server.webhook => event' = [target |-> local, local |-> local, payload |-> "complete"]
  BY <1>3 DEF Create, OnUserCreated
<1>6. server.webhook => event' # NoEvent
  BY <1>3, <1>5, UserApiAssumption DEF Events
<1> HIDE DEF local
<1>7. EventIsRight'
  <2>1. SUFFICES ASSUME event' # NoEvent PROVE EventIsRight'
    BY DEF EventIsRight
  <2>2. event'.local = local /\ event'.target = local
    BY <1>5, <2>1
  <2>3. local <= local + Day
    BY <1>3 DEF Day
  <2> QED BY <1>3, <1>4, <2>2, <2>3 DEF EventIsRight
<1>8. KeyIsOwn' /\ UserHasEvent'
  BY <1>4, <1>6 DEF KeyIsOwn, UserHasEvent
<1>9. FollowerIsNextYear'
  BY <1>4 DEF FollowerIsNextYear
<1> QED BY <1>7, <1>8, <1>9 DEF YearsInv

\* The event and its basis between the two handlers of an update.
MovedEvent(u) == IF event # NoEvent /\ u.birth # user.birth THEN OnUserBirthdayChanged(event, u) ELSE event

MovedBasis(u) == IF event # NoEvent /\ u.birth # user.birth THEN ComputedNow("moved", u.zone) ELSE basis

LEMMA ReplaceInSteps ==
  ASSUME NEW u, Replace(u)
  PROVE  LET rezones == event # NoEvent /\ u.zone # user.zone
         IN  /\ user' = u /\ keys' = keys /\ server' = server /\ now' = now
             /\ event' = IF rezones THEN OnUserTimezoneChanged(MovedEvent(u), u.zone) ELSE MovedEvent(u)
             /\ basis' = IF rezones THEN [MovedBasis(u) EXCEPT !.kind = "rezoned"] ELSE MovedBasis(u)
BY DEF Replace, MovedEvent, MovedBasis, Accept

LEMMA MovedIsRight ==
  ASSUME TypeInv, WithinYears, EventIsRight, event # NoEvent, user # NoUser,
         NEW u, Born(u.birth), u.zone \in Zones
  PROVE  LET ev == MovedEvent(u)
             ba == MovedBasis(u)
         IN  /\ ev \in Events /\ ba \in Bases
             /\ Day <= ev.local /\ ev.local <= ev.target + Day
             /\ \E y \in Years : BirthdayOf(ev.local, u.birth, y, ba.zone, ba.at)
             /\ u.birth # user.birth => /\ ba.kind = "moved"
                                        /\ ev.target = ev.local /\ ba.zone = u.zone
                                        /\ IsNextBirthday(ev.target, u.birth, u.zone, ba.at, ba.ref)
             /\ u.birth = user.birth => ev = event /\ ba = basis
<1>1. event \in Events /\ basis \in Bases /\ now \in Int
  BY DEF TypeInv, UserApiTypeOK
<1>2. CASE u.birth = user.birth
  <2>1. MovedEvent(u) = event /\ MovedBasis(u) = basis
    BY <1>2 DEF MovedEvent, MovedBasis
  <2> QED BY <1>1, <1>2, <2>1 DEF EventIsRight
<1>3. CASE u.birth # user.birth
  <2> DEFINE local == calculateNextOccurrence(u.birth, u.zone, now, DeliveryAt)
  <2>1. /\ local \in Int /\ now < local /\ Day <= local
        /\ OccurrenceUTC(local, u.zone) = local
        /\ \E y \in Years : BirthdayOf(local, u.birth, y, u.zone, DeliveryAt)
        /\ IsNextBirthday(local, u.birth, u.zone, DeliveryAt, now)
    BY ComputedIsRight
  <2>2. MovedEvent(u) = [event EXCEPT !.local = local, !.target = local]
    BY <1>3, <2>1 DEF MovedEvent, OnUserBirthdayChanged
  <2>3. /\ MovedBasis(u).kind = "moved" /\ MovedBasis(u).ref = now
        /\ MovedBasis(u).at = DeliveryAt /\ MovedBasis(u).zone = u.zone
    BY <1>3 DEF MovedBasis, ComputedNow
  <2> HIDE DEF local
  <2>4. MovedEvent(u) \in Events /\ MovedEvent(u).local = local /\ MovedEvent(u).target = local
    BY <1>1, <2>1, <2>2 DEF Events
  <2>5. MovedBasis(u) \in Bases
    <3>1. "moved" \in Kinds
      BY DEF Kinds
    <3> QED BY <1>1, <1>3, <3>1, DeliveryAtIsOfDay, BasisTypes DEF MovedBasis
  <2>6. local <= local + Day
    BY <2>1 DEF Day
  <2> QED BY <1>3, <2>1, <2>3, <2>4, <2>5, <2>6
<1> QED BY <1>2, <1>3

\* A local time is shown in any zone less than a day away.
LEMMA RezonedIsNear ==
  ASSUME NEW zone \in Zones, NEW local \in Int
  PROVE  LET t == convertToUTC(toWallClock(local, "UTC"), zone, now)
         IN  t \in Int /\ Shows(zone, t, local) /\ local <= t + Day
<1>1. PICK t \in Int : t = convertToUTC(toWallClock(local, "UTC"), zone, now) /\ Shows(zone, t, local)
  BY UtcIsStill, FixedIsShown DEF convertToUTC
<1>2. PICK s \in {0, -18000, 50400} : s = StandardOffset[zone]
  BY OffsetTable
<1>3. t = local - s \/ t = local - s - Hour
  BY <1>1, <1>2 DEF Shows
<1>4. local <= t + Day
  BY <1>2, <1>3 DEF Hour, Day
<1> QED BY <1>1, <1>4

LEMMA ReplaceIsRight ==
  ASSUME TypeInv, YearsInv, user # NoUser,
         NEW u \in Bodies, u.zone \in Zones, Born(u.birth), Replace(u)
  PROVE  YearsInv'
<1> DEFINE ev == MovedEvent(u)
           ba == MovedBasis(u)
           rezones == event # NoEvent /\ u.zone # user.zone
<1>1. SUFFICES ASSUME WithinYears PROVE YearsInv'
  BY ReplaceInSteps DEF YearsInv, WithinYears
<1>2. EventIsRight /\ KeyIsOwn /\ UserHasEvent /\ FollowerIsNextYear
  BY <1>1 DEF YearsInv
<1>3. /\ user' = u /\ keys' = keys /\ server' = server /\ now' = now
      /\ event' = IF rezones THEN OnUserTimezoneChanged(ev, u.zone) ELSE ev
      /\ basis' = IF rezones THEN [ba EXCEPT !.kind = "rezoned"] ELSE ba
  BY ReplaceInSteps
<1>4. CASE event = NoEvent
  <2>1. event' = NoEvent /\ basis' = basis
    BY <1>3, <1>4 DEF MovedEvent, MovedBasis
  <2>2. KeyIsOwn' /\ UserHasEvent'
    <3>1. server.webhook => basis.kind = "followed" /\ basis.last.kind # "created"
      BY <1>2, <1>4 DEF UserHasEvent
    <3> QED BY <1>3, <2>1, <3>1 DEF KeyIsOwn, UserHasEvent
  <2> QED BY <2>1, <2>2 DEF YearsInv, EventIsRight, FollowerIsNextYear
<1>5. CASE event # NoEvent
  <2>1. /\ ev \in Events /\ ba \in Bases
        /\ Day <= ev.local /\ ev.local <= ev.target + Day
        /\ \E y \in Years : BirthdayOf(ev.local, u.birth, y, ba.zone, ba.at)
        /\ u.birth # user.birth => /\ ba.kind = "moved"
                                   /\ ev.target = ev.local /\ ba.zone = u.zone
                                   /\ IsNextBirthday(ev.target, u.birth, u.zone, ba.at, ba.ref)
        /\ u.birth = user.birth => ev = event /\ ba = basis
    BY <1>1, <1>2, <1>5, MovedIsRight
  <2> HIDE DEF ev, ba
  <2>2. CASE u.zone = user.zone /\ u.birth = user.birth
    <3>1. event' = event /\ basis' = basis /\ user'.birth = user.birth /\ user'.zone = user.zone
      BY <1>3, <2>1, <2>2
    <3>2. EventIsRight'
      BY <1>2, <3>1 DEF EventIsRight
    <3>3. KeyIsOwn' /\ UserHasEvent'
      BY <1>2, <1>3, <1>5, <3>1 DEF KeyIsOwn, UserHasEvent
    <3>4. FollowerIsNextYear'
      BY <1>2, <3>1 DEF FollowerIsNextYear
    <3> QED BY <3>2, <3>3, <3>4 DEF YearsInv
  <2>3. CASE u.zone = user.zone /\ u.birth # user.birth
    <3>1. event' = ev /\ basis' = ba
      BY <1>3, <2>3
    <3>2. EventIsRight'
      BY <1>3, <2>1, <2>3, <3>1 DEF EventIsRight
    <3>3. KeyIsOwn' /\ UserHasEvent' /\ FollowerIsNextYear'
      BY <2>1, <2>3, <3>1, UserApiAssumption DEF KeyIsOwn, UserHasEvent, FollowerIsNextYear
    <3> QED BY <3>2, <3>3 DEF YearsInv
  <2>4. CASE u.zone # user.zone
    <3> DEFINE t == convertToUTC(toWallClock(ev.local, "UTC"), u.zone, now)
    <3>1. ev.local \in Int /\ ev # NoEvent
      BY <2>1, UserApiAssumption DEF Events
    <3>2. t \in Int /\ Shows(u.zone, t, ev.local) /\ ev.local <= t + Day
      BY <3>1, RezonedIsNear
    <3>3. event' = [ev EXCEPT !.target = t] /\ basis' = [ba EXCEPT !.kind = "rezoned"]
      BY <1>3, <1>5, <2>4, <3>1 DEF OnUserTimezoneChanged
    <3> HIDE DEF t
    <3>4. /\ event'.target = t /\ event'.local = ev.local /\ event' \in Events
          /\ basis'.kind = "rezoned" /\ basis'.zone = ba.zone /\ basis'.at = ba.at
      BY <2>1, <3>2, <3>3 DEF Events, Bases
    <3>5. EventIsRight'
      BY <1>3, <2>1, <3>2, <3>4 DEF EventIsRight
    <3>6. KeyIsOwn' /\ UserHasEvent' /\ FollowerIsNextYear'
      BY <3>4, UserApiAssumption DEF KeyIsOwn, UserHasEvent, FollowerIsNextYear
    <3> QED BY <3>5, <3>6 DEF YearsInv
  <2> QED BY <2>2, <2>3, <2>4
<1> QED BY <1>4, <1>5

LEMMA CelebrateIsRight ==
  ASSUME TypeInv, YearsInv, Celebrate
  PROVE  YearsInv'
<1> DEFINE birth == user.birth
           zone  == user.zone
           ref   == event.local
           local == calculateNextOccurrence(birth, zone, ref, BIRTHDAY)
<1>1. SUFFICES ASSUME WithinYears PROVE YearsInv'
  BY DEF YearsInv, WithinYears, Celebrate
<1>2. EventIsRight /\ KeyIsOwn /\ UserHasEvent /\ event # NoEvent /\ user # NoUser
  BY <1>1 DEF YearsInv, Celebrate, TypeInv, UserApiTypeOK
<1>3. /\ event \in Events /\ basis \in Bases /\ now \in Int /\ Born(birth) /\ zone \in Zones
      /\ ref \in Int /\ event.target \in Int /\ event.target <= now
  BY <1>2 DEF TypeInv, UserApiTypeOK, UserIsValid, Events, Celebrate
<1>4. InYears(ref)
  <2>1. Day <= ref /\ ref <= event.target + Day
    BY <1>2 DEF EventIsRight
  <2>2. ref <= now + Day
    BY <1>3, <2>1 DEF Day
  <2> QED BY <1>1, <1>3, <2>1, <2>2, WithinIsIn
<1>5. BIRTHDAY \in Int /\ 0 <= BIRTHDAY /\ BIRTHDAY < Day /\ 9 * Hour <= BIRTHDAY
  BY DEF BIRTHDAY, Hour, Day
<1>6. PICK z \in Years : /\ local \in Int /\ ref < local
                         /\ IsNextBirthday(local, birth, zone, BIRTHDAY, ref)
                         /\ BirthdayOf(local, birth, z, zone, BIRTHDAY)
  BY <1>3, <1>4, <1>5, NextOccurrence
<1>7. OccurrenceUTC(local, zone) = local
  BY <1>3, <1>5, <1>6, BirthdayOnce DEF OccurrenceUTC, convertToUTC
<1>8. /\ user' = user /\ server' = server /\ now' = now
      /\ event' = IF local \in keys
                  THEN NoEvent
                  ELSE [target |-> local, local |-> local, payload |-> "messageOnly"]
  BY <1>7 DEF Celebrate
<1>9. /\ basis'.kind = "followed" /\ basis'.ref = ref /\ basis'.at = BIRTHDAY /\ basis'.zone = zone
      /\ basis'.last.kind = basis.kind /\ basis'.last.at = basis.at /\ basis'.last.target = event.target
  BY DEF Celebrate
<1> HIDE DEF local
<1>10. event' # NoEvent => event'.target = local /\ event'.local = local
  BY <1>8
<1>11. EventIsRight'
  <2>1. SUFFICES ASSUME event' # NoEvent PROVE EventIsRight'
    BY DEF EventIsRight
  <2>2. Day <= local /\ local <= local + Day
    BY <1>4, <1>6 DEF InYears, Day
  <2> QED BY <1>6, <1>8, <1>9, <1>10, <2>1, <2>2 DEF EventIsRight
<1>12. KeyIsOwn'
  BY <1>9 DEF KeyIsOwn
<1>13. UserHasEvent'
  <2>1. SUFFICES ASSUME server.webhook, basis.kind = "created" PROVE event' # NoEvent
    BY <1>8, <1>9 DEF UserHasEvent
  <2>2. keys = {ref}
    BY <1>2, <2>1 DEF KeyIsOwn, EventIsRight
  <2>3. local \notin keys
    BY <1>3, <1>6, <2>2
  <2> QED BY <1>6, <1>8, <2>3, UserApiAssumption DEF Events
<1>14. FollowerIsNextYear'
  <2>1. SUFFICES ASSUME event' # NoEvent, basis.kind # "rezoned", basis.at >= BIRTHDAY
                 PROVE  YearOf(toWallClock(local, zone) \div Day) =
                          YearOf(toWallClock(event.target, zone) \div Day) + 1
    BY <1>8, <1>9, <1>10 DEF FollowerIsNextYear
  <2>2. PICK y \in Years : BirthdayOf(ref, birth, y, zone, basis.at)
    BY <1>2, <2>1 DEF EventIsRight
  <2>3. event.target = ref
    BY <1>2, <2>1 DEF EventIsRight
  <2>4. PICK at \in Int : at = basis.at /\ BIRTHDAY <= at /\ at < Day /\ 9 * Hour <= at
    <3>1. basis.at \in Int /\ basis.at < Day
      BY <1>3, OfDay DEF Bases
    <3> QED BY <2>1, <3>1 DEF BIRTHDAY
  <2>5. BirthdayOf(local, birth, y + 1, zone, BIRTHDAY)
    BY <1>3, <1>4, <2>2, <2>4, FollowerIsYearLater DEF local
  <2>6. YearOf(toWallClock(local, zone) \div Day) = y + 1
    BY <1>3, <1>5, <2>5, BirthdayOnce
  <2>7. YearOf(toWallClock(ref, zone) \div Day) = y
    BY <1>3, <2>2, <2>4, BirthdayOnce
  <2> QED BY <2>3, <2>6, <2>7
<1> QED BY <1>11, <1>12, <1>13, <1>14 DEF YearsInv

LEMMA InitIsRight == FastTestInit => YearsInv
BY DEF FastTestInit, UserApiInit, YearsInv, EventIsRight, KeyIsOwn, UserHasEvent, FollowerIsNextYear

LEMMA AnswerIsRight ==
  ASSUME TypeInv, YearsInv, NEW status, OnlyAnswer(status)
  PROVE  YearsInv'
<1>1. now \in Int /\ UNCHANGED <<now, server, user, event, keys, basis>>
  BY DEF OnlyAnswer, eventVars, TypeInv, UserApiTypeOK
<1> QED BY <1>1, RowsStay

LEMMA ScriptIsRight ==
  ASSUME TypeInv, YearsInv, ScriptRuns, TypeInv'
  PROVE  YearsInv'
<1>1. now \in Int /\ now' \in Int /\ server \in Servers
  BY DEF TypeInv, UserApiTypeOK
<1>2. ASSUME NEW argument, RunScript(argument) PROVE YearsInv'
  <2>1. UNCHANGED <<now, server, user, event, keys, basis>>
    BY <1>2 DEF RunScript, eventVars
  <2> QED BY <1>1, <2>1, RowsStay
<1>3. ASSUME killProcessOnPort PROVE YearsInv'
  <2>1. UNCHANGED <<user, event, keys, basis>> /\ server'.webhook = server.webhook
    BY <1>1, <1>3 DEF killProcessOnPort, eventVars, Servers
  <2>2. now' = now + 1 \/ now' = now
    BY <1>3 DEF killProcessOnPort
  <2> QED BY <1>1, <2>1, <2>2, RowsStay
<1>4. ASSUME startDevServer PROVE YearsInv'
  <2>1. UNCHANGED <<now, user, event, keys, basis>> /\ server'.webhook = server.webhook
    BY <1>1, <1>4 DEF startDevServer, eventVars, Servers
  <2> QED BY <1>1, <2>1, RowsStay
<1>5. ASSUME waitForServer PROVE YearsInv'
  <2>1. UNCHANGED <<user, event, keys, basis>> /\ server'.webhook = server.webhook
    BY <1>1, <1>5 DEF waitForServer, eventVars, Servers
  <2>2. now' >= now
    BY <1>1, <1>5, FastTestAssumption DEF waitForServer
  <2> QED BY <1>1, <2>1, <2>2, RowsStay
<1>6. ASSUME createTestUser PROVE YearsInv'
  <2> DEFINE u == TestUser(DateOf(now \div Day))
  <2>1. IF PostStatus(u) = 201 THEN Create(u) ELSE OnlyAnswer(PostStatus(u))
    BY <1>6 DEF createTestUser, Post
  <2>2. PostStatus(u) = 201 => u \in Bodies
    BY TestUserIsBody
  <2> HIDE DEF u
  <2> QED BY <2>1, <2>2, CreateIsRight, AnswerIsRight
<1> QED BY <1>2, <1>3, <1>4, <1>5, <1>6 DEF ScriptRuns

LEMMA NextIsRight == TypeInv /\ YearsInv /\ [FastTestNext]_fastTestVars => YearsInv'
<1> SUFFICES ASSUME TypeInv, YearsInv, [FastTestNext]_fastTestVars PROVE YearsInv'
  OBVIOUS
<1>1. TypeInv'
  BY NextTypes
<1>2. now \in Int /\ now' \in Int
  BY <1>1 DEF TypeInv, UserApiTypeOK
<1>3. CASE ScriptRuns
  BY <1>1, <1>3, ScriptIsRight
<1>4. CASE Clients
  <2>1. ASSUME NEW body \in PostBodies, Post(body) PROVE YearsInv'
    BY <2>1, UserApiAssumption, CreateIsRight, AnswerIsRight DEF Post
  <2>2. ASSUME NEW id \in Ids, NEW body \in PutBodies, Put(id, body) PROVE YearsInv'
    <3>1. body \in Bodies
      BY UserApiAssumption
    <3>2. CASE /\ user # NoUser /\ UpdateUserSchema(body) /\ EntitiesAccept(body)
               /\ Replace(Updated(body))
      BY <3>1, <3>2, UpdatedIsValid, ReplaceIsRight
    <3>3. CASE OnlyAnswer(PutStatus(id, body))
      BY <3>3, AnswerIsRight
    <3> QED BY <2>2, <3>2, <3>3, PutIsAccepted
  <2>3. ASSUME NEW id \in Ids, Get(id) PROVE YearsInv'
    BY <2>3, AnswerIsRight DEF Get
  <2>4. ASSUME NEW id \in Ids, Delete(id) PROVE YearsInv'
    <3>1. CASE OnlyAnswer(IdStatus(id, 204))
      BY <3>1, AnswerIsRight
    <3>2. CASE user' = NoUser /\ event' = NoEvent
      BY <3>2 DEF YearsInv, EventIsRight, KeyIsOwn, UserHasEvent, FollowerIsNextYear
    <3> QED BY <2>4, <3>1, <3>2 DEF Delete
  <2>5. ASSUME Wait PROVE YearsInv'
    <3>1. UNCHANGED <<server, user, event, keys, basis>> /\ now' >= now
      BY <1>2, <2>5, UserApiAssumption DEF Wait, eventVars, TypeInv, UserApiTypeOK, Events
    <3> QED BY <1>2, <3>1, RowsStay
  <2>6. ASSUME Celebrate PROVE YearsInv'
    BY <2>6, CelebrateIsRight
  <2> QED BY <1>4, <2>1, <2>2, <2>3, <2>4, <2>5, <2>6 DEF Clients
<1>5. CASE UNCHANGED fastTestVars
  <2>1. UNCHANGED <<now, server, user, event, keys, basis>>
    BY <1>5 DEF fastTestVars, apiVars, eventVars
  <2> QED BY <1>2, <2>1, RowsStay
<1> QED BY <1>3, <1>4, <1>5 DEF FastTestNext

LEMMA RightHolds == FastTestSpec => []YearsInv
<1>1. FastTestInit => TypeInv /\ YearsInv
  BY InitTypes, InitIsRight
<1>2. (TypeInv /\ YearsInv) /\ [FastTestNext]_fastTestVars => (TypeInv /\ YearsInv)'
  BY NextTypes, NextIsRight
<1> QED BY <1>1, <1>2, PTL DEF FastTestSpec

\* As long as the clock is within the years of the calendar, a waiting event is the first
\* birthday after the instant it was computed from, on the user's calendar and clock and at
\* the delivery time of the server, for every date of birth, zone and history; after a
\* timezone change it is a birthday if its local time was written in UTC.
THEOREM WaitingIsNextBirthday == FastTestSpec => [](WithinYears => EventIsNextBirthday)
<1>1. TypeInv /\ YearsInv => (WithinYears => EventIsNextBirthday)
  <2>1. SUFFICES ASSUME TypeInv, EventIsRight, event # NoEvent PROVE EventIsNextBirthday
    BY DEF YearsInv, EventIsNextBirthday
  <2>2. CASE basis.kind # "rezoned"
    BY <2>1, <2>2 DEF EventIsRight, EventIsNextBirthday
  <2>3. CASE basis.kind = "rezoned" /\ basis.zone = "UTC"
    <3>1. /\ Born(user.birth) /\ user.zone \in Zones /\ event.local \in Int /\ basis \in Bases
          /\ event.target \in Int
      BY <2>1 DEF TypeInv, UserApiTypeOK, UserIsValid, Events
    <3>2. PICK at \in Int : at = basis.at /\ 0 <= at /\ at < Day
      BY <3>1, OfDay DEF Bases
    <3>3. PICK y \in Years : BirthdayOf(event.local, user.birth, y, "UTC", at)
      BY <2>1, <2>3, <3>2 DEF EventIsRight
    <3>4. event.local = WallOf(user.birth, y, at)
      <4>1. PICK wall \in Nat : wall = WallOf(user.birth, y, at)
        BY <3>1, <3>2, WallOfYear
      <4>2. Offset("UTC", wall) = 0 /\ StandardOffset["UTC"] = 0
        BY ZoneTable DEF Offset
      <4>3. \A t : Offset("UTC", t) = 0
        BY ZoneTable DEF Offset
      <4> QED BY <3>3, <4>1, <4>2, <4>3 DEF BirthdayOf, Shows, Hour
    <3>5. BirthdayOf(event.target, user.birth, y, user.zone, at)
      BY <2>1, <2>3, <3>4 DEF EventIsRight, BirthdayOf
    <3> QED BY <2>3, <3>1, <3>2, <3>5, BirthdayIsBirthday DEF EventIsNextBirthday
  <2> QED BY <2>2, <2>3 DEF EventIsNextBirthday
<1> QED BY <1>1, TypesHold, RightHolds, PTL

\* Whoever is registered has an event, unless the URL was missing, or a celebrated event
\* had been moved and an old key refuses its follower: an event that was never moved always
\* has its follower, on every date and in every zone.
THEOREM RegisteredHaveEvents == FastTestSpec => [](WithinYears => UserHasEvent)
<1>1. YearsInv => (WithinYears => UserHasEvent)
  BY DEF YearsInv
<1> QED BY <1>1, RightHolds, PTL

\* A follower is in the year after the birthday that was celebrated, whatever the zone
\* does to its clocks between the two and wherever leap days fall.
THEOREM FollowersAreNextYear == FastTestSpec => [](WithinYears => FollowerIsNextYear)
<1>1. YearsInv => (WithinYears => FollowerIsNextYear)
  BY DEF YearsInv
<1> QED BY <1>1, RightHolds, PTL

LEMMA AcceptedHasBegun ==
  ASSUME TypeInv, now < Horizon, NEW birth, Born(birth), DateOfBirth(birth)
  PROVE  Begun(birth, server.host, now)
<1>1. CASE birth.year < FirstYear
  BY <1>1 DEF Begun
<1>2. CASE birth.year >= FirstYear
  <2>1. PICK k \in Nat : k = DayNumber(birth.year, birth.month, birth.day)
    BY <1>2, BornDay
  <2>2. PICK t \in Int : t = convertToUTC(k * Day, server.host, now) /\ t <= now /\ Shows(server.host, t, k * Day)
    <3>1. server.host \in Zones /\ k * Day \in Int
      BY DEF TypeInv, UserApiTypeOK, Servers, Day
    <3>2. convertToUTC(k * Day, server.host, now) <= now
      BY <1>2, <2>1, CalendarAssumption DEF DateOfBirth, Born
    <3> QED BY <3>1, <3>2, FixedIsShown DEF convertToUTC
  <2>3. server.host \in Zones /\ now \in Int
    BY DEF TypeInv, UserApiTypeOK, Servers
  <2>4. k * Day <= toWallClock(t, server.host)
    <3>1. PICK s \in Int, o \in Int : /\ s = StandardOffset[server.host] /\ o = Offset(server.host, t)
                                      /\ (o = s \/ o = s + Hour)
      BY <2>3, OffsetTable
    <3>2. PICK wall \in Int : wall = k * Day
      BY DEF Day
    <3>3. \/ t = wall - s /\ o = s
          \/ t = wall - s - Hour /\ o = s + Hour
          \/ t = wall - s /\ o # s
      BY <2>2, <3>1, <3>2 DEF Shows
    <3>4. wall <= t + o
      BY <3>1, <3>3 DEF Hour
    <3> QED BY <3>1, <3>2, <3>4 DEF toWallClock
  <2> QED BY <2>1, <2>2, <2>3, <2>4, MidnightStays DEF Begun
<1> QED BY <1>1, <1>2, CalendarAssumption DEF Born

-----------------------------------------------------------------------------
(* The date of a stored row has begun. *)

BegunInv == WithinYears /\ user # NoUser => Begun(user.birth, server.host, now)

LEMMA WithinGoesBack ==
  ASSUME now \in Int, now' \in Int, now' >= now, WithinYears'
  PROVE  WithinYears /\ now < Horizon /\ now' < Horizon
<1>1. PICK h \in Int : h = YearStart(LastYear) * Day /\ h < Horizon
  <2>1. LastYear \in Years
    BY CalendarAssumption DEF Years
  <2>2. PICK a \in Int, b \in Int : /\ a = YearStart(LastYear) /\ b = YearStart(LastYear + 1)
                                    /\ a <= b /\ b * Day + 10 * Day < Horizon
    BY <2>1, CalendarAssumption, YearsInHorizon, YearsFollow
  <2> QED BY <2>2 DEF Day, Horizon
<1>2. now' + 3 * Day < h
  BY <1>1 DEF WithinYears
<1>3. now + 3 * Day < h
  <2>1. PICK d \in Int : d = 3 * Day
    BY DEF Day
  <2> QED BY <1>1, <1>2, <2>1
<1> QED BY <1>1, <1>2, <1>3 DEF WithinYears, Day, Horizon

LEMMA BegunStays ==
  ASSUME TypeInv, BegunInv, user' # NoUser => user # NoUser /\ user'.birth = user.birth,
         server'.host = server.host, now' \in Int, now' >= now
  PROVE  BegunInv'
<1> SUFFICES ASSUME WithinYears', user' # NoUser
             PROVE  Begun(user'.birth, server'.host, now')
  BY DEF BegunInv
<1>1. now \in Int /\ server.host \in Zones /\ Born(user.birth)
  BY DEF TypeInv, UserApiTypeOK, Servers, UserIsValid
<1>2. WithinYears /\ now < Horizon /\ now' < Horizon
  BY <1>1, WithinGoesBack
<1>3. Begun(user.birth, server.host, now)
  BY <1>2 DEF BegunInv
<1>4. CASE user.birth.year < FirstYear
  BY <1>4 DEF Begun
<1>5. CASE user.birth.year >= FirstYear
  <2>1. PICK k \in Nat : k = DayNumber(user.birth.year, user.birth.month, user.birth.day)
    BY <1>1, <1>5, BornDay
  <2>2. k * Day <= toWallClock(now, server.host)
    BY <1>1, <1>3, <1>5, <2>1, CalendarAssumption DEF Begun, Born
  <2>3. k * Day <= toWallClock(now', server.host)
    BY <1>1, <1>2, <2>1, <2>2, MidnightStays
  <2> QED BY <2>1, <2>3 DEF Begun
<1> QED BY <1>1, <1>4, <1>5, CalendarAssumption DEF Born

LEMMA CreateHasBegun ==
  ASSUME TypeInv, NEW u \in Bodies, PostStatus(u) = 201, Create(u)
  PROVE  BegunInv'
<1>1. user' = u /\ server' = server /\ now' = now /\ now \in Int
  BY DEF Create, Accept, TypeInv, UserApiTypeOK
<1>2. Born(u.birth) /\ DateOfBirth(u.birth)
  BY AcceptedIsValid DEF PostStatus, CreateUserSchema, EntitiesAccept
<1>3. WithinYears' => now < Horizon
  BY <1>1, WithinGoesBack
<1> QED BY <1>1, <1>2, <1>3, AcceptedHasBegun DEF BegunInv

LEMMA ReplaceHasBegun ==
  ASSUME TypeInv, BegunInv, user # NoUser, NEW body \in Bodies, UpdateUserSchema(body), EntitiesAccept(body),
         Replace(Updated(body))
  PROVE  BegunInv'
<1>1. user' = Updated(body) /\ server' = server /\ now' = now /\ now \in Int
  BY DEF Replace, Accept, TypeInv, UserApiTypeOK
<1>2. CASE body.birth.form = Absent
  <2>1. user'.birth = user.birth
    BY <1>1, <1>2 DEF Updated
  <2> QED BY <1>1, <2>1, BegunStays
<1>3. CASE body.birth.form # Absent
  <2>1. user'.birth = body.birth
    BY <1>1, <1>3 DEF Updated
  <2>2. Born(body.birth) /\ DateOfBirth(body.birth)
    BY <1>3, AcceptedBirthIsBorn DEF EntitiesAccept, Bodies
  <2>3. WithinYears' => now < Horizon
    BY <1>1, WithinGoesBack
  <2> QED BY <1>1, <2>1, <2>2, <2>3, AcceptedHasBegun DEF BegunInv
<1> QED BY <1>2, <1>3

LEMMA AnswerHasBegun ==
  ASSUME TypeInv, BegunInv, NEW status, OnlyAnswer(status)
  PROVE  BegunInv'
<1>1. now \in Int /\ UNCHANGED <<now, server, user>>
  BY DEF OnlyAnswer, TypeInv, UserApiTypeOK
<1> QED BY <1>1, BegunStays

LEMMA ScriptHasBegun ==
  ASSUME TypeInv, BegunInv, ScriptRuns, TypeInv'
  PROVE  BegunInv'
<1>1. now \in Int /\ now' \in Int /\ server \in Servers
  BY DEF TypeInv, UserApiTypeOK
<1>2. ASSUME NEW argument, RunScript(argument) PROVE BegunInv'
  <2>1. UNCHANGED <<now, server, user>>
    BY <1>2 DEF RunScript
  <2> QED BY <1>1, <2>1, BegunStays
<1>3. ASSUME killProcessOnPort PROVE BegunInv'
  <2>1. user' = user /\ server'.host = server.host
    BY <1>1, <1>3 DEF killProcessOnPort, Servers
  <2>2. now' = now + 1 \/ now' = now
    BY <1>3 DEF killProcessOnPort
  <2> QED BY <1>1, <2>1, <2>2, BegunStays
<1>4. ASSUME startDevServer PROVE BegunInv'
  <2>1. now' = now /\ user' = user /\ server'.host = server.host
    BY <1>1, <1>4 DEF startDevServer, Servers
  <2> QED BY <1>1, <2>1, BegunStays
<1>5. ASSUME waitForServer PROVE BegunInv'
  <2>1. user' = user /\ server'.host = server.host
    BY <1>1, <1>5 DEF waitForServer, Servers
  <2>2. now' >= now
    BY <1>1, <1>5, FastTestAssumption DEF waitForServer
  <2> QED BY <1>1, <2>1, <2>2, BegunStays
<1>6. ASSUME createTestUser PROVE BegunInv'
  <2> DEFINE u == TestUser(DateOf(now \div Day))
  <2>1. IF PostStatus(u) = 201 THEN Create(u) ELSE OnlyAnswer(PostStatus(u))
    BY <1>6 DEF createTestUser, Post
  <2>2. PostStatus(u) = 201 => u \in Bodies
    BY TestUserIsBody
  <2> HIDE DEF u
  <2> QED BY <2>1, <2>2, CreateHasBegun, AnswerHasBegun
<1> QED BY <1>2, <1>3, <1>4, <1>5, <1>6 DEF ScriptRuns

LEMMA NextHasBegun == TypeInv /\ BegunInv /\ [FastTestNext]_fastTestVars => BegunInv'
<1> SUFFICES ASSUME TypeInv, BegunInv, [FastTestNext]_fastTestVars PROVE BegunInv'
  OBVIOUS
<1>1. TypeInv'
  BY NextTypes
<1>2. now \in Int /\ now' \in Int
  BY <1>1 DEF TypeInv, UserApiTypeOK
<1>3. CASE ScriptRuns
  BY <1>1, <1>3, ScriptHasBegun
<1>4. CASE Clients
  <2>1. ASSUME NEW body \in PostBodies, Post(body) PROVE BegunInv'
    BY <2>1, UserApiAssumption, CreateHasBegun, AnswerHasBegun DEF Post
  <2>2. ASSUME NEW id \in Ids, NEW body \in PutBodies, Put(id, body) PROVE BegunInv'
    <3>1. body \in Bodies
      BY UserApiAssumption
    <3> QED BY <2>2, <3>1, PutIsAccepted, ReplaceHasBegun, AnswerHasBegun
  <2>3. ASSUME NEW id \in Ids, Get(id) PROVE BegunInv'
    BY <2>3, AnswerHasBegun DEF Get
  <2>4. ASSUME NEW id \in Ids, Delete(id) PROVE BegunInv'
    <3>1. CASE OnlyAnswer(IdStatus(id, 204))
      BY <3>1, AnswerHasBegun
    <3>2. CASE user' = NoUser
      BY <3>2 DEF BegunInv
    <3> QED BY <2>4, <3>1, <3>2 DEF Delete
  <2>5. ASSUME Wait PROVE BegunInv'
    <3>1. UNCHANGED <<server, user>> /\ now' >= now
      BY <1>2, <2>5, UserApiAssumption DEF Wait, TypeInv, UserApiTypeOK, Events
    <3> QED BY <1>2, <3>1, BegunStays
  <2>6. ASSUME Celebrate PROVE BegunInv'
    <3>1. UNCHANGED <<now, server, user>>
      BY <2>6 DEF Celebrate
    <3> QED BY <1>2, <3>1, BegunStays
  <2> QED BY <1>4, <2>1, <2>2, <2>3, <2>4, <2>5, <2>6 DEF Clients
<1>5. CASE UNCHANGED fastTestVars
  <2>1. UNCHANGED <<now, server, user>>
    BY <1>5 DEF fastTestVars, apiVars
  <2> QED BY <1>2, <2>1, BegunStays
<1> QED BY <1>3, <1>4, <1>5 DEF FastTestNext

\* A row that was stored can be read for ever: its name, zone and date stay what the
\* entities accept, also on a server whose clocks go back, for every date and every host.
THEOREM StoredStaysReadable == FastTestSpec => [](WithinYears => StoredUserIsReadable)
<1>1. FastTestInit => TypeInv /\ BegunInv
  BY InitTypes DEF FastTestInit, UserApiInit, BegunInv
<1>2. (TypeInv /\ BegunInv) /\ [FastTestNext]_fastTestVars => (TypeInv /\ BegunInv)'
  BY NextTypes, NextHasBegun
<1>3. TypeInv /\ BegunInv => (WithinYears => StoredUserIsReadable)
  <2> SUFFICES ASSUME TypeInv, BegunInv, WithinYears, user # NoUser
               PROVE  StoredUserIsReadable
    BY DEF StoredUserIsReadable
  <2>1. /\ now \in Int /\ server.host \in Zones /\ Born(user.birth)
        /\ user.name = "fine" /\ user.zone \in Zones
    BY DEF TypeInv, UserApiTypeOK, UserIsValid, Servers
  <2>2. InYears(now)
    <3>1. Day <= now /\ now <= now + Day
      BY <2>1 DEF TypeInv, ScriptOK, Day
    <3> QED BY <2>1, <3>1, WithinIsIn
  <2>3. Begun(user.birth, server.host, now)
    BY DEF BegunInv
  <2> QED BY <2>1, <2>2, <2>3, BegunIsEarlier DEF StoredUserIsReadable, Born
<1> QED BY <1>1, <1>2, <1>3, PTL DEF FastTestSpec

-----------------------------------------------------------------------------
(***************************************************************************)
(* The fast test script: the server that answers was started with the      *)
(* promised time, which is read as it was written.                         *)
(***************************************************************************)
ScriptInv ==
  /\ script.pc \in {"idle", "kill", "start"} => ~script.restarted
  /\ script.restarted /\ script.pc \in {"wait", "create"}
       => server.override = calculateTargetTime(script.started + script.offset)

LEMMA ScriptInvStays ==
  ASSUME TypeInv, ScriptInv, [FastTestNext]_fastTestVars
  PROVE  ScriptInv'
<1>1. /\ script \in [pc : {"idle", "failed", "kill", "start", "wait", "create", "done"},
                     started : Nat, offset : Nat, restarted : BOOLEAN]
      /\ server \in Servers
  BY DEF TypeInv, ScriptOK, UserApiTypeOK
<1>2. ASSUME NEW argument, RunScript(argument) PROVE ScriptInv'
  BY <1>1, <1>2 DEF ScriptInv, RunScript
<1>3. ASSUME killProcessOnPort PROVE ScriptInv'
  BY <1>1, <1>3 DEF ScriptInv, killProcessOnPort
<1>4. ASSUME startDevServer PROVE ScriptInv'
  <2>1. CASE server.up
    <3>1. server' = server /\ script' = [script EXCEPT !.pc = "wait"] /\ script.pc = "start"
      BY <1>4, <2>1 DEF startDevServer
    <3> QED BY <1>1, <3>1 DEF ScriptInv
  <2>2. CASE ~server.up
    <3>1. /\ server' = [server EXCEPT !.override = calculateTargetTime(script.started + script.offset)]
          /\ script' = [script EXCEPT !.pc = "wait", !.restarted = TRUE]
      BY <1>4, <2>2 DEF startDevServer
    <3>2. server'.override = calculateTargetTime(script.started + script.offset)
      BY <1>1, <3>1 DEF Servers
    <3>3. script'.pc = "wait" /\ script'.started = script.started /\ script'.offset = script.offset
      BY <1>1, <3>1
    <3> QED BY <3>2, <3>3 DEF ScriptInv
  <2> QED BY <2>1, <2>2
<1>5. ASSUME waitForServer PROVE ScriptInv'
  <2>1. PICK ready : /\ server' = [server EXCEPT !.up = ready]
                     /\ script' = [script EXCEPT !.pc = IF ready THEN "create" ELSE "failed"]
                     /\ script.pc = "wait"
    BY <1>5 DEF waitForServer
  <2>2. server'.override = server.override
    BY <1>1, <2>1 DEF Servers
  <2>3. /\ script'.pc \in {"create", "failed"} /\ script'.restarted = script.restarted
        /\ script'.started = script.started /\ script'.offset = script.offset
    BY <1>1, <2>1
  <2> QED BY <2>1, <2>2, <2>3 DEF ScriptInv
<1>6. ASSUME createTestUser PROVE ScriptInv'
  <2>1. script'.pc \in {"done", "failed"}
    BY <1>1, <1>6 DEF createTestUser
  <2> QED BY <2>1 DEF ScriptInv
<1>7. ASSUME Clients PROVE ScriptInv'
  BY <1>7 DEF Clients, ScriptInv
<1>8. ASSUME UNCHANGED fastTestVars PROVE ScriptInv'
  BY <1>8 DEF ScriptInv, fastTestVars, apiVars
<1> QED BY <1>2, <1>3, <1>4, <1>5, <1>6, <1>7, <1>8 DEF FastTestNext, ScriptRuns

\* The promised time of the day comes through the environment unchanged.
LEMMA PromiseIsRead ==
  ASSUME NEW t \in Nat, NEW env, env.override = calculateTargetTime(t), NEW present
  PROVE  getDeliveryTimeConfig(env, present) = t % Day
<1>1. PICK s \in Nat : s = t % Day /\ s < Day
  BY DEF Day
<1>2. PICK h \in Nat, r \in Nat : h = s \div Hour /\ r = s % Hour /\ s = h * Hour + r /\ r < Hour
  BY DEF Hour
<1>3. PICK m \in Nat, c \in Nat : m = r \div 60 /\ r = m * 60 + c /\ c < 60
  <2>1. r \div 60 \in Nat /\ r % 60 \in Nat /\ r = (r \div 60) * 60 + (r % 60) /\ r % 60 < 60
    OBVIOUS
  <2> QED BY <2>1
<1>4. c = s % 60
  BY <1>2, <1>3 DEF Hour
<1>5. h <= 23 /\ m <= 59 /\ c <= 59
  BY <1>1, <1>2, <1>3 DEF Hour, Day
<1>6. calculateTargetTime(t) = [form |-> "time", hour |-> h, minute |-> m, second |-> c]
  BY <1>1, <1>2, <1>3, <1>4 DEF calculateTargetTime, TimeOfDay
<1>7. parseTimeOverride(env.override) = {s}
  <2>1. h * Hour + m * 60 + c = s
    BY <1>2, <1>3 DEF Hour
  <2> QED BY <1>5, <1>6, <2>1 DEF parseTimeOverride
<1>8. (CHOOSE x \in {s} : TRUE) = s
  OBVIOUS
<1> QED BY <1>1, <1>7, <1>8 DEF getDeliveryTimeConfig

\* A birthday today, at a time to come, is celebrated at that time.
LEMMA TodayIsNext ==
  ASSUME InYears(now), NEW promised \in Nat, now < promised, now \div Day = promised \div Day,
         Born(TestUser(DateOf(now \div Day)).birth)
  PROVE  LET birth == TestUser(DateOf(now \div Day)).birth
             local == calculateNextOccurrence(birth, "UTC", now, promised % Day)
         IN  local = promised /\ OccurrenceUTC(local, "UTC") = promised
<1> DEFINE today == DateOf(now \div Day)
           birth == TestUser(today).birth
<1>1. PICK y \in Years : /\ y = YearOf(now \div Day) /\ now \in Nat
                         /\ YearStart(y) * Day <= now /\ now < YearStart(y + 1) * Day
  <2>1. now \in Int /\ toWallClock(now, "UTC") = now
    BY UtcIsStill DEF InYears
  <2> QED BY <2>1, YearOfClock, ZoneTable
<1>2. PICK n \in Nat : n = now \div Day /\ n * Day <= now /\ now < (n + 1) * Day
  BY <1>1 DEF Day
<1>3. PICK a \in Int, b \in Int : /\ a = YearStart(y) /\ b = YearStart(y + 1) /\ y \in Nat
  BY YearsAreInt, YearsInHorizon
<1>4. a <= n /\ n < b
  BY <1>1, <1>2, <1>3 DEF Day
<1>5. /\ today.year = y /\ today.day \in 1 .. DaysInMonth(y, today.month)
      /\ DayNumber(y, today.month, today.day) = n
  BY <1>1, <1>2, <1>3, <1>4, DateOfDay
<1> HIDE DEF today
<1>6. birth.year = y /\ birth.month = today.month /\ birth.day = today.day /\ Born(birth)
  BY <1>5 DEF TestUser, today
<1> HIDE DEF birth
<1>7. PICK at \in Nat : at = promised % Day /\ promised = n * Day + at
  <2>1. promised % Day \in Nat /\ promised = (promised \div Day) * Day + (promised % Day)
    BY DEF Day
  <2> QED BY <1>2, <2>1
<1>8. WallOf(birth, y, at) = promised
  <2>1. DayOf(birth, y) = today.day
    <3>1. today.day \in Int /\ DaysInMonth(y, today.month) \in Int /\ today.day <= DaysInMonth(y, today.month)
      BY <1>5, <1>6, MonthLengths DEF Born
    <3> QED BY <1>6, <3>1 DEF DayOf
  <2> QED BY <1>5, <1>6, <1>7, <2>1 DEF WallOf
<1>9. \A t : Offset("UTC", t) = 0
  BY ZoneTable DEF Offset
<1>10. \A t \in Int : fixOffset(t, Offset("UTC", now), "UTC") = t
  BY <1>9 DEF fixOffset
<1>11. createBirthdayDateTime(now, "UTC", y, birth, at) = promised
  BY <1>3, <1>6, <1>8, <1>10, BirthdayIsFixed
<1>12. calculateNextOccurrence(birth, "UTC", now, at) = promised
  <2>1. toWallClock(now, "UTC") = now
    BY <1>1, UtcIsStill
  <2> QED BY <1>1, <1>11, <2>1 DEF calculateNextOccurrence
<1>13. OccurrenceUTC(promised, "UTC") = promised
  BY <1>10, UtcIsStill DEF OccurrenceUTC, convertToUTC
<1> QED BY <1>7, <1>12, <1>13 DEF birth, today

\* The script that reports success has its user celebrated at the time it said, unless an
\* old server answered, starting took longer than the offset, or midnight comes between:
\* for every argument, delay and date within the years of the calendar.
THEOREM TestEventsAreImminent == FastTestSpec /\ []WithinYears => TestEventIsImminent
<1> DEFINE promised == script.started + script.offset
           Kept == script.pc = "create" /\ script'.pc = "done" /\ server.webhook
                     => \/ event'.target = promised
                        \/ ~script.restarted
                        \/ now >= promised
                        \/ now \div Day # promised \div Day
<1>1. FastTestInit => TypeInv /\ ScriptInv
  BY InitTypes DEF FastTestInit, ScriptInv, IdleScript
<1>2. (TypeInv /\ ScriptInv) /\ [FastTestNext]_fastTestVars => (TypeInv /\ ScriptInv)'
  BY NextTypes, ScriptInvStays
<1>3. (TypeInv /\ ScriptInv) /\ WithinYears /\ [FastTestNext]_fastTestVars => [Kept]_fastTestVars
  <2> SUFFICES ASSUME TypeInv, ScriptInv, WithinYears, FastTestNext,
                      script.pc = "create", script'.pc = "done", server.webhook,
                      script.restarted, ~(now >= promised), now \div Day = promised \div Day
               PROVE  event'.target = promised
    BY Zenon
  <2> DEFINE u == TestUser(DateOf(now \div Day))
  <2>1. /\ script \in [pc : {"idle", "failed", "kill", "start", "wait", "create", "done"},
                       started : Nat, offset : Nat, restarted : BOOLEAN]
        /\ now \in Nat
    BY DEF TypeInv, ScriptOK, UserApiTypeOK
  <2>2. promised \in Nat /\ now < promised
    BY <2>1
  <2>3. createTestUser
    BY DEF FastTestNext, ScriptRuns, Clients, RunScript, killProcessOnPort, startDevServer, waitForServer
  <2>4. PostStatus(u) = 201
    <3>1. answer' = 201
      BY <2>1, <2>3 DEF createTestUser
    <3>2. PostStatus(u) # 201 => answer' # 201
      BY <2>3 DEF createTestUser, Post, OnlyAnswer
    <3> QED BY <3>1, <3>2
  <2>5. Create(u)
    BY <2>3, <2>4 DEF createTestUser, Post
  <2>6. Born(u.birth) /\ u.zone = "UTC"
    <3>1. u.zone = "UTC"
      BY DEF TestUser
    <3>2. u \in Bodies
      BY <2>4, TestUserIsBody
    <3> HIDE DEF u
    <3> QED BY <2>4, <3>1, <3>2, AcceptedIsValid
  <2>7. DeliveryAt = promised % Day
    <3>1. server.override = calculateTargetTime(promised)
      BY DEF ScriptInv
    <3> QED BY <2>2, <3>1, PromiseIsRead DEF DeliveryAt
  <2>8. InYears(now)
    <3>1. now \in Int /\ Day <= now /\ now <= now + Day
      BY <2>1 DEF TypeInv, ScriptOK, Day
    <3> QED BY <3>1, WithinIsIn
  <2> HIDE DEF promised
  <2>9. LET local == calculateNextOccurrence(u.birth, "UTC", now, promised % Day)
        IN  local = promised /\ OccurrenceUTC(local, "UTC") = promised
    BY <2>2, <2>6, <2>8, TodayIsNext
  <2> HIDE DEF u
  <2>10. event' = [target |-> promised, local |-> promised, payload |-> "complete"]
    BY <2>5, <2>6, <2>7, <2>9 DEF Create, OnUserCreated
  <2> QED BY <2>10
<1>4. [][Kept]_fastTestVars => TestEventIsImminent
  BY PTL DEF TestEventIsImminent
<1> HIDE DEF Kept
<1> QED BY <1>1, <1>2, <1>3, <1>4, PTL DEF FastTestSpec

-----------------------------------------------------------------------------
(***************************************************************************)
(* The server's environment is its own as long as it has a user: only the  *)
(* script starts another one, before it registers its user.  So the time   *)
(* of the day that an event was computed with can be read off the server.  *)
(***************************************************************************)
BasisInv ==
  /\ script.pc \in {"kill", "start", "wait", "create"} => user = NoUser
  /\ user # NoUser /\ basis.kind \in {"created", "moved"}
       => basis.at = getDeliveryTimeConfig(server, basis.ref)

LEMMA BasisStays ==
  ASSUME BasisInv, UNCHANGED <<server, user, basis>>,
         script'.pc \in {"kill", "start", "wait", "create"}
           => script.pc \in {"kill", "start", "wait", "create"} \/ user = NoUser
  PROVE  BasisInv'
BY DEF BasisInv

LEMMA CreateHasBasis ==
  ASSUME NEW u, Create(u), script'.pc \notin {"kill", "start", "wait", "create"}
  PROVE  BasisInv'
<1>1. server' = server /\ basis' = ComputedNow("created", u.zone)
  BY DEF Create, Accept
<1>2. basis'.at = getDeliveryTimeConfig(server', basis'.ref)
  BY <1>1 DEF ComputedNow, DeliveryAt
<1> QED BY <1>2 DEF BasisInv

LEMMA ReplaceHasBasis ==
  ASSUME TypeInv, BasisInv, user # NoUser, NEW u, Replace(u), UNCHANGED script
  PROVE  BasisInv'
<1>1. server' = server /\ basis \in Bases
  BY DEF Replace, Accept, TypeInv, UserApiTypeOK
<1>2. script'.pc \notin {"kill", "start", "wait", "create"}
  BY DEF BasisInv
<1>3. CASE basis'.kind = "rezoned"
  BY <1>2, <1>3 DEF BasisInv
<1>4. CASE basis' = ComputedNow("moved", u.zone)
  <2>1. basis'.at = getDeliveryTimeConfig(server', basis'.ref)
    BY <1>1, <1>4 DEF ComputedNow, DeliveryAt
  <2> QED BY <1>2, <2>1 DEF BasisInv
<1>5. CASE basis' = basis
  BY <1>1, <1>2, <1>5 DEF BasisInv
<1>6. \A b \in Bases : [b EXCEPT !.kind = "rezoned"].kind = "rezoned"
  BY DEF Bases
<1>7. [ComputedNow("moved", u.zone) EXCEPT !.kind = "rezoned"].kind = "rezoned"
  BY DEF ComputedNow
<1> QED BY <1>1, <1>3, <1>4, <1>5, <1>6, <1>7 DEF Replace

LEMMA NextHasBasis == TypeInv /\ BasisInv /\ [FastTestNext]_fastTestVars => BasisInv'
<1> SUFFICES ASSUME TypeInv, BasisInv, [FastTestNext]_fastTestVars PROVE BasisInv'
  OBVIOUS
<1>1. script \in [pc : {"idle", "failed", "kill", "start", "wait", "create", "done"},
                  started : Nat, offset : Nat, restarted : BOOLEAN]
  BY DEF TypeInv, ScriptOK
<1>2. ASSUME NEW argument, RunScript(argument) PROVE BasisInv'
  <2>1. UNCHANGED <<server, user, basis>> /\ user = NoUser
    BY <1>2 DEF RunScript, eventVars
  <2> QED BY <2>1, BasisStays
<1>3. CASE killProcessOnPort \/ startDevServer \/ waitForServer
  <2>1. user' = user /\ user = NoUser
    BY <1>3 DEF killProcessOnPort, startDevServer, waitForServer, BasisInv
  <2> QED BY <2>1 DEF BasisInv
<1>4. ASSUME createTestUser PROVE BasisInv'
  <2> DEFINE u == TestUser(DateOf(now \div Day))
  <2>1. Create(u) \/ OnlyAnswer(PostStatus(u))
    BY <1>4 DEF createTestUser, Post
  <2>2. script'.pc \in {"done", "failed"}
    BY <1>1, <1>4 DEF createTestUser
  <2> HIDE DEF u
  <2>3. OnlyAnswer(PostStatus(u)) => UNCHANGED <<server, user, basis>>
    BY DEF OnlyAnswer, eventVars
  <2> QED BY <2>1, <2>2, <2>3, CreateHasBasis, BasisStays
<1>5. CASE Clients
  <2>1. script' = script /\ script.pc = "idle"
    BY <1>5 DEF Clients
  <2>2. ASSUME NEW status, OnlyAnswer(status) PROVE BasisInv'
    BY <2>1, <2>2, BasisStays DEF OnlyAnswer, eventVars
  <2>3. ASSUME NEW body \in PostBodies, Post(body) PROVE BasisInv'
    BY <2>1, <2>2, <2>3, CreateHasBasis DEF Post
  <2>4. ASSUME NEW id \in Ids, NEW body \in PutBodies, Put(id, body) PROVE BasisInv'
    BY <2>1, <2>2, <2>4, PutIsAccepted, ReplaceHasBasis
  <2>5. ASSUME NEW id \in Ids, Get(id) PROVE BasisInv'
    BY <2>2, <2>5 DEF Get
  <2>6. ASSUME NEW id \in Ids, Delete(id) PROVE BasisInv'
    <3>1. CASE user' = NoUser
      BY <3>1 DEF BasisInv
    <3> QED BY <2>2, <2>6, <3>1 DEF Delete
  <2>7. ASSUME Wait PROVE BasisInv'
    BY <2>1, <2>7, BasisStays DEF Wait, eventVars
  <2>8. ASSUME Celebrate PROVE BasisInv'
    <3>1. basis'.kind = "followed"
      BY <2>8 DEF Celebrate
    <3> QED BY <2>1, <3>1 DEF BasisInv
  <2> QED BY <1>5, <2>3, <2>4, <2>5, <2>6, <2>7, <2>8 DEF Clients
<1>6. CASE UNCHANGED fastTestVars
  BY <1>6, BasisStays DEF fastTestVars, apiVars, eventVars
<1> QED BY <1>2, <1>3, <1>4, <1>5, <1>6 DEF FastTestNext, ScriptRuns

\* The server's time of the day is that far ahead of the reference.
LEMMA OffsetIsRead ==
  ASSUME NEW env, parseTimeOverride(env.override) = {}, env.offset.form \in {"seconds", "minutes"},
         NEW seconds \in Nat, seconds = IF env.offset.form = "minutes" THEN env.offset.n * 60 ELSE env.offset.n,
         seconds >= 2, seconds <= Day, NEW t
  PROVE  getDeliveryTimeConfig(env, t) = (t + seconds) % Day
<1>1. parseTestOffset(env.offset) = {seconds}
  BY DEF parseTestOffset, Day
<1>2. (CHOOSE s \in {seconds} : TRUE) = seconds
  OBVIOUS
<1>3. {seconds} # {}
  OBVIOUS
<1> QED BY <1>1, <1>2, <1>3 DEF getDeliveryTimeConfig

\* The clock of UTC shows a wall clock once.
LEMMA UtcInstants == \A wall \in Int : Instants(wall, "UTC") = {wall}
<1> SUFFICES ASSUME NEW wall \in Int PROVE Instants(wall, "UTC") = {wall}
  OBVIOUS
<1>1. StandardOffset["UTC"] = 0
  BY ZoneTable
<1>2. {t \in {wall - 0, wall - 0 - Hour} : toWallClock(t, "UTC") = wall} = {wall}
  BY UtcIsStill DEF Hour
<1> QED BY <1>1, <1>2 DEF Instants

\* Of two birthdays after an instant and within a day of it, none is the earlier.
LEMMA FirstOfDay ==
  ASSUME NEW birth, Born(birth), NEW x \in Years, NEW y \in Years, NEW at \in Int, 0 <= at, at < Day,
         NEW ref \in Int, ref < WallOf(birth, x, at), WallOf(birth, x, at) <= WallOf(birth, y, at),
         WallOf(birth, y, at) <= ref + Day
  PROVE  WallOf(birth, x, at) = WallOf(birth, y, at)
<1>1. x \in Int /\ y \in Int
  BY YearsInHorizon, CalendarAssumption DEF Years
<1>2. PICK a \in Int, b \in Int : a = WallOf(birth, x, at) /\ b = WallOf(birth, y, at)
  BY <1>1, WallInYear
<1>3. CASE x < y
  BY <1>1, <1>2, <1>3, BirthdaysFollow DEF Day
<1>4. CASE y < x
  BY <1>1, <1>2, <1>4, BirthdaysFollow DEF Day
<1>5. CASE x = y
  BY <1>5
<1> QED BY <1>1, <1>3, <1>4, <1>5

\* An offset for tests is kept to the second, for every offset from two seconds to a day,
\* every clock and every date of birth: across midnight, the end of a month and of a year.
THEOREM OffsetsAreKept == FastTestSpec => [](WithinYears => OffsetIsKept)
<1>1. FastTestInit => BasisInv
  BY DEF FastTestInit, UserApiInit, BasisInv, IdleScript
<1>2. (TypeInv /\ BasisInv) /\ [FastTestNext]_fastTestVars => BasisInv'
  BY NextHasBasis
<1>3. TypeInv /\ YearsInv /\ BasisInv => (WithinYears => OffsetIsKept)
  <2> DEFINE offset == IF server.offset.form = "minutes" THEN server.offset.n * 60 ELSE server.offset.n
  <2> SUFFICES ASSUME TypeInv, EventIsRight, BasisInv, event # NoEvent,
                      basis.kind \in {"created", "moved"}, user.zone = "UTC",
                      parseTimeOverride(server.override) = {},
                      server.offset.form \in {"seconds", "minutes"},
                      offset >= 2, offset <= Day,
                      basis.ref + offset \in Birthdays(user.birth, (basis.ref + offset) % Day)
               PROVE  event.target = basis.ref + offset
    BY DEF YearsInv, OffsetIsKept
  <2>1. /\ user # NoUser /\ Born(user.birth) /\ basis.ref \in Int /\ server.offset.n \in Nat
        /\ event.target \in Int /\ basis.at \in 0 .. Day - 1
    BY DEF TypeInv, UserApiTypeOK, UserIsValid, Servers, Bases, Events
  <2>2. PICK seconds \in Nat : seconds = offset
    BY <2>1
  <2> HIDE DEF offset
  <2>3. basis.at = (basis.ref + seconds) % Day
    <3>1. basis.at = getDeliveryTimeConfig(server, basis.ref)
      BY <2>1 DEF BasisInv
    <3> QED BY <2>2, <3>1, OffsetIsRead DEF offset
  <2>4. PICK at \in Int, ref \in Int, due \in Int :
          /\ at = basis.at /\ ref = basis.ref /\ due = ref + seconds /\ 0 <= at /\ at < Day
    BY <2>1, OfDay
  <2>5. /\ event.target > ref /\ IsBirthday(event.target, user.birth, "UTC", at)
        /\ \A wall \in Birthdays(user.birth, at) :
             \E i \in Instants(wall, "UTC") : i <= ref \/ event.target <= i
    BY <2>4 DEF EventIsRight, IsNextBirthday
  <2>6. \A wall \in Birthdays(user.birth, at) :
          /\ \E y \in Years : wall = WallOf(user.birth, y, at)
          /\ Instants(wall, "UTC") = {wall}
    <3>1. \A wall \in Birthdays(user.birth, at) : \E y \in Years : wall = WallOf(user.birth, y, at)
      BY DEF Birthdays, WallOf, DayOf
    <3>2. \A y \in Years : WallOf(user.birth, y, at) \in Int
      BY <2>1, <2>4, WallOfYear
    <3> QED BY <3>1, <3>2, UtcInstants
  <2>7. due \in Birthdays(user.birth, at)
    BY <2>2, <2>3, <2>4
  <2>8. PICK y \in Years : due = WallOf(user.birth, y, at)
    BY <2>6, <2>7
  <2>9. event.target <= due
    BY <2>1, <2>2, <2>4, <2>5, <2>6, <2>7
  <2>10. PICK x \in Years : event.target = WallOf(user.birth, x, at)
    BY <2>5, <2>6 DEF IsBirthday
  <2>11. due <= ref + Day
    BY <2>2, <2>4 DEF Day
  <2>12. event.target = due
    BY <2>1, <2>4, <2>5, <2>8, <2>9, <2>10, <2>11, FirstOfDay
  <2> QED BY <2>2, <2>4, <2>12
<1> QED BY <1>1, <1>2, <1>3, TypesHold, RightHolds, PTL DEF FastTestSpec

-----------------------------------------------------------------------------
\* In ranges of less than a year the search finds exactly the users that celebrate in them,
\* around the turn of the year and leap days, but for births on 29 February when the range
\* ends on the 28th of a year without the 29th.
THEOREM SearchesFindBirthdays ==
  ASSUME \A days \in DaysAhead : days <= 364
  PROVE  FastTestSpec => [](WithinYears => SearchFindsBirthdays)
<1>1. TypeInv => (WithinYears => SearchFindsBirthdays)
  <2> SUFFICES ASSUME TypeInv, WithinYears, user # NoUser, NEW days \in DaysAhead
               PROVE  LET today == toWallClock(now, server.host) \div Day
                      IN  \/ FoundUpcoming(days) <=> \E wall \in Birthdays(user.birth, 0) :
                                                       wall \div Day \in today .. today + days
                          \/ /\ user.birth.month = 2 /\ user.birth.day = 29
                             /\ LET last == DateOf(today + days)
                                IN  last.month = 2 /\ last.day = 28 /\ ~IsLeap(last.year)
    BY DEF SearchFindsBirthdays
  <2>1. /\ now \in Int /\ server.host \in Zones /\ Born(user.birth)
        /\ days \in Nat /\ days <= 364
    BY UserApiAssumption DEF TypeInv, UserApiTypeOK, UserIsValid, Servers
  <2>2. InYears(now)
    <3>1. Day <= now /\ now <= now + Day
      BY <2>1 DEF TypeInv, ScriptOK, Day
    <3> QED BY <2>1, <3>1, WithinIsIn
  <2>3. PICK wall \in Nat, y \in Years : /\ wall = toWallClock(now, server.host) /\ y = YearOf(wall \div Day)
                                         /\ YearStart(y) * Day <= wall /\ wall < YearStart(y + 1) * Day
                                         /\ y + 1 \in Years
    BY <2>1, <2>2, YearOfClock
  <2>4. PICK n \in Nat : n = wall \div Day /\ n * Day <= wall /\ wall < (n + 1) * Day
    BY <2>3 DEF Day
  <2>5. YearStart(y) <= n /\ n < YearStart(y + 1)
    <3>1. PICK a \in Int, b \in Int : a = YearStart(y) /\ b = YearStart(y + 1)
      BY YearsInHorizon
    <3> QED BY <2>3, <2>4, <3>1 DEF Day
  <2> QED BY <2>1, <2>3, <2>4, <2>5, SearchIsRight DEF FoundUpcoming
<1> QED BY <1>1, TypesHold, PTL
=============================================================================
