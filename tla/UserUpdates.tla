---------------------------- MODULE UserUpdates ----------------------------
(***************************************************************************)
(* PUT /user/:id: UpdateUserUseCase, the domain events it publishes, and   *)
(* the use cases that reschedule the user's PENDING events.  Requests run  *)
(* side by side; one step is what happens between two awaits.              *)
(*                                                                         *)
(* idle -> write -> find -> store ... -> idle; find and store come once    *)
(* for UserBirthdayChanged and once for UserTimezoneChanged.               *)
(***************************************************************************)
EXTENDS UserContext

CONSTANTS Requests,     \* the update requests that may run at once
          Zones,        \* a zone is the number of ticks it lies behind UTC, below 0 in the east
          MaxUpdates,   \* bound of the updates ever begun
          MaxApiFaults  \* bound of the faults of the HTTP process

ASSUME UpdateAssumption ==
  Zones \subseteq Int /\ Zones # {} /\ MaxUpdates \in Nat /\ MaxApiFaults \in Nat

VARIABLES profile,   \* the columns date_of_birth (its day of the year) and timezone
          request,   \* per request: where it is and the copies it works on
          updates,   \* the updates begun so far
          apiFaults  \* the faults of the HTTP process so far

updateVars == <<profile, request, updates, apiFaults>>

Profiles == [birthday : 0 .. Year - 1, zone : Zones]

RequestPcs == {"idle", "write", "find", "store"}

UserUpdatesTypeOK ==
  /\ profile \in [Users -> Profiles]
  /\ request \in [Requests -> [pc    : RequestPcs,
                               user  : Users \cup {NoUser},
                               old   : Profiles,
                               new   : Profiles,
                               moved : BOOLEAN,  \* the date of birth changes, if only its year
                               topic : {"birthday", "zone"},
                               id    : 0 .. MaxEvents,
                               ev    : Event,
                               todo  : SUBSET (EventIds \X Event)]]
  /\ updates \in 0 .. MaxUpdates
  /\ apiFaults \in 0 .. MaxApiFaults

SomeProfile == CHOOSE p \in Profiles : TRUE

IdleRequest ==
  [pc |-> "idle", user |-> NoUser, old |-> SomeProfile, new |-> SomeProfile,
   moved |-> FALSE, topic |-> "birthday", id |-> 0, ev |-> NoEvent, todo |-> {}]

UserUpdatesInit ==
  /\ profile = [u \in Users |-> SomeProfile]
  /\ request = [r \in Requests |-> IdleRequest]
  /\ updates = 0
  /\ apiFaults = 0

ApiFault == apiFaults < MaxApiFaults /\ apiFaults' = apiFaults + 1

-----------------------------------------------------------------------------
UTC == 0

toWallClock(t, zone) == t - zone
convertToUTC(wall, zone) == wall + zone

\* Mutant: a birthday at the reference itself counts as the next one.
OccurrenceFromReference(p, t) ==
  t + ((p.birthday + p.zone - t) % Year)

\* calculateNextOccurrence in the user's zone, as an instant: the first birthday after t.
Occurrence(p, t) ==
  t + Year - ((t - p.zone - p.birthday) % Year)

\* What RescheduleBirthdayEventsUseCase makes of an event: the next occurrence from now.
RescheduledToBirthday(req, ev) ==
  LET t == Occurrence(req.new, now) IN reschedule(ev, t, t)

\* The row keeps an instant: eventToDomain gives it the clock of UTC.
targetTimestampLocal(ev) == toWallClock(ev.local, UTC)

\* What RescheduleEventsOnTimezoneChangeUseCase makes of it: that wall clock becomes a
\* time in the new zone.
RescheduledToZone(req, ev) ==
  reschedule(ev, convertToUTC(targetTimestampLocal(ev), req.new.zone), ev.local)

\* The handler that is subscribed to the topic.
Rescheduled(req, ev) ==
  IF req.topic = "birthday" THEN RescheduledToBirthday(req, ev)
                            ELSE RescheduledToZone(req, ev)

\* The bus awaits the handlers of UserBirthdayChanged before UserTimezoneChanged is
\* published; after the last one the request is answered.
NextTopic(req) ==
  IF req.topic = "birthday" /\ req.new.zone # req.old.zone
  THEN [req EXCEPT !.pc = "find", !.topic = "zone", !.id = 0, !.ev = NoEvent, !.todo = {}]
  ELSE IdleRequest

\* The loop over the events read: the next one is changed in memory, then stored.
NextEvents(req, todo) ==
  IF todo = {}
  THEN {NextTopic(req)}
  ELSE {[req EXCEPT !.pc = "store", !.id = c[1], !.ev = Rescheduled(req, c[2]), !.todo = todo \ {c}] :
          c \in {c \in todo : \A d \in todo : c[2].target <= d[2].target}}

-----------------------------------------------------------------------------
\* findById, then the immutable updates in memory.  The id is known to clients once
\* the POST was answered.  (Without a row the answer is 404 and nothing happens.)
ReadUser(r) ==
  /\ request[r].pc = "idle"
  /\ updates < MaxUpdates
  /\ \E u \in Users, new \in Profiles, moved \in BOOLEAN :
       /\ users[u] = "announced"
       /\ new.birthday # profile[u].birthday => moved
       /\ request' = [request EXCEPT ![r] = [@ EXCEPT !.pc    = "write",
                                                     !.user  = u,
                                                     !.old   = profile[u],
                                                     !.new   = new,
                                                     !.moved = moved]]
  /\ updates' = updates + 1
  /\ UNCHANGED <<platformVars, databaseVars, profile, apiFaults>>

\* Mutant: a changed timezone hides a changed birthday.
FirstTopicZone(req) ==
  CASE req.new.zone # req.old.zone -> [req EXCEPT !.pc = "find", !.topic = "zone"]
    [] req.new.zone = req.old.zone /\ req.moved
                                   -> [req EXCEPT !.pc = "find", !.topic = "birthday"]
    [] OTHER                       -> IdleRequest

\* The events published after the write, the first of them at once.
FirstTopic(req) ==
  CASE req.moved                   -> [req EXCEPT !.pc = "find", !.topic = "birthday"]
    [] ~req.moved /\ req.new.zone # req.old.zone
                                   -> [req EXCEPT !.pc = "find", !.topic = "zone"]
    [] OTHER                       -> IdleRequest

\* userRepository.update writes every column of the copy; it throws without a row.
WriteUser(r) ==
  /\ request[r].pc = "write"
  /\ IF UserExists(request[r].user)
     THEN /\ profile' = [profile EXCEPT ![request[r].user] = request[r].new]
          /\ request' = [request EXCEPT ![r] = FirstTopic(@)]
     ELSE /\ UNCHANGED profile
          /\ request' = [request EXCEPT ![r] = IdleRequest]
  /\ UNCHANGED <<platformVars, databaseVars, updates, apiFaults>>

\* findByUserId, reduced to the PENDING events.
FindPending(r) ==
  /\ request[r].pc = "find"
  /\ LET pending == {<<e, rows[e]>> : e \in {e \in EventIds : /\ rows[e].user = request[r].user
                                                             /\ CanReschedule(rows[e])}}
     IN  \E next \in NextEvents(request[r], pending) : request' = [request EXCEPT ![r] = next]
  /\ UNCHANGED <<platformVars, databaseVars, profile, updates, apiFaults>>

\* eventRepository.update, which waits for the row lock of a claim; a version
\* conflict skips the event.
StoreRescheduled(r) ==
  /\ request[r].pc = "store"
  /\ request[r].id \notin locked
  /\ IF UpdateMatches(request[r].id, request[r].ev)
     THEN update(request[r].id, request[r].ev)
     ELSE UNCHANGED rows
  /\ \E next \in NextEvents(request[r], request[r].todo) : request' = [request EXCEPT ![r] = next]
  /\ UNCHANGED <<platformVars, users, lastId, locked, profile, updates, apiFaults>>

\* Any other error of a handler: the bus logs it and the request goes on.
RescheduleFails(r) ==
  /\ request[r].pc \in {"find", "store"}
  /\ request' = [request EXCEPT ![r] = NextTopic(@)]
  /\ ApiFault
  /\ UNCHANGED <<platformVars, databaseVars, profile, updates>>

\* The user cannot be written, or the HTTP process dies in a request.
UpdateStops(r) ==
  /\ request[r].pc # "idle"
  /\ request' = [request EXCEPT ![r] = IdleRequest]
  /\ ApiFault
  /\ UNCHANGED <<platformVars, databaseVars, profile, updates>>
=============================================================================
