----------------------- MODULE SystemCalendarProofs -----------------------
(***************************************************************************)
(* When events are celebrated, in the whole system and for every value of  *)
(* the constants: a birthday has one event, a registered user has a next   *)
(* one, and a waiting event is at the birthday its user has now.           *)
(***************************************************************************)
EXTENDS SystemRefinementProofs

USE DEF EventIds

\* A step of the system from a state in which what is proved so far holds.
Steady == Moved /\ OneAtATime /\ HistoryKept /\ [SystemNext]_systemVars

-----------------------------------------------------------------------------
(***************************************************************************)
(* What one step may do to the row of e, now with its target and its key.  *)
(***************************************************************************)
\* The event of u at t is the first of u, or w is to create it.
BornOf(u, t) ==
  \/ users[u] = "saved" /\ t = Occurrence(profile[u], now)
  \/ \E w \in Workers : /\ FollowUp(w) /\ Creating(w)
                        /\ worker[w].ev.user = u
                        /\ t = Occurrence(celebrant[w], worker[w].ev.local)

RowBorn(e) ==
  /\ e = lastId + 1
  /\ rows[e].status = "NONE"
  /\ \E u \in Users, t \in Int, payload \in Payloads :
       /\ rows'[e] = PendingEvent(u, t, payload)
       /\ users'[u] = "announced" /\ UNCHANGED profile
       /\ BornOf(u, t)

\* Everything calendars are about stays.
DatesStay(e) ==
  /\ rows'[e].user = rows[e].user
  /\ rows'[e].target = rows[e].target
  /\ rows'[e].local = rows[e].local
  /\ rows'[e].key = rows[e].key

RowClaimed(e) ==
  /\ rows[e].status = "PENDING" /\ rows'[e].status = "PROCESSING"
  /\ \E s \in Schedulers : sched[s].pc = "mark" /\ e \in sched[s].todo
  /\ DatesStay(e)

\* Worker w writes how the event it handles has ended.
Settles(w, e) == e = Current(w) /\ (CompleteEvent(w) \/ MarkFailed(w))

RowSettled(e) ==
  /\ rows[e].status = "PROCESSING" /\ rows'[e].status \in Settled
  /\ \E w \in Workers : Settles(w, e)
  /\ DatesStay(e)

\* Request r stores the copy it has changed.
RowMoved(r, e) ==
  /\ StoreRescheduled(r) /\ e = request[r].id /\ e \notin locked
  /\ rows[e].status = "PENDING" /\ rows'[e].status = "PENDING"
  /\ rows[e].version = request[r].ev.version - 1
  /\ rows'[e].user = rows[e].user
  /\ rows'[e].target = request[r].ev.target
  /\ rows'[e].local = request[r].ev.local
  /\ rows'[e].key = rows[e].key

RowGone(e) ==
  /\ Live(e) /\ rows'[e].status = "GONE"
  /\ DatesStay(e)
  /\ users'[rows[e].user] = "deleted"

Course(e) ==
  \/ rows'[e] = rows[e]
  \/ RowBorn(e)
  \/ RowClaimed(e)
  \/ RowSettled(e)
  \/ \E r \in Requests : RowMoved(r, e)
  \/ RowGone(e)

\* The types a step starts from and ends in.
LEMMA SteadyTypes ==
  ASSUME Steady
  PROVE  /\ rows \in [EventIds -> Event] /\ rows' \in [EventIds -> Event]
         /\ lastId \in Nat /\ lastId' \in Nat /\ now \in Nat /\ now' \in Nat
         /\ users \in [Users -> UserStates] /\ users' \in [Users -> UserStates]
         /\ profile \in [Users -> Profiles] /\ profile' \in [Users -> Profiles]
         /\ celebrant \in [Workers -> Profiles]
         /\ request \in [Requests -> Request] /\ request' \in [Requests -> Request]
         /\ worker \in [Workers -> [pc : WorkerPcs, batch : SUBSET Messages, todo : SUBSET Messages,
                                    msg : Messages \cup {NoMessage}, ev : Event, retries : Nat]]
         /\ sched \in [Schedulers -> [pc : SchedulerPcs, todo : SUBSET EventIds, warm : BOOLEAN]]
         /\ locked \in SUBSET EventIds
         /\ NoUser \notin Users
<1>1. SystemTypeOK /\ SystemTypeOK'
  BY DEF Steady, Moved, FrozenInv
<1>2. /\ rows \in [EventIds -> Event] /\ lastId \in Nat /\ now \in Nat /\ locked \in SUBSET EventIds
      /\ users \in [Users -> UserStates]
  BY <1>1, MaxEventsAssumption DEF SystemTypeOK, TypeOK, PlatformTypeOK, DatabaseTypeOK
<1>3. /\ rows' \in [EventIds -> Event] /\ lastId' \in Nat /\ now' \in Nat
      /\ users' \in [Users -> UserStates]
  BY <1>1, MaxEventsAssumption DEF SystemTypeOK, TypeOK, PlatformTypeOK, DatabaseTypeOK
<1>4. /\ profile \in [Users -> Profiles] /\ celebrant \in [Workers -> Profiles]
      /\ request \in [Requests -> Request]
  BY <1>1 DEF SystemTypeOK, UserUpdatesTypeOK, Request
<1>5. profile' \in [Users -> Profiles] /\ request' \in [Requests -> Request]
  BY <1>1 DEF SystemTypeOK, UserUpdatesTypeOK, Request
<1>6. /\ worker \in [Workers -> [pc : WorkerPcs, batch : SUBSET Messages, todo : SUBSET Messages,
                                 msg : Messages \cup {NoMessage}, ev : Event, retries : Nat]]
      /\ sched \in [Schedulers -> [pc : SchedulerPcs, todo : SUBSET EventIds, warm : BOOLEAN]]
  BY <1>1 DEF SystemTypeOK, TypeOK, WorkerTypeOK, SchedulerTypeOK
<1> QED BY <1>2, <1>3, <1>4, <1>5, <1>6, NoUserAssumption

LEMMA BirthCourse ==
  ASSUME Steady, NEW u \in Users, NEW t \in Int, NEW payload \in Payloads, BornOf(u, t),
         users'[u] = "announced", UNCHANGED profile, create(PendingEvent(u, t, payload)),
         NEW e \in EventIds
  PROVE  Course(e)
<1> DEFINE ev == PendingEvent(u, t, payload)
<1>1. rows' = [rows EXCEPT ![lastId + 1] = ev] /\ rows \in [EventIds -> Event] /\ lastId \in Nat
  BY SteadyTypes DEF create
<1>2. CASE e = lastId + 1
  <2>1. rows[e].status = "NONE"
    BY <1>1, <1>2 DEF Steady, Moved, FrozenInv, IdsAreFresh
  <2>2. rows'[e] = ev
    BY <1>1, <1>2
  <2> QED BY <1>2, <2>1, <2>2 DEF Course, RowBorn
<1>3. CASE e # lastId + 1
  BY <1>1, <1>3 DEF Course
<1> QED BY <1>2, <1>3

LEMMA RegistrationCourse ==
  ASSUME Steady, NEW u \in Users, Registration(u), NEW e \in EventIds
  PROVE  Course(e)
<1>1. /\ rows \in [EventIds -> Event] /\ now \in Nat /\ profile[u] \in Profiles
      /\ users \in [Users -> UserStates]
  BY SteadyTypes
<1>2. CASE CreateBirthdayEventAt(u, Occurrence(profile[u], now)) /\ UNCHANGED profile
  <2> DEFINE t == Occurrence(profile[u], now)
  <2>1. t \in Int /\ "complete" \in Payloads
    BY <1>1, OccurrenceIsLater DEF Payloads
  <2>2. /\ users[u] = "saved" /\ users'[u] = "announced"
        /\ create(PendingEvent(u, t, "complete"))
    BY <1>1, <1>2 DEF CreateBirthdayEventAt
  <2>3. BornOf(u, t)
    BY <2>2 DEF BornOf
  <2> HIDE DEF t
  <2> QED BY <1>2, <2>1, <2>2, <2>3, BirthCourse
<1>3. CASE CreateUser(u) \/ CreateBirthdayEventFails(u)
  BY <1>3 DEF CreateUser, CreateBirthdayEventFails, Course
<1>4. CASE DeleteUser(u)
  <2>1. CASE Live(e) /\ rows[e].user = u
    <3>1. rows'[e] = [rows[e] EXCEPT !.status = "GONE"] /\ users'[u] = "deleted" /\ rows[e] \in Event
      BY <1>1, <1>4, <2>1 DEF DeleteUser, CascadeDelete
    <3>2. rows'[e].status = "GONE" /\ DatesStay(e)
      BY <3>1 DEF DatesStay, Event
    <3> QED BY <2>1, <3>1, <3>2 DEF Course, RowGone
  <2>2. CASE ~(Live(e) /\ rows[e].user = u)
    BY <1>4, <2>2 DEF DeleteUser, CascadeDelete, Course
  <2> QED BY <2>1, <2>2
<1> QED BY <1>2, <1>3, <1>4 DEF Registration

LEMMA RequestCourse ==
  ASSUME Steady, NEW r \in Requests, UpdateRuns(r) \/ UpdateFails(r), NEW e \in EventIds
  PROVE  Course(e)
<1>1. rows \in [EventIds -> Event] /\ request[r] \in Request
  BY SteadyTypes
<1>2. CASE StoreRescheduled(r) /\ UpdateMatches(request[r].id, request[r].ev)
  <2> DEFINE i == request[r].id
             ev == request[r].ev
  <2>1. /\ i \in EventIds /\ i \notin locked
        /\ ev.status = "PENDING" /\ rows[i].status = "PENDING" /\ rows[i].version = ev.version - 1
        /\ update(i, ev)
    BY <1>2 DEF Steady, Moved, FrozenInv, RequestCopies, CopiesOf, StoreRescheduled, ReadPending,
                UpdateMatches
  <2> HIDE DEF i, ev
  <2>2. CASE e = i
    <3>1. rows'[e] = [rows[e] EXCEPT !.status = ev.status, !.target = ev.target, !.local = ev.local,
                                     !.retryCount = ev.retryCount, !.version = ev.version]
      BY <1>1, <2>1, <2>2, Zenon DEF update
    <3>2. rows[e] \in Event
      BY <1>1
    <3>3. /\ rows'[e].status = "PENDING" /\ rows'[e].user = rows[e].user /\ rows'[e].key = rows[e].key
          /\ rows'[e].target = ev.target /\ rows'[e].local = ev.local
      BY <2>1, <3>1, <3>2 DEF Event
    <3>4. RowMoved(r, e)
      BY <1>2, <2>1, <2>2, <3>3 DEF RowMoved, i, ev
    <3> QED BY <3>4 DEF Course
  <2>3. CASE e # i
    BY <1>1, <2>1, <2>3, Zenon DEF update, Course
  <2> QED BY <2>2, <2>3
<1>3. CASE ~(StoreRescheduled(r) /\ UpdateMatches(request[r].id, request[r].ev))
  BY <1>3 DEF UpdateRuns, UpdateFails, ReadUser, WriteUser, FindPending, StoreRescheduled,
              RescheduleFails, UpdateStops, databaseVars, Course
<1> QED BY <1>2, <1>3

LEMMA ClaimCourse ==
  ASSUME Steady, NEW s \in Schedulers, MarkProcessing(s), NEW e \in EventIds
  PROVE  Course(e)
<1>1. CASE e \in sched[s].todo
  <2>1. rows[e].status = "PENDING" /\ rows[e] \in Event /\ sched[s].pc = "mark"
    BY <1>1, SteadyTypes DEF Steady, Moved, FrozenInv, SchedulerClaims, ClaimIsLocked, MarkProcessing
  <2>2. rows'[e] = [rows[e] EXCEPT !.status = "PROCESSING", !.version = rows[e].version + 1]
    BY <1>1, Zenon DEF MarkProcessing, ToProcessing
  <2>3. rows'[e].status = "PROCESSING" /\ DatesStay(e)
    BY <2>1, <2>2 DEF DatesStay, Event
  <2> QED BY <1>1, <2>1, <2>3 DEF Course, RowClaimed
<1>2. CASE e \notin sched[s].todo
  BY <1>2 DEF MarkProcessing, ToProcessing, Course
<1> QED BY <1>1, <1>2

\* A worker writes the row it read in PROCESSING, dates unchanged.
LEMMA SettlingCourse ==
  ASSUME Steady, NEW w \in Workers, worker[w].pc \notin {"idle", "next"},
         NEW ev \in {markCompleted(worker[w].ev), markFailed(worker[w].ev)},
         UpdateMatches(Current(w), ev), update(Current(w), ev),
         CompleteEvent(w) \/ MarkFailed(w), NEW e \in EventIds
  PROVE  /\ Course(e)
         /\ Current(w) \in EventIds /\ rows[Current(w)].status = "PROCESSING"
         /\ rows[Current(w)].local = worker[w].ev.local
         /\ rows'[Current(w)].status = ev.status
<1>1. worker[w].ev \in Event /\ rows \in [EventIds -> Event]
  BY SteadyTypes
<1>2. /\ ev.status \in Settled /\ ev.version = worker[w].ev.version + 1
      /\ ev.target = worker[w].ev.target /\ ev.local = worker[w].ev.local
      /\ worker[w].ev.version \in Nat
  BY <1>1 DEF markCompleted, markFailed, Event, Settled
<1>3. worker[w].msg \in Messages /\ ReadClaimed(Current(w), worker[w].ev)
  BY DEF Steady, Moved, FrozenInv, WorkerCopies
<1> DEFINE i == Current(w)
<1>4. i \in EventIds
  BY <1>3 DEF Current, Messages
<1>5. /\ rows[i].status = "PROCESSING" /\ rows[i].target = ev.target /\ rows[i].local = ev.local
  BY <1>2, <1>3 DEF ReadClaimed, UpdateMatches
<1> HIDE DEF i
<1>6. rows'[i] = [rows[i] EXCEPT !.status = ev.status, !.target = ev.target, !.local = ev.local,
                                 !.retryCount = ev.retryCount, !.version = ev.version]
  BY <1>1, <1>4, Zenon DEF update, i
<1>7. rows[i] \in Event
  BY <1>1, <1>4
<1>8. rows'[i].status = ev.status /\ DatesStay(i)
  BY <1>5, <1>6, <1>7 DEF DatesStay, Event
<1>9. CASE e = i
  BY <1>2, <1>4, <1>5, <1>8, <1>9 DEF Course, RowSettled, Settles, i
<1>10. CASE e # i
  <2>1. rows'[e] = rows[e]
    BY <1>1, <1>10, Zenon DEF update, i
  <2> QED BY <1>2, <1>4, <1>5, <1>8, <2>1 DEF Course, i
<1> QED BY <1>9, <1>10

LEMMA WorkerCourse ==
  ASSUME Steady, NEW w \in Workers, WorkerGoesOn(w) \/ WorkerFails(w) \/ FollowUp(w),
         UNCHANGED updateVars, NEW e \in EventIds
  PROVE  Course(e)
<1>1. CASE MarkFailed(w) /\ UpdateMatches(Current(w), markFailed(worker[w].ev))
  BY <1>1, SettlingCourse DEF MarkFailed
<1>2. CASE CompleteEvent(w) /\ UpdateMatches(Current(w), markCompleted(worker[w].ev))
  BY <1>2, SettlingCourse DEF CompleteEvent
<1>3. CASE UNCHANGED rows
  BY <1>3 DEF Course
<1>4. CASE FollowUp(w)
  <2> DEFINE u == worker[w].ev.user
             t == Occurrence(celebrant[w], worker[w].ev.local)
  <2>1. /\ Creating(w) /\ UNCHANGED <<users, profile>>
        /\ \/ UNCHANGED rows
           \/ UserExists(u) /\ create(PendingEvent(u, t, "messageOnly"))
    BY <1>4 DEF FollowUp, CreateFollower, PendingEvent, updateVars, Creating
  <2>2. u \in Users /\ users[u] \in {"announced", "deleted"}
    BY <2>1, CopyHasUser DEF Steady, Moved, Creating
  <2>3. t \in Int /\ "messageOnly" \in Payloads
    <3>1. worker[w].ev \in Event /\ celebrant[w] \in Profiles
      BY SteadyTypes
    <3>2. worker[w].ev.local \in Int
      BY <3>1 DEF Event
    <3> QED BY <3>1, <3>2, OccurrenceIsLater DEF Payloads
  <2>4. BornOf(u, t)
    BY <1>4, <2>1 DEF BornOf
  <2> HIDE DEF u, t
  <2>5. CASE UserExists(u) /\ create(PendingEvent(u, t, "messageOnly"))
    BY <2>1, <2>2, <2>3, <2>4, <2>5, BirthCourse DEF UserExists
  <2> QED BY <1>3, <2>1, <2>5
<1>5. CASE WorkerGoesOn(w) \/ WorkerFails(w)
  <2>1. ~CreateNextYear(w) \/ WorkerFails(w)
    BY <1>5 DEF WorkerGoesOn, CreateNextYear, CreateFollower
  <2> QED
    BY <1>1, <1>2, <1>3, <1>5, <2>1
    DEF WorkerGoesOn, WorkerRuns, WorkerFails, databaseVars, Receive, SkipRecord, RejectPayload,
        StartRecord, DeliverAccepted, DeliverRejected, MarkFailed, FindUser, CompleteEvent, Finish,
        RetryDelivery, DeliverFails, WorkerStops
<1> QED BY <1>4, <1>5

LEMMA StepCourse ==
  ASSUME Steady, NEW e \in EventIds
  PROVE  Course(e)
<1>1. CASE UNCHANGED rows
  BY <1>1 DEF Course
<1>2. CASE \E u \in Users : Registration(u)
  BY <1>2, RegistrationCourse
<1>3. CASE \E r \in Requests : UpdateRuns(r) \/ UpdateFails(r)
  BY <1>3, RequestCourse
<1>4. CASE Pipeline
  <2>1. CASE \E w \in Workers : WorkerGoesOn(w) \/ WorkerFails(w) \/ FollowUp(w)
    BY <1>4, <2>1, WorkerCourse DEF Pipeline
  <2>2. CASE \E s \in Schedulers : MarkProcessing(s)
    BY <2>2, ClaimCourse
  <2>3. CASE \E s \in Schedulers : SchedulerRuns(s) \/ SchedulerFails(s)
    <3>1. PICK s \in Schedulers : SchedulerRuns(s) \/ SchedulerFails(s)
      BY <2>3
    <3>2. SchedulerFails(s) => UNCHANGED rows
      BY DEF SchedulerFails, databaseVars, RecoveryFails, QueueMissedFails, ClaimFails, SendFails,
             SchedulerStops
    <3>3. SchedulerRuns(s) => MarkProcessing(s) \/ UNCHANGED rows
      BY DEF SchedulerRuns, databaseVars, Invoke, FindMissedEvents, QueueMissed, RecoveryDone,
             SelectForUpdate, SendClaimed
    <3> QED BY <1>1, <2>2, <3>1, <3>2, <3>3
  <2>4. CASE ClockTicks \/ \E m \in Messages : QueueRuns(m) \/ QueueOvertakes(m)
    BY <1>1, <2>4 DEF ClockTicks, QueueRuns, QueueOvertakes, VisibilityTimeout,
                      VisibilityTimeoutEarly, Redrive, databaseVars
  <2> QED BY <1>4, <2>1, <2>3, <2>4 DEF Pipeline
<1>5. CASE UNCHANGED systemVars
  BY <1>1, <1>5 DEF systemVars, vars, databaseVars
<1> QED BY <1>2, <1>3, <1>4, <1>5 DEF Steady, SystemNext

\* An event keeps its user and key, and its dates unless a request moves it.
LEMMA DatesOfRows ==
  ASSUME Steady, NEW e \in EventIds, rows[e].status # "NONE"
  PROVE  /\ rows'[e].status # "NONE"
         /\ rows'[e].user = rows[e].user /\ rows'[e].key = rows[e].key
         /\ DatesStay(e) \/ \E r \in Requests : RowMoved(r, e)
BY StepCourse DEF Course, RowBorn, RowClaimed, RowSettled, RowMoved, RowGone, DatesStay, Settled

\* A row that is not in the table stays out of it, unless it is the next to be inserted.
LEMMA UnbornStay ==
  ASSUME Steady, NEW d \in EventIds, d # lastId + 1, rows[d].status = "NONE"
  PROVE  rows'[d] = rows[d]
<1>1. Course(d)
  BY StepCourse
<1>2. ~RowBorn(d) /\ ~RowClaimed(d) /\ ~RowSettled(d) /\ ~RowGone(d)
  BY DEF RowBorn, RowClaimed, RowSettled, RowGone, Live, EventStatus
<1>3. ~\E r \in Requests : RowMoved(r, d)
  BY DEF RowMoved
<1> QED BY <1>1, <1>2, <1>3 DEF Course

\* Only the newest event of a user is open: those before an event keep their dates.
LEMMA EarlierStay ==
  ASSUME Steady, NEW e \in EventIds, rows[e].status # "NONE", NEW d \in EventIds, d < e
  PROVE  /\ rows'[d].user = rows[d].user
         /\ rows[d].user = rows[e].user => DatesStay(d)
<1>1. lastId \in Nat /\ (e > lastId => rows[e].status = "NONE")
  BY SteadyTypes DEF Steady, Moved, FrozenInv, IdsAreFresh
<1>2. d # lastId + 1
  BY <1>1
<1>3. CASE rows[d].status = "NONE"
  <2>1. rows'[d] = rows[d]
    BY <1>2, <1>3, UnbornStay
  <2> QED BY <2>1 DEF DatesStay
<1>4. CASE rows[d].status # "NONE"
  <2>1. rows[d].user = rows[e].user => rows[d].status # "PENDING"
    BY DEF Steady, HistoryKept, IsNewest, Open
  <2> QED BY <1>4, <2>1, DatesOfRows DEF RowMoved
<1> QED BY <1>3, <1>4

-----------------------------------------------------------------------------
(***************************************************************************)
(* The invariant behind OneEventPerBirthday.  Local times grow along the   *)
(* chain of a user: a follower is computed from the local time before it,  *)
(* and a waiting event is moved to an instant after now, when the earlier  *)
(* ones are past.  Their local times are past with them, unless one was    *)
(* moved to a zone in the east and is due before its local time.           *)
(***************************************************************************)
\* The earlier events of e's user that are not due before their local times have
\* earlier local times.
IsLaterThan(local, e) ==
  \A d \in EventIds :
    d < e /\ rows[d].user = rows[e].user /\ rows[d].local <= rows[d].target => rows[d].local < local

\* A copy ev that was read from e at this version, and changed.
MoveIsLater(e, version, ev) ==
  Live(e) /\ rows[e].version = version => IsLaterThan(ev.local, e)

LocalsAreOrdered ==
  \A e \in EventIds : rows[e].status # "NONE" => IsLaterThan(rows[e].local, e)

ClaimedIsDue ==
  /\ \A e \in EventIds : rows[e].status \in {"PROCESSING"} \cup Settled => rows[e].target <= now
  /\ \A s \in Schedulers : sched[s].pc = "mark" => \A e \in sched[s].todo : rows[e].target <= now

LiveHasUser == \A e \in EventIds : Live(e) => users[rows[e].user] = "announced"

CreatorKnowsLocal == \A w \in Workers : Creating(w) => worker[w].ev.local = rows[Current(w)].local

MovesAreLater(r) ==
  /\ \A c \in request[r].todo : MoveIsLater(c[1], c[2].version, c[2])
  /\ request[r].pc = "store" =>
       MoveIsLater(request[r].id, request[r].ev.version - 1, request[r].ev)

CalendarInv ==
  /\ LocalsAreOrdered
  /\ ClaimedIsDue
  /\ LiveHasUser
  /\ CreatorKnowsLocal
  /\ \A r \in Requests : MovesAreLater(r)

LEMMA TimesAreInt ==
  ASSUME Steady, NEW e \in EventIds
  PROVE  /\ rows[e].local \in Int /\ rows[e].target \in Int /\ rows[e].version \in Nat
         /\ rows'[e].local \in Int /\ rows'[e].target \in Int /\ rows'[e].version \in Nat
<1>1. rows[e] \in Event /\ rows'[e] \in Event
  BY SteadyTypes
<1> QED BY <1>1 DEF Event

\* What is born comes after everything its user had, which stays.
LEMMA BirthIsLater ==
  ASSUME Steady, CalendarInv, NEW u \in Users, NEW t \in Int, BornOf(u, t),
         NEW d \in EventIds, rows[d].user = u
  PROVE  /\ rows[d].local <= rows[d].target => rows[d].local < t
         /\ ~Open(d) /\ rows[d].status # "NONE" /\ d <= lastId
<1>1. rows[d].status # "NONE"
  BY SteadyTypes DEF Steady, HistoryKept
<1>2. PICK w \in Workers : /\ Creating(w) /\ worker[w].ev.user = u
                           /\ t = Occurrence(celebrant[w], worker[w].ev.local)
  BY <1>1 DEF BornOf, Steady, OneAtATime
<1>3. /\ MayFollow(Current(w)) /\ rows[Current(w)].user = u
      /\ worker[w].ev.local = rows[Current(w)].local
  BY <1>2, CopyHasUser DEF CalendarInv, CreatorKnowsLocal, Steady, HistoryKept, Creating, Moved
<1>4. PICK c \in EventIds : c = Current(w) /\ IsNewest(c) /\ rows[c].user = u /\ rows[c].status # "NONE"
  BY <1>3 DEF MayFollow
<1>5. d <= c
  BY <1>1, <1>4 DEF IsNewest
<1>6. rows[d].local <= rows[d].target => rows[d].local <= rows[c].local
  BY <1>4, <1>5, TimesAreInt DEF CalendarInv, LocalsAreOrdered, IsLaterThan
<1>7. rows[c].local < t
  BY <1>2, <1>3, <1>4, OccurrenceIsLater, SteadyTypes, TimesAreInt
<1>8. ~Open(d)
  BY <1>2 DEF Steady, OneAtATime
<1>9. lastId \in Nat /\ (d > lastId => rows[d].status = "NONE")
  BY SteadyTypes DEF Steady, Moved, FrozenInv, IdsAreFresh
<1> QED BY <1>1, <1>4, <1>6, <1>7, <1>8, <1>9, TimesAreInt

LEMMA LocalsStayOrdered ==
  ASSUME Steady, CalendarInv
  PROVE  LocalsAreOrdered'
<1> SUFFICES ASSUME NEW e \in EventIds
             PROVE  rows'[e].status # "NONE" => IsLaterThan(rows[e].local, e)'
  BY DEF LocalsAreOrdered
<1>1. rows[e].status # "NONE" => IsLaterThan(rows[e].local, e)
  BY DEF CalendarInv, LocalsAreOrdered
<1>2. CASE RowBorn(e)
  <2>1. PICK u \in Users, t \in Int, payload \in Payloads :
          rows'[e] = PendingEvent(u, t, payload) /\ BornOf(u, t)
    BY <1>2 DEF RowBorn
  <2>2. rows'[e].user = u /\ rows'[e].local = t /\ rows'[e].target = t
    BY <2>1 DEF PendingEvent
  <2>3. ASSUME NEW d \in EventIds, d < e, rows'[d].user = u, rows'[d].local <= rows'[d].target
        PROVE  rows'[d].local < t
    <3>1. rows'[d] = rows[d] \/ rows[d].status # "NONE"
      <4>1. e = lastId + 1 /\ lastId \in Nat
        BY <1>2, SteadyTypes DEF RowBorn
      <4> QED BY <2>3, <4>1, UnbornStay
    <3>2. rows[d].user = u
      BY <2>3, <3>1, DatesOfRows
    <3>3. /\ rows[d].local <= rows[d].target => rows[d].local < t
          /\ ~Open(d) /\ rows[d].status # "NONE"
      BY <2>1, <3>2, BirthIsLater
    <3>4. rows'[d].local = rows[d].local /\ rows'[d].target = rows[d].target
      BY <3>3, DatesOfRows DEF DatesStay, RowMoved, Open
    <3> QED BY <2>3, <3>3, <3>4
  <2> QED BY <2>2, <2>3 DEF IsLaterThan
<1>3. CASE \E r \in Requests : RowMoved(r, e)
  <2>1. PICK r \in Requests : RowMoved(r, e)
    BY <1>3
  <2> DEFINE ev == request[r].ev
  <2>2. MoveIsLater(e, ev.version - 1, ev)
    BY <2>1 DEF CalendarInv, MovesAreLater, RowMoved, StoreRescheduled
  <2>3. /\ rows'[e].local = ev.local /\ rows'[e].target = ev.target /\ rows'[e].user = rows[e].user
        /\ rows[e].status = "PENDING" /\ rows[e].version = ev.version - 1
    BY <2>1 DEF RowMoved
  <2> HIDE DEF ev
  <2>4. IsLaterThan(ev.local, e)
    BY <2>2, <2>3 DEF MoveIsLater, Live, EventStatus
  <2> QED BY <2>3, <2>4, EarlierStay DEF IsLaterThan, DatesStay
<1>4. CASE rows[e].status # "NONE" /\ DatesStay(e)
  BY <1>1, <1>4, EarlierStay DEF IsLaterThan, DatesStay
<1>5. CASE rows[e].status = "NONE" /\ rows'[e] = rows[e]
  BY <1>1, <1>5
<1>6. rows[e].status # "NONE" => DatesStay(e) \/ \E r \in Requests : RowMoved(r, e)
  BY DatesOfRows
<1>7. rows[e].status = "NONE" => rows'[e] = rows[e] \/ RowBorn(e)
  BY StepCourse DEF Course, RowClaimed, RowSettled, RowMoved, RowGone, Live, EventStatus
<1> QED BY <1>2, <1>3, <1>4, <1>5, <1>6, <1>7

\* A claim in the making is of ready events, or was there before.
LEMMA ClaimsInTheMaking ==
  ASSUME Steady, NEW s \in Schedulers, sched'[s].pc = "mark"
  PROVE  \/ sched[s].pc = "mark" /\ sched'[s].todo = sched[s].todo
         \/ sched'[s].todo \subseteq ReadyEvents /\ UNCHANGED <<rows, now>>
<1>1. sched \in [Schedulers -> [pc : SchedulerPcs, todo : SUBSET EventIds, warm : BOOLEAN]]
  BY SteadyTypes
<1>2. CASE UNCHANGED sched
  BY <1>2
<1>3. CASE \E t \in Schedulers : SelectForUpdate(t)
  <2>1. PICK t \in Schedulers, B \in EarliestFirst(ReadyEvents \ locked, ClaimLimit) :
          GoTo(t, IF B = {} THEN "idle" ELSE "mark", B) /\ UNCHANGED <<rows, now>>
    BY <1>3 DEF SelectForUpdate, platformVars
  <2>2. B \subseteq ReadyEvents
    BY DEF EarliestFirst
  <2>3. s = t => sched'[s].todo = B
    BY <1>1, <2>1 DEF GoTo
  <2>4. s # t => sched'[s] = sched[s]
    BY <1>1, <2>1 DEF GoTo
  <2> QED BY <2>1, <2>2, <2>3, <2>4
<1>4. CASE \E t \in Schedulers : \E rec : sched' = [sched EXCEPT ![t] = rec] /\ rec.pc # "mark"
  BY <1>1, <1>4
<1>5. ASSUME NEW t \in Schedulers, NEW pc, pc # "mark", NEW todo, GoTo(t, pc, todo)
      PROVE  \E rec : sched' = [sched EXCEPT ![t] = rec] /\ rec.pc # "mark"
  <2>1. sched[t] \in [pc : SchedulerPcs, todo : SUBSET EventIds, warm : BOOLEAN]
    BY <1>1
  <2> DEFINE rec == [sched[t] EXCEPT !.pc = pc, !.todo = todo]
  <2>2. rec.pc = pc
    BY <2>1
  <2>3. sched' = [sched EXCEPT ![t] = rec]
    BY <1>5, Zenon DEF GoTo
  <2> HIDE DEF rec
  <2> QED BY <1>5, <2>2, <2>3
<1>6. ASSUME NEW t \in Schedulers, SchedulerRuns(t) \/ SchedulerFails(t), ~SelectForUpdate(t)
      PROVE  \E rec : sched' = [sched EXCEPT ![t] = rec] /\ rec.pc # "mark"
  <2>1. sched[t] \in [pc : SchedulerPcs, todo : SUBSET EventIds, warm : BOOLEAN]
    BY <1>1
  <2>2. CASE Invoke(t) \/ FindMissedEvents(t) \/ QueueMissed(t) \/ QueueMissedFails(t) \/ SendFails(t)
             \/ ClaimFails(t)
    BY <1>5, <2>2 DEF Invoke, FindMissedEvents, QueueMissed, QueueMissedFails, SendFails, ClaimFails
  <2>3. CASE SendClaimed(t)
    <3>1. PICK e : GoTo(t, IF sched[t].todo \ {e} = {} THEN "idle" ELSE "send", sched[t].todo \ {e})
      BY <2>3 DEF SendClaimed
    <3> QED BY <1>5, <3>1
  <2>4. CASE RecoveryDone(t) \/ RecoveryFails(t)
    <3> DEFINE rec == [sched[t] EXCEPT !.pc = "claim", !.warm = TRUE]
    <3>1. rec.pc # "mark"
      BY <2>1
    <3>2. sched' = [sched EXCEPT ![t] = rec]
      BY <2>4, Zenon DEF RecoveryDone, RecoveryFails
    <3> HIDE DEF rec
    <3> QED BY <3>1, <3>2
  <2>5. CASE MarkProcessing(t)
    <3> DEFINE rec == [sched[t] EXCEPT !.pc = "send"]
    <3>1. rec.pc # "mark"
      BY <2>1
    <3>2. sched' = [sched EXCEPT ![t] = rec]
      BY <1>1, <2>5 DEF MarkProcessing
    <3> HIDE DEF rec
    <3> QED BY <3>1, <3>2
  <2>6. CASE SchedulerStops(t)
    <3> DEFINE rec == [pc |-> "idle", todo |-> {}, warm |-> FALSE]
    <3>1. rec.pc # "mark" /\ sched' = [sched EXCEPT ![t] = rec]
      BY <2>6 DEF SchedulerStops
    <3> HIDE DEF rec
    <3> QED BY <3>1
  <2> QED BY <1>6, <2>2, <2>3, <2>4, <2>5, <2>6 DEF SchedulerRuns, SchedulerFails
<1>7. \/ UNCHANGED sched
      \/ \E t \in Schedulers : SchedulerRuns(t) \/ SchedulerFails(t)
  BY DEF Steady, SystemNext, Registration, UpdateRuns, UpdateFails, Pipeline, ClockTicks, WorkerGoesOn,
         WorkerRuns, WorkerFails, FollowUp, QueueRuns, QueueOvertakes, systemVars, vars
<1> QED BY <1>2, <1>3, <1>4, <1>6, <1>7

\* Time does not run backwards, and only the clock moves it.
LEMMA TimeGoesOn ==
  ASSUME Steady
  PROVE  now <= now'
<1>1. now \in Nat
  BY SteadyTypes
<1>2. now' = now \/ now' = now + 1
  BY DEF Steady, SystemNext, Registration, CreateUser, CreateBirthdayEventAt, CreateBirthdayEventFails,
         DeleteUser, UpdateRuns, UpdateFails, ReadUser, WriteUser, FindPending, StoreRescheduled,
         RescheduleFails, UpdateStops, Pipeline, ClockTicks, Tick, SchedulerRuns, SchedulerFails, Invoke,
         FindMissedEvents, QueueMissed, QueueMissedFails, RecoveryDone, RecoveryFails, SelectForUpdate,
         MarkProcessing, ClaimFails, SendClaimed, SendFails, SchedulerStops, SchedulerFault, WorkerFault,
         WorkerGoesOn, WorkerRuns, WorkerFails, FollowUp, Receive, SkipRecord, RejectPayload, StartRecord,
         DeliverAccepted, DeliverRejected, MarkFailed, FindUser, CompleteEvent, CreateNextYear,
         CreateFollower, Finish, RetryDelivery, DeliverFails, WorkerStops, QueueRuns, QueueOvertakes,
         VisibilityTimeout, VisibilityTimeoutEarly, Redrive, platformVars, systemVars, vars
<1> QED BY <1>1, <1>2

LEMMA ClaimedStaysDue ==
  ASSUME Steady, CalendarInv
  PROVE  ClaimedIsDue'
<1>1. now <= now' /\ now \in Nat /\ now' \in Nat
  BY TimeGoesOn, SteadyTypes
<1>2. ASSUME NEW e \in EventIds, rows'[e].status \in {"PROCESSING"} \cup Settled
      PROVE  rows'[e].target <= now'
  <2>1. rows[e].target <= now /\ rows'[e].target = rows[e].target
    <3>1. CASE rows'[e] = rows[e]
      BY <1>2, <3>1 DEF CalendarInv, ClaimedIsDue
    <3>2. CASE RowClaimed(e)
      BY <3>2 DEF RowClaimed, DatesStay, CalendarInv, ClaimedIsDue
    <3>3. CASE RowSettled(e)
      BY <3>3 DEF RowSettled, DatesStay, CalendarInv, ClaimedIsDue
    <3>4. RowBorn(e) => rows'[e].status = "PENDING"
      BY DEF RowBorn, PendingEvent
    <3>5. (\E r \in Requests : RowMoved(r, e)) \/ RowGone(e) => rows'[e].status \in {"PENDING", "GONE"}
      BY DEF RowMoved, RowGone
    <3> QED BY <1>2, <3>1, <3>2, <3>3, <3>4, <3>5, StepCourse DEF Course, Settled
  <2> QED BY <1>1, <2>1, TimesAreInt
<1>3. ASSUME NEW s \in Schedulers, sched'[s].pc = "mark", NEW e \in sched'[s].todo
      PROVE  rows'[e].target <= now'
  <2>1. CASE sched[s].pc = "mark" /\ sched'[s].todo = sched[s].todo
    <3>1. e \in EventIds /\ e \in locked /\ rows[e].status = "PENDING"
      BY <1>3, <2>1, SteadyTypes DEF Steady, Moved, FrozenInv, SchedulerClaims, ClaimIsLocked
    <3>2. rows[e].target <= now
      BY <1>3, <2>1 DEF CalendarInv, ClaimedIsDue
    <3>3. rows'[e].target = rows[e].target
      BY <3>1, DatesOfRows DEF DatesStay, RowMoved
    <3> QED BY <1>1, <3>1, <3>2, <3>3, TimesAreInt
  <2>2. CASE sched'[s].todo \subseteq ReadyEvents /\ UNCHANGED <<rows, now>>
    BY <1>3, <2>2 DEF ReadyEvents
  <2> QED BY <1>3, <2>1, <2>2, ClaimsInTheMaking
<1> QED BY <1>2, <1>3 DEF ClaimedIsDue

LEMMA UsersOnlyRegister ==
  ASSUME Steady
  PROVE  UNCHANGED users \/ \E u \in Users : Registration(u)
BY DEF Steady, SystemNext, UpdateRuns, UpdateFails, ReadUser, WriteUser, FindPending, StoreRescheduled,
       RescheduleFails, UpdateStops, Pipeline, ClockTicks, SchedulerRuns, SchedulerFails, Invoke,
       FindMissedEvents, QueueMissed, QueueMissedFails, RecoveryDone, RecoveryFails, SelectForUpdate,
       MarkProcessing, ClaimFails, SendClaimed, SendFails, SchedulerStops, WorkerFails,
       WorkerGoesOn, WorkerRuns, FollowUp, Receive, SkipRecord, RejectPayload, StartRecord,
       DeliverAccepted, DeliverRejected, MarkFailed, FindUser, CompleteEvent, CreateNextYear,
       CreateFollower, Finish, RetryDelivery, DeliverFails, WorkerStops, QueueRuns, QueueOvertakes,
       VisibilityTimeout, VisibilityTimeoutEarly, Redrive, databaseVars, systemVars, vars

LEMMA LiveKeepsUser ==
  ASSUME Steady, CalendarInv
  PROVE  LiveHasUser'
<1> SUFFICES ASSUME NEW e \in EventIds, rows'[e].status \in EventStatus
             PROVE  users'[rows'[e].user] = "announced"
  BY DEF LiveHasUser, Live
<1>1. CASE RowBorn(e)
  BY <1>1 DEF RowBorn, PendingEvent
<1>2. CASE Live(e) /\ rows'[e].user = rows[e].user
  <2>1. users[rows[e].user] = "announced" /\ rows[e].user \in Users
    BY <1>2 DEF CalendarInv, LiveHasUser, Steady, OneAtATime, Live, EventStatus
  <2>2. CASE \E u \in Users : DeleteUser(u)
    <3>1. PICK u \in Users : DeleteUser(u)
      BY <2>2
    <3>2. rows[e].user # u
      BY <1>2, <3>1 DEF DeleteUser, CascadeDelete, EventStatus
    <3> QED BY <1>2, <2>1, <3>1, <3>2, SteadyTypes DEF DeleteUser
  <2>3. CASE ~\E u \in Users : DeleteUser(u)
    <3>1. \A u \in Users : users[u] = "announced" => users'[u] = "announced"
      <4>1. CASE UNCHANGED users
        BY <4>1
      <4>2. CASE \E u \in Users : Registration(u)
        BY <2>3, <4>2, SteadyTypes
           DEF Registration, CreateUser, CreateBirthdayEventAt, CreateBirthdayEventFails
      <4> QED BY <4>1, <4>2, UsersOnlyRegister
    <3> QED BY <1>2, <2>1, <3>1
  <2> QED BY <2>2, <2>3
<1>3. RowBorn(e) \/ (Live(e) /\ rows'[e].user = rows[e].user)
  BY StepCourse
     DEF Course, RowClaimed, RowSettled, RowMoved, RowGone, DatesStay, Live, EventStatus
<1> QED BY <1>1, <1>2, <1>3

\* w looked the user up in this step.
LookedUp(w) ==
  /\ worker[w].pc = "findUser"
  /\ worker'[w].ev = worker[w].ev /\ worker'[w].msg = worker[w].msg
  /\ \/ /\ UserExists(worker[w].ev.user) /\ worker'[w].pc = "complete"
        /\ celebrant'[w] = profile[worker[w].ev.user]
     \/ ~UserExists(worker[w].ev.user) /\ worker'[w].pc = "completeOnly"
  /\ UNCHANGED <<users, profile>>

\* w completed its event in this step and is about to create the next.
WonTheRight(w) ==
  /\ worker[w].pc = "complete" /\ worker'[w].pc = "create"
  /\ worker'[w].ev = worker[w].ev /\ worker'[w].msg = worker[w].msg
  /\ celebrant'[w] = celebrant[w] /\ UNCHANGED profile
  /\ Current(w) \in EventIds
  /\ rows[Current(w)].status = "PROCESSING" /\ rows'[Current(w)].status = "COMPLETED"
  /\ rows[Current(w)].local = worker[w].ev.local

\* How a worker comes to where it completes an event or creates the next.
WorkerComes(w) ==
  \/ worker'[w] = worker[w] /\ celebrant'[w] = celebrant[w]
  \/ worker'[w].pc \notin {"complete", "completeOnly", "create"}
  \/ LookedUp(w)
  \/ WonTheRight(w)

LEMMA WorkersCome ==
  ASSUME Steady, NEW w \in Workers
  PROVE  WorkerComes(w)
<1>1. /\ worker \in [Workers -> [pc : WorkerPcs, batch : SUBSET Messages, todo : SUBSET Messages,
                                 msg : Messages \cup {NoMessage}, ev : Event, retries : Nat]]
      /\ celebrant \in [Workers -> Profiles]
      /\ worker[w] \in [pc : WorkerPcs, batch : SUBSET Messages, todo : SUBSET Messages,
                        msg : Messages \cup {NoMessage}, ev : Event, retries : Nat]
  BY SteadyTypes
<1>2. CASE UNCHANGED <<worker, celebrant>>
  BY <1>2 DEF WorkerComes
<1>3. CASE \E v \in Workers \ {w} : WorkerGoesOn(v) \/ FollowUp(v) \/ (WorkerFails(v) /\ UNCHANGED celebrant)
  <2>1. PICK v \in Workers \ {w} : WorkerGoesOn(v) \/ FollowUp(v) \/ (WorkerFails(v) /\ UNCHANGED celebrant)
    BY <1>3
  <2>2. worker'[w] = worker[w]
    BY <1>1, <2>1
       DEF WorkerGoesOn, FollowUp, WorkerRuns, WorkerFails, Receive, SkipRecord, RejectPayload,
           StartRecord, DeliverAccepted, DeliverRejected, MarkFailed, FindUser, CompleteEvent,
           CreateNextYear, CreateFollower, Finish, RetryDelivery, DeliverFails, WorkerStops,
           WorkerGoTo, Return, Throw
  <2>3. celebrant'[w] = celebrant[w]
    BY <1>1, <2>1 DEF WorkerGoesOn, FollowUp
  <2> QED BY <2>2, <2>3 DEF WorkerComes
<1>4. ASSUME Return(w) \/ Throw(w) PROVE WorkerComes(w)
  <2>1. CASE Return(w)
    <3>1. worker'[w] = [worker[w] EXCEPT !.pc = "next", !.todo = worker[w].todo \ {worker[w].msg},
                                         !.msg = NoMessage, !.ev = NoEvent]
      BY <1>1, <2>1, Zenon DEF Return
    <3>2. worker'[w].pc = "next"
      BY <1>1, <3>1
    <3> QED BY <3>2 DEF WorkerComes
  <2>2. CASE Throw(w)
    BY <1>1, <2>2 DEF Throw, IdleWorker, WorkerComes
  <2> QED BY <1>4, <2>1, <2>2
<1>5. ASSUME NEW pc \in WorkerPcs, WorkerGoTo(w, pc)
      PROVE  worker'[w].pc = pc /\ worker'[w].ev = worker[w].ev /\ worker'[w].msg = worker[w].msg
  <2>1. worker'[w] = [worker[w] EXCEPT !.pc = pc]
    BY <1>1, <1>5 DEF WorkerGoTo
  <2> QED BY <1>1, <2>1
<1>6. CASE WorkerGoesOn(w) /\ UNCHANGED updateVars
  <2>1. CASE FindUser(w)
    <3> DEFINE u == worker[w].ev.user
    <3>1. worker[w].pc = "findUser" /\ UNCHANGED <<users, profile>>
      BY <1>6, <2>1 DEF FindUser, updateVars, databaseVars
    <3>2. /\ worker'[w].pc = (IF UserExists(u) THEN "complete" ELSE "completeOnly")
          /\ worker'[w].ev = worker[w].ev /\ worker'[w].msg = worker[w].msg
      BY <1>5, <2>1 DEF FindUser, WorkerPcs
    <3>3. UserExists(u) => celebrant'[w] = profile[u]
      BY <1>1, <1>6, <3>1 DEF WorkerGoesOn
    <3> QED BY <3>1, <3>2, <3>3 DEF WorkerComes, LookedUp
  <2>2. CASE CompleteEvent(w) /\ worker[w].pc = "complete"
             /\ UpdateMatches(Current(w), markCompleted(worker[w].ev))
    <3>1. WorkerGoTo(w, "create") /\ update(Current(w), markCompleted(worker[w].ev))
      BY <2>2 DEF CompleteEvent
    <3>2. /\ Current(w) \in EventIds /\ rows[Current(w)].status = "PROCESSING"
          /\ rows[Current(w)].local = worker[w].ev.local
          /\ rows'[Current(w)].status = markCompleted(worker[w].ev).status
      <4>1. PICK e : e = Current(w) /\ e \in EventIds
        BY <2>2, CopyHasUser DEF Steady, Moved
      <4> QED BY <2>2, <3>1, <4>1, SettlingCourse
    <3>3. markCompleted(worker[w].ev).status = "COMPLETED"
      BY <1>1 DEF markCompleted, Event
    <3>4. celebrant'[w] = celebrant[w] /\ UNCHANGED profile
      BY <1>6, <2>2 DEF WorkerGoesOn, updateVars
    <3> QED BY <1>5, <2>2, <3>1, <3>2, <3>3, <3>4 DEF WorkerComes, WonTheRight, WorkerPcs
  <2>3. CASE CompleteEvent(w) /\ ~(/\ worker[w].pc = "complete"
                                   /\ UpdateMatches(Current(w), markCompleted(worker[w].ev)))
    BY <1>4, <2>3 DEF CompleteEvent
  <2>4. CASE DeliverAccepted(w) \/ DeliverRejected(w)
    BY <1>5, <2>4 DEF DeliverAccepted, DeliverRejected, WorkerComes, WorkerPcs
  <2>5. CASE RejectPayload(w) \/ MarkFailed(w) \/ Finish(w)
    BY <1>4, <2>5 DEF RejectPayload, MarkFailed, Finish, Throw
  <2>6. CASE Receive(w) \/ SkipRecord(w) \/ StartRecord(w)
    <3>1. Receive(w) => worker'[w].pc = "next"
      BY <1>1 DEF Receive
    <3>2. SkipRecord(w) => worker'[w].pc = "next"
      BY <1>1 DEF SkipRecord
    <3>3. StartRecord(w) => worker'[w].pc = "deliver"
      BY <1>1 DEF StartRecord
    <3> QED BY <2>6, <3>1, <3>2, <3>3 DEF WorkerComes
  <2> QED BY <1>6, <2>1, <2>2, <2>3, <2>4, <2>5, <2>6
          DEF WorkerGoesOn, WorkerRuns, CreateNextYear, CreateFollower
<1>7. CASE WorkerFails(w)
  <2>1. CASE RetryDelivery(w)
    <3>1. worker'[w].pc = "deliver"
      BY <1>1, <2>1 DEF RetryDelivery
    <3> QED BY <3>1 DEF WorkerComes
  <2> QED BY <1>4, <1>7, <2>1 DEF WorkerFails, DeliverFails, WorkerStops
<1>8. CASE FollowUp(w)
  BY <1>4, <1>8 DEF FollowUp, CreateFollower
<1>9. \/ UNCHANGED <<worker, celebrant>>
      \/ \E v \in Workers : \/ WorkerGoesOn(v) /\ UNCHANGED updateVars
                            \/ FollowUp(v)
                            \/ WorkerFails(v) /\ UNCHANGED celebrant
  BY DEF Steady, SystemNext, Registration, UpdateRuns, UpdateFails, Pipeline, ClockTicks, SchedulerRuns,
         SchedulerFails, QueueRuns, QueueOvertakes, VisibilityTimeout, VisibilityTimeoutEarly, Redrive,
         workerVars, systemVars, vars
<1> QED BY <1>2, <1>3, <1>6, <1>7, <1>8, <1>9

LEMMA CreatorStillKnows ==
  ASSUME Steady, CalendarInv
  PROVE  CreatorKnowsLocal'
<1> SUFFICES ASSUME NEW w \in Workers, worker'[w].pc = "create"
             PROVE  \E c : c = worker'[w].msg[1] /\ worker'[w].ev.local = rows'[c].local
  BY DEF CreatorKnowsLocal, Creating, Current
<1>1. CASE worker'[w] = worker[w]
  <2>1. PICK c : c = Current(w) /\ c \in EventIds /\ rows[c].status \notin {"NONE", "PENDING"}
    BY <1>1, CopyHasUser DEF Steady, Moved
  <2>2. worker[w].ev.local = rows[c].local
    BY <1>1, <2>1 DEF CalendarInv, CreatorKnowsLocal, Creating
  <2>3. rows'[c].local = rows[c].local
    BY <2>1, DatesOfRows DEF DatesStay, RowMoved
  <2> QED BY <1>1, <2>1, <2>2, <2>3 DEF Current
<1>2. CASE WonTheRight(w)
  <2>1. PICK c : c = Current(w) /\ c \in EventIds /\ rows[c].status = "PROCESSING"
                 /\ rows[c].local = worker[w].ev.local
    BY <1>2 DEF WonTheRight
  <2>2. rows'[c].local = rows[c].local
    BY <2>1, DatesOfRows DEF DatesStay, RowMoved
  <2> QED BY <1>2, <2>1, <2>2 DEF WonTheRight, Current
<1> QED BY <1>1, <1>2, WorkersCome DEF WorkerComes, LookedUp

-----------------------------------------------------------------------------
\* A copy keeps its place as long as its version is the row's.
LEMMA MoveStaysLater ==
  ASSUME Steady, NEW e \in EventIds, NEW version \in Int, NEW ev \in Event,
         ReadPending(e, version), MoveIsLater(e, version, ev)
  PROVE  MoveIsLater(e, version, ev)'
<1>1. /\ rows[e].version \in Nat /\ rows'[e].version \in Nat
      /\ rows[e].status # "NONE" /\ version <= rows[e].version
  BY TimesAreInt DEF ReadPending
<1> SUFFICES ASSUME rows'[e].status \in EventStatus, rows'[e].version = version
             PROVE  IsLaterThan(ev.local, e)'
  BY DEF MoveIsLater, Live
<1>2. rows'[e] = rows[e]
  BY <1>1, RowsMoveFacts DEF Steady, Moved, FrozenInv, Live
<1>3. IsLaterThan(ev.local, e)
  BY <1>2 DEF MoveIsLater, Live
<1> QED BY <1>1, <1>2, <1>3, EarlierStay DEF IsLaterThan, DatesStay

\* What r has read and is about to store goes on from read.
LEMMA MovesGoOn ==
  ASSUME Steady, CalendarInv, NEW r \in Requests, NEW read \in SUBSET (EventIds \X Event),
         \A c \in read : ReadPending(c[1], c[2].version) /\ MoveIsLater(c[1], c[2].version, c[2]),
         request'[r].todo \subseteq read,
         request'[r].pc = "store" =>
           \E c \in read : /\ c[2].status = "PENDING"
                           /\ request'[r].id = c[1]
                           /\ request'[r].ev = Rescheduled(request[r], c[2])
  PROVE  MovesAreLater(r)'
<1>1. ASSUME NEW c \in read
      PROVE  MoveIsLater(c[1], c[2].version, c[2])'
  <2>1. c[1] \in EventIds /\ c[2] \in Event /\ c[2].version \in Int
    BY DEF Event
  <2> QED BY <2>1, MoveStaysLater
<1>2. ASSUME request'[r].pc = "store"
      PROVE  \E i, v, ev : /\ i = request'[r].id /\ ev = request'[r].ev /\ v = request'[r].ev.version - 1
                           /\ MoveIsLater(i, v, ev)'
  <2>1. PICK c \in read : /\ request'[r].id = c[1]
                          /\ request'[r].ev = Rescheduled(request[r], c[2])
    BY <1>2
  <2> DEFINE ev == Rescheduled(request[r], c[2])
             i == c[1]
  <2>2. i \in EventIds /\ c[2] \in Event /\ request[r] \in Request /\ now \in Nat
    BY SteadyTypes
  <2>3. ev \in Event /\ ev.version = c[2].version + 1 /\ c[2].version \in Nat /\ c[2].local \in Int
    BY <2>2, RescheduledType DEF Event
  <2>4. ReadPending(i, c[2].version) /\ MoveIsLater(i, c[2].version, c[2])
    OBVIOUS
  <2>5. MoveIsLater(i, c[2].version, ev)
    <3>1. CASE request[r].topic = "birthday"
      <4> DEFINE t == Occurrence(request[r].new, now)
      <4>1. ev.local = t /\ ev.target = t /\ t \in Int /\ t > now
        <5>1. request[r].new \in Profiles
          BY <2>2 DEF Request
        <5>2. ev = [c[2] EXCEPT !.target = t, !.local = t, !.version = c[2].version + 1]
          BY <3>1, Zenon DEF Rescheduled, RescheduledToBirthday, reschedule
        <5> HIDE DEF ev
        <5>3. ev.local = t /\ ev.target = t
          BY <2>2, <5>2 DEF Event
        <5> QED BY <2>2, <5>1, <5>3, OccurrenceIsLater
      <4> HIDE DEF ev, t
      <4>2. ASSUME Live(i), rows[i].version = c[2].version, NEW d \in EventIds, d < i,
                   rows[d].user = rows[i].user, rows[d].local <= rows[d].target
            PROVE  rows[d].local < t
        <5>1. rows[i].status = "PENDING"
          BY <2>4, <4>2 DEF ReadPending
        <5>2. /\ rows[i].user \in Users /\ users[rows[i].user] = "announced"
          BY <5>1 DEF Steady, OneAtATime, CalendarInv, LiveHasUser, Live, EventStatus
        <5>3. /\ rows[d].status # "NONE"
          BY <4>2, <5>2, SteadyTypes DEF Steady, HistoryKept
        <5>4. rows[d].status # "GONE"
          BY <4>2, <5>2 DEF Steady, HistoryKept
        <5>5. ~Open(d)
          BY <2>2, <4>2, <5>1 DEF Steady, HistoryKept, IsNewest
        <5>6. rows[d] \in Event
          BY SteadyTypes
        <5>7. rows[d].status \in Settled
          BY <5>3, <5>4, <5>5, <5>6 DEF Event, EventStatus, Open, Settled
        <5>8. rows[d].target <= now
          BY <5>7 DEF CalendarInv, ClaimedIsDue
        <5> QED BY <2>2, <4>1, <4>2, <5>8, TimesAreInt
      <4> QED BY <4>1, <4>2 DEF MoveIsLater, IsLaterThan
    <3>2. CASE request[r].topic # "birthday"
      <4> DEFINE t == c[2].local - 0 + request[r].new.zone
      <4>1. ev = [c[2] EXCEPT !.target = t, !.local = c[2].local, !.version = c[2].version + 1]
        BY <3>2, Zenon DEF Rescheduled, RescheduledToZone, reschedule, convertToUTC, targetTimestampLocal,
                           toWallClock, UTC
      <4> HIDE DEF ev, t
      <4>2. ev.local = c[2].local
        BY <2>2, <4>1 DEF Event
      <4> QED BY <2>4, <4>2 DEF MoveIsLater
    <3> QED BY <3>1, <3>2
  <2> HIDE DEF ev, i
  <2>6. PICK j \in EventIds, v \in Int, x \in Event :
          /\ j = i /\ v = c[2].version /\ x = ev
          /\ ReadPending(j, v) /\ MoveIsLater(j, v, x)
    BY <2>2, <2>3, <2>4, <2>5
  <2>7. MoveIsLater(j, v, x)'
    BY <2>6, MoveStaysLater
  <2>8. v = x.version - 1
    BY <2>3, <2>6
  <2> QED BY <2>1, <2>6, <2>7, <2>8 DEF ev, i
<1>3. \A c \in request'[r].todo : MoveIsLater(c[1], c[2].version, c[2])'
  BY <1>1
<1>4. ASSUME request'[r].pc = "store"
      PROVE  MoveIsLater(request[r].id, request[r].ev.version - 1, request[r].ev)'
  <2>1. PICK i, v, ev : /\ i = request'[r].id /\ ev = request'[r].ev /\ v = request'[r].ev.version - 1
                        /\ MoveIsLater(i, v, ev)'
    BY <1>2, <1>4
  <2>2. rows'[i].status \in EventStatus /\ rows'[i].version = v =>
          \A d \in EventIds : d < i /\ rows'[d].user = rows'[i].user /\ rows'[d].local <= rows'[d].target
                               => rows'[d].local < ev.local
    BY <2>1 DEF MoveIsLater, IsLaterThan, Live
  <2> QED BY <2>1, <2>2 DEF MoveIsLater, IsLaterThan, Live
<1> QED BY <1>3, <1>4 DEF MovesAreLater

\* The loop either ends or takes a copy c up.
LEMMA NextEventsTake ==
  ASSUME NEW req \in Request, NEW todo \in SUBSET (EventIds \X Event), now \in Nat,
         NEW next \in NextEvents(req, todo)
  PROVE  \/ todo = {} /\ next = NextTopic(req)
         \/ \E c \in todo : /\ next.pc = "store" /\ next.id = c[1]
                            /\ next.ev = Rescheduled(req, c[2]) /\ next.todo = todo \ {c}
                            /\ next.user = req.user /\ next.old = req.old /\ next.new = req.new
                            /\ next.moved = req.moved /\ next.topic = req.topic
<1>1. CASE todo = {}
  BY <1>1 DEF NextEvents
<1>2. CASE todo # {}
  <2>1. PICK c \in todo :
          next = [req EXCEPT !.pc = "store", !.id = c[1], !.ev = Rescheduled(req, c[2]), !.todo = todo \ {c}]
    BY <1>2 DEF NextEvents
  <2>2. c[1] \in 0 .. MaxEvents /\ c[2] \in Event
    BY MaxEventsAssumption
  <2> DEFINE ev == Rescheduled(req, c[2])
  <2>3. ev \in Event
    BY <2>2, RescheduledType
  <2> HIDE DEF ev
  <2>4. next = [req EXCEPT !.pc = "store", !.id = c[1], !.ev = ev, !.todo = todo \ {c}]
    BY <2>1 DEF ev
  <2>5. /\ next.pc = "store" /\ next.id = c[1] /\ next.ev = ev /\ next.todo = todo \ {c}
        /\ next.user = req.user /\ next.old = req.old /\ next.new = req.new
        /\ next.moved = req.moved /\ next.topic = req.topic
    BY <2>2, <2>3, <2>4 DEF Request, RequestPcs
  <2> QED BY <2>5 DEF ev
<1> QED BY <1>1, <1>2

PendingOf(u) == {<<e, rows[e]>> : e \in {e \in EventIds : rows[e].user = u /\ CanReschedule(rows[e])}}

\* r writes its user, who is disturbed if that races someone else's step or loses the
\* wall clock.
WritesUser(r) ==
  /\ WriteUser(r)
  /\ disturbed' = IF Races(r, request[r].user) \/ LosesWallClock(request[r])
                  THEN disturbed \cup {request[r].user} ELSE disturbed

\* What a request is after a step; at first it has the user as it was read.
RequestBegins(r) ==
  \E u \in Users, new \in Profiles, moved \in BOOLEAN :
    /\ users[u] = "announced"
    /\ new.birthday # profile[u].birthday => moved
    /\ request'[r] = [request[r] EXCEPT !.pc = "write", !.user = u, !.old = profile[u],
                                        !.new = new, !.moved = moved]

RequestComes(r) ==
  \/ request'[r] = request[r]
  \/ ReadUser(r) /\ UNCHANGED disturbed /\ RequestBegins(r)
  \/ WritesUser(r) /\ request'[r] \in {FirstTopic(request[r]), IdleRequest}
  \/ /\ FindPending(r) /\ UNCHANGED disturbed
     /\ request'[r] \in NextEvents(request[r], PendingOf(request[r].user))
  \/ /\ StoreRescheduled(r) /\ UNCHANGED disturbed
     /\ request'[r] \in NextEvents(request[r], request[r].todo)
  \/ UpdateFails(r) /\ request'[r] = IdleRequest
  \/ UpdateFails(r) /\ request[r].pc \in {"find", "store"} /\ request'[r] = NextTopic(request[r])

LEMMA RequestsCome ==
  ASSUME Steady, NEW r \in Requests
  PROVE  RequestComes(r)
<1>1. request \in [Requests -> Request]
  BY SteadyTypes
<1> HIDE DEF Request
<1>2. CASE UNCHANGED request
  BY <1>2 DEF RequestComes
<1>3. CASE \E q \in Requests \ {r} : UpdateRuns(q) \/ UpdateFails(q)
  <2>1. PICK q \in Requests \ {r} : UpdateRuns(q) \/ UpdateFails(q)
    BY <1>3
  <2>2. request'[r] = request[r]
    BY <1>1, <2>1 DEF UpdateRuns, UpdateFails, ReadUser, WriteUser, FindPending, StoreRescheduled,
                      RescheduleFails, UpdateStops
  <2> QED BY <2>2 DEF RequestComes
<1>4. CASE UpdateRuns(r)
  <2>1. CASE ReadUser(r) /\ UNCHANGED disturbed
    <3>1. PICK u \in Users, new \in Profiles, moved \in BOOLEAN :
            /\ users[u] = "announced"
            /\ new.birthday # profile[u].birthday => moved
            /\ request' = [request EXCEPT ![r] = [@ EXCEPT !.pc = "write", !.user = u, !.old = profile[u],
                                                           !.new = new, !.moved = moved]]
      BY <2>1 DEF ReadUser
    <3>2. request'[r] = [request[r] EXCEPT !.pc = "write", !.user = u, !.old = profile[u],
                                           !.new = new, !.moved = moved]
      BY <1>1, <3>1
    <3>3. RequestBegins(r)
      BY <3>1, <3>2 DEF RequestBegins
    <3> QED BY <2>1, <3>3 DEF RequestComes
  <2>2. CASE WriteUser(r)
    <3>1. WritesUser(r)
      BY <1>4, <2>2 DEF UpdateRuns, WritesUser, ReadUser, WriteUser, FindPending, StoreRescheduled
    <3>2. request'[r] \in {FirstTopic(request[r]), IdleRequest}
      BY <1>1, <2>2 DEF WriteUser
    <3> QED BY <3>1, <3>2 DEF RequestComes
  <2>3. CASE FindPending(r) /\ UNCHANGED disturbed
    BY <1>1, <2>3 DEF FindPending, RequestComes, PendingOf
  <2>4. CASE StoreRescheduled(r) /\ UNCHANGED disturbed
    BY <1>1, <2>4 DEF StoreRescheduled, RequestComes
  <2> QED BY <1>4, <2>1, <2>2, <2>3, <2>4 DEF UpdateRuns
<1>5. CASE UpdateFails(r)
  BY <1>1, <1>5 DEF UpdateFails, RescheduleFails, UpdateStops, RequestComes
<1>6. UNCHANGED request \/ \E q \in Requests : UpdateRuns(q) \/ UpdateFails(q)
  BY DEF Steady, SystemNext, Registration, Pipeline, updateVars, systemVars
<1> QED BY <1>2, <1>3, <1>4, <1>5, <1>6

LEMMA MovesStayLater ==
  ASSUME Steady, CalendarInv, NEW r \in Requests
  PROVE  MovesAreLater(r)'
<1>1. /\ request[r] \in Request /\ request[r].todo \in SUBSET (EventIds \X Event) /\ now \in Nat
      /\ rows \in [EventIds -> Event]
  BY SteadyTypes DEF Request
<1> HIDE DEF Request
<1>2. /\ \A c \in request[r].todo : c[2].status = "PENDING" /\ ReadPending(c[1], c[2].version)
      /\ \A c \in request[r].todo : MoveIsLater(c[1], c[2].version, c[2])
  BY DEF Steady, Moved, FrozenInv, RequestCopies, CopiesOf, CalendarInv, MovesAreLater
<1>3. ASSUME request'[r].todo \subseteq request[r].todo, request'[r].pc # "store"
      PROVE  MovesAreLater(r)'
  BY <1>1, <1>2, <1>3, MovesGoOn
<1>4. CASE request'[r] = request[r]
  <2>1. CASE request[r].pc # "store"
    BY <1>3, <1>4, <2>1
  <2>2. CASE request[r].pc = "store"
    <3>1. PICK i \in EventIds, v \in Int, ev \in Event :
            /\ i = request[r].id /\ v = request[r].ev.version - 1 /\ ev = request[r].ev
            /\ ReadPending(i, v) /\ MoveIsLater(i, v, ev)
      <4>1. request[r].ev \in Event /\ request[r].id \in EventIds
        BY <1>1, <2>2 DEF Steady, Moved, FrozenInv, RequestCopies, CopiesOf, Request
      <4>2. request[r].ev.version - 1 \in Int
        BY <4>1 DEF Event
      <4> QED BY <2>2, <4>1, <4>2
              DEF Steady, Moved, FrozenInv, RequestCopies, CopiesOf, CalendarInv, MovesAreLater
    <3>2. MoveIsLater(i, v, ev)'
      BY <3>1, MoveStaysLater
    <3>3. MoveIsLater(request[r].id, request[r].ev.version - 1, request[r].ev)'
      <4>1. rows'[i].status \in EventStatus /\ rows'[i].version = v =>
              \A d \in EventIds : d < i /\ rows'[d].user = rows'[i].user /\ rows'[d].local <= rows'[d].target
                                   => rows'[d].local < ev.local
        BY <3>2 DEF MoveIsLater, IsLaterThan, Live
      <4> QED BY <1>4, <3>1, <4>1 DEF MoveIsLater, IsLaterThan, Live
    <3>4. \A c \in request[r].todo : c[1] \in EventIds /\ c[2].version \in Int /\ c[2] \in Event
      BY <1>1 DEF Event
    <3>5. \A c \in request'[r].todo : MoveIsLater(c[1], c[2].version, c[2])'
      <4>1. \A c \in request[r].todo : /\ ReadPending(c[1], c[2].version)
                                      /\ MoveIsLater(c[1], c[2].version, c[2])
        BY <1>2
      <4>2. \A e \in EventIds, n \in Int, copy \in Event :
              ReadPending(e, n) /\ MoveIsLater(e, n, copy) => MoveIsLater(e, n, copy)'
        BY MoveStaysLater
      <4>3. \A c \in request[r].todo : MoveIsLater(c[1], c[2].version, c[2])'
        BY <3>4, <4>1, <4>2
      <4> QED BY <1>4, <4>3
    <3> QED BY <3>3, <3>5 DEF MovesAreLater
  <2> QED BY <2>1, <2>2
<1>5. CASE ReadUser(r) /\ request'[r] # request[r]
  <2>1. PICK u \in Users, new \in Profiles, moved \in BOOLEAN :
          request'[r] = [request[r] EXCEPT !.pc = "write", !.user = u, !.old = profile[u],
                                           !.new = new, !.moved = moved]
    <3>1. request[r].pc = "idle"
      BY <1>5 DEF ReadUser
    <3>2. /\ ~WriteUser(r) /\ ~FindPending(r) /\ ~StoreRescheduled(r)
          /\ ~UpdateFails(r)
      BY <3>1 DEF WriteUser, FindPending, StoreRescheduled, UpdateFails, RescheduleFails, UpdateStops
    <3>3. RequestBegins(r)
      BY <1>5, <3>2, RequestsCome DEF RequestComes, WritesUser
    <3> QED BY <3>3, Zenon DEF RequestBegins
  <2>2. request'[r].todo = request[r].todo /\ request'[r].pc = "write"
    BY <1>1, <2>1 DEF Request
  <2> QED BY <1>3, <2>2
<1>6. CASE request'[r] \in {FirstTopic(request[r]), NextTopic(request[r]), IdleRequest}
  <2>1. request'[r].todo \subseteq request[r].todo /\ request'[r].pc # "store"
    BY <1>1, <1>6, FirstTopicType, NextTopicType DEF IdleRequest
  <2> QED BY <1>3, <2>1
<1>7. ASSUME NEW read \in SUBSET (EventIds \X Event), request'[r] \in NextEvents(request[r], read),
             \A c \in read : /\ c[2].status = "PENDING" /\ ReadPending(c[1], c[2].version)
                             /\ MoveIsLater(c[1], c[2].version, c[2])
      PROVE  MovesAreLater(r)'
  <2> DEFINE next == request'[r]
  <2>1. \/ read = {} /\ next = NextTopic(request[r])
        \/ \E c \in read : /\ next.pc = "store" /\ next.id = c[1]
                           /\ next.ev = Rescheduled(request[r], c[2]) /\ next.todo = read \ {c}
    BY <1>1, <1>7, NextEventsTake
  <2>2. CASE next = NextTopic(request[r])
    BY <1>6, <2>2
  <2>3. CASE \E c \in read : /\ next.pc = "store" /\ next.id = c[1]
                             /\ next.ev = Rescheduled(request[r], c[2]) /\ next.todo = read \ {c}
    BY <1>7, <2>3, MovesGoOn
  <2> QED BY <2>1, <2>2, <2>3
<1>8. CASE request'[r] \in NextEvents(request[r], request[r].todo)
  BY <1>1, <1>2, <1>7, <1>8
<1>9. CASE request'[r] \in NextEvents(request[r], PendingOf(request[r].user))
  <2>1. PendingOf(request[r].user) \in SUBSET (EventIds \X Event)
    BY <1>1 DEF PendingOf
  <2>2. ASSUME NEW c \in PendingOf(request[r].user)
        PROVE  /\ c[2].status = "PENDING" /\ ReadPending(c[1], c[2].version)
               /\ MoveIsLater(c[1], c[2].version, c[2])
    <3>1. PICK e \in EventIds : c = <<e, rows[e]>> /\ rows[e].status = "PENDING"
      BY DEF PendingOf, CanReschedule
    <3>2. IsLaterThan(rows[e].local, e)
      BY <3>1 DEF CalendarInv, LocalsAreOrdered
    <3> QED BY <3>1, <3>2, TimesAreInt DEF ReadPending, MoveIsLater
  <2> HIDE DEF PendingOf
  <2> QED BY <1>7, <1>9, <2>1, <2>2
<1> QED BY <1>4, <1>5, <1>6, <1>8, <1>9, RequestsCome DEF RequestComes

LEMMA CalendarStep ==
  ASSUME Steady, CalendarInv
  PROVE  CalendarInv'
<1>1. \A r \in Requests : MovesAreLater(r)'
  BY MovesStayLater
<1> QED BY <1>1, LocalsStayOrdered, ClaimedStaysDue, LiveKeepsUser, CreatorStillKnows DEF CalendarInv

LEMMA CalendarInit == SystemInit => CalendarInv
<1> SUFFICES ASSUME SystemInit PROVE CalendarInv
  OBVIOUS
<1>1. /\ \A e \in EventIds : rows[e] = NoEvent
      /\ \A s \in Schedulers : sched[s].pc = "idle"
      /\ \A w \in Workers : worker[w].pc = "idle"
      /\ \A r \in Requests : request[r] = IdleRequest
  BY DEF SystemInit, Init, DatabaseInit, SchedulerInit, WorkerInit, IdleWorker, UserUpdatesInit
<1>2. LocalsAreOrdered /\ ClaimedIsDue /\ LiveHasUser /\ CreatorKnowsLocal
  BY <1>1 DEF NoEvent, LocalsAreOrdered, ClaimedIsDue, LiveHasUser, CreatorKnowsLocal, Live, EventStatus,
              Settled, Creating
<1>3. \A r \in Requests : MovesAreLater(r)
  BY <1>1 DEF MovesAreLater, IdleRequest
<1> QED BY <1>2, <1>3 DEF CalendarInv

\* What is known in every step of the system.
LEMMA SteadyStep ==
  ASSUME RefinementInv, [SystemNext]_systemVars
  PROVE  Steady /\ RefinementInv'
<1>1. Moved /\ FrozenInv'
  BY SystemStepMoves, FrozenStep DEF RefinementInv
<1>2. OneAtATime'
  BY <1>1, SystemStepChain DEF RefinementInv
<1>3. HistoryKept'
  BY <1>1, SystemStepKeeps DEF RefinementInv, Keeps
<1> QED BY <1>1, <1>2, <1>3 DEF RefinementInv, Steady

LEMMA CalendarInvariance == SystemSpec => [](RefinementInv /\ CalendarInv)
<1>1. SystemInit => RefinementInv /\ CalendarInv
  BY RefinementInit, CalendarInit
<1>2. RefinementInv /\ CalendarInv /\ [SystemNext]_systemVars => RefinementInv' /\ CalendarInv'
  BY SteadyStep, CalendarStep
<1> QED BY <1>1, <1>2, PTL DEF SystemSpec

\* No birthday is celebrated by two events: what lives after a settled event of the same
\* user has a later local time, as long as the settled one was due at its own.  In every
\* zone, in the east of UTC as in the west, and under any interleaving of updates with
\* the pipeline.
THEOREM NoBirthdayTwice == SystemSpec => []OneEventPerBirthday
<1>1. RefinementInv /\ CalendarInv => OneEventPerBirthday
  <2> SUFFICES ASSUME RefinementInv, CalendarInv,
                      NEW e \in EventIds, NEW f \in EventIds, rows[e].status \in Settled,
                      rows[e].local = rows[e].target, Live(f), f > e, rows[f].user = rows[e].user
               PROVE  rows[f].local > rows[e].target
    BY DEF OneEventPerBirthday
  <2>1. rows[e] \in Event /\ rows[f] \in Event
    BY DEF RefinementInv, FrozenInv, SystemTypeOK, TypeOK, DatabaseTypeOK
  <2>2. rows[e].local \in Int /\ rows[e].local <= rows[e].target
    BY <2>1 DEF Event
  <2>3. rows[e].local < rows[f].local
    BY <2>2 DEF CalendarInv, LocalsAreOrdered, IsLaterThan, Live, EventStatus
  <2> QED BY <2>1, <2>3 DEF Event
<1> QED BY <1>1, CalendarInvariance, PTL

-----------------------------------------------------------------------------
(***************************************************************************)
(* The invariant behind EveryoneIsScheduled.  As long as no worker fails,  *)
(* the chain of a registered user goes on: the worker that completes an    *)
(* event is about to create the next, and finds its key taken only by one  *)
(* of the year after the event's local time, which an event that was moved *)
(* has kept.  Where a chain has ended, its last event stays the newest.    *)
(***************************************************************************)
IsLastOf(e, u) == \A f \in EventIds : rows[f].user = u => f <= e

\* u has a next birthday, or the chain ended in one of the ways that are accepted.
HasNext(u) ==
  \/ \E e \in EventIds : rows[e].user = u /\ Open(e)
  \/ \E w \in Workers : Creating(w) /\ worker[w].ev.user = u
  \/ \A e \in EventIds : rows[e].user # u
  \/ \E e \in EventIds : rows[e].user = u /\ EndsChain(e) /\ IsLastOf(e, u)

KeysNameUsers == \A e \in EventIds : rows[e].status # "NONE" => rows[e].key[1] = rows[e].user

\* A worker does not create a next event only if it did not find the user.
NotFoundIsDeleted ==
  \A w \in Workers : worker[w].pc = "completeOnly" => users[worker[w].ev.user] = "deleted"

ChainsGoOn ==
  faults.worker = 0 => \A u \in Users : users[u] = "announced" => HasNext(u)

ScheduleInv == KeysNameUsers /\ NotFoundIsDeleted /\ ChainsGoOn

LEMMA KeysKeepUsers ==
  ASSUME Steady, KeysNameUsers
  PROVE  KeysNameUsers'
<1> SUFFICES ASSUME NEW e \in EventIds, rows'[e].status # "NONE"
             PROVE  rows'[e].key[1] = rows'[e].user
  BY DEF KeysNameUsers
<1>1. CASE RowBorn(e)
  BY <1>1 DEF RowBorn, PendingEvent, IdempotencyKey
<1>2. CASE rows[e].status # "NONE"
  BY <1>2, DatesOfRows DEF KeysNameUsers
<1> QED BY <1>1, <1>2, StepCourse DEF Course, RowClaimed, RowSettled, RowMoved, RowGone, Live, EventStatus

LEMMA DeletedStays ==
  ASSUME Steady, NEW u \in Users, users[u] = "deleted"
  PROVE  users'[u] = "deleted"
<1>1. CASE \E v \in Users : Registration(v)
  BY <1>1, SteadyTypes DEF Registration, CreateUser, CreateBirthdayEventAt, CreateBirthdayEventFails,
                           DeleteUser, UserExists
<1> QED BY <1>1, UsersOnlyRegister

LEMMA NotFoundStaysDeleted ==
  ASSUME Steady, NotFoundIsDeleted
  PROVE  NotFoundIsDeleted'
<1> SUFFICES ASSUME NEW w \in Workers, worker'[w].pc = "completeOnly"
             PROVE  users'[worker'[w].ev.user] = "deleted"
  BY DEF NotFoundIsDeleted
<1>1. worker'[w].ev.user = worker[w].ev.user /\ users[worker[w].ev.user] = "deleted"
      /\ worker[w].ev.user \in Users
  <2>1. CASE worker'[w] = worker[w]
    BY <2>1, CopyHasUser DEF NotFoundIsDeleted, Steady, Moved
  <2>2. CASE LookedUp(w)
    BY <2>2, CopyHasUser DEF LookedUp, UserExists, Steady, Moved
  <2> QED BY <2>1, <2>2, WorkersCome DEF WorkerComes, WonTheRight
<1> QED BY <1>1, DeletedStays

\* Who has completed an event creates the next, unless the user is gone.
LEMMA CompleterCreates ==
  ASSUME Steady, NotFoundIsDeleted, NEW e \in EventIds,
         rows[e].status = "PROCESSING", rows'[e].status = "COMPLETED",
         users[rows[e].user] = "announced"
  PROVE  \E w \in Workers : Creating(w)' /\ worker'[w].ev.user = rows[e].user
<1>1. PICK w \in Workers : Settles(w, e)
  BY StepCourse DEF Course, RowBorn, RowClaimed, RowSettled, RowMoved, RowGone, Settled
<1>2. worker[w].pc \notin {"idle", "next"}
  BY <1>1 DEF Settles, CompleteEvent, MarkFailed
<1>3. worker[w].ev.user = rows[e].user /\ worker[w].ev \in Event
  BY <1>1, <1>2, CopyHasUser, SteadyTypes DEF Settles, Steady, Moved
<1>4. ~MarkFailed(w)
  <2> SUFFICES ASSUME MarkFailed(w) PROVE FALSE
    OBVIOUS
  <2>1. UpdateMatches(Current(w), markFailed(worker[w].ev)) /\ update(Current(w), markFailed(worker[w].ev))
    BY DEF MarkFailed
  <2>2. rows'[e].status = markFailed(worker[w].ev).status
    BY <1>1, <1>2, <2>1, SettlingCourse DEF Settles
  <2> QED BY <1>3, <2>2 DEF markFailed, Event
<1>5. CompleteEvent(w) /\ worker[w].pc = "complete" /\ WorkerGoTo(w, "create")
  <2>1. CompleteEvent(w) /\ worker[w].pc # "completeOnly"
    BY <1>1, <1>3, <1>4 DEF Settles, NotFoundIsDeleted
  <2> QED BY <2>1 DEF CompleteEvent
<1>6. worker'[w] = [worker[w] EXCEPT !.pc = "create"]
  BY <1>5, SteadyTypes DEF WorkerGoTo
<1>7. worker'[w].pc = "create" /\ worker'[w].ev = worker[w].ev
  BY <1>6, SteadyTypes
<1> QED BY <1>3, <1>7 DEF Creating

LEMMA StillNoFault ==
  ASSUME Steady, faults'.worker = 0
  PROVE  faults.worker = 0 /\ \A w \in Workers : ~WorkerFails(w)
<1>1. faults \in [scheduler : Nat, worker : Nat]
  BY DEF Steady, Moved, FrozenInv, SystemTypeOK, TypeOK, PlatformTypeOK
<1>2. faults.worker \in Nat /\ faults.scheduler \in Nat
  BY <1>1
<1>3. ~WorkerFault
  <2> SUFFICES ASSUME WorkerFault PROVE FALSE
    OBVIOUS
  <2>1. faults' = [faults EXCEPT !.worker = faults.worker + 1]
    BY Zenon DEF WorkerFault
  <2>2. faults'.worker = faults.worker + 1
    BY <1>1, <2>1
  <2> QED BY <1>2, <2>2
<1>4. ASSUME NEW w \in Workers PROVE ~WorkerFails(w)
  BY <1>3 DEF WorkerFails, RetryDelivery, DeliverFails, WorkerStops
<1>5. CASE UNCHANGED faults
  BY <1>4, <1>5
<1>6. CASE SchedulerFault
  <2>1. faults' = [faults EXCEPT !.scheduler = faults.scheduler + 1]
    BY <1>6, Zenon DEF SchedulerFault
  <2>2. faults'.worker = faults.worker
    BY <1>1, <2>1
  <2> QED BY <1>4, <2>2
<1>7. UNCHANGED faults \/ SchedulerFault \/ WorkerFault
  <2>1. ASSUME NEW s \in Schedulers, SchedulerRuns(s) \/ SchedulerFails(s)
        PROVE  UNCHANGED faults \/ SchedulerFault
    BY <2>1 DEF SchedulerRuns, SchedulerFails, Invoke, FindMissedEvents, QueueMissed, QueueMissedFails,
                RecoveryDone, RecoveryFails, SelectForUpdate, MarkProcessing, ClaimFails, SendClaimed,
                SendFails, SchedulerStops, platformVars
  <2>2. ASSUME NEW w \in Workers, WorkerGoesOn(w) \/ FollowUp(w) PROVE UNCHANGED faults
    BY <2>2 DEF WorkerGoesOn, WorkerRuns, FollowUp, Receive, SkipRecord, RejectPayload, StartRecord,
                DeliverAccepted, DeliverRejected, MarkFailed, FindUser, CompleteEvent, CreateNextYear,
                CreateFollower, Finish, platformVars
  <2>3. ASSUME NEW m \in Messages, QueueRuns(m) \/ QueueOvertakes(m) PROVE UNCHANGED faults \/ WorkerFault
    BY <2>3 DEF QueueRuns, QueueOvertakes, VisibilityTimeout, VisibilityTimeoutEarly, Redrive, platformVars
  <2>4. ASSUME NEW r \in Requests, UpdateRuns(r) \/ UpdateFails(r) PROVE UNCHANGED faults
    BY <2>4 DEF UpdateRuns, UpdateFails, ReadUser, WriteUser, FindPending, StoreRescheduled,
                RescheduleFails, UpdateStops, platformVars
  <2>5. ASSUME NEW u \in Users, Registration(u) PROVE UNCHANGED faults
    BY <2>5 DEF Registration, CreateUser, CreateBirthdayEventAt, CreateBirthdayEventFails, DeleteUser,
                platformVars
  <2>6. ASSUME ClockTicks \/ UNCHANGED systemVars PROVE UNCHANGED faults
    BY <2>6 DEF ClockTicks, Tick, systemVars, vars, platformVars
  <2> QED BY <1>4, <2>1, <2>2, <2>3, <2>4, <2>5, <2>6 DEF Steady, SystemNext, Pipeline
<1> QED BY <1>3, <1>5, <1>6, <1>7

\* A worker that creates the next event goes on until it has.
LEMMA CreatorGoesOn ==
  ASSUME Steady, NEW w \in Workers, Creating(w), ~WorkerFails(w)
  PROVE  worker'[w] = worker[w] \/ FollowUp(w)
<1>1. worker \in [Workers -> [pc : WorkerPcs, batch : SUBSET Messages, todo : SUBSET Messages,
                              msg : Messages \cup {NoMessage}, ev : Event, retries : Nat]]
  BY SteadyTypes
<1>2. CASE UNCHANGED worker
  BY <1>2
<1>3. ASSUME NEW v \in Workers, v # w, WorkerGoesOn(v) \/ FollowUp(v) \/ WorkerFails(v)
      PROVE  worker'[w] = worker[w]
  BY <1>1, <1>3
     DEF WorkerGoesOn, FollowUp, WorkerRuns, WorkerFails, Receive, SkipRecord, RejectPayload,
         StartRecord, DeliverAccepted, DeliverRejected, MarkFailed, FindUser, CompleteEvent,
         CreateNextYear, CreateFollower, Finish, RetryDelivery, DeliverFails, WorkerStops,
         WorkerGoTo, Return, Throw
<1>4. UNCHANGED worker \/ \E v \in Workers : WorkerGoesOn(v) \/ FollowUp(v) \/ WorkerFails(v)
  BY DEF Steady, SystemNext, Registration, UpdateRuns, UpdateFails, Pipeline, ClockTicks, SchedulerRuns,
         SchedulerFails, QueueRuns, QueueOvertakes, VisibilityTimeout, VisibilityTimeoutEarly, Redrive,
         workerVars, systemVars, vars
<1>5. ~WorkerGoesOn(w)
  BY DEF WorkerGoesOn, Creating
<1> QED BY <1>2, <1>3, <1>4, <1>5

\* The next event is created, or its key is taken.
LEMMA FollowUpSchedules ==
  ASSUME Steady, CalendarInv, KeysNameUsers, NEW w \in Workers, FollowUp(w),
         NEW u \in Users, worker[w].ev.user = u, users[u] = "announced"
  PROVE  HasNext(u)'
<1> DEFINE t == Occurrence(celebrant[w], worker[w].ev.local)
<1>1. Creating(w) /\ CreateFollower(w, t)
  BY DEF FollowUp, CreateFollower, Creating
<1>2. t \in Int
  <2>1. worker[w].ev \in Event /\ celebrant[w] \in Profiles
    BY SteadyTypes
  <2>2. worker[w].ev.local \in Int
    BY <2>1 DEF Event
  <2> QED BY <2>1, <2>2, OccurrenceIsLater
<1>3. BornOf(u, t)
  BY <1>1 DEF BornOf
<1> HIDE DEF t
<1>4. CASE KeyTaken(<<u, t>>) /\ UNCHANGED rows
  <2>1. PICK d \in EventIds : Live(d) /\ rows[d].key = <<u, t>>
    BY <1>4 DEF KeyTaken
  <2>2. rows[d].user = u
    BY <2>1 DEF KeysNameUsers, Live, EventStatus
  <2>3. /\ MayFollow(Current(w)) /\ rows[Current(w)].user = u
        /\ worker[w].ev.local = rows[Current(w)].local
    BY <1>1, CopyHasUser DEF CalendarInv, CreatorKnowsLocal, Steady, HistoryKept, Creating, Moved
  <2>4. PICK c \in EventIds : /\ c = Current(w) /\ IsNewest(c) /\ rows[c].user = u
                              /\ rows[c].status = "COMPLETED"
    BY <2>3 DEF MayFollow, Steady, HistoryKept
  <2>5. t \in NextOccurrences(rows[c].local)
    <3>1. celebrant[w] \in Profiles /\ rows[c].local \in Int /\ Year \in Int
      BY <2>4, SteadyTypes, TimesAreInt, YearAssumption
    <3>2. t > rows[c].local /\ t <= rows[c].local + Year
      BY <2>3, <2>4, <3>1, OccurrenceIsLater DEF t
    <3> QED BY <1>2, <3>1, <3>2 DEF NextOccurrences
  <2>6. EndsChain(c)
    <3>1. rows[d].key[2] \in NextOccurrences(rows[c].local)
      BY <2>1, <2>5
    <3> QED BY <2>2, <2>4, <3>1 DEF EndsChain
  <2>7. IsLastOf(c, u)
    <3>1. \A f \in EventIds : rows[f].user = u => rows[f].status # "NONE"
      BY SteadyTypes DEF Steady, HistoryKept
    <3> QED BY <2>4, <3>1 DEF IsLastOf, IsNewest
  <2> QED BY <1>4, <2>4, <2>6, <2>7 DEF HasNext, EndsChain, IsLastOf
<1>5. CASE create(PendingEvent(u, t, "messageOnly"))
  <2>1. lastId + 1 \in EventIds /\ rows' = [rows EXCEPT ![lastId + 1] = PendingEvent(u, t, "messageOnly")]
    BY <1>5, SteadyTypes, MaxEventsAssumption DEF create
  <2>2. PICK e \in EventIds : e = lastId + 1
    BY <2>1
  <2>3. rows'[e] = PendingEvent(u, t, "messageOnly")
    BY <2>1, <2>2, SteadyTypes
  <2>4. rows'[e].user = u /\ rows'[e].status = "PENDING"
    BY <2>3 DEF PendingEvent
  <2> QED BY <2>4 DEF HasNext, Open
<1> QED BY <1>1, <1>4, <1>5 DEF CreateFollower, UserExists, PendingEvent, IdempotencyKey

\* A row of u' is one of u's, or just born.
LEMMA RowsOfUser ==
  ASSUME Steady, NEW e \in EventIds
  PROVE  rows'[e].user = rows[e].user \/ RowBorn(e)
BY StepCourse DEF Course, RowClaimed, RowSettled, RowMoved, RowGone, DatesStay

LEMMA ChainGoesOn ==
  ASSUME Steady, CalendarInv, ScheduleInv, faults'.worker = 0,
         NEW u \in Users, users'[u] = "announced"
  PROVE  HasNext(u)'
<1>1. CASE \E e \in EventIds : RowBorn(e) /\ rows'[e].user = u
  BY <1>1 DEF RowBorn, PendingEvent, HasNext, Open
<1>2. CASE \A e \in EventIds : rows'[e].user # u
  BY <1>2 DEF HasNext
<1>3. CASE /\ \E e \in EventIds : rows[e].user = u
           /\ users[u] = "announced"
           /\ \A f \in EventIds : rows'[f].user = u => rows[f].user = u
  <2>1. HasNext(u)
    BY <1>3, StillNoFault DEF ScheduleInv, ChainsGoOn
  <2>2. ASSUME NEW e \in EventIds, rows[e].user = u, Open(e) PROVE HasNext(u)'
    <3>1. CASE rows'[e].status = "COMPLETED"
      <4>1. rows[e].status = "PROCESSING"
        BY <2>2, <3>1, StepCourse DEF Course, Open, RowBorn, RowClaimed, RowSettled, RowMoved, RowGone
      <4> QED BY <1>3, <2>2, <3>1, <4>1, CompleterCreates DEF ScheduleInv, HasNext, Creating
    <3>2. CASE rows'[e].user = u /\ rows'[e].status \in {"PENDING", "PROCESSING"}
      BY <3>2 DEF HasNext, Open
    <3>3. CASE rows'[e].user = u /\ rows'[e].status = "FAILED"
      <4>1. IsLastOf(e, u)
        <5>1. \A f \in EventIds : rows[f].user = u => rows[f].status # "NONE"
          BY SteadyTypes DEF Steady, HistoryKept
        <5> QED BY <2>2, <5>1 DEF Steady, HistoryKept, IsNewest, IsLastOf
      <4>2. IsLastOf(e, u)'
        BY <1>3, <4>1 DEF IsLastOf
      <4> QED BY <3>3, <4>2 DEF HasNext, EndsChain
    <3> QED BY <2>2, <3>1, <3>2, <3>3, StepCourse
            DEF Course, Open, RowBorn, RowClaimed, RowSettled, RowMoved, RowGone, DatesStay, Settled
  <2>3. ASSUME NEW w \in Workers, Creating(w), worker[w].ev.user = u PROVE HasNext(u)'
    <3>1. CASE worker'[w] = worker[w]
      BY <2>3, <3>1 DEF HasNext, Creating
    <3>2. CASE FollowUp(w)
      BY <1>3, <2>3, <3>2, FollowUpSchedules DEF ScheduleInv
    <3> QED BY <2>3, <3>1, <3>2, StillNoFault, CreatorGoesOn
  <2>4. ASSUME NEW e \in EventIds, rows[e].user = u, EndsChain(e), IsLastOf(e, u)
        PROVE  HasNext(u)'
    <3>1. rows'[e] = rows[e]
      BY <1>3, <2>4, StepCourse
         DEF EndsChain, Course, RowBorn, RowClaimed, RowSettled, RowMoved, RowGone, Settled
    <3>2. EndsChain(e)'
      <4>1. CASE rows[e].status = "FAILED"
        BY <3>1, <4>1 DEF EndsChain
      <4>2. CASE \E g \in EventIds : /\ rows[g].user = u
                                     /\ rows[g].key[2] \in NextOccurrences(rows[e].local)
        <5>1. PICK g \in EventIds : rows[g].user = u /\ rows[g].key[2] \in NextOccurrences(rows[e].local)
          BY <4>2
        <5>2. rows[g].status # "NONE"
          BY <5>1, SteadyTypes DEF Steady, HistoryKept
        <5>3. rows'[g].user = u /\ rows'[g].key = rows[g].key
          BY <5>1, <5>2, DatesOfRows
        <5>4. rows'[g].user = rows'[e].user /\ rows'[g].key[2] \in NextOccurrences(rows'[e].local)
          BY <2>4, <3>1, <5>1, <5>3
        <5> QED BY <2>4, <3>1, <5>4 DEF EndsChain, NextOccurrences
      <4> QED BY <2>4, <4>1, <4>2 DEF EndsChain
    <3>3. IsLastOf(e, u)'
      BY <1>3, <2>4 DEF IsLastOf
    <3> QED BY <2>4, <3>1, <3>2, <3>3 DEF HasNext
  <2> QED BY <1>3, <2>1, <2>2, <2>3, <2>4 DEF HasNext
<1>4. (\E e \in EventIds : rows[e].user = u) => users[u] = "announced"
  <2> SUFFICES ASSUME NEW e \in EventIds, rows[e].user = u PROVE users[u] = "announced"
    OBVIOUS
  <2>1. users[u] \in {"announced", "deleted"}
    BY SteadyTypes DEF Steady, HistoryKept, OneAtATime
  <2> QED BY <2>1, DeletedStays
<1> QED BY <1>1, <1>2, <1>3, <1>4, RowsOfUser

LEMMA ScheduleStep ==
  ASSUME Steady, CalendarInv, ScheduleInv
  PROVE  ScheduleInv'
<1>1. KeysNameUsers' /\ NotFoundIsDeleted'
  BY KeysKeepUsers, NotFoundStaysDeleted DEF ScheduleInv
<1>2. ChainsGoOn'
  BY ChainGoesOn DEF ChainsGoOn
<1> QED BY <1>1, <1>2 DEF ScheduleInv

LEMMA ScheduleInvariance == SystemSpec => []((RefinementInv /\ CalendarInv) /\ ScheduleInv)
<1>1. SystemInit => ScheduleInv
  <2> SUFFICES ASSUME SystemInit PROVE ScheduleInv
    OBVIOUS
  <2>1. /\ \A e \in EventIds : rows[e].status = "NONE"
        /\ \A w \in Workers : worker[w].pc = "idle"
        /\ \A u \in Users : users[u] = "absent"
    BY DEF SystemInit, Init, DatabaseInit, NoEvent, WorkerInit, IdleWorker
  <2> QED BY <2>1 DEF ScheduleInv, KeysNameUsers, NotFoundIsDeleted, ChainsGoOn
<1>2. (RefinementInv /\ CalendarInv) /\ ScheduleInv /\ [SystemNext]_systemVars => ScheduleInv'
  BY SteadyStep, ScheduleStep
<1> QED BY <1>1, <1>2, CalendarInvariance, PTL DEF SystemSpec

\* As long as no worker fails, a registered user has a next birthday scheduled or in
\* progress, for any number of users, requests and processes; the chain ends only
\* where the first event was never created, or with a newest event whose delivery failed
\* for good or whose follower's key may be one that a moved event has kept.
THEOREM NobodyIsForgotten == SystemSpec => [](faults.worker = 0 => EveryoneIsScheduled)
<1>1. ScheduleInv => (faults.worker = 0 => EveryoneIsScheduled)
  BY DEF ScheduleInv, ChainsGoOn, HasNext, IsLastOf, EveryoneIsScheduled, Creating, Open
<1> QED BY <1>1, ScheduleInvariance, PTL

-----------------------------------------------------------------------------
(***************************************************************************)
(* The invariant behind WaitsForBirthday, for a user whose updates did not *)
(* race and did not fail.  A waiting event is at its user's birthday or an *)
(* update is on its way: it has not read the event yet, holds a copy of    *)
(* its present version, or has moved it to the birthday it has written.    *)
(***************************************************************************)
\* An event is at the birthday of profile p; what its row keeps as the local time is
\* the instant itself or that instant on the clock of p's zone.
Fits(ev, p) ==
  /\ (ev.target - p.zone) % Year = p.birthday
  /\ ev.target = ev.local \/ ev.target = ev.local + p.zone

\* What r has made of an event fits, and so will what it makes of the copies left.
CopiesFit(r) ==
  request[r].pc = "store" =>
    /\ Fits(request[r].ev, request[r].new)
    /\ request[r].topic = "zone" =>
         \A c \in request[r].todo : c[2].local % Year = request[r].new.birthday

\* No one else moves the events of r's user, who is as r has written it.
InTouch(r) ==
  /\ request[r].new = profile[request[r].user]
  /\ ~LosesWallClock(request[r])
  /\ request[r].topic = "zone" => request[r].new.zone # request[r].old.zone
  /\ ~request[r].moved => request[r].topic = "zone"
  /\ \A q \in Requests : Reschedules(q, request[r].user) => q = r
  /\ CopiesFit(r)

RequestKnowsUser(r) ==
  /\ request[r].pc # "idle" =>
       /\ users[request[r].user] \in {"announced", "deleted"}
       /\ ~request[r].moved => request[r].new.birthday = request[r].old.birthday
  /\ request[r].user \notin disturbed /\ request[r].pc \in {"find", "store"} => InTouch(r)

Waits(e) == rows[e].status = "PENDING" /\ rows[e].user \notin disturbed

FitsOrMoves(e) ==
  Waits(e) => \/ Fits(rows[e], profile[rows[e].user])
              \/ \E r \in Requests : Reschedules(r, rows[e].user)

\* Request r will come to a waiting event of its user, or has been there.
InOrder(r, e) ==
  Waits(e) /\ Reschedules(r, rows[e].user) =>
    /\ request[r].pc = "find" /\ request[r].topic = "zone" =>
         rows[e].local % Year = request[r].new.birthday
    /\ request[r].pc = "store" =>
         \/ Fits(rows[e], request[r].new)
         \/ e = request[r].id /\ rows[e].version = request[r].ev.version - 1
         \/ \E c \in request[r].todo : c[1] = e /\ c[2] = rows[e]

\* A request handles the events of its user only, and holds copies only while it does.
OwnCopies(r) ==
  /\ request[r].pc # "store" => request[r].todo = {}
  /\ \A c \in request[r].todo : rows[c[1]].user = request[r].user
  /\ request[r].pc = "store" => rows[request[r].id].user = request[r].user

WaitInv ==
  /\ \A r \in Requests : RequestKnowsUser(r) /\ OwnCopies(r)
  /\ \A e \in EventIds : FitsOrMoves(e)
  /\ \A e \in EventIds, r \in Requests : InOrder(r, e)

-----------------------------------------------------------------------------
LEMMA ModUnique ==
  ASSUME NEW y \in Nat \ {0}, NEW b \in 0 .. y - 1, NEW k \in Int
  PROVE  (b + y * k) % y = b
<1> DEFINE x == b + y * k
           m == x % y
           q == x \div y
<1>1. x \in Int /\ m \in 0 .. y - 1 /\ q \in Int /\ x = y * q + m
  OBVIOUS
<1> HIDE DEF m, q
<1>2. PICK j \in Int : j = k - q
  BY <1>1
<1>3. y * j = m - b
  BY <1>1, <1>2
<1>4. (j >= 1 => y * j >= y) /\ (j <= -1 => y * j <= -y)
  OBVIOUS
<1>5. j = 0
  BY <1>1, <1>2, <1>3, <1>4
<1>6. m = b
  BY <1>1, <1>3, <1>5
<1> QED BY <1>6 DEF m

\* The next occurrence after any time is a birthday.
LEMMA OccurrenceFits ==
  ASSUME NEW p \in Profiles, NEW t \in Int
  PROVE  (Occurrence(p, t) - p.zone) % Year = p.birthday
<1> DEFINE y == Year
           z == p.zone
           b == p.birthday
           x == t - z - b
           q == x \div y
           m == x % y
<1>1. y \in Nat \ {0} /\ b \in 0 .. y - 1 /\ z \in Int
  <2>1. p.birthday \in 0 .. Year - 1 /\ p.zone \in Zones
    BY DEF Profiles
  <2>2. p.zone \in Int
    BY <2>1, UpdateAssumption
  <2>3. Year \in Nat \ {0} /\ p.birthday \in 0 .. Year - 1
    BY <2>1, YearAssumption
  <2> QED BY <2>2, <2>3
<1>2. Occurrence(p, t) = t + y - m
  BY DEF Occurrence
<1> HIDE DEF y, z, b
<1>3. x \in Int /\ q \in Int /\ m \in Int /\ x = y * q + m
  BY <1>1
<1> HIDE DEF q, m
<1>4. t + y - m - z = b + y * (1 + q)
  BY <1>1, <1>3
<1>5. (b + y * (1 + q)) % y = b
  <2>1. 1 + q \in Int
    BY <1>3
  <2> QED BY <1>1, <2>1, ModUnique
<1>6. (Occurrence(p, t) - z) % y = b
  <2>1. Occurrence(p, t) - z = b + y * (1 + q)
    BY <1>1, <1>2, <1>3, <1>4
  <2> QED BY <1>5, <2>1
<1> QED BY <1>6 DEF y, z, b

\* Moved to the new birthday, or with its clock to the new zone, an event fits.
LEMMA RescheduledFits ==
  ASSUME NEW req \in Request, NEW ev \in Event, now \in Nat,
         req.topic = "zone" => ev.local % Year = req.new.birthday
  PROVE  Fits(Rescheduled(req, ev), req.new)
<1> DEFINE p == req.new
<1>1. p \in Profiles /\ ev.local \in Int /\ ev.version \in Nat
  BY DEF Request, Event
<1>2. p.zone \in Int
  BY <1>1, UpdateAssumption DEF Profiles
<1>3. CASE req.topic = "birthday"
  <2> DEFINE t == Occurrence(p, now)
             new == Rescheduled(req, ev)
  <2>1. new = [ev EXCEPT !.target = t, !.local = t, !.version = ev.version + 1]
    BY <1>3, Zenon DEF Rescheduled, RescheduledToBirthday, reschedule
  <2>2. new.target = t /\ new.local = t
    BY <2>1 DEF Event
  <2>3. (t - p.zone) % Year = p.birthday
    BY <1>1, OccurrenceFits
  <2> QED BY <2>2, <2>3 DEF Fits
<1>4. CASE req.topic # "birthday"
  <2> DEFINE new == Rescheduled(req, ev)
  <2>1. new = [ev EXCEPT !.target = ev.local - UTC + p.zone, !.local = ev.local, !.version = ev.version + 1]
    BY <1>4, Zenon DEF Rescheduled, RescheduledToZone, reschedule, convertToUTC, targetTimestampLocal,
                       toWallClock
  <2>2. new.target = ev.local - UTC + p.zone /\ new.local = ev.local
    BY <2>1 DEF Event
  <2>3. new.target = ev.local + p.zone /\ new.target - p.zone = ev.local
    BY <1>1, <1>2, <2>2 DEF UTC
  <2>4. req.topic = "zone"
    BY <1>4 DEF Request
  <2> QED BY <2>2, <2>3, <2>4 DEF Fits
<1> QED BY <1>3, <1>4

\* Where the stored local time is in UTC it shows the birthday.
LEMMA FitsInUTC ==
  ASSUME NEW p \in Profiles, NEW ev \in Event, Fits(ev, p), p.zone = UTC
  PROVE  ev.local % Year = p.birthday
<1>1. ev.local \in Int /\ ev.target \in Int
  BY DEF Event
<1>2. ev.target = ev.local /\ ev.target - p.zone = ev.local
  BY <1>1 DEF Fits, UTC
<1> QED BY <1>2 DEF Fits

-----------------------------------------------------------------------------
LEMMA DisturbedGrows ==
  ASSUME Steady
  PROVE  disturbed \subseteq disturbed'
BY DEF Steady, SystemNext, Registration, UpdateRuns, UpdateFails, Pipeline, WorkerGoesOn, FollowUp, systemVars

\* Where the first handler of an update starts, and where the second one does.
LEMMA FirstTopicComes ==
  ASSUME NEW req \in Request, NEW next, next = FirstTopic(req), next.pc # "idle"
  PROVE  /\ next.pc = "find" /\ next.user = req.user /\ next.old = req.old /\ next.new = req.new
         /\ next.moved = req.moved /\ next.todo = req.todo
         /\ next.topic \in {"birthday", "zone"}
         /\ next.topic = "zone" => ~req.moved /\ req.new.zone # req.old.zone
         /\ ~req.moved => next.topic = "zone"
<1>1. CASE req.moved
  <2>1. next = [req EXCEPT !.pc = "find", !.topic = "birthday"]
    BY <1>1 DEF FirstTopic
  <2> QED BY <1>1, <2>1 DEF Request
<1>2. CASE ~req.moved /\ req.new.zone # req.old.zone
  <2>1. next = [req EXCEPT !.pc = "find", !.topic = "zone"]
    BY <1>2 DEF FirstTopic
  <2> QED BY <1>2, <2>1 DEF Request
<1>3. CASE ~req.moved /\ req.new.zone = req.old.zone
  <2>1. next = IdleRequest
    BY <1>3 DEF FirstTopic
  <2> QED BY <2>1 DEF IdleRequest
<1>4. req.moved \in BOOLEAN
  BY DEF Request
<1> QED BY <1>1, <1>2, <1>3, <1>4

LEMMA NextTopicComes ==
  ASSUME NEW req \in Request, NEW next, next = NextTopic(req), next.pc # "idle"
  PROVE  /\ next.pc = "find" /\ next.user = req.user /\ next.old = req.old /\ next.new = req.new
         /\ next.moved = req.moved /\ next.todo = {} /\ next.topic = "zone"
         /\ req.topic = "birthday" /\ req.new.zone # req.old.zone
<1>1. req.topic = "birthday" /\ req.new.zone # req.old.zone
      /\ next = [req EXCEPT !.pc = "find", !.topic = "zone", !.id = 0, !.ev = NoEvent, !.todo = {}]
  BY Zenon DEF NextTopic, IdleRequest
<1> QED BY <1>1 DEF Request

LEMMA UsersRemain ==
  ASSUME Steady, NEW u \in Users, users[u] \in {"announced", "deleted"}
  PROVE  users'[u] \in {"announced", "deleted"}
<1>1. CASE \E v \in Users : Registration(v)
  BY <1>1, SteadyTypes DEF Registration, CreateUser, CreateBirthdayEventAt, CreateBirthdayEventFails,
                           DeleteUser, UserExists
<1> QED BY <1>1, UsersOnlyRegister

\* Only an update changes the profile of a user who is registered.
LEMMA ProfilesMove ==
  ASSUME Steady, NEW u \in Users, users[u] # "absent"
  PROVE  \/ profile'[u] = profile[u]
         \/ \E r \in Requests : WritesUser(r) /\ request[r].user = u /\ profile'[u] = request[r].new
<1>1. profile \in [Users -> Profiles]
  BY SteadyTypes
<1>2. CASE \E v \in Users : Registration(v)
  BY <1>1, <1>2 DEF Registration, CreateUser
<1>3. CASE \E r \in Requests : WritesUser(r)
  BY <1>1, <1>3 DEF WritesUser, WriteUser
<1>4. CASE UNCHANGED profile
  BY <1>4
<1>5. ASSUME NEW r \in Requests, UpdateRuns(r) \/ UpdateFails(r) PROVE UNCHANGED profile \/ WritesUser(r)
  BY <1>5 DEF UpdateRuns, UpdateFails, WritesUser, ReadUser, FindPending, StoreRescheduled,
              RescheduleFails, UpdateStops
<1> QED BY <1>2, <1>3, <1>4, <1>5 DEF Steady, SystemNext, Pipeline, updateVars, systemVars

\* Who writes a user who stays undisturbed has read the user as it is, and no one else
\* is to move the user's events.
LEMMA WritesAlone ==
  ASSUME NEW r \in Requests, WritesUser(r), request[r].user \notin disturbed'
  PROVE  /\ request[r].pc = "write" /\ ~LosesWallClock(request[r])
         /\ request[r].old = profile[request[r].user]
         /\ \A q \in Requests \ {r} : ~Reschedules(q, request[r].user)
BY DEF WritesUser, WriteUser, Races

\* A request comes to work on u by writing u.
LEMMA WorkBegins ==
  ASSUME Steady, NEW q \in Requests, NEW u \in Users, request'[q].pc \in {"find", "store"},
         request'[q].user = u
  PROVE  Reschedules(q, u) \/ (WritesUser(q) /\ request[q].user = u)
<1>1. request[q] \in Request /\ now \in Nat /\ rows \in [EventIds -> Event]
      /\ request[q].todo \in SUBSET (EventIds \X Event)
  BY SteadyTypes DEF Request
<1> HIDE DEF Request
<1>2. CASE request'[q] = request[q]
  BY <1>2 DEF Reschedules
<1>3. CASE RequestBegins(q)
  <2>1. request'[q].pc = "write"
    BY <1>1, <1>3 DEF RequestBegins, Request
  <2> QED BY <2>1
<1>4. CASE WritesUser(q) /\ request'[q] \in {FirstTopic(request[q]), IdleRequest}
  BY <1>1, <1>4, FirstTopicComes DEF IdleRequest
<1>5. CASE request[q].pc \in {"find", "store"} /\ request'[q] = NextTopic(request[q])
  BY <1>1, <1>5, NextTopicComes DEF Reschedules
<1>6. ASSUME NEW read \in SUBSET (EventIds \X Event), request'[q] \in NextEvents(request[q], read),
             request[q].pc \in {"find", "store"}
      PROVE  Reschedules(q, u)
  <2>1. request'[q].user = request[q].user
    BY <1>1, <1>6, NextEventsTake, NextTopicComes
  <2> QED BY <1>6, <2>1 DEF Reschedules
<1>7. PendingOf(request[q].user) \in SUBSET (EventIds \X Event)
  BY <1>1 DEF PendingOf
<1> QED BY <1>1, <1>2, <1>3, <1>4, <1>5, <1>6, <1>7, RequestsCome
        DEF RequestComes, FindPending, StoreRescheduled, IdleRequest

-----------------------------------------------------------------------------
\* While r works on u, no one else comes to.
LEMMA StaysAlone ==
  ASSUME Steady, WaitInv, NEW r \in Requests, NEW u \in Users, Reschedules(r, u), u \notin disturbed'
  PROVE  /\ profile'[u] = profile[u]
         /\ \A q \in Requests : request'[q].pc \in {"find", "store"} /\ request'[q].user = u => q = r
<1>1. /\ users[u] \in {"announced", "deleted"} /\ u \notin disturbed
      /\ \A q \in Requests : Reschedules(q, u) => q = r
  BY DisturbedGrows DEF WaitInv, RequestKnowsUser, Reschedules, InTouch
<1>2. ASSUME NEW q \in Requests, WritesUser(q), request[q].user = u PROVE FALSE
  BY <1>2, WritesAlone DEF Reschedules
<1>3. profile'[u] = profile[u]
  BY <1>1, <1>2, ProfilesMove
<1> QED BY <1>1, <1>2, <1>3, WorkBegins

\* What r takes up next fits its user.
LEMMA TakenFits ==
  ASSUME Steady, NEW r \in Requests, NEW read \in SUBSET (EventIds \X Event),
         request'[r] \in NextEvents(request[r], read), request'[r].pc # "idle",
         request[r].topic = "zone" => \A c \in read : c[2].local % Year = request[r].new.birthday
  PROVE  /\ request'[r].old = request[r].old /\ request'[r].new = request[r].new
         /\ request'[r].user = request[r].user /\ request'[r].moved = request[r].moved
         /\ \/ request'[r].topic = request[r].topic
            \/ request'[r].topic = "zone" /\ request[r].new.zone # request[r].old.zone
         /\ CopiesFit(r)'
<1>1. request[r] \in Request /\ now \in Nat
  BY SteadyTypes
<1> HIDE DEF Request
<1>2. CASE request'[r] = NextTopic(request[r])
  BY <1>1, <1>2, NextTopicComes DEF CopiesFit
<1>3. ASSUME NEW c \in read, request'[r].ev = Rescheduled(request[r], c[2]), request'[r].todo = read \ {c},
             request'[r].new = request[r].new, request'[r].topic = request[r].topic
      PROVE  CopiesFit(r)'
  <2>1. Fits(Rescheduled(request[r], c[2]), request[r].new)
    BY <1>1, RescheduledFits
  <2>2. Fits(request'[r].ev, request'[r].new)
    BY <1>3, <2>1
  <2>3. request'[r].topic = "zone" => \A d \in request'[r].todo : d[2].local % Year = request'[r].new.birthday
    BY <1>3
  <2> QED BY <2>2, <2>3 DEF CopiesFit, Fits
<1> QED BY <1>1, <1>2, <1>3, NextEventsTake

\* The rows that r finds are those it was told of.
LEMMA FoundInOrder ==
  ASSUME Steady, WaitInv, NEW r \in Requests, request[r].pc = "find", request[r].user \notin disturbed,
         request[r].topic = "zone", NEW c \in PendingOf(request[r].user)
  PROVE  c[2].local % Year = request[r].new.birthday
<1>1. PICK e \in EventIds : c = <<e, rows[e]>> /\ rows[e].user = request[r].user /\ rows[e].status = "PENDING"
  BY DEF PendingOf, CanReschedule
<1>2. InOrder(r, e) /\ Waits(e) /\ Reschedules(r, rows[e].user)
  BY <1>1 DEF WaitInv, Waits, Reschedules
<1> QED BY <1>1, <1>2 DEF InOrder

LEMMA StaysInTouch ==
  ASSUME Steady, WaitInv, NEW r \in Requests, request'[r].pc \in {"find", "store"},
         request'[r].user \notin disturbed'
  PROVE  InTouch(r)'
<1>1. /\ request[r] \in Request /\ request[r].todo \in SUBSET (EventIds \X Event) /\ request[r].moved \in BOOLEAN
      /\ rows \in [EventIds -> Event] /\ now \in Nat /\ profile \in [Users -> Profiles]
  BY SteadyTypes DEF Request
<1> HIDE DEF Request
<1>2. PICK u \in Users : u = request'[r].user
  BY DEF Steady, Moved, ActorsHaveUsers
<1>3. u \notin disturbed
  BY <1>2, DisturbedGrows
<1>4. CASE Reschedules(r, u)
  <2>1. InTouch(r)
    BY <1>3, <1>4 DEF WaitInv, RequestKnowsUser, Reschedules
  <2>2. /\ profile'[u] = profile[u]
        /\ \A q \in Requests : request'[q].pc \in {"find", "store"} /\ request'[q].user = u => q = r
    BY <1>2, <1>4, StaysAlone
  <2>3. ASSUME /\ request'[r].old = request[r].old /\ request'[r].new = request[r].new
               /\ request'[r].moved = request[r].moved
               /\ \/ request'[r].topic = request[r].topic
                  \/ request'[r].topic = "zone" /\ request[r].new.zone # request[r].old.zone
               /\ CopiesFit(r)'
        PROVE  InTouch(r)'
    <3>1. request'[r].new = profile'[request'[r].user]
      BY <1>2, <1>4, <2>1, <2>2, <2>3 DEF InTouch, Reschedules
    <3>2. ~LosesWallClock(request[r])'
      BY <2>1, <2>3 DEF InTouch, LosesWallClock
    <3>3. /\ request'[r].topic = "zone" => request'[r].new.zone # request'[r].old.zone
          /\ ~request'[r].moved => request'[r].topic = "zone"
      BY <2>1, <2>3 DEF InTouch
    <3> QED BY <1>2, <2>2, <2>3, <3>1, <3>2, <3>3 DEF InTouch, Reschedules
  <2>4. CASE request'[r] = request[r]
    <3>1. CopiesFit(r)'
      BY <2>1, <2>4 DEF InTouch, CopiesFit, Fits
    <3> QED BY <2>3, <2>4, <3>1
  <2>5. CASE FindPending(r) /\ request'[r] \in NextEvents(request[r], PendingOf(request[r].user))
    <3>1. PendingOf(request[r].user) \in SUBSET (EventIds \X Event)
      BY <1>1 DEF PendingOf
    <3>2. request[r].topic = "zone" =>
            \A c \in PendingOf(request[r].user) : c[2].local % Year = request[r].new.birthday
      BY <1>3, <1>4, <2>5, FoundInOrder DEF Reschedules, FindPending
    <3> QED BY <2>3, <2>5, <3>1, <3>2, TakenFits
  <2>6. CASE StoreRescheduled(r) /\ request'[r] \in NextEvents(request[r], request[r].todo)
    <3>1. request[r].topic = "zone" => \A c \in request[r].todo : c[2].local % Year = request[r].new.birthday
      BY <2>1, <2>6 DEF InTouch, CopiesFit, StoreRescheduled
    <3> QED BY <1>1, <2>3, <2>6, <3>1, TakenFits
  <2>7. ~RequestBegins(r) /\ ~WritesUser(r) /\ ~UpdateFails(r) /\ request'[r] # IdleRequest
    <3>1. ~WritesUser(r) /\ request'[r] # IdleRequest
      BY <1>4 DEF Reschedules, WritesUser, WriteUser, IdleRequest
    <3>2. ~UpdateFails(r)
      BY <1>2, <1>4 DEF Reschedules, UpdateFails
    <3>3. ~RequestBegins(r)
      BY <1>1 DEF RequestBegins, Request
    <3> QED BY <3>1, <3>2, <3>3
  <2> QED BY <2>4, <2>5, <2>6, <2>7, RequestsCome DEF RequestComes
<1>5. CASE WritesUser(r) /\ request[r].user = u
  <2>1. WritesUser(r) /\ request[r].user \notin disturbed' /\ request[r].pc = "write"
    BY <1>2, <1>5 DEF WritesUser, WriteUser
  <2>2. /\ request'[r] = FirstTopic(request[r]) /\ profile'[u] = request[r].new
    <3>1. request'[r] # IdleRequest
      BY DEF IdleRequest
    <3>2. UserExists(u) /\ request' = [request EXCEPT ![r] = FirstTopic(request[r])]
                        /\ profile' = [profile EXCEPT ![u] = request[r].new]
      BY <1>5, <3>1, SteadyTypes DEF WritesUser, WriteUser
    <3> QED BY <1>1, <3>2, SteadyTypes
  <2>3. ~LosesWallClock(request[r])'
    BY <1>1, <2>1, <2>2, WritesAlone, FirstTopicComes DEF LosesWallClock
  <2>4. \A q \in Requests : request'[q].pc \in {"find", "store"} /\ request'[q].user = u => q = r
    <3> SUFFICES ASSUME NEW q \in Requests, request'[q].pc \in {"find", "store"}, request'[q].user = u, q # r
                 PROVE  FALSE
      OBVIOUS
    <3>1. ~Reschedules(q, u)
      BY <1>5, <2>1, WritesAlone
    <3>2. request[q].pc = "write"
      BY <1>2, <3>1, WorkBegins DEF WritesUser, WriteUser
    <3>3. request'[q] = request[q]
      BY <1>5, SteadyTypes DEF WritesUser, WriteUser
    <3> QED BY <3>2, <3>3
  <2> QED BY <1>1, <1>2, <2>2, <2>3, <2>4, FirstTopicComes DEF InTouch, CopiesFit, Reschedules
<1> QED BY <1>2, <1>4, <1>5, WorkBegins

LEMMA RequestStillKnows ==
  ASSUME Steady, WaitInv, NEW r \in Requests
  PROVE  RequestKnowsUser(r)'
<1>1. /\ request[r] \in Request /\ request[r].todo \in SUBSET (EventIds \X Event)
      /\ rows \in [EventIds -> Event] /\ now \in Nat /\ profile \in [Users -> Profiles]
  BY SteadyTypes DEF Request
<1> HIDE DEF Request
<1>2. PendingOf(request[r].user) \in SUBSET (EventIds \X Event)
  BY <1>1 DEF PendingOf
<1>3. ASSUME request'[r].pc # "idle", ~RequestBegins(r)
      PROVE  /\ request'[r].user = request[r].user /\ request'[r].moved = request[r].moved
             /\ request'[r].new = request[r].new /\ request'[r].old = request[r].old
             /\ request[r].pc # "idle"
  <2>1. CASE request'[r] = request[r]
    BY <1>3, <2>1
  <2>2. CASE WritesUser(r) /\ request'[r] = FirstTopic(request[r])
    BY <1>1, <1>3, <2>2, FirstTopicComes DEF WritesUser, WriteUser
  <2>3. CASE request[r].pc \in {"find", "store"} /\ request'[r] = NextTopic(request[r])
    BY <1>1, <1>3, <2>3, NextTopicComes
  <2>4. ASSUME NEW read \in SUBSET (EventIds \X Event), request'[r] \in NextEvents(request[r], read),
               request[r].pc \in {"find", "store"}
        PROVE  /\ request'[r].user = request[r].user /\ request'[r].moved = request[r].moved
               /\ request'[r].new = request[r].new /\ request'[r].old = request[r].old
    BY <1>1, <1>3, <2>4, NextEventsTake, NextTopicComes
  <2>5. request'[r] # IdleRequest
    BY <1>3 DEF IdleRequest
  <2>6. FindPending(r) \/ StoreRescheduled(r) => request[r].pc \in {"find", "store"}
    BY DEF FindPending, StoreRescheduled
  <2> QED BY <1>1, <1>2, <1>3, <2>1, <2>2, <2>3, <2>4, <2>5, <2>6, RequestsCome DEF RequestComes
<1>4. ASSUME RequestBegins(r)
      PROVE  /\ request'[r].pc = "write" /\ request'[r].user \in Users
             /\ users[request'[r].user] = "announced"
             /\ ~request'[r].moved => request'[r].new.birthday = request'[r].old.birthday
  <2>1. PICK u \in Users, new \in Profiles, moved \in BOOLEAN :
          /\ users[u] = "announced"
          /\ new.birthday # profile[u].birthday => moved
          /\ request'[r] = [request[r] EXCEPT !.pc = "write", !.user = u, !.old = profile[u],
                                              !.new = new, !.moved = moved]
    BY <1>4, Zenon DEF RequestBegins
  <2>2. /\ request'[r].pc = "write" /\ request'[r].user = u /\ request'[r].old = profile[u]
        /\ request'[r].new = new /\ request'[r].moved = moved
    BY <1>1, <2>1 DEF Request
  <2> QED BY <2>1, <2>2
<1>5. ASSUME request'[r].pc # "idle"
      PROVE  /\ users'[request'[r].user] \in {"announced", "deleted"}
             /\ ~request'[r].moved => request'[r].new.birthday = request'[r].old.birthday
  <2>1. CASE RequestBegins(r)
    BY <1>4, <2>1, UsersRemain
  <2>2. CASE ~RequestBegins(r)
    BY <1>3, <1>5, <2>2, UsersRemain DEF WaitInv, RequestKnowsUser, Steady, Moved, FrozenInv, ActorsHaveUsers
  <2> QED BY <2>1, <2>2
<1> QED BY <1>5, StaysInTouch DEF RequestKnowsUser

-----------------------------------------------------------------------------
LEMMA WaitingCourse ==
  ASSUME Steady, NEW e \in EventIds, rows'[e].status = "PENDING"
  PROVE  rows'[e] = rows[e] \/ RowBorn(e) \/ \E r \in Requests : RowMoved(r, e)
BY StepCourse DEF Course, RowClaimed, RowSettled, RowGone, Settled

\* An event is born at its user's birthday, and not while the event's zone is about to
\* be changed.
LEMMA BornFits ==
  ASSUME Steady, WaitInv, NEW e \in EventIds, RowBorn(e), rows'[e].user \notin disturbed'
  PROVE  /\ Fits(rows'[e], profile'[rows'[e].user])
         /\ \A r \in Requests : Reschedules(r, rows'[e].user) => request[r].topic = "birthday"
<1>1. PICK u \in Users, t \in Int, payload \in Payloads :
        /\ rows'[e] = PendingEvent(u, t, payload) /\ UNCHANGED profile /\ BornOf(u, t)
  BY DEF RowBorn
<1>2. rows'[e].user = u /\ rows'[e].target = t /\ rows'[e].local = t /\ u \notin disturbed
  BY <1>1, DisturbedGrows DEF PendingEvent
<1>3. profile[u] \in Profiles /\ now \in Nat
  BY SteadyTypes
<1>4. CASE users[u] = "saved" /\ t = Occurrence(profile[u], now)
  <2>1. (t - profile[u].zone) % Year = profile[u].birthday
    BY <1>3, <1>4, OccurrenceFits
  <2>2. \A r \in Requests : ~Reschedules(r, u)
    BY <1>4 DEF WaitInv, RequestKnowsUser, Reschedules
  <2> QED BY <1>1, <1>2, <2>1, <2>2 DEF Fits
<1>5. CASE \E w \in Workers : /\ FollowUp(w) /\ Creating(w) /\ worker[w].ev.user = u
                              /\ t = Occurrence(celebrant[w], worker[w].ev.local)
  <2>1. PICK w \in Workers : /\ FollowUp(w) /\ Creating(w) /\ worker[w].ev.user = u
                             /\ t = Occurrence(celebrant[w], worker[w].ev.local)
    BY <1>5
  <2>2. celebrant[w] = profile[u]
    BY <1>2, <2>1 DEF FollowUp
  <2>3. worker[w].ev.local \in Int
    <3>1. worker[w].ev \in Event
      BY SteadyTypes
    <3> QED BY <3>1 DEF Event
  <2>4. (t - profile[u].zone) % Year = profile[u].birthday
    BY <1>3, <2>1, <2>2, <2>3, OccurrenceFits
  <2>5. ~ZoneChangePending(u)
    BY <1>2, <2>1 DEF FollowUp
  <2>6. ASSUME NEW r \in Requests, Reschedules(r, u) PROVE request[r].topic = "birthday"
    <3>1. InTouch(r)
      BY <1>2, <2>6 DEF WaitInv, RequestKnowsUser, Reschedules
    <3>2. request[r].topic # "zone"
      BY <2>5, <2>6, <3>1 DEF InTouch, ZoneChangePending, Reschedules
    <3> QED BY <3>2, SteadyTypes DEF Request
  <2> QED BY <1>1, <1>2, <2>4, <2>6 DEF Fits
<1> QED BY <1>1, <1>4, <1>5 DEF BornOf

\* After r has stored a copy, a waiting event of its user fits or its copy is to come.
LEMMA StoredFits ==
  ASSUME Steady, WaitInv, NEW r \in Requests, StoreRescheduled(r), NEW e \in EventIds,
         rows'[e].status = "PENDING", rows'[e].user = request[r].user, request[r].user \notin disturbed
  PROVE  \/ Fits(rows'[e], request[r].new)
         \/ \E c \in request[r].todo : c[1] = e /\ c[2] = rows'[e]
<1>1. Reschedules(r, request[r].user) /\ InTouch(r) /\ Fits(request[r].ev, request[r].new)
  BY DEF StoreRescheduled, Reschedules, WaitInv, RequestKnowsUser, InTouch, CopiesFit
<1>2. request[r] \in Request /\ rows \in [EventIds -> Event] /\ request[r].pc = "store"
  BY SteadyTypes DEF StoreRescheduled
<1> DEFINE i == request[r].id
           ev == request[r].ev
<1>3. CASE e = i /\ UpdateMatches(i, ev)
  <2>1. update(i, ev)
    BY <1>3 DEF StoreRescheduled
  <2> HIDE DEF i, ev
  <2>2. rows'[e] = [rows[e] EXCEPT !.status = ev.status, !.target = ev.target, !.local = ev.local,
                                   !.retryCount = ev.retryCount, !.version = ev.version]
    BY <1>2, <1>3, <2>1, Zenon DEF update
  <2>3. rows[e] \in Event
    BY <1>2
  <2>4. rows'[e].target = ev.target /\ rows'[e].local = ev.local
    BY <2>2, <2>3 DEF Event
  <2>5. Fits(ev, request[r].new)
    BY <1>1 DEF ev
  <2> QED BY <2>4, <2>5 DEF Fits
<1>4. CASE rows'[e] = rows[e] /\ ~(e = i /\ UpdateMatches(i, ev))
  <2>1. Waits(e) /\ InOrder(r, e) /\ Live(e)
    BY <1>4 DEF WaitInv, Waits, Live, EventStatus
  <2>2. ~(e = i /\ rows[e].version = ev.version - 1)
    BY <1>4, <2>1 DEF UpdateMatches
  <2> QED BY <1>1, <1>2, <1>4, <2>1, <2>2 DEF InOrder
<1>5. ~(e = i /\ UpdateMatches(i, ev)) => rows'[e] = rows[e]
  <2> HIDE DEF i, ev
  <2>1. UNCHANGED rows \/ (UpdateMatches(i, ev) /\ update(i, ev))
    BY DEF StoreRescheduled, i, ev
  <2> QED BY <1>2, <2>1, Zenon DEF update
<1> QED BY <1>3, <1>4, <1>5

\* When the first handler leaves the topic of the zone to the second, what fits the new
\* profile shows the birthday in UTC.
LEMMA SecondTopicInOrder ==
  ASSUME Steady, NEW r \in Requests, InTouch(r), request[r].topic = "birthday",
         request[r].new.zone # request[r].old.zone,
         NEW ev \in Event, Fits(ev, request[r].new)
  PROVE  ev.local % Year = request[r].new.birthday
<1>1. request[r].moved /\ request[r].new.zone = UTC
  BY DEF InTouch, LosesWallClock
<1>2. request[r].new \in Profiles
  BY SteadyTypes DEF Request
<1> QED BY <1>1, <1>2, FitsInUTC

LEMMA OrderStays ==
  ASSUME Steady, WaitInv, NEW e \in EventIds, NEW r \in Requests
  PROVE  InOrder(r, e)'
<1> SUFFICES ASSUME rows'[e].status = "PENDING", rows'[e].user \notin disturbed',
                    request'[r].pc \in {"find", "store"}, request'[r].user = rows'[e].user
             PROVE  /\ request'[r].pc = "find" /\ request'[r].topic = "zone" =>
                         rows'[e].local % Year = request'[r].new.birthday
                    /\ request'[r].pc = "store" =>
                         \/ Fits(rows'[e], request'[r].new)
                         \/ e = request'[r].id /\ rows'[e].version = request'[r].ev.version - 1
                         \/ \E c \in request'[r].todo : c[1] = e /\ c[2] = rows'[e]
  BY DEF InOrder, Waits, Reschedules, Fits
<1>1. /\ request[r] \in Request /\ request[r].todo \in SUBSET (EventIds \X Event)
      /\ rows \in [EventIds -> Event] /\ rows' \in [EventIds -> Event] /\ now \in Nat
      /\ request[r].moved \in BOOLEAN /\ request[r].topic \in {"birthday", "zone"}
      /\ request[r].new \in Profiles /\ request[r].old \in Profiles
  BY SteadyTypes DEF Request
<1> HIDE DEF Request
<1>2. PICK u \in Users : u = rows'[e].user /\ u = request'[r].user
  BY DEF Steady, Moved, ActorsHaveUsers
<1>3. u \notin disturbed /\ u \notin disturbed'
  BY <1>2, DisturbedGrows
<1>4. CASE WritesUser(r) /\ request[r].user = u
  <2>1. request'[r] = FirstTopic(request[r]) /\ request'[r].pc = "find" /\ UNCHANGED rows
    <3>1. request'[r] \in {FirstTopic(request[r]), IdleRequest} /\ UNCHANGED rows
      BY <1>4, SteadyTypes DEF WritesUser, WriteUser, databaseVars
    <3> QED BY <1>1, <3>1, FirstTopicComes DEF IdleRequest
  <2>2. ASSUME request'[r].topic = "zone"
        PROVE  rows'[e].local % Year = request'[r].new.birthday
    <3>1. /\ ~request[r].moved /\ request[r].new.zone # request[r].old.zone
          /\ request'[r].new = request[r].new
      BY <1>1, <2>1, <2>2, FirstTopicComes
    <3>2. request[r].old.zone = UTC /\ request[r].pc = "write"
      BY <1>3, <1>4, <3>1, WritesAlone DEF LosesWallClock
    <3>3. request[r].old = profile[u] /\ request[r].new.birthday = request[r].old.birthday
      BY <1>3, <1>4, <3>1, <3>2, WritesAlone DEF WaitInv, RequestKnowsUser
    <3>4. \A q \in Requests : ~Reschedules(q, u)
      BY <1>3, <1>4, <3>2, WritesAlone DEF Reschedules
    <3>5. Waits(e) /\ rows[e].user = u
      BY <1>2, <1>3, <2>1 DEF Waits
    <3>6. Fits(rows[e], profile[u])
      BY <3>4, <3>5 DEF WaitInv, FitsOrMoves
    <3>7. rows[e].local % Year = request[r].old.birthday
      BY <1>1, <3>2, <3>3, <3>6, FitsInUTC
    <3> QED BY <2>1, <3>1, <3>3, <3>7
  <2> QED BY <2>1, <2>2
<1>5. CASE Reschedules(r, u)
  <2>1. InTouch(r) /\ request[r].user = u
    BY <1>3, <1>5 DEF WaitInv, RequestKnowsUser, Reschedules
  <2>2. CASE StoreRescheduled(r)
    <3>1. \/ Fits(rows'[e], request[r].new)
          \/ \E c \in request[r].todo : c[1] = e /\ c[2] = rows'[e]
      BY <1>2, <1>3, <2>1, <2>2, StoredFits
    <3>2. request'[r] \in NextEvents(request[r], request[r].todo)
      BY <2>2, SteadyTypes DEF StoreRescheduled
    <3>3. CASE request[r].todo = {} /\ request'[r] = NextTopic(request[r])
      <4>1. /\ request'[r].pc = "find" /\ request'[r].new = request[r].new
            /\ request[r].topic = "birthday" /\ request[r].new.zone # request[r].old.zone
        BY <1>1, <3>3, NextTopicComes
      <4>2. Fits(rows'[e], request[r].new) /\ rows'[e] \in Event
        BY <1>1, <3>1, <3>3
      <4>3. PICK ev \in Event : ev = rows'[e]
        BY <4>2
      <4>4. ev.local % Year = request[r].new.birthday
        BY <2>1, <4>1, <4>2, <4>3, SecondTopicInOrder
      <4> QED BY <4>1, <4>3, <4>4
    <3>4. ASSUME NEW c \in request[r].todo, request'[r].id = c[1], request'[r].ev = Rescheduled(request[r], c[2]),
                 request'[r].todo = request[r].todo \ {c}, request'[r].new = request[r].new,
                 request'[r].pc = "store"
          PROVE  \/ Fits(rows'[e], request'[r].new)
                 \/ e = request'[r].id /\ rows'[e].version = request'[r].ev.version - 1
                 \/ \E d \in request'[r].todo : d[1] = e /\ d[2] = rows'[e]
      <4>1. Rescheduled(request[r], c[2]).version = c[2].version + 1 /\ c[2].version \in Nat
        <5>1. c[2] \in Event
          BY <1>1
        <5>2. c[2].version \in Nat
          BY <5>1 DEF Event
        <5> QED BY <1>1, <5>1, <5>2, RescheduledType
      <4>2. request'[r].ev.version - 1 = c[2].version
        BY <3>4, <4>1
      <4>3. CASE c[1] = e /\ c[2] = rows'[e]
        BY <3>4, <4>2, <4>3
      <4>4. CASE \E d \in request[r].todo \ {c} : d[1] = e /\ d[2] = rows'[e]
        BY <3>4, <4>4
      <4>5. CASE Fits(rows'[e], request[r].new)
        BY <3>4, <4>5
      <4> QED BY <3>1, <4>3, <4>4, <4>5
    <3> QED BY <1>1, <3>2, <3>3, <3>4, NextEventsTake
  <2>3. CASE FindPending(r)
    <3>1. UNCHANGED rows /\ request'[r] \in NextEvents(request[r], PendingOf(u))
      BY <2>1, <2>3, SteadyTypes DEF FindPending, PendingOf, databaseVars
    <3>2. PendingOf(u) \in SUBSET (EventIds \X Event) /\ <<e, rows[e]>> \in PendingOf(u)
      BY <1>1, <1>2, <3>1 DEF PendingOf, CanReschedule
    <3>3. PICK c \in PendingOf(u) : /\ request'[r].pc = "store" /\ request'[r].id = c[1]
                                    /\ request'[r].ev = Rescheduled(request[r], c[2])
                                    /\ request'[r].todo = PendingOf(u) \ {c}
      BY <1>1, <3>1, <3>2, NextEventsTake
    <3>4. CASE c = <<e, rows[e]>>
      <4>1. rows[e] \in Event
        BY <1>1
      <4>2. Rescheduled(request[r], rows[e]).version = rows[e].version + 1 /\ rows[e].version \in Nat
        BY <1>1, <4>1, RescheduledType DEF Event
      <4>3. e = request'[r].id /\ rows'[e].version = request'[r].ev.version - 1
        BY <3>1, <3>3, <3>4, <4>2
      <4> QED BY <3>3, <4>3
    <3>5. CASE c # <<e, rows[e]>>
      BY <3>1, <3>2, <3>3, <3>5
    <3> QED BY <3>4, <3>5
  <2>4. CASE request'[r] = request[r] /\ ~StoreRescheduled(r)
    <3>1. CASE rows'[e] = rows[e]
      <4>1. InOrder(r, e) /\ Waits(e) /\ Reschedules(r, rows[e].user)
        BY <1>2, <1>3, <1>5, <3>1 DEF WaitInv, Waits
      <4> QED BY <2>4, <3>1, <4>1 DEF InOrder
    <3>2. CASE RowBorn(e)
      <4>1. Fits(rows'[e], profile'[u]) /\ request[r].topic = "birthday"
        BY <1>2, <1>3, <1>5, <3>2, BornFits
      <4>2. profile'[u] = request'[r].new
        BY <1>3, <1>5, <2>1, <2>4, StaysAlone DEF InTouch
      <4> QED BY <2>4, <4>1, <4>2
    <3>3. ASSUME NEW q \in Requests, RowMoved(q, e) PROVE FALSE
      <4>1. Reschedules(q, u)
        <5>1. StoreRescheduled(q) /\ request[q].user = rows[e].user /\ rows[e].user = u
          BY <1>2, <3>3 DEF RowMoved, StoreRescheduled, WaitInv, OwnCopies
        <5> QED BY <5>1 DEF Reschedules, StoreRescheduled
      <4>2. q = r
        BY <2>1, <4>1 DEF InTouch
      <4> QED BY <2>4, <3>3, <4>2 DEF RowMoved
    <3> QED BY <3>1, <3>2, <3>3, WaitingCourse
  <2>5. ~RequestBegins(r) /\ ~WritesUser(r) /\ ~UpdateFails(r) /\ request'[r] # IdleRequest
    <3>1. ~WritesUser(r) /\ request'[r] # IdleRequest
      BY <1>5 DEF Reschedules, WritesUser, WriteUser, IdleRequest
    <3>2. ~UpdateFails(r)
      BY <1>3, <1>5 DEF Reschedules, UpdateFails
    <3>3. ~RequestBegins(r)
      BY <1>1 DEF RequestBegins, Request
    <3> QED BY <3>1, <3>2, <3>3
  <2> QED BY <2>2, <2>3, <2>4, <2>5, RequestsCome DEF RequestComes
<1> QED BY <1>2, <1>4, <1>5, WorkBegins

\* Who has nothing to publish has changed nothing.
LEMMA NothingChanged ==
  ASSUME NEW req \in Request, FirstTopic(req).pc = "idle",
         ~req.moved => req.new.birthday = req.old.birthday
  PROVE  req.new = req.old
<1>1. CASE req.moved
  <2>1. FirstTopic(req) = [req EXCEPT !.pc = "find", !.topic = "birthday"]
    BY <1>1 DEF FirstTopic
  <2>2. FirstTopic(req).pc = "find"
    BY <2>1 DEF Request
  <2> QED BY <2>2
<1>2. CASE ~req.moved /\ req.new.zone # req.old.zone
  <2>1. FirstTopic(req) = [req EXCEPT !.pc = "find", !.topic = "zone"]
    BY <1>2 DEF FirstTopic
  <2>2. FirstTopic(req).pc = "find"
    BY <2>1 DEF Request
  <2> QED BY <2>2
<1>3. CASE ~req.moved /\ req.new.zone = req.old.zone
  <2>1. req.new \in Profiles /\ req.old \in Profiles
    BY DEF Request
  <2> QED BY <1>3, <2>1 DEF Profiles
<1> QED BY <1>1, <1>2, <1>3

LEMMA FitsOrMovesStays ==
  ASSUME Steady, WaitInv, NEW e \in EventIds
  PROVE  FitsOrMoves(e)'
<1> SUFFICES ASSUME rows'[e].status = "PENDING", rows'[e].user \notin disturbed',
                    \A q \in Requests : ~(request'[q].pc \in {"find", "store"} /\ request'[q].user = rows'[e].user)
             PROVE  Fits(rows'[e], profile'[rows'[e].user])
  BY DEF FitsOrMoves, Waits, Reschedules, Fits
<1>1. /\ rows \in [EventIds -> Event] /\ profile \in [Users -> Profiles] /\ request \in [Requests -> Request]
      /\ \A r \in Requests : request[r].todo \in SUBSET (EventIds \X Event)
      /\ now \in Nat
  BY SteadyTypes DEF Request
<1> HIDE DEF Request
<1>2. CASE RowBorn(e)
  BY <1>2, BornFits
<1>3. CASE \E q \in Requests : RowMoved(q, e)
  <2>1. PICK q \in Requests : RowMoved(q, e)
    BY <1>3
  <2>2. /\ StoreRescheduled(q) /\ rows'[e].user = request[q].user /\ UNCHANGED profile
        /\ rows'[e].target = request[q].ev.target /\ rows'[e].local = request[q].ev.local
    BY <2>1 DEF RowMoved, StoreRescheduled, WaitInv, OwnCopies
  <2>3. Fits(request[q].ev, request[q].new) /\ request[q].new = profile[request[q].user]
    BY <2>2, DisturbedGrows DEF StoreRescheduled, WaitInv, RequestKnowsUser, InTouch, CopiesFit
  <2> QED BY <2>2, <2>3 DEF Fits
<1>4. CASE rows'[e] = rows[e]
  <2>1. PICK u \in Users : u = rows[e].user /\ u = rows'[e].user /\ users[u] \in {"announced", "deleted"}
    BY <1>4 DEF Steady, OneAtATime
  <2>2. Waits(e) /\ u \notin disturbed /\ rows[e].status = "PENDING"
    BY <1>4, <2>1, DisturbedGrows DEF Waits
  <2>3. ASSUME NEW r \in Requests, WritesUser(r), request[r].user = u, profile'[u] = request[r].new,
               profile'[u] # profile[u]
        PROVE  FALSE
    <3>1. /\ request'[r] = FirstTopic(request[r]) /\ request[r].pc = "write"
      BY <1>1, <2>3 DEF WritesUser, WriteUser
    <3>2. request'[r].pc = "idle"
      <4>1. request'[r].pc # "idle" => request'[r].pc = "find" /\ request'[r].user = u
        BY <1>1, <2>3, <3>1, FirstTopicComes
      <4> QED BY <2>1, <4>1
    <3>3. request[r].new = request[r].old /\ request[r].old = profile[u]
      BY <1>1, <2>1, <2>3, <3>1, <3>2, NothingChanged, WritesAlone DEF WaitInv, RequestKnowsUser
    <3> QED BY <2>3, <3>3
  <2>4. profile'[u] = profile[u]
    BY <2>1, <2>3, ProfilesMove
  <2>5. ASSUME NEW r \in Requests, Reschedules(r, u) PROVE Fits(rows[e], profile[u])
    <3>1. /\ InTouch(r) /\ request[r].user = u /\ request[r].new = profile[u]
          /\ request[r].pc \in {"find", "store"}
      BY <2>2, <2>5 DEF WaitInv, RequestKnowsUser, Reschedules, InTouch
    <3>2. ~(request'[r].pc \in {"find", "store"} /\ request'[r].user = u)
      BY <2>1
    <3>3. ASSUME NEW read \in SUBSET (EventIds \X Event), request'[r] \in NextEvents(request[r], read)
          PROVE  read = {}
      BY <1>1, <3>1, <3>2, <3>3, NextEventsTake
    <3>4. CASE StoreRescheduled(r)
      <4>1. request'[r] \in NextEvents(request[r], request[r].todo)
        BY <1>1, <3>4 DEF StoreRescheduled
      <4>2. request[r].todo = {}
        BY <1>1, <3>3, <4>1
      <4> QED BY <1>4, <2>1, <2>2, <3>1, <3>4, <4>2, StoredFits
    <3>5. CASE FindPending(r)
      <4>1. request'[r] \in NextEvents(request[r], PendingOf(u))
        BY <1>1, <3>1, <3>5 DEF FindPending, PendingOf
      <4>2. PendingOf(u) \in SUBSET (EventIds \X Event) /\ <<e, rows[e]>> \in PendingOf(u)
        <5>1. rows \in [EventIds -> Event]
          BY <1>1
        <5>2. PendingOf(u) \in SUBSET (EventIds \X Event)
          BY <5>1 DEF PendingOf
        <5>3. <<e, rows[e]>> \in PendingOf(u)
          BY <2>1, <2>2 DEF PendingOf, CanReschedule
        <5> QED BY <5>2, <5>3
      <4>3. PendingOf(u) = {}
        BY <3>3, <4>1, <4>2
      <4> QED BY <4>2, <4>3
    <3>6. ~UpdateFails(r) /\ ~WritesUser(r) /\ ~ReadUser(r) /\ request'[r] # request[r]
      <4>1. ~UpdateFails(r)
        BY <2>1, <3>1 DEF UpdateFails
      <4>2. ~WritesUser(r) /\ ~ReadUser(r)
        BY <3>1 DEF WritesUser, WriteUser, ReadUser
      <4> QED BY <3>1, <3>2, <4>1, <4>2
    <3> QED BY <3>4, <3>5, <3>6, RequestsCome DEF RequestComes
  <2>6. Fits(rows[e], profile[u])
    BY <2>1, <2>2, <2>5 DEF WaitInv, FitsOrMoves
  <2> QED BY <1>4, <2>1, <2>4, <2>6
<1> QED BY <1>2, <1>3, <1>4, WaitingCourse

LEMMA CopiesStayOwn ==
  ASSUME Steady, WaitInv, NEW r \in Requests
  PROVE  OwnCopies(r)'
<1>1. /\ request[r] \in Request /\ request[r].todo \in SUBSET (EventIds \X Event) /\ now \in Nat
      /\ rows \in [EventIds -> Event]
  BY SteadyTypes DEF Request
<1> HIDE DEF Request
<1>2. ASSUME NEW e \in EventIds, NEW u \in Users, rows[e].user = u PROVE rows'[e].user = u
  <2>1. rows[e].status # "NONE"
    BY <1>2, SteadyTypes DEF Steady, HistoryKept
  <2> QED BY <1>2, <2>1, DatesOfRows
<1>3. request[r].pc # "idle" => request[r].user \in Users
  BY DEF Steady, Moved, FrozenInv, ActorsHaveUsers
<1>4. /\ \A c \in request[r].todo : rows[c[1]].user = request[r].user
      /\ request[r].pc # "store" => request[r].todo = {}
      /\ request[r].pc = "store" => rows[request[r].id].user = request[r].user /\ request[r].id \in EventIds
  BY DEF WaitInv, OwnCopies, Steady, Moved, FrozenInv, RequestCopies, CopiesOf
<1>5. ASSUME NEW read \in SUBSET (EventIds \X Event), request'[r] \in NextEvents(request[r], read),
             request[r].pc # "idle", \A c \in read : rows[c[1]].user = request[r].user
      PROVE  OwnCopies(r)'
  <2>1. \A c \in read : rows'[c[1]].user = request[r].user
    BY <1>2, <1>3, <1>5
  <2>2. CASE request'[r] = NextTopic(request[r])
    BY <1>1, <2>2, NextTopicComes, NextTopicType DEF OwnCopies
  <2>3. ASSUME NEW c \in read, request'[r].pc = "store", request'[r].id = c[1], request'[r].todo = read \ {c},
               request'[r].user = request[r].user
        PROVE  OwnCopies(r)'
    BY <2>1, <2>3 DEF OwnCopies
  <2> QED BY <1>1, <1>5, <2>2, <2>3, NextEventsTake
<1>6. CASE request'[r] = request[r]
  <2>1. request[r].pc = "store" => rows'[request[r].id].user = request[r].user
    <3> SUFFICES ASSUME request[r].pc = "store" PROVE rows'[request[r].id].user = request[r].user
      OBVIOUS
    <3>1. PICK e \in EventIds : e = request[r].id
      BY <1>4
    <3> QED BY <1>2, <1>3, <1>4, <3>1
  <2>2. \A c \in request[r].todo : rows'[c[1]].user = request[r].user
    BY <1>1, <1>2, <1>3, <1>4
  <2>3. rows'[request'[r].id].user = rows'[request[r].id].user
    BY <1>6
  <2> QED BY <1>4, <1>6, <2>1, <2>2, <2>3 DEF OwnCopies
<1>7. ASSUME request'[r].todo = {}, request'[r].pc # "store"
      PROVE  OwnCopies(r)'
  BY <1>7 DEF OwnCopies
<1>8. CASE ReadUser(r) /\ RequestBegins(r)
  <2>1. request'[r].todo = request[r].todo /\ request'[r].pc = "write"
    BY <1>1, <1>8 DEF RequestBegins, Request
  <2>2. request[r].todo = {}
    BY <1>4, <1>8 DEF ReadUser
  <2> QED BY <1>7, <2>1, <2>2
<1>9. CASE WritesUser(r) /\ request'[r] \in {FirstTopic(request[r]), IdleRequest}
  <2>1. request[r].todo = {}
    BY <1>4, <1>9 DEF WritesUser, WriteUser
  <2> QED BY <1>1, <1>7, <1>9, <2>1, FirstTopicType DEF IdleRequest
<1>10. CASE request'[r] \in {NextTopic(request[r]), IdleRequest}
  BY <1>1, <1>7, <1>10, NextTopicType DEF IdleRequest
<1>11. CASE FindPending(r) /\ request'[r] \in NextEvents(request[r], PendingOf(request[r].user))
  <2>1. /\ PendingOf(request[r].user) \in SUBSET (EventIds \X Event)
        /\ \A c \in PendingOf(request[r].user) : rows[c[1]].user = request[r].user
    BY <1>1 DEF PendingOf
  <2> QED BY <1>5, <1>11, <2>1 DEF FindPending
<1>12. CASE StoreRescheduled(r) /\ request'[r] \in NextEvents(request[r], request[r].todo)
  BY <1>1, <1>4, <1>5, <1>12 DEF StoreRescheduled
<1> QED BY <1>6, <1>8, <1>9, <1>10, <1>11, <1>12, RequestsCome DEF RequestComes

LEMMA WaitStep ==
  ASSUME Steady, WaitInv
  PROVE  WaitInv'
<1>1. \A r \in Requests : RequestKnowsUser(r)' /\ OwnCopies(r)'
  BY RequestStillKnows, CopiesStayOwn
<1>2. \A e \in EventIds : FitsOrMoves(e)'
  BY FitsOrMovesStays
<1>3. \A e \in EventIds, r \in Requests : InOrder(r, e)'
  BY OrderStays
<1> QED BY <1>1, <1>2, <1>3 DEF WaitInv

LEMMA WaitInit == SystemInit => WaitInv
<1> SUFFICES ASSUME SystemInit PROVE WaitInv
  OBVIOUS
<1>1. /\ \A e \in EventIds : rows[e] = NoEvent
      /\ \A w \in Workers : worker[w].pc = "idle"
      /\ \A r \in Requests : request[r] = IdleRequest
  BY DEF SystemInit, Init, DatabaseInit, WorkerInit, IdleWorker, UserUpdatesInit
<1>2. \A r \in Requests : request[r].pc = "idle" /\ request[r].todo = {}
  BY <1>1 DEF IdleRequest
<1>3. \A e \in EventIds : rows[e].status = "NONE"
  BY <1>1 DEF NoEvent
<1> QED BY <1>1, <1>2, <1>3 DEF WaitInv, RequestKnowsUser, OwnCopies, FitsOrMoves,
                                InOrder, Waits

LEMMA WaitInvariance == SystemSpec => []((RefinementInv /\ WaitInv))
<1>1. SystemInit => RefinementInv /\ WaitInv
  BY RefinementInit, WaitInit
<1>2. (RefinementInv /\ WaitInv) /\ [SystemNext]_systemVars => (RefinementInv /\ WaitInv)'
  BY SteadyStep, WaitStep
<1> QED BY <1>1, <1>2, PTL DEF SystemSpec

\* A waiting event whose user has no update in flight is at the birthday the user has now,
\* for any number of users, requests and workers, any zones and any length of the year,
\* as long as no update of the user raced, failed or lost the wall clock.
THEOREM WaitingIsAtBirthday == SystemSpec => []WaitsForBirthday
<1>1. WaitInv => WaitsForBirthday
  <2> SUFFICES ASSUME WaitInv, NEW e \in EventIds, rows[e].status = "PENDING", Quiet(rows[e].user),
                      rows[e].user \notin disturbed
               PROVE  AtBirthday(e, profile[rows[e].user])
    BY DEF WaitsForBirthday
  <2>1. Fits(rows[e], profile[rows[e].user])
    BY DEF WaitInv, FitsOrMoves, Waits, Quiet, Reschedules
  <2> QED BY <2>1 DEF Fits, AtBirthday, toWallClock
<1> QED BY <1>1, WaitInvariance, PTL
=============================================================================
