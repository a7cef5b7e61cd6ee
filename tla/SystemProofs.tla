---------------------------- MODULE SystemProofs ----------------------------
(***************************************************************************)
(* Theorems about the whole system, for every number of users, requests,   *)
(* zones, Lambda instances and faults.  Nobody holds a copy of an event    *)
(* newer than its row, and a copy of the same version is the row: so the   *)
(* optimistic lock keeps an update from moving what was claimed.  The row  *)
(* locks keep a claim from reopening a row; and a completion gives the     *)
(* right to create the next event to one worker, which is why a user never *)
(* has two open events.                                                    *)
(***************************************************************************)
EXTENDS System, DeliveryProofs

Request == [pc    : RequestPcs,
            user  : Users \cup {NoUser},
            old   : Profiles,
            new   : Profiles,
            moved : BOOLEAN,
            topic : {"birthday", "zone"},
            id    : 0 .. MaxEvents,
            ev    : Event,
            todo  : SUBSET (EventIds \X Event)]

\* A request that runs, and a worker that found the user of its event, is about a user.
ActorsHaveUsers ==
  /\ \A r \in Requests : request[r].pc # "idle" => request[r].user \in Users
  /\ \A w \in Workers : worker[w].pc \in {"complete", "create"} => worker[w].ev.user \in Users

-----------------------------------------------------------------------------
LEMMA SomeProfileType == SomeProfile \in Profiles
<1>1. PICK z : z \in Zones
  BY UpdateAssumption
<1>2. [birthday |-> 0, zone |-> z] \in Profiles
  BY <1>1, YearAssumption DEF Profiles
<1> QED BY <1>2 DEF SomeProfile

\* A next occurrence is an instant after the reference.
LEMMA OccurrenceIsLater ==
  ASSUME NEW p \in Profiles, NEW t \in Int
  PROVE  Occurrence(p, t) \in Int /\ Occurrence(p, t) > t /\ Occurrence(p, t) <= t + Year
<1>1. p.birthday \in Nat /\ p.zone \in Int
  <2>1. p.birthday \in 0 .. Year - 1 /\ p.zone \in Zones
    BY DEF Profiles
  <2>2. p.birthday \in Nat
    BY <2>1, YearAssumption
  <2> QED BY <2>1, <2>2, UpdateAssumption
<1>2. t - p.zone - p.birthday \in Int
  BY <1>1
<1>3. \A x \in Int : x % Year \in 0 .. Year - 1
  BY YearAssumption
<1>4. (t - p.zone - p.birthday) % Year \in 0 .. Year - 1
  BY <1>2, <1>3
<1> QED BY <1>4, YearAssumption DEF Occurrence

-----------------------------------------------------------------------------
\* Type correctness of what requests carry.
LEMMA RescheduledType ==
  ASSUME NEW req \in Request, NEW ev \in Event, now \in Nat
  PROVE  /\ Rescheduled(req, ev) \in Event
         /\ Rescheduled(req, ev).status = ev.status
         /\ Rescheduled(req, ev).version = ev.version + 1
<1>1. req.new \in Profiles /\ ev.local \in Int /\ ev.version \in Nat
  BY DEF Request, Event
<1>2. ASSUME NEW t \in Int, NEW l \in Int
      PROVE  /\ reschedule(ev, t, l) \in Event
             /\ reschedule(ev, t, l).status = ev.status
             /\ reschedule(ev, t, l).version = ev.version + 1
  <2>1. ev.version + 1 \in Nat
    BY <1>1
  <2>2. reschedule(ev, t, l) = [ev EXCEPT !.target = t, !.local = l, !.version = ev.version + 1]
    BY Zenon DEF reschedule
  <2>3. reschedule(ev, t, l) \in Event
    BY <2>1, <2>2 DEF Event
  <2> QED BY <2>2, <2>3 DEF Event
<1>3. CASE req.topic = "birthday"
  <2>1. Occurrence(req.new, now) \in Int
    BY <1>1, OccurrenceIsLater
  <2> QED BY <1>2, <1>3, <2>1 DEF Rescheduled, RescheduledToBirthday
<1>4. CASE req.topic # "birthday"
  <2>1. req.new.zone \in Int
    BY <1>1, UpdateAssumption DEF Profiles
  <2>2. convertToUTC(targetTimestampLocal(ev), req.new.zone) \in Int
    BY <1>1, <2>1 DEF convertToUTC, targetTimestampLocal, toWallClock, UTC
  <2> QED BY <1>1, <1>2, <1>4, <2>2 DEF Rescheduled, RescheduledToZone
<1> QED BY <1>3, <1>4

LEMMA IdleRequestType == IdleRequest \in Request
<1>1. 0 \in 0 .. MaxEvents
  BY MaxEventsAssumption
<1> QED BY <1>1, SomeProfileType, NoEventType DEF IdleRequest, Request, RequestPcs

LEMMA NextTopicType ==
  ASSUME NEW req \in Request
  PROVE  /\ NextTopic(req) \in Request
         /\ NextTopic(req).pc # "store" /\ NextTopic(req).todo = {}
         /\ NextTopic(req).pc # "idle" => NextTopic(req).user = req.user
<1>1. 0 \in 0 .. MaxEvents /\ NoEvent \in Event
  BY MaxEventsAssumption, NoEventType
<1>2. CASE NextTopic(req) = IdleRequest
  BY <1>2, IdleRequestType DEF IdleRequest
<1>3. CASE NextTopic(req) = [req EXCEPT !.pc = "find", !.topic = "zone", !.id = 0, !.ev = NoEvent, !.todo = {}]
  BY <1>1, <1>3 DEF Request, RequestPcs
<1> QED BY <1>2, <1>3, Zenon DEF NextTopic

LEMMA FirstTopicType ==
  ASSUME NEW req \in Request
  PROVE  /\ FirstTopic(req) \in Request
         /\ FirstTopic(req).pc # "store"
         /\ FirstTopic(req).todo \subseteq req.todo
         /\ FirstTopic(req).pc # "idle" => FirstTopic(req).user = req.user
<1>1. CASE FirstTopic(req) = IdleRequest
  BY <1>1, IdleRequestType DEF IdleRequest
<1>2. CASE \E topic \in {"birthday", "zone"} : FirstTopic(req) = [req EXCEPT !.pc = "find", !.topic = topic]
  BY <1>2 DEF Request, RequestPcs
<1>3. req.moved \in BOOLEAN
  BY DEF Request
<1> QED BY <1>1, <1>2, <1>3 DEF FirstTopic

\* The loop goes on with a part of what was read, and stores a changed copy of it.
LEMMA NextEventsType ==
  ASSUME NEW req \in Request, NEW todo \in SUBSET (EventIds \X Event), now \in Nat,
         NEW next \in NextEvents(req, todo)
  PROVE  /\ next \in Request
         /\ next.todo \subseteq todo
         /\ next.pc # "idle" => next.user = req.user
         /\ next.pc = "store" =>
              \E c \in todo : /\ next.id = c[1]
                              /\ next.ev.status = c[2].status
                              /\ next.ev.version = c[2].version + 1
<1>1. CASE todo = {}
  BY <1>1, NextTopicType DEF NextEvents
<1>2. CASE todo # {}
  <2>1. PICK c \in todo :
          next = [req EXCEPT !.pc = "store", !.id = c[1], !.ev = Rescheduled(req, c[2]), !.todo = todo \ {c}]
    BY <1>2 DEF NextEvents
  <2>2. c[1] \in 0 .. MaxEvents /\ c[2] \in Event
    BY MaxEventsAssumption DEF EventIds
  <2> DEFINE ev == Rescheduled(req, c[2])
  <2>3. ev \in Event /\ ev.status = c[2].status /\ ev.version = c[2].version + 1
    BY <2>2, RescheduledType
  <2> HIDE DEF ev
  <2>4. next = [req EXCEPT !.pc = "store", !.id = c[1], !.ev = ev, !.todo = todo \ {c}]
    BY <2>1 DEF ev
  <2>5. next \in Request /\ next.todo = todo \ {c} /\ next.id = c[1] /\ next.ev = ev
      /\ next.user = req.user
    BY <2>2, <2>3, <2>4 DEF Request, RequestPcs
  <2> QED BY <2>3, <2>5
<1> QED BY <1>1, <1>2

-----------------------------------------------------------------------------
LEMMA SystemInitType == SystemInit => SystemTypeOK /\ ActorsHaveUsers
<1> SUFFICES ASSUME SystemInit PROVE SystemTypeOK /\ ActorsHaveUsers
  OBVIOUS
<1>1. TypeOK
  BY InitTypeOK DEF SystemInit
<1>2. UserUpdatesTypeOK
  <2>1. request \in [Requests -> Request]
    BY IdleRequestType DEF SystemInit, UserUpdatesInit
  <2> QED BY <2>1, SomeProfileType, UpdateAssumption
          DEF SystemInit, UserUpdatesInit, UserUpdatesTypeOK, Request
<1>3. ActorsHaveUsers
  BY DEF SystemInit, Init, WorkerInit, IdleWorker, UserUpdatesInit, IdleRequest, ActorsHaveUsers
<1> QED BY <1>1, <1>2, <1>3, SomeProfileType DEF SystemInit, SystemTypeOK

\* The pipeline's own variables keep their type when only the database's tables change.
LEMMA TablesType ==
  ASSUME TypeOK, UNCHANGED <<platformVars, locked, queue, sched, workerVars>>,
         users' \in [Users -> UserStates], rows' \in [EventIds -> Event], lastId' \in 0 .. MaxEvents
  PROVE  TypeOK'
  BY DEF TypeOK, platformVars, workerVars, PlatformTypeOK, DatabaseTypeOK, QueueTypeOK,
         SchedulerTypeOK, WorkerTypeOK

LEMMA RegistrationType ==
  ASSUME SystemTypeOK, ActorsHaveUsers, NEW u \in Users, Registration(u)
  PROVE  SystemTypeOK' /\ ActorsHaveUsers'
<1>1. /\ profile \in [Users -> Profiles] /\ profile[u] \in Profiles /\ now \in Nat
      /\ users \in [Users -> UserStates] /\ rows \in [EventIds -> Event]
      /\ lastId \in 0 .. MaxEvents
      /\ TypeOK /\ DatabaseTypeOK
  BY DEF SystemTypeOK, UserUpdatesTypeOK, TypeOK, PlatformTypeOK, DatabaseTypeOK
<1>2. /\ UNCHANGED <<platformVars, locked, queue, sched, workerVars>>
      /\ UNCHANGED <<request, updates, apiFaults, celebrant, disturbed>>
      /\ profile' \in [Users -> Profiles]
  BY <1>1 DEF Registration, CreateUser, CreateBirthdayEventAt, CreateBirthdayEventFails, DeleteUser
<1>3. users' \in [Users -> UserStates]
  BY <1>1 DEF Registration, CreateUser, CreateBirthdayEventAt, CreateBirthdayEventFails, DeleteUser,
              UserStates
<1>4. rows' \in [EventIds -> Event] /\ lastId' \in 0 .. MaxEvents
  <2>1. CASE CreateBirthdayEventAt(u, Occurrence(profile[u], now))
    <3> DEFINE ev == PendingEvent(u, Occurrence(profile[u], now), "complete")
    <3>1. ev \in Event
      BY <1>1, OccurrenceIsLater, PendingEventType DEF Payloads
    <3>2. create(ev)
      BY <2>1 DEF CreateBirthdayEventAt
    <3> HIDE DEF ev
    <3> QED BY <1>1, <3>1, <3>2, CreateType
  <2>2. CASE DeleteUser(u)
    BY <1>1, <2>2, ErasedType DEF DeleteUser, CascadeDelete
  <2>3. CASE UNCHANGED <<rows, lastId>>
    BY <1>1, <2>3
  <2> QED BY <2>1, <2>2, <2>3 DEF Registration, CreateUser, CreateBirthdayEventFails
<1>5. TypeOK'
  BY <1>1, <1>2, <1>3, <1>4, TablesType
<1> QED BY <1>2, <1>5 DEF SystemTypeOK, UserUpdatesTypeOK, ActorsHaveUsers, workerVars

\* What a step of r leaves of the requests.
LEMMA RequestType ==
  ASSUME SystemTypeOK, ActorsHaveUsers, NEW r \in Requests, NEW req \in Request,
         req.pc # "idle" => req.user \in Users,
         request' = [request EXCEPT ![r] = req], UNCHANGED workerVars
  PROVE  request' \in [Requests -> Request] /\ ActorsHaveUsers'
<1>1. request \in [Requests -> Request]
  BY DEF SystemTypeOK, UserUpdatesTypeOK, Request
<1> HIDE DEF Request
<1> QED BY <1>1 DEF ActorsHaveUsers, workerVars

LEMMA RequestStepType ==
  ASSUME SystemTypeOK, ActorsHaveUsers, NEW r \in Requests, UpdateRuns(r) \/ UpdateFails(r)
  PROVE  SystemTypeOK' /\ ActorsHaveUsers'
<1>1. /\ request \in [Requests -> Request] /\ request[r] \in Request
      /\ profile \in [Users -> Profiles]
      /\ updates \in 0 .. MaxUpdates /\ apiFaults \in 0 .. MaxApiFaults
      /\ now \in Nat /\ TypeOK /\ DatabaseTypeOK
      /\ users \in [Users -> UserStates] /\ rows \in [EventIds -> Event]
      /\ lastId \in 0 .. MaxEvents /\ disturbed \subseteq Users
  BY DEF SystemTypeOK, UserUpdatesTypeOK, Request, TypeOK, PlatformTypeOK, DatabaseTypeOK
<1>a. /\ request[r].pc # "idle" => request[r].user \in Users
      /\ UNCHANGED workerVars
  BY DEF ActorsHaveUsers, UpdateRuns, UpdateFails
<1>2. ASSUME request' \in [Requests -> Request], profile' \in [Users -> Profiles],
             updates' \in 0 .. MaxUpdates, apiFaults' \in 0 .. MaxApiFaults,
             rows' \in [EventIds -> Event], disturbed' \subseteq Users,
             UNCHANGED <<platformVars, users, lastId, locked>>
      PROVE  SystemTypeOK'
  <2>1. UNCHANGED <<queue, sched, workerVars, celebrant>>
    BY DEF UpdateRuns, UpdateFails
  <2>2. TypeOK'
    BY <1>1, <1>2, <2>1, TablesType
  <2> QED BY <1>2, <2>1, <2>2 DEF SystemTypeOK, UserUpdatesTypeOK, Request
<1>3. \/ UNCHANGED disturbed
      \/ /\ request[r].pc # "idle"
         /\ disturbed' \subseteq disturbed \cup {request[r].user}
  BY DEF UpdateRuns, UpdateFails, WriteUser, RescheduleFails, UpdateStops
<1>4. disturbed' \subseteq Users
  BY <1>1, <1>a, <1>3
<1>5. CASE ReadUser(r)
  <2>1. PICK u \in Users, new \in Profiles, moved \in BOOLEAN :
          request' = [request EXCEPT ![r] = [@ EXCEPT !.pc = "write", !.user = u, !.old = profile[u],
                                                     !.new = new, !.moved = moved]]
    BY <1>5 DEF ReadUser
  <2> DEFINE req == [request[r] EXCEPT !.pc = "write", !.user = u, !.old = profile[u],
                                       !.new = new, !.moved = moved]
  <2>2. req \in Request /\ req.user \in Users
    BY <1>1 DEF Request, RequestPcs
  <2>3. request' = [request EXCEPT ![r] = req]
    BY <2>1
  <2> HIDE DEF req
  <2>4. request' \in [Requests -> Request] /\ ActorsHaveUsers'
    BY <1>a, <2>2, <2>3, RequestType
  <2>5. updates' \in 0 .. MaxUpdates
    BY <1>1, <1>5, UpdateAssumption DEF ReadUser
  <2> QED BY <1>1, <1>2, <1>4, <1>5, <2>4, <2>5 DEF ReadUser, databaseVars
<1>6. CASE WriteUser(r)
  <2>1. PICK req \in {FirstTopic(request[r]), IdleRequest} : request' = [request EXCEPT ![r] = req]
    BY <1>1, <1>6 DEF WriteUser
  <2>2. req \in Request /\ (req.pc # "idle" => req.user \in Users)
    <3>1. CASE req = IdleRequest
      BY <3>1, IdleRequestType DEF IdleRequest
    <3>2. CASE req = FirstTopic(request[r])
      <4>1. request[r].user \in Users
        BY <1>a, <1>6 DEF WriteUser
      <4> QED BY <1>1, <3>2, <4>1, FirstTopicType
    <3> QED BY <2>1, <3>1, <3>2
  <2>3. request' \in [Requests -> Request] /\ ActorsHaveUsers'
    BY <1>a, <2>1, <2>2, RequestType
  <2>4. profile' \in [Users -> Profiles]
    BY <1>1, <1>6 DEF WriteUser, Request
  <2> QED BY <1>1, <1>2, <1>4, <1>6, <2>3, <2>4 DEF WriteUser, databaseVars
<1>7. CASE FindPending(r)
  <2> DEFINE pending == {<<e, rows[e]>> : e \in {e \in EventIds : /\ rows[e].user = request[r].user
                                                                 /\ CanReschedule(rows[e])}}
  <2>1. pending \in SUBSET (EventIds \X Event)
    BY <1>1
  <2>2. PICK next \in NextEvents(request[r], pending) : request' = [request EXCEPT ![r] = next]
    BY <1>7 DEF FindPending
  <2> HIDE DEF pending
  <2>3. next \in Request /\ (next.pc # "idle" => next.user \in Users)
    BY <1>1, <1>a, <1>7, <2>1, <2>2, NextEventsType DEF FindPending
  <2>4. request' \in [Requests -> Request] /\ ActorsHaveUsers'
    BY <1>a, <2>2, <2>3, RequestType
  <2> QED BY <1>1, <1>2, <1>4, <1>7, <2>4 DEF FindPending, databaseVars
<1>8. CASE StoreRescheduled(r)
  <2>1. request[r].todo \in SUBSET (EventIds \X Event) /\ request[r].ev \in Event
    BY <1>1 DEF Request
  <2>2. PICK next \in NextEvents(request[r], request[r].todo) : request' = [request EXCEPT ![r] = next]
    BY <1>8 DEF StoreRescheduled
  <2>3. next \in Request /\ (next.pc # "idle" => next.user \in Users)
    BY <1>1, <1>a, <1>8, <2>1, <2>2, NextEventsType DEF StoreRescheduled
  <2>4. request' \in [Requests -> Request] /\ ActorsHaveUsers'
    BY <1>a, <2>2, <2>3, RequestType
  <2>5. rows' \in [EventIds -> Event]
    BY <1>1, <1>8, <2>1, UpdateType DEF StoreRescheduled
  <2> QED BY <1>1, <1>2, <1>4, <1>8, <2>4, <2>5 DEF StoreRescheduled
<1>9. CASE UpdateFails(r)
  <2>1. PICK req \in {NextTopic(request[r]), IdleRequest} : request' = [request EXCEPT ![r] = req]
    BY <1>1, <1>9 DEF UpdateFails, RescheduleFails, UpdateStops
  <2>2. req \in Request /\ (req.pc # "idle" => req.user \in Users)
    <3>1. CASE req = IdleRequest
      BY <3>1, IdleRequestType DEF IdleRequest
    <3>2. CASE req = NextTopic(request[r])
      <4>1. request[r].user \in Users
        BY <1>a, <1>9 DEF UpdateFails, RescheduleFails, UpdateStops
      <4> QED BY <1>1, <3>2, <4>1, NextTopicType
    <3> QED BY <2>1, <3>1, <3>2
  <2>3. request' \in [Requests -> Request] /\ ActorsHaveUsers'
    BY <1>a, <2>1, <2>2, RequestType
  <2>4. apiFaults' \in 0 .. MaxApiFaults
    BY <1>1, <1>9, UpdateAssumption DEF UpdateFails, RescheduleFails, UpdateStops, ApiFault
  <2>5. UNCHANGED <<profile, updates, platformVars, databaseVars>>
    BY <1>9 DEF UpdateFails, RescheduleFails, UpdateStops
  <2> QED BY <1>1, <1>2, <1>4, <2>3, <2>4, <2>5 DEF databaseVars
<1> QED BY <1>5, <1>6, <1>7, <1>8, <1>9 DEF UpdateRuns

LEMMA FollowUpType ==
  ASSUME SystemTypeOK, ActorsHaveUsers, NEW w \in Workers, FollowUp(w)
  PROVE  TypeOK' /\ celebrant' \in [Workers -> Profiles] /\ disturbed' \subseteq Users
<1>1. /\ celebrant \in [Workers -> Profiles] /\ worker[w].ev \in Event
      /\ rows \in [EventIds -> Event] /\ lastId \in 0 .. MaxEvents
      /\ TypeOK /\ DatabaseTypeOK /\ WorkerTypeOK
  BY DEF SystemTypeOK, TypeOK, DatabaseTypeOK, WorkerTypeOK
<1> DEFINE next == PendingEvent(worker[w].ev.user, Occurrence(celebrant[w], worker[w].ev.local),
                                "messageOnly")
<1>2. next \in Event
  <2>1. worker[w].ev.user \in Users \cup {NoUser} /\ worker[w].ev.local \in Int
    BY <1>1 DEF Event
  <2>2. Occurrence(celebrant[w], worker[w].ev.local) \in Int
    BY <1>1, <2>1, OccurrenceIsLater
  <2>3. "messageOnly" \in Payloads
    BY DEF Payloads
  <2> QED BY <2>1, <2>2, <2>3, PendingEventType
<1>3. /\ Return(w) \/ Throw(w)
      /\ UNCHANGED <<rows, lastId>> \/ create(next)
      /\ UNCHANGED <<platformVars, users, locked, queue, accepted, sched>>
  BY DEF FollowUp, CreateFollower
<1> HIDE DEF next
<1>4. rows' \in [EventIds -> Event] /\ lastId' \in 0 .. MaxEvents
  BY <1>1, <1>2, <1>3, CreateType
<1>5. WorkerTypeOK'
  BY <1>1, <1>3, ReturnType
<1>6. TypeOK'
  BY <1>1, <1>3, <1>4, <1>5
  DEF TypeOK, platformVars, PlatformTypeOK, DatabaseTypeOK, QueueTypeOK, SchedulerTypeOK
<1>7. celebrant' \in [Workers -> Profiles]
  BY <1>1, SomeProfileType DEF FollowUp
<1>8. disturbed' \subseteq Users
  <2>1. disturbed \subseteq Users /\ worker[w].ev.user \in Users
    BY DEF FollowUp, CreateFollower, ActorsHaveUsers, SystemTypeOK
  <2> QED BY <2>1 DEF FollowUp
<1> QED BY <1>6, <1>7, <1>8

\* A worker comes to complete an event only where the lookup has found the user.
LEMMA WorkersHaveUsers ==
  ASSUME SystemTypeOK, ActorsHaveUsers, NEW v \in Workers,
         WorkerGoesOn(v) \/ WorkerFails(v) \/ FollowUp(v),
         NEW w \in Workers, worker'[w].pc \in {"complete", "create"}
  PROVE  worker'[w].ev.user \in Users
<1>1. worker \in [Workers -> [pc : WorkerPcs, batch : SUBSET Messages, todo : SUBSET Messages,
                              msg : Messages \cup {NoMessage}, ev : Event, retries : Nat]]
  BY DEF SystemTypeOK, TypeOK, WorkerTypeOK
<1>2. CASE worker'[w] = worker[w]
  BY <1>2 DEF ActorsHaveUsers
<1>3. CASE FindUser(w)
  <2>1. worker'[w].ev = worker[w].ev /\ UserExists(worker[w].ev.user)
    BY <1>1, <1>3 DEF FindUser, WorkerGoTo
  <2> QED BY <2>1 DEF UserExists
<1>4. ~CreateNextYear(w) \/ ~WorkerGoesOn(w)
  BY DEF WorkerGoesOn, CreateNextYear, CreateFollower
<1>5. ~(Return(w) \/ Throw(w))
  <2>1. Throw(w) => worker'[w].pc = "idle"
    BY <1>1 DEF Throw, IdleWorker
  <2>2. Return(w) => worker'[w].pc = "next"
    <3> DEFINE done == [worker[w] EXCEPT !.pc = "next", !.todo = worker[w].todo \ {worker[w].msg},
                                        !.msg = NoMessage, !.ev = NoEvent]
    <3>1. done.pc = "next"
      BY <1>1
    <3>2. Return(w) => worker' = [worker EXCEPT ![w] = done]
      BY DEF Return
    <3> HIDE DEF done
    <3> QED BY <1>1, <3>1, <3>2
  <2> QED BY <2>1, <2>2
<1>6. CASE CompleteEvent(w)
  <2>1. worker[w].pc = "complete" /\ WorkerGoTo(w, "create")
    BY <1>5, <1>6 DEF CompleteEvent
  <2>2. worker'[w].ev = worker[w].ev
    BY <1>1, <2>1 DEF WorkerGoTo
  <2> QED BY <2>1, <2>2 DEF ActorsHaveUsers
<1>7. CASE v # w
  <2>1. worker'[w] = worker[w]
    BY <1>1, <1>7 DEF WorkerGoesOn, WorkerRuns, WorkerFails, FollowUp, CreateFollower, CreateNextYear,
       Receive, SkipRecord, RejectPayload, StartRecord, DeliverAccepted, DeliverRejected, MarkFailed,
       FindUser, CompleteEvent, Finish, RetryDelivery, DeliverFails, WorkerStops, WorkerGoTo,
       Return, Throw
  <2> QED BY <1>2, <2>1
<1>8. CASE v = w
  <2>1. CASE WorkerGoesOn(w) /\ ~FindUser(w) /\ ~CompleteEvent(w)
    <3>1. Receive(w) \/ SkipRecord(w) \/ StartRecord(w) \/ DeliverAccepted(w) \/ DeliverRejected(w)
      BY <1>1, <1>4, <1>5, <2>1 DEF WorkerGoesOn, WorkerRuns, RejectPayload, MarkFailed, Finish, Throw
    <3>2. CASE Receive(w) \/ DeliverAccepted(w) \/ DeliverRejected(w) \/ StartRecord(w)
      <4>1. worker'[w].pc \in {"next", "findUser", "fail", "deliver"}
        BY <1>1, <3>2 DEF Receive, DeliverAccepted, DeliverRejected, StartRecord, WorkerGoTo
      <4> QED BY <4>1
    <3>3. CASE SkipRecord(w)
      <4>1. worker'[w].pc = worker[w].pc /\ worker'[w].ev = worker[w].ev
        BY <1>1, <3>3 DEF SkipRecord
      <4> QED BY <4>1 DEF ActorsHaveUsers
    <3> QED BY <3>1, <3>2, <3>3
  <2>2. CASE WorkerFails(w)
    <3>1. worker'[w].pc = worker[w].pc /\ worker'[w].ev = worker[w].ev
      BY <1>1, <1>5, <2>2 DEF WorkerFails, RetryDelivery, DeliverFails, WorkerStops
    <3> QED BY <3>1 DEF ActorsHaveUsers
  <2>3. ~FollowUp(w)
    BY <1>5 DEF FollowUp, CreateFollower
  <2> QED BY <1>3, <1>6, <1>8, <2>1, <2>2, <2>3
<1> QED BY <1>7, <1>8

LEMMA PipelineType ==
  ASSUME SystemTypeOK, ActorsHaveUsers, Pipeline
  PROVE  SystemTypeOK' /\ ActorsHaveUsers'
<1>a. ASSUME NEW w \in Workers, worker'[w].pc \in {"complete", "create"}
      PROVE  worker'[w].ev.user \in Users
  <2>1. CASE \E v \in Workers : WorkerGoesOn(v) \/ WorkerFails(v) \/ FollowUp(v)
    BY <1>a, <2>1, WorkersHaveUsers
  <2>2. CASE UNCHANGED worker
    BY <1>a, <2>2 DEF ActorsHaveUsers
  <2>3. CASE ClockTicks \/ (\E s \in Schedulers : SchedulerRuns(s) \/ SchedulerFails(s))
             \/ (\E m \in Messages : QueueRuns(m) \/ QueueOvertakes(m))
    BY <2>2, <2>3 DEF ClockTicks, SchedulerRuns, SchedulerFails, QueueRuns, QueueOvertakes,
       VisibilityTimeout, VisibilityTimeoutEarly, Redrive, workerVars
  <2> QED BY <2>1, <2>3 DEF Pipeline
<1>1. UserUpdatesTypeOK' /\ ActorsHaveUsers'
  BY <1>a DEF Pipeline, updateVars, SystemTypeOK, UserUpdatesTypeOK, ActorsHaveUsers
<1>2. TypeOK /\ profile \in [Users -> Profiles]
      /\ celebrant \in [Workers -> Profiles] /\ disturbed \subseteq Users
  BY DEF SystemTypeOK, UserUpdatesTypeOK
<1>3. CASE \E w \in Workers : FollowUp(w)
  BY <1>1, <1>3, FollowUpType DEF SystemTypeOK
<1>4. CASE \E w \in Workers : WorkerGoesOn(w)
  <2>1. PICK w \in Workers : WorkerGoesOn(w)
    BY <1>4
  <2>2. TypeOK'
    BY <1>2, <2>1, WorkerStepType DEF WorkerGoesOn
  <2>3. celebrant' \in [Workers -> Profiles] /\ disturbed' \subseteq Users
    BY <1>2, <2>1 DEF WorkerGoesOn, UserExists
  <2> QED BY <1>1, <2>2, <2>3 DEF SystemTypeOK
<1>5. CASE UNCHANGED <<celebrant, disturbed>>
           /\ \/ ClockTicks
              \/ \E s \in Schedulers : SchedulerRuns(s) \/ SchedulerFails(s)
              \/ \E w \in Workers : WorkerFails(w)
              \/ \E m \in Messages : QueueRuns(m) \/ QueueOvertakes(m)
  <2>1. ASSUME ClockTicks PROVE TypeOK'
    BY <1>2, <2>1, StepTypeOK DEF Next
  <2>2. TypeOK'
    BY <1>2, <1>5, <2>1, SchedulerStepType, WorkerStepType, QueueStepType
  <2> QED BY <1>1, <1>2, <1>5, <2>2 DEF SystemTypeOK
<1> QED BY <1>3, <1>4, <1>5 DEF Pipeline

LEMMA SystemStepType ==
  ASSUME SystemTypeOK, ActorsHaveUsers, [SystemNext]_systemVars
  PROVE  SystemTypeOK' /\ ActorsHaveUsers'
<1>1. CASE UNCHANGED systemVars
  <2>1. TypeOK'
    BY <1>1, StepTypeOK DEF systemVars, SystemTypeOK
  <2> QED BY <1>1, <2>1 DEF systemVars, vars, workerVars, updateVars, SystemTypeOK, UserUpdatesTypeOK,
                            ActorsHaveUsers
<1> QED BY <1>1, RegistrationType, RequestStepType, PipelineType DEF SystemNext

\* Every variable of the system keeps its type.
THEOREM SystemTypeCorrect == SystemSpec => []SystemTypeOK
<1>1. SystemInit => SystemTypeOK /\ ActorsHaveUsers
  BY SystemInitType
<1>2. SystemTypeOK /\ ActorsHaveUsers /\ [SystemNext]_systemVars => SystemTypeOK' /\ ActorsHaveUsers'
  BY SystemStepType
<1> QED BY <1>1, <1>2, PTL DEF SystemSpec

-----------------------------------------------------------------------------
(***************************************************************************)
(* The inductive invariant behind ClaimedIsFrozen: nobody holds a copy     *)
(* that is newer than its row, and as long as a row has the version of a   *)
(* copy it has what the copy was read with.                                *)
(***************************************************************************)

\* The row of e was PENDING when it was read with this version.
ReadPending(e, version) ==
  /\ rows[e].status # "NONE"
  /\ version <= rows[e].version
  /\ Live(e) /\ rows[e].version = version => rows[e].status = "PENDING"

\* The events r read, and the changed one it is about to store.
CopiesOf(r) ==
  /\ \A c \in request[r].todo : c[2].status = "PENDING" /\ ReadPending(c[1], c[2].version)
  /\ request[r].pc = "store" =>
       /\ request[r].id \in EventIds
       /\ request[r].ev.status = "PENDING"
       /\ ReadPending(request[r].id, request[r].ev.version - 1)

RequestCopies == \A r \in Requests : CopiesOf(r)

\* The row of e was PROCESSING when ev was read from it.
ReadClaimed(e, ev) ==
  /\ rows[e].status \notin {"NONE", "PENDING"}
  /\ ev.version <= rows[e].version
  /\ rows[e].user = ev.user
  /\ Live(e) /\ rows[e].version = ev.version =>
       /\ rows[e].status = "PROCESSING"
       /\ rows[e].target = ev.target
       /\ rows[e].local = ev.local

WorkerCopies ==
  \A w \in Workers : worker[w].pc \notin {"idle", "next"} =>
    worker[w].msg \in Messages /\ ReadClaimed(Current(w), worker[w].ev)

\* What a scheduler is about to claim is PENDING and locked for it alone.
ClaimIsLocked(s) ==
  /\ sched[s].pc \in {"idle", "recover", "claim"} => sched[s].todo = {}
  /\ sched[s].pc = "mark" => \A e \in sched[s].todo : e \in locked /\ rows[e].status = "PENDING"

SchedulerClaims ==
  /\ \A s \in Schedulers : ClaimIsLocked(s)
  /\ \A s, t \in Schedulers :
       s # t /\ sched[s].pc = "mark" /\ sched[t].pc = "mark" => sched[s].todo \cap sched[t].todo = {}

FrozenInv ==
  /\ SystemTypeOK /\ ActorsHaveUsers
  /\ IdsAreFresh
  /\ RequestCopies
  /\ WorkerCopies
  /\ SchedulerClaims

\* What one step may do to the row of e.
RowCreated(e) ==
  /\ e = lastId + 1 /\ lastId' = lastId + 1
  /\ rows[e].status = "NONE"
  /\ rows'[e].status = "PENDING"

Open(e) == rows[e].status \in {"PENDING", "PROCESSING"}

\* Only an open row is written; a locked one stays PENDING until its lock is given up.
RowWritten(e) ==
  /\ Open(e)
  /\ rows'[e].status \in EventStatus
  /\ rows[e].status = "PENDING" => rows'[e].status = "PENDING" \/ e \notin locked'
  /\ rows'[e].user = rows[e].user
  /\ rows'[e].version > rows[e].version
  /\ rows[e].status # "PENDING" =>
       /\ rows'[e].status # "PENDING"
       /\ rows'[e].target = rows[e].target
       /\ rows'[e].local = rows[e].local

RowErased(e) ==
  /\ Live(e) /\ e \notin locked
  /\ rows'[e] = [rows[e] EXCEPT !.status = "GONE"]
  /\ users'[rows[e].user] = "deleted"

RowMoves(e) ==
  \/ rows'[e] = rows[e]
  \/ RowCreated(e)
  \/ RowWritten(e)
  \/ RowErased(e)

RowsMove == lastId <= lastId' /\ \A e \in EventIds : RowMoves(e)

-----------------------------------------------------------------------------
\* What RowsMove gives whoever holds an id or a copy.
LEMMA RowsMoveFacts ==
  ASSUME SystemTypeOK, SystemTypeOK', IdsAreFresh, RowsMove, NEW e \in EventIds
  PROVE  /\ rows[e].status # "NONE" => rows'[e].status # "NONE"
         /\ rows[e].status \notin {"NONE", "PENDING"} =>
              /\ rows'[e].status \notin {"NONE", "PENDING"}
              /\ rows'[e].target = rows[e].target
              /\ rows'[e].local = rows[e].local
         /\ rows[e].status # "NONE" =>
              \/ rows'[e] = rows[e]
              \/ rows'[e].version > rows[e].version
              \/ ~Live(e)' /\ rows'[e].version = rows[e].version
         /\ rows[e].status # "NONE" => rows'[e].user = rows[e].user /\ (Open(e)' => Open(e))
         /\ e \in locked /\ e \in locked' /\ rows[e].status = "PENDING" => rows'[e].status = "PENDING"
         /\ lastId' = lastId /\ rows[e].status = "NONE" => rows'[e].status = "NONE"
         /\ e > lastId' => rows'[e].status = "NONE"
<1>1. /\ rows[e] \in Event /\ rows'[e] \in Event /\ e \in Nat
      /\ lastId \in Nat /\ lastId' \in Nat /\ lastId <= lastId' /\ RowMoves(e)
  BY MaxEventsAssumption DEF SystemTypeOK, TypeOK, DatabaseTypeOK, RowsMove, EventIds
<1>2. RowErased(e) => /\ rows[e].status \in EventStatus
                      /\ rows'[e].status = "GONE"
                      /\ rows'[e].version = rows[e].version
                      /\ rows'[e].target = rows[e].target
                      /\ rows'[e].local = rows[e].local
                      /\ rows'[e].user = rows[e].user
                      /\ e \notin locked
  BY <1>1 DEF RowErased, Live, Event
<1>3. "GONE" \notin EventStatus /\ "NONE" \notin EventStatus
  BY DEF EventStatus
<1>4. e > lastId => rows[e].status = "NONE"
  BY DEF IdsAreFresh
<1> QED BY <1>1, <1>2, <1>3, <1>4 DEF RowMoves, RowCreated, RowWritten, Open, Live

LEMMA ReadPendingStays ==
  ASSUME SystemTypeOK, SystemTypeOK', IdsAreFresh, RowsMove, NEW e \in EventIds,
         NEW version \in Int, ReadPending(e, version)
  PROVE  ReadPending(e, version)'
<1>1. rows[e].version \in Nat /\ rows'[e].version \in Nat
  BY DEF SystemTypeOK, TypeOK, DatabaseTypeOK, Event
<1> QED BY <1>1, RowsMoveFacts DEF ReadPending, Live

LEMMA ReadClaimedStays ==
  ASSUME SystemTypeOK, SystemTypeOK', IdsAreFresh, RowsMove, NEW e \in EventIds,
         NEW ev \in Event, ReadClaimed(e, ev)
  PROVE  /\ rows'[e].status \notin {"NONE", "PENDING"}
         /\ ev.version <= rows'[e].version
         /\ rows'[e].user = ev.user
         /\ Live(e)' /\ rows'[e].version = ev.version =>
              /\ rows'[e].status = "PROCESSING"
              /\ rows'[e].target = ev.target
              /\ rows'[e].local = ev.local
<1>1. rows[e].version \in Nat /\ rows'[e].version \in Nat /\ ev.version \in Nat
  BY DEF SystemTypeOK, TypeOK, DatabaseTypeOK, Event
<1> QED BY <1>1, RowsMoveFacts DEF ReadClaimed, Live

-----------------------------------------------------------------------------
\* Every step moves every row as RowMoves says.
LEMMA RowsStay ==
  ASSUME SystemTypeOK, UNCHANGED <<rows, lastId>>
  PROVE  RowsMove
<1>1. lastId \in Nat
  BY MaxEventsAssumption DEF SystemTypeOK, TypeOK, DatabaseTypeOK
<1> QED BY <1>1 DEF RowsMove, RowMoves

LEMMA CreateMovesRows ==
  ASSUME SystemTypeOK, IdsAreFresh, NEW ev \in Event, ev.status = "PENDING", create(ev)
  PROVE  RowsMove
<1>1. /\ lastId \in Nat /\ lastId' = lastId + 1 /\ lastId + 1 \in EventIds
      /\ rows' = [rows EXCEPT ![lastId + 1] = ev]
      /\ rows \in [EventIds -> Event]
  BY MaxEventsAssumption DEF create, SystemTypeOK, TypeOK, DatabaseTypeOK, EventIds
<1>2. rows[lastId + 1].status = "NONE"
  BY <1>1 DEF IdsAreFresh
<1>3. ASSUME NEW e \in EventIds PROVE RowMoves(e)
  <2>1. CASE e = lastId + 1
    BY <1>1, <1>2, <2>1 DEF RowMoves, RowCreated
  <2>2. CASE e # lastId + 1
    BY <1>1, <2>2 DEF RowMoves
  <2> QED BY <2>1, <2>2
<1> QED BY <1>1, <1>3 DEF RowsMove

LEMMA EraseMovesRows ==
  ASSUME SystemTypeOK, NEW u \in Users, DeleteUser(u)
  PROVE  RowsMove
<1>1. lastId \in Nat /\ lastId' = lastId /\ users'[u] = "deleted" /\ CascadeDelete(u)
  BY MaxEventsAssumption DEF SystemTypeOK, TypeOK, DatabaseTypeOK, DeleteUser
<1>2. ASSUME NEW e \in EventIds PROVE RowMoves(e)
  <2>1. CASE Live(e) /\ rows[e].user = u
    BY <1>1, <2>1 DEF CascadeDelete, DeleteUser, RowMoves, RowErased
  <2>2. CASE ~(Live(e) /\ rows[e].user = u)
    BY <1>1, <2>2 DEF CascadeDelete, RowMoves
  <2> QED BY <2>1, <2>2
<1> QED BY <1>1, <1>2 DEF RowsMove

\* A write that passes the version check, of an entity that agrees with the row
\* wherever the row is no longer PENDING.
LEMMA UpdateMovesRows ==
  ASSUME SystemTypeOK, NEW i \in EventIds, NEW ev \in Event, Open(i), ev.status \in EventStatus,
         rows[i].status = "PENDING" => ev.status = "PENDING",
         rows[i].status # "PENDING" =>
           ev.status # "PENDING" /\ ev.target = rows[i].target /\ ev.local = rows[i].local,
         UpdateMatches(i, ev), update(i, ev), UNCHANGED lastId
  PROVE  RowsMove
<1>1. lastId \in Nat /\ rows \in [EventIds -> Event]
  BY MaxEventsAssumption DEF SystemTypeOK, TypeOK, DatabaseTypeOK
<1>2. /\ rows'[i].status = ev.status /\ rows'[i].version = ev.version
      /\ rows'[i].target = ev.target /\ rows'[i].local = ev.local
      /\ rows'[i].user = rows[i].user
  <2>1. rows'[i] = [rows[i] EXCEPT !.status = ev.status, !.target = ev.target, !.local = ev.local,
                                   !.retryCount = ev.retryCount, !.version = ev.version]
    BY <1>1, Zenon DEF update
  <2>2. rows[i] \in Event
    BY <1>1
  <2> QED BY <2>1, <2>2 DEF Event
<1>3. rows[i].version = ev.version - 1 /\ ev.version \in Nat
  BY DEF UpdateMatches, Event
<1>4. ASSUME NEW e \in EventIds PROVE RowMoves(e)
  <2>1. CASE e = i
    BY <1>2, <1>3, <2>1 DEF RowMoves, RowWritten
  <2>2. CASE e # i
    BY <1>1, <2>2, Zenon DEF update, RowMoves
  <2> QED BY <2>1, <2>2
<1> QED BY <1>1, <1>4 DEF RowsMove

LEMMA ClaimMovesRows ==
  ASSUME FrozenInv, NEW s \in Schedulers, MarkProcessing(s)
  PROVE  RowsMove
<1>1. lastId \in Nat /\ lastId' = lastId /\ rows \in [EventIds -> Event]
  BY MaxEventsAssumption DEF FrozenInv, SystemTypeOK, TypeOK, DatabaseTypeOK, MarkProcessing
<1>2. ASSUME NEW e \in EventIds PROVE RowMoves(e)
  <2>1. CASE e \in sched[s].todo
    <3>1. rows[e].status = "PENDING" /\ rows[e] \in Event /\ e \notin locked'
      BY <1>1, <2>1 DEF FrozenInv, SchedulerClaims, ClaimIsLocked, MarkProcessing
    <3>2. rows'[e] = [rows[e] EXCEPT !.status = "PROCESSING", !.version = rows[e].version + 1]
      BY <2>1, Zenon DEF MarkProcessing, ToProcessing
    <3>3. /\ rows'[e].status = "PROCESSING" /\ rows'[e].version > rows[e].version
          /\ rows'[e].user = rows[e].user
      BY <3>1, <3>2 DEF Event
    <3> QED BY <3>1, <3>3 DEF RowMoves, RowWritten, Open, EventStatus
  <2>2. CASE e \notin sched[s].todo
    BY <2>2 DEF MarkProcessing, ToProcessing, RowMoves
  <2> QED BY <2>1, <2>2
<1> QED BY <1>1, <1>2 DEF RowsMove

LEMMA RegistrationMoves ==
  ASSUME FrozenInv, NEW u \in Users, Registration(u)
  PROVE  RowsMove
<1>1. SystemTypeOK /\ IdsAreFresh /\ profile[u] \in Profiles /\ now \in Nat
  BY DEF FrozenInv, SystemTypeOK, UserUpdatesTypeOK, TypeOK, PlatformTypeOK
<1>2. CASE CreateBirthdayEventAt(u, Occurrence(profile[u], now))
  <2> DEFINE ev == PendingEvent(u, Occurrence(profile[u], now), "complete")
  <2>1. ev \in Event
    BY <1>1, OccurrenceIsLater, PendingEventType DEF Payloads
  <2>2. ev.status = "PENDING"
    BY DEF PendingEvent
  <2>3. create(ev)
    BY <1>2 DEF CreateBirthdayEventAt
  <2> HIDE DEF ev
  <2> QED BY <1>1, <2>1, <2>2, <2>3, CreateMovesRows
<1>3. CASE DeleteUser(u)
  BY <1>1, <1>3, EraseMovesRows DEF DeleteUser
<1>4. CASE UNCHANGED <<rows, lastId>>
  BY <1>1, <1>4, RowsStay
<1> QED BY <1>2, <1>3, <1>4 DEF Registration, CreateUser, CreateBirthdayEventFails

\* A request writes what it read as PENDING, and only if the row still is.
LEMMA RequestMoves ==
  ASSUME FrozenInv, NEW r \in Requests, UpdateRuns(r) \/ UpdateFails(r)
  PROVE  RowsMove
<1>1. SystemTypeOK
  BY DEF FrozenInv
<1>2. CASE StoreRescheduled(r) /\ UpdateMatches(request[r].id, request[r].ev)
  <2>1. /\ request[r].id \in EventIds /\ request[r].ev.status = "PENDING"
        /\ ReadPending(request[r].id, request[r].ev.version - 1)
    BY <1>2 DEF FrozenInv, RequestCopies, CopiesOf, StoreRescheduled
  <2>2. request[r].ev \in Event
    BY <1>1 DEF SystemTypeOK, UserUpdatesTypeOK
  <2>3. rows[request[r].id].status = "PENDING"
    BY <1>2, <2>1 DEF ReadPending, UpdateMatches
  <2> QED BY <1>1, <1>2, <2>1, <2>2, <2>3, UpdateMovesRows DEF StoreRescheduled, Open, EventStatus
<1>3. CASE ~(StoreRescheduled(r) /\ UpdateMatches(request[r].id, request[r].ev))
  <2>1. UNCHANGED <<rows, lastId>>
    BY <1>3 DEF UpdateRuns, UpdateFails, ReadUser, WriteUser, FindPending, StoreRescheduled,
                RescheduleFails, UpdateStops, databaseVars
  <2> QED BY <1>1, <2>1, RowsStay
<1> QED BY <1>2, <1>3

\* A worker writes target and time back as it read them.
LEMMA SettleMovesRows ==
  ASSUME FrozenInv, NEW w \in Workers, worker[w].pc \notin {"idle", "next"},
         NEW ev \in {markCompleted(worker[w].ev), markFailed(worker[w].ev)},
         UpdateMatches(Current(w), ev), update(Current(w), ev), UNCHANGED lastId
  PROVE  RowsMove
<1>1. SystemTypeOK /\ worker[w].ev \in Event
  BY DEF FrozenInv, SystemTypeOK, TypeOK, WorkerTypeOK
<1>2. /\ ev.status \in EventStatus \ {"PENDING"} /\ ev.version = worker[w].ev.version + 1
      /\ ev.target = worker[w].ev.target /\ ev.local = worker[w].ev.local
  BY <1>1 DEF markCompleted, markFailed, Event, EventStatus
<1>3. ev \in Event
  BY <1>1, SettleType
<1>4. worker[w].msg \in Messages /\ ReadClaimed(Current(w), worker[w].ev)
  BY DEF FrozenInv, WorkerCopies
<1>5. Current(w) \in EventIds
  BY <1>4 DEF Current, Messages
<1>6. Live(Current(w)) /\ rows[Current(w)].version = worker[w].ev.version
  <2>1. worker[w].ev.version \in Nat
    BY <1>1 DEF Event
  <2> QED BY <1>2, <2>1 DEF UpdateMatches
<1>7. /\ ev.target = rows[Current(w)].target /\ ev.local = rows[Current(w)].local
      /\ rows[Current(w)].status = "PROCESSING"
  BY <1>2, <1>4, <1>6 DEF ReadClaimed
<1> QED BY <1>1, <1>2, <1>3, <1>5, <1>7, UpdateMovesRows DEF Open

LEMMA WorkerMoves ==
  ASSUME FrozenInv, NEW w \in Workers, WorkerGoesOn(w) \/ WorkerFails(w) \/ FollowUp(w)
  PROVE  RowsMove
<1>1. SystemTypeOK /\ IdsAreFresh
  BY DEF FrozenInv
<1>2. CASE MarkFailed(w) /\ UpdateMatches(Current(w), markFailed(worker[w].ev))
  BY <1>2, SettleMovesRows DEF MarkFailed
<1>3. CASE CompleteEvent(w) /\ UpdateMatches(Current(w), markCompleted(worker[w].ev))
  BY <1>3, SettleMovesRows DEF CompleteEvent
<1>4. CASE FollowUp(w)
  <2>1. /\ celebrant[w] \in Profiles /\ worker[w].ev.local \in Int
        /\ worker[w].ev.user \in Users \cup {NoUser}
    BY <1>1 DEF SystemTypeOK, TypeOK, WorkerTypeOK, Event
  <2> DEFINE next == PendingEvent(worker[w].ev.user, Occurrence(celebrant[w], worker[w].ev.local),
                                  "messageOnly")
  <2>2. next \in Event
    <3>1. Occurrence(celebrant[w], worker[w].ev.local) \in Int /\ "messageOnly" \in Payloads
      BY <2>1, OccurrenceIsLater DEF Payloads
    <3> QED BY <2>1, <3>1, PendingEventType
  <2>3. next.status = "PENDING"
    BY DEF PendingEvent
  <2>4. UNCHANGED <<rows, lastId>> \/ create(next)
    BY <1>4 DEF FollowUp, CreateFollower
  <2> HIDE DEF next
  <2> QED BY <1>1, <2>2, <2>3, <2>4, CreateMovesRows, RowsStay
<1>5. CASE UNCHANGED <<rows, lastId>>
  BY <1>1, <1>5, RowsStay
<1>6. CASE WorkerGoesOn(w) \/ WorkerFails(w)
  <2>1. ~CreateNextYear(w) \/ WorkerFails(w)
    BY <1>6 DEF WorkerGoesOn, CreateNextYear, CreateFollower
  <2> QED
    BY <1>2, <1>3, <1>5, <1>6, <2>1
    DEF WorkerGoesOn, WorkerRuns, WorkerFails, databaseVars, Receive, SkipRecord, RejectPayload,
        StartRecord, DeliverAccepted, DeliverRejected, MarkFailed, FindUser, CompleteEvent, Finish,
        RetryDelivery, DeliverFails, WorkerStops
<1> QED BY <1>4, <1>6

LEMMA PipelineMoves ==
  ASSUME FrozenInv, Pipeline
  PROVE  RowsMove
<1>1. SystemTypeOK
  BY DEF FrozenInv
<1>2. CASE \E w \in Workers : WorkerGoesOn(w) \/ WorkerFails(w) \/ FollowUp(w)
  BY <1>2, WorkerMoves
<1>3. CASE \E s \in Schedulers : MarkProcessing(s)
  BY <1>3, ClaimMovesRows
<1>4. CASE UNCHANGED <<rows, lastId>>
  BY <1>1, <1>4, RowsStay
<1>5. CASE \E s \in Schedulers : SchedulerRuns(s) \/ SchedulerFails(s)
  BY <1>3, <1>4, <1>5
  DEF SchedulerRuns, SchedulerFails, databaseVars, Invoke, FindMissedEvents, QueueMissed,
      QueueMissedFails, RecoveryDone, RecoveryFails, SelectForUpdate, ClaimFails, SendClaimed,
      SendFails, SchedulerStops
<1>6. CASE ClockTicks \/ \E m \in Messages : QueueRuns(m) \/ QueueOvertakes(m)
  BY <1>4, <1>6 DEF ClockTicks, QueueRuns, QueueOvertakes, VisibilityTimeout,
                    VisibilityTimeoutEarly, Redrive, databaseVars
<1> QED BY <1>2, <1>5, <1>6 DEF Pipeline

-----------------------------------------------------------------------------
\* Every step keeps what the copies say of their rows.
Moved == FrozenInv /\ SystemTypeOK' /\ ActorsHaveUsers' /\ RowsMove

LEMMA IdsStayFresh ==
  ASSUME Moved
  PROVE  IdsAreFresh'
<1>1. \A e \in EventIds : e > lastId' => rows'[e].status = "NONE"
  BY RowsMoveFacts DEF Moved, FrozenInv
<1> QED BY <1>1 DEF IdsAreFresh

LEMMA CopiesStay ==
  ASSUME Moved, NEW r \in Requests, request'[r] = request[r]
  PROVE  CopiesOf(r)'
<1>1. /\ request[r].todo \subseteq EventIds \X Event
      /\ request[r].ev.version \in Int
  BY DEF Moved, FrozenInv, SystemTypeOK, UserUpdatesTypeOK, Event
<1>2. CopiesOf(r)
  BY DEF Moved, FrozenInv, RequestCopies
<1>3. ASSUME NEW e \in EventIds, NEW version \in Int, ReadPending(e, version)
      PROVE  ReadPending(e, version)'
  BY <1>3, ReadPendingStays DEF Moved, FrozenInv
<1>4. ASSUME NEW c \in request[r].todo
      PROVE  c[2].status = "PENDING" /\ ReadPending(c[1], c[2].version)'
  <2>1. c[1] \in EventIds /\ c[2].version \in Int
    BY <1>1 DEF Event
  <2>2. c[2].status = "PENDING" /\ ReadPending(c[1], c[2].version)
    BY <1>2 DEF CopiesOf
  <2> QED BY <1>3, <2>1, <2>2
<1>5. ASSUME request[r].pc = "store"
      PROVE  /\ request[r].id \in EventIds
             /\ request[r].ev.status = "PENDING"
             /\ ReadPending(request[r].id, request[r].ev.version - 1)'
  <2>1. PICK i \in EventIds, v \in Int :
          i = request[r].id /\ v = request[r].ev.version - 1 /\ ReadPending(i, v)
    BY <1>1, <1>2, <1>5 DEF CopiesOf
  <2>2. ReadPending(i, v)'
    BY <1>3, <2>1
  <2> QED BY <1>2, <1>5, <2>1, <2>2 DEF CopiesOf, ReadPending, Live
<1> QED BY <1>4, <1>5 DEF CopiesOf, ReadPending, Live

\* What r read, or a part of it, after a step.
LEMMA CopiesMove ==
  ASSUME Moved, NEW r \in Requests, NEW req, request' = [request EXCEPT ![r] = req],
         NEW read \in SUBSET (EventIds \X Event),
         \A c \in read : c[2].status = "PENDING" /\ ReadPending(c[1], c[2].version),
         req.todo \subseteq read,
         req.pc = "store" => \E c \in read : /\ req.id = c[1]
                                             /\ req.ev.status = c[2].status
                                             /\ req.ev.version = c[2].version + 1
  PROVE  RequestCopies'
<1>1. ASSUME NEW c \in read
      PROVE  /\ c[1] \in EventIds /\ c[2].version \in Nat
             /\ c[2].status = "PENDING"
             /\ ReadPending(c[1], c[2].version)'
  <2>1. c[1] \in EventIds /\ c[2].version \in Nat
    BY DEF Event
  <2> QED BY <2>1, ReadPendingStays DEF Moved, FrozenInv
<1>2. request'[r] = req /\ \A q \in Requests : q # r => request'[q] = request[q]
  BY DEF Moved, FrozenInv, SystemTypeOK, UserUpdatesTypeOK
<1>3. ASSUME NEW c \in req.todo
      PROVE  c[2].status = "PENDING" /\ ReadPending(c[1], c[2].version)'
  BY <1>1
<1>4. ASSUME req.pc = "store"
      PROVE  /\ req.id \in EventIds /\ req.ev.status = "PENDING"
             /\ \E i, v : i = req.id /\ v = req.ev.version - 1 /\ ReadPending(i, v)'
  <2>1. PICK c \in read : /\ req.id = c[1]
                          /\ req.ev.status = c[2].status
                          /\ req.ev.version = c[2].version + 1
    BY <1>4
  <2>2. c[2].version = req.ev.version - 1
    BY <1>1, <2>1
  <2> QED BY <1>1, <2>1, <2>2
<1>5. CopiesOf(r)'
  BY <1>2, <1>3, <1>4 DEF CopiesOf, ReadPending, Live
<1>6. \A q \in Requests : q # r => CopiesOf(q)'
  BY <1>2, CopiesStay
<1> QED BY <1>5, <1>6 DEF RequestCopies

LEMMA RequestStepCopies ==
  ASSUME Moved, NEW r \in Requests, UpdateRuns(r) \/ UpdateFails(r)
  PROVE  RequestCopies'
<1>1. /\ request \in [Requests -> Request] /\ request[r] \in Request
      /\ rows \in [EventIds -> Event] /\ now \in Nat
  BY DEF Moved, FrozenInv, SystemTypeOK, UserUpdatesTypeOK, Request, TypeOK, PlatformTypeOK, DatabaseTypeOK
<1>2. /\ request[r].todo \in SUBSET (EventIds \X Event)
      /\ \A c \in request[r].todo : c[2].status = "PENDING" /\ ReadPending(c[1], c[2].version)
  BY <1>1 DEF Moved, FrozenInv, RequestCopies, CopiesOf, Request
<1>3. CASE ReadUser(r)
  <2>1. PICK u \in Users, new \in Profiles, moved \in BOOLEAN :
          request' = [request EXCEPT ![r] = [@ EXCEPT !.pc = "write", !.user = u, !.old = profile[u],
                                                     !.new = new, !.moved = moved]]
    BY <1>3 DEF ReadUser
  <2> DEFINE req == [request[r] EXCEPT !.pc = "write", !.user = u, !.old = profile[u],
                                       !.new = new, !.moved = moved]
  <2>2. request' = [request EXCEPT ![r] = req]
    BY <2>1
  <2>3. req.todo = request[r].todo /\ req.pc = "write"
    BY <1>1 DEF Request
  <2> HIDE DEF req
  <2> QED BY <1>2, <2>2, <2>3, CopiesMove
<1>4. CASE WriteUser(r)
  <2>1. PICK req \in {FirstTopic(request[r]), IdleRequest} : request' = [request EXCEPT ![r] = req]
    BY <1>1, <1>4 DEF WriteUser
  <2>2. req.todo \subseteq request[r].todo /\ req.pc # "store"
    BY <1>1, <2>1, FirstTopicType DEF IdleRequest
  <2> QED BY <1>2, <2>1, <2>2, CopiesMove
<1>5. CASE FindPending(r)
  <2> DEFINE pending == {<<e, rows[e]>> : e \in {e \in EventIds : /\ rows[e].user = request[r].user
                                                                 /\ CanReschedule(rows[e])}}
  <2>1. PICK next \in NextEvents(request[r], pending) : request' = [request EXCEPT ![r] = next]
    BY <1>5 DEF FindPending
  <2>2. pending \in SUBSET (EventIds \X Event)
    BY <1>1
  <2>3. \A c \in pending : c[2].status = "PENDING" /\ ReadPending(c[1], c[2].version)
    BY <1>1 DEF CanReschedule, ReadPending, Event
  <2> HIDE DEF pending
  <2>4. /\ next.todo \subseteq pending
        /\ next.pc = "store" => \E c \in pending : /\ next.id = c[1]
                                                   /\ next.ev.status = c[2].status
                                                   /\ next.ev.version = c[2].version + 1
    BY <1>1, <2>1, <2>2, NextEventsType
  <2> QED BY <2>1, <2>2, <2>3, <2>4, CopiesMove
<1>6. CASE StoreRescheduled(r)
  <2>1. PICK next \in NextEvents(request[r], request[r].todo) : request' = [request EXCEPT ![r] = next]
    BY <1>6 DEF StoreRescheduled
  <2>2. /\ next.todo \subseteq request[r].todo
        /\ next.pc = "store" => \E c \in request[r].todo : /\ next.id = c[1]
                                                           /\ next.ev.status = c[2].status
                                                           /\ next.ev.version = c[2].version + 1
    BY <1>1, <1>2, <2>1, NextEventsType
  <2> QED BY <1>2, <2>1, <2>2, CopiesMove
<1>7. CASE UpdateFails(r)
  <2>1. PICK req \in {NextTopic(request[r]), IdleRequest} : request' = [request EXCEPT ![r] = req]
    BY <1>1, <1>7 DEF UpdateFails, RescheduleFails, UpdateStops
  <2>2. req.todo = {} /\ req.pc # "store"
    BY <1>1, <2>1, NextTopicType DEF IdleRequest
  <2> QED BY <1>2, <2>1, <2>2, CopiesMove
<1> QED BY <1>3, <1>4, <1>5, <1>6, <1>7 DEF UpdateRuns

\* A worker that does not step keeps a copy that is still one of its row.
LEMMA WorkerCopyStays ==
  ASSUME Moved, NEW w \in Workers, worker[w].pc \notin {"idle", "next"},
         worker'[w].msg = worker[w].msg, worker'[w].ev = worker[w].ev
  PROVE  worker'[w].msg \in Messages /\ ReadClaimed(Current(w), worker[w].ev)'
<1>1. worker[w].msg \in Messages /\ ReadClaimed(Current(w), worker[w].ev)
  BY DEF Moved, FrozenInv, WorkerCopies
<1>2. Current(w) \in EventIds /\ Current(w)' = Current(w)
  BY <1>1 DEF Current, Messages
<1>3. worker[w].ev \in Event
  BY DEF Moved, FrozenInv, SystemTypeOK, TypeOK, WorkerTypeOK
<1>4. /\ rows'[Current(w)].status \notin {"NONE", "PENDING"}
      /\ worker[w].ev.version <= rows'[Current(w)].version
      /\ rows'[Current(w)].user = worker[w].ev.user
      /\ rows'[Current(w)].status \in EventStatus /\ rows'[Current(w)].version = worker[w].ev.version =>
           /\ rows'[Current(w)].status = "PROCESSING"
           /\ rows'[Current(w)].target = worker[w].ev.target
           /\ rows'[Current(w)].local = worker[w].ev.local
  BY <1>1, <1>2, <1>3, ReadClaimedStays DEF Moved, FrozenInv, Live
<1> QED BY <1>1, <1>2, <1>4 DEF ReadClaimed, Live

LEMMA WorkersStay ==
  ASSUME Moved, UNCHANGED worker
  PROVE  WorkerCopies'
  BY WorkerCopyStays DEF WorkerCopies

LEMMA WorkerStepCopies ==
  ASSUME Moved, NEW w \in Workers, WorkerGoesOn(w) \/ WorkerFails(w) \/ FollowUp(w)
  PROVE  WorkerCopies'
<1>1. /\ worker \in [Workers -> [pc : WorkerPcs, batch : SUBSET Messages, todo : SUBSET Messages,
                                 msg : Messages \cup {NoMessage}, ev : Event, retries : Nat]]
      /\ rows \in [EventIds -> Event]
  BY DEF Moved, FrozenInv, SystemTypeOK, TypeOK, WorkerTypeOK, DatabaseTypeOK
<1>2. \A v \in Workers : v # w => worker'[v] = worker[v]
  BY <1>1 DEF WorkerGoesOn, FollowUp, WorkerRuns, WorkerFails, Receive, SkipRecord, RejectPayload,
              StartRecord, DeliverAccepted, DeliverRejected, MarkFailed, FindUser, CompleteEvent,
              CreateNextYear, CreateFollower, Finish, RetryDelivery, DeliverFails, WorkerStops,
              WorkerGoTo, Return, Throw
<1>3. \/ worker'[w].pc \in {"idle", "next"}
      \/ /\ worker[w].pc \notin {"idle", "next"}
         /\ worker'[w].msg = worker[w].msg /\ worker'[w].ev = worker[w].ev
      \/ StartRecord(w)
  <2>1. ASSUME Return(w) \/ Throw(w)
        PROVE  worker'[w].pc \in {"idle", "next"}
    <3>1. CASE Return(w)
      <4>1. worker'[w] = [worker[w] EXCEPT !.pc = "next", !.todo = worker[w].todo \ {worker[w].msg},
                                           !.msg = NoMessage, !.ev = NoEvent]
        BY <1>1, <3>1, Zenon DEF Return
      <4>2. worker[w] \in [pc : WorkerPcs, batch : SUBSET Messages, todo : SUBSET Messages,
                           msg : Messages \cup {NoMessage}, ev : Event, retries : Nat]
        BY <1>1
      <4> QED BY <4>1, <4>2
    <3>2. CASE Throw(w)
      BY <1>1, <3>2 DEF Throw, IdleWorker
    <3> QED BY <2>1, <3>1, <3>2
  <2>2. ASSUME NEW pc, WorkerGoTo(w, pc)
        PROVE  worker'[w].msg = worker[w].msg /\ worker'[w].ev = worker[w].ev
    BY <1>1, <2>2 DEF WorkerGoTo
  <2>3. CASE Receive(w) \/ SkipRecord(w)
    BY <1>1, <2>3 DEF Receive, SkipRecord
  <2>4. CASE DeliverAccepted(w) \/ DeliverRejected(w) \/ FindUser(w)
    BY <2>2, <2>4 DEF DeliverAccepted, DeliverRejected, FindUser
  <2>5. CASE CompleteEvent(w)
    BY <2>1, <2>2, <2>5 DEF CompleteEvent
  <2>6. CASE RetryDelivery(w)
    BY <1>1, <2>6 DEF RetryDelivery
  <2>7. CASE RejectPayload(w) \/ MarkFailed(w) \/ Finish(w) \/ DeliverFails(w) \/ WorkerStops(w)
             \/ CreateNextYear(w) \/ FollowUp(w)
    BY <2>1, <2>7 DEF RejectPayload, MarkFailed, Finish, DeliverFails, WorkerStops, CreateNextYear,
                      CreateFollower, FollowUp, Throw
  <2> QED BY <2>3, <2>4, <2>5, <2>6, <2>7 DEF WorkerGoesOn, WorkerRuns, WorkerFails
<1>4. ASSUME StartRecord(w)
      PROVE  worker'[w].msg \in Messages /\ ReadClaimed(Current(w), worker[w].ev)'
  <2>1. PICK m \in worker[w].todo :
          /\ rows[m[1]].status = "PROCESSING"
          /\ worker' = [worker EXCEPT ![w] = [@ EXCEPT !.pc = "deliver", !.msg = m, !.ev = rows[m[1]],
                                                      !.retries = 0]]
    BY <1>4 DEF StartRecord
  <2>2. m \in Messages /\ rows[m[1]] \in Event
    BY <1>1 DEF Messages
  <2>3. worker'[w].msg = m /\ worker'[w].ev = rows[m[1]] /\ rows' = rows
    BY <1>1, <1>4, <2>1 DEF StartRecord, databaseVars
  <2> QED BY <2>1, <2>2, <2>3 DEF ReadClaimed, Current, Live, Event
<1> QED BY <1>2, <1>3, <1>4, WorkerCopyStays DEF WorkerCopies

LEMMA SchedulersStay ==
  ASSUME Moved, UNCHANGED <<sched, locked>>
  PROVE  SchedulerClaims'
<1>1. \A s \in Schedulers : sched[s].todo \subseteq EventIds
  BY DEF Moved, FrozenInv, SystemTypeOK, TypeOK, SchedulerTypeOK
<1>2. \A e \in EventIds : e \in locked /\ rows[e].status = "PENDING" => rows'[e].status = "PENDING"
  BY RowsMoveFacts DEF Moved, FrozenInv
<1> QED BY <1>1, <1>2 DEF Moved, FrozenInv, SchedulerClaims, ClaimIsLocked

\* A step of s that holds no claim afterwards and gives up its own locks at most.
LEMMA SchedulerRecordStep ==
  ASSUME Moved, NEW s \in Schedulers, NEW r, sched' = [sched EXCEPT ![s] = r],
         r.pc # "mark", r.pc \in {"idle", "recover", "claim"} => r.todo = {},
         \/ UNCHANGED locked
         \/ locked' = locked \ sched[s].todo /\ (sched[s].pc = "mark" \/ sched[s].todo = {})
  PROVE  SchedulerClaims'
<1>1. /\ \A t \in Schedulers : sched[t].todo \subseteq EventIds
      /\ sched'[s] = r
      /\ \A t \in Schedulers : t # s => sched'[t] = sched[t]
  BY DEF Moved, FrozenInv, SystemTypeOK, TypeOK, SchedulerTypeOK
<1>2. \A e \in EventIds :
        e \in locked /\ e \in locked' /\ rows[e].status = "PENDING" => rows'[e].status = "PENDING"
  BY RowsMoveFacts DEF Moved, FrozenInv
<1>3. ASSUME NEW t \in Schedulers, t # s, sched[t].pc = "mark", NEW e \in sched[t].todo
      PROVE  e \in locked /\ e \in locked' /\ rows[e].status = "PENDING"
  BY <1>3 DEF Moved, FrozenInv, SchedulerClaims, ClaimIsLocked
<1>4. \A t \in Schedulers : ClaimIsLocked(t)'
  BY <1>1, <1>2, <1>3 DEF Moved, FrozenInv, SchedulerClaims, ClaimIsLocked
<1> QED BY <1>1, <1>4 DEF Moved, FrozenInv, SchedulerClaims

LEMMA SelectStep ==
  ASSUME Moved, NEW s \in Schedulers, SelectForUpdate(s)
  PROVE  SchedulerClaims'
<1>1. PICK B \in EarliestFirst(ReadyEvents \ locked, ClaimLimit) :
        GoTo(s, IF B = {} THEN "idle" ELSE "mark", B) /\ locked' = locked \cup B
  BY DEF SelectForUpdate
<1>2. B \subseteq EventIds \ locked /\ \A e \in B : rows[e].status = "PENDING"
  BY DEF EarliestFirst, ReadyEvents
<1>3. /\ sched'[s].pc = (IF B = {} THEN "idle" ELSE "mark") /\ sched'[s].todo = B
      /\ \A t \in Schedulers : t # s => sched'[t] = sched[t]
      /\ UNCHANGED rows
  <2>1. sched \in [Schedulers -> [pc : SchedulerPcs, todo : SUBSET EventIds, warm : BOOLEAN]]
    BY DEF Moved, FrozenInv, SystemTypeOK, TypeOK, SchedulerTypeOK
  <2>2. sched[s] \in [pc : SchedulerPcs, todo : SUBSET EventIds, warm : BOOLEAN]
    BY <2>1
  <2>3. sched'[s] = [sched[s] EXCEPT !.pc = (IF B = {} THEN "idle" ELSE "mark"), !.todo = B]
    BY <1>1, <2>1 DEF GoTo
  <2>4. \A t \in Schedulers : t # s => sched'[t] = sched[t]
    BY <1>1, <2>1 DEF GoTo
  <2> QED BY <2>2, <2>3, <2>4 DEF SelectForUpdate
<1>4. \A t \in Schedulers : ClaimIsLocked(t)'
  BY <1>1, <1>2, <1>3 DEF Moved, FrozenInv, SchedulerClaims, ClaimIsLocked
<1>5. ASSUME NEW t \in Schedulers, t # s, sched[t].pc = "mark"
      PROVE  sched[t].todo \cap B = {}
  BY <1>2, <1>5 DEF Moved, FrozenInv, SchedulerClaims, ClaimIsLocked
<1> QED BY <1>3, <1>4, <1>5 DEF Moved, FrozenInv, SchedulerClaims

LEMMA SchedulerStepClaims ==
  ASSUME Moved, NEW s \in Schedulers, SchedulerRuns(s) \/ SchedulerFails(s)
  PROVE  SchedulerClaims'
<1>1. /\ sched \in [Schedulers -> [pc : SchedulerPcs, todo : SUBSET EventIds, warm : BOOLEAN]]
      /\ sched[s] \in [pc : SchedulerPcs, todo : SUBSET EventIds, warm : BOOLEAN]
      /\ ClaimIsLocked(s)
  BY DEF Moved, FrozenInv, SystemTypeOK, TypeOK, SchedulerTypeOK, SchedulerClaims
<1>2. ASSUME NEW pc, pc # "mark", NEW todo, pc \in {"idle", "recover", "claim"} => todo = {},
             GoTo(s, pc, todo),
             \/ UNCHANGED locked
             \/ locked' = locked \ sched[s].todo /\ (sched[s].pc = "mark" \/ sched[s].todo = {})
      PROVE  SchedulerClaims'
  <2> DEFINE r == [sched[s] EXCEPT !.pc = pc, !.todo = todo]
  <2>1. r.pc = pc /\ r.todo = todo
    BY <1>1
  <2>2. sched' = [sched EXCEPT ![s] = r]
    BY <1>2 DEF GoTo
  <2> HIDE DEF r
  <2> QED BY <1>2, <2>1, <2>2, SchedulerRecordStep
<1>3. CASE Invoke(s) \/ FindMissedEvents(s) \/ QueueMissed(s) \/ QueueMissedFails(s) \/ SendFails(s)
  BY <1>2, <1>3 DEF Invoke, FindMissedEvents, QueueMissed, QueueMissedFails, SendFails, databaseVars
<1>4. CASE SendClaimed(s)
  <2>1. PICK e \in NextUp(s) : GoTo(s, IF sched[s].todo \ {e} = {} THEN "idle" ELSE "send", sched[s].todo \ {e})
    BY <1>4 DEF SendClaimed
  <2> QED BY <1>2, <1>4, <2>1 DEF SendClaimed, databaseVars
<1>5. CASE ClaimFails(s)
  BY <1>1, <1>2, <1>5 DEF ClaimFails, ClaimIsLocked
<1>6. CASE RecoveryDone(s) \/ RecoveryFails(s)
  <2> DEFINE r == [sched[s] EXCEPT !.pc = "claim", !.warm = TRUE]
  <2>1. sched' = [sched EXCEPT ![s] = r] /\ UNCHANGED locked
    BY <1>6 DEF RecoveryDone, RecoveryFails, databaseVars
  <2>2. sched[s].todo = {}
    BY <1>1, <1>6 DEF RecoveryDone, RecoveryFails, ClaimIsLocked
  <2>3. r.pc = "claim" /\ r.todo = {}
    BY <1>1, <2>2
  <2> HIDE DEF r
  <2> QED BY <2>1, <2>3, SchedulerRecordStep
<1>7. CASE MarkProcessing(s)
  <2> DEFINE r == [sched[s] EXCEPT !.pc = "send"]
  <2>1. sched' = [sched EXCEPT ![s] = r] /\ locked' = locked \ sched[s].todo /\ sched[s].pc = "mark"
    BY <1>7 DEF MarkProcessing
  <2>2. r.pc = "send"
    BY <1>1
  <2> HIDE DEF r
  <2> QED BY <2>1, <2>2, SchedulerRecordStep
<1>8. CASE SchedulerStops(s)
  <2> DEFINE r == [pc |-> "idle", todo |-> {}, warm |-> FALSE]
  <2>1. sched' = [sched EXCEPT ![s] = r] /\ r.pc = "idle" /\ r.todo = {}
    BY <1>8 DEF SchedulerStops
  <2>2. \/ UNCHANGED locked
        \/ locked' = locked \ sched[s].todo /\ sched[s].pc = "mark"
    BY <1>8 DEF SchedulerStops
  <2> HIDE DEF r
  <2> QED BY <2>1, <2>2, SchedulerRecordStep
<1> QED BY <1>3, <1>4, <1>5, <1>6, <1>7, <1>8, SelectStep DEF SchedulerRuns, SchedulerFails

-----------------------------------------------------------------------------
LEMMA FrozenInit == SystemInit => FrozenInv
<1> SUFFICES ASSUME SystemInit PROVE FrozenInv
  OBVIOUS
<1>1. IdsAreFresh
  BY DEF SystemInit, Init, DatabaseInit, IdsAreFresh, NoEvent
<1>2. RequestCopies
  BY DEF SystemInit, UserUpdatesInit, IdleRequest, RequestCopies, CopiesOf
<1>3. WorkerCopies
  BY DEF SystemInit, Init, WorkerInit, IdleWorker, WorkerCopies
<1>4. SchedulerClaims
  BY DEF SystemInit, Init, SchedulerInit, SchedulerClaims, ClaimIsLocked
<1> QED BY <1>1, <1>2, <1>3, <1>4, SystemInitType DEF FrozenInv

LEMMA SystemStepMoves ==
  ASSUME FrozenInv, [SystemNext]_systemVars
  PROVE  Moved
<1>1. SystemTypeOK' /\ ActorsHaveUsers'
  BY SystemStepType DEF FrozenInv
<1>2. ASSUME UNCHANGED systemVars PROVE RowsMove
  BY <1>2, RowsStay DEF systemVars, vars, databaseVars, FrozenInv
<1>3. RowsMove
  BY <1>2, RegistrationMoves, RequestMoves, PipelineMoves DEF SystemNext
<1> QED BY <1>1, <1>3 DEF Moved

LEMMA FrozenStep ==
  ASSUME FrozenInv, [SystemNext]_systemVars
  PROVE  FrozenInv'
<1>1. Moved
  BY SystemStepMoves
<1>a. ASSUME UNCHANGED request PROVE RequestCopies'
  BY <1>1, <1>a, CopiesStay DEF RequestCopies
<1>2. CASE \E u \in Users : Registration(u)
  <2>1. UNCHANGED <<request, worker, sched, locked>>
    BY <1>2 DEF Registration, workerVars, CreateUser, CreateBirthdayEventAt, CreateBirthdayEventFails,
                DeleteUser
  <2> QED BY <1>1, <1>a, <2>1, IdsStayFresh, WorkersStay, SchedulersStay DEF FrozenInv, Moved
<1>3. CASE \E r \in Requests : UpdateRuns(r) \/ UpdateFails(r)
  <2>1. UNCHANGED <<worker, sched, locked>>
    BY <1>3 DEF UpdateRuns, UpdateFails, workerVars, ReadUser, WriteUser, FindPending, StoreRescheduled,
                RescheduleFails, UpdateStops, databaseVars
  <2> QED BY <1>1, <1>3, <2>1, IdsStayFresh, RequestStepCopies, WorkersStay, SchedulersStay
          DEF FrozenInv, Moved
<1>4. CASE Pipeline
  <2>1. UNCHANGED request
    BY <1>4 DEF Pipeline, updateVars
  <2>2. CASE \E w \in Workers : WorkerGoesOn(w) \/ WorkerFails(w) \/ FollowUp(w)
    <3>1. UNCHANGED <<sched, locked>>
      BY <2>2 DEF WorkerGoesOn, FollowUp, WorkerRuns, WorkerFails, databaseVars, Receive, SkipRecord,
                  RejectPayload, StartRecord, DeliverAccepted, DeliverRejected, RetryDelivery,
                  DeliverFails, MarkFailed, FindUser, CompleteEvent, CreateNextYear, CreateFollower,
                  Finish, WorkerStops
    <3> QED BY <1>1, <1>a, <2>1, <2>2, <3>1, IdsStayFresh, WorkerStepCopies, SchedulersStay
            DEF FrozenInv, Moved
  <2>3. CASE \E s \in Schedulers : SchedulerRuns(s) \/ SchedulerFails(s)
    <3>1. UNCHANGED worker
      BY <2>3 DEF SchedulerRuns, SchedulerFails, workerVars
    <3> QED BY <1>1, <1>a, <2>1, <2>3, <3>1, IdsStayFresh, WorkersStay, SchedulerStepClaims
            DEF FrozenInv, Moved
  <2>4. CASE ClockTicks \/ \E m \in Messages : QueueRuns(m) \/ QueueOvertakes(m)
    <3>1. UNCHANGED <<worker, sched, locked>>
      BY <2>4 DEF ClockTicks, QueueRuns, QueueOvertakes, VisibilityTimeout, VisibilityTimeoutEarly,
                  Redrive, workerVars, databaseVars
    <3> QED BY <1>1, <1>a, <2>1, <3>1, IdsStayFresh, WorkersStay, SchedulersStay DEF FrozenInv, Moved
  <2> QED BY <1>4, <2>2, <2>3, <2>4 DEF Pipeline
<1>5. CASE UNCHANGED systemVars
  <2>1. UNCHANGED <<request, worker, sched, locked>>
    BY <1>5 DEF systemVars, vars, updateVars, workerVars, databaseVars
  <2> QED BY <1>1, <1>a, <2>1, IdsStayFresh, WorkersStay, SchedulersStay DEF FrozenInv, Moved
<1> QED BY <1>2, <1>3, <1>4, <1>5 DEF SystemNext

\* Rescheduling never reaches an event that was claimed, settled or erased after it was
\* read as PENDING, however requests, Lambdas and deletions interleave.
THEOREM ClaimedEventsAreFrozen == SystemSpec => ClaimedIsFrozen
<1>1. SystemInit => FrozenInv
  BY FrozenInit
<1>2. FrozenInv /\ [SystemNext]_systemVars => FrozenInv'
  BY FrozenStep
<1>3. ASSUME FrozenInv, [SystemNext]_systemVars
      PROVE  [\A e \in EventIds :
                rows[e].status \notin {"NONE", "PENDING"} =>
                  /\ rows'[e].status \notin {"NONE", "PENDING"}
                  /\ rows'[e].target = rows[e].target
                  /\ rows'[e].local = rows[e].local]_systemVars
  <2>1. Moved
    BY <1>3, SystemStepMoves
  <2> QED BY <2>1, RowsMoveFacts DEF Moved, FrozenInv
<1> QED BY <1>1, <1>2, <1>3, PTL DEF SystemSpec, ClaimedIsFrozen

-----------------------------------------------------------------------------
(***************************************************************************)
(* The chain of a user's events: one is open, or a worker that has just    *)
(* completed the last one is about to create the next, never two of these. *)
(***************************************************************************)
Creating(w) == worker[w].pc = "create"

OneAtATime ==
  /\ OneOpenEventPerUser
  /\ \A w \in Workers : Creating(w) =>
       \A e \in EventIds : rows[e].user = worker[w].ev.user => ~Open(e)
  /\ \A v, w \in Workers :
       Creating(v) /\ Creating(w) /\ worker[v].ev.user = worker[w].ev.user => v = w
  /\ \A e \in EventIds : rows[e].status # "NONE" =>
       rows[e].user \in Users /\ users[rows[e].user] \in {"announced", "deleted"}

UsersMoveOn ==
  \A u \in Users : users[u] \in {"announced", "deleted"} => users'[u] \in {"announced", "deleted"}

\* A step that creates no event and starts no creation.
LEMMA QuietChain ==
  ASSUME Moved, OneAtATime, UNCHANGED lastId, UsersMoveOn,
         \A w \in Workers : worker'[w].pc = "create" => Creating(w) /\ worker'[w].ev = worker[w].ev
  PROVE  OneAtATime'
<1>1. ASSUME NEW e \in EventIds
      PROVE  /\ Open(e)' => Open(e)
             /\ rows'[e].status # "NONE" => rows[e].status # "NONE"
             /\ rows'[e].status # "NONE" => rows'[e].user = rows[e].user
  BY RowsMoveFacts DEF Moved, FrozenInv, Open
<1>2. \A e \in EventIds : Open(e)' => rows'[e].user = rows[e].user
  BY <1>1 DEF Open
<1>3. OneOpenEventPerUser'
  BY <1>1, <1>2 DEF OneAtATime, OneOpenEventPerUser, Open
<1>4. (\A w \in Workers : Creating(w) =>
         \A e \in EventIds : rows[e].user = worker[w].ev.user => ~Open(e))'
  BY <1>1, <1>2 DEF OneAtATime, Creating
<1>5. (\A v, w \in Workers :
         Creating(v) /\ Creating(w) /\ worker[v].ev.user = worker[w].ev.user => v = w)'
  BY DEF OneAtATime, Creating
<1>6. (\A e \in EventIds : rows[e].status # "NONE" =>
         rows[e].user \in Users /\ users[rows[e].user] \in {"announced", "deleted"})'
  BY <1>1 DEF OneAtATime, UsersMoveOn
<1> QED BY <1>3, <1>4, <1>5, <1>6 DEF OneAtATime

\* A step that creates an event for a user who has no open one.
LEMMA CreateChain ==
  ASSUME Moved, OneAtATime, NEW u \in Users, NEW ev \in Event, ev.user = u, create(ev),
         UsersMoveOn, users'[u] \in {"announced", "deleted"},
         \A e \in EventIds : rows[e].user = u => ~Open(e),
         \A w \in Workers : worker'[w].pc = "create" =>
           Creating(w) /\ worker'[w].ev = worker[w].ev /\ worker[w].ev.user # u
  PROVE  OneAtATime'
<1> DEFINE i == lastId + 1
<1>1. /\ rows \in [EventIds -> Event] /\ i \in EventIds
      /\ rows' = [rows EXCEPT ![i] = ev]
  BY MaxEventsAssumption DEF create, Moved, FrozenInv, SystemTypeOK, TypeOK, DatabaseTypeOK, EventIds
<1> HIDE DEF i
<1>2. rows'[i] = ev /\ \A e \in EventIds : e # i => rows'[e] = rows[e]
  BY <1>1
<1>3. OneOpenEventPerUser'
  <2> SUFFICES ASSUME NEW e \in EventIds, NEW f \in EventIds,
                      rows'[e].status \in {"PENDING", "PROCESSING"},
                      rows'[f].status \in {"PENDING", "PROCESSING"},
                      rows'[e].user = rows'[f].user, e # f
               PROVE  FALSE
    BY DEF OneOpenEventPerUser
  <2>1. CASE e # i /\ f # i
    BY <1>2, <2>1 DEF OneAtATime, OneOpenEventPerUser
  <2>2. CASE e = i \/ f = i
    BY <1>2, <2>2 DEF Open
  <2> QED BY <2>1, <2>2
<1>4. (\A w \in Workers : Creating(w) =>
         \A e \in EventIds : rows[e].user = worker[w].ev.user => ~Open(e))'
  BY <1>2 DEF OneAtATime, Creating, Open
<1>5. (\A v, w \in Workers :
         Creating(v) /\ Creating(w) /\ worker[v].ev.user = worker[w].ev.user => v = w)'
  BY DEF OneAtATime, Creating
<1>6. (\A e \in EventIds : rows[e].status # "NONE" =>
         rows[e].user \in Users /\ users[rows[e].user] \in {"announced", "deleted"})'
  BY <1>2 DEF OneAtATime, UsersMoveOn
<1> QED BY <1>3, <1>4, <1>5, <1>6 DEF OneAtATime

\* The user of a worker's event has been announced, and the worker's row is hers.
LEMMA CopyHasUser ==
  ASSUME FrozenInv, OneAtATime, NEW w \in Workers, worker[w].pc \notin {"idle", "next"}
  PROVE  /\ Current(w) \in EventIds
         /\ rows[Current(w)].status \notin {"NONE", "PENDING"}
         /\ rows[Current(w)].user = worker[w].ev.user
         /\ worker[w].ev.user \in Users
         /\ users[worker[w].ev.user] \in {"announced", "deleted"}
<1>1. worker[w].msg \in Messages /\ ReadClaimed(Current(w), worker[w].ev)
  BY DEF FrozenInv, WorkerCopies
<1>2. Current(w) \in EventIds
  BY <1>1 DEF Current, Messages
<1> QED BY <1>1, <1>2 DEF ReadClaimed, OneAtATime

LEMMA RegistrationChain ==
  ASSUME Moved, OneAtATime, NEW u \in Users, Registration(u)
  PROVE  OneAtATime'
<1>1. /\ users \in [Users -> UserStates] /\ profile[u] \in Profiles /\ now \in Nat
      /\ UNCHANGED worker
  BY DEF Moved, FrozenInv, SystemTypeOK, UserUpdatesTypeOK, TypeOK, PlatformTypeOK, DatabaseTypeOK,
         Registration, workerVars
<1>2. UsersMoveOn
  BY <1>1 DEF Registration, CreateUser, CreateBirthdayEventAt, CreateBirthdayEventFails, DeleteUser,
              UsersMoveOn
<1>3. CASE CreateBirthdayEventAt(u, Occurrence(profile[u], now))
  <2> DEFINE ev == PendingEvent(u, Occurrence(profile[u], now), "complete")
  <2>1. ev \in Event
    BY <1>1, OccurrenceIsLater, PendingEventType DEF Payloads
  <2>2. ev.user = u
    BY DEF PendingEvent
  <2>3. create(ev) /\ users[u] = "saved" /\ users'[u] = "announced"
    BY <1>1, <1>3 DEF CreateBirthdayEventAt
  <2> HIDE DEF ev
  <2>4. \A e \in EventIds : rows[e].user = u => ~Open(e)
    BY <2>3 DEF OneAtATime, Open
  <2>5. \A w \in Workers : Creating(w) => worker[w].ev.user # u
    BY <2>3, CopyHasUser DEF Creating, Moved
  <2> QED BY <1>1, <1>2, <2>1, <2>2, <2>3, <2>4, <2>5, CreateChain DEF Creating
<1>4. CASE UNCHANGED lastId
  BY <1>1, <1>2, <1>4, QuietChain DEF Creating
<1> QED BY <1>3, <1>4 DEF Registration, CreateUser, CreateBirthdayEventFails, DeleteUser

\* A worker completes the open event before it goes on to create the next.
LEMMA CompletionChain ==
  ASSUME Moved, OneAtATime, NEW w \in Workers, CompleteEvent(w), worker[w].pc = "complete",
         UpdateMatches(Current(w), markCompleted(worker[w].ev))
  PROVE  OneAtATime'
<1> DEFINE c == Current(w)
           u == worker[w].ev.user
<1>1. c \in EventIds /\ rows[c].user = u /\ worker[w].ev \in Event
      /\ rows \in [EventIds -> Event] /\ UNCHANGED <<users, lastId>>
  BY CopyHasUser DEF Moved, FrozenInv, SystemTypeOK, TypeOK, WorkerTypeOK, DatabaseTypeOK, CompleteEvent
<1>2. rows[c].status = "PROCESSING"
  <2>1. ReadClaimed(c, worker[w].ev)
    BY DEF Moved, FrozenInv, WorkerCopies
  <2>2. markCompleted(worker[w].ev).version = worker[w].ev.version + 1 /\ worker[w].ev.version \in Nat
    BY <1>1 DEF markCompleted, Event
  <2> QED BY <2>1, <2>2 DEF ReadClaimed, UpdateMatches
<1>3. rows'[c].status = "COMPLETED" /\ \A e \in EventIds : e # c => rows'[e] = rows[e]
  <2>1. update(c, markCompleted(worker[w].ev))
    BY DEF CompleteEvent
  <2>2. markCompleted(worker[w].ev).status = "COMPLETED"
    BY <1>1 DEF markCompleted, Event
  <2> DEFINE done == markCompleted(worker[w].ev)
  <2> HIDE DEF done
  <2>3. update(c, done) /\ done.status = "COMPLETED"
    BY <2>1, <2>2 DEF done
  <2>4. rows'[c] = [rows[c] EXCEPT !.status = done.status, !.target = done.target, !.local = done.local,
                                   !.retryCount = done.retryCount, !.version = done.version]
    BY <1>1, <2>3, Zenon DEF update
  <2>5. \A e \in EventIds : e # c => rows'[e] = rows[e]
    BY <1>1, <2>3, Zenon DEF update
  <2>6. rows[c] \in Event
    BY <1>1
  <2> QED BY <2>3, <2>4, <2>5, <2>6 DEF Event
<1>4. rows'[c].user = u
  BY <1>1, <1>2, RowsMoveFacts DEF Moved, FrozenInv
<1>5. /\ worker'[w].pc = "create" /\ worker'[w].ev = worker[w].ev
      /\ \A v \in Workers : v # w => worker'[v] = worker[v]
  <2>1. worker \in [Workers -> [pc : WorkerPcs, batch : SUBSET Messages, todo : SUBSET Messages,
                                msg : Messages \cup {NoMessage}, ev : Event, retries : Nat]]
    BY DEF Moved, FrozenInv, SystemTypeOK, TypeOK, WorkerTypeOK
  <2>2. WorkerGoTo(w, "create")
    BY DEF CompleteEvent
  <2> QED BY <2>1, <2>2 DEF WorkerGoTo
<1>6. \A e \in EventIds : rows[e].user = u /\ e # c => ~Open(e)
  BY <1>1, <1>2 DEF OneAtATime, OneOpenEventPerUser, Open
<1>7. \A v \in Workers : Creating(v) => worker[v].ev.user # u
  BY <1>1, <1>2 DEF OneAtATime, Open
<1> HIDE DEF c, u
<1>8. OneOpenEventPerUser'
  BY <1>3 DEF OneAtATime, OneOpenEventPerUser
<1>9. (\A v \in Workers : Creating(v) =>
         \A e \in EventIds : rows[e].user = worker[v].ev.user => ~Open(e))'
  <2> SUFFICES ASSUME NEW v \in Workers, worker'[v].pc = "create", NEW e \in EventIds,
                      rows'[e].user = worker'[v].ev.user
               PROVE  rows'[e].status \notin {"PENDING", "PROCESSING"}
    BY DEF Creating, Open
  <2>1. CASE e = c
    BY <1>3, <2>1
  <2>2. CASE e # c /\ v = w
    BY <1>3, <1>5, <1>6, <2>2 DEF Open, u
  <2>3. CASE e # c /\ v # w
    BY <1>3, <1>5, <2>3 DEF OneAtATime, Creating, Open
  <2> QED BY <2>1, <2>2, <2>3
<1>10. (\A v, x \in Workers :
          Creating(v) /\ Creating(x) /\ worker[v].ev.user = worker[x].ev.user => v = x)'
  BY <1>5, <1>7 DEF OneAtATime, Creating, u
<1>11. (\A e \in EventIds : rows[e].status # "NONE" =>
          rows[e].user \in Users /\ users[rows[e].user] \in {"announced", "deleted"})'
  BY <1>1, <1>2, <1>3, <1>4 DEF OneAtATime
<1> QED BY <1>8, <1>9, <1>10, <1>11 DEF OneAtATime

LEMMA WorkerChain ==
  ASSUME Moved, OneAtATime, NEW w \in Workers, WorkerGoesOn(w) \/ WorkerFails(w) \/ FollowUp(w)
  PROVE  OneAtATime'
<1>1. /\ worker \in [Workers -> [pc : WorkerPcs, batch : SUBSET Messages, todo : SUBSET Messages,
                                 msg : Messages \cup {NoMessage}, ev : Event, retries : Nat]]
      /\ worker[w].ev \in Event /\ celebrant[w] \in Profiles
  BY DEF Moved, FrozenInv, SystemTypeOK, TypeOK, WorkerTypeOK
<1>2. \A v \in Workers : v # w => worker'[v] = worker[v]
  BY <1>1 DEF WorkerGoesOn, FollowUp, WorkerRuns, WorkerFails, Receive, SkipRecord, RejectPayload,
              StartRecord, DeliverAccepted, DeliverRejected, MarkFailed, FindUser, CompleteEvent,
              CreateNextYear, CreateFollower, Finish, RetryDelivery, DeliverFails, WorkerStops,
              WorkerGoTo, Return, Throw
<1>3. UNCHANGED users
  BY DEF WorkerGoesOn, FollowUp, WorkerRuns, WorkerFails, Receive, SkipRecord, RejectPayload,
         StartRecord, DeliverAccepted, DeliverRejected, MarkFailed, FindUser, CompleteEvent,
         CreateNextYear, CreateFollower, Finish, RetryDelivery, DeliverFails, WorkerStops, databaseVars
<1>a. UsersMoveOn
  BY <1>3 DEF UsersMoveOn
<1>4. ASSUME worker'[w].pc # "create", UNCHANGED lastId PROVE OneAtATime'
  BY <1>2, <1>4, <1>a, QuietChain DEF Creating
<1>5. ASSUME Return(w) \/ Throw(w) PROVE worker'[w].pc # "create"
  <2>1. CASE Return(w)
    <3>1. worker'[w] = [worker[w] EXCEPT !.pc = "next", !.todo = worker[w].todo \ {worker[w].msg},
                                         !.msg = NoMessage, !.ev = NoEvent]
      BY <1>1, <2>1, Zenon DEF Return
    <3>2. worker[w] \in [pc : WorkerPcs, batch : SUBSET Messages, todo : SUBSET Messages,
                         msg : Messages \cup {NoMessage}, ev : Event, retries : Nat]
      BY <1>1
    <3> QED BY <3>1, <3>2
  <2>2. CASE Throw(w)
    BY <1>1, <2>2 DEF Throw, IdleWorker
  <2> QED BY <1>5, <2>1, <2>2
<1>6. CASE CompleteEvent(w) /\ worker[w].pc = "complete" /\ UpdateMatches(Current(w), markCompleted(worker[w].ev))
  BY <1>6, CompletionChain
<1>7. CASE CompleteEvent(w) /\ ~(worker[w].pc = "complete" /\ UpdateMatches(Current(w), markCompleted(worker[w].ev)))
  BY <1>4, <1>5, <1>7 DEF CompleteEvent
<1>8. CASE FollowUp(w)
  <2> DEFINE u == worker[w].ev.user
             next == PendingEvent(u, Occurrence(celebrant[w], worker[w].ev.local), "messageOnly")
  <2>1. CASE UNCHANGED lastId
    BY <1>4, <1>5, <1>8, <2>1 DEF FollowUp, CreateFollower
  <2>2. CASE create(next)
    <3>1. next \in Event /\ next.user = u
      <4>1. u \in Users \cup {NoUser} /\ worker[w].ev.local \in Int
        BY <1>1 DEF Event
      <4>2. Occurrence(celebrant[w], worker[w].ev.local) \in Int /\ "messageOnly" \in Payloads
        BY <1>1, <4>1, OccurrenceIsLater DEF Payloads
      <4>3. next.user = u
        BY DEF PendingEvent
      <4> QED BY <4>1, <4>2, <4>3, PendingEventType
    <3>2. Creating(w) /\ worker'[w].pc # "create"
      BY <1>5, <1>8 DEF FollowUp, CreateFollower, Creating
    <3>3. u \in Users /\ users'[u] \in {"announced", "deleted"}
      BY <1>3, <3>2, CopyHasUser DEF Creating, Moved
    <3>4. \A e \in EventIds : rows[e].user = u => ~Open(e)
      BY <3>2 DEF OneAtATime
    <3>5. \A v \in Workers : worker'[v].pc = "create" =>
            Creating(v) /\ worker'[v].ev = worker[v].ev /\ worker[v].ev.user # u
      BY <1>2, <3>2 DEF OneAtATime, Creating
    <3> HIDE DEF next, u
    <3> QED BY <1>a, <2>2, <3>1, <3>3, <3>4, <3>5, CreateChain
  <2> QED BY <1>8, <2>1, <2>2 DEF FollowUp, CreateFollower
<1>9. ASSUME NEW pc, pc # "create", WorkerGoTo(w, pc) PROVE worker'[w].pc # "create"
  BY <1>1, <1>9 DEF WorkerGoTo
<1>10. CASE Receive(w) \/ SkipRecord(w) \/ StartRecord(w)
  <2>1. worker'[w].pc # "create" /\ UNCHANGED lastId
    BY <1>1, <1>10 DEF Receive, SkipRecord, StartRecord, databaseVars
  <2> QED BY <1>4, <2>1
<1>11. CASE DeliverAccepted(w) \/ DeliverRejected(w) \/ FindUser(w)
  BY <1>4, <1>9, <1>11 DEF DeliverAccepted, DeliverRejected, FindUser, databaseVars
<1>12. CASE RetryDelivery(w)
  BY <1>1, <1>4, <1>12 DEF RetryDelivery, databaseVars
<1>13. CASE RejectPayload(w) \/ MarkFailed(w) \/ Finish(w) \/ DeliverFails(w) \/ WorkerStops(w)
  BY <1>4, <1>5, <1>13 DEF RejectPayload, MarkFailed, Finish, DeliverFails, WorkerStops, databaseVars, Throw
<1>14. CASE CreateNextYear(w) /\ WorkerGoesOn(w)
  BY <1>14 DEF WorkerGoesOn, CreateNextYear, CreateFollower
<1> QED
  BY <1>6, <1>7, <1>8, <1>10, <1>11, <1>12, <1>13, <1>14 DEF WorkerGoesOn, WorkerRuns, WorkerFails

LEMMA SystemStepChain ==
  ASSUME Moved, OneAtATime, [SystemNext]_systemVars
  PROVE  OneAtATime'
<1>1. ASSUME UNCHANGED <<lastId, users, worker>> PROVE OneAtATime'
  BY <1>1, QuietChain DEF UsersMoveOn, Creating
<1>2. CASE \E r \in Requests : UpdateRuns(r) \/ UpdateFails(r)
  BY <1>1, <1>2 DEF UpdateRuns, UpdateFails, workerVars, ReadUser, WriteUser, FindPending,
                    StoreRescheduled, RescheduleFails, UpdateStops, databaseVars
<1>3. CASE \E s \in Schedulers : SchedulerRuns(s) \/ SchedulerFails(s)
  BY <1>1, <1>3 DEF SchedulerRuns, SchedulerFails, workerVars, databaseVars, Invoke, FindMissedEvents,
                    QueueMissed, QueueMissedFails, RecoveryDone, RecoveryFails, SelectForUpdate,
                    MarkProcessing, ClaimFails, SendClaimed, SendFails, SchedulerStops
<1>4. CASE ClockTicks \/ \E m \in Messages : QueueRuns(m) \/ QueueOvertakes(m)
  BY <1>1, <1>4 DEF ClockTicks, QueueRuns, QueueOvertakes, VisibilityTimeout, VisibilityTimeoutEarly,
                    Redrive, workerVars, databaseVars
<1>5. CASE UNCHANGED systemVars
  BY <1>1, <1>5 DEF systemVars, vars, workerVars, databaseVars
<1> QED BY <1>2, <1>3, <1>4, <1>5, RegistrationChain, WorkerChain DEF SystemNext, Pipeline

\* A user never has two events waiting or in progress, whatever updates, crashes,
\* repeated messages and deletions come between: each completion hands the right to
\* create the next event to one worker.
THEOREM OneOpenEvent == SystemSpec => []OneOpenEventPerUser
<1>1. SystemInit => FrozenInv /\ OneAtATime
  <2>1. SystemInit => OneAtATime
    BY DEF SystemInit, Init, DatabaseInit, NoEvent, WorkerInit, IdleWorker, OneAtATime,
           OneOpenEventPerUser, Creating
  <2> QED BY <2>1, FrozenInit
<1>2. FrozenInv /\ OneAtATime /\ [SystemNext]_systemVars => FrozenInv' /\ OneAtATime'
  BY FrozenStep, SystemStepMoves, SystemStepChain
<1>3. OneAtATime => OneOpenEventPerUser
  BY DEF OneAtATime
<1> QED BY <1>1, <1>2, <1>3, PTL DEF SystemSpec
=============================================================================
