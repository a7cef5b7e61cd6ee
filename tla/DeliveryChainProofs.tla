------------------------ MODULE DeliveryChainProofs ------------------------
(***************************************************************************)
(* The chain of a user's birthday events.  Completing an event and         *)
(* creating the one that follows are two statements, any number of workers *)
(* may hold the same event, and no transaction spans them: that the chain  *)
(* stays single rests on the optimistic lock (one worker completes an      *)
(* event) and on ids whose targets grow (Latest).  From this the pipeline  *)
(* implements the lifecycle.                                               *)
(***************************************************************************)
EXTENDS DeliveryProofs, FiniteSetTheorems

USE DEF EventStatus, Settled

\* The users table and the events table agree on who exists; the key is still the
\* one of user and target.
HasUser(e) ==
  /\ rows[e].status = "NONE" => rows[e].user = NoUser
  /\ rows[e].status # "NONE" =>
       /\ rows[e].user \in Users
       /\ rows[e].key = IdempotencyKey(rows[e].user, rows[e].target)
       /\ users[rows[e].user] = IF rows[e].status = "GONE" THEN "deleted" ELSE "announced"

\* The worker's copy is of the row it came from.
CopyMatches(w) ==
  worker[w].pc \notin {"idle", "next"} =>
    /\ rows[Current(w)].user = worker[w].ev.user
    /\ rows[Current(w)].target = worker[w].ev.target
    /\ worker[w].pc = "completeOnly" => users[worker[w].ev.user] = "deleted"

\* No event of the same user has a later target, or the same.
Latest(e) ==
  \A f \in EventIds :
    f # e /\ rows[f].status # "NONE" /\ rows[f].user = rows[e].user =>
      rows[f].target < rows[e].target

Open(e) == rows[e].status \in {"PENDING", "PROCESSING"}

\* The worker completed an event and has not created the next one.
Creating(w) == worker[w].pc = "create"

CreatingIsLatest(w) ==
  Creating(w) => rows[Current(w)].status \in {"COMPLETED", "GONE"} /\ Latest(Current(w))

ChainInv ==
  /\ \A e \in EventIds : HasUser(e)
  /\ \A w \in Workers : CopyMatches(w)
  /\ \A e \in EventIds : Open(e) => Latest(e)
  /\ \A w \in Workers : CreatingIsLatest(w)
  /\ \A v, w \in Workers : v # w /\ Creating(v) /\ Creating(w) => Current(v) # Current(w)
  /\ FollowerNeedsCompletion

-----------------------------------------------------------------------------
\* What one step may do to the users and events tables.
RowKept(e) ==
  /\ rows'[e].user = rows[e].user
  /\ rows'[e].target = rows[e].target
  /\ rows'[e].key = rows[e].key
  /\ rows'[e].payload = rows[e].payload
  /\ \/ rows'[e].status = rows[e].status
     \/ rows[e].status = "PENDING" /\ rows'[e].status = "PROCESSING"
     \/ rows[e].status = "PROCESSING" /\ rows'[e].status \in Settled

RowsKept == UNCHANGED users /\ \A e \in EventIds : RowKept(e)

Registers ==
  /\ UNCHANGED rows
  /\ \E u \in Users :
       \/ users[u] = "absent" /\ users' = [users EXCEPT ![u] = "saved"]
       \/ users[u] = "saved" /\ users' = [users EXCEPT ![u] = "announced"]

Appears(e, ev) ==
  /\ rows[e].status = "NONE"
  /\ rows' = [rows EXCEPT ![e] = ev]

FirstAppears ==
  \E u \in Users, e \in EventIds, t \in Int :
    /\ users[u] = "saved" /\ users' = [users EXCEPT ![u] = "announced"]
    /\ Appears(e, PendingEvent(u, t, "complete"))
    /\ UNCHANGED worker

NextAppears(w) ==
  /\ Creating(w) /\ worker'[w].pc = "next"
  /\ UserExists(worker[w].ev.user)
  /\ UNCHANGED users
  /\ \E e \in EventIds :
       Appears(e, PendingEvent(worker[w].ev.user, NextYear(worker[w].ev.target), "messageOnly"))

Disappear ==
  \E u \in Users :
    /\ users' = [users EXCEPT ![u] = "deleted"]
    /\ CascadeDelete(u)
    /\ UNCHANGED worker

\* Worker w settles the event it holds: it completes it and goes on to create the next
\* one, unless it found no user.
Settles(w, status) ==
  /\ RowsKept
  /\ worker[w].pc \notin {"idle", "next"}
  /\ rows[Current(w)].status = "PROCESSING"
  /\ rows'[Current(w)].status = status
  /\ \A e \in EventIds : e # Current(w) => rows'[e] = rows[e]

CompletesFor(w) ==
  /\ Settles(w, "COMPLETED")
  /\ \/ worker[w].pc = "completeOnly"
     \/ worker'[w].pc = "create" /\ worker'[w].msg = worker[w].msg

WorkerWrites(w) ==
  \/ UNCHANGED <<users, rows>>
  \/ Settles(w, "FAILED")
  \/ CompletesFor(w)
  \/ NextAppears(w)

TablesMove ==
  \/ RowsKept
  \/ Registers
  \/ FirstAppears
  \/ \E w \in Workers : NextAppears(w)
  \/ Disappear

\* What one step may do to a worker's record.
Completes(w) ==
  /\ worker[w].pc = "complete"
  /\ rows[Current(w)].status = "PROCESSING"
  /\ rows'[Current(w)].status = "COMPLETED"
  /\ \A v \in Workers : v # w => worker'[v] = worker[v]

WorkerAdvances(w) ==
  \/ worker'[w] = worker[w]
  \/ worker'[w].pc \in {"idle", "next"}
  \/ /\ worker'[w].pc = "deliver"
     /\ UNCHANGED rows
     /\ worker'[w].msg[1] \in EventIds
     /\ worker'[w].ev = rows[worker'[w].msg[1]]
  \/ /\ worker[w].pc \notin {"idle", "next"}
     /\ worker'[w].msg = worker[w].msg /\ worker'[w].ev = worker[w].ev
     /\ worker'[w].pc = "create" => Completes(w)
     /\ worker'[w].pc = "completeOnly" => ~UserExists(worker[w].ev.user) /\ UNCHANGED <<users, rows>>

WorkersAdvance == \A w \in Workers : WorkerAdvances(w)

-----------------------------------------------------------------------------
LEMMA RowsStayKept ==
  ASSUME UNCHANGED <<users, rows>>
  PROVE  RowsKept
  BY DEF RowsKept, RowKept

LEMMA ClaimKeeps ==
  ASSUME Inv, NEW s \in Schedulers, MarkProcessing(s)
  PROVE  RowsKept
<1>1. rows \in [EventIds -> Event]
  BY DEF Inv, TypeOK, DatabaseTypeOK
<1>2. \A e \in sched[s].todo : rows[e].status = "PENDING"
  BY DEF MarkProcessing, Inv, LocksAreHeld, TypeOK, SchedulerTypeOK
<1>3. ASSUME NEW e \in EventIds PROVE RowKept(e)
  <2>1. CASE e \in sched[s].todo
    <3>1. rows'[e] = [rows[e] EXCEPT !.status = "PROCESSING", !.version = @ + 1]
      BY <2>1 DEF MarkProcessing, ToProcessing
    <3>2. rows[e] \in Event
      BY <1>1
    <3> QED BY <1>2, <2>1, <3>1, <3>2 DEF Event, RowKept
  <2>2. CASE e \notin sched[s].todo
    BY <2>2 DEF MarkProcessing, ToProcessing, RowKept
  <2> QED BY <2>1, <2>2
<1> QED BY <1>3 DEF MarkProcessing, RowsKept

\* A settlement writes the row the worker read, and only while it is in PROCESSING.
LEMMA SettleKeeps ==
  ASSUME Inv, NEW w \in Workers, CopyMatches(w), worker[w].pc \notin {"idle", "next"},
         NEW ev \in Event, ev.status \in Settled, ev.version = worker[w].ev.version + 1,
         ev.target = worker[w].ev.target,
         UpdateMatches(Current(w), ev), update(Current(w), ev), UNCHANGED users
  PROVE  Settles(w, ev.status)
<1> DEFINE c == Current(w)
<1>1. c \in EventIds /\ ev.version = 3 /\ rows[c].target = ev.target
  BY DEF Inv, CopiesAreClaimed, Current, Messages, CopyMatches
<1>2. rows \in [EventIds -> Event]
  BY DEF Inv, TypeOK, DatabaseTypeOK
<1>3. rows[c].version = 2 /\ rows[c].status \in EventStatus
  BY <1>1 DEF UpdateMatches, Live
<1>4. rows[c].status = "PROCESSING"
  BY <1>1, <1>3 DEF Inv, VersionTracksStatus, EventStatus, Settled
<1>5. rows' = [rows EXCEPT ![c] = [rows[c] EXCEPT !.status = ev.status, !.target = ev.target,
                 !.local = ev.local, !.retryCount = ev.retryCount, !.version = ev.version]]
  BY Zenon DEF update
<1> HIDE DEF c
<1>6. /\ rows'[c].status = ev.status /\ rows'[c].target = ev.target
      /\ rows'[c].user = rows[c].user /\ rows'[c].key = rows[c].key
      /\ rows'[c].payload = rows[c].payload
  <2>1. rows[c] \in Event
    BY <1>1, <1>2
  <2> QED BY <1>1, <1>2, <1>5, <2>1 DEF Event
<1>7. ASSUME NEW e \in EventIds PROVE RowKept(e)
  <2>1. CASE e = c
    BY <1>1, <1>4, <1>6, <2>1 DEF RowKept
  <2>2. CASE e # c
    BY <1>2, <1>5, <2>2 DEF RowKept
  <2> QED BY <2>1, <2>2
<1>8. \A e \in EventIds : e # c => rows'[e] = rows[e]
  BY <1>2, <1>5
<1> QED BY <1>4, <1>6, <1>7, <1>8 DEF Settles, RowsKept, c

LEMMA UserStepMoves ==
  ASSUME Inv, NEW u \in Users, UserRequest(u)
  PROVE  (Registers \/ FirstAppears \/ Disappear) /\ UNCHANGED worker
<1>0. UNCHANGED worker
  BY DEF UserRequest, workerVars
<1>1. CASE CreateUser(u) \/ CreateBirthdayEventFails(u)
  BY <1>0, <1>1 DEF CreateUser, CreateBirthdayEventFails, Registers
<1>2. CASE CreateBirthdayEvent(u)
  <2>1. PICK t \in NextOccurrences(now) : CreateBirthdayEventAt(u, t)
    BY <1>2 DEF CreateBirthdayEvent
  <2>2. t \in Int
    BY OccurrenceType DEF Inv, TypeOK, PlatformTypeOK
  <2>3. lastId + 1 \in EventIds /\ rows[lastId + 1].status = "NONE"
    BY <2>1, MaxEventsAssumption
    DEF CreateBirthdayEventAt, create, Inv, IdsAreFresh, TypeOK, DatabaseTypeOK, EventIds
  <2> DEFINE ev == PendingEvent(u, t, "complete")
  <2>4. Appears(lastId + 1, ev)
    BY <2>1, <2>3 DEF CreateBirthdayEventAt, create, Appears
  <2> HIDE DEF ev
  <2>5. users[u] = "saved" /\ users' = [users EXCEPT ![u] = "announced"]
    BY <2>1 DEF CreateBirthdayEventAt
  <2> QED BY <1>0, <2>2, <2>3, <2>4, <2>5 DEF FirstAppears, ev
<1>3. CASE DeleteUser(u)
  BY <1>0, <1>3 DEF DeleteUser, Disappear
<1> QED BY <1>0, <1>1, <1>2, <1>3 DEF UserRequest

LEMMA WorkerStepMoves ==
  ASSUME Inv, NEW w \in Workers, CopyMatches(w), WorkerRuns(w) \/ WorkerFails(w)
  PROVE  /\ WorkerWrites(w)
         /\ \A v \in Workers : v # w => worker'[v] = worker[v]
         /\ WorkerAdvances(w)
<1>0. /\ worker \in [Workers -> [pc : WorkerPcs, batch : SUBSET Messages, todo : SUBSET Messages,
                              msg : Messages \cup {NoMessage}, ev : Event, retries : Nat]]
      /\ rows \in [EventIds -> Event] /\ worker[w].ev \in Event
  BY DEF Inv, TypeOK, WorkerTypeOK, DatabaseTypeOK
<1>1. \A v \in Workers : v # w => worker'[v] = worker[v]
  BY <1>0 DEF WorkerRuns, WorkerFails, Receive, SkipRecord, RejectPayload, StartRecord, DeliverAccepted,
              DeliverRejected, RetryDelivery, DeliverFails, MarkFailed, FindUser, CompleteEvent,
              CreateNextYear, CreateFollower, Finish, WorkerStops, WorkerGoTo, Return, Throw
<1>2. ASSUME Throw(w) \/ Return(w) PROVE worker'[w].pc \in {"idle", "next"}
  <2>1. CASE Throw(w)
    BY <1>0, <2>1 DEF Throw, IdleWorker
  <2>2. CASE Return(w)
    <3>1. worker'[w] = [worker[w] EXCEPT !.pc = "next", !.todo = worker[w].todo \ {worker[w].msg},
                                         !.msg = NoMessage, !.ev = NoEvent]
      BY <1>0, <2>2, Zenon DEF Return
    <3> QED BY <1>0, <3>1
  <2> QED BY <1>2, <2>1, <2>2
<1>3. ASSUME NEW pc, WorkerGoTo(w, pc)
      PROVE  worker'[w].pc = pc /\ worker'[w].msg = worker[w].msg /\ worker'[w].ev = worker[w].ev
  BY <1>0, <1>3 DEF WorkerGoTo
\* Most steps write no row.
<1>4. ASSUME UNCHANGED <<users, rows>>, worker'[w].pc \in {"idle", "next"}
      PROVE  WorkerWrites(w) /\ WorkerAdvances(w)
  BY <1>4 DEF WorkerWrites, WorkerAdvances
<1>5. ASSUME NEW pc \in {"findUser", "fail", "complete"}, WorkerGoTo(w, pc), UNCHANGED <<users, rows>>,
             worker[w].pc \notin {"idle", "next"}
      PROVE  WorkerWrites(w) /\ WorkerAdvances(w)
  BY <1>3, <1>5 DEF WorkerWrites, WorkerAdvances
<1>6. CASE Receive(w)
  <2>1. PICK B \in SUBSET Receivable :
          worker' = [worker EXCEPT ![w] = [@ EXCEPT !.pc = "next", !.batch = B, !.todo = B]]
    BY <1>6 DEF Receive
  <2>2. worker'[w] = [worker[w] EXCEPT !.pc = "next", !.batch = B, !.todo = B]
    BY <1>0, <2>1, Zenon
  <2>3. worker'[w].pc = "next"
    BY <1>0, <2>2
  <2> QED BY <1>1, <1>4, <1>6, <2>3 DEF Receive, databaseVars
<1>7. CASE SkipRecord(w)
  <2>1. worker'[w].pc = "next"
    BY <1>0, <1>7 DEF SkipRecord
  <2> QED BY <1>1, <1>4, <1>7, <2>1 DEF SkipRecord, databaseVars
<1>8. CASE RejectPayload(w) \/ DeliverFails(w) \/ WorkerStops(w)
  <2>1. UNCHANGED <<users, rows>> /\ Throw(w)
    BY <1>8 DEF RejectPayload, DeliverFails, WorkerStops, databaseVars
  <2> QED BY <1>1, <1>2, <1>4, <2>1
<1>9. CASE Finish(w)
  <2>1. UNCHANGED <<users, rows>> /\ Throw(w)
    BY <1>9 DEF Finish, Throw, databaseVars
  <2> QED BY <1>1, <1>2, <1>4, <2>1
<1>10. CASE StartRecord(w)
  <2>1. PICK m \in worker[w].todo :
          worker' = [worker EXCEPT ![w] = [@ EXCEPT !.pc = "deliver", !.msg = m, !.ev = rows[m[1]],
                                                   !.retries = 0]]
    BY <1>10 DEF StartRecord
  <2>2. worker'[w] = [worker[w] EXCEPT !.pc = "deliver", !.msg = m, !.ev = rows[m[1]], !.retries = 0]
    BY <1>0, <2>1, Zenon
  <2>3. worker'[w].pc = "deliver" /\ worker'[w].msg = m /\ worker'[w].ev = rows[m[1]]
    BY <1>0, <2>2
  <2>4. m \in Messages /\ m[1] \in EventIds
    BY <1>0 DEF Messages
  <2>5. UNCHANGED <<users, rows>>
    BY <1>10 DEF StartRecord, databaseVars
  <2> QED BY <1>1, <2>3, <2>4, <2>5 DEF WorkerWrites, WorkerAdvances
<1>11. CASE DeliverAccepted(w) \/ DeliverRejected(w)
  <2>1. UNCHANGED <<users, rows>> /\ worker[w].pc \notin {"idle", "next"}
    BY <1>11 DEF DeliverAccepted, DeliverRejected, databaseVars
  <2> QED BY <1>1, <1>5, <1>11, <2>1 DEF DeliverAccepted, DeliverRejected
<1>12. CASE RetryDelivery(w)
  <2>1. /\ worker[w].pc = "deliver" /\ UNCHANGED <<users, rows>>
        /\ worker' = [worker EXCEPT ![w].retries = @ + 1]
    BY <1>12 DEF RetryDelivery, databaseVars
  <2>2. worker'[w].pc = "deliver" /\ worker'[w].msg = worker[w].msg /\ worker'[w].ev = worker[w].ev
    BY <1>0, <2>1
  <2> QED BY <1>1, <2>1, <2>2 DEF WorkerWrites, WorkerAdvances
<1>13. CASE FindUser(w)
  <2>1. UNCHANGED <<users, rows>> /\ worker[w].pc \notin {"idle", "next"}
    BY <1>13 DEF FindUser, databaseVars
  <2>2. CASE UserExists(worker[w].ev.user)
    BY <1>1, <1>5, <1>13, <2>1, <2>2 DEF FindUser
  <2>3. CASE ~UserExists(worker[w].ev.user)
    BY <1>1, <1>3, <1>13, <2>1, <2>3 DEF FindUser, WorkerWrites, WorkerAdvances
  <2> QED BY <2>2, <2>3
<1>14. CASE MarkFailed(w)
  <2> DEFINE failed == markFailed(worker[w].ev)
  <2>0. failed \in Event
    BY <1>0, SettleType
  <2>1. failed.status = "FAILED" /\ failed.status \in Settled /\ failed.version = worker[w].ev.version + 1
        /\ failed.target = worker[w].ev.target
    BY <1>0 DEF markFailed, Event
  <2>2. /\ worker[w].pc = "fail" /\ UNCHANGED users
        /\ \/ UpdateMatches(Current(w), failed) /\ update(Current(w), failed) /\ Return(w)
           \/ UNCHANGED rows /\ Throw(w)
    BY <1>14 DEF MarkFailed
  <2> HIDE DEF failed
  <2>3. WorkerWrites(w)
    <3>1. CASE UNCHANGED rows
      BY <2>2, <3>1 DEF WorkerWrites
    <3>2. CASE UpdateMatches(Current(w), failed) /\ update(Current(w), failed)
      <4>1. Settles(w, failed.status)
        BY <2>0, <2>1, <2>2, <3>2, SettleKeeps
      <4> QED BY <2>1, <4>1 DEF WorkerWrites
    <3> QED BY <2>2, <3>1, <3>2
  <2> QED BY <1>1, <1>2, <2>2, <2>3 DEF WorkerWrites, WorkerAdvances
<1>15. CASE CompleteEvent(w)
  <2> DEFINE completed == markCompleted(worker[w].ev)
  <2>0. completed \in Event
    BY <1>0, SettleType
  <2>1. /\ completed.status = "COMPLETED" /\ completed.status \in Settled
        /\ completed.version = worker[w].ev.version + 1
        /\ completed.target = worker[w].ev.target
    BY <1>0 DEF markCompleted, Event
  <2>2. /\ worker[w].pc \in {"complete", "completeOnly"} /\ UNCHANGED users
        /\ \/ /\ UpdateMatches(Current(w), completed) /\ update(Current(w), completed)
              /\ \/ worker[w].pc = "complete" /\ WorkerGoTo(w, "create")
                 \/ worker[w].pc = "completeOnly" /\ Return(w)
           \/ UNCHANGED rows /\ Throw(w)
    BY <1>15 DEF CompleteEvent
  <2> HIDE DEF completed
  <2>3. CASE UNCHANGED rows /\ Throw(w)
    BY <1>1, <1>2, <2>2, <2>3 DEF WorkerWrites, WorkerAdvances
  <2>4. CASE UpdateMatches(Current(w), completed) /\ update(Current(w), completed)
    <3>0. Settles(w, completed.status)
      BY <2>0, <2>1, <2>2, <2>4, SettleKeeps
    <3>1. Settles(w, "COMPLETED") /\ rows[Current(w)].status = "PROCESSING" /\ rows'[Current(w)].status = "COMPLETED"
      BY <2>1, <3>0 DEF Settles
    <3>2. CASE worker[w].pc = "completeOnly" /\ Return(w)
      BY <1>1, <1>2, <3>1, <3>2 DEF WorkerWrites, CompletesFor, WorkerAdvances
    <3>3. CASE worker[w].pc = "complete" /\ WorkerGoTo(w, "create")
      BY <1>1, <1>3, <3>1, <3>3 DEF WorkerWrites, CompletesFor, WorkerAdvances, Completes
    <3>4. CASE UNCHANGED rows /\ Throw(w)
      BY <2>3, <3>4
    <3> QED BY <2>2, <3>2, <3>3, <3>4
  <2> QED BY <2>2, <2>3, <2>4
<1>16. CASE CreateNextYear(w)
  <2> DEFINE next == PendingEvent(worker[w].ev.user, NextYear(worker[w].ev.target), "messageOnly")
  <2>1. UNCHANGED users /\ Creating(w)
    BY <1>16 DEF CreateNextYear, CreateFollower, Creating
  <2>2. \/ (Throw(w) \/ Return(w)) /\ UNCHANGED rows
        \/ UserExists(worker[w].ev.user) /\ Return(w) /\ create(next)
    BY <1>16 DEF CreateNextYear, CreateFollower, PendingEvent
  <2> HIDE DEF next
  <2>3. CASE (Throw(w) \/ Return(w)) /\ UNCHANGED rows
    BY <1>1, <1>2, <1>4, <2>1, <2>3
  <2>4. CASE UserExists(worker[w].ev.user) /\ Return(w) /\ create(next)
    <3>1. lastId + 1 \in EventIds /\ rows[lastId + 1].status = "NONE"
      BY <2>4, MaxEventsAssumption DEF create, Inv, IdsAreFresh, TypeOK, DatabaseTypeOK, EventIds
    <3>2. Appears(lastId + 1, next)
      BY <2>4, <3>1 DEF create, Appears
    <3>3. worker'[w].pc = "next"
      <4>1. worker'[w] = [worker[w] EXCEPT !.pc = "next", !.todo = worker[w].todo \ {worker[w].msg},
                                           !.msg = NoMessage, !.ev = NoEvent]
        BY <1>0, <2>4, Zenon DEF Return
      <4> QED BY <1>0, <4>1
    <3> QED BY <1>1, <2>1, <2>4, <3>1, <3>2, <3>3 DEF NextAppears, WorkerWrites, WorkerAdvances, next
  <2> QED BY <2>2, <2>3, <2>4
<1> QED
  BY <1>6, <1>7, <1>8, <1>9, <1>10, <1>11, <1>12, <1>13, <1>14, <1>15, <1>16
  DEF WorkerRuns, WorkerFails

LEMMA StepMovesTables ==
  ASSUME Inv, ChainInv, [Next]_vars
  PROVE  TablesMove /\ WorkersAdvance
<1>1. CASE \E u \in Users : UserRequest(u)
  BY <1>1, UserStepMoves DEF TablesMove, WorkersAdvance, WorkerAdvances
<1>2. CASE \E w \in Workers : WorkerRuns(w) \/ WorkerFails(w)
  <2>1. PICK w \in Workers : WorkerRuns(w) \/ WorkerFails(w)
    BY <1>2
  <2>2. /\ WorkerWrites(w)
        /\ \A v \in Workers : v # w => worker'[v] = worker[v]
        /\ WorkerAdvances(w)
    BY <2>1, WorkerStepMoves DEF ChainInv
  <2>3. \A v \in Workers : WorkerAdvances(v)
    BY <2>2 DEF WorkerAdvances
  <2>4. RowsKept \/ NextAppears(w)
    BY <2>2, RowsStayKept DEF WorkerWrites, Settles, CompletesFor
  <2> QED BY <2>3, <2>4 DEF TablesMove, WorkersAdvance
<1>3. CASE \E s \in Schedulers : SchedulerRuns(s) \/ SchedulerFails(s)
  <2>1. PICK s \in Schedulers : SchedulerRuns(s) \/ SchedulerFails(s)
    BY <1>3
  <2>2. UNCHANGED worker
    BY <2>1 DEF SchedulerRuns, SchedulerFails, workerVars
  <2>3. CASE MarkProcessing(s)
    BY <2>2, <2>3, ClaimKeeps DEF TablesMove, WorkersAdvance, WorkerAdvances
  <2>4. CASE ~MarkProcessing(s)
    <3>1. UNCHANGED <<users, rows>>
      BY <2>1, <2>4 DEF SchedulerRuns, SchedulerFails, databaseVars, Invoke, FindMissedEvents, QueueMissed,
         RecoveryDone, SelectForUpdate, SendClaimed, QueueMissedFails, RecoveryFails, ClaimFails,
         SendFails, SchedulerStops
    <3> QED BY <2>2, <3>1, RowsStayKept DEF TablesMove, WorkersAdvance, WorkerAdvances
  <2> QED BY <2>3, <2>4
<1>4. CASE \/ ClockTicks \/ UNCHANGED vars
           \/ \E m \in Messages : QueueRuns(m) \/ QueueOvertakes(m)
  <2>1. UNCHANGED <<users, rows, worker>>
    BY <1>4 DEF ClockTicks, vars, QueueRuns, QueueOvertakes, VisibilityTimeout, VisibilityTimeoutEarly,
                Redrive, databaseVars, workerVars
  <2> QED BY <2>1, RowsStayKept DEF TablesMove, WorkersAdvance, WorkerAdvances
<1> QED BY <1>1, <1>2, <1>3, <1>4 DEF Next

-----------------------------------------------------------------------------
\* What a step does to a row that exists, and to a user.
LEMMA RowStays ==
  ASSUME TypeOK, TablesMove, NEW e \in EventIds, rows[e].status # "NONE"
  PROVE  /\ rows'[e].user = rows[e].user /\ rows'[e].target = rows[e].target
         /\ rows'[e].key = rows[e].key /\ rows'[e].payload = rows[e].payload
         /\ rows'[e].status # "NONE"
         /\ rows[e].status = "COMPLETED" => rows'[e].status \in {"COMPLETED", "GONE"}
         /\ rows[e].status = "GONE" => rows'[e].status = "GONE"
         /\ Open(e)' => Open(e)
         /\ Live(e)' => Live(e)
<1>1. rows \in [EventIds -> Event] /\ rows[e] \in Event
  BY DEF TypeOK, DatabaseTypeOK
<1>2. CASE RowsKept
  BY <1>2 DEF RowsKept, RowKept, Open, Live
<1>3. CASE Registers
  BY <1>3 DEF Registers, Open, Live
<1>4. CASE FirstAppears \/ \E w \in Workers : NextAppears(w)
  <2>1. rows'[e] = rows[e]
    BY <1>1, <1>4 DEF FirstAppears, NextAppears, Appears
  <2> QED BY <2>1 DEF Open, Live
<1>5. CASE Disappear
  <2>1. rows'[e] = rows[e] \/ (Live(e) /\ rows'[e] = [rows[e] EXCEPT !.status = "GONE"])
    BY <1>5 DEF Disappear, CascadeDelete
  <2>2. CASE Live(e) /\ rows'[e] = [rows[e] EXCEPT !.status = "GONE"]
    BY <1>1, <2>2 DEF Open, Live, Event
  <2>3. CASE rows'[e] = rows[e]
    BY <2>3 DEF Open, Live
  <2> QED BY <2>1, <2>2, <2>3
<1> QED BY <1>2, <1>3, <1>4, <1>5 DEF TablesMove

LEMMA DeletedStays ==
  ASSUME TypeOK, TablesMove, NEW u \in Users, users[u] = "deleted"
  PROVE  users'[u] = "deleted"
<1>1. users \in [Users -> UserStates]
  BY DEF TypeOK, DatabaseTypeOK
<1> QED BY <1>1 DEF TablesMove, RowsKept, Registers, FirstAppears, NextAppears, Disappear

\* A row appears, if at all, for a user that had none or after the latest one.
NoneAppears == \A e \in EventIds : rows[e].status = "NONE" => rows'[e].status = "NONE"

LEMMA WhatAppears ==
  ASSUME TypeOK, TablesMove
  PROVE  NoneAppears \/ FirstAppears \/ \E w \in Workers : NextAppears(w)
<1>1. CASE RowsKept \/ Registers
  BY <1>1 DEF RowsKept, RowKept, Registers, NoneAppears
<1>2. CASE Disappear
  <2>1. ASSUME NEW e \in EventIds, rows[e].status = "NONE" PROVE rows'[e] = rows[e]
    BY <1>2, <2>1 DEF Disappear, CascadeDelete, Live
  <2> QED BY <2>1 DEF NoneAppears
<1> QED BY <1>1, <1>2 DEF TablesMove

LEMMA AppearsOne ==
  ASSUME TypeOK, NEW e \in EventIds, NEW ev, Appears(e, ev)
  PROVE  rows'[e] = ev /\ \A f \in EventIds : f # e => rows'[f] = rows[f]
  BY DEF TypeOK, DatabaseTypeOK, Appears

LEMMA NewEvent ==
  ASSUME NEW u, NEW t, NEW p
  PROVE  /\ PendingEvent(u, t, p).user = u /\ PendingEvent(u, t, p).target = t
         /\ PendingEvent(u, t, p).status = "PENDING" /\ PendingEvent(u, t, p).payload = p
         /\ PendingEvent(u, t, p).key = IdempotencyKey(u, t)
  BY DEF PendingEvent

\* What a worker in hand of an event knows of it.
LEMMA CopyFacts ==
  ASSUME Inv, ChainInv, NEW w \in Workers, worker[w].pc \notin {"idle", "next"}
  PROVE  /\ Current(w) \in EventIds
         /\ rows[Current(w)].status \notin {"NONE", "PENDING"}
         /\ worker[w].ev.user \in Users
         /\ users[worker[w].ev.user] = IF rows[Current(w)].status = "GONE" THEN "deleted" ELSE "announced"
<1>1. Current(w) \in EventIds /\ rows[Current(w)].status \notin {"NONE", "PENDING"}
  BY DEF Inv, CopiesAreClaimed, Current, Messages
<1> QED BY <1>1 DEF ChainInv, CopyMatches, HasUser

LEMMA HasUserKept ==
  ASSUME Inv, ChainInv, TablesMove, NEW e \in EventIds
  PROVE  HasUser(e)'
<1>0. /\ rows \in [EventIds -> Event] /\ rows[e] \in Event /\ users \in [Users -> UserStates]
      /\ HasUser(e) /\ TypeOK
  BY DEF Inv, TypeOK, DatabaseTypeOK, ChainInv
<1>1. CASE RowsKept
  BY <1>0, <1>1 DEF RowsKept, RowKept, HasUser
<1>2. CASE Registers
  BY <1>0, <1>2 DEF Registers, HasUser
<1>3. CASE FirstAppears
  <2>1. PICK u \in Users, f \in EventIds, t \in Int :
          /\ users[u] = "saved" /\ users' = [users EXCEPT ![u] = "announced"]
          /\ Appears(f, PendingEvent(u, t, "complete"))
    BY <1>3 DEF FirstAppears
  <2>2. CASE e = f
    <3>1. rows'[f] = PendingEvent(u, t, "complete")
      BY <1>0, <2>1, AppearsOne
    <3> QED BY <1>0, <2>1, <2>2, <3>1, NewEvent DEF HasUser
  <2>3. CASE e # f
    <3>1. rows'[e] = rows[e]
      BY <1>0, <2>1, <2>3, AppearsOne
    <3> QED BY <1>0, <2>1, <3>1 DEF HasUser
  <2> QED BY <2>2, <2>3
<1>4. CASE \E w \in Workers : NextAppears(w)
  <2>1. PICK w \in Workers : NextAppears(w)
    BY <1>4
  <2> DEFINE u == worker[w].ev.user
             t == NextYear(worker[w].ev.target)
  <2>2. PICK f \in EventIds : Appears(f, PendingEvent(u, t, "messageOnly"))
    BY <2>1 DEF NextAppears
  <2>3. worker[w].pc \notin {"idle", "next"} /\ UserExists(u) /\ UNCHANGED users
    BY <2>1 DEF NextAppears, Creating
  <2>4. u \in Users /\ users[u] = "announced"
    BY <2>3, CopyFacts DEF UserExists
  <2> HIDE DEF u, t
  <2>5. CASE e = f
    <3>1. rows'[f] = PendingEvent(u, t, "messageOnly")
      BY <1>0, <2>2, AppearsOne
    <3> QED BY <1>0, <2>3, <2>4, <2>5, <3>1, NewEvent DEF HasUser
  <2>6. CASE e # f
    <3>1. rows'[e] = rows[e]
      BY <1>0, <2>2, <2>6, AppearsOne
    <3> QED BY <1>0, <2>3, <3>1 DEF HasUser
  <2> QED BY <2>5, <2>6
<1>5. CASE Disappear
  <2>1. PICK u \in Users : users' = [users EXCEPT ![u] = "deleted"] /\ CascadeDelete(u)
    BY <1>5 DEF Disappear
  <2>2. CASE Live(e) /\ rows[e].user = u
    <3>1. rows'[e] = [rows[e] EXCEPT !.status = "GONE"]
      BY <2>1, <2>2 DEF CascadeDelete
    <3>2. rows'[e].status = "GONE" /\ rows'[e].user = u /\ rows'[e].target = rows[e].target
          /\ rows'[e].key = rows[e].key
      BY <1>0, <2>2, <3>1 DEF Event
    <3> QED BY <1>0, <2>1, <2>2, <3>2 DEF HasUser, Live
  <2>3. CASE ~(Live(e) /\ rows[e].user = u)
    <3>1. rows'[e] = rows[e]
      BY <2>1, <2>3 DEF CascadeDelete
    <3>2. rows[e].status \in {"NONE", "GONE"} \/ rows[e].user # u
      BY <1>0, <2>3 DEF Event, Live
    <3> QED BY <1>0, <2>1, <3>1, <3>2, NoUserAssumption DEF HasUser
  <2> QED BY <2>2, <2>3
<1> QED BY <1>1, <1>2, <1>3, <1>4, <1>5 DEF TablesMove

LEMMA CopyMatchesKept ==
  ASSUME Inv, ChainInv, TablesMove, NEW w \in Workers, WorkerAdvances(w)
  PROVE  CopyMatches(w)'
<1>0. TypeOK /\ CopyMatches(w)
  BY DEF Inv, ChainInv
<1>1. ASSUME worker[w].pc \notin {"idle", "next"}, worker'[w].msg = worker[w].msg,
             worker'[w].ev = worker[w].ev,
             worker'[w].pc = "completeOnly" => users'[worker[w].ev.user] = "deleted"
      PROVE  CopyMatches(w)'
  <2>1. Current(w) \in EventIds /\ rows[Current(w)].status # "NONE" /\ Current(w)' = Current(w)
    BY <1>1, CopyFacts DEF Current
  <2>2. rows'[Current(w)].user = rows[Current(w)].user /\ rows'[Current(w)].target = rows[Current(w)].target
    BY <1>0, <2>1, RowStays
  <2> QED BY <1>0, <1>1, <2>1, <2>2 DEF CopyMatches
<1>2. CASE worker'[w] = worker[w] /\ worker[w].pc \notin {"idle", "next"}
  <2>1. worker[w].ev.user \in Users
    BY <1>2, CopyFacts
  <2>2. worker'[w].pc = "completeOnly" => users'[worker[w].ev.user] = "deleted"
    BY <1>0, <1>2, <2>1, DeletedStays DEF CopyMatches
  <2> QED BY <1>1, <1>2, <2>2
<1>3. CASE worker'[w].pc \in {"idle", "next"}
  BY <1>3 DEF CopyMatches
<1>4. CASE /\ worker'[w].pc = "deliver" /\ UNCHANGED rows
           /\ worker'[w].ev = rows[worker'[w].msg[1]]
  BY <1>4 DEF CopyMatches, Current
<1>5. CASE /\ worker[w].pc \notin {"idle", "next"}
           /\ worker'[w].msg = worker[w].msg /\ worker'[w].ev = worker[w].ev
           /\ worker'[w].pc = "completeOnly" => ~UserExists(worker[w].ev.user) /\ UNCHANGED <<users, rows>>
  <2>1. worker[w].ev.user \in Users /\ users[worker[w].ev.user] \in {"announced", "deleted"}
    BY <1>5, CopyFacts
  <2> QED BY <1>1, <1>5, <2>1 DEF UserExists
<1> QED BY <1>2, <1>3, <1>4, <1>5 DEF WorkerAdvances

-----------------------------------------------------------------------------
LEMMA LatestStays ==
  ASSUME TypeOK, TablesMove, NEW e \in EventIds, rows[e].status # "NONE", Latest(e),
         \A f \in EventIds : rows[f].status = "NONE" /\ rows'[f].status # "NONE" =>
           rows'[f].user # rows[e].user
  PROVE  Latest(e)'
<1> SUFFICES ASSUME NEW f \in EventIds, f # e, rows'[f].status # "NONE", rows'[f].user = rows'[e].user
             PROVE  rows'[f].target < rows'[e].target
  BY DEF Latest
<1>1. rows'[e].user = rows[e].user /\ rows'[e].target = rows[e].target
  BY RowStays
<1>2. rows[f].status # "NONE"
  BY <1>1
<1>3. rows'[f].user = rows[f].user /\ rows'[f].target = rows[f].target
  BY <1>2, RowStays
<1> QED BY <1>1, <1>2, <1>3 DEF Latest

\* Two events of one user cannot both be the latest.
LEMMA OneLatest ==
  ASSUME TypeOK, NEW e \in EventIds, NEW f \in EventIds, rows[e].status # "NONE",
         rows[f].status # "NONE", rows[e].user = rows[f].user, Latest(e), Latest(f)
  PROVE  e = f
<1>1. rows[e].target \in Int /\ rows[f].target \in Int
  BY DEF TypeOK, DatabaseTypeOK, Event
<1> QED BY <1>1 DEF Latest

\* The first event of a user is its only one.
LEMMA FirstFacts ==
  ASSUME Inv, ChainInv, FirstAppears
  PROVE  \E u \in Users, e \in EventIds, t \in Int :
           /\ rows'[e] = PendingEvent(u, t, "complete")
           /\ rows[e].status = "NONE"
           /\ \A f \in EventIds : rows[f].user # u
           /\ \A f \in EventIds : f # e => rows'[f] = rows[f]
           /\ UNCHANGED worker
<1>1. PICK u \in Users, e \in EventIds, t \in Int :
          /\ users[u] = "saved" /\ UNCHANGED worker
          /\ Appears(e, PendingEvent(u, t, "complete"))
  BY DEF FirstAppears
<1>2. \A f \in EventIds : rows[f].user # u
  BY <1>1, NoUserAssumption DEF ChainInv, HasUser
<1>3. rows[e].status = "NONE" /\ TypeOK
  BY <1>1 DEF Appears, Inv
<1>4. rows'[e] = PendingEvent(u, t, "complete") /\ \A f \in EventIds : f # e => rows'[f] = rows[f]
  BY <1>1, <1>3, AppearsOne
<1> QED BY <1>1, <1>2, <1>3, <1>4

\* Next year's event of worker w comes after all others of its user, none of which
\* is open or being followed by another worker.
LEMMA NextFacts ==
  ASSUME Inv, ChainInv, NEW w \in Workers, NextAppears(w)
  PROVE  /\ Current(w) \in EventIds
         /\ rows[Current(w)].status = "COMPLETED"
         /\ Latest(Current(w))
         /\ \E e \in EventIds :
              /\ rows[e].status = "NONE"
              /\ rows'[e] = PendingEvent(rows[Current(w)].user, NextYear(rows[Current(w)].target), "messageOnly")
              /\ \A f \in EventIds : f # e => rows'[f] = rows[f]
<1>1. Creating(w) /\ UserExists(worker[w].ev.user) /\ worker[w].pc \notin {"idle", "next"} /\ TypeOK
  BY DEF NextAppears, Creating, Inv
<1>2. /\ Current(w) \in EventIds
      /\ worker[w].ev.user = rows[Current(w)].user /\ worker[w].ev.target = rows[Current(w)].target
  BY <1>1, CopyFacts DEF ChainInv, CopyMatches
<1>3. rows[Current(w)].status = "COMPLETED" /\ Latest(Current(w))
  BY <1>1, CopyFacts DEF ChainInv, CreatingIsLatest, UserExists
<1>4. PICK e \in EventIds :
          Appears(e, PendingEvent(rows[Current(w)].user, NextYear(rows[Current(w)].target), "messageOnly"))
  BY <1>2 DEF NextAppears
<1>5. /\ rows[e].status = "NONE"
      /\ rows'[e] = PendingEvent(rows[Current(w)].user, NextYear(rows[Current(w)].target), "messageOnly")
      /\ \A f \in EventIds : f # e => rows'[f] = rows[f]
  BY <1>1, <1>4, AppearsOne DEF Appears
<1> QED BY <1>2, <1>3, <1>5

LEMMA OpenLatestKept ==
  ASSUME Inv, ChainInv, TablesMove, NEW e \in EventIds, Open(e)'
  PROVE  Latest(e)'
<1>0. TypeOK /\ rows \in [EventIds -> Event] /\ rows[e] \in Event
  BY DEF Inv, TypeOK, DatabaseTypeOK
<1>1. ASSUME rows[e].status # "NONE" PROVE Open(e) /\ Latest(e)
  BY <1>0, <1>1, RowStays DEF ChainInv
<1>2. CASE NoneAppears
  <2>1. rows[e].status # "NONE"
    BY <1>2 DEF NoneAppears, Open
  <2> QED BY <1>0, <1>1, <1>2, <2>1, LatestStays DEF NoneAppears
<1>3. CASE FirstAppears
  <2>1. PICK u \in Users, f \in EventIds, t \in Int :
           /\ rows'[f] = PendingEvent(u, t, "complete") /\ rows[f].status = "NONE"
           /\ \A g \in EventIds : rows[g].user # u
           /\ \A g \in EventIds : g # f => rows'[g] = rows[g]
    BY <1>3, FirstFacts
  <2>2. rows'[f].user = u
    BY <2>1, NewEvent
  <2>3. CASE e = f
    BY <2>1, <2>2, <2>3 DEF Latest
  <2>4. CASE e # f
    <3>1. rows[e].status # "NONE"
      BY <2>1, <2>4 DEF Open
    <3> QED BY <1>0, <1>1, <2>1, <2>2, <3>1, LatestStays
  <2> QED BY <2>3, <2>4
<1>4. CASE \E w \in Workers : NextAppears(w)
  <2>1. PICK w \in Workers : NextAppears(w)
    BY <1>4
  <2> DEFINE c == Current(w)
  <2>2. c \in EventIds /\ rows[c].status = "COMPLETED" /\ Latest(c)
    BY <2>1, NextFacts
  <2>3. PICK f \in EventIds :
           /\ rows[f].status = "NONE"
           /\ rows'[f] = PendingEvent(rows[c].user, NextYear(rows[c].target), "messageOnly")
           /\ \A g \in EventIds : g # f => rows'[g] = rows[g]
    BY <2>1, NextFacts
  <2> HIDE DEF c
  <2>4. rows'[f].user = rows[c].user /\ rows'[f].target = NextYear(rows[c].target)
    BY <2>3, NewEvent
  <2>5. CASE e = f
    <3> SUFFICES ASSUME NEW g \in EventIds, g # e, rows'[g].status # "NONE", rows'[g].user = rows'[e].user
                 PROVE  rows'[g].target < rows'[e].target
      BY DEF Latest
    <3>1. rows[g].status # "NONE" /\ rows[g].user = rows[c].user /\ rows'[g].target = rows[g].target
      BY <2>3, <2>4, <2>5
    <3>2. rows[g].target \in Int /\ rows[c].target \in Int
      BY <1>0, <2>2 DEF Event
    <3>3. g = c \/ rows[g].target < rows[c].target
      BY <2>2, <3>1 DEF Latest
    <3> QED BY <2>4, <2>5, <3>1, <3>2, <3>3, YearAssumption DEF NextYear
  <2>6. CASE e # f
    <3>1. rows[e].status # "NONE"
      BY <2>3, <2>6 DEF Open
    <3>2. rows[e].user # rows[c].user
      BY <1>0, <1>1, <2>2, <3>1, OneLatest DEF Open
    <3> QED BY <1>0, <1>1, <2>3, <2>4, <3>1, <3>2, LatestStays
  <2> QED BY <2>5, <2>6
<1> QED BY <1>0, <1>2, <1>3, <1>4, WhatAppears

LEMMA CreatingKept ==
  ASSUME Inv, ChainInv, TablesMove, NEW w \in Workers, WorkerAdvances(w)
  PROVE  CreatingIsLatest(w)'
<1> SUFFICES ASSUME worker'[w].pc = "create"
             PROVE  rows'[worker'[w].msg[1]].status \in {"COMPLETED", "GONE"} /\ Latest(Current(w))'
  BY DEF CreatingIsLatest, Creating, Current
<1> DEFINE c == Current(w)
<1>0. TypeOK /\ rows \in [EventIds -> Event]
  BY DEF Inv, TypeOK, DatabaseTypeOK
<1>1. /\ worker[w].pc \notin {"idle", "next"} /\ worker'[w].msg = worker[w].msg
      /\ \/ Creating(w) /\ worker'[w] = worker[w]
         \/ Completes(w)
  BY DEF WorkerAdvances, Creating
<1>2. c \in EventIds /\ rows[c].status # "NONE" /\ Current(w)' = c /\ worker'[w].msg[1] = c
  BY <1>1, CopyFacts DEF Current
<1>3. rows'[c].status \in {"COMPLETED", "GONE"} /\ Latest(c)
  <2>1. CASE Creating(w)
    BY <1>0, <1>2, <2>1, RowStays DEF ChainInv, CreatingIsLatest
  <2>2. CASE Completes(w)
    BY <1>2, <2>2 DEF Completes, ChainInv, Open
  <2> QED BY <1>1, <2>1, <2>2
<1>4. \A f \in EventIds : rows[f].status = "NONE" /\ rows'[f].status # "NONE" =>
        rows'[f].user # rows[c].user
  <2>1. CASE NoneAppears
    BY <2>1 DEF NoneAppears
  <2>2. CASE FirstAppears
    <3>1. PICK u \in Users, f \in EventIds, t \in Int :
             /\ rows'[f] = PendingEvent(u, t, "complete")
             /\ \A g \in EventIds : rows[g].user # u
             /\ \A g \in EventIds : g # f => rows'[g] = rows[g]
      BY <2>2, FirstFacts
    <3>2. rows'[f].user = u
      BY <3>1, NewEvent
    <3> QED BY <1>2, <3>1, <3>2
  <2>3. CASE \E v \in Workers : NextAppears(v)
    <3>1. PICK v \in Workers : NextAppears(v)
      BY <2>3
    <3>2. v # w /\ Creating(v)
      BY <3>1 DEF NextAppears
    <3>3. Current(v) \in EventIds /\ rows[Current(v)].status = "COMPLETED" /\ Latest(Current(v))
      BY <3>1, NextFacts
    <3>4. PICK f \in EventIds :
             /\ rows'[f] = PendingEvent(rows[Current(v)].user, NextYear(rows[Current(v)].target), "messageOnly")
             /\ \A g \in EventIds : g # f => rows'[g] = rows[g]
      BY <3>1, NextFacts
    <3>5. rows'[f].user = rows[Current(v)].user
      BY <3>4, NewEvent
    <3>6. Current(v) # c
      <4>1. CASE Creating(w)
        BY <3>2, <4>1 DEF ChainInv
      <4>2. CASE Completes(w)
        BY <3>3, <4>2 DEF Completes
      <4> QED BY <1>1, <4>1, <4>2
    <3>7. rows[Current(v)].user # rows[c].user
      BY <1>0, <1>2, <1>3, <3>3, <3>6, OneLatest
    <3> QED BY <3>4, <3>5, <3>7
  <2> QED BY <1>0, <2>1, <2>2, <2>3, WhatAppears
<1>5. Latest(c)'
  BY <1>0, <1>2, <1>3, <1>4, LatestStays
<1> QED BY <1>2, <1>3, <1>5

LEMMA CreatingApart ==
  ASSUME Inv, ChainInv, TablesMove, WorkersAdvance, NEW v \in Workers, NEW w \in Workers, v # w,
         worker'[v].pc = "create", worker'[w].pc = "create"
  PROVE  worker'[v].msg[1] # worker'[w].msg[1]
<1>1. ASSUME NEW x \in Workers, worker'[x].pc = "create"
      PROVE  /\ worker'[x].msg[1] = Current(x)
             /\ \/ Creating(x)
                \/ Completes(x)
  BY <1>1 DEF WorkersAdvance, WorkerAdvances, Creating, Current
<1>2. ASSUME NEW x \in Workers, Creating(x) PROVE rows[Current(x)].status # "PROCESSING"
  BY <1>2 DEF ChainInv, CreatingIsLatest
<1>3. CASE Creating(v) /\ Creating(w)
  BY <1>1, <1>3 DEF ChainInv
<1>4. CASE Completes(v)
  <2>1. worker'[w] = worker[w]
    BY <1>4 DEF Completes
  <2> QED BY <1>1, <1>2, <1>4, <2>1 DEF Completes, Creating
<1>5. CASE Completes(w)
  <2>1. worker'[v] = worker[v]
    BY <1>5 DEF Completes
  <2> QED BY <1>1, <1>2, <1>5, <2>1 DEF Completes, Creating
<1> QED BY <1>1, <1>3, <1>4, <1>5

LEMMA FollowerKept ==
  ASSUME Inv, ChainInv, TablesMove, NEW f \in EventIds, Live(f)', rows'[f].payload = "messageOnly"
  PROVE  \E e \in EventIds :
           /\ rows'[e].status = "COMPLETED"
           /\ rows'[e].user = rows'[f].user
           /\ NextYear(rows'[e].target) = rows'[f].target
<1>0. TypeOK
  BY DEF Inv
<1>1. CASE rows[f].status # "NONE"
  <2>1. /\ Live(f) /\ rows[f].payload = "messageOnly"
        /\ rows'[f].user = rows[f].user /\ rows'[f].target = rows[f].target
    BY <1>0, <1>1, RowStays
  <2>2. PICK e \in EventIds :
          /\ rows[e].status = "COMPLETED"
          /\ rows[e].user = rows[f].user
          /\ NextYear(rows[e].target) = rows[f].target
    BY <2>1 DEF ChainInv, FollowerNeedsCompletion
  <2>3. /\ rows'[e].status \in {"COMPLETED", "GONE"}
        /\ rows'[e].user = rows[e].user /\ rows'[e].target = rows[e].target
    BY <1>0, <2>2, RowStays
  <2>4. HasUser(e)' /\ HasUser(f)'
    BY HasUserKept
  <2>5. rows'[e].status # "GONE"
    BY <2>1, <2>2, <2>3, <2>4 DEF HasUser, Live
  <2> QED BY <2>1, <2>2, <2>3, <2>5
<1>2. CASE rows[f].status = "NONE"
  <2>1. rows'[f].status # "NONE"
    BY DEF Live
  <2>2. CASE FirstAppears
    <3>1. PICK u \in Users, g \in EventIds, t \in Int :
             /\ rows'[g] = PendingEvent(u, t, "complete")
             /\ \A h \in EventIds : h # g => rows'[h] = rows[h]
      BY <2>2, FirstFacts
    <3>2. rows'[g].payload = "complete"
      BY <3>1, NewEvent
    <3> QED BY <1>2, <2>1, <3>1, <3>2
  <2>3. CASE \E w \in Workers : NextAppears(w)
    <3>1. PICK w \in Workers : NextAppears(w)
      BY <2>3
    <3> DEFINE c == Current(w)
    <3>2. c \in EventIds /\ rows[c].status = "COMPLETED"
      BY <3>1, NextFacts
    <3>3. PICK g \in EventIds :
             /\ rows[g].status = "NONE"
             /\ rows'[g] = PendingEvent(rows[c].user, NextYear(rows[c].target), "messageOnly")
             /\ \A h \in EventIds : h # g => rows'[h] = rows[h]
      BY <3>1, NextFacts
    <3> HIDE DEF c
    <3>4. g = f /\ c # g /\ rows'[c] = rows[c]
      BY <1>2, <2>1, <3>2, <3>3
    <3>5. rows'[f].user = rows[c].user /\ rows'[f].target = NextYear(rows[c].target)
      BY <3>3, <3>4, NewEvent
    <3> QED BY <3>2, <3>4, <3>5
  <2> QED BY <1>0, <1>2, <2>1, <2>2, <2>3, WhatAppears DEF NoneAppears
<1> QED BY <1>1, <1>2

LEMMA ChainInit == Init => ChainInv
<1> SUFFICES ASSUME Init PROVE ChainInv
  OBVIOUS
<1>1. /\ \A e \in EventIds : rows[e].status = "NONE" /\ rows[e].user = NoUser
      /\ \A w \in Workers : worker[w].pc = "idle"
  BY DEF Init, DatabaseInit, NoEvent, WorkerInit, IdleWorker
<1> QED BY <1>1 DEF ChainInv, HasUser, CopyMatches, Open, CreatingIsLatest, Creating,
                    FollowerNeedsCompletion, Live

LEMMA ChainStep == Inv /\ ChainInv /\ [Next]_vars => ChainInv'
<1> SUFFICES ASSUME Inv, ChainInv, [Next]_vars PROVE ChainInv'
  OBVIOUS
<1>1. TablesMove /\ WorkersAdvance
  BY StepMovesTables
<1>2. \A e \in EventIds : HasUser(e)'
  BY <1>1, HasUserKept
<1>3. \A w \in Workers : CopyMatches(w)' /\ CreatingIsLatest(w)'
  BY <1>1, CopyMatchesKept, CreatingKept DEF WorkersAdvance
<1>4. \A e \in EventIds : Open(e)' => Latest(e)'
  BY <1>1, OpenLatestKept
<1>5. \A v, w \in Workers : v # w /\ Creating(v)' /\ Creating(w)' => Current(v)' # Current(w)'
  BY <1>1, CreatingApart DEF Creating, Current
<1>6. FollowerNeedsCompletion'
  BY <1>1, FollowerKept DEF FollowerNeedsCompletion
<1> QED BY <1>2, <1>3, <1>4, <1>5, <1>6 DEF ChainInv

LEMMA ChainInvariance == Spec => [](Inv /\ ChainInv)
<1>1. Init => Inv /\ ChainInv
  BY InitInv, ChainInit
<1>2. Inv /\ ChainInv /\ [Next]_vars => (Inv /\ ChainInv)'
  BY StepInv, ChainStep
<1> QED BY <1>1, <1>2, PTL DEF Spec

\* A birthday's event exists because the one of the year before was completed, and
\* that one is still there: no crash, repetition or deletion leaves a follower alone.
THEOREM NoFollowerWithoutCompletion == Spec => []FollowerNeedsCompletion
<1>1. ChainInv => FollowerNeedsCompletion
  BY DEF ChainInv
<1> QED BY <1>1, ChainInvariance, PTL

\* However many workers hold an event, its user never has two waiting or in progress.
THEOREM ChainIsSingle == Spec => []OneOpenEventPerUser
<1>1. Inv /\ ChainInv => OneOpenEventPerUser
  <2> SUFFICES ASSUME Inv, ChainInv, NEW e \in EventIds, NEW f \in EventIds,
                      Open(e), Open(f), rows[e].user = rows[f].user
               PROVE  e = f
    BY DEF OneOpenEventPerUser, Open
  <2>1. rows[e].status # "NONE" /\ rows[f].status # "NONE"
    BY DEF Open
  <2>2. Latest(e) /\ Latest(f) /\ TypeOK
    BY DEF ChainInv, Inv
  <2> QED BY <2>1, <2>2, OneLatest
<1> QED BY <1>1, ChainInvariance, PTL

-----------------------------------------------------------------------------
(***************************************************************************)
(* A worker fault costs one follower at most.  What the worker that        *)
(* completed an event meets at its create is a follower already there, or  *)
(* a deleted user, and then the completed event is gone too; only when it  *)
(* stops there is its event left alone.                                    *)
(***************************************************************************)
HasFollower(e) ==
  \E f \in EventIds : /\ Live(f)
                      /\ rows[f].user = rows[e].user
                      /\ rows[f].target = NextYear(rows[e].target)

\* A follower lasts as long as its event: one deletion takes both.
LEMMA FollowerStays ==
  ASSUME Inv, Inv', ChainInv, ChainInv', TablesMove, NEW e \in EventIds,
         rows[e].status = "COMPLETED", rows'[e].status = "COMPLETED", HasFollower(e)
  PROVE  HasFollower(e)'
<1>1. PICK f \in EventIds : /\ Live(f)
                            /\ rows[f].user = rows[e].user
                            /\ rows[f].target = NextYear(rows[e].target)
  BY DEF HasFollower
<1>2. TypeOK /\ rows'[f].status \in EventStatus \cup {"NONE", "GONE"}
  BY DEF Inv, TypeOK, DatabaseTypeOK, Event
<1>3. rows'[f].status # "NONE" /\ rows'[f].user = rows[f].user /\ rows'[f].target = rows[f].target
  BY <1>1, <1>2, RowStays DEF Live
<1>4. rows'[e].user = rows[e].user /\ rows'[e].target = rows[e].target
  BY <1>2, RowStays
<1>5. HasUser(e)' /\ HasUser(f)'
  BY DEF ChainInv
<1>6. rows'[f].status # "GONE"
  BY <1>1, <1>3, <1>4, <1>5 DEF HasUser
<1> QED BY <1>1, <1>2, <1>3, <1>4, <1>6 DEF HasFollower, Live

\* Faults are counted, and a worker that stops counts as one.
LEMMA FaultsAreCounted ==
  ASSUME TypeOK, [Next]_vars
  PROVE  /\ faults.worker \in Nat
         /\ faults'.worker \in {faults.worker, faults.worker + 1}
         /\ (\E w \in Workers : WorkerFails(w)) => faults'.worker = faults.worker + 1
<1>1. faults \in [scheduler : Nat, worker : Nat]
  BY DEF TypeOK, PlatformTypeOK
<1>2. faults.worker \in Nat
  BY <1>1
<1>3. WorkerFault => faults'.worker = faults.worker + 1
  BY <1>1 DEF WorkerFault
<1>4. SchedulerFault => faults'.worker = faults.worker
  BY <1>1 DEF SchedulerFault
<1>5. (\E w \in Workers : WorkerFails(w)) => WorkerFault
  BY DEF WorkerFails, RetryDelivery, DeliverFails, WorkerStops
<1>6. UNCHANGED faults \/ SchedulerFault \/ WorkerFault
  <2>1. ASSUME NEW u \in Users, UserRequest(u) PROVE UNCHANGED faults
    BY <2>1 DEF UserRequest, CreateUser, CreateBirthdayEvent, CreateBirthdayEventAt,
                CreateBirthdayEventFails, DeleteUser, platformVars
  <2>2. ASSUME NEW s \in Schedulers, SchedulerRuns(s) \/ SchedulerFails(s)
        PROVE  UNCHANGED faults \/ SchedulerFault
    BY <2>2 DEF SchedulerRuns, SchedulerFails, platformVars, Invoke, FindMissedEvents, QueueMissed,
         RecoveryDone, SelectForUpdate, MarkProcessing, SendClaimed, QueueMissedFails, RecoveryFails,
         ClaimFails, SendFails, SchedulerStops
  <2>3. ASSUME NEW w \in Workers, WorkerRuns(w) PROVE UNCHANGED faults
    BY <2>3 DEF WorkerRuns, platformVars, Receive, SkipRecord, RejectPayload, StartRecord,
                DeliverAccepted, DeliverRejected, MarkFailed, FindUser, CompleteEvent, CreateNextYear,
                CreateFollower, Finish
  <2>4. ASSUME NEW m \in Messages, QueueRuns(m) \/ QueueOvertakes(m) PROVE UNCHANGED faults \/ WorkerFault
    BY <2>4 DEF QueueRuns, QueueOvertakes, VisibilityTimeout, VisibilityTimeoutEarly, Redrive, platformVars
  <2>5. ASSUME ClockTicks \/ UNCHANGED vars PROVE UNCHANGED faults
    BY <2>5 DEF ClockTicks, Tick, vars, platformVars
  <2> QED BY <1>5, <2>1, <2>2, <2>3, <2>4, <2>5 DEF Next
<1> QED BY <1>2, <1>3, <1>4, <1>5, <1>6

\* Who completes an event is the worker that holds it, and it goes on to create.
LEMMA CompletedBy ==
  ASSUME Inv, ChainInv, [Next]_vars, NEW e \in EventIds,
         rows[e].status # "COMPLETED", rows'[e].status = "COMPLETED"
  PROVE  \E w \in Workers : worker'[w].pc = "create" /\ worker'[w].msg[1] = e
<1>0. TypeOK /\ rows \in [EventIds -> Event]
  BY DEF Inv, TypeOK, DatabaseTypeOK
<1>1. CASE \E w \in Workers : WorkerRuns(w) \/ WorkerFails(w)
  <2>1. PICK w \in Workers : WorkerWrites(w)
    BY <1>1, WorkerStepMoves DEF ChainInv
  <2>2. CASE CompletesFor(w)
    <3>1. worker[w].pc \notin {"idle", "next"} /\ rows[Current(w)].status = "PROCESSING" /\ e = Current(w)
      BY <2>2 DEF CompletesFor, Settles
    <3>2. worker[w].pc # "completeOnly"
      BY <3>1, CopyFacts DEF ChainInv, CopyMatches
    <3> QED BY <2>2, <3>1, <3>2 DEF CompletesFor, Current
  <2>3. CASE UNCHANGED rows \/ Settles(w, "FAILED")
    BY <2>3 DEF Settles
  <2>4. CASE NextAppears(w)
    <3>1. PICK f \in EventIds :
             /\ rows'[f] = PendingEvent(rows[Current(w)].user, NextYear(rows[Current(w)].target), "messageOnly")
             /\ \A g \in EventIds : g # f => rows'[g] = rows[g]
      BY <2>4, NextFacts
    <3> QED BY <3>1, NewEvent
  <2> QED BY <2>1, <2>2, <2>3, <2>4 DEF WorkerWrites
<1>2. CASE \E s \in Schedulers : SchedulerRuns(s) \/ SchedulerFails(s)
  <2>1. PICK s \in Schedulers : SchedulerRuns(s) \/ SchedulerFails(s)
    BY <1>2
  <2>2. CASE MarkProcessing(s)
    <3>1. rows'[e].status = "PROCESSING" \/ rows'[e] = rows[e]
      BY <1>0, <2>2 DEF MarkProcessing, ToProcessing, Event
    <3> QED BY <3>1
  <2>3. CASE ~MarkProcessing(s)
    <3>1. UNCHANGED rows
      BY <2>1, <2>3 DEF SchedulerRuns, SchedulerFails, databaseVars, Invoke, FindMissedEvents, QueueMissed,
         RecoveryDone, SelectForUpdate, SendClaimed, QueueMissedFails, RecoveryFails, ClaimFails,
         SendFails, SchedulerStops
    <3> QED BY <3>1
  <2> QED BY <2>2, <2>3
<1>3. CASE \E u \in Users : UserRequest(u)
  <2>1. PICK u \in Users : UserRequest(u)
    BY <1>3
  <2>2. Registers \/ FirstAppears \/ Disappear
    BY <2>1, UserStepMoves
  <2>3. CASE FirstAppears
    <3>1. PICK v \in Users, f \in EventIds, t \in Int :
             /\ rows'[f] = PendingEvent(v, t, "complete")
             /\ \A g \in EventIds : g # f => rows'[g] = rows[g]
      BY <2>3, FirstFacts
    <3> QED BY <3>1, NewEvent
  <2>4. CASE Registers
    BY <2>4 DEF Registers
  <2>5. CASE Disappear
    <3>1. rows'[e] = rows[e] \/ rows'[e] = [rows[e] EXCEPT !.status = "GONE"]
      BY <2>5 DEF Disappear, CascadeDelete
    <3> QED BY <1>0, <3>1 DEF Event
  <2> QED BY <2>2, <2>3, <2>4, <2>5
<1>4. CASE \/ ClockTicks \/ UNCHANGED vars
           \/ \E m \in Messages : QueueRuns(m) \/ QueueOvertakes(m)
  <2>1. UNCHANGED rows
    BY <1>4 DEF ClockTicks, vars, QueueRuns, QueueOvertakes, VisibilityTimeout, VisibilityTimeoutEarly,
                Redrive, databaseVars, workerVars
  <2> QED BY <2>1
<1> QED BY <1>1, <1>2, <1>3, <1>4 DEF Next

\* The worker between the two statements stays there, ends with a follower in the
\* table, or fails.
LEMMA CreatorFollows ==
  ASSUME Inv, ChainInv, [Next]_vars, NEW w \in Workers, Creating(w),
         rows[Current(w)].status = "COMPLETED"
  PROVE  \/ WorkerFails(w)
         \/ worker'[w] = worker[w]
         \/ HasFollower(Current(w))
         \/ NextAppears(w)
<1> DEFINE c == Current(w)
<1>0. TypeOK /\ worker[w].pc = "create" /\ worker[w].pc \notin {"idle", "next"}
  BY DEF Inv, Creating
<1>1. CASE UNCHANGED worker
  BY <1>1
<1>2. CASE \E v \in Workers \ {w} : WorkerRuns(v) \/ WorkerFails(v)
  BY <1>2, WorkerStepMoves DEF ChainInv
<1>3. CASE WorkerRuns(w)
  <2>1. CreateNextYear(w)
    <3> QED BY <1>0, <1>3 DEF WorkerRuns, Receive, SkipRecord, RejectPayload, StartRecord, DeliverAccepted,
                  DeliverRejected, MarkFailed, FindUser, CompleteEvent, Finish
  <2>2. /\ c \in EventIds /\ worker[w].ev.user \in Users
        /\ users[worker[w].ev.user] = "announced"
        /\ rows[c].user = worker[w].ev.user /\ rows[c].target = worker[w].ev.target
    BY <1>0, CopyFacts DEF ChainInv, CopyMatches
  <2>3. UserExists(worker[w].ev.user)
    BY <2>2 DEF UserExists
  <2> DEFINE key == IdempotencyKey(worker[w].ev.user, NextYear(worker[w].ev.target))
  <2>4. KeyTaken(key) \/ ~KeyTaken(key)
    OBVIOUS
  <2>5. CASE KeyTaken(key)
    <3>1. PICK f \in EventIds : Live(f) /\ rows[f].key = key
      BY <2>5 DEF KeyTaken
    <3>2. rows[f].key = IdempotencyKey(rows[f].user, rows[f].target)
      BY <3>1 DEF ChainInv, HasUser, Live
    <3>3. rows[f].user = rows[c].user /\ rows[f].target = NextYear(rows[c].target)
      BY <2>2, <3>1, <3>2 DEF IdempotencyKey
    <3> QED BY <3>1, <3>3 DEF HasFollower
  <2>6. CASE ~KeyTaken(key)
    <3>1. UNCHANGED users /\ Return(w)
          /\ create(PendingEvent(worker[w].ev.user, NextYear(worker[w].ev.target), "messageOnly"))
      BY <2>1, <2>3, <2>6, NewEvent DEF CreateNextYear, CreateFollower
    <3>2. lastId + 1 \in EventIds /\ rows[lastId + 1].status = "NONE"
      BY <3>1, MaxEventsAssumption DEF create, Inv, IdsAreFresh, TypeOK, DatabaseTypeOK, EventIds
    <3>3. worker'[w].pc = "next"
      <4>1. worker'[w] = [worker[w] EXCEPT !.pc = "next", !.todo = worker[w].todo \ {worker[w].msg},
                                           !.msg = NoMessage, !.ev = NoEvent]
        BY <1>0, <3>1, Zenon DEF Return, TypeOK, WorkerTypeOK
      <4> QED BY <1>0, <4>1 DEF TypeOK, WorkerTypeOK
    <3>4. Appears(lastId + 1,
                  PendingEvent(worker[w].ev.user, NextYear(worker[w].ev.target), "messageOnly"))
      BY <3>1, <3>2 DEF create, Appears
    <3> QED BY <2>3, <3>1, <3>2, <3>3, <3>4 DEF NextAppears
  <2> QED BY <2>5, <2>6
<1>4. UNCHANGED worker \/ \E v \in Workers : WorkerRuns(v) \/ WorkerFails(v)
  BY UserStepMoves DEF Next, vars, ClockTicks, workerVars, SchedulerRuns, SchedulerFails, QueueRuns,
     QueueOvertakes, VisibilityTimeout, VisibilityTimeoutEarly, Redrive
<1> QED BY <1>1, <1>2, <1>3, <1>4

\* An event is followed as long as it was, unless w fails between the two statements.
LEMMA FollowedStays ==
  ASSUME Inv, Inv', ChainInv, ChainInv', [Next]_vars, NEW e \in EventIds,
         rows'[e].status = "COMPLETED",
         rows[e].status = "COMPLETED" => IsFollowed(e)
  PROVE  \/ IsFollowed(e)'
         \/ \E w \in Workers : WorkerFails(w) /\ Creating(w) /\ e = Current(w)
<1>0. TypeOK /\ TablesMove
  BY StepMovesTables DEF Inv
<1>1. CASE rows[e].status # "COMPLETED"
  <2>1. PICK w \in Workers : worker'[w].pc = "create" /\ worker'[w].msg[1] = e
    BY <1>1, CompletedBy
  <2> QED BY <2>1 DEF IsFollowed, Current
<1>2. CASE rows[e].status = "COMPLETED" /\ HasFollower(e)
  <2>1. HasFollower(e)'
    BY <1>0, <1>2, FollowerStays
  <2> QED BY <2>1 DEF IsFollowed, HasFollower, Live
<1>3. CASE rows[e].status = "COMPLETED" /\ ~HasFollower(e)
  <2>1. PICK w \in Workers : Creating(w) /\ Current(w) = e
    BY <1>3 DEF IsFollowed, HasFollower, Creating
  <2>2. WorkerFails(w) \/ worker'[w] = worker[w] \/ NextAppears(w)
    BY <1>3, <2>1, CreatorFollows
  <2>3. CASE worker'[w] = worker[w]
    BY <2>1, <2>3 DEF Creating, Current, IsFollowed
  <2>4. CASE NextAppears(w)
    <3>1. PICK f \in EventIds :
            /\ rows[f].status = "NONE"
            /\ rows'[f] = PendingEvent(rows[e].user, NextYear(rows[e].target), "messageOnly")
            /\ \A g \in EventIds : g # f => rows'[g] = rows[g]
      BY <2>1, <2>4, NextFacts
    <3>2. e # f /\ rows'[e] = rows[e]
      BY <1>3, <3>1
    <3>3. /\ rows'[f].status = "PENDING" /\ rows'[f].user = rows[e].user
          /\ rows'[f].target = NextYear(rows[e].target)
      BY <3>1, NewEvent
    <3> QED BY <3>2, <3>3 DEF IsFollowed, Live
  <2> QED BY <2>1, <2>2, <2>3, <2>4
<1> QED BY <1>1, <1>2, <1>3

\* A set with at most one element more.
LEMMA OneMore ==
  ASSUME NEW K, IsFiniteSet(K), NEW L, NEW x, L \subseteq K \cup {x}
  PROVE  IsFiniteSet(L) /\ Cardinality(L) \in Nat /\ Cardinality(K) \in Nat
         /\ Cardinality(L) <= Cardinality(K) + 1
<1>1. IsFiniteSet(K \cup {x}) /\ Cardinality(K \cup {x}) <= Cardinality(K) + 1 /\ Cardinality(K) \in Nat
  BY FS_AddElement, FS_CardinalityType
<1>2. IsFiniteSet(L) /\ Cardinality(L) <= Cardinality(K \cup {x})
  BY <1>1, FS_Subset
<1>3. Cardinality(L) \in Nat /\ Cardinality(K \cup {x}) \in Nat
  BY <1>1, <1>2, FS_CardinalityType
<1> QED BY <1>1, <1>2, <1>3

LEMMA LostStep ==
  ASSUME Inv, Inv', ChainInv, ChainInv', LostFollowersHaveACause, [Next]_vars
  PROVE  LostFollowersHaveACause'
<1>1. /\ faults.worker \in Nat /\ faults'.worker \in {faults.worker, faults.worker + 1}
      /\ (\E w \in Workers : WorkerFails(w)) => faults'.worker = faults.worker + 1
  BY FaultsAreCounted DEF Inv
<1>2. IsFiniteSet(Unfollowed)
  <2>1. IsFiniteSet(EventIds)
    BY FS_Interval, MaxEventsAssumption DEF EventIds
  <2> QED BY <2>1, FS_Subset DEF Unfollowed
<1>3. ASSUME NEW e \in Unfollowed', e \notin Unfollowed
      PROVE  \E w \in Workers : WorkerFails(w) /\ Creating(w) /\ e = Current(w)
  BY <1>3, FollowedStays DEF Unfollowed
<1>4. CASE \A w \in Workers : ~WorkerFails(w)
  <2>1. Unfollowed' \subseteq Unfollowed
    BY <1>3, <1>4
  <2>2. /\ Cardinality(Unfollowed) \in Nat /\ Cardinality(Unfollowed') \in Nat
        /\ Cardinality(Unfollowed') <= Cardinality(Unfollowed)
    BY <1>2, <2>1, FS_Subset, FS_CardinalityType
  <2> QED BY <1>1, <2>2 DEF LostFollowersHaveACause
<1>5. CASE \E v \in Workers : WorkerFails(v)
  <2>1. PICK v \in Workers : WorkerFails(v)
    BY <1>5
  <2>2. ASSUME NEW w \in Workers, Creating(w), w # v, Current(w) \in Unfollowed' PROVE FALSE
    <3>1. worker'[w] = worker[w]
      BY <2>1, <2>2, WorkerStepMoves DEF Inv, ChainInv
    <3> QED BY <2>2, <3>1 DEF Creating, Current, Unfollowed, IsFollowed
  <2>3. Unfollowed' \subseteq Unfollowed \cup {Current(v)}
    BY <1>3, <2>2
  <2>4. /\ Cardinality(Unfollowed) \in Nat /\ Cardinality(Unfollowed') \in Nat
        /\ Cardinality(Unfollowed') <= Cardinality(Unfollowed) + 1
    BY <1>2, <2>3, OneMore
  <2> QED BY <1>1, <1>5, <2>4 DEF LostFollowersHaveACause
<1> QED BY <1>4, <1>5

\* A worker fault costs one next year's event at most, for any number of workers and
\* copies, whatever the schedulers do and whenever users come and go.
THEOREM EveryLostFollowerHasACause == Spec => []LostFollowersHaveACause
<1>1. Init => LostFollowersHaveACause
  <2> SUFFICES ASSUME Init PROVE LostFollowersHaveACause
    OBVIOUS
  <2>1. \A e \in EventIds : rows[e].status = "NONE"
    BY DEF Init, DatabaseInit, NoEvent
  <2>2. Unfollowed = {} /\ faults.worker = 0
    BY <2>1 DEF Unfollowed, Init, PlatformInit
  <2> QED BY <2>2, FS_EmptySet DEF LostFollowersHaveACause
<1>2. /\ Inv /\ ChainInv /\ (Inv /\ ChainInv)' /\ LostFollowersHaveACause /\ [Next]_vars
      => LostFollowersHaveACause'
  BY LostStep
<1> QED BY <1>1, <1>2, ChainInvariance, PTL DEF Spec

\* As long as no worker fails, a completed event is followed or about to be.
THEOREM EveryCompletionIsFollowed == Spec => [](faults.worker = 0 => CompletionIsFollowed)
<1>1. Inv /\ LostFollowersHaveACause => (faults.worker = 0 => CompletionIsFollowed)
  <2> SUFFICES ASSUME LostFollowersHaveACause, faults.worker = 0 PROVE Unfollowed = {}
    BY DEF CompletionIsFollowed
  <2>1. IsFiniteSet(EventIds)
    BY FS_Interval, MaxEventsAssumption DEF EventIds
  <2>2. IsFiniteSet(Unfollowed)
    BY <2>1, FS_Subset DEF Unfollowed
  <2>3. Cardinality(Unfollowed) = 0
    BY <2>2, FS_CardinalityType DEF LostFollowersHaveACause
  <2> QED BY <2>2, <2>3, FS_EmptySet
<1> QED BY <1>1, ChainInvariance, EveryLostFollowerHasACause, PTL

-----------------------------------------------------------------------------
(***************************************************************************)
(* The pipeline implements the lifecycle, step by step: what a step does   *)
(* to the tables decides which step of the lifecycle it is.                *)
(***************************************************************************)
Phase == [e \in EventIds |-> rows[e].status]

Delivered == {e \in EventIds : accepted[e] > 0}

\* What every step is to the lifecycle.
Refines == Lifecycle!Next \/ UNCHANGED <<Phase, Delivered, Followed>>

\* Followed depends on who the rows belong to, their targets and which exist.
LEMMA FollowedKept ==
  ASSUME TypeOK, TablesMove, NoneAppears,
         \A e \in EventIds : rows[e].status = "NONE" => /\ rows'[e].user = rows[e].user
                                                       /\ rows'[e].target = rows[e].target
  PROVE  Followed' = Followed
<1>1. ASSUME NEW f \in EventIds
      PROVE  /\ rows'[f].status # "NONE" <=> rows[f].status # "NONE"
             /\ rows'[f].user = rows[f].user /\ rows'[f].target = rows[f].target
  BY RowStays DEF NoneAppears
<1>2. ASSUME NEW e \in EventIds PROVE e \in Followed' <=> e \in Followed
  BY <1>1 DEF Followed
<1>3. Followed \subseteq EventIds /\ Followed' \subseteq EventIds
  BY DEF Followed
<1> QED BY <1>2, <1>3

\* Row e is the user's first event, created for a target of its own.
LEMMA FirstSchedules ==
  ASSUME Inv, ChainInv, FirstAppears, UNCHANGED accepted
  PROVE  Refines
<1>1. PICK u \in Users, i \in EventIds, t \in Int :
           /\ rows'[i] = PendingEvent(u, t, "complete")
           /\ rows[i].status = "NONE"
           /\ \A f \in EventIds : rows[f].user # u
           /\ \A f \in EventIds : f # i => rows'[f] = rows[f]
  BY FirstFacts
<1>2. rows'[i].user = u /\ rows'[i].status = "PENDING" /\ rows'[i].target = t
  BY <1>1, NewEvent
<1>3. NextYear(t) # t
  BY YearAssumption DEF NextYear
<1>4. Followed' = Followed
  <2>1. ASSUME NEW e \in EventIds PROVE e \in Followed' <=> e \in Followed
    <3>1. CASE e = i
      <4>1. e \notin Followed'
        BY <1>1, <1>2, <1>3, <3>1 DEF Followed
      <4>2. e \notin Followed
        <5>1. rows[i].user = NoUser
          BY <1>1 DEF ChainInv, HasUser
        <5> QED BY <3>1, <5>1, NoUserAssumption DEF Followed, ChainInv, HasUser
      <4> QED BY <4>1, <4>2
    <3>2. CASE e # i
      BY <1>1, <1>2, <3>2 DEF Followed
    <3> QED BY <3>1, <3>2
  <2> QED BY <2>1 DEF Followed
<1>5. Phase[i] = "NONE" /\ Phase' = [Phase EXCEPT ![i] = "PENDING"]
  BY <1>1, <1>2 DEF Phase
<1>6. Delivered' = Delivered
  BY DEF Delivered
<1>7. Lifecycle!Schedule(i)
  BY <1>4, <1>5, <1>6 DEF Lifecycle!Schedule, Phase, Delivered
<1> QED BY <1>7 DEF Refines, Lifecycle!Next

\* The event that worker w creates follows the one it completed, which had none yet.
LEMMA NextFollows ==
  ASSUME Inv, ChainInv, NEW w \in Workers, NextAppears(w), UNCHANGED accepted
  PROVE  Refines
<1>1. PICK c \in EventIds : c = Current(w)
  BY NextFacts
<1>2. rows[c].status = "COMPLETED" /\ Latest(c)
  BY <1>1, NextFacts
<1>3. PICK i \in EventIds :
           /\ rows[i].status = "NONE"
           /\ rows'[i] = PendingEvent(rows[c].user, NextYear(rows[c].target), "messageOnly")
           /\ \A f \in EventIds : f # i => rows'[f] = rows[f]
  BY <1>1, NextFacts
<1>4. /\ rows'[i].user = rows[c].user /\ rows'[i].status = "PENDING"
      /\ rows'[i].target = NextYear(rows[c].target)
  BY <1>3, NewEvent
<1>5. \A e \in EventIds : rows[e].target \in Int
  BY DEF Inv, TypeOK, DatabaseTypeOK, Event
<1>6. i # c /\ rows'[c] = rows[c]
  BY <1>2, <1>3
<1>7. \A t, v \in Int : /\ NextYear(t) \in Int /\ NextYear(t) > t
                        /\ NextYear(t) = NextYear(v) => t = v
  BY YearAssumption DEF NextYear
<1>8. Followed' = Followed \cup {c} /\ c \notin Followed
  <2>1. c \notin Followed
    <3> SUFFICES ASSUME NEW f \in EventIds, rows[f].status # "NONE", rows[f].user = rows[c].user,
                        rows[f].target = NextYear(rows[c].target)
                 PROVE  FALSE
      BY DEF Followed
    <3>1. f # c
      BY <1>5, <1>7
    <3>2. rows[f].target < rows[c].target
      BY <1>2, <3>1 DEF Latest
    <3> QED BY <1>5, <1>7, <3>2
  <2>2. c \in Followed'
    BY <1>3, <1>4, <1>6 DEF Followed
  <2>3. ASSUME NEW e \in EventIds, e # c PROVE e \in Followed' <=> e \in Followed
    <3>1. CASE e = i
      <4>1. e \notin Followed'
        <5> SUFFICES ASSUME NEW f \in EventIds, rows'[f].status # "NONE", rows'[f].user = rows'[i].user,
                            rows'[f].target = NextYear(rows'[i].target)
                     PROVE  FALSE
          BY <3>1 DEF Followed
        <5>1. f # i
          BY <1>4, <1>5, <1>7
        <5>2. rows[f].status # "NONE" /\ rows[f].user = rows[c].user
              /\ rows[f].target = NextYear(NextYear(rows[c].target))
          BY <1>3, <1>4, <5>1
        <5>3. f # c
          BY <1>5, <1>7, <5>2
        <5>4. rows[f].target < rows[c].target
          BY <1>2, <5>2, <5>3 DEF Latest
        <5> QED BY <1>5, <1>7, <5>2, <5>4
      <4>2. e \notin Followed
        <5>1. rows[i].user = NoUser
          BY <1>3 DEF ChainInv, HasUser
        <5> QED BY <3>1, <5>1, NoUserAssumption DEF Followed, ChainInv, HasUser
      <4> QED BY <4>1, <4>2
    <3>2. CASE e # i
      <4>1. rows'[e] = rows[e]
        BY <1>3, <3>2
      <4>2. ASSUME rows[e].user = rows[c].user PROVE NextYear(rows[e].target) # NextYear(rows[c].target)
        <5>1. rows[e].status # "NONE"
          BY <1>2, <4>2, NoUserAssumption DEF ChainInv, HasUser
        <5>2. rows[e].target < rows[c].target
          BY <1>2, <2>3, <4>2, <5>1 DEF Latest
        <5> QED BY <1>5, <1>7, <5>2
      <4> QED BY <1>3, <1>4, <4>1, <4>2 DEF Followed
    <3> QED BY <3>1, <3>2
  <2> QED BY <2>1, <2>2, <2>3 DEF Followed
<1>9. Phase[c] = "COMPLETED" /\ Phase[i] = "NONE" /\ Phase' = [Phase EXCEPT ![i] = "PENDING"]
  BY <1>2, <1>3, <1>4 DEF Phase
<1>10. Delivered' = Delivered
  BY DEF Delivered
<1>11. Lifecycle!Follow(c, i)
  BY <1>8, <1>9, <1>10 DEF Lifecycle!Follow, Phase, Delivered
<1> QED BY <1>11 DEF Refines, Lifecycle!Next

LEMMA StutterRefines ==
  ASSUME UNCHANGED <<rows, accepted>>
  PROVE  Refines
  BY DEF Refines, Phase, Delivered, Followed

\* Deleting a user erases the user's events.
LEMMA DeletionErases ==
  ASSUME Inv, ChainInv, Disappear, UNCHANGED accepted
  PROVE  Refines
<1>1. PICK u \in Users : CascadeDelete(u)
  BY DEF Disappear
<1> DEFINE S == {e \in EventIds : Live(e) /\ rows[e].user = u}
<1>2. PICK T \in SUBSET EventIds : T = S
  OBVIOUS
<1> HIDE DEF S
<1>3. ASSUME NEW e \in EventIds
      PROVE  /\ rows'[e].status = IF e \in T THEN "GONE" ELSE rows[e].status
             /\ rows'[e].user = rows[e].user /\ rows'[e].target = rows[e].target
             /\ e \in T => rows[e].status # "NONE"
  <2>1. rows'[e] = IF e \in T THEN [rows[e] EXCEPT !.status = "GONE"] ELSE rows[e]
    BY <1>1, <1>2 DEF CascadeDelete, S
  <2>2. rows[e] \in Event
    BY DEF Inv, TypeOK, DatabaseTypeOK
  <2>3. e \in T => Live(e)
    BY <1>2 DEF S
  <2> QED BY <2>1, <2>2, <2>3 DEF Event, Live
<1>4. TypeOK /\ TablesMove /\ NoneAppears
  BY <1>3 DEF Inv, TablesMove, NoneAppears
<1>5. Followed' = Followed
  BY <1>3, <1>4, FollowedKept
<1>6. Phase' = [e \in EventIds |-> IF e \in T THEN "GONE" ELSE Phase[e]] /\ \A e \in T : Phase[e] # "NONE"
  BY <1>3 DEF Phase
<1>7. Delivered' = Delivered
  BY DEF Delivered
<1>8. Lifecycle!Erase(T)
  BY <1>5, <1>6, <1>7 DEF Lifecycle!Erase, Phase, Delivered
<1> QED BY <1>8 DEF Refines, Lifecycle!Next

\* The claim transaction claims what it selected.
LEMMA MarkingClaims ==
  ASSUME Inv, ChainInv, NEW s \in Schedulers, MarkProcessing(s), UNCHANGED accepted
  PROVE  Refines
<1>1. PICK T \in SUBSET EventIds : T = sched[s].todo
  BY DEF Inv, TypeOK, SchedulerTypeOK
<1>2. ASSUME NEW e \in EventIds
      PROVE  /\ rows'[e].status = IF e \in T THEN "PROCESSING" ELSE rows[e].status
             /\ rows'[e].user = rows[e].user /\ rows'[e].target = rows[e].target
             /\ e \in T => rows[e].status = "PENDING"
  <2>1. rows'[e] = IF e \in T THEN [rows[e] EXCEPT !.status = "PROCESSING", !.version = @ + 1] ELSE rows[e]
    BY <1>1 DEF MarkProcessing, ToProcessing
  <2>2. rows[e] \in Event
    BY DEF Inv, TypeOK, DatabaseTypeOK
  <2>3. e \in T => rows[e].status = "PENDING"
    BY <1>1 DEF MarkProcessing, Inv, LocksAreHeld
  <2> QED BY <2>1, <2>2, <2>3 DEF Event
<1>3. TypeOK /\ TablesMove /\ NoneAppears
  BY <1>2, ClaimKeeps DEF Inv, TablesMove, NoneAppears
<1>4. Followed' = Followed
  BY <1>2, <1>3, FollowedKept
<1>5. Phase' = [e \in EventIds |-> IF e \in T THEN "PROCESSING" ELSE Phase[e]]
      /\ \A e \in T : Phase[e] = "PENDING"
  BY <1>2 DEF Phase
<1>6. Delivered' = Delivered
  BY DEF Delivered
<1>7. Lifecycle!Claim(T)
  BY <1>4, <1>5, <1>6 DEF Lifecycle!Claim, Phase, Delivered
<1> QED BY <1>7 DEF Refines, Lifecycle!Next

\* A settlement completes an event that was accepted, or fails it.
LEMMA SettlementRefines ==
  ASSUME Inv, Inv', ChainInv, NEW w \in Workers, UNCHANGED accepted,
         NEW status \in {"COMPLETED", "FAILED"}, Settles(w, status)
  PROVE  Refines
<1>1. PICK c \in EventIds : c = Current(w)
  BY CopyFacts DEF Settles
<1>2. /\ RowsKept /\ rows[c].status = "PROCESSING" /\ rows'[c].status = status
      /\ \A e \in EventIds : e # c => rows'[e] = rows[e]
  BY <1>1 DEF Settles
<1>3. TypeOK /\ TablesMove /\ NoneAppears
  BY <1>2 DEF Inv, TablesMove, NoneAppears
<1>4. Followed' = Followed
  BY <1>2, <1>3, FollowedKept
<1>5. Phase[c] = "PROCESSING" /\ Phase' = [Phase EXCEPT ![c] = status]
  BY <1>2 DEF Phase
<1>6. Delivered' = Delivered
  BY DEF Delivered
<1>7. CASE status = "COMPLETED"
  <2>1. c \in Delivered
    BY <1>2, <1>7 DEF Delivered, Inv, CompletedWasAccepted
  <2>2. Lifecycle!Complete(c)
    BY <1>4, <1>5, <1>6, <1>7, <2>1 DEF Lifecycle!Complete, Phase, Delivered
  <2> QED BY <2>2 DEF Refines, Lifecycle!Next
<1>8. CASE status = "FAILED"
  <2>1. Lifecycle!Fail(c)
    BY <1>4, <1>5, <1>6, <1>8 DEF Lifecycle!Fail, Phase, Delivered
  <2> QED BY <2>1 DEF Refines, Lifecycle!Next
<1> QED BY <1>7, <1>8

\* An accepted call delivers the event in hand, if it is not accepted already.
LEMMA AcceptanceDelivers ==
  ASSUME Inv, ChainInv, NEW w \in Workers, worker[w].pc = "deliver", UNCHANGED rows,
         accepted' = [accepted EXCEPT ![Current(w)] = @ + 1]
  PROVE  Refines
<1>1. PICK c \in EventIds : c = Current(w)
  BY CopyFacts
<1>2. rows[c].status \notin {"NONE", "PENDING"} /\ accepted \in [EventIds -> Nat]
  BY <1>1, CopyFacts DEF Inv, TypeOK, WorkerTypeOK
<1>3. accepted'[c] > 0 /\ \A e \in EventIds : e # c => accepted'[e] = accepted[e]
  BY <1>1, <1>2
<1>4. Delivered' = Delivered \cup {c}
  BY <1>3 DEF Delivered
<1>5. Phase' = Phase /\ Followed' = Followed /\ Phase[c] \notin {"NONE", "PENDING"}
  BY <1>2 DEF Phase, Followed
<1>6. Lifecycle!Deliver(c)
  BY <1>4, <1>5 DEF Lifecycle!Deliver, Phase, Delivered
<1> QED BY <1>6 DEF Refines, Lifecycle!Next

LEMMA StepRefines ==
  ASSUME Inv, Inv', ChainInv, [Next]_vars
  PROVE  Refines
<1>1. CASE \E u \in Users : UserRequest(u)
  <2>1. PICK u \in Users : UserRequest(u)
    BY <1>1
  <2>2. UNCHANGED accepted
    BY <2>1 DEF UserRequest, workerVars
  <2>3. Registers \/ FirstAppears \/ Disappear
    BY <2>1, UserStepMoves
  <2> QED BY <2>2, <2>3, StutterRefines, FirstSchedules, DeletionErases DEF Registers
<1>2. CASE \E s \in Schedulers : SchedulerRuns(s) \/ SchedulerFails(s)
  <2>1. PICK s \in Schedulers : SchedulerRuns(s) \/ SchedulerFails(s)
    BY <1>2
  <2>2. UNCHANGED accepted
    BY <2>1 DEF SchedulerRuns, SchedulerFails, workerVars
  <2>3. MarkProcessing(s) \/ UNCHANGED rows
    BY <2>1 DEF SchedulerRuns, SchedulerFails, databaseVars, Invoke, FindMissedEvents, QueueMissed,
       RecoveryDone, SelectForUpdate, SendClaimed, QueueMissedFails, RecoveryFails, ClaimFails,
       SendFails, SchedulerStops
  <2> QED BY <2>2, <2>3, StutterRefines, MarkingClaims
<1>3. CASE \E w \in Workers : WorkerRuns(w) \/ WorkerFails(w)
  <2>1. PICK w \in Workers : WorkerRuns(w) \/ WorkerFails(w)
    BY <1>3
  <2>2. CASE DeliverAccepted(w) \/ RetryDelivery(w) \/ DeliverFails(w)
    <3>1. /\ worker[w].pc = "deliver" /\ UNCHANGED rows
          /\ accepted' = [accepted EXCEPT ![Current(w)] = @ + 1] \/ UNCHANGED accepted
      BY <2>2 DEF DeliverAccepted, RetryDelivery, DeliverFails, databaseVars
    <3> QED BY <3>1, StutterRefines, AcceptanceDelivers
  <2>3. CASE ~(DeliverAccepted(w) \/ RetryDelivery(w) \/ DeliverFails(w))
    <3>1. UNCHANGED accepted
      BY <2>1, <2>3 DEF WorkerRuns, WorkerFails, Receive, SkipRecord, RejectPayload, StartRecord,
                  DeliverRejected, MarkFailed, FindUser,
                  CompleteEvent, CreateNextYear, CreateFollower, Finish, WorkerStops
    <3>2. WorkerWrites(w)
      BY <2>1, WorkerStepMoves DEF ChainInv
    <3>3. CASE UNCHANGED rows
      BY <3>1, <3>3, StutterRefines
    <3>4. CASE Settles(w, "FAILED")
      BY <3>1, <3>4, SettlementRefines
    <3>5. CASE Settles(w, "COMPLETED")
      BY <3>1, <3>5, SettlementRefines
    <3>6. CASE NextAppears(w)
      BY <3>1, <3>6, NextFollows
    <3> QED BY <3>2, <3>3, <3>4, <3>5, <3>6 DEF WorkerWrites, CompletesFor
  <2> QED BY <2>2, <2>3
<1>4. CASE \/ ClockTicks \/ UNCHANGED vars
           \/ \E m \in Messages : QueueRuns(m) \/ QueueOvertakes(m)
  <2>1. UNCHANGED <<rows, accepted>>
    BY <1>4 DEF ClockTicks, vars, QueueRuns, QueueOvertakes, VisibilityTimeout, VisibilityTimeoutEarly,
                Redrive, databaseVars, workerVars
  <2> QED BY <2>1, StutterRefines
<1> QED BY <1>1, <1>2, <1>3, <1>4 DEF Next

LEMMA InitRefines == Init => Lifecycle!Init
<1> SUFFICES ASSUME Init PROVE Lifecycle!Init
  OBVIOUS
<1>1. \A e \in EventIds : rows[e].status = "NONE" /\ ~(accepted[e] > 0)
  BY DEF Init, DatabaseInit, NoEvent, WorkerInit
<1>2. Phase = [e \in EventIds |-> "NONE"]
  BY <1>1 DEF Phase
<1>3. Delivered = {} /\ Followed = {}
  BY <1>1 DEF Delivered, Followed
<1> QED BY <1>2, <1>3 DEF Lifecycle!Init, Phase, Delivered

\* The pipeline keeps the promise of the lifecycle: claimed once, settled once,
\* completed only when accepted, followed at most once and only when completed.
THEOREM PipelineImplementsLifecycle == Spec => ImplementsLifecycle
<1>1. Init => Lifecycle!Init
  BY InitRefines
<1>2. (Inv /\ ChainInv) /\ (Inv /\ ChainInv)' /\ [Next]_vars => [Lifecycle!Next]_(Lifecycle!vars)
  <2> SUFFICES ASSUME Inv, ChainInv, Inv', [Next]_vars PROVE [Lifecycle!Next]_(Lifecycle!vars)
    OBVIOUS
  <2>1. Refines
    BY StepRefines
  <2> QED BY <2>1 DEF Refines, Lifecycle!vars, Phase, Delivered
<1>3. Spec => [][Lifecycle!Next]_(Lifecycle!vars)
  BY <1>2, ChainInvariance, PTL DEF Spec
<1>4. Spec => Lifecycle!Init
  BY <1>1 DEF Spec
<1>5. Spec => Lifecycle!Spec
  BY <1>3, <1>4 DEF Lifecycle!Spec
<1> QED BY <1>5 DEF ImplementsLifecycle
=============================================================================
