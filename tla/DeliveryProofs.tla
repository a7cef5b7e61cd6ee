--------------------------- MODULE DeliveryProofs ---------------------------
(***************************************************************************)
(* Theorems about the delivery pipeline, for every number of users, Lambda *)
(* instances, messages, faults and for every limit.                        *)
(***************************************************************************)
EXTENDS Delivery, TLAPS

USE DEF EventStatus, Settled

\* Type correctness, one action at a time.
LEMMA InitTypeOK == Init => TypeOK
  BY MaxEventsAssumption
  DEF Init, TypeOK, PlatformInit, PlatformTypeOK, DatabaseInit, DatabaseTypeOK, QueueInit,
      QueueTypeOK, SchedulerInit, SchedulerTypeOK, WorkerInit, WorkerTypeOK, IdleWorker,
      NoEvent, Event, Payloads, UserStates, SlotStates, SchedulerPcs, WorkerPcs, EventIds

LEMMA PendingEventType ==
  ASSUME NEW u \in Users \cup {NoUser}, NEW t \in Int, NEW p \in Payloads
  PROVE  PendingEvent(u, t, p) \in Event
  BY DEF PendingEvent, IdempotencyKey, Event

LEMMA OccurrenceType ==
  ASSUME NEW t \in Int
  PROVE  NextOccurrences(t) \subseteq Int /\ NextYear(t) \in Int
  BY YearAssumption DEF NextOccurrences, NextYear

LEMMA CreateType ==
  ASSUME DatabaseTypeOK, NEW ev \in Event, create(ev)
  PROVE  rows' \in [EventIds -> Event] /\ lastId' \in 0 .. MaxEvents
  BY MaxEventsAssumption DEF DatabaseTypeOK, create, EventIds

LEMMA UpdateType ==
  ASSUME DatabaseTypeOK, NEW e, NEW ev \in Event, update(e, ev)
  PROVE  rows' \in [EventIds -> Event]
  BY DEF DatabaseTypeOK, update, Event

LEMMA SendType ==
  ASSUME QueueTypeOK, NEW e, sendMessage(e)
  PROVE  QueueTypeOK'
  BY DEF QueueTypeOK, sendMessage, SlotStates

LEMMA SettleType ==
  ASSUME NEW ev \in Event
  PROVE  markCompleted(ev) \in Event /\ markFailed(ev) \in Event
<1>1. ev.version + 1 \in Nat /\ ev.retryCount + 1 \in Nat
  BY DEF Event
<1>2. markCompleted(ev) \in Event
  BY <1>1, Zenon DEF markCompleted, Event
<1>3. markFailed(ev) \in Event
  BY <1>1, Zenon DEF markFailed, Event
<1> QED BY <1>2, <1>3

LEMMA NoEventType == NoEvent \in Event
  BY DEF NoEvent, Event, Payloads

LEMMA ErasedType ==
  ASSUME NEW ev \in Event
  PROVE  [ev EXCEPT !.status = "GONE"] \in Event
  BY DEF Event

LEMMA ClaimedType ==
  ASSUME NEW ev \in Event
  PROVE  [ev EXCEPT !.status = "PROCESSING", !.version = @ + 1] \in Event
<1>1. ev.version + 1 \in Nat
  BY DEF Event
<1> QED BY <1>1, Zenon DEF Event

LEMMA GoToType ==
  ASSUME SchedulerTypeOK, NEW s \in Schedulers, NEW pc \in SchedulerPcs,
         NEW todo \in SUBSET EventIds, GoTo(s, pc, todo)
  PROVE  SchedulerTypeOK'
  BY Zenon DEF SchedulerTypeOK, GoTo

LEMMA WarmType ==
  ASSUME SchedulerTypeOK, NEW s \in Schedulers,
         sched' = [sched EXCEPT ![s] = [@ EXCEPT !.pc = "claim", !.warm = TRUE]]
  PROVE  SchedulerTypeOK'
<1>1. "claim" \in SchedulerPcs /\ TRUE \in BOOLEAN
  BY DEF SchedulerPcs
<1> QED BY <1>1, Zenon DEF SchedulerTypeOK

LEMMA UserStepType ==
  ASSUME TypeOK, NEW u \in Users, UserRequest(u)
  PROVE  TypeOK'
<1> USE DEF TypeOK, DatabaseTypeOK, UserStates
<1>1. CASE CreateUser(u) /\ UNCHANGED <<queue, sched, workerVars>>
  BY <1>1 DEF CreateUser, platformVars, workerVars, PlatformTypeOK, QueueTypeOK, SchedulerTypeOK, WorkerTypeOK
<1>2. CASE CreateBirthdayEvent(u) /\ UNCHANGED <<queue, sched, workerVars>>
  <2>1. PICK t \in NextOccurrences(now) : create(PendingEvent(u, t, "complete"))
    BY <1>2 DEF CreateBirthdayEvent, CreateBirthdayEventAt
  <2>2. PendingEvent(u, t, "complete") \in Event
    BY PendingEventType, OccurrenceType DEF PlatformTypeOK, Payloads
  <2>3. rows' \in [EventIds -> Event] /\ lastId' \in 0 .. MaxEvents
    BY <2>1, <2>2, CreateType
  <2> QED
    BY <1>2, <2>3 DEF CreateBirthdayEvent, CreateBirthdayEventAt, platformVars, workerVars, PlatformTypeOK, QueueTypeOK, SchedulerTypeOK, WorkerTypeOK
<1>3. CASE CreateBirthdayEventFails(u) /\ UNCHANGED <<queue, sched, workerVars>>
  BY <1>3 DEF CreateBirthdayEventFails, platformVars, workerVars, PlatformTypeOK, QueueTypeOK, SchedulerTypeOK, WorkerTypeOK
<1>4. CASE DeleteUser(u) /\ UNCHANGED <<queue, sched, workerVars>>
  <2>1. rows' \in [EventIds -> Event]
    BY <1>4, ErasedType DEF DeleteUser, CascadeDelete
  <2> QED
    BY <1>4, <2>1 DEF DeleteUser, platformVars, workerVars, PlatformTypeOK, QueueTypeOK, SchedulerTypeOK, WorkerTypeOK
<1> QED BY <1>1, <1>2, <1>3, <1>4 DEF UserRequest

LEMMA SchedulerStepType ==
  ASSUME TypeOK, NEW s \in Schedulers, SchedulerRuns(s) \/ SchedulerFails(s)
  PROVE  TypeOK'
<1> USE DEF TypeOK, SchedulerTypeOK, SchedulerPcs, GoTo, platformVars, databaseVars, workerVars
<1>a. \A S, n : \A B \in EarliestFirst(S, n) : B \subseteq S
  BY DEF EarliestFirst
<1>b. ReadyEvents \subseteq EventIds /\ MissedEvents \subseteq EventIds
  BY DEF ReadyEvents, MissedEvents
<1>c. ASSUME SchedulerFault PROVE PlatformTypeOK'
  BY <1>c DEF SchedulerFault, PlatformTypeOK
<1>d. ASSUME NEW e, SendReportsError(e) PROVE QueueTypeOK'
  BY <1>d, SendType DEF SendReportsError, QueueTypeOK
<1>e. \A pc \in SchedulerPcs, todo \in SUBSET EventIds :
        GoTo(s, pc, todo) => SchedulerTypeOK'
  BY GoToType
<1>f. sched[s].todo \in SUBSET EventIds
  OBVIOUS
<1> HIDE DEF SchedulerTypeOK, GoTo
<1>1. CASE Invoke(s) /\ UNCHANGED workerVars
  <2>1. SchedulerTypeOK'
    BY <1>1, <1>e DEF Invoke
  <2> QED BY <1>1, <2>1 DEF Invoke, PlatformTypeOK, DatabaseTypeOK, QueueTypeOK, WorkerTypeOK
<1>2. CASE FindMissedEvents(s) /\ UNCHANGED workerVars
  <2>1. SchedulerTypeOK'
    BY <1>2, <1>a, <1>b, <1>e DEF FindMissedEvents
  <2> QED BY <1>2, <2>1 DEF FindMissedEvents, PlatformTypeOK, DatabaseTypeOK, QueueTypeOK, WorkerTypeOK
<1>3. CASE QueueMissed(s) /\ UNCHANGED workerVars
  <2>1. SchedulerTypeOK' /\ QueueTypeOK'
    BY <1>3, <1>e, <1>f, SendType DEF QueueMissed
  <2> QED BY <1>3, <2>1 DEF QueueMissed, PlatformTypeOK, DatabaseTypeOK, WorkerTypeOK
<1>4. CASE RecoveryDone(s) /\ UNCHANGED workerVars
  <2>1. SchedulerTypeOK'
    BY <1>4, WarmType DEF RecoveryDone
  <2> QED BY <1>4, <2>1 DEF RecoveryDone, PlatformTypeOK, DatabaseTypeOK, QueueTypeOK, WorkerTypeOK
<1>5. CASE SelectForUpdate(s) /\ UNCHANGED workerVars
  <2>1. SchedulerTypeOK' /\ locked' \in SUBSET EventIds
    BY <1>5, <1>a, <1>b, <1>e DEF SelectForUpdate, DatabaseTypeOK
  <2> QED BY <1>5, <2>1 DEF SelectForUpdate, PlatformTypeOK, DatabaseTypeOK, QueueTypeOK, WorkerTypeOK
<1>6. CASE MarkProcessing(s) /\ UNCHANGED workerVars
  <2>1. rows' \in [EventIds -> Event]
    BY <1>6, ClaimedType DEF MarkProcessing, ToProcessing, DatabaseTypeOK
  <2>2. SchedulerTypeOK'
    BY <1>6 DEF MarkProcessing, SchedulerTypeOK
  <2> QED
    BY <1>6, <2>1, <2>2 DEF MarkProcessing, PlatformTypeOK, DatabaseTypeOK, QueueTypeOK, WorkerTypeOK
<1>7. CASE SendClaimed(s) /\ UNCHANGED workerVars
  <2>1. SchedulerTypeOK' /\ QueueTypeOK'
    BY <1>7, <1>e, <1>f, SendType DEF SendClaimed
  <2> QED BY <1>7, <2>1 DEF SendClaimed, PlatformTypeOK, DatabaseTypeOK, WorkerTypeOK
<1>8. CASE QueueMissedFails(s) /\ UNCHANGED workerVars
  <2>1. SchedulerTypeOK' /\ QueueTypeOK'
    BY <1>8, <1>d, <1>e, <1>f DEF QueueMissedFails
  <2> QED BY <1>8, <1>c, <2>1 DEF QueueMissedFails, DatabaseTypeOK, WorkerTypeOK
<1>9. CASE RecoveryFails(s) /\ UNCHANGED workerVars
  <2>1. SchedulerTypeOK'
    BY <1>9, WarmType DEF RecoveryFails
  <2> QED BY <1>9, <1>c, <2>1 DEF RecoveryFails, DatabaseTypeOK, QueueTypeOK, WorkerTypeOK
<1>10. CASE ClaimFails(s) /\ UNCHANGED workerVars
  <2>1. SchedulerTypeOK'
    BY <1>10, <1>e DEF ClaimFails
  <2> QED BY <1>10, <1>c, <2>1 DEF ClaimFails, DatabaseTypeOK, QueueTypeOK, WorkerTypeOK
<1>11. CASE SendFails(s) /\ UNCHANGED workerVars
  <2>1. SchedulerTypeOK' /\ QueueTypeOK'
    BY <1>11, <1>d, <1>e DEF SendFails
  <2> QED BY <1>11, <1>c, <2>1 DEF SendFails, DatabaseTypeOK, WorkerTypeOK
<1>12. CASE SchedulerStops(s) /\ UNCHANGED workerVars
  <2>1. SchedulerTypeOK'
    BY <1>12 DEF SchedulerStops, SchedulerTypeOK
  <2>2. locked' \in SUBSET EventIds
    BY <1>12 DEF SchedulerStops, DatabaseTypeOK
  <2> QED BY <1>12, <1>c, <2>1, <2>2 DEF SchedulerStops, DatabaseTypeOK, QueueTypeOK, WorkerTypeOK
<1> QED
  BY <1>1, <1>2, <1>3, <1>4, <1>5, <1>6, <1>7, <1>8, <1>9, <1>10, <1>11, <1>12
  DEF SchedulerRuns, SchedulerFails

LEMMA ReturnType ==
  ASSUME WorkerTypeOK, NEW w \in Workers, Return(w) \/ Throw(w), UNCHANGED accepted
  PROVE  WorkerTypeOK'
<1>1. CASE Return(w)
  <2>1. "next" \in WorkerPcs /\ NoMessage \in Messages \cup {NoMessage} /\ NoEvent \in Event
    BY NoEventType DEF WorkerPcs
  <2>2. worker[w].todo \ {worker[w].msg} \in SUBSET Messages
    BY DEF WorkerTypeOK
  <2> DEFINE done == [worker[w] EXCEPT !.pc = "next", !.todo = worker[w].todo \ {worker[w].msg},
                                      !.msg = NoMessage, !.ev = NoEvent]
  <2>3. done \in [pc : WorkerPcs, batch : SUBSET Messages, todo : SUBSET Messages,
                  msg : Messages \cup {NoMessage}, ev : Event, retries : Nat]
    <3>1. worker[w] \in [pc : WorkerPcs, batch : SUBSET Messages, todo : SUBSET Messages,
                         msg : Messages \cup {NoMessage}, ev : Event, retries : Nat]
      BY DEF WorkerTypeOK
    <3> QED BY <3>1, <2>1, <2>2, Zenon
  <2>4. worker' = [worker EXCEPT ![w] = done]
    BY <1>1 DEF Return
  <2> HIDE DEF done
  <2> QED BY <2>3, <2>4 DEF WorkerTypeOK
<1>2. CASE Throw(w)
  <2>1. IdleWorker \in [pc : WorkerPcs, batch : SUBSET Messages, todo : SUBSET Messages,
                        msg : Messages \cup {NoMessage}, ev : Event, retries : Nat]
    BY NoEventType DEF IdleWorker, WorkerPcs
  <2> QED BY <1>2, <2>1 DEF WorkerTypeOK, Throw
<1> QED BY <1>1, <1>2

LEMMA WorkerGoToType ==
  ASSUME WorkerTypeOK, NEW w \in Workers, NEW pc \in WorkerPcs, WorkerGoTo(w, pc),
         UNCHANGED accepted
  PROVE  WorkerTypeOK'
  BY DEF WorkerTypeOK, WorkerGoTo

LEMMA WorkerStepType ==
  ASSUME TypeOK, NEW w \in Workers, WorkerRuns(w) \/ WorkerFails(w)
  PROVE  TypeOK'
<1> USE DEF TypeOK, platformVars, databaseVars
<1>a. ASSUME WorkerFault PROVE PlatformTypeOK'
  BY <1>a DEF WorkerFault, PlatformTypeOK
<1>b. worker[w].ev \in Event
  BY DEF WorkerTypeOK
<1>c. markCompleted(worker[w].ev) \in Event /\ markFailed(worker[w].ev) \in Event
  BY <1>b, SettleType
<1> DEFINE WorkerRecord == [pc : WorkerPcs, batch : SUBSET Messages, todo : SUBSET Messages,
                            msg : Messages \cup {NoMessage}, ev : Event, retries : Nat]
<1>d. [accepted EXCEPT ![Current(w)] = @ + 1] \in [EventIds -> Nat]
  <2>1. accepted \in [EventIds -> Nat]
    BY DEF WorkerTypeOK
  <2>2. CASE Current(w) \in EventIds
    BY <2>1, <2>2
  <2>3. CASE Current(w) \notin EventIds
    BY <2>1, <2>3
  <2> QED BY <2>2, <2>3
<1>e. WorkerGoTo(w, "findUser") => worker' \in [Workers -> WorkerRecord]
  BY DEF WorkerGoTo, WorkerTypeOK, WorkerPcs
<1>f. Throw(w) => worker' \in [Workers -> WorkerRecord]
  <2>1. IdleWorker \in WorkerRecord
    BY NoEventType DEF IdleWorker, WorkerPcs
  <2> QED BY <2>1 DEF Throw, WorkerTypeOK
<1>1. CASE Receive(w) /\ UNCHANGED sched
  <2>1. PICK B \in (SUBSET Receivable) \ {{}} :
          /\ receiveMessages(w, B)
          /\ worker' = [worker EXCEPT ![w] = [@ EXCEPT !.pc = "next", !.batch = B, !.todo = B]]
    BY <1>1 DEF Receive
  <2>2. B \subseteq Messages
    BY DEF Receivable
  <2>3. QueueTypeOK'
    BY <2>1, <2>2 DEF receiveMessages, QueueTypeOK, SlotStates
  <2>4. WorkerTypeOK'
    <3>1. "next" \in WorkerPcs /\ B \in SUBSET Messages
      BY <2>2 DEF WorkerPcs
    <3> QED BY <1>1, <2>1, <3>1, Zenon DEF Receive, WorkerTypeOK
  <2> QED BY <1>1, <2>3, <2>4 DEF Receive, PlatformTypeOK, DatabaseTypeOK, SchedulerTypeOK
<1>2. CASE SkipRecord(w) /\ UNCHANGED sched
  <2>1. WorkerTypeOK'
    BY <1>2 DEF SkipRecord, WorkerTypeOK
  <2> QED BY <1>2, <2>1 DEF SkipRecord, PlatformTypeOK, DatabaseTypeOK, QueueTypeOK, SchedulerTypeOK
<1>3. CASE RejectPayload(w) /\ UNCHANGED sched
  BY <1>3, ReturnType DEF RejectPayload, PlatformTypeOK, DatabaseTypeOK, QueueTypeOK, SchedulerTypeOK
<1>4. CASE StartRecord(w) /\ UNCHANGED sched
  <2>1. PICK m \in worker[w].todo :
          worker' = [worker EXCEPT ![w] = [@ EXCEPT !.pc = "deliver", !.msg = m, !.ev = rows[m[1]],
                                            !.retries = 0]]
    BY <1>4 DEF StartRecord
  <2>2. m \in Messages /\ rows[m[1]] \in Event
    BY DEF WorkerTypeOK, DatabaseTypeOK, Messages
  <2>3. WorkerTypeOK'
    <3>1. "deliver" \in WorkerPcs /\ m \in Messages \cup {NoMessage}
      BY <2>2 DEF WorkerPcs
    <3> QED BY <1>4, <2>1, <2>2, <3>1, Zenon DEF StartRecord, WorkerTypeOK
  <2> QED BY <1>4, <2>3 DEF StartRecord, PlatformTypeOK, DatabaseTypeOK, QueueTypeOK, SchedulerTypeOK
<1>5. CASE DeliverAccepted(w) /\ UNCHANGED sched
  <2>1. accepted' \in [EventIds -> Nat]
    BY <1>5, <1>d DEF DeliverAccepted
  <2>2. worker' \in [Workers -> WorkerRecord]
    BY <1>5, <1>e DEF DeliverAccepted, WorkerGoTo
  <2> QED BY <1>5, <2>1, <2>2 DEF DeliverAccepted, PlatformTypeOK, DatabaseTypeOK, QueueTypeOK, SchedulerTypeOK, WorkerTypeOK
<1>6. CASE DeliverRejected(w) /\ UNCHANGED sched
  BY <1>6, WorkerGoToType DEF DeliverRejected, WorkerPcs, PlatformTypeOK, DatabaseTypeOK, QueueTypeOK, SchedulerTypeOK
<1>7. CASE MarkFailed(w) /\ UNCHANGED sched
  <2>1. rows' \in [EventIds -> Event]
    BY <1>7, <1>c, UpdateType DEF MarkFailed, DatabaseTypeOK
  <2>2. WorkerTypeOK'
    BY <1>7, ReturnType DEF MarkFailed
  <2> QED BY <1>7, <2>1, <2>2 DEF MarkFailed, PlatformTypeOK, DatabaseTypeOK, QueueTypeOK, SchedulerTypeOK
<1>8. CASE FindUser(w) /\ UNCHANGED sched
  BY <1>8, WorkerGoToType DEF FindUser, WorkerPcs, PlatformTypeOK, DatabaseTypeOK, QueueTypeOK, SchedulerTypeOK
<1>9. CASE CompleteEvent(w) /\ UNCHANGED sched
  <2>1. rows' \in [EventIds -> Event]
    BY <1>9, <1>c, UpdateType DEF CompleteEvent, DatabaseTypeOK
  <2>2. WorkerTypeOK'
    BY <1>9, ReturnType, WorkerGoToType DEF CompleteEvent, WorkerPcs
  <2> QED BY <1>9, <2>1, <2>2 DEF CompleteEvent, PlatformTypeOK, DatabaseTypeOK, QueueTypeOK, SchedulerTypeOK
<1>10. CASE CreateNextYear(w) /\ UNCHANGED sched
  <2> DEFINE next == PendingEvent(worker[w].ev.user, NextYear(worker[w].ev.target), "messageOnly")
  <2>1. next \in Event
    <3>1. worker[w].ev.user \in Users \cup {NoUser} /\ NextYear(worker[w].ev.target) \in Int
      BY <1>b, OccurrenceType DEF Event
    <3>2. "messageOnly" \in Payloads
      BY DEF Payloads
    <3> QED BY <3>1, <3>2, PendingEventType
  <2>2. \/ Throw(w) /\ UNCHANGED <<rows, lastId>>
        \/ Return(w) /\ UNCHANGED <<rows, lastId>>
        \/ Return(w) /\ create(next)
    BY <1>10 DEF CreateNextYear, CreateFollower
  <2> HIDE DEF next
  <2>3. rows' \in [EventIds -> Event] /\ lastId' \in 0 .. MaxEvents
    BY <2>1, <2>2, CreateType DEF DatabaseTypeOK
  <2>4. WorkerTypeOK'
    BY <1>10, <2>2, ReturnType DEF CreateNextYear, CreateFollower
  <2> QED BY <1>10, <2>3, <2>4 DEF CreateNextYear, CreateFollower, PlatformTypeOK, DatabaseTypeOK, QueueTypeOK, SchedulerTypeOK
<1>11. CASE Finish(w) /\ UNCHANGED sched
  <2>1. QueueTypeOK'
    BY <1>11 DEF Finish, deleteMessages, QueueTypeOK, SlotStates
  <2>2. WorkerTypeOK'
    BY <1>11, ReturnType DEF Finish, Throw
  <2> QED BY <1>11, <2>1, <2>2 DEF Finish, PlatformTypeOK, DatabaseTypeOK, SchedulerTypeOK
<1>12. CASE DeliverFails(w) /\ UNCHANGED sched
  <2>1. accepted' \in [EventIds -> Nat]
    BY <1>12, <1>d DEF DeliverFails, WorkerTypeOK
  <2>2. worker' \in [Workers -> WorkerRecord]
    BY <1>12, <1>f DEF DeliverFails
  <2> QED BY <1>12, <1>a, <2>1, <2>2 DEF DeliverFails, DatabaseTypeOK, QueueTypeOK, SchedulerTypeOK, WorkerTypeOK
<1>13. CASE WorkerStops(w) /\ UNCHANGED sched
  BY <1>13, <1>a, ReturnType DEF WorkerStops, DatabaseTypeOK, QueueTypeOK, SchedulerTypeOK
<1>14. CASE RetryDelivery(w) /\ UNCHANGED sched
  <2>1. accepted' \in [EventIds -> Nat]
    BY <1>14, <1>d DEF RetryDelivery, WorkerTypeOK
  <2>2. worker' \in [Workers -> WorkerRecord]
    BY <1>14 DEF RetryDelivery, WorkerTypeOK
  <2> QED BY <1>14, <1>a, <2>1, <2>2 DEF RetryDelivery, DatabaseTypeOK, QueueTypeOK, SchedulerTypeOK, WorkerTypeOK
<1> QED
  BY <1>1, <1>2, <1>3, <1>4, <1>5, <1>6, <1>7, <1>8, <1>9, <1>10, <1>11, <1>12, <1>13, <1>14
  DEF WorkerRuns, WorkerFails

LEMMA QueueStepType ==
  ASSUME TypeOK, NEW m \in Messages, QueueRuns(m) \/ QueueOvertakes(m)
  PROVE  TypeOK'
<1> USE DEF TypeOK, platformVars, databaseVars, workerVars, PlatformTypeOK, DatabaseTypeOK,
           QueueTypeOK, SchedulerTypeOK, WorkerTypeOK, SlotStates
<1>1. CASE VisibilityTimeout(m) /\ UNCHANGED sched
  BY <1>1 DEF VisibilityTimeout, MakeVisible
<1>2. CASE Redrive(m) /\ UNCHANGED sched
  BY <1>2 DEF Redrive, MoveToDlq
<1>3. CASE VisibilityTimeoutEarly(m) /\ UNCHANGED sched
  BY <1>3 DEF VisibilityTimeoutEarly, MakeVisible, WorkerFault
<1> QED BY <1>1, <1>2, <1>3 DEF QueueRuns, QueueOvertakes

LEMMA StepTypeOK == TypeOK /\ [Next]_vars => TypeOK'
<1> SUFFICES ASSUME TypeOK, [Next]_vars PROVE TypeOK'
  OBVIOUS
<1>1. CASE ClockTicks
  BY <1>1 DEF ClockTicks, Tick, TypeOK, databaseVars, workerVars, PlatformTypeOK, DatabaseTypeOK,
              QueueTypeOK, SchedulerTypeOK, WorkerTypeOK
<1>2. CASE UNCHANGED vars
  BY <1>2 DEF vars, TypeOK, platformVars, databaseVars, workerVars, PlatformTypeOK,
              DatabaseTypeOK, QueueTypeOK, SchedulerTypeOK, WorkerTypeOK
<1> QED
  BY <1>1, <1>2, UserStepType, SchedulerStepType, WorkerStepType, QueueStepType DEF Next

\* Every variable keeps its type in every behaviour of the pipeline.
THEOREM TypeCorrect == Spec => []TypeOK
<1>1. Init => TypeOK
  BY InitTypeOK
<1>2. TypeOK /\ [Next]_vars => TypeOK'
  BY StepTypeOK
<1> QED BY <1>1, <1>2, PTL DEF Spec

-----------------------------------------------------------------------------
(***************************************************************************)
(* The inductive invariant of the pipeline.  Every step moves every row    *)
(* along the status machine (RowStep); from that the parts about rows      *)
(* follow at once, and the parts about schedulers and workers need only    *)
(* what each of their own actions does to their own record.                *)
(***************************************************************************)
\* What one step may do to the row of e.
Created(e) ==
  /\ e = lastId + 1 /\ lastId' = lastId + 1
  /\ rows[e].status = "NONE"
  /\ rows'[e].status = "PENDING" /\ rows'[e].version = 1

Claimed(e) ==
  /\ e \in locked /\ e \notin locked'
  /\ rows[e].status = "PENDING"
  /\ rows'[e].status = "PROCESSING" /\ rows'[e].version = rows[e].version + 1

SettledNow(e) ==
  /\ rows[e].status = "PROCESSING"
  /\ rows'[e].status \in Settled /\ rows'[e].version = rows[e].version + 1
  /\ rows'[e].status = "COMPLETED" => accepted[e] > 0

Erased(e) ==
  /\ e \notin locked
  /\ Live(e)
  /\ rows'[e] = [rows[e] EXCEPT !.status = "GONE"]

RowStep(e) ==
  \/ rows'[e] = rows[e]
  \/ Created(e)
  \/ Claimed(e)
  \/ SettledNow(e)
  \/ Erased(e)

RowsMoveOn ==
  /\ \A e \in EventIds : RowStep(e)
  /\ \A e \in EventIds : accepted[e] <= accepted'[e]
  /\ lastId <= lastId'

-----------------------------------------------------------------------------
LEMMA NothingMoves ==
  ASSUME TypeOK, UNCHANGED <<rows, lastId, accepted>>
  PROVE  RowsMoveOn
<1>1. \A e \in EventIds : accepted[e] \in Nat
  BY DEF TypeOK, WorkerTypeOK
<1>2. lastId \in Nat
  BY MaxEventsAssumption DEF TypeOK, DatabaseTypeOK
<1> QED BY <1>1, <1>2 DEF RowsMoveOn, RowStep

LEMMA CreateMoves ==
  ASSUME Inv, NEW ev \in Event, ev.status = "PENDING", ev.version = 1, create(ev),
         UNCHANGED accepted
  PROVE  RowsMoveOn
<1>1. /\ lastId \in Nat /\ lastId' = lastId + 1 /\ lastId + 1 \in EventIds
      /\ rows' = [rows EXCEPT ![lastId + 1] = ev]
      /\ rows \in [EventIds -> Event]
  BY MaxEventsAssumption DEF create, Inv, TypeOK, DatabaseTypeOK, EventIds
<1>2. rows[lastId + 1].status = "NONE"
  BY <1>1 DEF Inv, IdsAreFresh
<1>3. \A e \in EventIds : accepted[e] \in Nat
  BY DEF Inv, TypeOK, WorkerTypeOK
<1>4. ASSUME NEW e \in EventIds PROVE RowStep(e)
  <2>1. CASE e = lastId + 1
    BY <1>1, <1>2, <2>1 DEF RowStep, Created
  <2>2. CASE e # lastId + 1
    BY <1>1, <2>2 DEF RowStep
  <2> QED BY <2>1, <2>2
<1> QED BY <1>1, <1>3, <1>4 DEF RowsMoveOn

LEMMA EraseMoves ==
  ASSUME TypeOK, NEW u \in Users, \A e \in locked : rows[e].user # u, CascadeDelete(u),
         UNCHANGED <<lastId, accepted>>
  PROVE  RowsMoveOn
<1>1. \A e \in EventIds : accepted[e] \in Nat
  BY DEF TypeOK, WorkerTypeOK
<1>2. lastId \in Nat
  BY MaxEventsAssumption DEF TypeOK, DatabaseTypeOK
<1>3. ASSUME NEW e \in EventIds PROVE RowStep(e)
  <2>1. CASE Live(e) /\ rows[e].user = u
    BY <2>1 DEF CascadeDelete, RowStep, Erased
  <2>2. CASE ~(Live(e) /\ rows[e].user = u)
    BY <2>2 DEF CascadeDelete, RowStep
  <2> QED BY <2>1, <2>2
<1> QED BY <1>1, <1>2, <1>3 DEF RowsMoveOn

\* The compare-and-set of update only ever meets the row the worker read.
LEMMA SettleMoves ==
  ASSUME Inv, NEW w \in Workers, worker[w].pc \notin {"idle", "next"},
         NEW ev \in Event, ev.status \in Settled, ev.version = worker[w].ev.version + 1,
         ev.status = "COMPLETED" => accepted[Current(w)] > 0,
         UpdateMatches(Current(w), ev), update(Current(w), ev),
         UNCHANGED <<lastId, accepted>>
  PROVE  RowsMoveOn
<1> DEFINE c == Current(w)
<1>1. c \in EventIds /\ ev.version = 3
  BY DEF Inv, CopiesAreClaimed, Current, Messages
<1>2. \A e \in EventIds : accepted[e] \in Nat
  BY DEF Inv, TypeOK, WorkerTypeOK
<1>3. lastId \in Nat /\ rows \in [EventIds -> Event]
  BY MaxEventsAssumption DEF Inv, TypeOK, DatabaseTypeOK
<1>4. rows[c].version = 2 /\ rows[c].status \in EventStatus
  BY <1>1 DEF UpdateMatches, Live
<1>5. rows[c].status = "PROCESSING"
  BY <1>1, <1>4 DEF Inv, VersionTracksStatus, EventStatus, Settled
<1>6. rows'[c].status = ev.status /\ rows'[c].version = 3
  <2>1. rows'[c] = [rows[c] EXCEPT !.status = ev.status, !.target = ev.target, !.local = ev.local,
                                   !.retryCount = ev.retryCount, !.version = ev.version]
    BY <1>1, <1>3, Zenon DEF update
  <2>2. rows[c] \in Event
    BY <1>1, <1>3
  <2> QED BY <1>1, <2>1, <2>2 DEF Event
<1>7. \A e \in EventIds : e # c => rows'[e] = rows[e]
  BY <1>3, Zenon DEF update
<1> HIDE DEF c
<1>8. ASSUME NEW e \in EventIds PROVE RowStep(e)
  <2>1. CASE e = c
    BY <1>4, <1>5, <1>6, <2>1 DEF RowStep, SettledNow, c
  <2>2. CASE e # c
    BY <1>7, <2>2 DEF RowStep
  <2> QED BY <2>1, <2>2
<1> QED BY <1>2, <1>3, <1>8 DEF RowsMoveOn

LEMMA ClaimMoves ==
  ASSUME Inv, NEW s \in Schedulers, MarkProcessing(s), UNCHANGED accepted
  PROVE  RowsMoveOn
<1>1. \A e \in EventIds : accepted[e] \in Nat
  BY DEF Inv, TypeOK, WorkerTypeOK
<1>2. lastId \in Nat /\ rows \in [EventIds -> Event] /\ lastId' = lastId
  BY MaxEventsAssumption DEF Inv, TypeOK, DatabaseTypeOK, MarkProcessing
<1>3. ASSUME NEW e \in EventIds PROVE RowStep(e)
  <2>1. CASE e \in sched[s].todo
    <3>1. e \in locked /\ e \notin locked' /\ rows[e].status = "PENDING"
      BY <2>1 DEF Inv, LocksAreHeld, MarkProcessing
    <3>2. rows'[e] = [rows[e] EXCEPT !.status = "PROCESSING", !.version = rows[e].version + 1]
      BY <2>1, Zenon DEF MarkProcessing, ToProcessing
    <3>3. rows'[e].status = "PROCESSING" /\ rows'[e].version = rows[e].version + 1
      <4>1. rows[e] \in Event
        BY <1>2
      <4> QED BY <3>2, <4>1 DEF Event
    <3> QED BY <3>1, <3>3 DEF RowStep, Claimed
  <2>2. CASE e \notin sched[s].todo
    BY <2>2 DEF MarkProcessing, ToProcessing, RowStep
  <2> QED BY <2>1, <2>2
<1> QED BY <1>1, <1>2, <1>3 DEF RowsMoveOn

-----------------------------------------------------------------------------
\* Every step moves every row along the status machine, or leaves it alone.
LEMMA UserMoves ==
  ASSUME Inv, NEW u \in Users, UserRequest(u)
  PROVE  RowsMoveOn
<1>0. TypeOK
  BY DEF Inv
<1>1. CASE CreateUser(u) /\ UNCHANGED <<queue, sched, workerVars>>
  BY <1>0, <1>1, NothingMoves DEF CreateUser, workerVars
<1>2. CASE CreateBirthdayEvent(u) /\ UNCHANGED <<queue, sched, workerVars>>
  <2>0. PICK t \in NextOccurrences(now) : create(PendingEvent(u, t, "complete"))
    BY <1>2 DEF CreateBirthdayEvent, CreateBirthdayEventAt
  <2> DEFINE ev == PendingEvent(u, t, "complete")
  <2>1. ev \in Event
    BY <1>0, PendingEventType, OccurrenceType DEF TypeOK, PlatformTypeOK, Payloads
  <2>2. ev.status = "PENDING" /\ ev.version = 1
    BY DEF PendingEvent
  <2>3. create(ev) /\ UNCHANGED accepted
    BY <1>2, <2>0 DEF CreateBirthdayEvent, CreateBirthdayEventAt, workerVars
  <2> HIDE DEF ev
  <2> QED BY <2>1, <2>2, <2>3, CreateMoves
<1>3. CASE CreateBirthdayEventFails(u) /\ UNCHANGED <<queue, sched, workerVars>>
  BY <1>0, <1>3, NothingMoves DEF CreateBirthdayEventFails, workerVars
<1>4. CASE DeleteUser(u) /\ UNCHANGED <<queue, sched, workerVars>>
  BY <1>0, <1>4, EraseMoves DEF DeleteUser, workerVars
<1> QED BY <1>1, <1>2, <1>3, <1>4 DEF UserRequest

LEMMA SchedulerMoves ==
  ASSUME Inv, NEW s \in Schedulers, SchedulerRuns(s) \/ SchedulerFails(s)
  PROVE  RowsMoveOn
<1>0. TypeOK
  BY DEF Inv
<1>1. CASE MarkProcessing(s) /\ UNCHANGED workerVars
  BY <1>1, ClaimMoves DEF workerVars
<1>2. CASE ~(MarkProcessing(s) /\ UNCHANGED workerVars)
  <2>1. UNCHANGED <<rows, lastId, accepted>>
    BY <1>2 DEF SchedulerRuns, SchedulerFails, workerVars, databaseVars, Invoke, FindMissedEvents,
                QueueMissed, QueueMissedFails, RecoveryDone, RecoveryFails, SelectForUpdate,
                ClaimFails, SendClaimed, SendFails, SchedulerStops
  <2> QED BY <1>0, <2>1, NothingMoves
<1> QED BY <1>1, <1>2

\* The webhook receiver accepts once more.
LEMMA AcceptMoves ==
  ASSUME Inv, NEW e \in EventIds, accepted' = [accepted EXCEPT ![e] = @ + 1],
         UNCHANGED <<rows, lastId>>
  PROVE  RowsMoveOn
<1>1. accepted \in [EventIds -> Nat] /\ lastId \in Nat
  BY MaxEventsAssumption DEF Inv, TypeOK, WorkerTypeOK, DatabaseTypeOK
<1> QED BY <1>1 DEF RowsMoveOn, RowStep

LEMMA WorkerMovesRows ==
  ASSUME Inv, NEW w \in Workers, WorkerRuns(w) \/ WorkerFails(w)
  PROVE  RowsMoveOn
<1>0. TypeOK
  BY DEF Inv
<1>a. worker[w].ev \in Event /\ worker[w].ev.version + 1 = markCompleted(worker[w].ev).version
      /\ worker[w].ev.version + 1 = markFailed(worker[w].ev).version
      /\ markCompleted(worker[w].ev).status = "COMPLETED"
      /\ markFailed(worker[w].ev).status = "FAILED"
  <2>1. worker[w].ev \in Event
    BY <1>0 DEF TypeOK, WorkerTypeOK
  <2> QED BY <2>1 DEF markCompleted, markFailed, Event
<1>b. markCompleted(worker[w].ev) \in Event /\ markFailed(worker[w].ev) \in Event
  BY <1>a, SettleType
<1>c. worker[w].pc \notin {"idle", "next"} => Current(w) \in EventIds
  BY DEF Inv, CopiesAreClaimed, Current, Messages
<1>1. CASE DeliverAccepted(w) \/ RetryDelivery(w) \/ DeliverFails(w)
  <2>1. Current(w) \in EventIds /\ UNCHANGED <<rows, lastId>>
    BY <1>1, <1>c DEF DeliverAccepted, RetryDelivery, DeliverFails, databaseVars
  <2>2. \/ accepted' = [accepted EXCEPT ![Current(w)] = @ + 1]
        \/ UNCHANGED accepted
    BY <1>1 DEF DeliverAccepted, RetryDelivery, DeliverFails
  <2> QED BY <1>0, <2>1, <2>2, AcceptMoves, NothingMoves
<1>2. CASE MarkFailed(w)
  <2> DEFINE ev == markFailed(worker[w].ev)
  <2>1. CASE UpdateMatches(Current(w), ev)
    <3>1. /\ worker[w].pc \notin {"idle", "next"}
          /\ update(Current(w), ev)
          /\ UNCHANGED <<lastId, accepted>>
      BY <1>2, <2>1 DEF MarkFailed
    <3>2. ev.status \in Settled /\ ev.version = worker[w].ev.version + 1 /\ ev \in Event
          /\ ev.status # "COMPLETED"
      BY <1>a, <1>b DEF Settled
    <3> HIDE DEF ev
    <3> QED BY <2>1, <3>1, <3>2, SettleMoves
  <2>2. CASE ~UpdateMatches(Current(w), ev)
    BY <1>0, <1>2, <2>2, NothingMoves DEF MarkFailed
  <2> QED BY <2>1, <2>2
<1>3. CASE CompleteEvent(w)
  <2> DEFINE ev == markCompleted(worker[w].ev)
  <2>1. CASE UpdateMatches(Current(w), ev)
    <3>1. /\ worker[w].pc \notin {"idle", "next"}
          /\ worker[w].pc \in {"complete", "completeOnly"}
          /\ update(Current(w), ev)
          /\ UNCHANGED <<lastId, accepted>>
      BY <1>3, <2>1 DEF CompleteEvent
    <3>2. ev.status \in Settled /\ ev.version = worker[w].ev.version + 1 /\ ev \in Event
      BY <1>a, <1>b DEF Settled
    <3>3. accepted[Current(w)] > 0
      BY <3>1 DEF Inv, CopiesAreClaimed
    <3> HIDE DEF ev
    <3> QED BY <2>1, <3>1, <3>2, <3>3, SettleMoves
  <2>2. CASE ~UpdateMatches(Current(w), ev)
    BY <1>0, <1>3, <2>2, NothingMoves DEF CompleteEvent
  <2> QED BY <2>1, <2>2
<1>4. CASE CreateNextYear(w)
  <2> DEFINE next == PendingEvent(worker[w].ev.user, NextYear(worker[w].ev.target), "messageOnly")
  <2>1. next \in Event
    <3>1. worker[w].ev.user \in Users \cup {NoUser} /\ NextYear(worker[w].ev.target) \in Int
      BY <1>a, OccurrenceType DEF Event
    <3>2. "messageOnly" \in Payloads
      BY DEF Payloads
    <3> QED BY <3>1, <3>2, PendingEventType
  <2>2. next.status = "PENDING" /\ next.version = 1
    BY DEF PendingEvent
  <2>3. UNCHANGED accepted /\ (UNCHANGED <<rows, lastId>> \/ create(next))
    BY <1>4 DEF CreateNextYear, CreateFollower
  <2> HIDE DEF next
  <2> QED BY <1>0, <2>1, <2>2, <2>3, CreateMoves, NothingMoves
<1>5. CASE Receive(w) \/ SkipRecord(w) \/ RejectPayload(w) \/ StartRecord(w) \/ DeliverRejected(w)
           \/ FindUser(w) \/ Finish(w) \/ WorkerStops(w)
  <2>1. UNCHANGED <<rows, lastId, accepted>>
    BY <1>5 DEF Receive, SkipRecord, RejectPayload, StartRecord, DeliverRejected, FindUser, Finish,
                WorkerStops, databaseVars
  <2> QED BY <1>0, <2>1, NothingMoves
<1> QED BY <1>1, <1>2, <1>3, <1>4, <1>5 DEF WorkerRuns, WorkerFails

LEMMA StepMoves ==
  ASSUME Inv, [Next]_vars
  PROVE  RowsMoveOn
<1>0. TypeOK
  BY DEF Inv
<1>1. CASE ClockTicks \/ UNCHANGED vars \/ \E m \in Messages : QueueRuns(m) \/ QueueOvertakes(m)
  <2>1. UNCHANGED <<rows, lastId, accepted>>
    BY <1>1 DEF ClockTicks, vars, databaseVars, workerVars, QueueRuns, QueueOvertakes,
                VisibilityTimeout, VisibilityTimeoutEarly, Redrive
  <2> QED BY <1>0, <2>1, NothingMoves
<1> QED BY <1>1, UserMoves, SchedulerMoves, WorkerMovesRows DEF Next

-----------------------------------------------------------------------------
\* The parts of the invariant that speak of rows follow from RowsMoveOn.
LEMMA RowParts ==
  ASSUME Inv, TypeOK', RowsMoveOn
  PROVE  /\ IdsAreFresh' /\ VersionTracksStatus' /\ CompletedWasAccepted'
         /\ \A e \in EventIds : rows[e].status \notin {"NONE", "PENDING"}
                                  => rows'[e].status \notin {"NONE", "PENDING"}
         /\ \A e \in EventIds : e \in locked' /\ rows[e].status = "PENDING"
                                  => rows'[e].status = "PENDING" \/ e \notin locked
<1> USE DEF EventStatus, Settled
<1>1. rows \in [EventIds -> Event] /\ lastId \in Nat /\ lastId' \in Nat
      /\ accepted \in [EventIds -> Nat] /\ accepted' \in [EventIds -> Nat]
  BY MaxEventsAssumption DEF Inv, TypeOK, DatabaseTypeOK, WorkerTypeOK
<1>2. \A e \in EventIds : RowStep(e) /\ accepted[e] <= accepted'[e]
  BY DEF RowsMoveOn
<1>3. \A e \in EventIds :
        Erased(e) => rows'[e].status = "GONE" /\ rows[e].status \in EventStatus /\ e \notin locked
  BY <1>1 DEF Erased, Live, Event
<1>4. IdsAreFresh'
  <2> SUFFICES ASSUME NEW e \in EventIds, e > lastId' PROVE rows'[e].status = "NONE"
    BY DEF IdsAreFresh
  <2>1. (e > lastId /\ e # lastId + 1) \/ (e > lastId /\ lastId' = lastId)
    BY <1>1 DEF RowsMoveOn, EventIds
  <2>2. rows[e].status = "NONE"
    BY <2>1 DEF Inv, IdsAreFresh
  <2> QED BY <1>1, <1>2, <1>3, <2>1, <2>2 DEF RowStep, Created, Claimed, SettledNow, EventIds
<1>5. VersionTracksStatus'
  <2> SUFFICES ASSUME NEW e \in EventIds
               PROVE  /\ rows'[e].status = "PENDING"    => rows'[e].version = 1
                      /\ rows'[e].status = "PROCESSING" => rows'[e].version = 2
                      /\ rows'[e].status \in Settled    => rows'[e].version = 3
    BY DEF VersionTracksStatus
  <2>1. /\ rows[e].status = "PENDING"    => rows[e].version = 1
        /\ rows[e].status = "PROCESSING" => rows[e].version = 2
        /\ rows[e].status \in Settled    => rows[e].version = 3
    BY DEF Inv, VersionTracksStatus
  <2> QED BY <1>2, <1>3, <2>1 DEF RowStep, Created, Claimed, SettledNow
<1>6. CompletedWasAccepted'
  <2> SUFFICES ASSUME NEW e \in EventIds, rows'[e].status = "COMPLETED" PROVE accepted'[e] > 0
    BY DEF CompletedWasAccepted
  <2>1. rows[e].status = "COMPLETED" => accepted[e] > 0
    BY DEF Inv, CompletedWasAccepted
  <2>2. accepted[e] > 0
    BY <1>2, <1>3, <2>1 DEF RowStep, Created, Claimed, SettledNow
  <2> QED BY <1>1, <1>2, <2>2
<1>7. \A e \in EventIds : rows[e].status \notin {"NONE", "PENDING"}
                            => rows'[e].status \notin {"NONE", "PENDING"}
  BY <1>2, <1>3 DEF RowStep, Created, Claimed, SettledNow
<1>8. \A e \in EventIds : e \in locked' /\ rows[e].status = "PENDING"
                            => rows'[e].status = "PENDING" \/ e \notin locked
  BY <1>2, <1>3 DEF RowStep, Created, Claimed, SettledNow
<1> QED BY <1>4, <1>5, <1>6, <1>7, <1>8

SchedulerParts == LocksAreHeld /\ ClaimsAreExclusive /\ SendsAreClaimed

\* A step that leaves schedulers and locks alone cannot break what they rely on.
LEMMA SchedulersUndisturbed ==
  ASSUME Inv, TypeOK', RowsMoveOn, UNCHANGED <<sched, locked>>
  PROVE  SchedulerParts'
<1>1. /\ \A e \in EventIds : rows[e].status \notin {"NONE", "PENDING"}
                                  => rows'[e].status \notin {"NONE", "PENDING"}
      /\ \A e \in EventIds : e \in locked /\ rows[e].status = "PENDING" => rows'[e].status = "PENDING"
  BY RowParts
<1>2. \A s \in Schedulers : sched[s].todo \subseteq EventIds
  BY DEF Inv, TypeOK, SchedulerTypeOK
<1>3. LocksAreHeld'
  BY <1>1 DEF Inv, LocksAreHeld
<1>4. ClaimsAreExclusive'
  BY DEF Inv, ClaimsAreExclusive
<1>5. SendsAreClaimed'
  BY <1>1, <1>2 DEF Inv, SendsAreClaimed
<1> QED BY <1>3, <1>4, <1>5 DEF SchedulerParts

\* A step that leaves workers alone cannot break what they rely on.
LEMMA WorkersUndisturbed ==
  ASSUME Inv, TypeOK', RowsMoveOn, NEW v \in Workers, worker'[v] = worker[v],
         worker[v].pc \notin {"idle", "next"}
  PROVE  /\ worker'[v].msg \in Messages
         /\ worker'[v].ev.status = "PROCESSING" /\ worker'[v].ev.version = 2
         /\ rows'[Current(v)'].status \notin {"NONE", "PENDING"}
         /\ worker'[v].pc \in {"findUser", "complete", "completeOnly"} => accepted'[Current(v)'] > 0
<1>1. \A e \in EventIds : rows[e].status \notin {"NONE", "PENDING"}
                            => rows'[e].status \notin {"NONE", "PENDING"}
  BY RowParts
<1>2. \A e \in EventIds : accepted[e] \in Nat /\ accepted'[e] \in Nat /\ accepted[e] <= accepted'[e]
  BY DEF Inv, TypeOK, WorkerTypeOK, RowsMoveOn
<1>3. Current(v)' = Current(v) /\ Current(v) \in EventIds
  BY DEF Inv, CopiesAreClaimed, Current, Messages
<1> QED BY <1>1, <1>2, <1>3 DEF Inv, CopiesAreClaimed

-----------------------------------------------------------------------------
\* A scheduler step that writes only its own record and no lock: it stays out of mark
\* and, when it is still sending, sends a part of what it had.
LEMMA RecordStepKeepsParts ==
  ASSUME Inv, TypeOK', RowsMoveOn, NEW s \in Schedulers, NEW r,
         sched' = [sched EXCEPT ![s] = r], UNCHANGED locked,
         sched[s].pc # "mark", r.pc # "mark",
         r.pc = "send" => sched[s].pc = "send" /\ r.todo \subseteq sched[s].todo,
         r.pc \in {"idle", "recover", "claim"} => r.todo = {}
  PROVE  SchedulerParts'
<1>1. /\ \A e \in EventIds : rows[e].status \notin {"NONE", "PENDING"}
                                  => rows'[e].status \notin {"NONE", "PENDING"}
      /\ \A e \in EventIds : e \in locked /\ rows[e].status = "PENDING" => rows'[e].status = "PENDING"
  BY RowParts
<1>2. /\ \A t \in Schedulers : sched[t].todo \subseteq EventIds
      /\ sched'[s] = r
      /\ \A t \in Schedulers : t # s => sched'[t] = sched[t]
  BY DEF Inv, TypeOK, SchedulerTypeOK
<1>3. LocksAreHeld'
  BY <1>1, <1>2 DEF Inv, LocksAreHeld
<1>4. ClaimsAreExclusive'
  <2> SUFFICES ASSUME NEW t \in Schedulers, NEW v \in Schedulers, t # v,
                      sched'[t].pc \in {"mark", "send"}, sched'[v].pc \in {"mark", "send"}
               PROVE  sched'[t].todo \cap sched'[v].todo = {}
    BY DEF ClaimsAreExclusive
  <2>1. /\ sched[t].pc \in {"mark", "send"} /\ sched'[t].todo \subseteq sched[t].todo
        /\ sched[v].pc \in {"mark", "send"} /\ sched'[v].todo \subseteq sched[v].todo
    BY <1>2
  <2>2. sched[t].todo \cap sched[v].todo = {}
    BY <2>1 DEF Inv, ClaimsAreExclusive
  <2> QED BY <2>1, <2>2
<1>5. SendsAreClaimed'
  BY <1>1, <1>2 DEF Inv, SendsAreClaimed
<1> QED BY <1>3, <1>4, <1>5 DEF SchedulerParts

\* The row locks keep two claims apart.
LEMMA SelectParts ==
  ASSUME Inv, TypeOK', NEW s \in Schedulers, SelectForUpdate(s)
  PROVE  SchedulerParts'
<1>1. PICK B \in EarliestFirst(ReadyEvents \ locked, ClaimLimit) :
        GoTo(s, IF B = {} THEN "idle" ELSE "mark", B) /\ locked' = locked \cup B
  BY DEF SelectForUpdate
<1>2. B \subseteq EventIds \ locked /\ \A e \in B : rows[e].status = "PENDING"
  BY DEF EarliestFirst, ReadyEvents
<1>3. rows' = rows /\ sched[s].pc = "claim"
  BY DEF SelectForUpdate
<1>4. /\ sched'[s].pc = (IF B = {} THEN "idle" ELSE "mark") /\ sched'[s].todo = B
      /\ \A t \in Schedulers : t # s => sched'[t] = sched[t]
      /\ \A t \in Schedulers : sched[t].todo \subseteq EventIds
  <2>1. sched \in [Schedulers -> [pc : SchedulerPcs, todo : SUBSET EventIds, warm : BOOLEAN]]
    BY DEF Inv, TypeOK, SchedulerTypeOK
  <2>2. sched[s] \in [pc : SchedulerPcs, todo : SUBSET EventIds, warm : BOOLEAN]
    BY <2>1
  <2>3. sched'[s] = [sched[s] EXCEPT !.pc = (IF B = {} THEN "idle" ELSE "mark"), !.todo = B]
    BY <1>1, <2>1 DEF GoTo
  <2>4. \A t \in Schedulers : t # s => sched'[t] = sched[t]
    BY <1>1, <2>1 DEF GoTo
  <2>5. \A t \in Schedulers : sched[t].todo \subseteq EventIds
    BY <2>1
  <2> QED BY <2>2, <2>3, <2>4, <2>5
<1>5. LocksAreHeld'
  <2> SUFFICES ASSUME NEW e \in EventIds
               PROVE  /\ e \in locked' <=> \E t \in Schedulers : sched'[t].pc = "mark" /\ e \in sched'[t].todo
                      /\ e \in locked' => rows'[e].status = "PENDING"
    BY DEF LocksAreHeld
  <2>1. /\ e \in locked <=> \E t \in Schedulers : sched[t].pc = "mark" /\ e \in sched[t].todo
        /\ e \in locked => rows[e].status = "PENDING"
    BY DEF Inv, LocksAreHeld
  <2>2. e \in B <=> sched'[s].pc = "mark" /\ e \in sched'[s].todo
    BY <1>4
  <2> QED BY <1>1, <1>2, <1>3, <1>4, <2>1, <2>2
<1>6. ClaimsAreExclusive'
  <2>1. ASSUME NEW t \in Schedulers, t # s, sched[t].pc \in {"mark", "send"}
        PROVE  sched[t].todo \cap B = {}
    BY <1>2, <1>4, <2>1 DEF Inv, LocksAreHeld, SendsAreClaimed
  <2> SUFFICES ASSUME NEW t \in Schedulers, NEW v \in Schedulers, t # v,
                      sched'[t].pc \in {"mark", "send"}, sched'[v].pc \in {"mark", "send"}
               PROVE  sched'[t].todo \cap sched'[v].todo = {}
    BY DEF ClaimsAreExclusive
  <2>2. CASE t # s /\ v # s
    BY <1>4, <2>2 DEF Inv, ClaimsAreExclusive
  <2>3. CASE t = s \/ v = s
    BY <1>4, <2>1, <2>3
  <2> QED BY <2>2, <2>3
<1>7. SendsAreClaimed'
  BY <1>3, <1>4 DEF Inv, SendsAreClaimed
<1> QED BY <1>5, <1>6, <1>7 DEF SchedulerParts

\* Committing a claim hands its events from the locks to the send loop.
LEMMA MarkParts ==
  ASSUME Inv, TypeOK', RowsMoveOn, NEW s \in Schedulers, MarkProcessing(s)
  PROVE  SchedulerParts'
<1>1. /\ sched'[s].pc = "send" /\ sched'[s].todo = sched[s].todo
      /\ \A t \in Schedulers : t # s => sched'[t] = sched[t]
      /\ \A t \in Schedulers : sched[t].todo \subseteq EventIds
  BY DEF MarkProcessing, Inv, TypeOK, SchedulerTypeOK
<1>2. sched[s].pc = "mark" /\ locked' = locked \ sched[s].todo
  BY DEF MarkProcessing
<1>3. \A t \in Schedulers : t # s /\ sched[t].pc \in {"mark", "send"} => sched[t].todo \cap sched[s].todo = {}
  BY <1>2 DEF Inv, ClaimsAreExclusive
<1>4. /\ \A e \in EventIds : rows[e].status \notin {"NONE", "PENDING"}
                                  => rows'[e].status \notin {"NONE", "PENDING"}
      /\ \A e \in EventIds : e \in locked' /\ rows[e].status = "PENDING"
                                  => rows'[e].status = "PENDING" \/ e \notin locked
  BY RowParts
<1>5. \A e \in sched[s].todo : rows'[e].status = "PROCESSING"
  <2> SUFFICES ASSUME NEW e \in sched[s].todo PROVE rows'[e].status = "PROCESSING"
    OBVIOUS
  <2>1. rows[e] \in Event /\ e \in EventIds
    BY <1>1 DEF Inv, TypeOK, DatabaseTypeOK
  <2>2. rows'[e] = [rows[e] EXCEPT !.status = "PROCESSING", !.version = rows[e].version + 1]
    BY <2>1, Zenon DEF MarkProcessing, ToProcessing
  <2> QED BY <2>1, <2>2 DEF Event
<1>6. LocksAreHeld'
  <2> SUFFICES ASSUME NEW e \in EventIds
               PROVE  /\ e \in locked' <=> \E t \in Schedulers : sched'[t].pc = "mark" /\ e \in sched'[t].todo
                      /\ e \in locked' => rows'[e].status = "PENDING"
    BY DEF LocksAreHeld
  <2>1. /\ e \in locked <=> \E t \in Schedulers : sched[t].pc = "mark" /\ e \in sched[t].todo
        /\ e \in locked => rows[e].status = "PENDING"
    BY DEF Inv, LocksAreHeld
  <2> QED BY <1>1, <1>2, <1>3, <1>4, <2>1
<1>7. ClaimsAreExclusive'
  <2> SUFFICES ASSUME NEW t \in Schedulers, NEW v \in Schedulers, t # v,
                      sched'[t].pc \in {"mark", "send"}, sched'[v].pc \in {"mark", "send"}
               PROVE  sched'[t].todo \cap sched'[v].todo = {}
    BY DEF ClaimsAreExclusive
  <2>1. /\ sched[t].pc \in {"mark", "send"} /\ sched'[t].todo = sched[t].todo
        /\ sched[v].pc \in {"mark", "send"} /\ sched'[v].todo = sched[v].todo
    BY <1>1, <1>2
  <2> QED BY <2>1 DEF Inv, ClaimsAreExclusive
<1>8. SendsAreClaimed'
  BY <1>1, <1>4, <1>5 DEF Inv, SendsAreClaimed
<1> QED BY <1>6, <1>7, <1>8 DEF SchedulerParts

\* A rollback releases the instance's own locks and no others.
LEMMA RollbackParts ==
  ASSUME Inv, TypeOK', NEW s \in Schedulers, sched[s].pc = "mark", UNCHANGED rows,
         locked' = locked \ sched[s].todo, NEW r, sched' = [sched EXCEPT ![s] = r],
         r.pc = "idle", r.todo = {}
  PROVE  SchedulerParts'
<1>1. /\ sched'[s] = r
      /\ \A t \in Schedulers : t # s => sched'[t] = sched[t]
  BY DEF Inv, TypeOK, SchedulerTypeOK
<1>2. \A t \in Schedulers : t # s /\ sched[t].pc \in {"mark", "send"} => sched[t].todo \cap sched[s].todo = {}
  BY DEF Inv, ClaimsAreExclusive
<1>3. LocksAreHeld'
  <2> SUFFICES ASSUME NEW e \in EventIds
               PROVE  /\ e \in locked' <=> \E t \in Schedulers : sched'[t].pc = "mark" /\ e \in sched'[t].todo
                      /\ e \in locked' => rows'[e].status = "PENDING"
    BY DEF LocksAreHeld
  <2>1. /\ e \in locked <=> \E t \in Schedulers : sched[t].pc = "mark" /\ e \in sched[t].todo
        /\ e \in locked => rows[e].status = "PENDING"
    BY DEF Inv, LocksAreHeld
  <2> QED BY <1>1, <1>2, <2>1
<1>4. ClaimsAreExclusive'
  <2> SUFFICES ASSUME NEW t \in Schedulers, NEW v \in Schedulers, t # v,
                      sched'[t].pc \in {"mark", "send"}, sched'[v].pc \in {"mark", "send"}
               PROVE  sched'[t].todo \cap sched'[v].todo = {}
    BY DEF ClaimsAreExclusive
  <2>1. t # s /\ v # s
    BY <1>1
  <2> QED BY <1>1, <2>1 DEF Inv, ClaimsAreExclusive
<1>5. SendsAreClaimed'
  BY <1>1 DEF Inv, SendsAreClaimed
<1> QED BY <1>3, <1>4, <1>5 DEF SchedulerParts

LEMMA GoToRecord ==
  ASSUME TypeOK, NEW s \in Schedulers, NEW pc, NEW todo, GoTo(s, pc, todo)
  PROVE  \E r : sched' = [sched EXCEPT ![s] = r] /\ r.pc = pc /\ r.todo = todo
<1> DEFINE r == [sched[s] EXCEPT !.pc = pc, !.todo = todo]
<1>1. sched' = [sched EXCEPT ![s] = r]
  BY DEF GoTo
<1>2. sched[s] \in [pc : SchedulerPcs, todo : SUBSET EventIds, warm : BOOLEAN]
  BY DEF TypeOK, SchedulerTypeOK
<1>3. r.pc = pc /\ r.todo = todo
  BY <1>2
<1> HIDE DEF r
<1> QED BY <1>1, <1>3

LEMMA SchedulerKeepsParts ==
  ASSUME Inv, TypeOK', RowsMoveOn, NEW s \in Schedulers, SchedulerRuns(s) \/ SchedulerFails(s)
  PROVE  SchedulerParts'
<1>0. TypeOK
  BY DEF Inv
<1>1. ASSUME NEW pc, NEW todo, GoTo(s, pc, todo), UNCHANGED locked,
             sched[s].pc # "mark", pc # "mark",
             pc = "send" => sched[s].pc = "send" /\ todo \subseteq sched[s].todo,
             pc \in {"idle", "recover", "claim"} => todo = {}
      PROVE  SchedulerParts'
  BY <1>0, <1>1, GoToRecord, RecordStepKeepsParts
<1>2. sched[s].pc \in {"idle", "recover", "claim"} => sched[s].todo = {}
  BY DEF Inv, SendsAreClaimed
<1>3. CASE Invoke(s)
  <2>1. UNCHANGED locked
    BY <1>3 DEF Invoke, databaseVars
  <2> QED BY <1>1, <1>3, <2>1 DEF Invoke
<1>4. CASE FindMissedEvents(s)
  BY <1>1, <1>4 DEF FindMissedEvents, databaseVars
<1>5. CASE QueueMissed(s) \/ QueueMissedFails(s)
  BY <1>1, <1>5 DEF QueueMissed, QueueMissedFails, databaseVars
<1>6. CASE RecoveryDone(s) \/ RecoveryFails(s)
  <2> DEFINE r == [sched[s] EXCEPT !.pc = "claim", !.warm = TRUE]
  <2>1. /\ sched[s].pc # "mark" /\ UNCHANGED locked /\ sched[s].todo = {}
        /\ sched' = [sched EXCEPT ![s] = r]
    BY <1>2, <1>6 DEF RecoveryDone, RecoveryFails, databaseVars
  <2>2. r.pc = "claim" /\ r.todo = {}
    <3>1. sched[s] \in [pc : SchedulerPcs, todo : SUBSET EventIds, warm : BOOLEAN]
      BY <1>0 DEF TypeOK, SchedulerTypeOK
    <3> QED BY <2>1, <3>1
  <2> HIDE DEF r
  <2> QED BY <2>1, <2>2, RecordStepKeepsParts
<1>7. CASE SelectForUpdate(s)
  BY <1>7, SelectParts
<1>8. CASE MarkProcessing(s)
  BY <1>8, MarkParts
<1>9. CASE ClaimFails(s)
  <2>1. CASE sched[s].pc = "mark"
    BY <1>0, <1>9, <2>1, GoToRecord, RollbackParts DEF ClaimFails
  <2>2. CASE sched[s].pc = "claim"
    <3>1. locked' = locked
      BY <1>2, <1>9, <2>2 DEF ClaimFails
    <3> QED BY <1>1, <1>9, <2>2, <3>1 DEF ClaimFails
  <2> QED BY <1>9, <2>1, <2>2 DEF ClaimFails
<1>10. CASE SendClaimed(s)
  <2>1. PICK e \in NextUp(s) :
          GoTo(s, IF sched[s].todo \ {e} = {} THEN "idle" ELSE "send", sched[s].todo \ {e})
    BY <1>10 DEF SendClaimed
  <2>2. sched[s].pc = "send" /\ UNCHANGED locked
    BY <1>10 DEF SendClaimed, databaseVars
  <2> QED BY <1>1, <2>1, <2>2
<1>11. CASE SendFails(s)
  BY <1>1, <1>11 DEF SendFails, databaseVars
<1>12. CASE SchedulerStops(s)
  <2> DEFINE r == [pc |-> "idle", todo |-> {}, warm |-> FALSE]
  <2>1. r.pc = "idle" /\ r.todo = {} /\ sched' = [sched EXCEPT ![s] = r] /\ UNCHANGED rows
    BY <1>12 DEF SchedulerStops
  <2> HIDE DEF r
  <2>2. CASE sched[s].pc = "mark"
    <3>1. locked' = locked \ sched[s].todo
      BY <1>12, <2>2 DEF SchedulerStops
    <3> QED BY <2>1, <2>2, <3>1, RollbackParts
  <2>3. CASE sched[s].pc # "mark"
    <3>1. UNCHANGED locked
      BY <1>12, <2>3 DEF SchedulerStops
    <3> QED BY <2>1, <2>3, <3>1, RecordStepKeepsParts
  <2> QED BY <2>2, <2>3
<1> QED
  BY <1>3, <1>4, <1>5, <1>6, <1>7, <1>8, <1>9, <1>10, <1>11, <1>12
  DEF SchedulerRuns, SchedulerFails

-----------------------------------------------------------------------------
\* What CopiesAreClaimed says of one worker.
CopyIsClaimed(v) ==
  worker[v].pc \notin {"idle", "next"} =>
    /\ worker[v].msg \in Messages
    /\ worker[v].ev.status = "PROCESSING" /\ worker[v].ev.version = 2
    /\ rows[Current(v)].status \notin {"NONE", "PENDING"}
    /\ worker[v].pc \in {"findUser", "complete", "completeOnly"} => accepted[Current(v)] > 0

LEMMA OtherCopies ==
  ASSUME Inv, TypeOK', RowsMoveOn, NEW v \in Workers, worker'[v] = worker[v]
  PROVE  CopyIsClaimed(v)'
  BY WorkersUndisturbed DEF CopyIsClaimed

LEMMA CopiesUndisturbed ==
  ASSUME Inv, TypeOK', RowsMoveOn, UNCHANGED worker
  PROVE  CopiesAreClaimed'
<1>1. \A v \in Workers : CopyIsClaimed(v)'
  BY OtherCopies
<1> QED BY <1>1 DEF CopiesAreClaimed, CopyIsClaimed

LEMMA WorkerKeepsCopies ==
  ASSUME Inv, TypeOK', RowsMoveOn, NEW w \in Workers, WorkerRuns(w) \/ WorkerFails(w)
  PROVE  CopiesAreClaimed'
<1> USE DEF EventStatus, Settled
<1>0. worker \in [Workers -> [pc : WorkerPcs, batch : SUBSET Messages, todo : SUBSET Messages,
                              msg : Messages \cup {NoMessage}, ev : Event, retries : Nat]]
      /\ accepted \in [EventIds -> Nat] /\ rows \in [EventIds -> Event]
  BY DEF Inv, TypeOK, WorkerTypeOK, DatabaseTypeOK
<1>1. \A v \in Workers : v # w => worker'[v] = worker[v]
  BY <1>0 DEF WorkerRuns, WorkerFails, Receive, SkipRecord, RejectPayload, StartRecord, DeliverAccepted,
              DeliverRejected, RetryDelivery, DeliverFails, MarkFailed, FindUser, CompleteEvent,
              CreateNextYear, CreateFollower, Finish, WorkerStops, WorkerGoTo, Return, Throw
<1>2. ASSUME Throw(w) \/ Return(w) \/ worker'[w].pc \in {"idle", "next"}
      PROVE  CopyIsClaimed(w)'
  <2>1. CASE Throw(w)
    BY <1>0, <2>1 DEF Throw, IdleWorker, CopyIsClaimed
  <2>2. CASE Return(w)
    <3>1. worker'[w] = [worker[w] EXCEPT !.pc = "next", !.todo = worker[w].todo \ {worker[w].msg},
                                         !.msg = NoMessage, !.ev = NoEvent]
      BY <1>0, <2>2, Zenon DEF Return
    <3>2. worker'[w].pc = "next"
      BY <1>0, <3>1
    <3> QED BY <3>2 DEF CopyIsClaimed
  <2>3. CASE worker'[w].pc \in {"idle", "next"}
    BY <2>3 DEF CopyIsClaimed
  <2> QED BY <1>2, <2>1, <2>2, <2>3
<1>C. ASSUME CopyIsClaimed(w)' PROVE CopiesAreClaimed'
  <2>1. \A v \in Workers : CopyIsClaimed(v)'
    BY <1>1, <1>C, OtherCopies
  <2> QED BY <2>1 DEF CopiesAreClaimed, CopyIsClaimed
\* A step that moves w on within the same record.
<1>3. ASSUME NEW pc \in {"findUser", "complete", "completeOnly", "create", "fail"}, WorkerGoTo(w, pc),
             worker[w].pc \notin {"idle", "next"},
             pc \in {"findUser", "complete", "completeOnly"} => accepted'[Current(w)] > 0
      PROVE  CopyIsClaimed(w)'
  <2>1. worker'[w].pc = pc /\ worker'[w].msg = worker[w].msg /\ worker'[w].ev = worker[w].ev
    BY <1>0, <1>3 DEF WorkerGoTo
  <2>2. Current(w)' = Current(w) /\ Current(w) \in EventIds /\ worker[w].msg \in Messages
        /\ worker[w].ev.status = "PROCESSING" /\ worker[w].ev.version = 2
        /\ rows[Current(w)].status \notin {"NONE", "PENDING"}
    BY <1>3, <2>1 DEF Inv, CopiesAreClaimed, Current, Messages
  <2>3. rows'[Current(w)].status \notin {"NONE", "PENDING"}
    BY <2>2, RowParts
  <2> QED BY <1>3, <2>1, <2>2, <2>3 DEF CopyIsClaimed
<1>4. CASE Receive(w)
  <2>1. PICK B \in SUBSET Receivable :
          worker' = [worker EXCEPT ![w] = [@ EXCEPT !.pc = "next", !.batch = B, !.todo = B]]
    BY <1>4 DEF Receive
  <2>2. worker'[w] = [worker[w] EXCEPT !.pc = "next", !.batch = B, !.todo = B]
    BY <1>0, <2>1, Zenon
  <2>3. worker'[w].pc = "next"
    BY <1>0, <2>2
  <2> QED BY <1>2, <2>3, <1>C
<1>5. CASE SkipRecord(w)
  <2>1. worker'[w].pc = "next"
    BY <1>0, <1>5 DEF SkipRecord
  <2> QED BY <1>2, <2>1, <1>C
<1>6. CASE RejectPayload(w) \/ DeliverFails(w) \/ WorkerStops(w) \/ CreateNextYear(w)
  <2>1. Throw(w) \/ Return(w)
    BY <1>6 DEF RejectPayload, DeliverFails, WorkerStops, CreateNextYear, CreateFollower
  <2> QED BY <1>2, <2>1, <1>C
<1>7. CASE Finish(w)
  <2>1. Throw(w)
    BY <1>7 DEF Finish, Throw
  <2> QED BY <1>2, <2>1, <1>C
<1>8. CASE StartRecord(w)
  <2>1. PICK m \in worker[w].todo :
          /\ rows[m[1]].status = "PROCESSING"
          /\ worker' = [worker EXCEPT ![w] = [@ EXCEPT !.pc = "deliver", !.msg = m, !.ev = rows[m[1]],
                                                   !.retries = 0]]
    BY <1>8 DEF StartRecord
  <2>2. worker'[w] = [worker[w] EXCEPT !.pc = "deliver", !.msg = m, !.ev = rows[m[1]], !.retries = 0]
    BY <1>0, <2>1, Zenon
  <2>3. worker'[w].pc = "deliver" /\ worker'[w].msg = m /\ worker'[w].ev = rows[m[1]]
    BY <1>0, <2>2
  <2>4. m \in Messages /\ m[1] \in EventIds
    BY <1>0 DEF Messages
  <2>5. rows[m[1]].version = 2 /\ rows' = rows
    BY <1>8, <2>1, <2>4 DEF Inv, VersionTracksStatus, StartRecord, databaseVars
  <2>6. CopyIsClaimed(w)'
    BY <2>1, <2>3, <2>4, <2>5 DEF CopyIsClaimed, Current
  <2> QED BY <2>6, <1>C
<1>9. CASE DeliverAccepted(w)
  <2>1. Current(w) \in EventIds
    BY <1>9 DEF DeliverAccepted, Inv, CopiesAreClaimed, Current, Messages
  <2>2. accepted'[Current(w)] > 0
    BY <1>0, <1>9, <2>1 DEF DeliverAccepted
  <2> QED BY <1>3, <1>9, <2>2, <1>C DEF DeliverAccepted
<1>10. CASE DeliverRejected(w)
  BY <1>3, <1>10, <1>C DEF DeliverRejected
<1>11. CASE MarkFailed(w)
  <2>1. Throw(w) \/ Return(w)
    BY <1>11 DEF MarkFailed
  <2> QED BY <1>2, <2>1, <1>C
<1>12. CASE FindUser(w)
  <2>1. accepted'[Current(w)] > 0
    BY <1>12 DEF FindUser, Inv, CopiesAreClaimed
  <2> QED BY <1>3, <1>12, <2>1, <1>C DEF FindUser
<1>13. CASE CompleteEvent(w)
  <2>1. Throw(w) \/ Return(w) \/ WorkerGoTo(w, "create")
    BY <1>13 DEF CompleteEvent
  <2>2. worker[w].pc \notin {"idle", "next"}
    BY <1>13 DEF CompleteEvent
  <2> QED BY <1>2, <1>3, <2>1, <2>2, <1>C
<1>14. CASE RetryDelivery(w)
  <2>1. /\ worker[w].pc = "deliver" /\ UNCHANGED rows
        /\ worker' = [worker EXCEPT ![w].retries = @ + 1]
    BY <1>14 DEF RetryDelivery, databaseVars
  <2>2. worker'[w].pc = "deliver" /\ worker'[w].msg = worker[w].msg /\ worker'[w].ev = worker[w].ev
    BY <1>0, <2>1
  <2>3. CopyIsClaimed(w)'
    BY <2>1, <2>2 DEF Inv, CopiesAreClaimed, CopyIsClaimed, Current
  <2> QED BY <2>3, <1>C
<1> QED
  BY <1>4, <1>5, <1>6, <1>7, <1>8, <1>9, <1>10, <1>11, <1>12, <1>13, <1>14
  DEF WorkerRuns, WorkerFails

-----------------------------------------------------------------------------
LEMMA InitInv == Init => Inv
<1> SUFFICES ASSUME Init PROVE Inv
  OBVIOUS
<1>1. TypeOK
  BY InitTypeOK
<1>2. /\ \A e \in EventIds : rows[e].status = "NONE"
      /\ locked = {}
      /\ \A s \in Schedulers : sched[s].pc = "idle" /\ sched[s].todo = {}
      /\ \A w \in Workers : worker[w].pc = "idle"
  BY DEF Init, DatabaseInit, NoEvent, SchedulerInit, WorkerInit, IdleWorker
<1> QED
  BY <1>1, <1>2 DEF Inv, IdsAreFresh, VersionTracksStatus, CompletedWasAccepted, LocksAreHeld,
                    ClaimsAreExclusive, SendsAreClaimed, CopiesAreClaimed, Settled

LEMMA StepInv == Inv /\ [Next]_vars => Inv'
<1> SUFFICES ASSUME Inv, [Next]_vars PROVE Inv'
  OBVIOUS
<1>1. TypeOK'
  BY StepTypeOK DEF Inv
<1>2. RowsMoveOn
  BY StepMoves
<1>3. IdsAreFresh' /\ VersionTracksStatus' /\ CompletedWasAccepted'
  BY <1>1, <1>2, RowParts
<1>4. SchedulerParts' /\ CopiesAreClaimed'
  <2>1. ASSUME UNCHANGED <<sched, locked>> PROVE SchedulerParts'
    BY <1>1, <1>2, <2>1, SchedulersUndisturbed
  <2>2. ASSUME UNCHANGED worker PROVE CopiesAreClaimed'
    BY <1>1, <1>2, <2>2, CopiesUndisturbed
  <2>3. ASSUME NEW u \in Users, UserRequest(u) PROVE UNCHANGED <<sched, locked, worker>>
    BY <2>3 DEF UserRequest, CreateUser, CreateBirthdayEvent, CreateBirthdayEventAt, CreateBirthdayEventFails, DeleteUser, workerVars
  <2>4. ASSUME NEW s \in Schedulers, SchedulerRuns(s) \/ SchedulerFails(s)
        PROVE  SchedulerParts' /\ UNCHANGED worker
    BY <1>1, <1>2, <2>4, SchedulerKeepsParts DEF SchedulerRuns, SchedulerFails, workerVars
  <2>5. ASSUME NEW w \in Workers, WorkerRuns(w) \/ WorkerFails(w)
        PROVE  CopiesAreClaimed' /\ UNCHANGED <<sched, locked>>
    <3>1. UNCHANGED <<sched, locked>>
      BY <2>5 DEF WorkerRuns, WorkerFails, databaseVars, Receive, SkipRecord, RejectPayload, StartRecord,
                  DeliverAccepted, DeliverRejected, RetryDelivery, DeliverFails, MarkFailed, FindUser,
                  CompleteEvent, CreateNextYear, CreateFollower, Finish, WorkerStops
    <3> QED BY <1>1, <1>2, <2>5, <3>1, WorkerKeepsCopies
  <2>6. ASSUME NEW m \in Messages, QueueRuns(m) \/ QueueOvertakes(m)
        PROVE  UNCHANGED <<sched, locked, worker>>
    BY <2>6 DEF QueueRuns, QueueOvertakes, VisibilityTimeout, VisibilityTimeoutEarly, Redrive,
                databaseVars, workerVars
  <2>7. ASSUME ClockTicks \/ UNCHANGED vars PROVE UNCHANGED <<sched, locked, worker>>
    BY <2>7 DEF ClockTicks, vars, databaseVars, workerVars
  <2> QED BY <2>1, <2>2, <2>3, <2>4, <2>5, <2>6, <2>7 DEF Next
<1> QED BY <1>1, <1>3, <1>4 DEF Inv, SchedulerParts

\* The inductive invariant holds in every behaviour.
THEOREM Invariance == Spec => []Inv
<1> QED BY InitInv, StepInv, PTL DEF Spec

\* No event is ever in the hands of two schedulers: the row locks and the status
\* check of claimReadyEvents suffice, whatever fails and however many instances run.
THEOREM ExclusiveClaims == Spec => []ClaimsAreExclusive
<1>1. Inv => ClaimsAreExclusive
  BY DEF Inv
<1> QED BY <1>1, Invariance, PTL

\* Rollbacks and crashes of schedulers leave no row lock behind.
THEOREM LocksAreReleased == Spec => []LocksAreHeld
<1>1. Inv => LocksAreHeld
  BY DEF Inv
<1> QED BY <1>1, Invariance, PTL

\* The optimistic lock counts exactly one claim and one settlement per event.
THEOREM VersionsCount == Spec => []VersionTracksStatus
<1>1. Inv => VersionTracksStatus
  BY DEF Inv
<1> QED BY <1>1, Invariance, PTL

\* No event is recorded as COMPLETED without an accepted webhook call.
THEOREM NoFalseCompletion == Spec => []CompletedWasAccepted
<1>1. Inv => CompletedWasAccepted
  BY DEF Inv
<1> QED BY <1>1, Invariance, PTL

\* History is immutable: a late or repeated worker cannot rewrite a settled row.
THEOREM HistoryIsImmutable == Spec => SettledRowsNeverChange
<1> DEFINE Kept == \A e \in EventIds :
                     rows[e].status \in Settled =>
                       rows'[e] = rows[e] \/ rows'[e] = [rows[e] EXCEPT !.status = "GONE"]
<1>1. Inv /\ [Next]_vars => Kept
  <2> SUFFICES ASSUME Inv, [Next]_vars PROVE Kept
    OBVIOUS
  <2>1. \A e \in EventIds : RowStep(e)
    BY StepMoves DEF RowsMoveOn
  <2> QED BY <2>1 DEF RowStep, Created, Claimed, SettledNow, Erased, Settled
<1>2. Inv /\ [Next]_vars => [Kept]_vars
  BY <1>1
<1> HIDE DEF Kept
<1>3. Spec => [][Kept]_vars
  BY <1>2, Invariance, PTL DEF Spec
<1> QED BY <1>3 DEF SettledRowsNeverChange, Kept
=============================================================================
