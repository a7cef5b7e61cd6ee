------------------------ MODULE DeliveryQueueProofs ------------------------
(***************************************************************************)
(* What becomes of messages.  The queue and the events table share no      *)
(* transaction: a claim is committed first and queued later, a message is  *)
(* deleted when the invocation that holds it returns, and the same message *)
(* may be in the batches of several invocations.  That a claimed event is  *)
(* not forgotten rests on what each invocation still has to handle of its  *)
(* batch (Unhandled); that a deliverable event is not given up rests on    *)
(* counting the receives of its messages against the faults.               *)
(***************************************************************************)
EXTENDS DeliveryChainProofs, FunctionTheorems

USE DEF EventStatus, Settled

\* An invocation handles what it received, and has its record still to do.
InHand(w) ==
  /\ worker[w].pc = "idle" => worker[w].batch = {}
  /\ worker[w].todo \subseteq worker[w].batch
  /\ worker[w].pc \notin {"idle", "next"} => worker[w].msg \in worker[w].todo
  /\ \A m \in worker[w].batch : queue[m].state # "unsent"

AllInHand == \A w \in Workers : InHand(w)

\* The message is in the queue, and no invocation is done with it.
Unhandled(m) ==
  /\ queue[m].state \in {"visible", "inflight", "dead"}
  /\ \A w \in Workers : m \in worker[w].batch => m \in worker[w].todo

AboutToBeSent(e) == \E s \in Schedulers : sched[s].pc = "send" /\ e \in sched[s].todo

Tracked(e) == AboutToBeSent(e) \/ \E c \in Copies : Unhandled(<<e, c>>)

QueueInv ==
  /\ AllInHand
  /\ faults.scheduler = 0 => \A e \in EventIds : rows[e].status = "PROCESSING" => Tracked(e)

-----------------------------------------------------------------------------
\* What one step of worker w does to its batch: it takes one, carries it on, gives
\* it up, or finishes it.
Deliverable(e) == Open(e) /\ WebhookPayloadValid(rows[e].payload)

Past == Settled \cup {"GONE"}

Takes(w) ==
  \E B \in SUBSET Receivable :
    /\ B # {} /\ Cardinality(B) <= BatchSize
    /\ worker[w].pc = "idle"
    /\ worker'[w].pc = "next" /\ worker'[w].batch = B /\ worker'[w].todo = B
    /\ receiveMessages(w, B)
    /\ UNCHANGED rows

Carries(w) ==
  /\ UNCHANGED queue
  /\ worker[w].pc # "idle" /\ worker'[w].pc # "idle"
  /\ worker'[w].batch = worker[w].batch
  /\ worker'[w].todo \subseteq worker[w].todo
  /\ \A m \in worker[w].todo \ worker'[w].todo : rows'[m[1]].status # "PROCESSING"
  /\ worker'[w].pc # "next" => worker'[w].msg \in worker'[w].todo
  /\ worker[w].pc # "next" /\ worker'[w].pc = "next" => rows'[Current(w)].status \in Past
  /\ worker[w].pc # "next" /\ worker'[w].pc # "next" =>
       /\ worker'[w].msg = worker[w].msg
       /\ worker'[w].pc = "deliver" => worker[w].pc = "deliver"
  /\ worker[w].pc = "next" /\ worker'[w].pc # "next" =>
       worker'[w].pc = "deliver" /\ rows[worker'[w].msg[1]].status = "PROCESSING"

GivesUp(w) ==
  /\ UNCHANGED <<queue, rows>>
  /\ worker[w].pc # "idle" /\ worker'[w] = IdleWorker
  /\ \/ faults.worker' = faults.worker + 1
     \/ worker[w].pc = "next" /\ \E m \in worker[w].batch : ~Deliverable(m[1])
     \/ /\ worker[w].pc # "next" /\ worker[w].msg \in worker[w].batch
        /\ rows[Current(w)].status \in Past

Finishes(w) ==
  /\ worker[w].pc = "next" /\ worker[w].todo = {} /\ worker'[w] = IdleWorker
  /\ deleteMessages(w, worker[w].batch)
  /\ UNCHANGED rows

Handles(w) ==
  /\ Takes(w) \/ Carries(w) \/ GivesUp(w) \/ Finishes(w)
  /\ \A v \in Workers : v # w => worker'[v] = worker[v]

\* Whoever holds a copy of a settled or erased row gives up or goes on: the row can
\* be written only while it is as the copy has it.
LEMMA CopyInHand ==
  ASSUME Inv, NEW w \in Workers, InHand(w), worker[w].pc \notin {"idle", "next"}
  PROVE  /\ worker[w].msg \in worker[w].batch /\ Current(w) \in EventIds
         /\ worker[w].ev.version = 2
         /\ rows[Current(w)].status \notin {"NONE", "PENDING"}
         /\ \A ev : ev.version = 3 /\ ~UpdateMatches(Current(w), ev) => rows[Current(w)].status \in Past
<1>1. /\ worker[w].msg \in Messages /\ worker[w].ev.version = 2
      /\ rows[Current(w)].status \notin {"NONE", "PENDING"}
  BY DEF Inv, CopiesAreClaimed
<1>2. Current(w) \in EventIds
  BY <1>1 DEF Current, Messages
<1>3. ASSUME NEW ev, ev.version = 3, rows[Current(w)].status \notin Past
      PROVE  UpdateMatches(Current(w), ev)
  <2>1. rows[Current(w)].status = "PROCESSING"
    <3>1. rows[Current(w)] \in Event
      BY <1>2 DEF Inv, TypeOK, DatabaseTypeOK
    <3> QED BY <1>1, <1>3, <3>1 DEF Past, Event
  <2>2. rows[Current(w)].version = 2
    BY <1>2, <2>1 DEF Inv, VersionTracksStatus
  <2> QED BY <1>3, <2>1, <2>2 DEF UpdateMatches, Live
<1> QED BY <1>1, <1>2, <1>3 DEF InHand

LEMMA ReturnDrops ==
  ASSUME Inv, NEW w \in Workers, InHand(w), worker[w].pc \notin {"idle", "next"}, Return(w),
         UNCHANGED queue, rows'[Current(w)].status \in Past
  PROVE  Carries(w)
<1>0. worker \in [Workers -> [pc : WorkerPcs, batch : SUBSET Messages, todo : SUBSET Messages,
                              msg : Messages \cup {NoMessage}, ev : Event, retries : Nat]]
  BY DEF Inv, TypeOK, WorkerTypeOK
<1>1. worker'[w] = [worker[w] EXCEPT !.pc = "next", !.todo = worker[w].todo \ {worker[w].msg},
                                     !.msg = NoMessage, !.ev = NoEvent]
  BY <1>0, Zenon DEF Return
<1>2. /\ worker'[w].pc = "next" /\ worker'[w].batch = worker[w].batch
      /\ worker'[w].todo = worker[w].todo \ {worker[w].msg}
  BY <1>0, <1>1
<1> QED BY <1>2 DEF Carries, Current, Past

LEMMA GoToCarries ==
  ASSUME Inv, NEW w \in Workers, InHand(w), worker[w].pc \notin {"idle", "next"},
         NEW pc \in WorkerPcs \ {"idle", "next", "deliver"}, WorkerGoTo(w, pc), UNCHANGED queue
  PROVE  Carries(w)
<1>0. worker \in [Workers -> [pc : WorkerPcs, batch : SUBSET Messages, todo : SUBSET Messages,
                              msg : Messages \cup {NoMessage}, ev : Event, retries : Nat]]
  BY DEF Inv, TypeOK, WorkerTypeOK
<1>1. /\ worker'[w].pc = pc /\ worker'[w].batch = worker[w].batch
      /\ worker'[w].todo = worker[w].todo /\ worker'[w].msg = worker[w].msg
  BY <1>0 DEF WorkerGoTo
<1> QED BY <1>1 DEF Carries, InHand

LEMMA WorkerHandles ==
  ASSUME Inv, ChainInv, NEW w \in Workers, InHand(w), WorkerRuns(w) \/ WorkerFails(w)
  PROVE  Handles(w)
<1>0. /\ worker \in [Workers -> [pc : WorkerPcs, batch : SUBSET Messages, todo : SUBSET Messages,
                              msg : Messages \cup {NoMessage}, ev : Event, retries : Nat]]
      /\ rows \in [EventIds -> Event] /\ worker[w].ev \in Event
      /\ faults \in [scheduler : Nat, worker : Nat]
  BY DEF Inv, TypeOK, WorkerTypeOK, DatabaseTypeOK, PlatformTypeOK
<1>1. \A v \in Workers : v # w => worker'[v] = worker[v]
  BY WorkerStepMoves DEF ChainInv
<1>2. ASSUME Throw(w) PROVE worker'[w] = IdleWorker
  BY <1>0, <1>2 DEF Throw
<1>3. ASSUME WorkerFault PROVE faults.worker' = faults.worker + 1
  BY <1>0, <1>3 DEF WorkerFault
<1>4. CASE Receive(w)
  <2>1. PICK B \in (SUBSET Receivable) \ {{}} :
          /\ Cardinality(B) <= BatchSize /\ receiveMessages(w, B)
          /\ worker' = [worker EXCEPT ![w] = [@ EXCEPT !.pc = "next", !.batch = B, !.todo = B]]
    BY <1>4 DEF Receive
  <2>2. worker'[w] = [worker[w] EXCEPT !.pc = "next", !.batch = B, !.todo = B]
    BY <1>0, <2>1, Zenon
  <2>3. worker'[w].pc = "next" /\ worker'[w].batch = B /\ worker'[w].todo = B
    BY <1>0, <2>2
  <2>4. Takes(w)
    BY <1>4, <2>1, <2>3 DEF Takes, Receive, databaseVars
  <2> QED BY <1>1, <2>4 DEF Handles
<1>5. CASE SkipRecord(w)
  <2>1. PICK m \in worker[w].todo :
          /\ rows[m[1]].status # "PROCESSING"
          /\ worker' = [worker EXCEPT ![w].todo = @ \ {m}]
    BY <1>5 DEF SkipRecord
  <2>2. /\ worker'[w].todo = worker[w].todo \ {m} /\ worker'[w].batch = worker[w].batch
        /\ worker'[w].pc = "next" /\ worker[w].pc = "next"
    BY <1>0, <1>5, <2>1 DEF SkipRecord
  <2>3. Carries(w)
    BY <1>5, <2>1, <2>2 DEF Carries, SkipRecord, databaseVars
  <2> QED BY <1>1, <2>3 DEF Handles
<1>6. CASE RejectPayload(w)
  <2>1. PICK m \in worker[w].todo : ~WebhookPayloadValid(rows[m[1]].payload)
    BY <1>6 DEF RejectPayload
  <2>2. m \in worker[w].batch /\ ~Deliverable(m[1])
    BY <2>1 DEF InHand, Deliverable
  <2>3. GivesUp(w)
    BY <1>2, <1>6, <2>2 DEF GivesUp, RejectPayload, databaseVars
  <2> QED BY <1>1, <2>3 DEF Handles
<1>7. CASE DeliverFails(w) \/ WorkerStops(w)
  <2>1. GivesUp(w)
    BY <1>2, <1>3, <1>7 DEF GivesUp, DeliverFails, WorkerStops, databaseVars
  <2> QED BY <1>1, <2>1 DEF Handles
<1>8. CASE StartRecord(w)
  <2>1. PICK m \in worker[w].todo :
          /\ rows[m[1]].status = "PROCESSING"
          /\ worker' = [worker EXCEPT ![w] = [@ EXCEPT !.pc = "deliver", !.msg = m, !.ev = rows[m[1]],
                                                      !.retries = 0]]
    BY <1>8 DEF StartRecord
  <2>2. worker'[w] = [worker[w] EXCEPT !.pc = "deliver", !.msg = m, !.ev = rows[m[1]], !.retries = 0]
    BY <1>0, <2>1, Zenon
  <2>3. /\ worker'[w].pc = "deliver" /\ worker'[w].msg = m
        /\ worker'[w].batch = worker[w].batch /\ worker'[w].todo = worker[w].todo
    BY <1>0, <2>2
  <2>4. Carries(w)
    BY <1>8, <2>1, <2>3 DEF Carries, StartRecord
  <2> QED BY <1>1, <2>4 DEF Handles
<1>9. CASE DeliverAccepted(w) \/ DeliverRejected(w)
  <2>1. /\ worker[w].pc = "deliver" /\ UNCHANGED queue
        /\ WorkerGoTo(w, "findUser") \/ WorkerGoTo(w, "fail")
    BY <1>9 DEF DeliverAccepted, DeliverRejected
  <2>2. Carries(w)
    BY <2>1, GoToCarries DEF WorkerPcs
  <2> QED BY <1>1, <2>2 DEF Handles
<1>10. CASE RetryDelivery(w)
  <2>1. /\ worker[w].pc = "deliver" /\ UNCHANGED queue
        /\ worker' = [worker EXCEPT ![w].retries = @ + 1]
    BY <1>10 DEF RetryDelivery
  <2>2. /\ worker'[w].pc = "deliver" /\ worker'[w].msg = worker[w].msg
        /\ worker'[w].batch = worker[w].batch /\ worker'[w].todo = worker[w].todo
    BY <1>0, <2>1
  <2>3. Carries(w)
    BY <2>1, <2>2 DEF Carries, InHand
  <2> QED BY <1>1, <2>3 DEF Handles
<1>11. CASE FindUser(w)
  <2>1. /\ worker[w].pc = "findUser" /\ UNCHANGED queue
        /\ WorkerGoTo(w, "complete") \/ WorkerGoTo(w, "completeOnly")
    BY <1>11 DEF FindUser
  <2>2. Carries(w)
    BY <2>1, GoToCarries DEF WorkerPcs
  <2> QED BY <1>1, <2>2 DEF Handles
<1>12. CASE MarkFailed(w)
  <2> DEFINE failed == markFailed(worker[w].ev)
  <2>0. worker[w].pc = "fail"
    BY <1>12 DEF MarkFailed
  <2>1. PICK c \in EventIds : c = Current(w)
    BY <2>0, CopyInHand
  <2>2. worker[w].msg \in worker[w].batch /\ worker[w].ev.version = 2 /\ worker[w].msg[1] = c
    BY <2>0, <2>1, CopyInHand DEF Current
  <2>3. failed.version = 3 /\ failed.status = "FAILED"
    BY <1>0, <2>2 DEF markFailed, Event
  <2>4. /\ UNCHANGED queue
        /\ \/ update(c, failed) /\ Return(w)
           \/ ~UpdateMatches(c, failed) /\ UNCHANGED rows /\ Throw(w)
    BY <1>12, <2>1 DEF MarkFailed
  <2> HIDE DEF failed
  <2>5. CASE update(c, failed) /\ Return(w)
    <3>1. rows'[c] = [rows[c] EXCEPT !.status = failed.status, !.target = failed.target,
                 !.local = failed.local, !.retryCount = failed.retryCount, !.version = failed.version]
      BY <1>0, <2>5, Zenon DEF update
    <3>2. rows[c] \in Event
      BY <1>0
    <3>3. rows'[c].status = "FAILED"
      BY <2>3, <3>1, <3>2 DEF Event
    <3>4. Carries(w)
      BY <2>0, <2>1, <2>4, <2>5, <3>3, ReturnDrops DEF Past
    <3> QED BY <1>1, <3>4 DEF Handles
  <2>6. CASE ~UpdateMatches(c, failed) /\ UNCHANGED rows /\ Throw(w)
    <3>1. rows[Current(w)].status \in Past
      BY <2>0, <2>1, <2>3, <2>6, CopyInHand
    <3>2. GivesUp(w)
      BY <1>2, <2>0, <2>2, <2>4, <2>6, <3>1 DEF GivesUp
    <3> QED BY <1>1, <3>2 DEF Handles
  <2> QED BY <2>4, <2>5, <2>6
<1>13. CASE CompleteEvent(w)
  <2> DEFINE completed == markCompleted(worker[w].ev)
  <2>0. worker[w].pc \in {"complete", "completeOnly"}
    BY <1>13 DEF CompleteEvent
  <2>1. PICK c \in EventIds : c = Current(w)
    BY <2>0, CopyInHand
  <2>2. worker[w].msg \in worker[w].batch /\ worker[w].ev.version = 2 /\ worker[w].msg[1] = c
    BY <2>0, <2>1, CopyInHand DEF Current
  <2>3. completed.version = 3 /\ completed.status = "COMPLETED"
    BY <1>0, <2>2 DEF markCompleted, Event
  <2>4. /\ UNCHANGED queue
        /\ \/ update(c, completed) /\ (WorkerGoTo(w, "create") \/ Return(w))
           \/ ~UpdateMatches(c, completed) /\ UNCHANGED rows /\ Throw(w)
    BY <1>13, <2>1 DEF CompleteEvent
  <2> HIDE DEF completed
  <2>5. CASE update(c, completed) /\ (WorkerGoTo(w, "create") \/ Return(w))
    <3>1. rows'[c] = [rows[c] EXCEPT !.status = completed.status, !.target = completed.target,
                 !.local = completed.local, !.retryCount = completed.retryCount,
                 !.version = completed.version]
      BY <1>0, <2>5, Zenon DEF update
    <3>2. rows[c] \in Event
      BY <1>0
    <3>3. rows'[c].status = "COMPLETED"
      BY <2>3, <3>1, <3>2 DEF Event
    <3>4. Carries(w)
      BY <2>0, <2>1, <2>4, <2>5, <3>3, ReturnDrops, GoToCarries DEF WorkerPcs, Past
    <3> QED BY <1>1, <3>4 DEF Handles
  <2>6. CASE ~UpdateMatches(c, completed) /\ UNCHANGED rows /\ Throw(w)
    <3>1. rows[Current(w)].status \in Past
      BY <2>0, <2>1, <2>3, <2>6, CopyInHand
    <3>2. GivesUp(w)
      BY <1>2, <2>0, <2>2, <2>4, <2>6, <3>1 DEF GivesUp
    <3> QED BY <1>1, <3>2 DEF Handles
  <2> QED BY <2>4, <2>5, <2>6
<1>14. CASE CreateNextYear(w)
  <2>0. worker[w].pc = "create"
    BY <1>14 DEF CreateNextYear, CreateFollower
  <2>1. PICK c \in EventIds : c = Current(w)
    BY <2>0, CopyInHand
  <2>2. worker[w].msg \in worker[w].batch /\ worker[w].msg[1] = c
    BY <2>0, <2>1, CopyInHand DEF Current
  <2>3. rows[c].status \in {"COMPLETED", "GONE"}
    BY <2>0, <2>1 DEF ChainInv, CreatingIsLatest, Creating
  <2>4. UNCHANGED queue /\ (Return(w) \/ (Throw(w) /\ UNCHANGED rows))
    BY <1>14 DEF CreateNextYear, CreateFollower
  <2>5. CASE Return(w)
    <3>1. TablesMove
      BY StepMovesTables DEF Next
    <3>2. rows'[c].status \in Past
      BY <2>3, <3>1, RowStays DEF Inv, Past
    <3>3. Carries(w)
      BY <2>0, <2>1, <2>4, <2>5, <3>2, ReturnDrops
    <3> QED BY <1>1, <3>3 DEF Handles
  <2>6. CASE Throw(w) /\ UNCHANGED rows
    <3>1. rows[Current(w)].status \in Past
      BY <2>1, <2>3 DEF Past
    <3>2. GivesUp(w)
      BY <1>2, <2>0, <2>2, <2>4, <2>6, <3>1 DEF GivesUp
    <3> QED BY <1>1, <3>2 DEF Handles
  <2> QED BY <2>4, <2>5, <2>6
<1>15. CASE Finish(w)
  <2>1. Finishes(w)
    BY <1>0, <1>15 DEF Finish, Finishes, databaseVars
  <2> QED BY <1>1, <2>1 DEF Handles
<1> QED
  BY <1>4, <1>5, <1>6, <1>7, <1>8, <1>9, <1>10, <1>11, <1>12, <1>13, <1>14, <1>15
  DEF WorkerRuns, WorkerFails

-----------------------------------------------------------------------------
\* What one step does to a message.
Sent(m) ==
  /\ queue[m].state = "unsent" /\ queue'[m] = [queue[m] EXCEPT !.state = "visible"]
  /\ \E s \in Schedulers : m[1] \in sched[s].todo
  /\ UNCHANGED <<worker, rows>>

Received(m) ==
  /\ queue[m].state = "visible"
  /\ \E w \in Workers :
       /\ Takes(w) /\ worker'[w].batch # {} /\ m \in worker'[w].batch
       /\ queue'[m] = [state |-> "inflight", receives |-> queue[m].receives + 1, holder |-> w]

Reappears(m) ==
  /\ queue[m].state = "inflight" /\ queue'[m] = [queue[m] EXCEPT !.state = "visible"]
  /\ faults.worker' = faults.worker + 1 \/ ~BusyWith(queue[m].holder, m)
  /\ UNCHANGED <<worker, rows>>

DeadLettered(m) ==
  /\ queue[m].state = "visible" /\ queue[m].receives >= MaxReceiveCount
  /\ queue'[m] = [queue[m] EXCEPT !.state = "dead"]
  /\ UNCHANGED <<worker, rows>>

Deleted(m) ==
  /\ \E w \in Workers : Finishes(w) /\ m \in worker[w].batch
  /\ queue'[m].state = "deleted"

MessageMoves(m) ==
  queue'[m] = queue[m] \/ Sent(m) \/ Received(m) \/ Reappears(m) \/ DeadLettered(m) \/ Deleted(m)

BatchMoves(w) ==
  worker'[w] = worker[w] \/ Takes(w) \/ Carries(w) \/ GivesUp(w) \/ Finishes(w)

\* A send fills a slot that was never used and leaves every other message alone.
LEMMA SendFills ==
  ASSUME TypeOK, NEW e \in EventIds, sendMessage(e)
  PROVE  \E c \in Copies :
           /\ queue[<<e, c>>].state = "unsent"
           /\ queue'[<<e, c>>] = [queue[<<e, c>>] EXCEPT !.state = "visible"]
           /\ \A m \in Messages : m # <<e, c>> => queue'[m] = queue[m]
<1>1. PICK c \in Copies : /\ queue[<<e, c>>].state = "unsent"
                          /\ queue' = [queue EXCEPT ![<<e, c>>].state = "visible"]
  BY DEF sendMessage
<1>2. queue \in [Messages -> [state : SlotStates, receives : Nat, holder : Workers \cup {NoWorker}]]
  BY DEF TypeOK, QueueTypeOK
<1>3. PICK i \in Messages : i = <<e, c>>
  BY DEF Messages
<1>4. queue' = [queue EXCEPT ![i].state = "visible"]
  BY <1>1, <1>3
<1>5. queue'[i] = [queue[i] EXCEPT !.state = "visible"] /\ \A m \in Messages : m # i => queue'[m] = queue[m]
  BY <1>2, <1>4
<1> QED BY <1>1, <1>3, <1>5

LEMMA SchedulerSends ==
  ASSUME NEW s \in Schedulers, SchedulerRuns(s) \/ SchedulerFails(s)
  PROVE  /\ UNCHANGED workerVars
         /\ UNCHANGED queue \/ \E e \in sched[s].todo : sendMessage(e) /\ UNCHANGED rows
<1>1. UNCHANGED workerVars
  BY DEF SchedulerRuns, SchedulerFails
<1>2. CASE QueueMissed(s) \/ SendClaimed(s) \/ QueueMissedFails(s) \/ SendFails(s)
  BY <1>1, <1>2 DEF QueueMissed, SendClaimed, QueueMissedFails, SendFails, SendReportsError, NextUp, databaseVars
<1>3. CASE ~(QueueMissed(s) \/ SendClaimed(s) \/ QueueMissedFails(s) \/ SendFails(s))
  BY <1>1, <1>3 DEF SchedulerRuns, SchedulerFails, Invoke, FindMissedEvents, RecoveryDone, SelectForUpdate,
                    MarkProcessing, RecoveryFails, ClaimFails, SchedulerStops
<1> QED BY <1>2, <1>3

LEMMA StepMovesQueue ==
  ASSUME Inv, ChainInv, AllInHand, [Next]_vars
  PROVE  /\ \A m \in Messages : MessageMoves(m)
         /\ \A w \in Workers : BatchMoves(w)
         /\ faults.worker' \in Nat /\ faults.worker \in Nat /\ faults.worker <= faults.worker'
<1>0. /\ faults \in [scheduler : Nat, worker : Nat]
      /\ queue \in [Messages -> [state : SlotStates, receives : Nat, holder : Workers \cup {NoWorker}]]
  BY DEF Inv, TypeOK, PlatformTypeOK, QueueTypeOK
<1>1. CASE \E u \in Users : UserRequest(u)
  <2>1. UNCHANGED <<queue, worker, faults>>
    BY <1>1 DEF UserRequest, workerVars, platformVars, CreateUser, CreateBirthdayEvent, CreateBirthdayEventAt,
                CreateBirthdayEventFails, DeleteUser
  <2> QED BY <1>0, <2>1 DEF MessageMoves, BatchMoves
<1>2. CASE \E s \in Schedulers : SchedulerRuns(s) \/ SchedulerFails(s)
  <2>1. PICK s \in Schedulers : SchedulerRuns(s) \/ SchedulerFails(s)
    BY <1>2
  <2>2. UNCHANGED worker
    BY <2>1, SchedulerSends DEF workerVars
  <2>3. ASSUME NEW m \in Messages PROVE MessageMoves(m)
    <3>1. CASE UNCHANGED queue
      BY <3>1 DEF MessageMoves
    <3>2. CASE ~UNCHANGED queue
      <4>1. PICK e \in sched[s].todo : sendMessage(e) /\ UNCHANGED rows
        BY <2>1, <3>2, SchedulerSends
      <4>2. e \in EventIds
        BY DEF Inv, TypeOK, SchedulerTypeOK
      <4>3. PICK c \in Copies :
           /\ queue[<<e, c>>].state = "unsent"
           /\ queue'[<<e, c>>] = [queue[<<e, c>>] EXCEPT !.state = "visible"]
           /\ \A n \in Messages : n # <<e, c>> => queue'[n] = queue[n]
        BY <4>1, <4>2, SendFills DEF Inv
      <4> QED BY <2>2, <4>1, <4>3 DEF MessageMoves, Sent
    <3> QED BY <3>1, <3>2
  <2>4. UNCHANGED faults \/ SchedulerFault
    BY <2>1 DEF SchedulerRuns, SchedulerFails, platformVars, Invoke, FindMissedEvents, QueueMissed,
       RecoveryDone, SelectForUpdate, MarkProcessing, SendClaimed, QueueMissedFails, RecoveryFails,
       ClaimFails, SendFails, SchedulerStops
  <2>5. faults'.worker = faults.worker
    BY <1>0, <2>4 DEF SchedulerFault
  <2> QED BY <1>0, <2>2, <2>3, <2>5 DEF BatchMoves
<1>3. CASE \E w \in Workers : WorkerRuns(w) \/ WorkerFails(w)
  <2>1. PICK w \in Workers : WorkerRuns(w) \/ WorkerFails(w)
    BY <1>3
  <2>2. Handles(w)
    BY <2>1, WorkerHandles DEF AllInHand
  <2>3. \A v \in Workers : BatchMoves(v)
    BY <2>2 DEF Handles, BatchMoves
  <2>4. UNCHANGED faults \/ WorkerFault
    BY <2>1 DEF WorkerRuns, WorkerFails, platformVars, Receive, SkipRecord, RejectPayload, StartRecord,
       DeliverAccepted, DeliverRejected, RetryDelivery, DeliverFails, MarkFailed, FindUser,
       CompleteEvent, CreateNextYear, CreateFollower, Finish, WorkerStops
  <2>5. faults.worker' \in Nat /\ faults.worker <= faults.worker'
    BY <1>0, <2>4 DEF WorkerFault
  <2>6. ASSUME NEW m \in Messages PROVE MessageMoves(m)
    <3>1. CASE Takes(w)
      <4>1. PICK B \in SUBSET Receivable : B # {} /\ worker'[w].batch = B /\ receiveMessages(w, B)
        BY <3>1 DEF Takes
      <4>2. queue'[m] = IF m \in B
              THEN [state |-> "inflight", receives |-> queue[m].receives + 1, holder |-> w] ELSE queue[m]
        BY <4>1 DEF receiveMessages
      <4> QED BY <3>1, <4>1, <4>2 DEF MessageMoves, Received, Receivable
    <3>2. CASE Carries(w) \/ GivesUp(w)
      BY <3>2 DEF Carries, GivesUp, MessageMoves
    <3>3. CASE Finishes(w)
      <4>1. queue'[m] = queue[m] \/ (m \in worker[w].batch /\ queue'[m] = [queue[m] EXCEPT !.state = "deleted"])
        BY <3>3 DEF Finishes, deleteMessages
      <4>2. queue[m] \in [state : SlotStates, receives : Nat, holder : Workers \cup {NoWorker}]
        BY <1>0
      <4> QED BY <3>3, <4>1, <4>2 DEF MessageMoves, Deleted
    <3> QED BY <2>2, <3>1, <3>2, <3>3 DEF Handles
  <2> QED BY <1>0, <2>3, <2>5, <2>6
<1>4. CASE ClockTicks \/ UNCHANGED vars
  <2>1. UNCHANGED <<queue, worker, faults>>
    BY <1>4 DEF ClockTicks, Tick, vars, workerVars, platformVars
  <2> QED BY <1>0, <2>1 DEF MessageMoves, BatchMoves
<1>5. CASE \E m \in Messages : QueueRuns(m) \/ QueueOvertakes(m)
  <2>1. PICK i \in Messages : QueueRuns(i) \/ QueueOvertakes(i)
    BY <1>5
  <2>2. UNCHANGED <<worker, rows>>
    BY <2>1 DEF QueueRuns, QueueOvertakes, VisibilityTimeout, VisibilityTimeoutEarly, Redrive, workerVars, databaseVars
  <2>3. UNCHANGED faults \/ faults.worker' = faults.worker + 1
    BY <1>0, <2>1 DEF QueueRuns, QueueOvertakes, VisibilityTimeout, VisibilityTimeoutEarly, Redrive, platformVars,
                WorkerFault
  <2>4. Reappears(i) \/ DeadLettered(i)
    BY <1>0, <2>1, <2>2 DEF QueueRuns, QueueOvertakes, VisibilityTimeout, VisibilityTimeoutEarly, Redrive,
       Reappears, DeadLettered, MakeVisible, MoveToDlq, WorkerFault
  <2>5. \A m \in Messages : m # i => queue'[m] = queue[m]
    BY <1>0, <2>1 DEF QueueRuns, QueueOvertakes, VisibilityTimeout, VisibilityTimeoutEarly, Redrive,
       MakeVisible, MoveToDlq
  <2> QED BY <1>0, <2>2, <2>3, <2>4, <2>5 DEF MessageMoves, BatchMoves
<1> QED BY <1>1, <1>2, <1>3, <1>4, <1>5 DEF Next

-----------------------------------------------------------------------------
\* The same in terms of states and counts.
LEMMA MoveStates ==
  ASSUME TypeOK, NEW m \in Messages, MessageMoves(m)
  PROVE  \/ queue'[m] = queue[m]
         \/ Sent(m) /\ queue'[m].state = "visible" /\ queue'[m].receives = queue[m].receives
         \/ Received(m) /\ queue'[m].state = "inflight" /\ queue'[m].receives = queue[m].receives + 1
         \/ Reappears(m) /\ queue'[m].state = "visible" /\ queue'[m].receives = queue[m].receives
         \/ DeadLettered(m) /\ queue'[m].state = "dead" /\ queue'[m].receives = queue[m].receives
         \/ Deleted(m) /\ queue'[m].state = "deleted"
<1>1. queue[m] \in [state : SlotStates, receives : Nat, holder : Workers \cup {NoWorker}]
  BY DEF TypeOK, QueueTypeOK
<1> DEFINE msg(st) == [queue[m] EXCEPT !.state = st]
<1>2. \A st : msg(st).state = st /\ msg(st).receives = queue[m].receives
  BY <1>1
<1>3. /\ Sent(m) => queue'[m] = msg("visible")
      /\ Reappears(m) => queue'[m] = msg("visible")
      /\ DeadLettered(m) => queue'[m] = msg("dead")
  BY DEF Sent, Reappears, DeadLettered
<1> HIDE DEF msg
<1>4. Received(m) => queue'[m].state = "inflight" /\ queue'[m].receives = queue[m].receives + 1
  BY DEF Received
<1>5. Deleted(m) => queue'[m].state = "deleted"
  BY DEF Deleted
<1> QED BY <1>2, <1>3, <1>4, <1>5 DEF MessageMoves

LEMMA OnceSent ==
  ASSUME TypeOK, NEW m \in Messages, MessageMoves(m), queue[m].state # "unsent"
  PROVE  queue'[m].state # "unsent"
  BY MoveStates

LEMMA InHandKept ==
  ASSUME TypeOK, AllInHand, \A m \in Messages : MessageMoves(m), \A w \in Workers : BatchMoves(w)
  PROVE  AllInHand'
<1> SUFFICES ASSUME NEW w \in Workers PROVE InHand(w)'
  BY DEF AllInHand
<1>1. InHand(w) /\ BatchMoves(w)
  BY DEF AllInHand
<1>2. worker[w].batch \in SUBSET Messages
  BY DEF TypeOK, WorkerTypeOK
<1>3. \A m \in worker[w].batch : queue'[m].state # "unsent"
  BY <1>1, <1>2, OnceSent DEF InHand
<1>4. CASE worker'[w] = worker[w]
  BY <1>1, <1>3, <1>4 DEF InHand
<1>5. CASE Takes(w)
  <2>1. PICK B \in SUBSET Receivable :
           worker'[w].pc = "next" /\ worker'[w].batch = B /\ worker'[w].todo = B /\ receiveMessages(w, B)
    BY <1>5 DEF Takes
  <2>2. \A m \in B : queue'[m].state = "inflight"
    BY <2>1 DEF receiveMessages, Receivable
  <2> QED BY <2>1, <2>2 DEF InHand
<1>6. CASE Carries(w)
  BY <1>1, <1>3, <1>6 DEF Carries, InHand
<1>7. CASE GivesUp(w) \/ Finishes(w)
  <2>1. worker'[w].pc = "idle" /\ worker'[w].batch = {} /\ worker'[w].todo = {}
    BY <1>7 DEF GivesUp, Finishes, IdleWorker
  <2> QED BY <2>1 DEF InHand
<1> QED BY <1>1, <1>4, <1>5, <1>6, <1>7 DEF BatchMoves

\* A message nobody is done with stays so, unless its event is settled or erased.
LEMMA UnhandledStays ==
  ASSUME TypeOK, AllInHand, \A m \in Messages : MessageMoves(m), \A w \in Workers : BatchMoves(w),
         NEW m \in Messages, Unhandled(m), rows'[m[1]].status = "PROCESSING"
  PROVE  Unhandled(m)'
<1>2. ~Deleted(m)
  BY DEF Deleted, Finishes, Unhandled
<1>3. MessageMoves(m)
  OBVIOUS
<1>4. queue'[m].state \in {"visible", "inflight", "dead"}
  BY <1>2, <1>3, MoveStates DEF Unhandled
<1>5. ASSUME NEW w \in Workers, m \in worker'[w].batch PROVE m \in worker'[w].todo
  <2>1. BatchMoves(w)
    OBVIOUS
  <2>2. CASE worker'[w] = worker[w]
    BY <1>5, <2>2 DEF Unhandled
  <2>3. CASE Takes(w)
    BY <1>5, <2>3 DEF Takes
  <2>4. CASE Carries(w)
    BY <1>5, <2>4 DEF Carries, Unhandled
  <2>5. CASE GivesUp(w) \/ Finishes(w)
    BY <1>5, <2>5 DEF GivesUp, Finishes, IdleWorker
  <2> QED BY <2>1, <2>2, <2>3, <2>4, <2>5 DEF BatchMoves
<1> QED BY <1>4, <1>5 DEF Unhandled

-----------------------------------------------------------------------------
\* A step that leaves the count of scheduler faults at zero is no fault of a
\* scheduler, and the count was zero.
LEMMA NoSchedulerFault ==
  ASSUME TypeOK, [Next]_vars, faults'.scheduler = 0
  PROVE  faults.scheduler = 0 /\ \A s \in Schedulers : ~SchedulerFails(s)
<1>1. faults \in [scheduler : Nat, worker : Nat]
  BY DEF TypeOK, PlatformTypeOK
<1>2. ASSUME SchedulerFault PROVE FALSE
  BY <1>1, <1>2 DEF SchedulerFault
<1>3. \A s \in Schedulers : ~SchedulerFails(s)
  BY <1>2 DEF SchedulerFails, QueueMissedFails, RecoveryFails, ClaimFails, SendFails, SchedulerStops
<1>4. faults'.scheduler = faults.scheduler
  <2>1. ASSUME UNCHANGED faults \/ WorkerFault PROVE faults'.scheduler = faults.scheduler
    BY <1>1, <2>1 DEF WorkerFault
  <2>2. CASE \E u \in Users : UserRequest(u)
    BY <2>2 DEF UserRequest, platformVars, CreateUser, CreateBirthdayEvent, CreateBirthdayEventAt,
                CreateBirthdayEventFails, DeleteUser
  <2>3. CASE \E s \in Schedulers : SchedulerRuns(s)
    BY <2>3 DEF SchedulerRuns, platformVars, Invoke, FindMissedEvents, QueueMissed,
       RecoveryDone, SelectForUpdate, MarkProcessing, SendClaimed
  <2>4. CASE \E w \in Workers : WorkerRuns(w) \/ WorkerFails(w)
    BY <2>1, <2>4 DEF WorkerRuns, WorkerFails, platformVars, Receive, SkipRecord, RejectPayload, StartRecord,
       DeliverAccepted, DeliverRejected, RetryDelivery, DeliverFails, MarkFailed, FindUser,
       CompleteEvent, CreateNextYear, CreateFollower, Finish, WorkerStops
  <2>5. CASE \E m \in Messages : QueueRuns(m) \/ QueueOvertakes(m)
    BY <2>1, <2>5 DEF QueueRuns, QueueOvertakes, VisibilityTimeout, VisibilityTimeoutEarly, Redrive, platformVars
  <2>6. CASE ClockTicks \/ UNCHANGED vars
    BY <2>6 DEF ClockTicks, Tick, vars, platformVars
  <2> QED BY <1>3, <2>2, <2>3, <2>4, <2>5, <2>6 DEF Next
<1> QED BY <1>3, <1>4

\* Only the claim transaction puts a row into PROCESSING.
LEMMA OnlyClaimed ==
  ASSUME Inv, ChainInv, [Next]_vars, NEW e \in EventIds,
         rows[e].status # "PROCESSING", rows'[e].status = "PROCESSING"
  PROVE  \E s \in Schedulers : MarkProcessing(s) /\ e \in sched[s].todo
<1>1. rows \in [EventIds -> Event]
  BY DEF Inv, TypeOK, DatabaseTypeOK
<1>2. CASE \E s \in Schedulers : MarkProcessing(s)
  BY <1>1, <1>2 DEF MarkProcessing, ToProcessing
<1>3. CASE \A s \in Schedulers : ~MarkProcessing(s)
  <2>1. ASSUME UNCHANGED rows PROVE FALSE
    BY <2>1
  <2>2. ASSUME NEW u \in Users, UserRequest(u) PROVE FALSE
    <3>1. Registers \/ FirstAppears \/ Disappear
      BY <2>2, UserStepMoves
    <3>2. ASSUME FirstAppears PROVE FALSE
      <4>1. PICK u1 \in Users, i \in EventIds, t \in Int :
              /\ rows'[i] = PendingEvent(u1, t, "complete")
              /\ \A f \in EventIds : f # i => rows'[f] = rows[f]
        BY <3>2, FirstFacts
      <4>2. rows'[i].status = "PENDING"
        BY <4>1, NewEvent
      <4> QED BY <4>1, <4>2
    <3>3. ASSUME Disappear PROVE FALSE
      <4>1. rows'[e] = rows[e] \/ rows'[e] = [rows[e] EXCEPT !.status = "GONE"]
        BY <3>3 DEF Disappear, CascadeDelete
      <4>2. rows[e] \in Event
        BY <1>1
      <4> QED BY <4>1, <4>2 DEF Event
    <3> QED BY <2>1, <3>1, <3>2, <3>3 DEF Registers
  <2>3. ASSUME NEW w \in Workers, WorkerRuns(w) \/ WorkerFails(w) PROVE FALSE
    <3>1. WorkerWrites(w)
      BY <2>3, WorkerStepMoves DEF ChainInv
    <3>2. ASSUME NEW status \in Settled, Settles(w, status) PROVE FALSE
      BY <3>2 DEF Settles
    <3>3. ASSUME NextAppears(w) PROVE FALSE
      <4>1. PICK i \in EventIds :
               Appears(i, PendingEvent(worker[w].ev.user, NextYear(worker[w].ev.target), "messageOnly"))
        BY <3>3 DEF NextAppears
      <4>2. PICK ev : ev = PendingEvent(worker[w].ev.user, NextYear(worker[w].ev.target), "messageOnly")
        OBVIOUS
      <4>3. ev.status = "PENDING" /\ rows' = [rows EXCEPT ![i] = ev]
        BY <4>1, <4>2 DEF PendingEvent, Appears
      <4> QED BY <1>1, <4>3
    <3> QED BY <2>1, <3>1, <3>2, <3>3 DEF WorkerWrites, CompletesFor
  <2>4. ASSUME NEW s \in Schedulers, SchedulerRuns(s) \/ SchedulerFails(s) PROVE FALSE
    <3>1. UNCHANGED rows
      BY <1>3, <2>4 DEF SchedulerRuns, SchedulerFails, databaseVars, Invoke, FindMissedEvents, QueueMissed,
         RecoveryDone, SelectForUpdate, SendClaimed, QueueMissedFails, RecoveryFails, ClaimFails,
         SendFails, SchedulerStops
    <3> QED BY <2>1, <3>1
  <2>5. CASE \/ ClockTicks \/ UNCHANGED vars
             \/ \E m \in Messages : QueueRuns(m) \/ QueueOvertakes(m)
    <3>1. UNCHANGED rows
      BY <2>5 DEF ClockTicks, vars, QueueRuns, QueueOvertakes, VisibilityTimeout, VisibilityTimeoutEarly,
                Redrive, databaseVars
    <3> QED BY <2>1, <3>1
  <2> QED BY <2>2, <2>3, <2>4, <2>5 DEF Next
<1> QED BY <1>2, <1>3

\* The claim commits before anything is queued, and the scheduler goes on to send.
LEMMA ClaimedIsSent ==
  ASSUME TypeOK, NEW s \in Schedulers, MarkProcessing(s), NEW e \in sched[s].todo
  PROVE  AboutToBeSent(e)'
<1>1. sched' = [sched EXCEPT ![s].pc = "send"]
  BY DEF MarkProcessing
<1>2. sched'[s].pc = "send" /\ sched'[s].todo = sched[s].todo
  BY <1>1 DEF TypeOK, SchedulerTypeOK
<1> QED BY <1>2 DEF AboutToBeSent

\* What a scheduler still has to send it keeps, until it has queued it.
LEMMA SendStays ==
  ASSUME Inv, AllInHand, [Next]_vars, \A s \in Schedulers : ~SchedulerFails(s),
         NEW e \in EventIds, AboutToBeSent(e)
  PROVE  Tracked(e)'
<1>0. sched \in [Schedulers -> [pc : SchedulerPcs, todo : SUBSET EventIds, warm : BOOLEAN]]
  BY DEF Inv, TypeOK, SchedulerTypeOK
<1>1. PICK s \in Schedulers : sched[s].pc = "send" /\ e \in sched[s].todo
  BY DEF AboutToBeSent
<1>2. CASE sched'[s] = sched[s]
  BY <1>1, <1>2 DEF AboutToBeSent, Tracked
<1>3. CASE sched'[s] # sched[s]
  <2>1. SchedulerRuns(s)
    <3>1. ASSUME NEW t \in Schedulers, t # s, SchedulerRuns(t) PROVE FALSE
      BY <1>0, <1>3, <3>1 DEF SchedulerRuns, Invoke, FindMissedEvents, QueueMissed, RecoveryDone,
         SelectForUpdate, MarkProcessing, SendClaimed, GoTo
    <3>2. ASSUME UNCHANGED sched PROVE FALSE
      BY <1>3, <3>2
    <3>3. ASSUME NEW u \in Users, UserRequest(u) PROVE UNCHANGED sched
      BY <3>3 DEF UserRequest
    <3>4. ASSUME NEW w \in Workers, WorkerRuns(w) \/ WorkerFails(w) PROVE UNCHANGED sched
      BY <3>4 DEF WorkerRuns, WorkerFails
    <3>5. ASSUME NEW m \in Messages, QueueRuns(m) \/ QueueOvertakes(m) PROVE UNCHANGED sched
      BY <3>5 DEF QueueRuns, QueueOvertakes
    <3>6. ASSUME ClockTicks \/ UNCHANGED vars PROVE UNCHANGED sched
      BY <3>6 DEF ClockTicks, vars
    <3> QED BY <3>1, <3>2, <3>3, <3>4, <3>5, <3>6 DEF Next
  <2>2. SendClaimed(s)
    BY <1>1, <2>1 DEF SchedulerRuns, Invoke, FindMissedEvents, QueueMissed, RecoveryDone,
       SelectForUpdate, MarkProcessing
  <2>3. PICK i \in sched[s].todo :
          /\ sendMessage(i)
          /\ GoTo(s, IF sched[s].todo \ {i} = {} THEN "idle" ELSE "send", sched[s].todo \ {i})
    BY <2>2 DEF SendClaimed, NextUp
  <2>4. UNCHANGED worker
    BY <2>1 DEF SchedulerRuns, workerVars
  <2>5. CASE i = e
    <3>1. PICK c \in Copies :
           /\ queue[<<e, c>>].state = "unsent"
           /\ queue'[<<e, c>>] = [queue[<<e, c>>] EXCEPT !.state = "visible"]
      BY <2>3, <2>5, SendFills DEF Inv
    <3>2. PICK m \in Messages : m = <<e, c>>
      BY DEF Messages
    <3>3. queue[m] \in [state : SlotStates, receives : Nat, holder : Workers \cup {NoWorker}]
      BY DEF Inv, TypeOK, QueueTypeOK
    <3>4. queue'[m].state = "visible"
      BY <3>1, <3>2, <3>3
    <3>5. \A w \in Workers : m \notin worker'[w].batch
      BY <2>4, <3>1, <3>2 DEF AllInHand, InHand
    <3>6. Unhandled(m)'
      BY <3>4, <3>5 DEF Unhandled
    <3> QED BY <3>2, <3>6 DEF Tracked
  <2>6. CASE i # e
    <3>1. sched[s].todo \ {i} # {} /\ e \in sched[s].todo \ {i}
      BY <1>1, <2>6
    <3>2. sched'[s] = [sched[s] EXCEPT !.pc = "send", !.todo = sched[s].todo \ {i}]
      BY <1>0, <2>3, <3>1 DEF GoTo
    <3>3. sched'[s].pc = "send" /\ sched'[s].todo = sched[s].todo \ {i}
      BY <1>0, <3>2
    <3> QED BY <3>1, <3>3 DEF AboutToBeSent, Tracked
  <2> QED BY <2>5, <2>6
<1> QED BY <1>2, <1>3

LEMMA TrackedStep ==
  ASSUME Inv, ChainInv, QueueInv, [Next]_vars, faults'.scheduler = 0,
         NEW e \in EventIds, rows'[e].status = "PROCESSING"
  PROVE  Tracked(e)'
<1>1. faults.scheduler = 0 /\ \A s \in Schedulers : ~SchedulerFails(s)
  BY NoSchedulerFault DEF Inv
<1>2. CASE rows[e].status # "PROCESSING"
  BY <1>2, OnlyClaimed, ClaimedIsSent DEF Inv, Tracked
<1>3. CASE rows[e].status = "PROCESSING"
  <2>1. Tracked(e)
    BY <1>1, <1>3 DEF QueueInv
  <2>2. CASE AboutToBeSent(e)
    BY <1>1, <2>2, SendStays DEF QueueInv
  <2>3. ASSUME NEW c \in Copies, Unhandled(<<e, c>>) PROVE Unhandled(<<e, c>>)'
    <3>1. PICK m \in Messages : m = <<e, c>>
      BY DEF Messages
    <3>2. m[1] = e
      BY <3>1
    <3>3. Unhandled(m)'
      BY <2>3, <3>1, <3>2, StepMovesQueue, UnhandledStays DEF Inv, QueueInv
    <3> QED BY <3>1, <3>3
  <2> QED BY <2>1, <2>2, <2>3 DEF Tracked
<1> QED BY <1>2, <1>3

LEMMA QueueInvInit == Init => QueueInv
  BY DEF Init, QueueInv, AllInHand, InHand, WorkerInit, IdleWorker, DatabaseInit, NoEvent

LEMMA QueueInvStep == Inv /\ ChainInv /\ QueueInv /\ [Next]_vars => QueueInv'
<1> SUFFICES ASSUME Inv, ChainInv, QueueInv, [Next]_vars PROVE QueueInv'
  OBVIOUS
<1>1. AllInHand'
  BY StepMovesQueue, InHandKept DEF Inv, QueueInv
<1>2. faults'.scheduler = 0 => \A e \in EventIds : rows'[e].status = "PROCESSING" => Tracked(e)'
  BY TrackedStep
<1> QED BY <1>1, <1>2 DEF QueueInv

LEMMA QueueInvariance == Spec => [](Inv /\ ChainInv /\ QueueInv)
<1>1. Init => QueueInv
  BY QueueInvInit
<1>2. Inv /\ ChainInv /\ QueueInv /\ [Next]_vars => QueueInv'
  BY QueueInvStep
<1> QED BY <1>1, <1>2, ChainInvariance, PTL DEF Spec

\* As long as no scheduler has failed, a claimed event is about to be queued or has a
\* message that was not consumed: a claim without its message is always the trace
\* of a scheduler that stopped between the two.
THEOREM NothingClaimedIsForgotten == Spec => [](faults.scheduler = 0 => ClaimedIsTracked)
<1>1. QueueInv => (faults.scheduler = 0 => ClaimedIsTracked)
  BY DEF QueueInv, ClaimedIsTracked, Tracked, AboutToBeSent, Unhandled
<1> QED BY <1>1, QueueInvariance, PTL

-----------------------------------------------------------------------------
(***************************************************************************)
(* The redrive policy counts receives, whatever they were for.  With one   *)
(* message per invocation every receive of a deliverable event is used, or *)
(* paid for by a fault of a worker.                                        *)
(***************************************************************************)
\* Only events that exist are about to be queued, or are queued.
OnlyEventsAreQueued ==
  /\ \A s \in Schedulers : \A e \in sched[s].todo : rows[e].status # "NONE"
  /\ \A m \in Messages :
       /\ queue[m].state = "unsent" => queue[m].receives = 0
       /\ queue[m].state # "unsent" => rows[m[1]].status # "NONE"

OneAtATime == \A w \in Workers : \A m, n \in worker[w].batch : m = n

\* Each receive but the one in progress was ended by a fault.
ReceivesAccounted(m) ==
  /\ queue[m].state = "visible" => queue[m].receives <= faults.worker
  /\ queue[m].state = "inflight" =>
       queue[m].receives <= faults.worker + (IF BusyWith(queue[m].holder, m) THEN 1 ELSE 0)
  /\ queue[m].state = "dead" =>
       MaxReceiveCount <= queue[m].receives /\ queue[m].receives <= faults.worker

ReceiveInv ==
  /\ OnlyEventsAreQueued
  /\ OneAtATime
  /\ \A m \in Messages : Deliverable(m[1]) => ReceivesAccounted(m)

\* A scheduler takes on only events that it read.
LEMMA TakenOn ==
  ASSUME TypeOK, [Next]_vars, NEW s \in Schedulers, NEW e \in sched'[s].todo
  PROVE  e \in EventIds /\ (e \in sched[s].todo \/ rows[e].status # "NONE")
<1>0. sched \in [Schedulers -> [pc : SchedulerPcs, todo : SUBSET EventIds, warm : BOOLEAN]]
  BY DEF TypeOK, SchedulerTypeOK
<1>1. sched' \in [Schedulers -> [pc : SchedulerPcs, todo : SUBSET EventIds, warm : BOOLEAN]]
  BY StepTypeOK DEF TypeOK, SchedulerTypeOK
<1>2. e \in EventIds
  BY <1>1
<1>3. CASE UNCHANGED sched
  BY <1>2, <1>3
<1>4. ASSUME NEW t \in Schedulers, SchedulerRuns(t) \/ SchedulerFails(t)
      PROVE  e \in sched[s].todo \/ rows[e].status # "NONE"
  <2>1. ASSUME NEW pc, NEW T \in SUBSET EventIds, GoTo(t, pc, T),
               \A f \in T : f \in sched[t].todo \/ rows[f].status # "NONE"
        PROVE  e \in sched[s].todo \/ rows[e].status # "NONE"
    <3>1. \A r \in Schedulers : sched'[r].todo = IF r = t THEN T ELSE sched[r].todo
      BY <1>0, <2>1 DEF GoTo
    <3> QED BY <2>1, <3>1
  <2>2. CASE Invoke(t) \/ ClaimFails(t) \/ SendFails(t)
    BY <2>1, <2>2 DEF Invoke, ClaimFails, SendFails
  <2>3. CASE QueueMissed(t) \/ QueueMissedFails(t) \/ SendClaimed(t)
    <3>1. \E i \in sched[t].todo, pc \in SchedulerPcs : GoTo(t, pc, sched[t].todo \ {i})
      BY <2>3 DEF QueueMissed, QueueMissedFails, SendClaimed, NextUp, SchedulerPcs
    <3>2. sched[t].todo \subseteq EventIds
      BY <1>0
    <3> QED BY <2>1, <3>1, <3>2
  <2>4. CASE FindMissedEvents(t)
    <3>1. PICK B \in EarliestFirst(MissedEvents, RecoveryLimit) : GoTo(t, "queueMissed", B)
      BY <2>4 DEF FindMissedEvents
    <3>2. B \subseteq MissedEvents
      BY <3>1 DEF EarliestFirst
    <3> QED BY <2>1, <3>1, <3>2 DEF MissedEvents
  <2>5. CASE SelectForUpdate(t)
    <3>1. PICK B \in EarliestFirst(ReadyEvents \ locked, ClaimLimit) :
             GoTo(t, IF B = {} THEN "idle" ELSE "mark", B)
      BY <2>5 DEF SelectForUpdate
    <3>2. B \subseteq ReadyEvents
      BY <3>1 DEF EarliestFirst
    <3> QED BY <2>1, <3>1, <3>2 DEF ReadyEvents
  <2>6. CASE RecoveryDone(t) \/ RecoveryFails(t) \/ MarkProcessing(t)
    <3>1. sched'[s].todo = sched[s].todo
      <4>1. CASE MarkProcessing(t)
        BY <1>0, <4>1 DEF MarkProcessing
      <4>2. CASE RecoveryDone(t) \/ RecoveryFails(t)
        <5>1. sched' = [sched EXCEPT ![t] = [sched[t] EXCEPT !.pc = "claim", !.warm = TRUE]]
          BY <4>2 DEF RecoveryDone, RecoveryFails
        <5>2. sched'[s] = IF s = t THEN [sched[t] EXCEPT !.pc = "claim", !.warm = TRUE] ELSE sched[s]
          BY <1>0, <5>1
        <5>3. sched[t] \in [pc : SchedulerPcs, todo : SUBSET EventIds, warm : BOOLEAN]
          BY <1>0
        <5> QED BY <5>2, <5>3
      <4> QED BY <2>6, <4>1, <4>2
    <3> QED BY <3>1
  <2>7. CASE SchedulerStops(t)
    <3>1. sched'[s].todo = IF s = t THEN {} ELSE sched[s].todo
      BY <1>0, <2>7 DEF SchedulerStops
    <3> QED BY <3>1
  <2> QED BY <1>4, <2>2, <2>3, <2>4, <2>5, <2>6, <2>7 DEF SchedulerRuns, SchedulerFails
<1>5. (\E t \in Schedulers : SchedulerRuns(t) \/ SchedulerFails(t)) \/ UNCHANGED sched
  BY DEF Next, UserRequest, WorkerRuns, WorkerFails, QueueRuns, QueueOvertakes, ClockTicks, vars
<1> QED BY <1>2, <1>3, <1>4, <1>5

LEMMA OnlyEventsKept ==
  ASSUME Inv, ChainInv, QueueInv, OnlyEventsAreQueued, [Next]_vars
  PROVE  OnlyEventsAreQueued'
<1>1. TablesMove /\ \A m \in Messages : MessageMoves(m)
  BY StepMovesTables, StepMovesQueue DEF QueueInv
<1>2. ASSUME NEW e \in EventIds, rows[e].status # "NONE" PROVE rows'[e].status # "NONE"
  BY <1>1, <1>2, RowStays DEF Inv
<1>3. ASSUME NEW s \in Schedulers, NEW e \in sched'[s].todo PROVE rows'[e].status # "NONE"
  BY <1>2, <1>3, TakenOn DEF Inv, OnlyEventsAreQueued
<1>4. ASSUME NEW m \in Messages
      PROVE  /\ queue'[m].state = "unsent" => queue'[m].receives = 0
             /\ queue'[m].state # "unsent" => rows'[m[1]].status # "NONE"
  <2>1. m[1] \in EventIds
    BY DEF Messages
  <2>2. CASE queue[m].state = "unsent"
    <3>1. queue'[m] = queue[m] \/ (Sent(m) /\ queue'[m].state = "visible") \/ Deleted(m)
      BY <1>1, <2>2, MoveStates DEF Inv, Received, Reappears, DeadLettered
    <3>2. ~Deleted(m)
      BY <2>2 DEF Deleted, QueueInv, AllInHand, InHand
    <3>3. Sent(m) => rows[m[1]].status # "NONE"
      BY DEF Sent, OnlyEventsAreQueued
    <3> QED BY <1>2, <2>1, <2>2, <3>1, <3>2, <3>3 DEF OnlyEventsAreQueued
  <2>3. CASE queue[m].state # "unsent"
    BY <1>1, <1>2, <2>1, <2>3, OnceSent DEF Inv, OnlyEventsAreQueued
  <2> QED BY <2>2, <2>3
<1> QED BY <1>3, <1>4 DEF OnlyEventsAreQueued

LEMMA OneAtATimeKept ==
  ASSUME BatchSize = 1, IsFiniteSet(Copies),
         OneAtATime, \A w \in Workers : BatchMoves(w)
  PROVE  OneAtATime'
<1> SUFFICES ASSUME NEW w \in Workers, NEW m \in worker'[w].batch, NEW n \in worker'[w].batch
             PROVE  m = n
  BY DEF OneAtATime
<1>1. BatchMoves(w)
  OBVIOUS
<1>2. CASE Takes(w)
  <2>1. PICK B \in SUBSET Receivable : Cardinality(B) <= 1 /\ worker'[w].batch = B
    BY <1>2 DEF Takes
  <2>2. IsFiniteSet(B)
    <3>1. IsFiniteSet(EventIds)
      BY FS_Interval, MaxEventsAssumption DEF EventIds
    <3>2. IsFiniteSet(EventIds \X Copies)
      BY <3>1, FS_Product
    <3> QED BY <3>2, FS_Subset DEF Receivable, Messages
  <2>3. IsFiniteSet({m, n}) /\ Cardinality({m, n}) <= Cardinality(B)
    BY <2>1, <2>2, FS_Subset
  <2>4. m # n => Cardinality({m, n}) = 2
    <3>1. ASSUME m # n PROVE Cardinality({m} \cup {n}) = 2
      <4>1. IsFiniteSet({m}) /\ Cardinality({m}) = 1
        BY FS_Singleton
      <4>2. Cardinality({m} \cup {n}) = Cardinality({m}) + 1
        BY <3>1, <4>1, FS_AddElement
      <4> QED BY <4>1, <4>2
    <3>2. {m} \cup {n} = {m, n}
      OBVIOUS
    <3> QED BY <3>1, <3>2
  <2>5. Cardinality(B) \in Nat
    BY <2>2, FS_CardinalityType
  <2> QED BY <2>1, <2>3, <2>4, <2>5
<1>3. CASE worker'[w] = worker[w] \/ Carries(w)
  BY <1>3 DEF OneAtATime, Carries
<1>4. CASE GivesUp(w) \/ Finishes(w)
  BY <1>4 DEF GivesUp, Finishes, IdleWorker
<1> QED BY <1>1, <1>2, <1>3, <1>4 DEF BatchMoves

\* Who holds a message of a deliverable event stays busy with it, deletes it, or
\* meets a fault.
LEMMA HolderGoesOn ==
  ASSUME TypeOK, OneAtATime, NEW m \in Messages, Deliverable(m[1]),
         queue[m].state = "inflight", NEW h \in Workers, queue[m].holder = h, BusyWith(h, m),
         BatchMoves(h)
  PROVE  BusyWith(h, m)' \/ faults.worker' = faults.worker + 1 \/ queue'[m].state = "deleted"
<1>1. worker[h].pc # "idle" /\ m \in worker[h].batch
  BY DEF BusyWith
<1>2. CASE worker'[h] = worker[h]
  BY <1>1, <1>2 DEF BusyWith
<1>3. CASE Takes(h)
  BY <1>1, <1>3 DEF Takes
<1>4. CASE Carries(h)
  BY <1>1, <1>4 DEF Carries, BusyWith
<1>5. CASE GivesUp(h)
  <2>1. ASSUME worker[h].msg \in worker[h].batch, rows[Current(h)].status \in Past PROVE FALSE
    <3>1. worker[h].msg = m
      BY <1>1, <2>1 DEF OneAtATime
    <3> QED BY <2>1, <3>1 DEF Current, Past, Deliverable, Open
  <2> QED BY <1>1, <1>5, <2>1 DEF GivesUp, OneAtATime
<1>6. CASE Finishes(h)
  <2>1. queue'[m] = [queue[m] EXCEPT !.state = "deleted"]
    BY <1>1, <1>6 DEF Finishes, deleteMessages
  <2>2. queue[m] \in [state : SlotStates, receives : Nat, holder : Workers \cup {NoWorker}]
    BY DEF TypeOK, QueueTypeOK
  <2> QED BY <2>1, <2>2
<1> QED BY <1>2, <1>3, <1>4, <1>5, <1>6 DEF BatchMoves

LEMMA AccountedKept ==
  ASSUME Inv, ChainInv, QueueInv, ReceiveInv, [Next]_vars, NEW m \in Messages, Deliverable(m[1])'
  PROVE  ReceivesAccounted(m)'
<1>1. /\ TablesMove /\ MessageMoves(m) /\ \A w \in Workers : BatchMoves(w)
      /\ faults.worker' \in Nat /\ faults.worker \in Nat /\ faults.worker <= faults.worker'
  BY StepMovesTables, StepMovesQueue DEF QueueInv
<1>2. m[1] \in EventIds /\ queue[m].receives \in Nat
  BY DEF Messages, Inv, TypeOK, QueueTypeOK
<1>3. CASE rows[m[1]].status = "NONE"
  <2>1. queue[m].state = "unsent"
    BY <1>3 DEF ReceiveInv, OnlyEventsAreQueued
  <2>2. ~Sent(m) /\ ~Deleted(m)
    BY <1>3, <2>1 DEF Sent, Deleted, ReceiveInv, OnlyEventsAreQueued, QueueInv, AllInHand, InHand
  <2>3. queue'[m] = queue[m]
    BY <1>1, <2>1, <2>2, MoveStates DEF Inv, Received, Reappears, DeadLettered
  <2> QED BY <2>1, <2>3 DEF ReceivesAccounted
<1>4. CASE rows[m[1]].status # "NONE"
  <2>1. Deliverable(m[1])
    <3>1. Open(m[1])' /\ WebhookPayloadValid(rows'[m[1]].payload)
      BY DEF Deliverable
    <3>2. Open(m[1]) /\ rows'[m[1]].payload = rows[m[1]].payload
      BY <1>1, <1>2, <1>4, <3>1, RowStays DEF Inv
    <3> QED BY <3>1, <3>2 DEF Deliverable
  <2>2. ReceivesAccounted(m) /\ OneAtATime
    BY <2>1 DEF ReceiveInv
  <2>3. CASE queue'[m] = queue[m]
    <3>1. CASE queue[m].state = "inflight"
      <4>1. CASE BusyWith(queue[m].holder, m)
        <5>1. queue[m].holder \in Workers
          BY <4>1 DEF BusyWith
        <5>2. PICK h \in Workers : h = queue[m].holder
          BY <5>1
        <5>3. BusyWith(h, m)' \/ faults.worker' = faults.worker + 1
          BY <1>1, <2>1, <2>2, <2>3, <3>1, <4>1, <5>2, HolderGoesOn DEF Inv
        <5>4. queue[m].receives <= faults.worker + 1
          BY <2>2, <3>1, <4>1 DEF ReceivesAccounted
        <5>5. BusyWith(h, m)' => BusyWith(queue[m].holder, m)'
          BY <2>3, <5>2 DEF BusyWith
        <5> QED BY <1>1, <1>2, <2>3, <3>1, <5>3, <5>4, <5>5 DEF ReceivesAccounted
      <4>2. CASE ~BusyWith(queue[m].holder, m)
        BY <1>1, <1>2, <2>2, <2>3, <3>1, <4>2 DEF ReceivesAccounted
      <4> QED BY <4>1, <4>2
    <3>2. CASE queue[m].state # "inflight"
      BY <1>1, <1>2, <2>2, <2>3, <3>2, QueueAssumption DEF ReceivesAccounted
    <3> QED BY <3>1, <3>2
  <2>4. CASE Sent(m) /\ queue'[m].state = "visible" /\ queue'[m].receives = queue[m].receives
    <3>1. queue[m].receives = 0
      BY <2>4 DEF Sent, ReceiveInv, OnlyEventsAreQueued
    <3> QED BY <1>1, <2>4, <3>1 DEF ReceivesAccounted
  <2>5. CASE Received(m) /\ queue'[m].state = "inflight" /\ queue'[m].receives = queue[m].receives + 1
    <3>1. PICK w \in Workers :
             /\ Takes(w) /\ m \in worker'[w].batch
             /\ queue'[m] = [state |-> "inflight", receives |-> queue[m].receives + 1, holder |-> w]
      BY <2>5 DEF Received
    <3>2. worker'[w].pc = "next" /\ queue'[m].holder = w
      BY <3>1 DEF Takes
    <3>3. BusyWith(queue[m].holder, m)'
      BY <3>1, <3>2 DEF BusyWith
    <3>4. queue[m].receives <= faults.worker
      BY <2>2, <2>5 DEF Received, ReceivesAccounted
    <3> QED BY <1>1, <1>2, <2>5, <3>3, <3>4 DEF ReceivesAccounted
  <2>6. CASE Reappears(m) /\ queue'[m].state = "visible" /\ queue'[m].receives = queue[m].receives
    <3>1. queue[m].receives <= faults.worker'
      BY <1>1, <1>2, <2>2, <2>6 DEF Reappears, ReceivesAccounted
    <3> QED BY <2>6, <3>1 DEF ReceivesAccounted
  <2>7. CASE DeadLettered(m) /\ queue'[m].state = "dead" /\ queue'[m].receives = queue[m].receives
    <3>1. MaxReceiveCount <= queue[m].receives /\ queue[m].receives <= faults.worker'
      BY <1>1, <1>2, <2>2, <2>7, QueueAssumption DEF DeadLettered, ReceivesAccounted
    <3> QED BY <2>7, <3>1 DEF ReceivesAccounted
  <2>8. CASE Deleted(m) /\ queue'[m].state = "deleted"
    BY <2>8 DEF ReceivesAccounted
  <2> QED BY <1>1, <2>3, <2>4, <2>5, <2>6, <2>7, <2>8, MoveStates DEF Inv
<1> QED BY <1>3, <1>4

LEMMA ReceiveInvInit == Init => ReceiveInv
<1> SUFFICES ASSUME Init PROVE ReceiveInv
  OBVIOUS
<1>1. OnlyEventsAreQueued
  BY DEF Init, SchedulerInit, QueueInit, OnlyEventsAreQueued
<1>2. OneAtATime
  BY DEF Init, WorkerInit, IdleWorker, OneAtATime
<1>3. \A m \in Messages : queue[m].state = "unsent"
  BY DEF Init, QueueInit
<1> QED BY <1>1, <1>2, <1>3 DEF ReceiveInv, ReceivesAccounted

LEMMA ReceiveInvariance ==
  ASSUME BatchSize = 1, IsFiniteSet(Copies)
  PROVE  Spec => [](Inv /\ ReceiveInv)
<1>1. Init => ReceiveInv
  BY ReceiveInvInit
<1>2. (Inv /\ ChainInv /\ QueueInv) /\ ReceiveInv /\ [Next]_vars => ReceiveInv'
  <2> SUFFICES ASSUME Inv, ChainInv, QueueInv, ReceiveInv, [Next]_vars PROVE ReceiveInv'
    OBVIOUS
  <2>1. OnlyEventsAreQueued' /\ OneAtATime'
    BY OnlyEventsKept, OneAtATimeKept, StepMovesQueue DEF ReceiveInv, QueueInv
  <2>2. \A m \in Messages : Deliverable(m[1])' => ReceivesAccounted(m)'
    BY AccountedKept
  <2> QED BY <2>1, <2>2 DEF ReceiveInv
<1> QED BY <1>1, <1>2, QueueInvariance, PTL DEF Spec

\* With one message per invocation, as long as workers have failed less often than a
\* message may be received, what ends in the dead letter queue unsettled could not be
\* delivered: its payload is not one the worker accepts.
THEOREM DeliverableIsNotGivenUp ==
  ASSUME BatchSize = 1, IsFiniteSet(Copies)
  PROVE  Spec => [](faults.worker < MaxReceiveCount => NoDeliverableIsDead)
<1>1. Inv /\ ReceiveInv => (faults.worker < MaxReceiveCount => NoDeliverableIsDead)
  <2> SUFFICES ASSUME Inv, ReceiveInv, faults.worker < MaxReceiveCount,
                      NEW m \in Messages, queue[m].state = "dead", rows[m[1]].status = "PROCESSING",
                      WebhookPayloadValid(rows[m[1]].payload)
               PROVE  FALSE
    BY DEF NoDeliverableIsDead
  <2>1. MaxReceiveCount <= queue[m].receives /\ queue[m].receives <= faults.worker
    BY DEF ReceiveInv, Deliverable, Open, ReceivesAccounted
  <2>2. MaxReceiveCount \in Nat /\ queue[m].receives \in Nat /\ faults.worker \in Nat
    BY QueueAssumption DEF Inv, TypeOK, QueueTypeOK, PlatformTypeOK
  <2> QED BY <2>1, <2>2
<1> QED BY <1>1, ReceiveInvariance, PTL

-----------------------------------------------------------------------------
(***************************************************************************)
(* Why the receiver may accept an event again.  A token stands for one     *)
(* acceptance that is still to come: from a message that waits, or from an *)
(* invocation that has it.  Queueing an event makes a token, a fault may   *)
(* make one, and nothing else does: when an invocation gives up its batch  *)
(* without a fault, its tokens go back to the messages.                    *)
(***************************************************************************)
Holders == Workers \cup {NoWorker}

MayAccept(e, x, c) ==
  \/ /\ x = NoWorker /\ rows[e].status \notin Past
     /\ \/ queue[<<e, c>>].state = "visible"
        \/ queue[<<e, c>>].state = "inflight" /\ ~BusyWith(queue[<<e, c>>].holder, <<e, c>>)
  \/ /\ x \in Workers /\ <<e, c>> \in worker[x].batch
     /\ IF worker[x].pc # "next" /\ worker[x].msg = <<e, c>>
        THEN worker[x].pc = "deliver"
        ELSE rows[e].status \notin Past

Tokens(e) == {t \in Holders \X Copies : MayAccept(e, t[1], t[2])}

SentCopies(e) == {c \in Copies : queue[<<e, c>>].state # "unsent"}

AcceptInv ==
  \A e \in EventIds :
    accepted[e] + Cardinality(Tokens(e)) <= Cardinality(SentCopies(e)) + faults.worker

\* Finite sets: a set that trades some members of another for different ones is not larger.
LEMMA Exchange ==
  ASSUME NEW K, IsFiniteSet(K), NEW L, NEW x, NEW y,
         \A t \in L \ K : \E c : t = <<x, c>> /\ <<y, c>> \in K /\ <<y, c>> \notin L
  PROVE  IsFiniteSet(L) /\ Cardinality(L) <= Cardinality(K)
<1> DEFINE g == [t \in L |-> IF t \in K THEN t ELSE <<y, t[2]>>]
<1>1. ASSUME NEW t \in L, t \notin K
      PROVE  t = <<x, t[2]>> /\ <<y, t[2]>> \in K /\ <<y, t[2]>> \notin L
  <2>1. PICK c : t = <<x, c>> /\ <<y, c>> \in K /\ <<y, c>> \notin L
    BY <1>1
  <2>2. t[2] = c
    BY <2>1
  <2> QED BY <2>1, <2>2
<1>2. g \in [L -> K]
  BY <1>1
<1>3. ASSUME NEW s \in L, NEW t \in L, g[s] = g[t] PROVE s = t
  <2>1. CASE s \in K /\ t \in K
    BY <1>3, <2>1
  <2>2. CASE s \in K /\ t \notin K
    BY <1>1, <1>3, <2>2
  <2>3. CASE s \notin K /\ t \in K
    BY <1>1, <1>3, <2>3
  <2>4. CASE s \notin K /\ t \notin K
    <3>1. <<y, s[2]>> = <<y, t[2]>>
      BY <1>3, <2>4
    <3> QED BY <1>1, <2>4, <3>1
  <2> QED BY <2>1, <2>2, <2>3, <2>4
<1> HIDE DEF g
<1>4. g \in Injection(L, K)
  BY <1>2, <1>3, Fun_IsInj
<1> QED BY <1>4, FS_Injection

\* One element less.
LEMMA OneLess ==
  ASSUME NEW K, IsFiniteSet(K), NEW x \in K, NEW L, L \subseteq K, x \notin L
  PROVE  Cardinality(L) \in Nat /\ Cardinality(L) + 1 <= Cardinality(K)
<1>1. IsFiniteSet(L) /\ Cardinality(L) \in Nat
  BY FS_Subset, FS_CardinalityType
<1>2. Cardinality(L \cup {x}) = Cardinality(L) + 1
  BY <1>1, FS_AddElement
<1>3. Cardinality(L \cup {x}) <= Cardinality(K)
  BY FS_Subset
<1> QED BY <1>1, <1>2, <1>3

LEMMA Finite ==
  ASSUME IsFiniteSet(Workers), IsFiniteSet(Copies), NEW e \in EventIds
  PROVE  /\ IsFiniteSet(Tokens(e)) /\ Cardinality(Tokens(e)) \in Nat
         /\ IsFiniteSet(Tokens(e)') /\ Cardinality(Tokens(e)') \in Nat
         /\ IsFiniteSet(SentCopies(e)) /\ Cardinality(SentCopies(e)) \in Nat
         /\ IsFiniteSet(SentCopies(e)') /\ Cardinality(SentCopies(e)') \in Nat
<1>1. IsFiniteSet(Holders)
  BY FS_AddElement DEF Holders
<1>2. IsFiniteSet(Holders \X Copies)
  BY <1>1, FS_Product
<1>3. Tokens(e) \in SUBSET (Holders \X Copies) /\ Tokens(e)' \in SUBSET (Holders \X Copies)
  BY DEF Tokens
<1>4. SentCopies(e) \in SUBSET Copies /\ SentCopies(e)' \in SUBSET Copies
  BY DEF SentCopies
<1>5. IsFiniteSet(Tokens(e)) /\ IsFiniteSet(Tokens(e)')
  BY <1>2, <1>3, FS_Subset
<1>6. IsFiniteSet(SentCopies(e)) /\ IsFiniteSet(SentCopies(e)')
  BY <1>4, FS_Subset
<1> QED BY <1>5, <1>6, FS_CardinalityType

LEMMA PastStays ==
  ASSUME Inv, TablesMove, NEW e \in EventIds, rows[e].status \in Past
  PROVE  rows'[e].status \in Past
<1>1. rows[e] \in Event /\ rows[e].status # "NONE"
  BY DEF Inv, TypeOK, DatabaseTypeOK, Past
<1>2. CASE RowsKept
  BY <1>2 DEF RowsKept, RowKept, Past
<1>3. CASE Registers
  BY <1>3 DEF Registers
<1>4. CASE FirstAppears \/ \E w \in Workers : NextAppears(w)
  <2>1. rows \in [EventIds -> Event]
    BY DEF Inv, TypeOK, DatabaseTypeOK
  <2>2. rows'[e] = rows[e]
    BY <1>1, <1>4, <2>1 DEF FirstAppears, NextAppears, Appears
  <2> QED BY <2>2
<1>5. CASE Disappear
  <2>1. rows'[e] = rows[e] \/ rows'[e] = [rows[e] EXCEPT !.status = "GONE"]
    BY <1>5 DEF Disappear, CascadeDelete
  <2>2. [rows[e] EXCEPT !.status = "GONE"].status = "GONE"
    BY <1>1 DEF Event
  <2> QED BY <2>1, <2>2 DEF Past
<1> QED BY <1>2, <1>3, <1>4, <1>5 DEF TablesMove

\* A set of tokens grows only by what may accept now and could not before.
LEMMA TokensGrow ==
  ASSUME NEW e \in EventIds, NEW t \in Tokens(e)' \ Tokens(e)
  PROVE  \E x \in Holders, c \in Copies : t = <<x, c>> /\ MayAccept(e, x, c)' /\ ~MayAccept(e, x, c)
  BY DEF Tokens

LEMMA SentStay ==
  ASSUME Inv, ChainInv, AllInHand, [Next]_vars, IsFiniteSet(Workers), IsFiniteSet(Copies),
         NEW e \in EventIds
  PROVE  Cardinality(SentCopies(e)) <= Cardinality(SentCopies(e)')
<1>1. ASSUME NEW c \in Copies, queue[<<e, c>>].state # "unsent" PROVE queue'[<<e, c>>].state # "unsent"
  <2>1. PICK m \in Messages : m = <<e, c>>
    BY DEF Messages
  <2> QED BY <1>1, <2>1, StepMovesQueue, OnceSent DEF Inv
<1>2. SentCopies(e) \in SUBSET (SentCopies(e)')
  BY <1>1 DEF SentCopies
<1> QED BY <1>2, Finite, FS_Subset

-----------------------------------------------------------------------------
\* No acceptance and no new token.
LEMMA QuietStep ==
  ASSUME Inv, ChainInv, AllInHand, AcceptInv, [Next]_vars, IsFiniteSet(Workers), IsFiniteSet(Copies),
         NEW e \in EventIds,
         Cardinality(Tokens(e)') <= Cardinality(Tokens(e)), accepted'[e] = accepted[e]
  PROVE  accepted'[e] + Cardinality(Tokens(e)') <= Cardinality(SentCopies(e)') + faults.worker'
<1>1. accepted[e] \in Nat /\ faults.worker \in Nat /\ faults.worker' \in Nat /\ faults.worker <= faults.worker'
  BY StepMovesQueue DEF Inv, TypeOK, WorkerTypeOK
<1>2. accepted[e] + Cardinality(Tokens(e)) <= Cardinality(SentCopies(e)) + faults.worker
  BY DEF AcceptInv
<1>3. Cardinality(SentCopies(e)) <= Cardinality(SentCopies(e)')
  BY SentStay
<1> QED BY <1>1, <1>2, <1>3, Finite

\* Whatever writes only the tables makes no token.
LEMMA TablesMakeNoToken ==
  ASSUME Inv, TablesMove, UNCHANGED <<queue, worker>>, NEW e \in EventIds
  PROVE  Tokens(e)' \subseteq Tokens(e)
<1>1. rows[e].status \in Past => rows'[e].status \in Past
  BY PastStays
<1>2. ASSUME NEW x \in Holders, NEW c \in Copies, MayAccept(e, x, c)' PROVE MayAccept(e, x, c)
  BY <1>1, <1>2 DEF MayAccept, BusyWith
<1> QED BY <1>2, TokensGrow

\* A send makes one token, for the copy that it fills.
LEMMA SendMakesOne ==
  ASSUME Inv, NEW i \in EventIds, sendMessage(i), UNCHANGED <<worker, rows, accepted>>, faults'.worker = faults.worker,
         AcceptInv, IsFiniteSet(Workers), IsFiniteSet(Copies), NEW e \in EventIds
  PROVE  accepted'[e] + Cardinality(Tokens(e)') <= Cardinality(SentCopies(e)') + faults.worker'
<1>1. PICK d \in Copies :
           /\ queue[<<i, d>>].state = "unsent"
           /\ queue'[<<i, d>>] = [queue[<<i, d>>] EXCEPT !.state = "visible"]
           /\ \A m \in Messages : m # <<i, d>> => queue'[m] = queue[m]
  BY SendFills DEF Inv
<1>2. accepted[e] \in Nat /\ faults.worker \in Nat
      /\ accepted[e] + Cardinality(Tokens(e)) <= Cardinality(SentCopies(e)) + faults.worker
  BY DEF AcceptInv, Inv, TypeOK, WorkerTypeOK, PlatformTypeOK
<1>3. \A c \in Copies : <<e, c>> \in Messages
  BY DEF Messages
<1>4. CASE i = e
  <2>1. Tokens(e)' \subseteq Tokens(e) \cup {<<NoWorker, d>>}
    <3>1. ASSUME NEW x \in Holders, NEW c \in Copies, MayAccept(e, x, c)', ~MayAccept(e, x, c)
          PROVE  <<x, c>> = <<NoWorker, d>>
      <4>1. CASE c = d
        BY <3>1, <4>1 DEF MayAccept, BusyWith
      <4>2. CASE c # d
        <5>1. queue'[<<e, c>>] = queue[<<e, c>>]
          BY <1>1, <1>3, <4>2
        <5> QED BY <3>1, <5>1 DEF MayAccept, BusyWith
      <4> QED BY <4>1, <4>2
    <3> QED BY <3>1, TokensGrow
  <2>2. Cardinality(Tokens(e)') <= Cardinality(Tokens(e)) + 1
    BY <2>1, Finite, OneMore
  <2>3. Cardinality(SentCopies(e)) + 1 <= Cardinality(SentCopies(e)')
    <3>1. SentCopies(e) \subseteq SentCopies(e)'
      <4>1. ASSUME NEW c \in SentCopies(e) PROVE c \in SentCopies(e)'
        <5>1. c # d
          BY <1>1, <1>4, <4>1 DEF SentCopies
        <5>2. queue'[<<e, c>>] = queue[<<e, c>>]
          BY <1>1, <1>3, <5>1 DEF SentCopies
        <5> QED BY <5>2 DEF SentCopies
      <4> QED BY <4>1
    <3>2. d \notin SentCopies(e) /\ d \in SentCopies(e)'
      <4>1. PICK m \in Messages : m = <<e, d>>
        BY <1>3
      <4>2. queue[m] \in [state : SlotStates, receives : Nat, holder : Workers \cup {NoWorker}]
        BY DEF Inv, TypeOK, QueueTypeOK
      <4>3. queue'[m].state = "visible"
        BY <1>1, <1>4, <4>1, <4>2
      <4> QED BY <1>1, <1>4, <4>1, <4>3 DEF SentCopies
    <3> QED BY <3>1, <3>2, Finite, OneLess
  <2> QED BY <1>2, <2>2, <2>3, Finite
<1>5. CASE i # e
  <2>1. \A c \in Copies : queue'[<<e, c>>] = queue[<<e, c>>]
    BY <1>1, <1>3, <1>5
  <2>2. Tokens(e)' = Tokens(e) /\ SentCopies(e)' = SentCopies(e)
    BY <2>1 DEF Tokens, MayAccept, BusyWith, SentCopies
  <2> QED BY <1>2, <2>2
<1> QED BY <1>4, <1>5

\* What SQS does on its own gives back the token of an invocation that ended; while it
\* still runs, that is a fault.
LEMMA QueueMakesOne ==
  ASSUME Inv, ChainInv, AllInHand, AcceptInv, [Next]_vars, IsFiniteSet(Workers), IsFiniteSet(Copies),
         NEW e \in EventIds, NEW i \in Messages, QueueRuns(i) \/ QueueOvertakes(i)
  PROVE  accepted'[e] + Cardinality(Tokens(e)') <= Cardinality(SentCopies(e)') + faults.worker'
<1>1. UNCHANGED <<worker, rows, accepted>>
  BY DEF QueueRuns, QueueOvertakes, VisibilityTimeout, VisibilityTimeoutEarly, Redrive, workerVars, databaseVars
<1>2. /\ faults \in [scheduler : Nat, worker : Nat]
      /\ queue \in [Messages -> [state : SlotStates, receives : Nat, holder : Workers \cup {NoWorker}]]
      /\ accepted[e] \in Nat
  BY DEF Inv, TypeOK, PlatformTypeOK, QueueTypeOK, WorkerTypeOK
<1>3. \A m \in Messages : m # i => queue'[m] = queue[m]
  BY <1>2 DEF QueueRuns, QueueOvertakes, VisibilityTimeout, VisibilityTimeoutEarly, Redrive,
       MakeVisible, MoveToDlq
<1>4. \A c \in Copies : <<e, c>> \in Messages
  BY DEF Messages
<1>5. CASE VisibilityTimeoutEarly(i)
  <2>1. PICK d : i = <<i[1], d>>
    BY DEF Messages
  <2>2. Tokens(e)' \subseteq Tokens(e) \cup {<<NoWorker, d>>}
    <3>1. ASSUME NEW x \in Holders, NEW c \in Copies, MayAccept(e, x, c)', ~MayAccept(e, x, c)
          PROVE  <<x, c>> = <<NoWorker, d>>
      <4>1. <<e, c>> = i => c = d
        BY <2>1
      <4>2. CASE <<e, c>> = i
        BY <1>1, <3>1, <4>1, <4>2 DEF MayAccept
      <4>3. CASE <<e, c>> # i
        <5>1. queue'[<<e, c>>] = queue[<<e, c>>]
          BY <1>3, <1>4, <4>3
        <5> QED BY <1>1, <3>1, <5>1 DEF MayAccept, BusyWith
      <4> QED BY <4>2, <4>3
    <3> QED BY <3>1, TokensGrow
  <2>3. Cardinality(Tokens(e)') <= Cardinality(Tokens(e)) + 1
    BY <2>2, Finite, OneMore
  <2>4. faults.worker' = faults.worker + 1
    BY <1>2, <1>5 DEF VisibilityTimeoutEarly, WorkerFault
  <2>5. accepted[e] + Cardinality(Tokens(e)) <= Cardinality(SentCopies(e)) + faults.worker
    BY DEF AcceptInv
  <2>6. Cardinality(SentCopies(e)) <= Cardinality(SentCopies(e)')
    BY SentStay
  <2>7. faults.worker \in Nat
    BY <1>2
  <2> QED BY <1>1, <1>2, <2>3, <2>4, <2>5, <2>6, <2>7, Finite
<1>6. CASE VisibilityTimeout(i) \/ Redrive(i)
  <2>1. queue[i] \in [state : SlotStates, receives : Nat, holder : Workers \cup {NoWorker}]
    BY <1>2
  <2>2. \/ queue[i].state = "inflight" /\ ~BusyWith(queue[i].holder, i)
        \/ queue[i].state = "visible" /\ queue'[i].state = "dead"
    BY <1>2, <1>6 DEF VisibilityTimeout, Redrive, MoveToDlq
  <2>3. ASSUME NEW x \in Holders, NEW c \in Copies, MayAccept(e, x, c)' PROVE MayAccept(e, x, c)
    <3>1. CASE <<e, c>> = i
      BY <1>1, <2>2, <2>3, <3>1 DEF MayAccept
    <3>2. CASE <<e, c>> # i
      <4>1. queue'[<<e, c>>] = queue[<<e, c>>]
        BY <1>3, <1>4, <3>2
      <4> QED BY <1>1, <2>3, <4>1 DEF MayAccept, BusyWith
    <3> QED BY <3>1, <3>2
  <2>4. Tokens(e)' \subseteq Tokens(e)
    BY <2>3, TokensGrow
  <2>5. Cardinality(Tokens(e)') <= Cardinality(Tokens(e))
    BY <2>4, Finite, FS_Subset
  <2> QED BY <1>1, <2>5, QuietStep
<1> QED BY <1>5, <1>6 DEF QueueRuns, QueueOvertakes

-----------------------------------------------------------------------------
\* The receiver accepts only what a worker delivers, and the worker goes on from there
\* or has met a fault.
LEMMA WorkerAccepts ==
  ASSUME Inv, NEW w \in Workers, WorkerRuns(w) \/ WorkerFails(w)
  PROVE  \/ UNCHANGED accepted
         \/ /\ worker[w].pc = "deliver"
            /\ accepted' = [accepted EXCEPT ![Current(w)] = @ + 1]
            /\ \/ worker'[w].pc = "findUser" /\ worker'[w].msg = worker[w].msg
               \/ faults.worker' = faults.worker + 1
<1>0. /\ worker \in [Workers -> [pc : WorkerPcs, batch : SUBSET Messages, todo : SUBSET Messages,
                              msg : Messages \cup {NoMessage}, ev : Event, retries : Nat]]
      /\ faults \in [scheduler : Nat, worker : Nat]
  BY DEF Inv, TypeOK, WorkerTypeOK, PlatformTypeOK
<1>1. CASE DeliverAccepted(w)
  <2>1. worker'[w].pc = "findUser" /\ worker'[w].msg = worker[w].msg
    BY <1>0, <1>1 DEF DeliverAccepted, WorkerGoTo
  <2> QED BY <1>1, <2>1 DEF DeliverAccepted
<1>2. CASE RetryDelivery(w) \/ DeliverFails(w)
  <2>1. faults.worker' = faults.worker + 1
    BY <1>0, <1>2 DEF RetryDelivery, DeliverFails, WorkerFault
  <2> QED BY <1>2, <2>1 DEF RetryDelivery, DeliverFails
<1>3. CASE ~(DeliverAccepted(w) \/ RetryDelivery(w) \/ DeliverFails(w))
  BY <1>3 DEF WorkerRuns, WorkerFails, Receive, SkipRecord, RejectPayload, StartRecord,
     DeliverRejected, MarkFailed, FindUser, CompleteEvent, CreateNextYear, CreateFollower, Finish, WorkerStops
<1> QED BY <1>1, <1>2, <1>3

\* A received message takes its token along.
LEMMA TakingTradesTokens ==
  ASSUME Inv, AllInHand, NEW w \in Workers, Handles(w), Takes(w),
         IsFiniteSet(Workers), IsFiniteSet(Copies), NEW e \in EventIds
  PROVE  Cardinality(Tokens(e)') <= Cardinality(Tokens(e))
<1>1. PICK B \in SUBSET Receivable :
    /\ worker[w].pc = "idle"
    /\ worker'[w].pc = "next" /\ worker'[w].batch = B
    /\ receiveMessages(w, B) /\ UNCHANGED rows
  BY DEF Takes
<1>2. \A v \in Workers : v # w => worker'[v] = worker[v]
  BY DEF Handles
<1>3. NoWorker \notin Workers
  BY QueueAssumption
<1>4. ASSUME NEW x \in Holders, NEW c \in Copies, MayAccept(e, x, c)', ~MayAccept(e, x, c)
      PROVE  x = w /\ MayAccept(e, NoWorker, c) /\ ~MayAccept(e, NoWorker, c)'
  <2>1. PICK m \in Messages : m = <<e, c>>
    BY DEF Messages
  <2>2. CASE m \in B
    <3>1. queue[m].state = "visible"
      BY <2>2 DEF Receivable
    <3>2. queue'[m] = [state |-> "inflight", receives |-> queue[m].receives + 1, holder |-> w]
      BY <1>1, <2>2 DEF receiveMessages
    <3>3. queue'[m].state = "inflight" /\ queue'[m].holder = w
      BY <3>2
    <3>4. BusyWith(w, m)'
      BY <1>1, <2>2 DEF BusyWith
    <3>5. ~MayAccept(e, NoWorker, c)'
      BY <1>3, <2>1, <3>3, <3>4 DEF MayAccept, BusyWith
    <3>6. x \in Workers /\ m \in worker'[x].batch
      BY <1>4, <2>1, <3>5 DEF MayAccept, Holders
    <3>7. x = w
      <4> SUFFICES ASSUME x # w PROVE FALSE
        OBVIOUS
      <4>1. UNCHANGED rows /\ worker'[x] = worker[x] /\ x # NoWorker
        BY <1>1, <1>2, <1>3, <3>6
      <4>2. MayAccept(e, x, c)' /\ ~MayAccept(e, x, c)
        BY <1>4
      <4> QED BY <3>6, <4>1, <4>2 DEF MayAccept
    <3>8. rows[e].status \notin Past
      <4>1. UNCHANGED rows /\ worker'[x].pc = "next"
        BY <1>1, <3>7
      <4>2. MayAccept(e, x, c)'
        BY <1>4
      <4> QED BY <4>1, <4>2 DEF MayAccept
    <3> QED BY <2>1, <3>1, <3>5, <3>7, <3>8 DEF MayAccept
  <2>3. CASE m \notin B
    <3>1. queue'[m] = queue[m]
      BY <1>1, <2>3 DEF receiveMessages
    <3>2. x # w
      BY <1>1, <1>3, <1>4, <2>1, <2>3 DEF MayAccept
    <3>3. x = NoWorker
      BY <1>1, <1>2, <1>4, <3>2 DEF MayAccept, Holders
    <3>4. ~BusyWith(w, m)' /\ ~BusyWith(w, m)
      BY <1>1, <2>3 DEF BusyWith
    <3>5. \A h : BusyWith(h, m) => BusyWith(h, m)'
      BY <1>2, <3>4 DEF BusyWith
    <3> QED BY <1>1, <1>3, <1>4, <2>1, <3>1, <3>3, <3>5 DEF MayAccept
  <2> QED BY <2>2, <2>3
<1>5. ASSUME NEW t \in Tokens(e)' \ Tokens(e)
      PROVE  \E c : t = <<w, c>> /\ <<NoWorker, c>> \in Tokens(e) /\ <<NoWorker, c>> \notin Tokens(e)'
  <2>1. PICK x \in Holders, c \in Copies : t = <<x, c>> /\ MayAccept(e, x, c)' /\ ~MayAccept(e, x, c)
    BY TokensGrow
  <2>2. x = w /\ MayAccept(e, NoWorker, c) /\ ~MayAccept(e, NoWorker, c)'
    BY <1>4, <2>1
  <2>3. <<NoWorker, c>> \in Holders \X Copies
    BY DEF Holders
  <2> QED BY <2>1, <2>2, <2>3 DEF Tokens
<1> QED BY <1>5, Finite, Exchange

\* Carrying on makes no token, and an accepted delivery uses one up.
LEMMA CarryingMakesNoToken ==
  ASSUME Inv, TablesMove, AllInHand, NEW w \in Workers, Handles(w), Carries(w), NEW e \in EventIds
  PROVE  Tokens(e)' \subseteq Tokens(e)
<1>1. \A v \in Workers : v # w => worker'[v] = worker[v]
  BY DEF Handles
<1>2. rows[e].status \in Past => rows'[e].status \in Past
  BY PastStays
<1>3. UNCHANGED queue /\ worker'[w].batch = worker[w].batch /\ worker[w].pc # "idle" /\ worker'[w].pc # "idle"
  BY DEF Carries
<1>4. NoWorker \notin Workers
  BY QueueAssumption
<1>5. ASSUME NEW x \in Holders, NEW c \in Copies, MayAccept(e, x, c)' PROVE MayAccept(e, x, c)
  <2>1. CASE x = NoWorker
    <3>1. \A h, m : BusyWith(h, m)' <=> BusyWith(h, m)
      BY <1>1, <1>3 DEF BusyWith
    <3> QED BY <1>2, <1>3, <1>4, <1>5, <2>1, <3>1 DEF MayAccept
  <2>2. CASE x \in Workers /\ x # w
    BY <1>1, <1>2, <1>4, <1>5, <2>2 DEF MayAccept
  <2>3. CASE x = w
    <3>1. <<e, c>> \in worker[w].batch
      BY <1>3, <1>4, <1>5, <2>3 DEF MayAccept
    <3>2. CASE worker'[w].pc # "next" /\ worker'[w].msg = <<e, c>>
      <4>1. worker'[w].pc = "deliver"
        BY <1>4, <1>5, <2>3, <3>2 DEF MayAccept
      <4>2. CASE worker[w].pc = "next"
        <5>1. rows[worker'[w].msg[1]].status = "PROCESSING"
          BY <3>2, <4>2 DEF Carries
        <5>2. rows[e].status = "PROCESSING"
          BY <3>2, <5>1
        <5> QED BY <2>3, <3>1, <4>2, <5>2 DEF MayAccept, Past
      <4>3. CASE worker[w].pc # "next"
        <5>1. worker[w].msg = <<e, c>> /\ worker[w].pc = "deliver"
          BY <3>2, <4>1, <4>3 DEF Carries
        <5> QED BY <2>3, <3>1, <5>1 DEF MayAccept
      <4> QED BY <4>2, <4>3
    <3>3. CASE ~(worker'[w].pc # "next" /\ worker'[w].msg = <<e, c>>)
      <4>1. rows'[e].status \notin Past
        BY <1>4, <1>5, <2>3, <3>3 DEF MayAccept
      <4>2. ASSUME worker[w].pc # "next", worker[w].msg = <<e, c>> PROVE FALSE
        <5>1. Current(w) = e
          BY <4>2 DEF Current
        <5> QED BY <3>3, <4>1, <4>2, <5>1 DEF Carries
      <4> QED BY <1>2, <2>3, <3>1, <4>1, <4>2 DEF MayAccept
    <3> QED BY <3>2, <3>3
  <2> QED BY <2>1, <2>2, <2>3 DEF Holders
<1> QED BY <1>5, TokensGrow

LEMMA DeliveringUsesAToken ==
  ASSUME Inv, AllInHand, NEW w \in Workers, worker[w].pc = "deliver",
         worker'[w].pc = "findUser", worker'[w].msg = worker[w].msg,
         NEW e \in EventIds, e = Current(w)
  PROVE  \E t \in Tokens(e) : t \notin Tokens(e)'
<1>1. worker[w].msg \in Messages /\ worker[w].msg \in worker[w].batch
  BY DEF Inv, CopiesAreClaimed, AllInHand, InHand
<1>2. PICK i \in EventIds, c \in Copies : worker[w].msg = <<i, c>>
  BY <1>1 DEF Messages
<1>3. i = e
  BY <1>2 DEF Current
<1>4. MayAccept(e, w, c)
  BY <1>1, <1>2, <1>3 DEF MayAccept
<1>5. ~MayAccept(e, w, c)'
  BY <1>2, <1>3, QueueAssumption DEF MayAccept
<1>6. <<w, c>> \in Tokens(e)
  BY <1>4 DEF Tokens, Holders
<1>7. <<w, c>> \notin Tokens(e)'
  BY <1>5 DEF Tokens
<1> QED BY <1>6, <1>7

\* What an invocation that returned still held fresh is deleted with its batch.
LEMMA FinishingMakesNoToken ==
  ASSUME Inv, AllInHand, NEW w \in Workers, Handles(w), Finishes(w), NEW e \in EventIds
  PROVE  Tokens(e)' \subseteq Tokens(e)
<1>1. \A v \in Workers : v # w => worker'[v] = worker[v]
  BY DEF Handles
<1>2. /\ worker[w].pc = "next" /\ worker'[w].pc = "idle" /\ worker'[w].batch = {}
      /\ deleteMessages(w, worker[w].batch) /\ UNCHANGED rows
  BY DEF Finishes, IdleWorker
<1>3. ASSUME NEW x \in Holders, NEW c \in Copies, MayAccept(e, x, c)' PROVE MayAccept(e, x, c)
  <2>1. PICK m \in Messages : m = <<e, c>>
    BY DEF Messages
  <2>2. CASE x \in Workers /\ m \in worker'[x].batch
    <3>1. x # w
      BY <1>2, <2>2
    <3> QED BY <1>1, <1>2, <1>3, <2>1, <2>2, <3>1, QueueAssumption DEF MayAccept
  <2>3. CASE ~(x \in Workers /\ m \in worker'[x].batch)
    <3>1. /\ x = NoWorker /\ rows[e].status \notin Past
          /\ \/ queue'[m].state = "visible"
             \/ queue'[m].state = "inflight" /\ ~BusyWith(queue[m].holder, m)'
      BY <1>2, <1>3, <2>1, <2>3 DEF MayAccept
    <3>2. queue[m] \in [state : SlotStates, receives : Nat, holder : Workers \cup {NoWorker}]
      BY DEF Inv, TypeOK, QueueTypeOK
    <3>3. /\ queue'[m] = queue[m] \/ queue'[m] = [queue[m] EXCEPT !.state = "deleted"]
          /\ m \in worker[w].batch /\ queue[m].holder = w /\ queue[m].state # "dead" =>
               queue'[m] = [queue[m] EXCEPT !.state = "deleted"]
      BY <1>2 DEF deleteMessages
    <3>4. [queue[m] EXCEPT !.state = "deleted"].state = "deleted"
      BY <3>2
    <3>5. queue'[m] = queue[m]
      BY <3>1, <3>3, <3>4
    <3>6. queue[m].state = "inflight" /\ queue[m].holder = w => m \notin worker[w].batch
      BY <3>3, <3>4, <3>5
    <3>7. queue[m].state = "inflight" => ~BusyWith(queue[m].holder, m)
      <4>1. CASE queue[m].holder = w
        BY <3>6, <4>1 DEF BusyWith
      <4>2. CASE queue[m].holder # w
        BY <1>1, <3>1, <3>5, <4>2 DEF BusyWith
      <4> QED BY <4>1, <4>2
    <3> QED BY <2>1, <3>1, <3>5, <3>7 DEF MayAccept
  <2> QED BY <2>2, <2>3
<1> QED BY <1>3, TokensGrow

\* Giving up, the tokens go back to the messages: only for the one past its delivery a
\* new one may appear.
LEMMA GivingUpReturnsTokens ==
  ASSUME Inv, AllInHand, NEW w \in Workers, Handles(w), GivesUp(w), NEW e \in EventIds,
         NEW t \in Tokens(e)' \ Tokens(e)
  PROVE  /\ rows[e].status \notin Past
         /\ \E c \in Copies :
              /\ t = <<NoWorker, c>> /\ <<w, c>> \notin Tokens(e)'
              /\ \/ <<w, c>> \in Tokens(e)
                 \/ worker[w].msg = <<e, c>> /\ worker[w].pc \notin {"next", "deliver"}
<1>1. \A v \in Workers : v # w => worker'[v] = worker[v]
  BY DEF Handles
<1>2. /\ worker[w].pc # "idle" /\ worker'[w].pc = "idle" /\ worker'[w].batch = {}
      /\ UNCHANGED <<queue, rows>>
  BY DEF GivesUp, IdleWorker
<1>3. PICK x \in Holders, c \in Copies : t = <<x, c>> /\ MayAccept(e, x, c)' /\ ~MayAccept(e, x, c)
  BY TokensGrow
<1>4. PICK m \in Messages : m = <<e, c>>
  BY DEF Messages
<1>5. ~(x \in Workers /\ m \in worker'[x].batch)
  <2>1. CASE x = w
    BY <1>2, <2>1
  <2>2. CASE x # w
    BY <1>1, <1>2, <1>3, <1>4, <2>2, QueueAssumption DEF MayAccept
  <2> QED BY <2>1, <2>2
<1>6. /\ x = NoWorker /\ rows[e].status \notin Past
      /\ \/ queue[m].state = "visible"
         \/ queue[m].state = "inflight" /\ ~BusyWith(queue[m].holder, m)'
  BY <1>2, <1>3, <1>4, <1>5 DEF MayAccept
<1>7. queue[m].state = "inflight" /\ BusyWith(queue[m].holder, m)
  BY <1>3, <1>4, <1>6 DEF MayAccept
<1>8. queue[m].holder = w
  <2>1. PICK h \in Workers : h = queue[m].holder
    BY <1>7 DEF BusyWith
  <2>2. ~BusyWith(queue[m].holder, m)'
    BY <1>6, <1>7
  <2>3. ~BusyWith(h, m)'
    BY <1>2, <2>1, <2>2 DEF BusyWith
  <2>4. h = w
    BY <1>1, <1>7, <2>1, <2>3 DEF BusyWith
  <2> QED BY <2>1, <2>4
<1>9. m \in worker[w].batch
  BY <1>7, <1>8 DEF BusyWith
<1>10. <<w, c>> \notin Tokens(e)'
  <2>1. ~MayAccept(e, w, c)'
    BY <1>2, QueueAssumption DEF MayAccept
  <2> QED BY <2>1 DEF Tokens
<1>11. <<w, c>> \in Tokens(e) \/ (worker[w].msg = <<e, c>> /\ worker[w].pc \notin {"next", "deliver"})
  <2>1. CASE worker[w].msg = <<e, c>> /\ worker[w].pc \notin {"next", "deliver"}
    BY <2>1
  <2>2. CASE ~(worker[w].msg = <<e, c>> /\ worker[w].pc \notin {"next", "deliver"})
    <3>1. MayAccept(e, w, c)
      BY <1>4, <1>6, <1>9, <2>2 DEF MayAccept
    <3> QED BY <3>1 DEF Tokens, Holders
  <2> QED BY <2>1, <2>2
<1> QED BY <1>3, <1>6, <1>10, <1>11

LEMMA WorkerAccountsForAcceptance ==
  ASSUME Inv, ChainInv, AllInHand, AcceptInv, [Next]_vars, IsFiniteSet(Workers), IsFiniteSet(Copies),
         NEW w \in Workers, WorkerRuns(w) \/ WorkerFails(w), NEW e \in EventIds
  PROVE  accepted'[e] + Cardinality(Tokens(e)') <= Cardinality(SentCopies(e)') + faults.worker'
<1>0. /\ faults.worker \in Nat /\ faults.worker' \in Nat /\ faults.worker <= faults.worker'
      /\ accepted \in [EventIds -> Nat]
  BY StepMovesQueue DEF Inv, TypeOK, WorkerTypeOK
<1>1. Handles(w) /\ TablesMove
  BY WorkerHandles, StepMovesTables DEF AllInHand
<1>2. accepted[e] + Cardinality(Tokens(e)) <= Cardinality(SentCopies(e)) + faults.worker
  BY DEF AcceptInv
<1>3. Cardinality(SentCopies(e)) <= Cardinality(SentCopies(e)')
  BY SentStay
<1>4. ASSUME NEW i \in EventIds, i = Current(w), accepted' = [accepted EXCEPT ![Current(w)] = @ + 1]
      PROVE  accepted'[e] = IF e = i THEN accepted[e] + 1 ELSE accepted[e]
  BY <1>0, <1>4
\* As many tokens as before, and another acceptance only with a fault.
<1>5. ASSUME Cardinality(Tokens(e)') <= Cardinality(Tokens(e)),
             accepted'[e] = accepted[e] \/ (accepted'[e] = accepted[e] + 1 /\ faults.worker' = faults.worker + 1)
      PROVE  accepted'[e] + Cardinality(Tokens(e)') <= Cardinality(SentCopies(e)') + faults.worker'
  BY <1>0, <1>2, <1>3, <1>5, Finite
<1>6. CASE worker[w].pc # "deliver"
  <2>1. accepted'[e] = accepted[e]
    BY <1>6, WorkerAccepts
  <2>2. CASE Takes(w) \/ Carries(w) \/ Finishes(w)
    <3>1. Cardinality(Tokens(e)') <= Cardinality(Tokens(e))
      BY <1>1, <2>2, TakingTradesTokens, CarryingMakesNoToken, FinishingMakesNoToken, Finite, FS_Subset
    <3> QED BY <1>5, <2>1, <3>1
  <2>3. CASE GivesUp(w)
    <3>1. CASE \A t \in Tokens(e)' \ Tokens(e) : \E c \in Copies :
                 t = <<NoWorker, c>> /\ <<w, c>> \in Tokens(e) /\ <<w, c>> \notin Tokens(e)'
      <4>1. Cardinality(Tokens(e)') <= Cardinality(Tokens(e))
        BY <3>1, Finite, Exchange
      <4> QED BY <1>5, <2>1, <4>1
    <3>2. CASE \E t \in Tokens(e)' \ Tokens(e) : \A c \in Copies :
                 ~(t = <<NoWorker, c>> /\ <<w, c>> \in Tokens(e) /\ <<w, c>> \notin Tokens(e)')
      <4>1. PICK d \in Copies : /\ worker[w].msg = <<e, d>> /\ worker[w].pc \notin {"next", "deliver"}
                                /\ rows[e].status \notin Past
        <5>1. PICK t \in Tokens(e)' \ Tokens(e) : \A c \in Copies :
                 ~(t = <<NoWorker, c>> /\ <<w, c>> \in Tokens(e) /\ <<w, c>> \notin Tokens(e)')
          BY <3>2
        <5>2. /\ rows[e].status \notin Past
              /\ \E c \in Copies :
                    /\ t = <<NoWorker, c>> /\ <<w, c>> \notin Tokens(e)'
                    /\ \/ <<w, c>> \in Tokens(e)
                       \/ worker[w].msg = <<e, c>> /\ worker[w].pc \notin {"next", "deliver"}
          BY <1>1, <2>3, GivingUpReturnsTokens
        <5> QED BY <5>1, <5>2
      <4>2. faults.worker' = faults.worker + 1
        BY <2>3, <4>1 DEF GivesUp, Current
      <4> DEFINE L == Tokens(e)' \ {<<NoWorker, d>>}
      <4>3. \A t \in L \ Tokens(e) : \E c : t = <<NoWorker, c>> /\ <<w, c>> \in Tokens(e) /\ <<w, c>> \notin L
        <5>1. ASSUME NEW t \in L \ Tokens(e)
              PROVE  \E c : t = <<NoWorker, c>> /\ <<w, c>> \in Tokens(e) /\ <<w, c>> \notin L
          <6>1. PICK c \in Copies :
              /\ t = <<NoWorker, c>> /\ <<w, c>> \notin Tokens(e)'
              /\ <<w, c>> \in Tokens(e) \/ worker[w].msg = <<e, c>>
            BY <1>1, <2>3, <5>1, GivingUpReturnsTokens
          <6>2. c # d
            BY <6>1
          <6> QED BY <4>1, <6>1, <6>2
        <5> QED BY <5>1
      <4>4. Tokens(e)' \subseteq L \cup {<<NoWorker, d>>}
        OBVIOUS
      <4> HIDE DEF L
      <4>5. IsFiniteSet(L) /\ Cardinality(L) <= Cardinality(Tokens(e))
        BY <4>3, Finite, Exchange
      <4>6. Cardinality(L) \in Nat /\ Cardinality(Tokens(e)') <= Cardinality(L) + 1
        BY <4>4, <4>5, OneMore
      <4> QED BY <1>0, <1>2, <1>3, <2>1, <4>2, <4>5, <4>6, Finite
    <3> QED BY <3>1, <3>2
  <2> QED BY <1>1, <2>2, <2>3 DEF Handles
<1>7. CASE worker[w].pc = "deliver"
  <2>1. PICK i \in EventIds : i = Current(w)
    BY <1>7, CopyInHand DEF AllInHand
  <2>2. Carries(w) \/ GivesUp(w)
    BY <1>1, <1>7 DEF Handles, Takes, Finishes
  <2>3. Cardinality(Tokens(e)') <= Cardinality(Tokens(e))
    <3>1. CASE Carries(w)
      BY <1>1, <3>1, CarryingMakesNoToken, Finite, FS_Subset
    <3>2. CASE GivesUp(w)
      <4>1. \A t \in Tokens(e)' \ Tokens(e) : \E c :
               t = <<NoWorker, c>> /\ <<w, c>> \in Tokens(e) /\ <<w, c>> \notin Tokens(e)'
        BY <1>1, <1>7, <3>2, GivingUpReturnsTokens
      <4> QED BY <4>1, Finite, Exchange
    <3> QED BY <2>2, <3>1, <3>2
  <2>4. CASE \/ UNCHANGED accepted
             \/ faults.worker' = faults.worker + 1 /\ accepted' = [accepted EXCEPT ![Current(w)] = @ + 1]
    BY <1>4, <1>5, <2>1, <2>3, <2>4
  <2>5. CASE /\ accepted' = [accepted EXCEPT ![Current(w)] = @ + 1]
             /\ worker'[w].pc = "findUser" /\ worker'[w].msg = worker[w].msg
    <3>1. Carries(w)
      BY <2>2, <2>5 DEF GivesUp, IdleWorker
    <3>2. Tokens(e)' \subseteq Tokens(e)
      BY <1>1, <3>1, CarryingMakesNoToken
    <3>3. CASE e = i
      <4>1. PICK t \in Tokens(e) : t \notin Tokens(e)'
        BY <1>7, <2>1, <2>5, <3>3, DeliveringUsesAToken
      <4>2. Cardinality(Tokens(e)') + 1 <= Cardinality(Tokens(e))
        BY <3>2, <4>1, Finite, OneLess
      <4>3. accepted'[e] = accepted[e] + 1
        BY <1>4, <2>1, <2>5, <3>3
      <4> QED BY <1>0, <1>2, <1>3, <4>2, <4>3, Finite
    <3>4. CASE e # i
      <4>1. accepted'[e] = accepted[e]
        BY <1>4, <2>1, <2>5, <3>4
      <4> QED BY <1>5, <2>3, <4>1
    <3> QED BY <3>3, <3>4
  <2> QED BY <2>4, <2>5, WorkerAccepts
<1> QED BY <1>6, <1>7

LEMMA AcceptInvStep ==
  ASSUME Inv, ChainInv, QueueInv, AcceptInv, [Next]_vars, IsFiniteSet(Workers), IsFiniteSet(Copies),
         NEW e \in EventIds
  PROVE  accepted'[e] + Cardinality(Tokens(e)') <= Cardinality(SentCopies(e)') + faults.worker'
<1>0. AllInHand /\ TablesMove
  BY StepMovesTables DEF QueueInv
<1>1. ASSUME UNCHANGED <<queue, worker, accepted>>
      PROVE  accepted'[e] + Cardinality(Tokens(e)') <= Cardinality(SentCopies(e)') + faults.worker'
  <2>1. Cardinality(Tokens(e)') <= Cardinality(Tokens(e))
    BY <1>0, <1>1, TablesMakeNoToken, Finite, FS_Subset
  <2> QED BY <1>0, <1>1, <2>1, QuietStep
<1>2. CASE \E u \in Users : UserRequest(u)
  BY <1>1, <1>2 DEF UserRequest, workerVars
<1>3. CASE \E s \in Schedulers : SchedulerRuns(s) \/ SchedulerFails(s)
  <2>1. PICK s \in Schedulers : SchedulerRuns(s) \/ SchedulerFails(s)
    BY <1>3
  <2>2. UNCHANGED <<worker, accepted>>
    BY <2>1, SchedulerSends DEF workerVars
  <2>3. CASE UNCHANGED queue
    BY <1>1, <2>2, <2>3
  <2>4. CASE ~UNCHANGED queue
    <3>1. PICK i \in sched[s].todo : sendMessage(i) /\ UNCHANGED rows
      BY <2>1, <2>4, SchedulerSends
    <3>2. i \in EventIds
      BY DEF Inv, TypeOK, SchedulerTypeOK
    <3>3. faults'.worker = faults.worker
      <4>1. UNCHANGED faults \/ SchedulerFault
        BY <2>1 DEF SchedulerRuns, SchedulerFails, platformVars, Invoke, FindMissedEvents, QueueMissed,
         RecoveryDone, SelectForUpdate, MarkProcessing, SendClaimed, QueueMissedFails, RecoveryFails,
         ClaimFails, SendFails, SchedulerStops
      <4>2. faults \in [scheduler : Nat, worker : Nat]
        BY DEF Inv, TypeOK, PlatformTypeOK
      <4> QED BY <4>1, <4>2 DEF SchedulerFault
    <3> QED BY <2>2, <3>1, <3>2, <3>3, SendMakesOne
  <2> QED BY <2>3, <2>4
<1>4. CASE \E w \in Workers : WorkerRuns(w) \/ WorkerFails(w)
  BY <1>0, <1>4, WorkerAccountsForAcceptance
<1>5. CASE \E m \in Messages : QueueRuns(m) \/ QueueOvertakes(m)
  BY <1>0, <1>5, QueueMakesOne
<1>6. CASE ClockTicks \/ UNCHANGED vars
  BY <1>1, <1>6 DEF ClockTicks, vars, workerVars
<1> QED BY <1>2, <1>3, <1>4, <1>5, <1>6 DEF Next

LEMMA AcceptInvInit ==
  ASSUME Init PROVE AcceptInv
<1> SUFFICES ASSUME NEW e \in EventIds
             PROVE  accepted[e] + Cardinality(Tokens(e)) <= Cardinality(SentCopies(e)) + faults.worker
  BY DEF AcceptInv
<1>1. accepted[e] = 0 /\ faults.worker = 0
  BY DEF Init, WorkerInit, PlatformInit
<1>2. \A c \in Copies : queue[<<e, c>>].state = "unsent"
  BY DEF Init, QueueInit, Messages
<1>3. \A w \in Workers : worker[w].batch = {}
  BY DEF Init, WorkerInit, IdleWorker
<1>4. Tokens(e) = {} /\ SentCopies(e) = {}
  BY <1>2, <1>3 DEF Tokens, MayAccept, SentCopies
<1> QED BY <1>1, <1>4, FS_EmptySet

LEMMA AcceptInvariance ==
  ASSUME IsFiniteSet(Workers), IsFiniteSet(Copies)
  PROVE  Spec => [](Inv /\ AcceptInv)
<1>1. Init => AcceptInv
  BY AcceptInvInit
<1>2. (Inv /\ ChainInv /\ QueueInv) /\ AcceptInv /\ [Next]_vars => AcceptInv'
  BY AcceptInvStep DEF AcceptInv
<1> QED BY <1>1, <1>2, QueueInvariance, PTL DEF Spec

\* The receiver accepts an event no more often than it was queued, except once more
\* for each fault of a worker or of the queue's clock.
THEOREM EveryRepeatHasACause ==
  ASSUME IsFiniteSet(Workers), IsFiniteSet(Copies)
  PROVE  Spec => []RepeatsHaveACause
<1>1. Inv /\ AcceptInv => RepeatsHaveACause
  <2> SUFFICES ASSUME Inv, AcceptInv, NEW e \in EventIds
               PROVE  accepted[e] <= Cardinality(SentCopies(e)) + faults.worker
    BY DEF RepeatsHaveACause, SentCopies
  <2>1. accepted[e] + Cardinality(Tokens(e)) <= Cardinality(SentCopies(e)) + faults.worker
    BY DEF AcceptInv
  <2>2. accepted[e] \in Nat /\ faults.worker \in Nat
    BY DEF Inv, TypeOK, WorkerTypeOK, PlatformTypeOK
  <2> QED BY <2>1, <2>2, Finite
<1> QED BY <1>1, AcceptInvariance, PTL
=============================================================================
