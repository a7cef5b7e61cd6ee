------------------------------ MODULE Delivery ------------------------------
(***************************************************************************)
(* The delivery pipeline: user requests, scheduler Lambdas, the queue and  *)
(* worker Lambdas over one database.  Every process interleaves with every *)
(* other at the points where the code awaits.                              *)
(***************************************************************************)
EXTENDS UserContext, SchedulerLambda, WorkerLambda

vars == <<platformVars, databaseVars, queue, sched, workerVars>>

Init ==
  /\ PlatformInit
  /\ DatabaseInit
  /\ QueueInit
  /\ SchedulerInit
  /\ WorkerInit

UserRequest(u) ==
  \/ CreateUser(u)               /\ UNCHANGED <<queue, sched, workerVars>>
  \/ CreateBirthdayEvent(u)      /\ UNCHANGED <<queue, sched, workerVars>>
  \/ CreateBirthdayEventFails(u) /\ UNCHANGED <<queue, sched, workerVars>>
  \/ DeleteUser(u)               /\ UNCHANGED <<queue, sched, workerVars>>

\* What an instance of the scheduler does when nothing fails.
SchedulerRuns(s) ==
  \/ Invoke(s)           /\ UNCHANGED workerVars
  \/ FindMissedEvents(s) /\ UNCHANGED workerVars
  \/ QueueMissed(s)      /\ UNCHANGED workerVars
  \/ RecoveryDone(s)     /\ UNCHANGED workerVars
  \/ SelectForUpdate(s)  /\ UNCHANGED workerVars
  \/ MarkProcessing(s)   /\ UNCHANGED workerVars
  \/ SendClaimed(s)      /\ UNCHANGED workerVars

SchedulerFails(s) ==
  \/ QueueMissedFails(s) /\ UNCHANGED workerVars
  \/ RecoveryFails(s)    /\ UNCHANGED workerVars
  \/ ClaimFails(s)       /\ UNCHANGED workerVars
  \/ SendFails(s)        /\ UNCHANGED workerVars
  \/ SchedulerStops(s)   /\ UNCHANGED workerVars

\* What an instance of the worker does when nothing fails.
WorkerRuns(w) ==
  \/ Receive(w)         /\ UNCHANGED sched
  \/ SkipRecord(w)      /\ UNCHANGED sched
  \/ RejectPayload(w)   /\ UNCHANGED sched
  \/ StartRecord(w)     /\ UNCHANGED sched
  \/ DeliverAccepted(w) /\ UNCHANGED sched
  \/ DeliverRejected(w) /\ UNCHANGED sched
  \/ MarkFailed(w)      /\ UNCHANGED sched
  \/ FindUser(w)        /\ UNCHANGED sched
  \/ CompleteEvent(w)   /\ UNCHANGED sched
  \/ CreateNextYear(w)  /\ UNCHANGED sched
  \/ Finish(w)          /\ UNCHANGED sched

WorkerFails(w) ==
  \/ RetryDelivery(w) /\ UNCHANGED sched
  \/ DeliverFails(w)  /\ UNCHANGED sched
  \/ WorkerStops(w)   /\ UNCHANGED sched

\* What SQS does on its own when no invocation is overtaken by a timeout.
QueueRuns(m) ==
  \/ VisibilityTimeout(m) /\ UNCHANGED sched
  \/ Redrive(m)           /\ UNCHANGED sched

QueueOvertakes(m) == VisibilityTimeoutEarly(m) /\ UNCHANGED sched

ClockTicks == Tick /\ UNCHANGED <<databaseVars, queue, sched, workerVars>>

Next ==
  \/ ClockTicks
  \/ \E u \in Users : UserRequest(u)
  \/ \E s \in Schedulers : SchedulerRuns(s) \/ SchedulerFails(s)
  \/ \E w \in Workers : WorkerRuns(w) \/ WorkerFails(w)
  \/ \E m \in Messages : QueueRuns(m) \/ QueueOvertakes(m)

Spec == Init /\ [][Next]_vars

(***************************************************************************)
(* EventBridge invokes the scheduler every minute and a Lambda runs until  *)
(* it ends; the event source mapping polls; visibility timeouts and the    *)
(* redrive policy act.  No fault is fair, nor is any user request.         *)
(***************************************************************************)
Fairness ==
  /\ WF_vars(ClockTicks)
  /\ \A s \in Schedulers : WF_vars(SchedulerRuns(s))
  /\ \A w \in Workers : WF_vars(WorkerRuns(w))
  /\ \A m \in Messages : WF_vars(QueueRuns(m))

FairSpec == Spec /\ Fairness

-----------------------------------------------------------------------------
TypeOK ==
  /\ PlatformTypeOK
  /\ DatabaseTypeOK
  /\ QueueTypeOK
  /\ SchedulerTypeOK
  /\ WorkerTypeOK

\* A version counts the transitions of its row: claimed once, settled once.  Two
\* claims of one event, or an update over a newer row, would break the count.
VersionTracksStatus ==
  \A e \in EventIds :
    /\ rows[e].status = "PENDING"    => rows[e].version = 1
    /\ rows[e].status = "PROCESSING" => rows[e].version = 2
    /\ rows[e].status \in Settled    => rows[e].version = 3

\* An event is in the hands of one scheduler only, from the row lock to the last
\* send: what FOR UPDATE SKIP LOCKED is there for.
ClaimsAreExclusive ==
  \A s, t \in Schedulers :
    /\ s # t
    /\ sched[s].pc \in {"mark", "send"}
    /\ sched[t].pc \in {"mark", "send"}
    => sched[s].todo \cap sched[t].todo = {}

\* A completed event was accepted by its receiver, whatever crashed or was
\* repeated in between.
CompletedWasAccepted ==
  \A e \in EventIds : rows[e].status = "COMPLETED" => accepted[e] > 0

\* Next year's event exists only after the worker completed this year's.
FollowerNeedsCompletion ==
  \A f \in EventIds :
    Live(f) /\ rows[f].payload = "messageOnly" =>
      \E e \in EventIds :
        /\ rows[e].status = "COMPLETED"
        /\ rows[e].user = rows[f].user
        /\ NextYear(rows[e].target) = rows[f].target

\* A user never has two events waiting or in progress: the order of update and
\* create, the optimistic lock and the unique key together keep the chain single.
OneOpenEventPerUser ==
  \A e, f \in EventIds :
    /\ rows[e].status \in {"PENDING", "PROCESSING"}
    /\ rows[f].status \in {"PENDING", "PROCESSING"}
    /\ rows[e].user = rows[f].user
    => e = f

\* The receiver accepts an event more than once only if it was queued more than
\* once or a fault made SQS hand it out again.
RepeatsHaveACause ==
  \A e \in EventIds :
    accepted[e] <= Cardinality({c \in Copies : queue[<<e, c>>].state # "unsent"})
                     + faults.worker

\* As long as no scheduler fails, an event that was claimed and not settled is
\* about to be queued or has a message that was not consumed.
ClaimedIsTracked ==
  \A e \in EventIds :
    rows[e].status = "PROCESSING" =>
      \/ \E s \in Schedulers : sched[s].pc = "send" /\ e \in sched[s].todo
      \/ \E c \in Copies : queue[<<e, c>>].state \in {"visible", "inflight", "dead"}

\* COMPLETED and FAILED rows are history: nothing writes them again, only the
\* deletion of the user removes them.
SettledRowsNeverChange ==
  [][\A e \in EventIds :
       rows[e].status \in Settled =>
         rows'[e] = rows[e] \/ rows'[e] = [rows[e] EXCEPT !.status = "GONE"]]_vars

\* The open claim transactions hold exactly the row locks: none is left behind by a
\* rollback or a crash, and a held row is still PENDING.
LocksAreHeld ==
  \A e \in EventIds :
    /\ e \in locked <=> \E s \in Schedulers : sched[s].pc = "mark" /\ e \in sched[s].todo
    /\ e \in locked => rows[e].status = "PENDING"

\* What a scheduler still has to send was committed as claimed, and no undone claim
\* is left over for the next invocation.
SendsAreClaimed ==
  \A s \in Schedulers :
    /\ sched[s].pc = "send" => \A e \in sched[s].todo : rows[e].status \notin {"NONE", "PENDING"}
    /\ sched[s].pc \in {"idle", "recover", "claim"} => sched[s].todo = {}

\* A worker acts on a copy that it read in PROCESSING.  The row may have moved on or
\* be erased by now, it never went back; past the webhook call it was accepted.
CopiesAreClaimed ==
  \A w \in Workers : worker[w].pc \notin {"idle", "next"} =>
    /\ worker[w].msg \in Messages
    /\ worker[w].ev.status = "PROCESSING" /\ worker[w].ev.version = 2
    /\ rows[Current(w)].status \notin {"NONE", "PENDING"}
    /\ worker[w].pc \in {"findUser", "complete", "completeOnly"} => accepted[Current(w)] > 0

\* An id is used for one row only, ever.
IdsAreFresh == \A e \in EventIds : e > lastId => rows[e].status = "NONE"

\* The inductive invariant behind claims, versions and deliveries.
Inv ==
  /\ TypeOK
  /\ IdsAreFresh
  /\ VersionTracksStatus
  /\ CompletedWasAccepted
  /\ LocksAreHeld
  /\ ClaimsAreExclusive
  /\ SendsAreClaimed
  /\ CopiesAreClaimed

\* Only what cannot be delivered ends in the dead letter queue undelivered.
NoDeliverableIsDead ==
  \A m \in Messages :
    queue[m].state = "dead" /\ rows[m[1]].status = "PROCESSING"
    => ~WebhookPayloadValid(rows[m[1]].payload)

\* The webhook receiver is called with success at most once per event.
AcceptedAtMostOnce == \A e \in EventIds : accepted[e] <= 1

\* Next year's event exists, or the worker that completed e is about to create it.
IsFollowed(e) ==
  \/ \E w \in Workers : worker[w].pc = "create" /\ Current(w) = e
  \/ \E f \in EventIds : /\ Live(f)
                          /\ rows[f].user = rows[e].user
                          /\ rows[f].target = NextYear(rows[e].target)

Unfollowed == {e \in EventIds : rows[e].status = "COMPLETED" /\ ~IsFollowed(e)}

\* Completing an event and creating next year's are one step to everyone but the
\* worker that is between the two.
CompletionIsFollowed == Unfollowed = {}

\* A worker fault, which may come between the two statements, costs one next year's
\* event at most; nothing else does, redelivery and a second worker included.
LostFollowersHaveACause == Cardinality(Unfollowed) <= faults.worker

\* Whatever waits to be executed carries a payload the worker can deliver.
WaitingIsDeliverable ==
  \A e \in EventIds :
    rows[e].status = "PENDING" => WebhookPayloadValid(rows[e].payload)

-----------------------------------------------------------------------------
\* Every due event is claimed some day, or its user is deleted first.
DueIsClaimed ==
  \A e \in EventIds : (e \in ReadyEvents) ~> (rows[e].status # "PENDING")

\* Every due event the worker can deliver is settled some day, or erased.
DeliverableSettles ==
  \A e \in EventIds :
    (e \in ReadyEvents /\ WebhookPayloadValid(rows[e].payload))
      ~> (rows[e].status \in Settled \cup {"GONE"})

\* No message circulates for ever: it is deleted or dead-lettered.
MessagesAreDisposed ==
  \A m \in Messages : (queue[m].state = "visible") ~> (queue[m].state \in {"deleted", "dead"})

-----------------------------------------------------------------------------
\* The ids whose next-year event was created.
Followed ==
  {e \in EventIds : \E f \in EventIds :
     /\ rows[f].status # "NONE"
     /\ rows[f].user = rows[e].user
     /\ rows[f].target = NextYear(rows[e].target)}

Lifecycle == INSTANCE EventLifecycle WITH
  Ids       <- EventIds,
  phase     <- [e \in EventIds |-> rows[e].status],
  delivered <- {e \in EventIds : accepted[e] > 0},
  followed  <- Followed

\* Every step of the pipeline is one the lifecycle allows, or changes nothing of it.
ImplementsLifecycle == Lifecycle!Spec
=============================================================================
