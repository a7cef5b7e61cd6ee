-------------------------- MODULE SchedulerLambda --------------------------
(***************************************************************************)
(* The scheduler Lambda: schedulerHandler.ts with RecoveryService,         *)
(* ClaimReadyEventsUseCase, claimReadyEvents and SQSAdapter.  Any number   *)
(* of instances run at once; one step is what happens between two awaits   *)
(* another process can observe.                                            *)
(*                                                                         *)
(* idle -> recover -> queueMissed -> claim -> mark -> send -> idle; a warm *)
(* instance starts at claim.                                               *)
(***************************************************************************)
EXTENDS SqsQueue

CONSTANTS Schedulers,     \* the scheduler Lambda instances
          ClaimLimit,     \* 100 in ClaimReadyEventsUseCase
          RecoveryLimit   \* MAX_RECOVERY_BATCH_SIZE, 1000

ASSUME LimitAssumption == ClaimLimit \in Nat \ {0} /\ RecoveryLimit \in Nat \ {0}

VARIABLE sched   \* per instance: where it is, the events it still has to handle, recoveryCheckComplete

SchedulerPcs == {"idle", "recover", "queueMissed", "claim", "mark", "send"}

SchedulerTypeOK ==
  sched \in [Schedulers -> [pc   : SchedulerPcs,
                            todo : SUBSET EventIds,
                            warm : BOOLEAN]]

SchedulerInit ==
  sched = [s \in Schedulers |-> [pc |-> "idle", todo |-> {}, warm |-> FALSE]]

GoTo(s, pc, todo) ==
  sched' = [sched EXCEPT ![s] = [@ EXCEPT !.pc = pc, !.todo = todo]]

\* The loops over claimed or missed events go from the earliest target on.
NextUp(s) ==
  {e \in sched[s].todo : \A f \in sched[s].todo : rows[e].target <= rows[f].target}

\* sendMessage may report an error although the message was queued.
SendReportsError(e) == sendMessage(e) \/ UNCHANGED queue

-----------------------------------------------------------------------------
\* EventBridge invokes the handler; a cold start runs recovery first.
Invoke(s) ==
  /\ sched[s].pc = "idle"
  /\ GoTo(s, IF sched[s].warm THEN "claim" ELSE "recover", {})
  /\ UNCHANGED <<platformVars, databaseVars, queue>>

\* RecoveryService reads the missed events, without claiming them.
FindMissedEvents(s) ==
  /\ sched[s].pc = "recover"
  /\ \E B \in EarliestFirst(MissedEvents, RecoveryLimit) : GoTo(s, "queueMissed", B)
  /\ UNCHANGED <<platformVars, databaseVars, queue>>

\* RecoveryService queues the next missed event as it was read.
QueueMissed(s) ==
  /\ sched[s].pc = "queueMissed"
  /\ \E e \in NextUp(s) : sendMessage(e) /\ GoTo(s, "queueMissed", sched[s].todo \ {e})
  /\ UNCHANGED <<platformVars, databaseVars>>

\* A failed send is counted and the loop continues.
QueueMissedFails(s) ==
  /\ sched[s].pc = "queueMissed"
  /\ \E e \in NextUp(s) : SendReportsError(e) /\ GoTo(s, "queueMissed", sched[s].todo \ {e})
  /\ SchedulerFault
  /\ UNCHANGED databaseVars

\* Mutant: the handler returns after recovery and stays cold.
RecoveryDoneReturns(s) ==
  /\ sched[s].pc = "queueMissed" /\ sched[s].todo = {}
  /\ GoTo(s, "idle", {})
  /\ UNCHANGED <<platformVars, databaseVars, queue>>

\* recoveryCheckComplete becomes true; the handler goes on to claim.
RecoveryDone(s) ==
  /\ sched[s].pc = "queueMissed" /\ sched[s].todo = {}
  /\ sched' = [sched EXCEPT ![s] = [@ EXCEPT !.pc = "claim", !.warm = TRUE]]
  /\ UNCHANGED <<platformVars, databaseVars, queue>>

\* runRecoveryOnStartup never throws: the check counts as complete all the same.
RecoveryFails(s) ==
  /\ sched[s].pc = "recover"
  /\ sched' = [sched EXCEPT ![s] = [@ EXCEPT !.pc = "claim", !.warm = TRUE]]
  /\ SchedulerFault
  /\ UNCHANGED <<databaseVars, queue>>

-----------------------------------------------------------------------------
\* Mutant: no FOR UPDATE SKIP LOCKED.
SelectWithoutLock(s) ==
  /\ sched[s].pc = "claim"
  /\ \E B \in EarliestFirst(ReadyEvents, ClaimLimit) :
       /\ GoTo(s, IF B = {} THEN "idle" ELSE "mark", B)
       /\ locked' = locked \cup B
  /\ UNCHANGED <<platformVars, users, rows, lastId, queue>>

\* SELECT ... ORDER BY ... LIMIT ... FOR UPDATE SKIP LOCKED.
SelectForUpdate(s) ==
  /\ sched[s].pc = "claim"
  /\ \E B \in EarliestFirst(ReadyEvents \ locked, ClaimLimit) :
       /\ GoTo(s, IF B = {} THEN "idle" ELSE "mark", B)
       /\ locked' = locked \cup B
  /\ UNCHANGED <<platformVars, users, rows, lastId, queue>>

\* UPDATE to PROCESSING and COMMIT: the claim is durable, nothing is queued yet.
MarkProcessing(s) ==
  /\ sched[s].pc = "mark"
  /\ ToProcessing(sched[s].todo)
  /\ locked' = locked \ sched[s].todo
  /\ sched' = [sched EXCEPT ![s].pc = "send"]
  /\ UNCHANGED <<platformVars, users, lastId, queue>>

\* Mutant: the transaction stays open.
ClaimFailsWithoutRollback(s) ==
  /\ sched[s].pc \in {"claim", "mark"}
  /\ GoTo(s, "idle", {})
  /\ SchedulerFault
  /\ UNCHANGED <<users, rows, lastId, locked, queue>>

\* The transaction fails and rolls back; the handler logs and returns.
ClaimFails(s) ==
  /\ sched[s].pc \in {"claim", "mark"}
  /\ locked' = locked \ sched[s].todo
  /\ GoTo(s, "idle", {})
  /\ SchedulerFault
  /\ UNCHANGED <<users, rows, lastId, queue>>

\* One turn of the send loop.
SendClaimed(s) ==
  /\ sched[s].pc = "send"
  /\ \E e \in NextUp(s) :
       LET rest == sched[s].todo \ {e}
       IN  sendMessage(e) /\ GoTo(s, IF rest = {} THEN "idle" ELSE "send", rest)
  /\ UNCHANGED <<platformVars, databaseVars>>

\* The first failed send leaves the loop; the handler swallows the error and
\* the events not sent yet stay as the claim committed them.
SendFails(s) ==
  /\ sched[s].pc = "send"
  /\ \E e \in NextUp(s) : SendReportsError(e)
  /\ GoTo(s, "idle", {})
  /\ SchedulerFault
  /\ UNCHANGED databaseVars

\* The container crashes, times out or is recycled: an open transaction rolls
\* back and the next invocation is a cold start.
SchedulerStops(s) ==
  /\ sched[s].pc # "idle" \/ sched[s].warm
  /\ locked' = IF sched[s].pc = "mark" THEN locked \ sched[s].todo ELSE locked
  /\ sched' = [sched EXCEPT ![s] = [pc |-> "idle", todo |-> {}, warm |-> FALSE]]
  /\ SchedulerFault
  /\ UNCHANGED <<users, rows, lastId, queue>>
=============================================================================
