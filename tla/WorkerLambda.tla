---------------------------- MODULE WorkerLambda ----------------------------
(***************************************************************************)
(* The worker Lambda: workerHandler.ts with ExecuteEventUseCase, and the   *)
(* webhook receiver it calls.  An invocation gets a batch of messages and  *)
(* handles them one by one; the first record that throws ends the whole    *)
(* invocation and none of its messages is deleted.                         *)
(*                                                                         *)
(* idle -> next -> deliver -> findUser -> complete -> create -> next ...,  *)
(* with fail after a 4xx and completeOnly when the user is gone.           *)
(***************************************************************************)
EXTENDS SqsQueue

CONSTANTS NoMessage,      \* stands for "no record in hand"
          WebhookRetries  \* the retries of one deliver: 3 in WebhookAdapter

ASSUME NoMessageAssumption == NoMessage \notin Messages
ASSUME RetriesAssumption == WebhookRetries \in Nat

VARIABLES worker,    \* per instance: where it is, batch, what is left of it, entity read, retries
          accepted   \* external: how often the receiver accepted the webhook of an event

workerVars == <<worker, accepted>>

WorkerPcs ==
  {"idle", "next", "deliver", "findUser", "complete", "completeOnly", "create", "fail"}

WorkerTypeOK ==
  /\ worker \in [Workers -> [pc      : WorkerPcs,
                             batch   : SUBSET Messages,
                             todo    : SUBSET Messages,
                             msg     : Messages \cup {NoMessage},
                             ev      : Event,
                             retries : Nat]]
  /\ accepted \in [EventIds -> Nat]

IdleWorker ==
  [pc |-> "idle", batch |-> {}, todo |-> {}, msg |-> NoMessage, ev |-> NoEvent,
   retries |-> 0]

WorkerInit ==
  /\ worker = [w \in Workers |-> IdleWorker]
  /\ accepted = [e \in EventIds |-> 0]

\* The event whose message w is handling.
Current(w) == worker[w].msg[1]

\* w has an invocation running that holds message m.
BusyWith(w, m) == w \in Workers /\ worker[w].pc # "idle" /\ m \in worker[w].batch

WorkerGoTo(w, pc) == worker' = [worker EXCEPT ![w].pc = pc]

\* processRecord returns: on to the next record of the batch.
Return(w) ==
  worker' = [worker EXCEPT ![w] = [@ EXCEPT !.pc   = "next",
                                            !.todo = worker[w].todo \ {worker[w].msg},
                                            !.msg  = NoMessage,
                                            !.ev   = NoEvent]]

\* processRecord throws: the handler ends, and the batch stays in the queue.
Throw(w) == worker' = [worker EXCEPT ![w] = IdleWorker]

-----------------------------------------------------------------------------
\* The event source mapping invokes the handler with a batch.
Receive(w) ==
  /\ worker[w].pc = "idle"
  /\ \E B \in (SUBSET Receivable) \ {{}} :
       /\ Cardinality(B) <= BatchSize
       /\ receiveMessages(w, B)
       /\ worker' = [worker EXCEPT ![w] = [@ EXCEPT !.pc = "next", !.batch = B, !.todo = B]]
  /\ UNCHANGED <<platformVars, databaseVars, accepted>>

\* findById finds no row, or a row that is not PROCESSING: the record is done.
SkipRecord(w) ==
  /\ worker[w].pc = "next"
  /\ \E m \in worker[w].todo :
       /\ rows[m[1]].status # "PROCESSING"
       /\ worker' = [worker EXCEPT ![w].todo = @ \ {m}]
  /\ UNCHANGED <<platformVars, databaseVars, queue, accepted>>

\* The payload is not a WebhookPayload: the validation error is rethrown.
RejectPayload(w) ==
  /\ worker[w].pc = "next"
  /\ \E m \in worker[w].todo :
       /\ rows[m[1]].status = "PROCESSING"
       /\ ~WebhookPayloadValid(rows[m[1]].payload)
  /\ Throw(w)
  /\ UNCHANGED <<platformVars, databaseVars, queue, accepted>>

\* Mutant: the status is not looked at.
StartRecordUnchecked(w) ==
  /\ worker[w].pc = "next"
  /\ \E m \in worker[w].todo :
       /\ WebhookPayloadValid(rows[m[1]].payload)
       /\ worker' = [worker EXCEPT ![w] = [@ EXCEPT !.pc      = "deliver",
                                                   !.msg     = m,
                                                   !.ev      = rows[m[1]],
                                                   !.retries = 0]]
  /\ UNCHANGED <<platformVars, databaseVars, queue, accepted>>

\* The entity is read; from here on the worker uses this copy.
StartRecord(w) ==
  /\ worker[w].pc = "next"
  /\ \E m \in worker[w].todo :
       /\ rows[m[1]].status = "PROCESSING"
       /\ WebhookPayloadValid(rows[m[1]].payload)
       /\ worker' = [worker EXCEPT ![w] = [@ EXCEPT !.pc      = "deliver",
                                                   !.msg     = m,
                                                   !.ev      = rows[m[1]],
                                                   !.retries = 0]]
  /\ UNCHANGED <<platformVars, databaseVars, queue, accepted>>

-----------------------------------------------------------------------------
\* deliver returns: the receiver answered 2xx.
DeliverAccepted(w) ==
  /\ worker[w].pc = "deliver"
  /\ accepted' = [accepted EXCEPT ![Current(w)] = @ + 1]
  /\ WorkerGoTo(w, "findUser")
  /\ UNCHANGED <<platformVars, databaseVars, queue>>

\* Mutant: a 4xx answer counts as delivered.
DeliverRejectedAsSuccess(w) ==
  /\ worker[w].pc = "deliver"
  /\ WorkerGoTo(w, "findUser")
  /\ UNCHANGED <<platformVars, databaseVars, queue, accepted>>

\* deliver throws PermanentDeliveryError: the receiver answered 4xx.
DeliverRejected(w) ==
  /\ worker[w].pc = "deliver"
  /\ WorkerGoTo(w, "fail")
  /\ UNCHANGED <<platformVars, databaseVars, queue, accepted>>

\* An attempt ends in a network error or 5xx and the call is sent again; the
\* receiver may have accepted the first one all the same.
RetryDelivery(w) ==
  /\ worker[w].pc = "deliver"
  /\ worker[w].retries < WebhookRetries
  /\ \/ accepted' = [accepted EXCEPT ![Current(w)] = @ + 1]
     \/ UNCHANGED accepted
  /\ worker' = [worker EXCEPT ![w].retries = @ + 1]
  /\ WorkerFault
  /\ UNCHANGED <<databaseVars, queue>>

\* deliver throws InfrastructureError (retries used up, a timeout, an unreadable
\* 2xx body): the receiver may have accepted the last attempt or not.
DeliverFails(w) ==
  /\ worker[w].pc = "deliver"
  /\ \/ accepted' = [accepted EXCEPT ![Current(w)] = @ + 1]
     \/ UNCHANGED accepted
  /\ Throw(w)
  /\ WorkerFault
  /\ UNCHANGED <<databaseVars, queue>>

\* Mutant: the failed entity is not persisted.
MarkFailedInMemory(w) ==
  /\ worker[w].pc = "fail"
  /\ isValidTransition(worker[w].ev.status, "FAILED")
  /\ Return(w)
  /\ UNCHANGED <<platformVars, databaseVars, queue, accepted>>

\* markFailed and update; a version conflict throws OptimisticLockError.
MarkFailed(w) ==
  /\ worker[w].pc = "fail"
  /\ LET failed == markFailed(worker[w].ev)
     IN  /\ isValidTransition(worker[w].ev.status, "FAILED")
         /\ IF UpdateMatches(Current(w), failed)
            THEN update(Current(w), failed) /\ Return(w)
            ELSE UNCHANGED rows /\ Throw(w)
  /\ UNCHANGED <<platformVars, users, lastId, locked, queue, accepted>>

-----------------------------------------------------------------------------
\* Mutant: next year's event comes first.
FindUserCreatesFirst(w) ==
  /\ worker[w].pc = "findUser"
  /\ WorkerGoTo(w, IF UserExists(worker[w].ev.user) THEN "create" ELSE "completeOnly")
  /\ UNCHANGED <<platformVars, databaseVars, queue, accepted>>

\* Mutant: the user is never found.
FindUserMisses(w) ==
  /\ worker[w].pc = "findUser"
  /\ WorkerGoTo(w, "completeOnly")
  /\ UNCHANGED <<platformVars, databaseVars, queue, accepted>>

\* generateNextYearEventAndComplete looks the user up.
FindUser(w) ==
  /\ worker[w].pc = "findUser"
  /\ WorkerGoTo(w, IF UserExists(worker[w].ev.user) THEN "complete" ELSE "completeOnly")
  /\ UNCHANGED <<platformVars, databaseVars, queue, accepted>>

\* Mutant: the version conflict is swallowed.
CompleteEventAnyway(w) ==
  /\ worker[w].pc \in {"complete", "completeOnly"}
  /\ LET completed == markCompleted(worker[w].ev)
     IN  IF UpdateMatches(Current(w), completed)
         THEN update(Current(w), completed)
         ELSE UNCHANGED rows
  /\ IF worker[w].pc = "complete" THEN WorkerGoTo(w, "create") ELSE Return(w)
  /\ UNCHANGED <<platformVars, users, lastId, locked, queue, accepted>>

\* update(completedEvent); a version conflict throws OptimisticLockError.
CompleteEvent(w) ==
  /\ worker[w].pc \in {"complete", "completeOnly"}
  /\ LET completed == markCompleted(worker[w].ev)
     IN  /\ isValidTransition(worker[w].ev.status, "COMPLETED")
         /\ IF UpdateMatches(Current(w), completed)
            THEN /\ update(Current(w), completed)
                 /\ IF worker[w].pc = "complete" THEN WorkerGoTo(w, "create") ELSE Return(w)
            ELSE UNCHANGED rows /\ Throw(w)
  /\ UNCHANGED <<platformVars, users, lastId, locked, queue, accepted>>

\* create(nextYearEvent): a taken key is logged and skipped, any other error
\* (here the foreign key, when the user was deleted meanwhile) is rethrown.
CreateFollower(w, target) ==
  /\ worker[w].pc = "create"
  /\ LET next == PendingEvent(worker[w].ev.user, target, "messageOnly")
     IN  CASE ~UserExists(next.user)   -> Throw(w) /\ UNCHANGED <<rows, lastId>>
           [] UserExists(next.user) /\ KeyTaken(next.key)
                                       -> Return(w) /\ UNCHANGED <<rows, lastId>>
           [] OTHER                    -> Return(w) /\ create(next)
  /\ UNCHANGED <<platformVars, users, locked, queue, accepted>>

\* As long as the user is what it was, the next occurrence is a year later.
CreateNextYear(w) == CreateFollower(w, NextYear(worker[w].ev.target))

\* The handler returns: Lambda deletes the messages of the batch.
Finish(w) ==
  /\ worker[w].pc = "next" /\ worker[w].todo = {}
  /\ deleteMessages(w, worker[w].batch)
  /\ worker' = [worker EXCEPT ![w] = IdleWorker]
  /\ UNCHANGED <<platformVars, databaseVars, accepted>>

\* The invocation crashes, reaches its 60 s limit, or a database call throws.
WorkerStops(w) ==
  /\ worker[w].pc # "idle"
  /\ Throw(w)
  /\ WorkerFault
  /\ UNCHANGED <<databaseVars, queue, accepted>>

-----------------------------------------------------------------------------
\* The visibility timeout of a message whose invocation ended without deleting it.
VisibilityTimeout(m) ==
  /\ queue[m].state = "inflight"
  /\ ~BusyWith(queue[m].holder, m)
  /\ MakeVisible(m)
  /\ UNCHANGED <<platformVars, databaseVars, workerVars>>

\* The visibility timeout (30 s) passes while the invocation (60 s) still runs.
VisibilityTimeoutEarly(m) ==
  /\ queue[m].state = "inflight"
  /\ BusyWith(queue[m].holder, m)
  /\ MakeVisible(m)
  /\ WorkerFault
  /\ UNCHANGED <<databaseVars, workerVars>>

\* The redrive policy.
Redrive(m) ==
  /\ MoveToDlq(m)
  /\ UNCHANGED <<platformVars, databaseVars, workerVars>>
=============================================================================
