------------------------------ MODULE SqsQueue ------------------------------
(***************************************************************************)
(* The SQS standard queue with its dead letter queue, as SQSAdapter, the   *)
(* event source mapping and the queue's attributes use it: unordered,      *)
(* at least once, a receive count per message.                             *)
(*                                                                         *)
(* A message is a pair <<event id, copy>>: sending the same event again    *)
(* makes another copy.  A slot is used once, as message ids are.           *)
(***************************************************************************)
EXTENDS Database

CONSTANTS Copies,           \* bound of the number of times one event is ever queued
          Workers,          \* the worker Lambda instances
          NoWorker,         \* stands for "never received"
          MaxReceiveCount,  \* redrive policy: 3 in the deployment
          BatchSize         \* event source mapping: 10 in the deployment

ASSUME QueueAssumption ==
  /\ NoWorker \notin Workers
  /\ MaxReceiveCount \in Nat \ {0}
  /\ BatchSize \in Nat \ {0}

VARIABLE queue

Messages == EventIds \X Copies

SlotStates == {"unsent", "visible", "inflight", "dead", "deleted"}

QueueTypeOK ==
  queue \in [Messages -> [state    : SlotStates,
                          receives : Nat,
                          holder   : Workers \cup {NoWorker}]]

QueueInit ==
  queue = [m \in Messages |->
             [state |-> "unsent", receives |-> 0, holder |-> NoWorker]]

sendMessage(e) ==
  \E c \in Copies :
    /\ queue[<<e, c>>].state = "unsent"
    /\ queue' = [queue EXCEPT ![<<e, c>>].state = "visible"]

\* The messages a poll may return.
Receivable ==
  {m \in Messages : queue[m].state = "visible" /\ queue[m].receives < MaxReceiveCount}

receiveMessages(w, B) ==
  queue' = [m \in Messages |->
              IF m \in B
              THEN [state |-> "inflight", receives |-> queue[m].receives + 1, holder |-> w]
              ELSE queue[m]]

MakeVisible(m) == queue' = [queue EXCEPT ![m].state = "visible"]

\* Mutant: off by one against Receivable.
MoveToDlqLate(m) ==
  /\ queue[m].state = "visible"
  /\ queue[m].receives > MaxReceiveCount
  /\ queue' = [queue EXCEPT ![m].state = "dead"]

\* A message that was received MaxReceiveCount times goes to the dead letter
\* queue instead of being received again.  Nothing consumes that queue.
MoveToDlq(m) ==
  /\ queue[m].state = "visible"
  /\ queue[m].receives >= MaxReceiveCount
  /\ queue' = [queue EXCEPT ![m].state = "dead"]

\* Lambda deletes the batch B of an invocation of w that returned normally.
\* With the receipt handle of an earlier receive, SQS may or may not delete.
deleteMessages(w, B) ==
  LET stale == {m \in B : queue[m].holder # w /\ queue[m].state # "dead"}
      fresh == {m \in B : queue[m].holder = w /\ queue[m].state # "dead"}
  IN  \E D \in SUBSET stale :
        queue' = [m \in Messages |->
                    IF m \in fresh \cup D
                    THEN [queue[m] EXCEPT !.state = "deleted"]
                    ELSE queue[m]]
=============================================================================
