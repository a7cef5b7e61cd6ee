---------------------------- MODULE EventEntity ----------------------------
(***************************************************************************)
(* The Event entity and its status machine: records and the functions that *)
(* return a changed copy, as Event.ts and EventStatus.ts define them.      *)
(*                                                                         *)
(* A row of the events table and an entity in a Lambda's memory are the    *)
(* same record.  Two statuses exist only here: "NONE", an id no row ever   *)
(* had, and "GONE", an id whose row was deleted (its other fields keep     *)
(* their last value so that history can still be spoken of).               *)
(***************************************************************************)
EXTENDS Integers

CONSTANTS Users,   \* the users that may register
          NoUser,  \* stands for "no user" in an id that has no row
          Year     \* the time between two birthdays

ASSUME NoUserAssumption == NoUser \notin Users
ASSUME YearAssumption == Year \in Nat \ {0}

EventStatus == {"PENDING", "PROCESSING", "COMPLETED", "FAILED"}

Settled == {"COMPLETED", "FAILED"}

VALID_TRANSITIONS ==
  [from \in EventStatus |->
     CASE from = "PENDING"    -> {"PROCESSING"}
       [] from = "PROCESSING" -> {"COMPLETED", "FAILED"}
       [] OTHER               -> {}]

isValidTransition(from, to) ==
  from \in EventStatus /\ to \in VALID_TRANSITIONS[from]

(***************************************************************************)
(* Times are numbers of clock ticks, counted from the first one seen; a    *)
(* timezone can put one before it.  The idempotency key is what the code   *)
(* hashes, the pair of user and target.  local is the instant of           *)
(* targetTimestampLocal, whose zone no row keeps.  "complete" is a payload *)
(* with message and webhookUrl, "messageOnly" one without webhookUrl.      *)
(***************************************************************************)
Payloads == {"complete", "messageOnly", "none"}

Event == [user       : Users \cup {NoUser},
          status     : EventStatus \cup {"NONE", "GONE"},
          target     : Int,
          local      : Int,
          version    : Nat,
          retryCount : Nat,
          key        : (Users \cup {NoUser}) \X Int,
          payload    : Payloads]

NoEvent == [user |-> NoUser, status |-> "NONE", target |-> 0, local |-> 0,
            version |-> 0, retryCount |-> 0, key |-> <<NoUser, 0>>, payload |-> "none"]

IdempotencyKey(u, target) == <<u, target>>

PendingEvent(u, target, payload) ==
  [user |-> u, status |-> "PENDING", target |-> target, local |-> target,
   version |-> 1, retryCount |-> 0, key |-> IdempotencyKey(u, target), payload |-> payload]

\* The birthdays that may come next after time t, and the one after a birthday.
NextOccurrences(t) == t + 1 .. t + Year
NextYear(target) == target + Year

\* What WebhookPayloadSchema.parse accepts.
WebhookPayloadValid(payload) == payload = "complete"

markCompleted(ev) ==
  [ev EXCEPT !.status = "COMPLETED", !.version = @ + 1]

\* Mutant: the retry count runs the wrong way.
markFailedCountsDown(ev) ==
  [ev EXCEPT !.status = "FAILED", !.retryCount = @ - 1, !.version = @ + 1]

markFailed(ev) ==
  [ev EXCEPT !.status = "FAILED", !.retryCount = @ + 1, !.version = @ + 1]

\* Only a PENDING event may be rescheduled.  Key and payload stay what they were.
CanReschedule(ev) == ev.status = "PENDING"

reschedule(ev, target, local) ==
  [ev EXCEPT !.target = target, !.local = local, !.version = @ + 1]
=============================================================================
