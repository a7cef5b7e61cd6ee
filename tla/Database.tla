------------------------------ MODULE Database ------------------------------
(***************************************************************************)
(* PostgreSQL as PrismaEventRepository uses it: the users table, the       *)
(* events table with its optimistic lock and unique key, and the row locks *)
(* held by a claim transaction that has not committed.                     *)
(***************************************************************************)
EXTENDS EventEntity, Platform, FiniteSets

CONSTANT MaxEvents   \* bound of the number of events ever created

ASSUME MaxEventsAssumption == MaxEvents \in Nat

VARIABLES users,   \* users[u]: how far u's registration has come
          rows,    \* the events table
          lastId,  \* ids are random UUIDs in the code: here 1, 2, ..., never reused
          locked   \* the ids of the rows an open transaction holds FOR UPDATE

databaseVars == <<users, rows, lastId, locked>>

EventIds == 1 .. MaxEvents

UserStates == {"absent", "saved", "announced", "deleted"}

DatabaseTypeOK ==
  /\ users \in [Users -> UserStates]
  /\ rows \in [EventIds -> Event]
  /\ lastId \in 0 .. MaxEvents
  /\ locked \in SUBSET EventIds

DatabaseInit ==
  /\ users = [u \in Users |-> "absent"]
  /\ rows = [e \in EventIds |-> NoEvent]
  /\ lastId = 0
  /\ locked = {}

\* The row of the users table exists.
UserExists(u) == u \in Users /\ users[u] \in {"saved", "announced"}

\* The row of the events table exists.
Live(e) == rows[e].status \in EventStatus

\* The candidates of claimReadyEvents, and of findMissedEvents.
ReadyEvents  == {e \in EventIds : rows[e].status = "PENDING" /\ rows[e].target <= now}
MissedEvents == {e \in EventIds : rows[e].status = "PENDING" /\ rows[e].target < now}

\* ORDER BY target_timestamp_utc ASC LIMIT n: the possible results over S.
EarliestFirst(S, n) ==
  {B \in SUBSET S :
     /\ Cardinality(B) = IF Cardinality(S) < n THEN Cardinality(S) ELSE n
     /\ \A b \in B, c \in S \ B : rows[b].target <= rows[c].target}

\* The unique index on idempotency_key.
KeyTaken(key) == \E e \in EventIds : Live(e) /\ rows[e].key = key

create(ev) ==
  /\ lastId < MaxEvents
  /\ lastId' = lastId + 1
  /\ rows' = [rows EXCEPT ![lastId + 1] = ev]

\* Mutant: the row is compared with the version that is about to be written.
UpdateMatchesNewVersion(e, ev) == Live(e) /\ rows[e].version = ev.version

\* Mutant: the version is left out of the WHERE clause.
UpdateMatchesAnyVersion(e, ev) == Live(e)

\* The WHERE clause of update: the row exists with the version the entity was read at.
UpdateMatches(e, ev) == Live(e) /\ rows[e].version = ev.version - 1

update(e, ev) ==
  rows' = [rows EXCEPT ![e] = [@ EXCEPT !.status     = ev.status,
                                        !.target     = ev.target,
                                        !.local      = ev.local,
                                        !.retryCount = ev.retryCount,
                                        !.version    = ev.version]]

\* Mutant: version is not incremented.
ToProcessingKeepsVersion(B) ==
  rows' = [e \in EventIds |->
             IF e \in B THEN [rows[e] EXCEPT !.status = "PROCESSING"] ELSE rows[e]]

\* The second statement of claimReadyEvents: updateMany on the selected ids.
ToProcessing(B) ==
  rows' = [e \in EventIds |->
             IF e \in B
             THEN [rows[e] EXCEPT !.status = "PROCESSING", !.version = @ + 1]
             ELSE rows[e]]

\* Deleting a user's row deletes its events (ON DELETE CASCADE).
CascadeDelete(u) ==
  rows' = [e \in EventIds |->
             IF Live(e) /\ rows[e].user = u
             THEN [rows[e] EXCEPT !.status = "GONE"]
             ELSE rows[e]]
=============================================================================
