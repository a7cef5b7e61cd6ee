---------------------------- MODULE UserContext ----------------------------
(***************************************************************************)
(* The user requests that start and end a chain of birthday events:        *)
(* CreateUserUseCase and DeleteUserUseCase, with the handlers the event    *)
(* bus calls for UserCreated and UserDeleted.                              *)
(***************************************************************************)
EXTENDS Database

\* userRepository.create; UserCreated is published right after.
CreateUser(u) ==
  /\ users[u] = "absent"
  /\ users' = [users EXCEPT ![u] = "saved"]
  /\ UNCHANGED <<platformVars, rows, lastId, locked>>

\* The handler of UserCreated creates the event of the next birthday.
CreateBirthdayEventAt(u, target) ==
  /\ users[u] = "saved"
  /\ create(PendingEvent(u, target, "complete"))
  /\ users' = [users EXCEPT ![u] = "announced"]
  /\ UNCHANGED <<platformVars, locked>>

\* Without a calendar, any tick of the year ahead may be the birthday.
CreateBirthdayEvent(u) ==
  \E target \in NextOccurrences(now) : CreateBirthdayEventAt(u, target)

\* The handler throws or its process dies: the event bus logs, nothing is retried.
CreateBirthdayEventFails(u) ==
  /\ users[u] = "saved"
  /\ users' = [users EXCEPT ![u] = "announced"]
  /\ UNCHANGED <<platformVars, rows, lastId, locked>>

\* userRepository.delete with its cascade, which waits for row locks.  The handler
\* of UserDeleted deletes the user's events again and finds none.
DeleteUser(u) ==
  /\ UserExists(u)
  /\ \A e \in locked : rows[e].user # u
  /\ users' = [users EXCEPT ![u] = "deleted"]
  /\ CascadeDelete(u)
  /\ UNCHANGED <<platformVars, lastId, locked>>
=============================================================================
