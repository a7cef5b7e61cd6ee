------------------------------- MODULE System -------------------------------
(***************************************************************************)
(* The whole system: the delivery pipeline while users change their        *)
(* birthdays and timezones.  What the pipeline leaves open is decided by   *)
(* the users' profiles here: the first target, and the one that follows a  *)
(* completed event.                                                        *)
(***************************************************************************)
EXTENDS Delivery, UserUpdates

VARIABLES celebrant,  \* celebrant[w]: the user as worker w read it before it completes an event
          disturbed   \* history: the users whose events an update may have missed

systemVars == <<vars, updateVars, celebrant, disturbed>>

SystemInit ==
  /\ Init
  /\ UserUpdatesInit
  /\ celebrant = [w \in Workers |-> SomeProfile]
  /\ disturbed = {}

-----------------------------------------------------------------------------
\* POST /user and DELETE /user/:id.
Registration(u) ==
  /\ \/ /\ CreateUser(u)
        /\ \E p \in Profiles : profile' = [profile EXCEPT ![u] = p]
     \/ /\ \/ CreateBirthdayEventAt(u, Occurrence(profile[u], now))
           \/ CreateBirthdayEventFails(u)
           \/ DeleteUser(u)
        /\ UNCHANGED profile
  /\ UNCHANGED <<queue, sched, workerVars, request, updates, apiFaults, celebrant, disturbed>>

\* The handlers of an earlier update of u are still to move u's events.
Reschedules(q, u) == request[q].pc \in {"find", "store"} /\ request[q].user = u

\* Request r writes u over a change it never read, or while another one's events are
\* still to be moved.
Races(r, u) ==
  \/ profile[u] # request[r].old
  \/ \E q \in Requests \ {r} : Reschedules(q, u)

\* The stored local time is not the user's wall clock unless it was written in UTC.
LosesWallClock(req) ==
  /\ req.new.zone # req.old.zone
  /\ (IF req.moved THEN req.new.zone ELSE req.old.zone) # UTC

UpdateRuns(r) ==
  /\ \/ ReadUser(r)         /\ UNCHANGED disturbed
     \/ FindPending(r)      /\ UNCHANGED disturbed
     \/ StoreRescheduled(r) /\ UNCHANGED disturbed
     \/ /\ WriteUser(r)
        /\ LET u == request[r].user
           IN  disturbed' = IF Races(r, u) \/ LosesWallClock(request[r])
                            THEN disturbed \cup {u} ELSE disturbed
  /\ UNCHANGED <<queue, sched, workerVars, celebrant>>

UpdateFails(r) ==
  /\ RescheduleFails(r) \/ UpdateStops(r)
  /\ disturbed' = IF request[r].pc = "write" THEN disturbed
                                             ELSE disturbed \cup {request[r].user}
  /\ UNCHANGED <<queue, sched, workerVars, celebrant>>

-----------------------------------------------------------------------------
\* The handler of a timezone change is still to come: it will move an event that
\* was created for the new zone once more.
ZoneChangePending(u) ==
  \E r \in Requests : Reschedules(r, u) /\ request[r].new.zone # request[r].old.zone

\* The next occurrence after the stored local time, for the user as it was read.
FollowUp(w) ==
  LET u == worker[w].ev.user
  IN  /\ CreateFollower(w, Occurrence(celebrant[w], worker[w].ev.local))
      /\ celebrant' = [celebrant EXCEPT ![w] = SomeProfile]
      /\ disturbed' = IF celebrant[w] # profile[u] \/ ZoneChangePending(u)
                      THEN disturbed \cup {u} ELSE disturbed
      /\ UNCHANGED sched

\* Every other step of a worker; the lookup keeps the user's profile.
WorkerGoesOn(w) ==
  /\ worker[w].pc # "create"
  /\ WorkerRuns(w)
  /\ celebrant' = IF worker[w].pc = "findUser" /\ UserExists(worker[w].ev.user)
                  THEN [celebrant EXCEPT ![w] = profile[worker[w].ev.user]]
                  ELSE celebrant
  /\ UNCHANGED disturbed

Pipeline ==
  /\ \/ /\ \/ ClockTicks
           \/ \E s \in Schedulers : SchedulerRuns(s) \/ SchedulerFails(s)
           \/ \E w \in Workers : WorkerFails(w)
           \/ \E m \in Messages : QueueRuns(m) \/ QueueOvertakes(m)
        /\ UNCHANGED <<celebrant, disturbed>>
     \/ \E w \in Workers : WorkerGoesOn(w) \/ FollowUp(w)
  /\ UNCHANGED updateVars

SystemNext ==
  \/ \E u \in Users : Registration(u)
  \/ \E r \in Requests : UpdateRuns(r) \/ UpdateFails(r)
  \/ Pipeline

SystemSpec == SystemInit /\ [][SystemNext]_systemVars

-----------------------------------------------------------------------------
SystemTypeOK ==
  /\ TypeOK
  /\ UserUpdatesTypeOK
  /\ celebrant \in [Workers -> Profiles]
  /\ disturbed \subseteq Users

\* Only PENDING events are rescheduled: what was read as PENDING and claimed before it
\* is stored keeps its target, and no settled or erased row comes back.
ClaimedIsFrozen ==
  [][\A e \in EventIds :
       rows[e].status \notin {"NONE", "PENDING"} =>
         /\ rows'[e].status \notin {"NONE", "PENDING"}
         /\ rows'[e].target = rows[e].target
         /\ rows'[e].local = rows[e].local]_systemVars

\* u has no update in flight.
Quiet(u) == \A r \in Requests : request[r].pc = "idle" \/ request[r].user # u

\* Event e is at its user's birthday and delivery time.
AtBirthday(e, p) == toWallClock(rows[e].target, p.zone) % Year = p.birthday

\* A waiting event is at the birthday its user has now.  The exceptions are in disturbed:
\* an update was written over a change it had not read or while another one still moved
\* the user's events; it failed half-way; it lost the wall clock; or the event was created
\* for a stale copy of the user, or while a change of zone was still to move events.
WaitsForBirthday ==
  \A e \in EventIds :
    /\ rows[e].status = "PENDING"
    /\ Quiet(rows[e].user)
    => rows[e].user \in disturbed \/ AtBirthday(e, profile[rows[e].user])

\* The same without exception, as the stories promise it.
WaitsForBirthdayAlways ==
  \A e \in EventIds :
    /\ rows[e].status = "PENDING"
    /\ Quiet(rows[e].user)
    => AtBirthday(e, profile[rows[e].user])

\* The chain of a user may end with e: its delivery failed for good, or an event that was
\* moved has kept the key of an old target where the birthday after e may fall.
EndsChain(e) ==
  \/ rows[e].status = "FAILED"
  \/ /\ rows[e].status = "COMPLETED"
     /\ \E g \in EventIds : /\ rows[g].user = rows[e].user
                            /\ rows[g].key[2] \in NextOccurrences(rows[e].local)

\* A registered user has a next birthday scheduled or in progress.  The only ways out,
\* without worker faults: the first event was never created, or the newest one is such
\* that the chain may end with it.
EveryoneIsScheduled ==
  \A u \in Users : users[u] = "announced" =>
    LET of == {e \in EventIds : rows[e].user = u}
    IN  \/ \E e \in of : rows[e].status \in {"PENDING", "PROCESSING"}
        \/ \E w \in Workers : worker[w].pc = "create" /\ worker[w].ev.user = u
        \/ of = {}
        \/ \E e \in of : EndsChain(e) /\ \A f \in of : f <= e

\* A birthday is celebrated by one event: what follows an event that was settled at its
\* own local time is for a later one.  So it comes later too, unless a change of zone has
\* put it before its own local time, as one to a zone in the east does.
OneEventPerBirthday ==
  \A e, f \in EventIds :
    /\ rows[e].status \in Settled
    /\ rows[e].local = rows[e].target
    /\ Live(f) /\ f > e
    /\ rows[f].user = rows[e].user
    => rows[f].local > rows[e].target

-----------------------------------------------------------------------------
\* The lifecycle of events does not depend on where their targets are moved.
Chain == INSTANCE EventLifecycle WITH
  Ids       <- EventIds,
  phase     <- [e \in EventIds |-> rows[e].status],
  delivered <- {e \in EventIds : accepted[e] > 0},
  followed  <- {e \in EventIds : \E f \in EventIds :
                  /\ f > e
                  /\ rows[f].status # "NONE"
                  /\ rows[f].user = rows[e].user}

\* Every step of the system is one the lifecycle allows, or changes nothing of it.
ImplementsChain == Chain!Spec
=============================================================================
