----------------------- MODULE SystemRefinementProofs -----------------------
(***************************************************************************)
(* The whole system implements the event lifecycle, for every value of the *)
(* constants.  The mapping of System!Chain is on the statuses, on what was *)
(* ever accepted and on what ever got a later event: so the proof needs    *)
(* what is known of the past.  A worker past the webhook call was accepted;*)
(* an open event, and one whose follower is still to be created, is the    *)
(* newest of its user; an erased event's user never comes back.            *)
(***************************************************************************)
EXTENDS SystemProofs

\* No event of the same user was created after e.
IsNewest(e) ==
  \A f \in EventIds : f > e /\ rows[f].user = rows[e].user => rows[f].status = "NONE"

PastTheCall == {"findUser", "complete", "completeOnly"}

\* The worker that is about to create a follower completed the newest event.
MayFollow(c) ==
  /\ c \in EventIds
  /\ rows[c].status \in {"COMPLETED", "GONE"}
  /\ IsNewest(c)

HistoryKept ==
  /\ \A w \in Workers : worker[w].pc \in PastTheCall => accepted[Current(w)] > 0
  /\ \A w \in Workers : Creating(w) => MayFollow(Current(w))
  /\ \A e \in EventIds : Open(e) => IsNewest(e)
  /\ \A e \in EventIds : rows[e].status = "GONE" => users[rows[e].user] = "deleted"
  /\ \A e \in EventIds : rows[e].status = "NONE" => rows[e].user = NoUser

RefinementInv == FrozenInv /\ OneAtATime /\ HistoryKept

Phase == [e \in EventIds |-> rows[e].status]

Delivered == {e \in EventIds : accepted[e] > 0}

FollowedEvents ==
  {e \in EventIds : \E f \in EventIds :
     /\ f > e
     /\ rows[f].status # "NONE"
     /\ rows[f].user = rows[e].user}

\* What every step is to the lifecycle.
Refines == Chain!Next \/ UNCHANGED <<Phase, Delivered, FollowedEvents>>

DeletedForEver == \A u \in Users : users[u] = "deleted" => users'[u] = "deleted"

-----------------------------------------------------------------------------
(* What a step leaves alone. *)

\* A step that creates no event keeps the users of rows and the ids without a row.
LEMMA UsersOfRowsStay ==
  ASSUME Moved, UNCHANGED lastId, NEW e \in EventIds
  PROVE  /\ rows'[e].user = rows[e].user
         /\ rows'[e].status = "NONE" <=> rows[e].status = "NONE"
<1>1. RowMoves(e) /\ rows[e] \in Event /\ lastId \in Nat
  BY MaxEventsAssumption DEF Moved, RowsMove, FrozenInv, SystemTypeOK, TypeOK, DatabaseTypeOK
<1>2. CASE RowErased(e)
  BY <1>1, <1>2 DEF RowErased, Live, Event, EventStatus
<1>3. CASE RowWritten(e)
  BY <1>3 DEF RowWritten, Open, EventStatus
<1>4. ~RowCreated(e)
  BY <1>1 DEF RowCreated
<1> QED BY <1>1, <1>2, <1>3, <1>4 DEF RowMoves

LEMMA NewestStays ==
  ASSUME Moved, UNCHANGED lastId, NEW e \in EventIds, IsNewest(e)
  PROVE  IsNewest(e)'
BY UsersOfRowsStay DEF IsNewest

LEMMA FollowedStays ==
  ASSUME Moved, UNCHANGED lastId
  PROVE  FollowedEvents' = FollowedEvents
BY UsersOfRowsStay DEF FollowedEvents

\* A step that creates no event and changes no status is a stutter of the lifecycle.
LEMMA Stutters ==
  ASSUME Moved, UNCHANGED <<lastId, accepted>>,
         \A e \in EventIds : rows'[e].status = rows[e].status
  PROVE  UNCHANGED <<Phase, Delivered, FollowedEvents>>
BY FollowedStays DEF Phase, Delivered

\* History is kept by a step that creates no event, if its workers are in order.
LEMMA QuietHistory ==
  ASSUME Moved, HistoryKept, UNCHANGED lastId, DeletedForEver, OneAtATime,
         \A w \in Workers : worker'[w].pc \in PastTheCall => accepted'[worker'[w].msg[1]] > 0,
         \A w \in Workers : worker'[w].pc = "create" =>
           LET c == worker'[w].msg[1]
           IN  MayFollow(c) \/ (c \in EventIds /\ Open(c) /\ rows'[c].status = "COMPLETED")
  PROVE  HistoryKept'
<1>1. \A e \in EventIds : rows[e].status \in {"COMPLETED", "GONE"} =>
                            rows'[e].status \in {"COMPLETED", "GONE"}
  <2> SUFFICES ASSUME NEW e \in EventIds, rows[e].status \in {"COMPLETED", "GONE"}
               PROVE  rows'[e].status \in {"COMPLETED", "GONE"}
    OBVIOUS
  <2>1. RowMoves(e) /\ rows[e] \in Event
    BY DEF Moved, RowsMove, FrozenInv, SystemTypeOK, TypeOK, DatabaseTypeOK
  <2>2. RowErased(e) => rows'[e].status = "GONE"
    BY <2>1 DEF RowErased, Event
  <2> QED BY <2>1, <2>2 DEF RowMoves, RowCreated, RowWritten, Open
<1>2. (\A w \in Workers : worker[w].pc \in PastTheCall => accepted[Current(w)] > 0)'
  BY DEF Current
<1>3. (\A w \in Workers : Creating(w) => MayFollow(Current(w)))'
  <2> SUFFICES ASSUME NEW w \in Workers, worker'[w].pc = "create"
               PROVE  LET c == worker'[w].msg[1]
                      IN  /\ c \in EventIds /\ rows'[c].status \in {"COMPLETED", "GONE"}
                          /\ \A f \in EventIds : f > c /\ rows'[f].user = rows'[c].user => rows'[f].status = "NONE"
    BY DEF Creating, Current, MayFollow, IsNewest
  <2> DEFINE c == worker'[w].msg[1]
  <2>1. c \in EventIds /\ rows'[c].status \in {"COMPLETED", "GONE"} /\ IsNewest(c)
    BY <1>1 DEF MayFollow, HistoryKept
  <2> HIDE DEF c
  <2>2. \A e \in EventIds : e > c /\ rows'[e].user = rows'[c].user => rows'[e].status = "NONE"
    BY <2>1, UsersOfRowsStay DEF IsNewest
  <2> QED BY <2>1, <2>2 DEF c
<1>4. (\A e \in EventIds : Open(e) => IsNewest(e))'
  <2> SUFFICES ASSUME NEW e \in EventIds, Open(e)' PROVE IsNewest(e)'
    OBVIOUS
  <2>1. rows'[e].status # "NONE"
    BY DEF Open
  <2>2. rows[e].status # "NONE"
    BY <2>1, UsersOfRowsStay
  <2>3. Open(e)
    BY <2>2, RowsMoveFacts DEF Moved, FrozenInv
  <2> QED BY <2>3, NewestStays DEF HistoryKept
<1>5. (\A e \in EventIds : rows[e].status = "GONE" => users[rows[e].user] = "deleted")'
  <2> SUFFICES ASSUME NEW e \in EventIds, rows'[e].status = "GONE"
               PROVE  users'[rows'[e].user] = "deleted"
    OBVIOUS
  <2>1. /\ RowMoves(e) /\ rows'[e].user = rows[e].user /\ rows[e].status # "NONE"
        /\ rows[e].user \in Users
    BY UsersOfRowsStay DEF Moved, RowsMove, OneAtATime
  <2> QED BY <2>1 DEF RowMoves, RowCreated, RowWritten, RowErased, EventStatus, HistoryKept, DeletedForEver
<1>6. (\A e \in EventIds : rows[e].status = "NONE" => rows[e].user = NoUser)'
  BY UsersOfRowsStay DEF HistoryKept
<1> QED BY <1>2, <1>3, <1>4, <1>5, <1>6 DEF HistoryKept

-----------------------------------------------------------------------------
(* A step that creates an event for u, who has no open one. *)

LEMMA RowAppears ==
  ASSUME Moved, NEW ev \in Event, create(ev)
  PROVE  /\ lastId + 1 \in EventIds
         /\ rows'[lastId + 1] = ev
         /\ rows[lastId + 1].status = "NONE"
         /\ \A e \in EventIds : e # lastId + 1 => rows'[e] = rows[e]
         /\ \A e \in EventIds : e > lastId + 1 => rows[e].status = "NONE"
<1>1. lastId \in Nat /\ lastId + 1 \in EventIds /\ rows \in [EventIds -> Event]
  BY MaxEventsAssumption DEF create, Moved, FrozenInv, SystemTypeOK, TypeOK, DatabaseTypeOK, EventIds
<1>2. \A e \in EventIds : e > lastId => rows[e].status = "NONE"
  BY DEF Moved, FrozenInv, IdsAreFresh
<1>3. \A e \in EventIds : e > lastId + 1 => e > lastId
  BY <1>1 DEF EventIds
<1> QED BY <1>1, <1>2, <1>3 DEF create

LEMMA CreateHistory ==
  ASSUME Moved, OneAtATime, HistoryKept, NEW ev \in Event, create(ev), ev.user \in Users,
         ev.status = "PENDING", DeletedForEver,
         \A e \in EventIds : rows[e].user = ev.user => ~Open(e),
         \A w \in Workers : worker'[w].pc \in PastTheCall => accepted'[worker'[w].msg[1]] > 0,
         \A w \in Workers : worker'[w].pc = "create" =>
           LET c == worker'[w].msg[1] IN MayFollow(c) /\ rows[c].user # ev.user
  PROVE  HistoryKept'
<1> DEFINE i == lastId + 1
<1>1. /\ i \in EventIds /\ rows'[i] = ev /\ rows[i].status = "NONE"
      /\ \A e \in EventIds : e # i => rows'[e] = rows[e]
      /\ \A e \in EventIds : e > i => rows[e].status = "NONE"
  BY RowAppears
<1> HIDE DEF i
<1>2. ASSUME NEW e \in EventIds, e # i, IsNewest(e), rows[e].user # ev.user
      PROVE  IsNewest(e)'
  BY <1>1, <1>2 DEF IsNewest
<1>3. (\A w \in Workers : worker[w].pc \in PastTheCall => accepted[Current(w)] > 0)'
  BY DEF Current
<1>4. (\A w \in Workers : Creating(w) => MayFollow(Current(w)))'
  <2> SUFFICES ASSUME NEW w \in Workers, worker'[w].pc = "create"
               PROVE  LET c == worker'[w].msg[1]
                      IN  /\ c \in EventIds /\ rows'[c].status \in {"COMPLETED", "GONE"}
                          /\ \A f \in EventIds : f > c /\ rows'[f].user = rows'[c].user => rows'[f].status = "NONE"
    BY DEF Creating, Current, MayFollow, IsNewest
  <2> DEFINE c == worker'[w].msg[1]
  <2>1. MayFollow(c) /\ rows[c].user # ev.user
    OBVIOUS
  <2> HIDE DEF c
  <2>2. c \in EventIds /\ c # i /\ rows'[c] = rows[c]
    BY <1>1, <2>1 DEF MayFollow
  <2>3. \A f \in EventIds : f > c /\ rows'[f].user = rows'[c].user => rows'[f].status = "NONE"
    BY <1>1, <2>1, <2>2 DEF MayFollow, IsNewest
  <2>4. rows'[c].status \in {"COMPLETED", "GONE"}
    BY <2>1, <2>2 DEF MayFollow
  <2> QED BY <2>2, <2>3, <2>4 DEF c
<1>5. (\A e \in EventIds : Open(e) => IsNewest(e))'
  <2> SUFFICES ASSUME NEW e \in EventIds, Open(e)' PROVE IsNewest(e)'
    OBVIOUS
  <2>1. CASE e = i
    <3>1. \A f \in EventIds : f > i => rows'[f].status = "NONE"
      <4> SUFFICES ASSUME NEW f \in EventIds, f > i PROVE rows'[f].status = "NONE"
        OBVIOUS
      <4>1. f # i
        BY <1>1 DEF EventIds
      <4> QED BY <1>1, <4>1
    <3> QED BY <2>1, <3>1 DEF IsNewest
  <2>2. CASE e # i
    <3>1. Open(e) /\ rows[e].user # ev.user
      BY <1>1, <2>2 DEF Open
    <3> QED BY <1>2, <2>2, <3>1 DEF HistoryKept
  <2> QED BY <2>1, <2>2
<1>6. (\A e \in EventIds : rows[e].status = "GONE" => users[rows[e].user] = "deleted")'
  BY <1>1 DEF HistoryKept, DeletedForEver, OneAtATime
<1>7. (\A e \in EventIds : rows[e].status = "NONE" => rows[e].user = NoUser)'
  BY <1>1 DEF HistoryKept
<1> QED BY <1>3, <1>4, <1>5, <1>6, <1>7 DEF HistoryKept

\* The first event of a user follows nothing: the lifecycle schedules it.
LEMMA FirstIsScheduled ==
  ASSUME Moved, OneAtATime, HistoryKept, NEW ev \in Event, create(ev), ev.user \in Users,
         ev.status = "PENDING", UNCHANGED accepted,
         \A e \in EventIds : rows[e].user = ev.user => rows[e].status = "NONE"
  PROVE  Refines
<1> DEFINE i == lastId + 1
<1>1. /\ i \in EventIds /\ rows'[i] = ev /\ rows[i].status = "NONE"
      /\ \A e \in EventIds : e # i => rows'[e] = rows[e]
      /\ \A e \in EventIds : e > i => rows[e].status = "NONE"
  BY RowAppears
<1> HIDE DEF i
<1>2. \A e \in EventIds : rows[e].user # ev.user
  BY NoUserAssumption DEF HistoryKept
<1>3. FollowedEvents' = FollowedEvents
  <2>1. ASSUME NEW e \in EventIds PROVE e \in FollowedEvents' <=> e \in FollowedEvents
    <3>1. CASE e = i
      <4>1. \A f \in EventIds : f > i => f # i
        BY <1>1 DEF EventIds
      <4>2. e \notin FollowedEvents
        BY <1>1, <3>1 DEF FollowedEvents
      <4>3. e \notin FollowedEvents'
        BY <1>1, <3>1, <4>1 DEF FollowedEvents
      <4> QED BY <4>2, <4>3
    <3>2. CASE e # i
      BY <1>1, <1>2, <3>2 DEF FollowedEvents
    <3> QED BY <3>1, <3>2
  <2> QED BY <2>1 DEF FollowedEvents
<1>4. Phase[i] = "NONE" /\ Phase' = [Phase EXCEPT ![i] = "PENDING"]
  BY <1>1 DEF Phase
<1>5. Delivered' = Delivered
  BY DEF Delivered
<1>6. PICK e \in EventIds : e = i
  BY <1>1
<1>7. Chain!Schedule(e)
  BY <1>3, <1>4, <1>5, <1>6 DEF Chain!Schedule, Phase, Delivered, FollowedEvents
<1> QED BY <1>7 DEF Refines, Chain!Next

\* The event that a worker creates follows the one it completed.
LEMMA NextFollows ==
  ASSUME Moved, OneAtATime, HistoryKept, NEW ev \in Event, create(ev), ev.user \in Users,
         ev.status = "PENDING", UNCHANGED accepted,
         NEW c \in EventIds, MayFollow(c), rows[c].status = "COMPLETED", rows[c].user = ev.user
  PROVE  Refines
<1> DEFINE i == lastId + 1
<1>1. /\ i \in EventIds /\ rows'[i] = ev /\ rows[i].status = "NONE"
      /\ \A e \in EventIds : e # i => rows'[e] = rows[e]
      /\ \A e \in EventIds : e > i => rows[e].status = "NONE"
  BY RowAppears
<1> HIDE DEF i
<1>2. \A e, f \in EventIds : (e > f => e # f) /\ (e > f \/ e = f \/ f > e)
  BY DEF EventIds
<1>3. i # c /\ i > c
  BY <1>1, <1>2
<1>4. FollowedEvents' = FollowedEvents \cup {c} /\ c \notin FollowedEvents
  <2>1. c \notin FollowedEvents
    BY DEF MayFollow, IsNewest, FollowedEvents
  <2>2. c \in FollowedEvents'
    BY <1>1, <1>3 DEF FollowedEvents
  <2>3. ASSUME NEW e \in EventIds, e # c PROVE e \in FollowedEvents' <=> e \in FollowedEvents
    <3>1. CASE e = i
      <4>1. e \notin FollowedEvents
        BY <1>1, <3>1 DEF FollowedEvents
      <4>2. e \notin FollowedEvents'
        BY <1>1, <1>2, <3>1 DEF FollowedEvents
      <4> QED BY <4>1, <4>2
    <3>2. CASE e # i /\ rows[e].user # ev.user
      BY <1>1, <3>2 DEF FollowedEvents
    <3>3. CASE e # i /\ rows[e].user = ev.user
      <4>1. rows[e].status # "NONE"
        BY <3>3, NoUserAssumption DEF HistoryKept
      <4>2. c > e
        BY <1>2, <2>3, <3>3, <4>1 DEF MayFollow, IsNewest
      <4>3. e \in FollowedEvents
        BY <3>3, <4>2 DEF FollowedEvents
      <4>4. e \in FollowedEvents'
        BY <1>1, <1>3, <3>3, <4>2 DEF FollowedEvents
      <4> QED BY <4>3, <4>4
    <3> QED BY <3>1, <3>2, <3>3
  <2> QED BY <2>1, <2>2, <2>3 DEF FollowedEvents
<1>5. /\ Phase[c] = "COMPLETED" /\ Phase[i] = "NONE"
      /\ Phase' = [Phase EXCEPT ![i] = "PENDING"]
  BY <1>1 DEF Phase
<1>6. Delivered' = Delivered
  BY DEF Delivered
<1>7. PICK f \in EventIds : f = i
  BY <1>1
<1>8. Chain!Follow(c, f)
  BY <1>4, <1>5, <1>6, <1>7 DEF Chain!Follow, Phase, Delivered, FollowedEvents
<1> QED BY <1>8 DEF Refines, Chain!Next

-----------------------------------------------------------------------------
(* Steps that change the status of existing events. *)

LEMMA StutterRefines ==
  ASSUME Moved, UNCHANGED <<lastId, accepted>>,
         \A e \in EventIds : rows'[e].status = rows[e].status
  PROVE  Refines
BY Stutters DEF Refines

\* Deleting a user erases the user's events.
LEMMA DeletionErases ==
  ASSUME Moved, NEW u \in Users, DeleteUser(u), UNCHANGED accepted
  PROVE  Refines
<1> DEFINE S == {e \in EventIds : Live(e) /\ rows[e].user = u}
<1>1. UNCHANGED lastId /\ CascadeDelete(u) /\ rows \in [EventIds -> Event]
  BY DEF DeleteUser, Moved, FrozenInv, SystemTypeOK, TypeOK, DatabaseTypeOK
<1>2. Phase' = [e \in EventIds |-> IF e \in S THEN "GONE" ELSE Phase[e]]
  <2>1. ASSUME NEW e \in EventIds PROVE rows'[e].status = IF e \in S THEN "GONE" ELSE rows[e].status
    <3>1. rows'[e] = IF Live(e) /\ rows[e].user = u THEN [rows[e] EXCEPT !.status = "GONE"] ELSE rows[e]
      BY <1>1 DEF CascadeDelete
    <3>2. rows[e] \in Event
      BY <1>1
    <3> QED BY <3>1, <3>2 DEF Event
  <2> HIDE DEF S
  <2> QED BY <2>1 DEF Phase
<1>3. \A e \in S : Phase[e] # "NONE"
  BY DEF Phase, Live, EventStatus
<1>4. Delivered' = Delivered /\ FollowedEvents' = FollowedEvents
  BY <1>1, FollowedStays DEF Delivered
<1>5. S \in SUBSET EventIds
  OBVIOUS
<1> HIDE DEF S
<1>6. PICK T \in SUBSET EventIds : T = S
  BY <1>5
<1>7. Chain!Erase(T)
  BY <1>2, <1>3, <1>4, <1>6 DEF Chain!Erase, Phase, Delivered, FollowedEvents
<1> QED BY <1>7 DEF Refines, Chain!Next

\* The claim transaction claims what it selected.
LEMMA MarkingClaims ==
  ASSUME Moved, NEW s \in Schedulers, MarkProcessing(s), UNCHANGED accepted
  PROVE  Refines
<1> DEFINE S == sched[s].todo
<1>1. /\ UNCHANGED lastId /\ ToProcessing(S) /\ rows \in [EventIds -> Event]
      /\ S \in SUBSET EventIds /\ \A e \in S : rows[e].status = "PENDING"
  BY DEF MarkProcessing, Moved, FrozenInv, SystemTypeOK, TypeOK, DatabaseTypeOK, SchedulerTypeOK,
         SchedulerClaims, ClaimIsLocked
<1> HIDE DEF S
<1>2. Phase' = [e \in EventIds |-> IF e \in S THEN "PROCESSING" ELSE Phase[e]]
  <2>1. ASSUME NEW e \in EventIds
        PROVE  rows'[e].status = IF e \in S THEN "PROCESSING" ELSE rows[e].status
    <3>1. rows'[e] = IF e \in S THEN [rows[e] EXCEPT !.status = "PROCESSING", !.version = @ + 1]
                                ELSE rows[e]
      BY <1>1 DEF ToProcessing
    <3>2. rows[e] \in Event
      BY <1>1
    <3> QED BY <3>1, <3>2 DEF Event
  <2> QED BY <2>1 DEF Phase
<1>3. \A e \in S : Phase[e] = "PENDING"
  BY <1>1 DEF Phase
<1>4. Delivered' = Delivered /\ FollowedEvents' = FollowedEvents
  BY <1>1, FollowedStays DEF Delivered
<1>5. PICK T \in SUBSET EventIds : T = S
  BY <1>1
<1>6. Chain!Claim(T)
  BY <1>2, <1>3, <1>4, <1>5 DEF Chain!Claim, Phase, Delivered, FollowedEvents
<1> QED BY <1>6 DEF Refines, Chain!Next

\* A worker's write settles an event that was in progress.
LEMMA WriteSettles ==
  ASSUME Moved, OneAtATime, NEW w \in Workers, worker[w].pc \notin {"idle", "next"},
         NEW ev \in {markCompleted(worker[w].ev), markFailed(worker[w].ev)},
         UpdateMatches(Current(w), ev), update(Current(w), ev)
  PROVE  /\ Current(w) \in EventIds
         /\ rows[Current(w)].status = "PROCESSING"
         /\ rows'[Current(w)].status = ev.status
         /\ \A e \in EventIds : e # Current(w) => rows'[e] = rows[e]
<1> DEFINE c == Current(w)
<1>1. c \in EventIds /\ worker[w].ev \in Event /\ rows \in [EventIds -> Event]
  BY CopyHasUser DEF Moved, FrozenInv, SystemTypeOK, TypeOK, WorkerTypeOK, DatabaseTypeOK
<1>2. ReadClaimed(c, worker[w].ev)
  BY DEF Moved, FrozenInv, WorkerCopies
<1>3. ev.version = worker[w].ev.version + 1 /\ worker[w].ev.version \in Nat
  BY <1>1 DEF markCompleted, markFailed, Event
<1>4. rows[c].status = "PROCESSING"
  BY <1>2, <1>3 DEF ReadClaimed, UpdateMatches
<1> HIDE DEF c
<1>5. update(c, ev)
  BY DEF c
<1>6. rows'[c] = [rows[c] EXCEPT !.status = ev.status, !.target = ev.target, !.local = ev.local,
                                 !.retryCount = ev.retryCount, !.version = ev.version]
  BY <1>1, <1>5, Zenon DEF update
<1>7. \A e \in EventIds : e # c => rows'[e] = rows[e]
  BY <1>1, <1>5, Zenon DEF update
<1>8. rows[c] \in Event
  BY <1>1
<1> QED BY <1>1, <1>4, <1>6, <1>7, <1>8 DEF Event, c

LEMMA CompletionRefines ==
  ASSUME Moved, OneAtATime, HistoryKept, NEW w \in Workers, CompleteEvent(w),
         UpdateMatches(Current(w), markCompleted(worker[w].ev))
  PROVE  Refines
<1> DEFINE c == Current(w)
<1>1. worker[w].pc \in {"complete", "completeOnly"} /\ UNCHANGED <<lastId, accepted>>
      /\ update(c, markCompleted(worker[w].ev)) /\ worker[w].ev \in Event
  BY DEF CompleteEvent, Moved, FrozenInv, SystemTypeOK, TypeOK, WorkerTypeOK
<1>2. markCompleted(worker[w].ev).status = "COMPLETED"
  BY <1>1 DEF markCompleted, Event
<1>3. /\ c \in EventIds /\ rows[c].status = "PROCESSING" /\ rows'[c].status = "COMPLETED"
      /\ \A e \in EventIds : e # c => rows'[e] = rows[e]
  BY <1>1, <1>2, WriteSettles
<1>4. accepted[c] > 0
  BY <1>1 DEF HistoryKept, PastTheCall
<1> HIDE DEF c
<1>5. /\ Phase[c] = "PROCESSING" /\ c \in Delivered
      /\ Phase' = [Phase EXCEPT ![c] = "COMPLETED"]
  BY <1>3, <1>4 DEF Phase, Delivered
<1>6. Delivered' = Delivered /\ FollowedEvents' = FollowedEvents
  BY <1>1, FollowedStays DEF Delivered
<1>7. PICK e \in EventIds : e = c
  BY <1>3
<1>8. Chain!Complete(e)
  BY <1>5, <1>6, <1>7 DEF Chain!Complete, Phase, Delivered, FollowedEvents
<1> QED BY <1>8 DEF Refines, Chain!Next

LEMMA FailureRefines ==
  ASSUME Moved, OneAtATime, HistoryKept, NEW w \in Workers, MarkFailed(w),
         UpdateMatches(Current(w), markFailed(worker[w].ev))
  PROVE  Refines
<1> DEFINE c == Current(w)
<1>1. worker[w].pc = "fail" /\ UNCHANGED <<lastId, accepted>>
      /\ update(c, markFailed(worker[w].ev)) /\ worker[w].ev \in Event
  BY DEF MarkFailed, Moved, FrozenInv, SystemTypeOK, TypeOK, WorkerTypeOK
<1>2. markFailed(worker[w].ev).status = "FAILED"
  BY <1>1 DEF markFailed, Event
<1>3. /\ c \in EventIds /\ rows[c].status = "PROCESSING" /\ rows'[c].status = "FAILED"
      /\ \A e \in EventIds : e # c => rows'[e] = rows[e]
  BY <1>1, <1>2, WriteSettles
<1> HIDE DEF c
<1>4. Phase[c] = "PROCESSING" /\ Phase' = [Phase EXCEPT ![c] = "FAILED"]
  BY <1>3 DEF Phase
<1>5. Delivered' = Delivered /\ FollowedEvents' = FollowedEvents
  BY <1>1, FollowedStays DEF Delivered
<1>6. PICK e \in EventIds : e = c
  BY <1>3
<1>7. Chain!Fail(e)
  BY <1>4, <1>5, <1>6 DEF Chain!Fail, Phase, Delivered, FollowedEvents
<1> QED BY <1>7 DEF Refines, Chain!Next

\* An accepted call is a delivery, if it is not the first one too.
LEMMA AcceptanceDelivers ==
  ASSUME Moved, OneAtATime, NEW w \in Workers, worker[w].pc = "deliver", UNCHANGED <<rows, lastId>>,
         accepted' = [accepted EXCEPT ![Current(w)] = @ + 1] \/ UNCHANGED accepted
  PROVE  /\ Refines
         /\ Current(w) \in EventIds
         /\ \A e \in EventIds : accepted[e] > 0 => accepted'[e] > 0
         /\ accepted' = [accepted EXCEPT ![Current(w)] = @ + 1] => accepted'[Current(w)] > 0
<1> DEFINE c == Current(w)
<1>1. c \in EventIds /\ rows[c].status \notin {"NONE", "PENDING"} /\ accepted \in [EventIds -> Nat]
  BY CopyHasUser DEF Moved, FrozenInv, SystemTypeOK, TypeOK, WorkerTypeOK
<1> HIDE DEF c
<1>2. CASE UNCHANGED accepted
  BY <1>1, <1>2, StutterRefines DEF c
<1>3. CASE accepted' = [accepted EXCEPT ![c] = @ + 1]
  <2>1. accepted'[c] > 0 /\ \A e \in EventIds : e # c => accepted'[e] = accepted[e]
    BY <1>1, <1>3
  <2>2. Delivered' = Delivered \cup {c}
    BY <1>1, <2>1 DEF Delivered
  <2>3. Phase[c] \notin {"NONE", "PENDING"} /\ Phase' = Phase
    BY <1>1 DEF Phase
  <2>4. FollowedEvents' = FollowedEvents
    BY DEF FollowedEvents
  <2>5. PICK e \in EventIds : e = c
    BY <1>1
  <2>6. Chain!Deliver(e)
    BY <2>2, <2>3, <2>4, <2>5 DEF Chain!Deliver, Phase, Delivered, FollowedEvents
  <2>7. Refines
    BY <2>6 DEF Refines, Chain!Next
  <2> QED BY <1>1, <2>1, <2>7 DEF c
<1> QED BY <1>2, <1>3 DEF c

-----------------------------------------------------------------------------
(* Every step keeps the history and is one of the lifecycle, or a stutter. *)

Keeps == HistoryKept' /\ Refines

\* Workers that do not move stay in order.
LEMMA OthersInOrder ==
  ASSUME Moved, OneAtATime, HistoryKept, NEW w \in Workers, worker'[w] = worker[w],
         \A e \in EventIds : accepted[e] > 0 => accepted'[e] > 0
  PROVE  /\ worker'[w].pc \in PastTheCall => accepted'[worker'[w].msg[1]] > 0
         /\ worker'[w].pc = "create" => MayFollow(worker'[w].msg[1])
<1>1. ASSUME worker[w].pc \in PastTheCall PROVE Current(w) \in EventIds
  <2>1. worker[w].pc \notin {"idle", "next"}
    BY <1>1 DEF PastTheCall
  <2> QED BY <2>1, CopyHasUser DEF Moved
<1> QED BY <1>1 DEF HistoryKept, Current, Creating

LEMMA IdleWorkers ==
  ASSUME Moved, OneAtATime, HistoryKept, UNCHANGED <<lastId, worker, accepted>>, DeletedForEver
  PROVE  HistoryKept'
<1>1. ASSUME NEW w \in Workers
      PROVE  /\ worker'[w].pc \in PastTheCall => accepted'[worker'[w].msg[1]] > 0
             /\ worker'[w].pc = "create" => MayFollow(worker'[w].msg[1])
  BY OthersInOrder
<1> QED BY <1>1, QuietHistory

LEMMA RegistrationKeeps ==
  ASSUME Moved, OneAtATime, HistoryKept, NEW u \in Users, Registration(u)
  PROVE  Keeps
<1>1. /\ users \in [Users -> UserStates] /\ profile[u] \in Profiles /\ now \in Nat
      /\ UNCHANGED <<worker, accepted>>
  BY DEF Moved, FrozenInv, SystemTypeOK, UserUpdatesTypeOK, TypeOK, PlatformTypeOK, DatabaseTypeOK,
         Registration, workerVars
<1>2. DeletedForEver
  BY <1>1 DEF Registration, CreateUser, CreateBirthdayEventAt, CreateBirthdayEventFails, DeleteUser,
              UserExists, DeletedForEver
<1>3. CASE CreateBirthdayEventAt(u, Occurrence(profile[u], now))
  <2> DEFINE ev == PendingEvent(u, Occurrence(profile[u], now), "complete")
  <2>1. ev \in Event
    BY <1>1, OccurrenceIsLater, PendingEventType DEF Payloads
  <2>2. ev.user = u /\ ev.status = "PENDING"
    BY DEF PendingEvent
  <2>3. create(ev) /\ users[u] = "saved"
    BY <1>3 DEF CreateBirthdayEventAt
  <2> HIDE DEF ev
  <2>4. \A e \in EventIds : rows[e].user = u => rows[e].status = "NONE"
    BY <2>3 DEF OneAtATime
  <2>5. \A e \in EventIds : rows[e].user = u => ~Open(e)
    BY <2>4 DEF Open
  <2>6. Refines
    BY <1>1, <2>1, <2>2, <2>3, <2>4, FirstIsScheduled
  <2>7. ASSUME NEW w \in Workers
        PROVE  /\ worker'[w].pc \in PastTheCall => accepted'[worker'[w].msg[1]] > 0
               /\ worker'[w].pc = "create" =>
                    MayFollow(worker'[w].msg[1]) /\ rows[worker'[w].msg[1]].user # u
    BY <1>1, <2>4, OthersInOrder DEF MayFollow
  <2>8. HistoryKept'
    BY <1>2, <2>1, <2>2, <2>3, <2>5, <2>7, CreateHistory
  <2> QED BY <2>6, <2>8 DEF Keeps
<1>4. CASE CreateUser(u) \/ CreateBirthdayEventFails(u)
  <2>1. UNCHANGED <<rows, lastId>>
    BY <1>4 DEF CreateUser, CreateBirthdayEventFails
  <2> QED BY <1>1, <1>2, <2>1, StutterRefines, IdleWorkers DEF Keeps
<1>5. CASE DeleteUser(u)
  <2>1. UNCHANGED lastId
    BY <1>5 DEF DeleteUser
  <2> QED BY <1>1, <1>2, <1>5, <2>1, DeletionErases, IdleWorkers DEF Keeps
<1> QED BY <1>3, <1>4, <1>5 DEF Registration

LEMMA RequestKeeps ==
  ASSUME Moved, OneAtATime, HistoryKept, NEW r \in Requests, UpdateRuns(r) \/ UpdateFails(r)
  PROVE  Keeps
<1>1. UNCHANGED <<lastId, users, worker, accepted>>
  BY DEF UpdateRuns, UpdateFails, workerVars, ReadUser, WriteUser, FindPending, StoreRescheduled,
         RescheduleFails, UpdateStops, databaseVars
<1>2. \A e \in EventIds : rows'[e].status = rows[e].status
  <2>1. CASE StoreRescheduled(r) /\ UpdateMatches(request[r].id, request[r].ev)
    <3> DEFINE i == request[r].id
    <3>1. /\ i \in EventIds /\ request[r].ev.status = "PENDING" /\ rows[i].status = "PENDING"
      BY <2>1 DEF Moved, FrozenInv, RequestCopies, CopiesOf, StoreRescheduled, ReadPending, UpdateMatches
    <3>2. rows \in [EventIds -> Event] /\ update(i, request[r].ev)
      BY <2>1 DEF Moved, FrozenInv, SystemTypeOK, TypeOK, DatabaseTypeOK, StoreRescheduled
    <3> HIDE DEF i
    <3>3. /\ rows'[i] = [rows[i] EXCEPT !.status = request[r].ev.status,
                                        !.target = request[r].ev.target,
                                        !.local = request[r].ev.local,
                                        !.retryCount = request[r].ev.retryCount,
                                        !.version = request[r].ev.version]
          /\ \A e \in EventIds : e # i => rows'[e] = rows[e]
      BY <3>1, <3>2, Zenon DEF update
    <3>4. rows[i] \in Event
      BY <3>1, <3>2
    <3> QED BY <3>1, <3>3, <3>4 DEF Event
  <2>2. CASE ~(StoreRescheduled(r) /\ UpdateMatches(request[r].id, request[r].ev))
    BY <2>2 DEF UpdateRuns, UpdateFails, ReadUser, WriteUser, FindPending, StoreRescheduled,
                RescheduleFails, UpdateStops, databaseVars
  <2> QED BY <2>1, <2>2
<1>3. DeletedForEver
  BY <1>1 DEF DeletedForEver
<1> QED BY <1>1, <1>2, <1>3, StutterRefines, IdleWorkers DEF Keeps

\* A step of worker w that creates no event, w in order after it.
LEMMA WorkerInOrder ==
  ASSUME Moved, OneAtATime, HistoryKept, NEW w \in Workers, UNCHANGED <<lastId, users>>,
         \A v \in Workers : v # w => worker'[v] = worker[v],
         \A e \in EventIds : accepted[e] > 0 => accepted'[e] > 0,
         worker'[w].pc \in PastTheCall => accepted'[worker'[w].msg[1]] > 0,
         worker'[w].pc = "create" =>
           LET c == worker'[w].msg[1]
           IN  MayFollow(c) \/ (c \in EventIds /\ Open(c) /\ rows'[c].status = "COMPLETED")
  PROVE  HistoryKept'
<1>1. DeletedForEver
  BY DEF DeletedForEver
<1>2. ASSUME NEW v \in Workers, v # w
      PROVE  /\ worker'[v].pc \in PastTheCall => accepted'[worker'[v].msg[1]] > 0
             /\ worker'[v].pc = "create" => MayFollow(worker'[v].msg[1])
  BY <1>2, OthersInOrder
<1> QED BY <1>1, <1>2, QuietHistory

LEMMA WorkerKeeps ==
  ASSUME Moved, OneAtATime, HistoryKept, NEW w \in Workers,
         WorkerGoesOn(w) \/ WorkerFails(w) \/ FollowUp(w)
  PROVE  Keeps
<1> DEFINE c == Current(w)
<1>1. /\ worker \in [Workers -> [pc : WorkerPcs, batch : SUBSET Messages, todo : SUBSET Messages,
                                 msg : Messages \cup {NoMessage}, ev : Event, retries : Nat]]
      /\ worker[w].ev \in Event /\ celebrant[w] \in Profiles
  BY DEF Moved, FrozenInv, SystemTypeOK, TypeOK, WorkerTypeOK
<1>2. \A v \in Workers : v # w => worker'[v] = worker[v]
  BY <1>1 DEF WorkerGoesOn, FollowUp, WorkerRuns, WorkerFails, Receive, SkipRecord, RejectPayload,
              StartRecord, DeliverAccepted, DeliverRejected, MarkFailed, FindUser, CompleteEvent,
              CreateNextYear, CreateFollower, Finish, RetryDelivery, DeliverFails, WorkerStops,
              WorkerGoTo, Return, Throw
<1>3. UNCHANGED users
  BY DEF WorkerGoesOn, FollowUp, WorkerRuns, WorkerFails, Receive, SkipRecord, RejectPayload,
         StartRecord, DeliverAccepted, DeliverRejected, MarkFailed, FindUser, CompleteEvent,
         CreateNextYear, CreateFollower, Finish, RetryDelivery, DeliverFails, WorkerStops, databaseVars
<1>4. ASSUME Return(w) \/ Throw(w) PROVE worker'[w].pc \in {"next", "idle"}
  <2>1. CASE Return(w)
    <3>1. worker'[w] = [worker[w] EXCEPT !.pc = "next", !.todo = worker[w].todo \ {worker[w].msg},
                                         !.msg = NoMessage, !.ev = NoEvent]
      BY <1>1, <2>1, Zenon DEF Return
    <3>2. worker[w] \in [pc : WorkerPcs, batch : SUBSET Messages, todo : SUBSET Messages,
                         msg : Messages \cup {NoMessage}, ev : Event, retries : Nat]
      BY <1>1
    <3> QED BY <3>1, <3>2
  <2>2. CASE Throw(w)
    BY <1>1, <2>2 DEF Throw, IdleWorker
  <2> QED BY <1>4, <2>1, <2>2
<1>5. ASSUME NEW pc, WorkerGoTo(w, pc) PROVE worker'[w].pc = pc /\ worker'[w].msg = worker[w].msg
  BY <1>1, <1>5 DEF WorkerGoTo
<1>6. ASSUME worker'[w].pc \notin PastTheCall \cup {"create"}, UNCHANGED <<rows, lastId, accepted>>
      PROVE  Keeps
  <2>1. HistoryKept'
    BY <1>2, <1>3, <1>6, WorkerInOrder
  <2> QED BY <1>6, <2>1, StutterRefines DEF Keeps
<1>7. CASE Receive(w) \/ SkipRecord(w) \/ StartRecord(w)
  <2>1. UNCHANGED <<rows, lastId, accepted>>
    BY <1>7 DEF Receive, SkipRecord, StartRecord, databaseVars
  <2>2. ASSUME Receive(w) PROVE worker'[w].pc = "next"
    BY <1>1, <2>2 DEF Receive
  <2>3. ASSUME SkipRecord(w) PROVE worker'[w].pc = "next"
    <3>1. worker[w].pc = "next"
      BY <2>3 DEF SkipRecord
    <3>2. worker'[w].pc = worker[w].pc
      BY <1>1, <2>3 DEF SkipRecord
    <3> QED BY <3>1, <3>2
  <2>4. ASSUME StartRecord(w) PROVE worker'[w].pc = "deliver"
    BY <1>1, <2>4 DEF StartRecord
  <2> QED BY <1>6, <1>7, <2>1, <2>2, <2>3, <2>4 DEF PastTheCall
<1>8. CASE RejectPayload(w) \/ Finish(w) \/ WorkerStops(w)
  <2>1. Throw(w) /\ UNCHANGED <<rows, lastId, accepted>>
    BY <1>8 DEF RejectPayload, Finish, WorkerStops, databaseVars, Throw
  <2> QED BY <1>4, <1>6, <2>1 DEF PastTheCall
<1>9. CASE DeliverRejected(w)
  <2>1. worker'[w].pc = "fail" /\ UNCHANGED <<rows, lastId, accepted>>
    BY <1>5, <1>9 DEF DeliverRejected, databaseVars
  <2> QED BY <1>6, <2>1 DEF PastTheCall
<1>10. CASE DeliverAccepted(w)
  <2>1. /\ worker[w].pc = "deliver" /\ UNCHANGED <<rows, lastId>>
        /\ accepted' = [accepted EXCEPT ![Current(w)] = @ + 1]
        /\ worker'[w].pc = "findUser" /\ worker'[w].msg[1] = Current(w)
    BY <1>5, <1>10 DEF DeliverAccepted, databaseVars, Current
  <2>2. HistoryKept'
    BY <1>2, <1>3, <2>1, AcceptanceDelivers, WorkerInOrder
  <2> QED BY <2>1, <2>2, AcceptanceDelivers DEF Keeps
<1>11. CASE RetryDelivery(w) \/ DeliverFails(w)
  <2>1. /\ worker[w].pc = "deliver" /\ UNCHANGED <<rows, lastId>>
        /\ accepted' = [accepted EXCEPT ![Current(w)] = @ + 1] \/ UNCHANGED accepted
    BY <1>11 DEF RetryDelivery, DeliverFails, databaseVars
  <2>2. worker'[w].pc \in {"deliver", "idle", "next"}
    BY <1>1, <1>4, <1>11 DEF RetryDelivery, DeliverFails
  <2>3. HistoryKept'
    BY <1>2, <1>3, <2>1, <2>2, AcceptanceDelivers, WorkerInOrder DEF PastTheCall
  <2> QED BY <2>1, <2>3, AcceptanceDelivers DEF Keeps
<1>12. CASE FindUser(w)
  <2>1. /\ worker[w].pc = "findUser" /\ UNCHANGED <<rows, lastId, accepted>>
        /\ worker'[w].pc \in {"complete", "completeOnly"} /\ worker'[w].msg[1] = Current(w)
    BY <1>5, <1>12 DEF FindUser, databaseVars, Current
  <2>2. accepted'[worker'[w].msg[1]] > 0
    BY <2>1 DEF HistoryKept, PastTheCall
  <2>3. HistoryKept'
    BY <1>2, <1>3, <2>1, <2>2, WorkerInOrder
  <2> QED BY <2>1, <2>3, StutterRefines DEF Keeps
<1>13. CASE MarkFailed(w)
  <2>1. CASE ~UpdateMatches(Current(w), markFailed(worker[w].ev))
    <3>1. Throw(w) /\ UNCHANGED <<rows, lastId, accepted>>
      BY <1>13, <2>1 DEF MarkFailed
    <3> QED BY <1>4, <1>6, <3>1 DEF PastTheCall
  <2>2. CASE UpdateMatches(Current(w), markFailed(worker[w].ev))
    <3>1. worker'[w].pc \in {"next", "idle"} /\ UNCHANGED <<lastId, accepted>>
      BY <1>4, <1>13, <2>2 DEF MarkFailed
    <3>2. HistoryKept'
      BY <1>2, <1>3, <3>1, WorkerInOrder DEF PastTheCall
    <3> QED BY <1>13, <2>2, <3>2, FailureRefines DEF Keeps
  <2> QED BY <2>1, <2>2
<1>14. CASE CompleteEvent(w)
  <2>1. CASE ~UpdateMatches(Current(w), markCompleted(worker[w].ev))
    <3>1. Throw(w) /\ UNCHANGED <<rows, lastId, accepted>>
      BY <1>14, <2>1 DEF CompleteEvent
    <3> QED BY <1>4, <1>6, <3>1 DEF PastTheCall
  <2>2. CASE UpdateMatches(Current(w), markCompleted(worker[w].ev))
    <3>1. /\ worker[w].pc \in {"complete", "completeOnly"} /\ UNCHANGED <<lastId, accepted>>
          /\ update(Current(w), markCompleted(worker[w].ev))
          /\ \/ worker'[w].pc = "create" /\ worker'[w].msg[1] = Current(w)
             \/ worker'[w].pc \in {"next", "idle"}
      BY <1>4, <1>5, <1>14, <2>2 DEF CompleteEvent, Current
    <3>2. /\ c \in EventIds /\ Open(c)
          /\ rows'[c].status = "COMPLETED"
      <4>1. markCompleted(worker[w].ev).status = "COMPLETED"
        BY <1>1 DEF markCompleted, Event
      <4> QED BY <2>2, <3>1, <4>1, WriteSettles DEF Open
    <3>3. HistoryKept'
      BY <1>2, <1>3, <3>1, <3>2, WorkerInOrder DEF PastTheCall
    <3> QED BY <1>14, <2>2, <3>3, CompletionRefines DEF Keeps
  <2> QED BY <2>1, <2>2
<1>15. CASE FollowUp(w)
  <2> DEFINE u == worker[w].ev.user
             next == PendingEvent(u, Occurrence(celebrant[w], worker[w].ev.local), "messageOnly")
  <2>1. /\ Creating(w) /\ worker'[w].pc \in {"next", "idle"} /\ UNCHANGED accepted
        /\ UNCHANGED <<rows, lastId>> \/ (create(next) /\ UserExists(u))
    <3>1. next.user = u
      BY DEF PendingEvent
    <3> HIDE DEF u
    <3> QED BY <1>4, <1>15, <3>1 DEF FollowUp, CreateFollower, Creating, u
  <2>2. CASE UNCHANGED <<rows, lastId>>
    BY <1>6, <2>1, <2>2 DEF PastTheCall
  <2>3. CASE create(next) /\ UserExists(u)
    <3>1. next \in Event /\ next.user = u /\ next.status = "PENDING"
      <4>1. u \in Users \cup {NoUser} /\ worker[w].ev.local \in Int
        BY <1>1 DEF Event
      <4>2. Occurrence(celebrant[w], worker[w].ev.local) \in Int /\ "messageOnly" \in Payloads
        BY <1>1, <4>1, OccurrenceIsLater DEF Payloads
      <4>3. next.user = u /\ next.status = "PENDING"
        BY DEF PendingEvent
      <4> QED BY <4>1, <4>2, <4>3, PendingEventType
    <3>2. c \in EventIds /\ rows[c].user = u /\ u \in Users /\ MayFollow(c)
      <4>1. worker[w].pc \notin {"idle", "next"}
        BY <2>1 DEF Creating
      <4>2. c \in EventIds /\ rows[c].user = u /\ u \in Users
        BY <4>1, CopyHasUser DEF Moved
      <4> QED BY <2>1, <4>2 DEF HistoryKept
    <3>3. rows[c].status = "COMPLETED"
      BY <2>3, <3>2 DEF MayFollow, HistoryKept, UserExists
    <3>4. \A e \in EventIds : rows[e].user = u => ~Open(e)
      BY <2>1 DEF OneAtATime
    <3>5. ASSUME NEW v \in Workers
          PROVE  /\ worker'[v].pc \in PastTheCall => accepted'[worker'[v].msg[1]] > 0
                 /\ worker'[v].pc = "create" =>
                      MayFollow(worker'[v].msg[1]) /\ rows[worker'[v].msg[1]].user # u
      <4>1. CASE v = w
        BY <2>1, <4>1 DEF PastTheCall
      <4>2. CASE v # w
        <5>1. worker'[v] = worker[v]
          BY <1>2, <4>2
        <5>2. /\ worker'[v].pc \in PastTheCall => accepted'[worker'[v].msg[1]] > 0
              /\ worker'[v].pc = "create" => MayFollow(worker'[v].msg[1])
          BY <2>1, <5>1, OthersInOrder
        <5>3. ASSUME Creating(v)
              PROVE  worker[v].ev.user # u /\ rows[Current(v)].user = worker[v].ev.user
          <6>1. worker[v].pc \notin {"idle", "next"}
            BY <5>3 DEF Creating
          <6>2. rows[Current(v)].user = worker[v].ev.user
            BY <6>1, CopyHasUser DEF Moved
          <6> QED BY <2>1, <4>2, <5>3, <6>2 DEF OneAtATime
        <5> QED BY <5>1, <5>2, <5>3 DEF Creating, Current
      <4> QED BY <4>1, <4>2
    <3>6. DeletedForEver
      BY <1>3 DEF DeletedForEver
    <3> HIDE DEF next, u, c
    <3>7. HistoryKept'
      BY <2>3, <3>1, <3>2, <3>4, <3>5, <3>6, CreateHistory
    <3>8. Refines
      BY <2>1, <2>3, <3>1, <3>2, <3>3, NextFollows
    <3> QED BY <3>7, <3>8 DEF Keeps
  <2> QED BY <2>1, <2>2, <2>3
<1>16. CASE CreateNextYear(w) /\ WorkerGoesOn(w)
  BY <1>16 DEF WorkerGoesOn, CreateNextYear, CreateFollower
<1> QED
  BY <1>7, <1>8, <1>9, <1>10, <1>11, <1>12, <1>13, <1>14, <1>15, <1>16
  DEF WorkerGoesOn, WorkerRuns, WorkerFails

LEMMA SystemStepKeeps ==
  ASSUME Moved, OneAtATime, HistoryKept, [SystemNext]_systemVars
  PROVE  Keeps
<1>1. ASSUME UNCHANGED <<lastId, users, worker, accepted>>, Refines PROVE Keeps
  <2>1. DeletedForEver
    BY <1>1 DEF DeletedForEver
  <2> QED BY <1>1, <2>1, IdleWorkers DEF Keeps
<1>2. ASSUME UNCHANGED <<rows, lastId, users, worker, accepted>> PROVE Keeps
  BY <1>1, <1>2, StutterRefines
<1>3. CASE \E s \in Schedulers : MarkProcessing(s) /\ UNCHANGED workerVars
  BY <1>1, <1>3, MarkingClaims DEF MarkProcessing, workerVars
<1>4. CASE \E s \in Schedulers : SchedulerRuns(s) \/ SchedulerFails(s)
  BY <1>2, <1>3, <1>4 DEF SchedulerRuns, SchedulerFails, workerVars, databaseVars, Invoke,
                    FindMissedEvents, QueueMissed, QueueMissedFails, RecoveryDone, RecoveryFails,
                    SelectForUpdate, ClaimFails, SendClaimed, SendFails, SchedulerStops
<1>5. CASE ClockTicks \/ \E m \in Messages : QueueRuns(m) \/ QueueOvertakes(m)
  BY <1>2, <1>5 DEF ClockTicks, QueueRuns, QueueOvertakes, VisibilityTimeout, VisibilityTimeoutEarly,
                    Redrive, workerVars, databaseVars
<1>6. CASE UNCHANGED systemVars
  BY <1>2, <1>6 DEF systemVars, vars, workerVars, databaseVars
<1> QED
  BY <1>4, <1>5, <1>6, RegistrationKeeps, RequestKeeps, WorkerKeeps DEF SystemNext, Pipeline

LEMMA RefinementInit == SystemInit => RefinementInv /\ Chain!Init
<1> SUFFICES ASSUME SystemInit PROVE RefinementInv /\ Chain!Init
  OBVIOUS
<1>1. OneAtATime
  BY DEF SystemInit, Init, DatabaseInit, NoEvent, WorkerInit, IdleWorker, OneAtATime,
         OneOpenEventPerUser, Creating
<1>2. HistoryKept
  BY DEF SystemInit, Init, DatabaseInit, NoEvent, WorkerInit, IdleWorker, HistoryKept, PastTheCall,
         Creating, Open
<1>3. /\ rows = [e \in EventIds |-> NoEvent] /\ NoEvent.status = "NONE"
      /\ accepted = [e \in EventIds |-> 0]
  BY DEF SystemInit, Init, DatabaseInit, WorkerInit, NoEvent
<1>4. Chain!Init
  BY <1>3 DEF Chain!Init
<1> QED BY <1>1, <1>2, <1>4, FrozenInit DEF RefinementInv

\* The system implements the lifecycle: whatever updates, redeliveries, crashes, repeated
\* claims and deletions do, an event is claimed once, settled once, completed only after
\* it was accepted, and followed at most once, when it is completed.
THEOREM SystemImplementsLifecycle == SystemSpec => ImplementsChain
<1>1. SystemInit => RefinementInv /\ Chain!Init
  BY RefinementInit
<1>2. RefinementInv /\ [SystemNext]_systemVars => RefinementInv' /\ [Chain!Next]_(Chain!vars)
  <2> SUFFICES ASSUME RefinementInv, [SystemNext]_systemVars
               PROVE  RefinementInv' /\ [Chain!Next]_(Chain!vars)
    OBVIOUS
  <2>1. Moved /\ FrozenInv'
    BY SystemStepMoves, FrozenStep DEF RefinementInv
  <2>2. OneAtATime'
    BY <2>1, SystemStepChain DEF RefinementInv
  <2>3. HistoryKept' /\ Refines
    BY <2>1, SystemStepKeeps DEF RefinementInv, Keeps
  <2>4. [Chain!Next]_(Chain!vars)
    BY <2>3 DEF Refines, Chain!vars, Phase, Delivered, FollowedEvents
  <2> QED BY <2>1, <2>2, <2>3, <2>4 DEF RefinementInv
<1> QED BY <1>1, <1>2, PTL DEF SystemSpec, ImplementsChain, Chain!Spec
=============================================================================
