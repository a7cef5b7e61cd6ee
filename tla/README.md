# Events scheduler: specification and proofs

This directory specifies the scheduler in TLA+: users are registered, a birthday
event is stored for each, a scheduler Lambda claims the due events and queues
them, a worker Lambda calls the user's webhook, settles the event and stores
next year's; meanwhile users change their birthdays and timezones, and waiting
events are rescheduled. The modules follow the code in `src/`; TLC checks them
on small instances and TLAPS proves the most important claims for every size.

## 1. The system

| Component | State it keeps | Operations | Interacts with |
|---|---|---|---|
| Event entity (`Event.ts`, `EventStatus.ts`, `IdempotencyKey.ts`) | immutable record: status, target, version, retry count, key, payload | `claim`, `markCompleted`, `markFailed`, `reschedule`, `canRetry` | every use case |
| Event repository (`PrismaEventRepository.ts`, `schema.prisma`) | the events table | `create`, `findById`, `findByUserId`, `update` (optimistic lock), `claimReadyEvents` (row locks), `findMissedEvents`, `deleteByUserId` | PostgreSQL: unique key, foreign key with cascade |
| Scheduler Lambda (`schedulerHandler.ts`, `ClaimReadyEventsUseCase.ts`) | `recoveryCheckComplete` per warm instance | one invocation a minute: recover once, claim, send | repository, SQS |
| Recovery (`RecoveryService.ts`, `recovery-hook.ts`) | none | find missed events, queue each | repository, SQS |
| SQS queue (`SQSAdapter.ts`, `init-aws.sh`, `deploy-lambda.js`) | messages, receive counts, dead letter queue | send, receive in batches, time out, delete, redrive | both Lambdas |
| Worker Lambda (`workerHandler.ts`, `ExecuteEventUseCase.ts`) | none between invocations | execute a batch of records | repository, webhook |
| Webhook adapter (`WebhookAdapter.ts`) | none | `deliver` with retries; permanent or infrastructure error | external receiver |
| User use cases (`CreateUserUseCase.ts`, `DeleteUserUseCase.ts`, `UpdateUserUseCase.ts`, `GetUserUseCase.ts`) | the users table | create, read, delete, update; publish domain events | event bus |
| User entity and repository (`User.ts`, `DateOfBirth.ts`, `Timezone.ts`, `userMapper.ts`, `PrismaUserRepository.ts`) | immutable record | what the constructors accept, on writes and on every read; upcoming birthdays | user use cases |
| Event bus and handlers (`InMemoryEventBus.ts`, `event-handlers/`) | subscriptions | create, reschedule or delete the user's events; errors are swallowed | event use cases |
| Rescheduling (`RescheduleBirthdayEventsUseCase.ts`, `RescheduleEventsOnTimezoneChangeUseCase.ts`) | none | find the PENDING events, store each under the optimistic lock | repository, calendar |
| Birthday calendar (`BirthdayEventHandler.ts`, `TimezoneService.ts`) | none | next occurrence, leap days, conversion to UTC | event use cases |
| Delivery time and webhook configuration (`delivery-time-config.ts`, `webhook-config.ts`) | environment | parse overrides and offsets; the webhook URL or an error | calendar, event use cases |
| HTTP routes and schemas (`user.routes.ts`, `schemas.ts`) | none | judge requests, answer with a status | user use cases |
| Fast test script (`create-test-user-today.js`) | where it is | restart the server with a time seconds ahead, wait, register a user | HTTP server |
| Loggers, start files, generated code, deployment | none | – | – |

What is hard about it:

- **Concurrency.** Any number of scheduler and worker instances run over one
  database and one queue; the HTTP server changes users underneath them.
- **Commit order.** The claim commits before the send. The completion commits
  before the follower is created. The webhook is called before the completion.
- **Repetition.** SQS delivers at least once, the visibility timeout (30 s) is
  shorter than the worker's limit (60 s), axios repeats a call, recovery queues
  what the claim queues again.
- **Partial failure.** One record of a batch throws; one send of a claim fails;
  a reply is lost after its effect; the receiver accepts and answers garbage.
- **Stale state.** Events and users are read, then written after an await: by
  two updates of one user, by an update and a claim, by an update and the worker
  that is about to compute next year's event.
- **Edges of the calendar.** Leap-day births, hours that are skipped or doubled,
  offsets across midnight, ranges across the new year.

What makes each part correct:

- *Entity and repository:* a row moves PENDING, PROCESSING, settled, each once;
  its version counts the moves; a settled row is history.
- *Scheduler:* an event is in the hands of one instance from lock to send; locks
  end with their transaction; what is claimed is queued; every due event is claimed.
- *Queue:* every message is deleted or dead-lettered.
- *Worker:* completed means accepted; one record's failure is its own; a
  deliverable event settles; repeats have a cause.
- *Chain:* a user has one open event; completion and follower belong together;
  the follower can be delivered.
- *Rescheduling:* a claimed event is never moved; a waiting event is at the
  birthday its user has now; everyone who is registered has a next birthday;
  what follows a celebrated birthday is for a later one.
- *Calendar and delivery time:* an event is at the first birthday after the
  instant it was computed from, on the user's clock, through leap years and
  clock changes, whatever the server is told; an offset that was set is kept.
- *API:* what was stored can be read again; a registered user has an event.
- *Fast test:* the user it registers is celebrated when it says.

`PROJECT.json` lists the hazards at their lines with the properties that cover them.

## 2. Modules

| Module | Models | State | Actions |
|---|---|---|---|
| `EventEntity` | `Event.ts`, `EventStatus.ts`, `IdempotencyKey.ts`, the payload schema | – | `markCompleted`, `markFailed`, `PendingEvent` (functions on records) |
| `Platform` | clock and fault budget | `now`, `faults` | `Tick`, the two fault counters |
| `Database` | repository and PostgreSQL | `users`, `rows`, `lastId`, `locked` | `create`, `update`, `ToProcessing`, `CascadeDelete` (parts of other actions) |
| `SqsQueue` | queue, redrive, event source mapping | `queue` | `sendMessage`, `receiveMessages`, `MoveToDlq`, `deleteMessages` |
| `SchedulerLambda` | `schedulerHandler.ts`, recovery, claim | `sched` | one per step between awaits, and one per way to fail |
| `WorkerLambda` | `workerHandler.ts`, `ExecuteEventUseCase.ts`, `WebhookAdapter.ts` | `worker`, `accepted` | likewise; also the queue's own timeouts |
| `UserContext` | create and delete user, bus handlers | – | `CreateUser`, `CreateBirthdayEvent(Fails)`, `DeleteUser` |
| `Delivery` | all of the above composed | – | `Next`, `Spec`, `FairSpec`, all properties |
| `EventLifecycle` | the promise, without Lambdas, queue, versions | `phase`, `delivered`, `followed` | abstract steps |
| `UserUpdates` | `UpdateUserUseCase`, the bus, both rescheduling use cases | `profile`, `request` | `ReadUser`, `WriteUser`, `FindPending`, `StoreRescheduled`, `RescheduleFails`, `UpdateStops` |
| `System` | `Delivery` while users are updated | `celebrant`, and the history `disturbed` | `Registration`, `UpdateRuns`, `UpdateFails`, `Pipeline` |
| `Calendar` | `BirthdayEventHandler.ts`, `TimezoneService.ts`, luxon's part in them | – | `calculateNextOccurrence`, `convertToUTC` (functions on seconds) |
| `DeliveryTime` | `delivery-time-config.ts` | – | `parseTimeOverride`, `parseTestOffset`, `getDeliveryTimeConfig` (functions) |
| `UserApi` | routes, schemas, entities, use cases, one request at a time on the calendar | `now`, `server`, `user`, `event`, `keys`, `answer` | `Post`, `Put`, `Get`, `Delete`, `Wait`, `Celebrate` |
| `FastTest` | `create-test-user-today.js` against `UserApi` | `script` | `RunScript`, `killProcessOnPort`, `startDevServer`, `waitForServer`, `createTestUser` |
| `MCDelivery`, `MCSystem` | symmetry for TLC | – | – |
| `MCUserApi` | request bodies, clocks and servers for TLC | – | – |
| `CalendarProofs` | lemmas about the calendar, and what the code computes on it | – | – |
| `UserApiProofs` | theorems about the API and the fast test script | – | – |
| `DeliveryProofs`, `DeliveryChainProofs`, `DeliveryQueueProofs` | theorems about the pipeline | – | – |
| `SystemProofs`, `SystemRefinementProofs`, `SystemCalendarProofs` | theorems about the whole system | – | – |

How the code maps to the model:

- **One step is what happens between two awaits another process can observe.**
  Thus the claim is two steps (`SelectForUpdate` takes the row locks,
  `MarkProcessing` updates and commits), each `sendMessage` is one, and the
  worker has one step each for reading the event, the webhook call, the user
  lookup, the update and the create. Reads that only precede a step of the same
  process (parsing, formatting) are part of that step.
- **A process carries its stale copies.** `sched[s].todo` is what the instance
  read, `worker[w].ev` the entity as `findById` returned it. Updates compare
  that copy's version with the row's, as the `WHERE` clause does.
- **A row that was deleted** is `GONE`; its other fields remain so that
  properties can speak of history. Every operation treats it as absent.
- **The order of a batch** is nondeterministic (SQS does not order). The first
  record that throws ends the invocation, whatever was already done stays done.
- **Errors.** Each call that may fail has the failing branch; where the effect
  may have happened all the same (send, webhook) both outcomes are allowed.
  Faults spend a budget; answers of the receiver that are not faults (2xx, 4xx)
  do not. A database call of a worker that throws before its effect is
  `WorkerStops`, which ends the invocation like the rethrow does.
- **Times** are ticks in `Delivery`: a birthday is one of the next `Year` ticks,
  the next one `Year` later. In `System` a profile is a day of the year and a
  zone (ticks behind UTC, below 0 in the east), and the next occurrence is computed from them. In
  `Calendar` times are whole seconds on the Gregorian calendar. The idempotency
  key is the pair the code hashes.
- **Two views of the API.** `UserUpdates` has the steps of concurrent requests
  over abstract profiles; `UserApi` has whole requests of one user at a time with
  the columns, the statuses and the calendar. Users never share a row, so one
  is enough there; the pipeline is the single step `Celebrate`.
- **An update** is `ReadUser`, `WriteUser`, then for UserBirthdayChanged and
  after it for UserTimezoneChanged `FindPending` and one `StoreRescheduled` per
  event. An update that changes only the year of the birth reschedules too.
  `request[r].todo` and `.ev` are its stale copies; a store waits for a row lock,
  and a version conflict skips the event.
- **The rescheduled row keeps its key** (`Event.ts:131`), so a follower whose key
  is the old one's is silently skipped. `EndsChain` names that exception.
- **The local time loses its zone.** `eventMapper.ts` reads it back in UTC
  (`targetTimestampLocal`), which is what section 5's `rezoned` is about.
- **`disturbed`** records the users for whom an update was written over a change
  it had not read or while another one's handlers were still to come (`Races`),
  failed half-way, or lost the wall clock, or whose follower was created for a
  copy of the user that was no longer right, or between a write and its timezone
  handler (which shifts it again): the exceptions of `WaitsForBirthday`, each at the
  step where it happens.
- **The worker's delivery time** is always the default of 9:00
  (`workerHandler.ts:90`), whatever the HTTP server is told.
- **Statuses.** A schema's refusal is 400, a missing user 404. What only the
  entities refuse (29 February 1999, an unknown zone, a blank name, a birthday
  to come) is answered 500, as the routes do.
- **New York** changes its clocks on the 14th of March and the 7th of November,
  where the Sundays can fall; the host's zone is one per scenario; clients
  are idle while the script runs.
- **Payloads** have three kinds: with message and URL, with message only, none.
  Only the first passes `WebhookPayloadSchema`.
- The queue, the clock, the event source mapping and the webhook receiver are
  external and modelled from how the code uses them. A delete with the receipt
  handle of an older receive may or may not succeed, as SQS documents.

Bounds that only TLC needs: `MaxNow`, `MaxSchedulerFaults`, `MaxWorkerFaults`,
`MaxEvents` (rows ever created), `Copies` (times one event is ever queued; a
slot is used once, so a sender blocks when its slots are used up).
`Requests`, `MaxUpdates`
and `MaxApiFaults` bound the updates at once, ever, and the faults of the HTTP
process. `MaxSteps` bounds the writing requests and waits of a history in
`UserApi`; `FirstYear` and `LastYear` what its clock may reach.
`WebhookRetries`, `MaxReceiveCount`, `BatchSize`, `ClaimLimit`, `RecoveryLimit`
are parameters of the code or the deployment (3, 3, 10, 100, 1000).

## 3. What the runs check

| Run | Instance | Result |
|---|---|---|
| `pipeline` | 1 user, chain of 2 events, 1 scheduler, 2 workers, 2 copies, 2 worker faults, batches of 2, 1 webhook retry | all hold (764 000 states) |
| `claiming` | 2 users, 2 schedulers, 1 scheduler fault, claim limit 1, recovery limit 2, no worker | all hold (116 000 states) |
| `settling` | 1 user, 1 scheduler, 1 worker, batches of 1, 1 worker fault, 2 receives, fair | all hold (13 000 states) |
| `rescheduling` | 1 user, chain of 2 events, 2 requests, 2 updates, UTC and a zone east of it, 1 API fault, 1 scheduler, 1 worker, 2 copies | all hold (1 236 000 states) |
| `userapi` | 1 user, histories of 5 writing requests and waits, 11 bodies to create, 7 to update, 10 scenarios, 2099 to 2108 | all hold (214 000 states) |
| `stranded`, `duplicates`, `poisoned`, `unfollowed`, `undeliverable`, `rezoned`, `leapday` | one property each | violated, see section 5 |

*pipeline* asks whether repetition and crashes on the worker's side can corrupt
the history: `VersionTracksStatus`, `CompletedWasAccepted`,
`FollowerNeedsCompletion`, `OneOpenEventPerUser`, `SettledRowsNeverChange`. It
shows that every repeated acceptance has a cause (`RepeatsHaveACause`), that a
completed event stays without a follower only where a worker failed, at most once
per fault (`LostFollowersHaveACause`; `unfollowed` shows that one fault is enough), that
without scheduler failures a claimed event never loses its last message
(`ClaimedIsTracked`), that `Inv` (the inductive invariant of the proofs) holds,
and that the pipeline implements `EventLifecycle` (`ImplementsLifecycle`, with
statuses as `phase`, the accepted events as `delivered`, and the events whose
follower was ever created as `followed`). Two workers and two copies are
enough for two invocations to interleave on one event; two faults give a
redelivery racing a still running invocation that then crashes.

*claiming* asks whether row locks and the transaction keep two schedulers apart
through rollbacks, crashes and deletions. Claim limit 1 makes the instances
take different rows of the same ready set, recovery limit 2 lets recovery see
both. No worker is needed: properties are about rows, locks and send lists.

*settling* is the liveness run. `DeliverableSettles` and `NoDeliverableIsDead`
need batches of one and fewer worker faults than receives: `poisoned` shows
what larger batches do, and with as many faults as receives a message is rightly
dead-lettered.

*rescheduling* asks what updates do to the pipeline and the pipeline to updates.
`ClaimedIsFrozen` says that an event read as PENDING and claimed before it is
stored is not moved, and that nothing settled or erased comes back;
`WaitsForBirthday` that an update is never missed except where `disturbed` says
why; `EveryoneIsScheduled` that the chain ends only where the first event was
never created, or with a newest event that failed for good or whose follower's key
may be one that a moved event has kept; `OneEventPerBirthday` that what follows a
birthday celebrated at its local time is for a later local time. It speaks of local
times because targets do not keep that order: a change to a zone in the east puts
an event before its own local time (section 5). `ImplementsChain` is the lifecycle once more, under
updates. Two requests and one worker suffice for each race of two; two copies let
a message be repeated. Two ticks of year and two zones, UTC
and one tick east of it, distinguish a birthday from another and a wall clock from an
instant, and let a move go back in time.

*userapi* asks what the calendar does to a user's event. The years contain 2100,
which has no leap day, and the leap year 2104; clocks start ten seconds
before midnight of a 28 February, at exactly nine on 30 December, and in the
hours that New York skips and doubles; servers have no webhook URL, an override
in those hours, an invalid override with an offset, and offsets of 1, 30 and
86400 seconds (the first is refused, see section 5). `EventIsNextBirthday` compares
every event with a reference definition that searches the calendar for the
time of the day the server delivers at; `OffsetIsKept` is independent of how that
time was computed and says of a user on the UTC clock that an offset is kept to the
second, past midnight too. `StoredUserIsReadable`
says that no write lets through what a read refuses,
`FollowerIsNextYear` that the worker's nine o'clock continues the API's time
unless that was earlier. `UserHasEvent` says that a user is left without an
event only where there is no webhook URL or an event was moved since the
registration: it kept its key, and a follower may get the same one. Five steps
are the fewest that reach this: registration, three changes of birthday and
zone, and a wait. `SearchFindsBirthdays` compares with the reference definition
what `findUsersWithUpcomingBirthdays` finds, which no production code calls; it
misses leap-day births when the range ends on 28 February of a common year.
`TestEventIsImminent` is what the fast test script promises; it names the three
ways out the script has: an old server that was not killed, a start that takes
longer than the offset, and midnight in between. The run sets `CHECK_DEADLOCK
FALSE` because the script ends and the step bound stops the rest.
*leapday* is the instance of *userapi* without that flag, for its one property,
which the first registration already violates.

**Fairness.** `WF` on the clock, on each scheduler's and each worker's own steps,
and on each message's queue steps. EventBridge invokes every minute and a
Lambda that is not killed runs on; the event source mapping keeps polling;
visibility timeouts and the redrive policy are timers of SQS. No fault and no
user request is fair. Weak fairness of a worker's steps includes that the
receiver answers at all, which the adapter's request timeout ensures (an
unanswered call is then a fault). The clock stops at `MaxNow`; an event due
after that is not due in the instance.

Every other run checks for deadlock: a scheduler can be invoked again and finds
nothing, so no state of these instances is without a step.

Every property of a passing run has a mutant: a definition such as
`SelectWithoutLock` stands before the one it changes, and with it the property
is violated in the same run.

## 4. What is proved

For all values of the constants that satisfy the `ASSUME`s:

- `TypeCorrect`: `Spec => []TypeOK` (`DeliveryProofs`).
- `Invariance`: `Spec => []Inv`, and from it
  `ExclusiveClaims`, `LocksAreReleased`, `VersionsCount`, `NoFalseCompletion`
  and the action property `HistoryIsImmutable`.
- `NoFollowerWithoutCompletion`, `ChainIsSingle`, `EveryLostFollowerHasACause`:
  `Spec => []LostFollowersHaveACause`, and from it `EveryCompletionIsFollowed`: `Spec => [](faults.worker = 0 => CompletionIsFollowed)`
  (`DeliveryChainProofs`).
- `PipelineImplementsLifecycle`: `Spec => ImplementsLifecycle`, the refinement.
- `NothingClaimedIsForgotten`: `Spec => [](faults.scheduler = 0 => ClaimedIsTracked)`,
  `DeliverableIsNotGivenUp`: `Spec => [](faults.worker < MaxReceiveCount => NoDeliverableIsDead)`,
  and `EveryRepeatHasACause`: `Spec => []RepeatsHaveACause` (`DeliveryQueueProofs`).
- `SystemTypeCorrect`: `SystemSpec => []SystemTypeOK` (`SystemProofs`).
- `ClaimedEventsAreFrozen`: `SystemSpec => ClaimedIsFrozen`.
- `OneOpenEvent`: `SystemSpec => []OneOpenEventPerUser`.
- `SystemImplementsLifecycle`: `SystemSpec => ImplementsChain`, the refinement
  (`SystemRefinementProofs`).
- `NoBirthdayTwice`: `SystemSpec => []OneEventPerBirthday`,
  `NobodyIsForgotten`: `SystemSpec => [](faults.worker = 0 => EveryoneIsScheduled)`, and
  `WaitingIsAtBirthday`: `SystemSpec => []WaitsForBirthday` (`SystemCalendarProofs`).
- `NextOccurrence`: `calculateNextOccurrence` is the next birthday (`CalendarProofs`).
- `ApiTypeCorrect`: `FastTestSpec => []UserApiTypeOK` (`UserApiProofs`), and, with
  `WithinYears` as in `FastTestSpec => [](WithinYears => ...)`:
  `WaitingIsNextBirthday` (`EventIsNextBirthday`), `OffsetsAreKept`
  (`OffsetIsKept`), `RegisteredHaveEvents`
  (`UserHasEvent`), `FollowersAreNextYear` (`FollowerIsNextYear`),
  `StoredStaysReadable` (`StoredUserIsReadable`) and `SearchesFindBirthdays`
  (`SearchFindsBirthdays`, for ranges of at most 364 days).
- `TestEventsAreImminent`: `FastTestSpec /\ []WithinYears => TestEventIsImminent`.

Assumptions: the named `ASSUME`s. `Year` and the limits are positive, the
stand-ins (`NoUser`, `NoWorker`, `NoMessage`) are not members of what they stand
out from, the bounds are naturals, there is a zone, and zones are integers, on
either side of UTC. A calendar has at least two
years and at most 301 (for which the guess in `YearOf` is good), a clock begins
after its first day. The bodies and servers are any of `Bodies` and `Servers`.

Some theorems need more, and say so. Those about `UserApi` speak of states whose
clock is within the years of the calendar (`WithinYears`: three days before the
last of them begins), since a birthday beyond them has no place in it; every
state of *userapi* is one. `SearchesFindBirthdays` is about searches of less than
a year: a longer one still compares months and days only, and misses users.
`EveryRepeatHasACause` counts workers and copies, which must be finite sets, and
`DeliverableIsNotGivenUp` is about batches of one message and finitely many
copies. With larger batches it is false, as `poisoned` shows. The conditions on
faults are those under which the runs *pipeline*, *settling* and
*rescheduling* check the same invariants: with a fault they are false, as
`stranded` and `unfollowed` show. Every inductive invariant was evaluated by TLC
on such instances before it was proved.

**The pipeline.** `ClaimsAreExclusive` is not inductive: a scheduler at `mark` must
know that its rows are still PENDING and locked, and by nobody else
(`LocksAreHeld`), and one at `send` that its rows were claimed and can never be
selected again (`SendsAreClaimed`: a row never returns to PENDING). That a
settled row is not written again rests on versions: a worker writes version 3
over version 2, it reads its copy in PROCESSING (`CopiesAreClaimed`), and
`VersionTracksStatus` says that a row with version 2 is PROCESSING. `CompletedWasAccepted`
needs `CopiesAreClaimed` to carry the acceptance from the webhook call to the
update. `IdsAreFresh` keeps `create` from overwriting a row. Their conjunction
with `TypeOK` is `Inv`.

The proof first shows that every step moves rows in one of few ways (nothing,
a create, a claim, a settling, an erasure: the `...Moves` lemmas), then that
each part of `Inv` survives each way (`RowParts`, `SchedulersUndisturbed`,
`WorkersUndisturbed`), and treats per process only the steps that change its own
record.

**The chain.** `FollowerNeedsCompletion` and `OneOpenEventPerUser` are two sides of
one invariant (`ChainInv`). A user's events are ordered by their ids; only the
latest may be open, and only the worker whose update completed the latest may
create another. That worker is unique, since a completion is a write that the
version check lets through once. Every completion is followed because the
follower's key is new: its target is a year after that of the latest event, and
targets grow along the chain. The refinement needs, beyond that, that a worker
past the webhook call was accepted and that the user of an erased event never
returns.

**The queue.** `QueueInv` follows an event from the claim to its message: what
was claimed is in the hand of a scheduler about to send it (`InHand`), or it has
a message that is not deleted (`Tracked`) as long as no scheduler failed; and a
message is deleted only once its event is settled, which an invocation that has
passed the record knows (`Unhandled`). `ReceiveInv` accounts for every receive of
a deliverable event's message: one is in progress, and each earlier one was ended
by a fault of a worker, for with batches of one nothing else ends an invocation
without settling its event. `AcceptInv` counts what may still lead to an
acceptance, the tokens of an event: a message that waits, an invocation that has
not called the webhook yet, an attempt that may be repeated. Every step that
makes a token sends a message or spends a fault, and an acceptance uses one up.

**The whole system.** There a version no longer tells the status, since
rescheduling raises it as well. What remains is weaker and enough: nobody holds a
copy newer than its row, and as long as the row has the version of a copy that
was PENDING (`ReadPending`) or PROCESSING (`ReadClaimed`) when it was read, it
still is. Every step moves every row in one of three ways (`RowCreated`,
`RowWritten`, `RowErased`, in `RowMoves`), all of which make the version grow or
end the row. So a store that passes the version check meets a PENDING row
(`ClaimedEventsAreFrozen`). That a claim never reopens a settled row needs the
row locks too: what a scheduler at `mark` holds is PENDING and locked for it
alone (`SchedulerClaims`). Their conjunction is `FrozenInv`.

`OneOpenEventPerUser` is not inductive either. `OneAtATime` adds that a worker at
`create` has a user without an open event, and that no two workers create for
the same user: the write that completes an event is the only way to `create`,
and the lock lets one worker through per event.

The refinement needs the past (`HistoryKept`): a worker past the webhook call was
accepted; an open event, and one whose follower is still to be created, is its
user's newest; the user of an erased event never comes back. With it, creation
by a request is `Schedule`, `MarkProcessing` is `Claim`, an acceptance is `Deliver`,
`CompleteEvent` is `Complete`, `MarkFailed` is `Fail`, a worker's creation is
`Follow`, deletion is `Erase`, and everything else is a stutter.

**Birthdays.** What grows along a user's chain is the local time, not the target: an event
is for a later local time than every earlier one of its user that is not before its
own local time (`LocalsAreOrdered`; what `IsLaterThan` leaves out are the events that a
change to a zone in the east has put there). A worker computes the follower from the
local time of the newest event, which its copy still has (`CreatorKnowsLocal`), and the
next occurrence is later than what it is computed from (`OccurrenceIsLater`). A move to
a birthday computes from the clock instead. It keeps the order because what the user's
earlier events were claimed for was due by then (`ClaimedIsDue`), hence also their local
times where these are not later. A change of zone leaves the local time alone, and the
event that is moved lies after the earlier ones as long as it has the version that was
read (`MovesAreLater`). With `LiveHasUser` this is `CalendarInv`.

`NobodyIsForgotten` follows the worker past the completion. Without faults it goes
on to `create` (`ChainsGoOn`), it finds the user there (`NotFoundIsDeleted`), and it
leaves `create` without an event only if the key is taken. The event that has the
key is one of the same user (`KeysNameUsers`), and the key is that of a next occurrence
of the newest event's local time, which is what `EndsChain` says. So there is always a
next event, a worker about to create it, or a newest event with which the chain may end
(`HasNext`, `ScheduleInv`).

`WaitingIsAtBirthday` is about what an update that changes the profile owes the
events of its user. `FitsOrMoves` says of every waiting event of a user who is not
in `disturbed` that it fits the profile or an update is working on its user.
`InOrder` says what that update knows: it has not read the events yet; or the
event fits already, or is the one being stored at the version that was read, or
is among the copies still to be stored and has not changed since. No other update
works on the same user, and what is stored will fit (`RequestKnowsUser`); the
copies are events of that user (`OwnCopies`). These are `WaitInv`. Who writes a user and
is not recorded in `disturbed` has read the profile as it is and is alone with the
user's events (`WritesAlone`), and a follower is created for the profile as it is. The arithmetic is in
four lemmas: `ModUnique` says what determines a remainder, and with it an
occurrence fits its profile (`OccurrenceFits`), a moved event the profile
it was moved for (`RescheduledFits`), and a follower in UTC the day of the one before
it (`FitsInUTC`).

**The calendar.** Nothing here needs an induction over years, since the first day
of a year is a closed form: three divisions count the leap years before it, and
the digits of the year to the bases 4, 25 and 4 (`LeapDigits`) turn them into
sums. Hence years grow by 365 or 366 days (`YearIsLong`), every day lies in one
of them (`YearOfDay`), a date is found again from its day (`DateOfDay`), and the
birthdays of consecutive years follow one another (`BirthdaysFollow`). Clocks are
next: an instant shows a wall time in a zone (`Shows`), exactly or, where the hour is skipped,
an hour off, and what luxon's search for an offset returns is such an instant
(`FixedIsShown`). An instant before another year's birthday shows a wall time before it
but for that hour, so the birthdays' instants are ordered as well
(`BirthdaysAreOrdered`), and the first of two years' that is not over is the next one
(`NextOccurrence`). The code converts the instant once more: that changes nothing
(`ConversionIsStable`), and no instant shows the birthdays of two years (`ShownOnce`).

**The API.** `TypeInv` adds to the types what the script remembers and that the row is
one the entities accept. `EventIsNextBirthday` is not inductive: a celebration reads the
local time of the event, and a timezone change pulls it from the target. `EventIsRight`
says of both where they are: the local time is a birthday on the clock it was computed for, the
target shows it on the user's, and without a timezone change they are the same.
For the follower of the event of a registration it takes `KeyIsOwn`: the only key
so far is the event's, and the follower is later. A follower is in the next year because no
birthday lies between an event and the one a year later, also when nine o'clock comes
before the time the event had (`FollowerIsYearLater`). These are `YearsInv`.
`OffsetIsKept` rests on `BasisInv`: the delivery time of a created or moved event can be
read off the server, whose environment stays what it is as long as it has a user. The
instant meant is a birthday at that time of the day and within a day of the reference,
and so is the target, the first one after the reference (`EventIsRight`): there are no
two (`FirstOfDay`).
`StoredUserIsReadable` compares dates where the entity compared instants, on a clock that may go
back: `Begun` says that the midnight of the date is over, and midnight is never in an hour
that is shown twice (`MidnightStays`), so it stays (`BegunInv`). For the script,
`ScriptInv` says that a restarted server has the target time in its environment;
before midnight that time is still to come, so today is the next birthday of who was born
on this day (`TodayIsNext`).

**Only model-checked.** The liveness properties (fairness and `ENABLED` are outside
the prover's reach). Every safety invariant and action property of the passing
runs is a theorem, under the conditions named above.

## 5. Where code and documents disagree

| Run | The document | The code |
|---|---|---|
| `stranded` | `schedulerHandler.ts:162-163`: the next execution catches missed events, events stay PENDING if not claimed | the claim is committed before the send, a failed send is swallowed, PROCESSING rows are never looked for |
| `duplicates` | `docs/prd.md:92`: zero duplicates under any scenario | recovery queues without claiming, the claim queues again; two workers deliver both (no fault needed) |
| `poisoned` | `workerHandler.ts:72,100`: records are independent, the retry is for that message | the first throw fails the whole batch, also the records not tried yet |
| `unfollowed` | `ExecuteEventUseCase.ts:267`, `docs/prd.md:567`: one transaction | two commits; a stop between them is never repaired |
| `rezoned` | `RescheduleEventsOnTimezoneChangeUseCase.ts:19-20`, `docs/stories/1.11.user-crud-rest-api.story.md:50`: the local time stays 9:00 | the local time is read back in UTC, and its UTC wall clock becomes the time in the new zone (line 117) |
| `leapday` | `docs/prd.md:566`, `docs/brief.md:370`, `docs/stories/1.11.user-crud-rest-api.story.md:66`: born on 29 February, celebrated on 1 March in common years | 28 February (`BirthdayEventHandler.ts:118-123`, whose comment agrees with stories 1.5:248 and 2.10:153); `EventIsNextBirthday` and `FollowerIsNextYear` take the code's day |
| `undeliverable` | `workerHandler.ts:89`, `docs/prd.md:559`: the payload has the URL, messages continue annually | next year's payload is `{ message }` only |

Disagreements without a run of their own:

- `docs/stories/1.11.user-crud-rest-api.story.md:58,64,69` promise that the update of a
  user and the rescheduling succeed or fail together. The code commits the user, then
  each event on its own, and swallows a handler's error
  (`UpdateUserUseCase.ts:98-121`, `InMemoryEventBus.ts:103`). In *rescheduling* this is
  `RescheduleFails` and `UpdateStops`, whose users are in `disturbed`: `WaitsForBirthday`
  does not speak of them.
- The comment at `delivery-time-config.ts:193` gives 1 second as the smallest offset and
  0.0167 minutes for it. One second is 0.01666... minutes, so it is refused and the default
  of nine o'clock is used. `OffsetIsKept` begins with two seconds.
- What `rezoned` shows has a second side in zones east of UTC. Who was celebrated in
  UTC on 1 January at 9:00 and then moves the birthday to 2 January and to
  Kiritimati with one request has the follower moved to 1 January 19:00 UTC, which the
  timezone handler reads as the wall clock of Kiritimati: 1 January 5:00 UTC. The
  event is due at once and the user celebrated a second time that day. Its local time
  is still the later one, which is all that `OneEventPerBirthday` says.

## 6. Not modelled, and what is left

- Logging, the start files, generated schemas and response schemas: they hold
  no state of the system.
- Deployment and diagnostics scripts run once, by hand. The limits they give the
  queue and the Lambdas are constants of `SqsQueue` and `WorkerLambda`.
- The queue's retention period (a day) and the growth of the dead letter queue:
  no code reads either.
- Which failures of a webhook call are sent again, and the delays in between: a
  failed attempt may be repeated or not.
- luxon and the zone database: `Calendar` has the rules the code relies on, for
  three zones and whole seconds.
- Liveness under updates: a user who keeps changing the birthday may rightly
  postpone the event for ever, and with finitely many updates what remains is the
  pipeline of `settling`.

Left for later: the liveness of the whole system under finitely many updates, as a run.
