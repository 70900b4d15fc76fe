# A TLA+ verification of Plantak

Plantak is an appointment-booking back end: a NestJS API and a set of worker
processes (`apps/api/src`) over PostgreSQL (Prisma), Redis and BullMQ.  This
directory models the parts of it in which concurrency, failure or time decide
whether it is correct, checks them with TLC on small instances, and proves the
main invariants with TLAPS for instances of any size.  Paths below are relative
to `apps/api/`.

## The system

| Part | State it keeps | Operations | What is hard about it |
|---|---|---|---|
| Bookings (`src/bookings`) | `Booking`, `BookingHistory`, `IdempotencyKey` | create, reschedule, cancel, confirm; list, history, calendar | check-then-update at READ COMMITTED, keys looked up before and saved after the transaction, an aborted transaction that looks successful |
| Outbox trigger (`prisma/migrations/20260308211716…`) | `OutboxEvent` rows | on insert and update of `Booking` | must follow every committed change |
| Outbox dispatcher (`src/outbox`) | status, attempts, lock of `OutboxEvent`; the BullMQ queues | revive, claim, dispatch, mark sent, retry or fail | two dispatchers, stale locks, a crash between the queue and the table |
| Runtime leases (`src/runtime`) | `RuntimeLease` | tryAcquire, renew, release | expiry against the local clock, re-reads that see another owner's row |
| Dispatcher worker (`src/outbox/outbox-dispatcher.worker.ts`) | leader or follower, per process | step on a timer, shut down | overlapping steps, pauses, shutdown during a step |
| Leased cron (`src/scheduler`) | in-process set of running jobs; a lease | runWithLease | the lease is not renewed while the job runs |
| Queue consumers (`src/queue/processors`) | BullMQ jobs, retries, the dead-letter queue | process | retries, stalled jobs, poison messages |
| Queue idempotency (`src/queue/queue.idempotency.service.ts`) | Redis lock and done key per event | runOnce | a lock with a time to live and no owner token, a crash after the effect |
| Backpressure (`src/queue/backpressure`) | Redis rate key and sorted set of slots | acquire, release (Lua) | a global limit over processes, slots that expire, spacing |
| Availability (`src/availability`, `src/infra/redis-cache.service.ts`) | cached pages in Redis | slots of a day; cache aside; deletion by prefix | a page computed before and stored after a deletion, from rows of different moments |
| Services (`src/services`, `src/service-categories`) | `Service`, `ServiceCategory`, variants, add-ons, `ServiceStaff`; two cached public lists | create, update, archive, setServiceStatus, replaceStaffServices; resolveForSelection | a row is checked by one query and written by another; the selection is read outside the booking's transaction; who deletes which cached value |
| Working hours (`src/working-hours`) | `WorkingHour` | replace | delete-all and insert-all by two requests at once |
| Time off (`src/time-off`) | `TimeOff` | create, update, remove | two updates of the two ends of a range; deletion of pages |
| Staff invites (`src/staff-invites`, `src/staff`) | `StaffInvite`, `Staff.userId`, `BusinessMember` | createInvite, acceptInvite, updateProfile | check-then-create, two accepts at once |
| Sessions and login codes (`src/auth`) | `User`, `RefreshSession`, `LoginCode` | register, login, refresh, revokeAllSessions; request and verify a code | rotation by find-then-update, tokens of one second are equal, attempts checked before they are counted |
| Guards, interceptors, throttling, dashboards, DTOs | - | - | no state of their own that the code changes |
| `apps/web` | - | - | a page scaffold |

Requests reach the API over HTTP; the API writes PostgreSQL; a trigger turns
every committed change of a booking into an outbox row in the same transaction;
the process that holds the dispatcher lease is meant to move outbox rows into
BullMQ queues; the consumers process each event through `runOnce`; the
availability pages are cached in Redis and deleted by whoever changes what they
were computed from.  (`runWithBudget` of the backpressure service exists, but
nothing in `src` calls it; the same is true of `drainOnce`, see the findings.)

What makes each part correct:

- bookings: staff are never booked twice, a booking keeps its length, the audit
  trail and the outbox end where the row is, an idempotency key has one answer
  and it is true;
- dispatcher: an outbox row marked SENT is in its queue, no row is given up
  early, and as long as `drainOnce` is called every row ends SENT or FAILED;
- leases: at most one holder of an unexpired lease; one working leader at a
  time as far as a lease can give that, and a new one when it is gone;
- consumers: an event's effect happens at least once unless a run left its lock
  behind, and at most once while locks outlive handlers; what is acknowledged has
  happened, and what has not ends as failed;
- backpressure: at most `maxConcurrent` holders, starts at least the spacing
  apart;
- availability and catalogue: a cached page or list that is not what would be
  computed now is about to be deleted or was outrun by an event that can be named,
  and does not stay so; a slot that is offered is free;
- hours, services of a member of staff: a replacement leaves the rows of one
  request, except in a race;
- calendar: ranges end after they start, bookings are apart;
- sessions, codes, invites: nothing spent is used again without a race, a logout
  of all sessions ends them all, wrong answers are counted, a link to staff is an
  accepted invite.

## The modules

| Module | Models | Composition |
|---|---|---|
| `BookingDiary` | what the booking API promises: whole changes of bookings, each with its history and event, and answers to keys | - |
| `Bookings` | create, reschedule, cancel, confirm; exclusion constraint; trigger; idempotency keys; invalidation | instantiates `BookingDiary`, and implements it (`DiarySpec`) |
| `OutboxDelivery` | what the outbox promises of its rows: tried until sent or out of attempts, then left alone | - |
| `OutboxDispatcher` | `drainOnce` in several processes | instantiates `OutboxDelivery`, and implements it (`DeliverySpec`) |
| `RuntimeLease` | the lease row and the three calls that write it | - |
| `DispatcherWorker` | the worker process around the dispatcher | EXTENDS `RuntimeLease`, and implements its `LeaseSpec` |
| `LeasedCron` | `runWithLease` in several processes | EXTENDS `RuntimeLease`, and implements its `LeaseSpec` |
| `OutboxDeployment` | which actions of a dispatcher the deployed worker can take | EXTENDS `DispatcherWorker`, instantiates `OutboxDispatcher` |
| `QueueConsumers` | `process`, `runOnce`, `moveToDlq` over BullMQ | - |
| `RedisCache` | `getJson`, `setJson`, `delKeys`, `delByPrefix`, expiry | - |
| `ServiceCatalog` | categories, services, variants, add-ons, the services of staff; the public lists; `resolveForSelection` | EXTENDS `RedisCache` |
| `StaffCalendar` | working hours, time off, bookings as far as pages show them; deletion of pages | EXTENDS `ServiceCatalog` |
| `Availability` | the computation of a page, and everything above as one system | EXTENDS `StaffCalendar` |
| `Accounts` | users, refresh sessions | - |
| `LoginCodes` | login codes | EXTENDS `Accounts` |
| `StaffInvites` | invites, staff, members; with accounts and codes as one system | EXTENDS `LoginCodes` |
| `...Proofs` | theorems about the module they extend | EXTENDS it and `TLAPS` |
| `MCBookings`, `MCDispatcherWorker` | the symmetry sets of the runs that check safety only | EXTEND their module |
| `MCAvailability`, `MCStaffInvites` | the tables and the requests of the small instances | EXTEND their module |

Definitions named `X` followed by what is wrong with them (`FreeOfConfirmed`,
`RecheckNot`, ...) and commented "Mutated form of X" are no part of a
specification.  Each is a plausible mistake in `X`; with it in the place of `X`
the run that checks the property listed for it in `PROJECT.json` fails, which
shows that the property depends on that line of code.

### Bookings

A request is a process whose `pc` names the await it is in; `input` is the DTO
and the actor, `seen` the row its transaction has read (for create: the row it
will insert), `tx` the update a reschedule has made and not committed, `reply`
the answer.  The tables are `bookings`, `history`, `outbox`, `idem`.  The calls to
Redis are awaits here; the pages they delete are in `Availability`.

| Action | Code (`bookings.service.ts`) |
|---|---|
| `Begin` | controller, `idemGet`: a stored answer, a conflict, or on |
| `CreateResolve`, `CreateCommit` | `resolveForSelection`, then the transaction of `create` with constraint, history and outbox rows |
| `RescheduleRead`, `RescheduleUpdate`, `RescheduleInvalidate`, `RescheduleCommit` | the transaction of `reschedule`, which writes the key and calls Redis before it commits |
| `CancelRead`, `CancelCommit`, `ConfirmRead`, `ConfirmCommit` | `cancel`, `confirm`, with their early returns |
| `IdemSave`, `Invalidate` | after the commit |
| `Fail` | any await throws: rollback and the error answer |
| `Tick` | the clock, which notice windows are compared with |

Reads are at READ COMMITTED: they see the last committed row, and nothing keeps
it from changing.  Writers wait (`Waits`, `KeyWaits`) for an open transaction
that holds the same row, a conflicting interval or the same key; a failed
statement leaves `tx.aborted` set and the commit becomes a rollback.  The
trigger and the exclusion constraint are part of every commit (`CommitInsert`,
`CommitUpdate`, `UpdateEvents`, `Free`).

`BookingDiary` is the abstract specification: no requests, awaits or transactions,
only `Create`, `Move`, `Cancel` and `Confirm`, each of which enters a row, one line
of history and, if the row is another one, one event, at a time nobody else
has; and `Keep`, which gives a key its one answer, about a state its booking was
in.  It also says what is not promised: `Confirm` and `Move` take a cancelled
booking, the start a change is said to come from may be an older one of the
booking, and a change need not be answered.  The mapping is the identity on the
four tables; what the proof and the runs add is that every commit, whatever its
handler has read some awaits before, is one of these changes of the row as it is
by now.

Abstracted: prices, currencies, names and reasons; the length of a service is
one number chosen from `Total`; time is in units of minutes from 0; the reading
operations (list, calendar, history) change nothing and are left out.

### OutboxDispatcher

`outbox` is the table; ages of locks and waits are relative, so the state space
is finite without a bound of the clock.  A call of `drainOnce` is `Revive`, and
the run then `Continue`s: `ClaimSelect` (the `SELECT ... FOR UPDATE SKIP LOCKED`),
`ClaimUpdate`, then per row `Dispatch`, `MarkSent` or `MarkRetryOrFailed`.  `MarkSentFails` reports an error before or
after its effect; `Abort` ends a run at any point, which is what both a crash
and a failing call outside the row loop do.  `late` and `unsure` record the two
reasons for which a row can be handled twice; together they are the rows that
`OutboxDelivery` calls doubted and for which alone it does not promise one
outcome.  The exponential backoff of the code is the constant `RetryDelay` (the
properties only need that it ends), and a job is accepted under the row's id, as
BullMQ's `jobId` makes it.

### RuntimeLease, DispatcherWorker, LeasedCron, OutboxDeployment

A caller computes `now` and `expiresAt` before its UPDATE runs; `lag` is the
time in between, `0..MaxLag`.  `left` and `held` are the ticks until expiry, of
the row and of what each process last wrote itself.  Clocks are assumed equal.
The fencing token is not modelled: the code increments it and only logs it.

`DispatcherWorker` gives every process `Slot` concurrent steps and one shutdown;
`call` is what each awaits, `app` is `dispatcherApp`, `contexts` are the contexts
that really run.  `GONE` stands for the owner id of a process that has ended:
ids contain a random part, so a restarted process is another owner.
`LeasedCron` has `localRunning` and firings as slots.  Each step of either module
is one step of the lease or leaves it alone (`LeaseSpec`), which the run `cron`
checks of the cron and theorems prove of both.

A close that fails has two outcomes.  That of `becomeFollower` ends the step with
`dispatcherApp` as it was (`StepFails`), so that the next step closes it again.
Those of the shutdown handler and of the catch of `becomeLeader` are ignored
(`CloseIgnored`): `dispatcherApp` becomes null, the context may go on, and the lease
is released.  The shutdown then exits, which ends the context; until it does, the
next leader runs a second dispatcher beside it (`Left(p)`).  The catch has a context
to close only if another step started one in the meantime.

`OutboxDeployment` composes worker and dispatcher as `outbox-dispatcher.module.ts`
does.

### QueueConsumers

`job` is what BullMQ knows of a job (state, failed attempts, backoff left,
stalls, and the worker whose claim is good), `run` what a worker is awaiting for
which job.  `process` is `Route`, and for jobs that go on `Check`, `Lock`,
`Busy`, `Recheck`, `Handle`, `Record`, `Unlock`: one action per Redis command.
`Throws` lets each of them fail before or after its effect.  `ClaimExpires`
makes BullMQ take a job back from a worker that is still at it (`TakeBack`);
`Crash` kills a worker.  The jobs outside the special sets share one event, since
keys of different events do not meet.  `unsure` records that a run overran its
lock or ended between its write and its record, the two ways in which the code
may write an event twice.

Left out: the done key's seven days, the retention of finished jobs, and the
three queues' names (their processors are the same text).

### RedisCache, ServiceCatalog, StaffCalendar, Availability

One business.  A request is numbered by its arrival and asks one of `Asked[r]`,
a record with the operation and what the DTO carries; `at[r]` names the await it
is in, `job` is what `resolveForSelection` has read for it, `seen` the rows its
last query or its open transaction has, `page` the part of a page that it has
computed.  Each query, each transaction and each Redis call is one action, and
other requests run in between.  A request that its first check refuses changes
nothing and is no step.

| Actions | Code |
|---|---|
| `CreateCategory`, `CheckCategory`/`WriteCategory`, `CreateService`, `CheckService`/`WriteService`, `BustPublicCache` | `services.service.ts`: a check, a write by id, `bustPublicCache` |
| `CheckParent`, `CreateChild`, `CheckChild`, `WriteChild` | the services of variants and of add-ons, which delete no cached value |
| `CheckItems`, `Unlink`, `UnlinkResumes`, `Relink`, `AbortRelink` | `replaceStaffServices`: deleteMany and upserts in one transaction, which waits for rows another one has deleted, or is the victim of a deadlock |
| `BeginList`, `ReadCategories`, `ReadServices`, `ReadIncluded`, `StoreList` | `listPublicCategories`, `listPublicServices`; Prisma fetches included rows by further queries |
| `ReadService`, `ReadLink`, `ReadVariant`, `ReadAddons` | `resolveForSelection`, for pages and for `create` of a booking |
| `BeginReplace`, `DeleteHours`, `DeleteResumes`, `InsertHours` | `WorkingHoursService.replace`: a statement's snapshot at READ COMMITTED |
| `CreateTimeOff`, `FindTimeOff`, `WriteTimeOff`, `RemoveTimeOff`, `TimeOffGone` | `TimeOffService` |
| `BeginBooking`, `CommitBooking`, `CancelBooking`, `ConfirmBooking`, `MoveBooking`, `CommitMove` | `BookingsService`, whose own protocol is the module `Bookings` |
| `ScanPages`, `DelPages`, `DelFails` | `delByPrefix` with the prefix of the caller; bookings catch its failure |
| `BeginPage`, `ReadStaff`, `ReadHours`, `ReadBookings`, `ReadTimeOff`, `StorePage` | `AvailabilityController` and `getAvailability` |
| `Fail` | a call throws or the process dies: the open transaction is rolled back, the rest does not happen |
| `Lapse` | Redis drops a value whose time to live is over |

`Slots`, `TotalMin`, `Resolves` and `PageNow` are the same computations over the
tables of one moment.  Three history variables carry what the properties need:
`overtaken[r]`, the requests that committed since the first query of `r`;
`excused`, the keys whose stored value an event has made untrue that nobody will
repair by a deletion; and `faults`.

Abstracted: `visibility = PUBLIC` and `onlineBookingEnabled` are one `open`;
duration and buffers are one length, for which no DTO has a minimum (it may be
0 or negative); one day stands for the range of days and its ticks for minutes;
a page's key stands for its whole query.  A booking's row is only the time it
takes; status, keys and history are in `Bookings`.

### Accounts, LoginCodes, StaffInvites

Requests as above; `found` is the row its first query found and `iat` the second
in which its token was signed.  A JWT has a resolution of a second and
`RefreshSession.tokenHash` is not unique, so a token names every session of its
user and second, and `BeginRefresh` may find any of the live ones.

| Actions | Code |
|---|---|
| `BeginRegister`/`CreateUser`, `BeginLogin`, `IssueTokens`, `StoreRefreshSession` | `auth.service.ts`: register, login, `issueTokens`, `storeRefreshSession` |
| `BeginRefresh`, `RevokeOld` | refresh: find, revoke by id, then issue and store |
| `LogoutAll`, `Answer` | `revokeAllSessions` |
| `BeginCode`, `CreateCode` | `requestLoginCode` |
| `BeginVerify`, `TooMany`, `Miss`, `Consume`, `FindUser` | `verifyLoginCode`, which ends in the actions of register or of login |
| `BeginInvite`, `FindActive`, `CreateInvite` | `createInvite` |
| `BeginAccept`, `ReadStaff`, `AcceptInvite`, `AcceptRolledBack` | `acceptInvite` |
| `BeginProfile`, `WriteProfile` | `updateProfile` |
| `Fail`, `Tick` | a failing call or a crash; the clock |

History: `overtaken` as above; `behind`, the sessions from before a logout of all
sessions, with what refreshes made of them; `spared`, the refreshes in flight at
such a logout; `misses`, the wrong answers per code.

## The runs

| Run | Instance | Shows |
|---|---|---|
| `bookings_races` | 3 requests of any kind and actor, 2 bookings, 2 start times, 2 lengths, 1 key | type, `NoDoubleBooking`, `OpenMovesFit`, `RecordsTrackRow`, `StoredAnswersHappened`, `DiarySpec` |
| `bookings_legacy` | 2 requests, an old row without `totalMinSnapshot` in any status, the clock crosses the notice window; fairness | `DiarySpec`, `EveryRequestAnswered` |
| `bookings_confirm_cancelled` | finds the violation of `CancelledNeverConfirmed` | finding 1 |
| `bookings_lost_reschedule` | finds the violation of `RescheduleAnswerHappened` | finding 2 |
| `outbox` | 2 rows (one without a queue), 2 dispatchers, 2 attempts, 1 fault | type, `SentWasQueued`, `FailedUsedAllAttempts`, `SoleClaim`, `DeliverySpec`, `EveryRowSettles` |
| `worker` | 2 processes, ttl and lag 2, 2 faults, steps that do not overlap | type, `LeaseIsExclusive`, `StrayOnlyAtExit`, `LeaderStepsDown`, `FailOver` |
| `worker_one_context` | overlapping steps: finds the violation of `OneContext` | finding 3 |
| `deployment_never_drained` | one process, one row: finds the violation of `StaleRowIsSent` | finding 4 |
| `cron` | 2 processes, 2 overlapping firings each, 2 faults | type, `OverlapNeedsOverrun` (and never twice in one process), `LeaseSpec`, `JobKeepsRunning` |
| `consumers` | 2 workers, 2 jobs of one event, 1 job for the dead-letter queue, 2 attempts with a backoff of 1 tick, a lock of 3 ticks, 1 fault | type, `WrittenOnce`, `CompletedWasWritten`, `FailedIsDeadLettered`, `EventIsWritten` |
| `availability` | 3 requests, 2 in flight, 1 failure; 1 member of staff, 2 services (a third can be created) of which one with a variant and add-ons, 2 page keys and the 2 lists, a day of 3 ticks; every operation among the requests | type, `StaleIsExplained`, `OfferedSlotsAreFree`, `TimesStaySound`, `RowsMixOnlyInARace`, `ArchivedActsOnlyInARace`, `StaleEnds` |
| `accounts` | 4 requests, 2 in flight, 1 failure; an owner and a guest, 2 members of staff, 2 seconds, 1 attempt per code | type, `LogoutMissesOnlyRequestsInFlight`, `MissesAreCounted`, `LinkedStaffAccepted`, `SpentOnlyInARace` |

Why the bounds are enough for the questions asked.  A race on a booking needs
the writer, the one it races with and one that profits (a confirm that revives a
cancelled booking whose time a third request has taken): three requests, two
bookings and a pair of overlapping times.  A row of the outbox is stolen by one
other dispatcher; a lease is contended by two processes, and lag up to the ttl
covers calls that write a lease that has already expired.  An event meets itself
in two jobs and two workers.  The lock of an event outlasts all the backoffs of a
job, as the 300 s of the code do for `notifications` (30 s), where booking events
go, and for `sync-jobs` (93 s): the second attempt is the last and may find the
lock of a dead run.  `EventIsWritten` is about one fault.  With more, a job may
fail at each of its attempts, or use them up on the lock of a run whose own job
BullMQ then gives up as stalled.  A stale page needs a request that computes it, one
that changes what it shows and one that reads or changes again, and no more than
two of them are in flight in any of these races; mixed rows need two replacements
at once, and a third that began with the rows of the first.  `MCAsked` lets the
first request ask what others build on, the second anything, and the third what
meets it.  A rotation that survives a logout needs a session, a refresh, a logout
and a refresh of what it left: four requests.  Each bound of faults is per run of the whole
system, and one is enough to take every fault branch at every await; the proofs
below have no such bounds.  `MaxNow`, `MaxFaults`, `MaxLag`, `MaxStalled`, `MaxRequests`, `MaxOpen`, `MaxTime` and the
relative clocks are the only caps; none restricts an operation of the code.

Deadlock is not checked where the system may rightly come to rest (all requests
answered, all jobs finished); the other runs check it.

## Fairness

- `bookings_legacy`: weak fairness of each request's own handler (`Step`).  Node
  runs a handler whose await has returned, PostgreSQL grants a lock once it is
  free.  `Fail` is not fair: no request is answered only because a call failed.
  New requests need not come.
- `outbox`: the clock, and a run that has been called (`Continue`).  Calls of
  `drainOnce` (`Revive`) are not fair, since nothing in `src` makes them (finding
  4).  `EveryRowSettles` therefore says: either from some moment on no run is under
  way, or every row settles.  In the deployed worker it is the first.  Queues may
  refuse for ever, which then uses the attempts up.
- `worker`, `cron`: the timers (`setInterval`, the cron expression) fire again
  and again, calls return, and the clock goes on.  Crashes, restarts, signals
  and failed calls need not happen.
- `consumers`: BullMQ gives out waiting jobs and takes stalled ones back, the
  clock goes on, and a run that is not killed goes on.
- `availability`: only Redis is fair: it drops a value whose time to live is over
  (`Lapse`).  Requests may stop at any await, so `StaleEnds` rests on expiry and
  on nothing a handler does.

## What is proved

All for every value of the constants that satisfies the named assumption of the
module.

| Module | Theorem | Says |
|---|---|---|
| `BookingsProofs` | `TypeCorrect` | `Spec => []TypeOK` |
| | `NeverDoubleBooked` | `Spec => []NoDoubleBooking` |
| | `OpenMovesAlwaysFit` | `Spec => []OpenMovesFit` |
| | `FinishedStaysFinal`, `KeysStayWritten` | `Spec => FinishedIsFinal`, `Spec => KeysAreWrittenOnce`, action properties |
| | `RecordsAlwaysTrack`, `StoredAnswersAlwaysHappened` | `Spec => []RecordsTrackRow`, `Spec => []StoredAnswersHappened` |
| | `BookingsKeepTheDiary` | `Spec => DiarySpec`: the handlers implement the diary |
| `OutboxDispatcherProofs` | `TypeCorrect`, `SentHaveJobs`, `FailedAreExhausted`, `ClaimsAreExclusive` | the four invariants of the run `outbox` |
| | `SentRowsStay` | `Spec => SentStays`, an action property |
| | `RunsDeliver` | `Spec => DeliverySpec`: the runs implement the outbox |
| | `TriesAreBounded` | at most `MaxAttempts` attempts for a row not in doubt, the last of which settles it |
| `RuntimeLeaseProofs` | `LeaseTypeCorrect`, `LeaseExclusive` | the lease row, `LeaseSpec => []LeaseIsExclusive` |
| `DispatcherWorkerProofs` | `WorkerTypeCorrect` | `Spec => []TypeOK` |
| | `WorkersUseTheLease` | `Spec => LeaseSpec`: the workers implement the lease |
| | `WorkersLeaseExclusive` | hence the lease stays exclusive, with any number of overlapping steps |
| | `WorkerStrayOnlyAtExit` | `Spec => []StrayOnlyAtExit`: as long as steps of a process do not overlap, a context that runs is the one `dispatcherApp` refers to, or one that its shutdown failed to close |
| `LeasedCronProofs` | `CronTypeCorrect` | `Spec => []TypeOK` |
| | `CronUsesTheLease` | `Spec => LeaseSpec`: the cron jobs implement the lease |
| | `CronOneFiring`, `CronOverlapNeedsOverrun` | one firing at a time in a process, hence `Spec => []OverlapNeedsOverrun` |
| `QueueConsumersProofs` | `TypeCorrect` | `Spec => []TypeOK` |
| | `EventWrittenOnce` | `Spec => []WrittenOnce` |
| | `AcknowledgedWasWritten` | `Spec => []CompletedWasWritten` |
| | `FailedJobsAreLettered` | `Spec => []FailedIsDeadLettered` |
| `AvailabilityProofs` | `TimesSound` | `Spec => []TimesStaySound` |
| | `RowsMix`, `ArchivedActs` | `Spec => RowsMixOnlyInARace`, `Spec => ArchivedActsOnlyInARace`, action properties |
| | `StaleExplained` | `Spec => []StaleIsExplained` |
| | `TypeCorrect`, `OfferedFree` | `Spec => []TypeOK`, `Spec => []OfferedSlotsAreFree` |
| | `SlotsAreFree` | what `Slots` returns for numbers lies in the windows and shares no tick with what is taken |
| `AccountsProofs` | `TypeCorrect` | `Spec => []TypeOK` |
| | `LogoutRevokes`, `MissesCounted`, `LinkedAccepted` | the three invariants of the run `accounts` |
| | `SpentOnlyOnce` | `Spec => SpentOnlyInARace`, an action property |

The arguments:

- *Bookings.*  `NoDoubleBooking` alone is not inductive: a reschedule commits a
  row it checked earlier.  `FitInv` adds `OpenMovesFit`, that every uncommitted
  move fits the committed rows and the other open moves; it is kept because a
  writer that does not wait (`~Waits`) conflicts with no open move, and one that
  the constraint lets through (`Free`) conflicts with no committed row.  The
  lemma `WriteFits` says this once for all writers.
- *What bookings leave behind.*  `FinishedIsFinal` rests on `WritersSawOpenRows`:
  whoever is about to write a row has read it as active, and since then it may have
  been cancelled or confirmed, but no step makes a row COMPLETED or NO_SHOW.  `KeysAreWrittenOnce` rests on
  `OpenKeysAreFree`: a key that an open transaction has inserted is not committed
  by anybody else, because the unique constraint makes the second one wait.
  `RecordsTrackRow` and `StoredAnswersHappened` need each other and are proved
  together as `Recorded`: the rows agree with their history (`Records`), what a
  handler holds agrees with what it will write (`LocalsFit`), and the answer it is
  about to give or to store describes a committed change (`RepliesHappened`).
- *Diary.*  A commit that does not look again must still be a change of the row as
  it is.  `HandlersHold` says what a handler holds across its awaits: the row it
  will insert is a whole PENDING one; the start it has read is one the booking has
  or had, which stays true because no commit takes a start out of the history
  (`StartsStay`); and the update of an open reschedule is a move of the row as it
  still is, since whoever would change that row waits for it.  With `FitInv` (the time
  is free), `WritersSawOpenRows` (the booking is not over), `Recorded` (the history
  ends with the start that is left, and the answer to a key happened) and
  `OpenKeysAreFree` (the key had no answer), each commit is a step of the diary
  (`CreateEnters`, `StatusEnters`, `MoveEnters`, `AnswersKept`), and each other
  action leaves its tables alone.  `FinishedIsFinal` and `KeysAreWrittenOnce` are
  proved on their own too; the runs check the diary, which says more.
- *Outbox.*  `Claims` says what a run may rely on between its steps: a claim that
  has not committed keeps its rows PENDING and to itself, a held row that is not
  in `late` is PROCESSING (or SENT by a mark that reported an error), a row about
  to be marked is in its queue, and the count a run decides on is not ahead of
  the row's.  `SoleClaim`, `SentWasQueued` and `FailedUsedAllAttempts` are part of
  it, and `SentStays` follows from it for each action that takes a row out of
  SENT.
- *Delivery.*  The mapping forgets who has a row: PENDING and PROCESSING are both
  OPEN.  A revival maps to `Doubt`, an added job to `Accept`, a mark, reported or
  not, to `Deliver`, a counted failure to `Retry` or `GiveUp`, and the rest of a run
  to a stutter.  What a run writes some awaits after its claim is a step of the row
  as it is by now: the row is unsettled by `HeldStatus`, has its job by
  `MarkedIsQueued`, and the count that decides between `Retry` and `GiveUp` is the
  row's own unless the row is `late` (`CountsExact`, an invariant of its own).
  `TriesAreBounded` follows from `DeliverySpec` alone.
- *Lease.*  `LeaseIsExclusive` with the type invariant is inductive: an acquire
  succeeds only if the lease has run out at the caller's own, earlier `now`, and
  then it has run out at the time of the UPDATE.
- *Worker.*  Each action either is one of the lease's or leaves `leaseVars`
  alone; that `lag` stays within `MaxLag` is the part of `TypeOK` it needs.  For
  `StrayOnlyAtExit` the invariant (`ClosableInv`) says in addition at which of its
  awaits a step, a shutdown or a failure finds `dispatcherApp` set or not; a close
  that is ignored keeps it because the catch of `becomeLeader` has nothing to close
  when steps do not overlap, and the shutdown remembers the context it has left
  until it exits (`Left`, `IgnoredKeeps`).
- *Cron.*  A process enters the job only from outside it (`OneFiring`), so two runs
  at once are of two processes, and by `LeaseIsExclusive`, which the refinement
  brings with it, not both of these still hold the lease they took.
- *Consumers.*  The lock has no owner token, so a run may delete another run's
  lock.  `Consumption` says why that is harmless: a run between SET and DEL has
  the lock or the event is done (`GuardedHasLock`), one that is about to write
  knows that it is not (`HandlerNotDone`), and what was written is done or about
  to be (`RecordedOrAbout`), all three as long as nothing is `unsure`; while
  `DoneWasWritten` holds without that proviso and gives `CompletedWasWritten`.
  `Lettering` does the same for the dead letters: what a run knows of the attempts
  of its job is right as long as the job is its own (`ClaimIsCurrent`), and by the
  end of the last of them the letter is there or reported an error (`Routed`).
- *Catalogue and calendar.*  `Own` says what a request that nobody has overtaken
  knows of the tables: a service it is about to write is live, one it is about to
  book is bookable, and the hours or links it is about to leave are rows of
  requests in `overtaken`; and, overtaken or not, the range it is about to write
  to a time off is ordered.  A step of another request that changes a table
  overtakes it, so only its own steps have to keep what it knows; `QuietStep`
  says this once for the steps that change no table.  `TimesStaySound` needs in
  addition that an open move fits what is committed and the other open moves
  (`MovesInv`), as in `Bookings`.
- *Cached pages.*  `StaleIsExplained` speaks of the moment a value is stored, so the
  invariant (`CacheInv`) has to say what its computation holds before that.
  `Reads` does, step by step: a computation that nobody has overtaken has read
  what it would read now, namely the members of staff it is done with have the
  offers of now (`StaffDone`), and of the one at hand the length resolved so far,
  the week and the bookings are those of now (`Knows`, `StaffAtHand`).  A commit of
  another request either leaves the tables alone (`ReadsStand`) or is on the
  computation's record; its own steps are `ResolveReads`, `PagesReads` and
  `ListReads`.  For what is stored, `Explained` is kept because whoever changes a
  table goes on to delete all it covers (`ChangeDeletes`), and a deletion that
  does not fail deletes it (`DeletionDeletes`).
- *Shapes of the catalogue and calendar.*  A write goes by id, some time after the
  row was found.  `Has` says for each step what the request has by then: the row it
  updates is there, because no step takes out a category, service, variant or add-on
  (`RowsStay`); the items of a week were validated; the range or booking it writes
  is of its type; the length resolved so far is a number; and the part of a page
  that is done has offers of staff (`HasPage`).  That the lengths of a selection's
  add-ons add up to a number (`SumIsInt`) is an induction over a finite set, made by
  its least counterexample (`Least`).  `OfferedSlotsAreFree` follows from
  `StaleIsExplained`, these types and the theorem `SlotsAreFree`: a stored page that
  nothing has made untrue is what would be computed now.
- *Accounts.*  `Types` strengthens `TypeOK` by what each step works on.  What a
  request is about to spend is not spent unless it was overtaken (`SpentInv`).
  For the logout (`LogoutInv`), a session in `behind` is revoked or in `spared`,
  and a refresh in flight that found such a session or was there at the logout is
  spared itself, or its session is.  For the attempts (`MissesInv`), those counted
  and those about to be stay within the limit and `MaxOpen - 1`: a request that
  begins found fewer attempts than the limit, and the others in flight are at most
  `MaxOpen - 1`; this is the one proof about cardinalities.  A link is accepted
  because `AcceptInvite` writes the three rows at once and no row is ever unlinked
  (`LinkedInv`).

Every safety invariant and action property of the runs that pass is proved.  Only
model-checked are the liveness properties (`EveryRequestAnswered`,
`EveryRowSettles`, `LeaderStepsDown`, `FailOver`, `JobKeepsRunning`,
`EventIsWritten`, `StaleEnds`): liveness under fairness and ENABLED are out of the
prover's reach.  What a recursive definition computes is not proved either: the
library's induction theorems cannot be instantiated.  The one sum in the models
(`SumOfLengths`) is proved to be a number, by a least counterexample, and no more
about it is needed.

The assumptions of `Availability` say, beyond the types of the inputs: a request
names finitely many add-ons (a DTO has an array of them), the day has a last
tick, `REFUSED` is no page and `NONE` no request, and the tables a behaviour starts
from hold ordered hours, ordered times off and bookings that are apart, which is
what the same handlers have left there before.

## Findings

1. `bookings_confirm_cancelled`: `confirm` checks the status it has read and
   then updates by id, so a cancel that commits in between is undone.
2. `bookings_lost_reschedule`: a reschedule whose key was stored by a concurrent
   request swallows the failed INSERT, PostgreSQL rolls the transaction back, and
   the caller is told that the booking has moved.
3. `worker_one_context`: two overlapping steps of one process each start a
   dispatcher; only one of them is remembered and can be closed.
4. `deployment_never_drained`: the worker starts a context of
   `OutboxDispatcherModule`, and nothing in it calls `drainOnce`: no outbox row is
   ever sent by the deployed worker.

Met while modelling, and stated by a property that allows for it rather than
reported: a page may be stored after the change it does not show has deleted the
pages, and then lasts its time to live; a booking deletes the pages of its own
service only, although it takes the time of its member of staff from all of their
services, and a reschedule deletes them before it commits (`excused`); changes of
the catalogue delete the lists and no page, those of variants and add-ons nothing;
`setServiceStatus` with `archived = false` cannot bring a service back, since it
looks for a live one first, unless another request archives it in between; two
replacements at once leave the rows of both; two refreshes with one token in one
second both succeed, and one that is in flight at a logout of all sessions
survives it; wrong answers given at once pass the limit of attempts together;
whoever accepts an invite takes the invite's role, also an owner.

Met while modelling, and allowed for by a property: a customer's notice window is
checked against a start time that may have moved; two dispatchers' contexts
coexist for a while after a late renewal, or while a process exits whose shutdown
failed to close its own, since nothing fences a leader; and the retries of
`notifications` (30 s) and `sync-jobs` (93 s) add up to less than the 300 s for
which a dead run leaves its lock, so that an event of theirs may never be written
although nothing else fails.  `EventIsWritten` says what then remains true: its jobs
end in BullMQ's failed set, and none is acknowledged.  The retries of `webhooks`
(635 s) outlast the lock.

## Not modelled

See the components in `PROJECT.json`; the reasons in short: pure I/O and wiring
(bootstraps, health, dashboards, logging, scripts, the web scaffold), listings and
reports that change nothing (administrative lists, calendar, history, staff
readiness), rows and counters nothing modelled depends on (audit log, throttler,
retention), conversions by libraries (time zones, currencies), and the
backpressure budget, which nothing in `src` calls.  Of a page, the filter by one
member of staff, the date and the time zone are part of its key and not looked
into.  The upserts of `replaceStaffServices` are one step (`Relink`), so two requests
that upsert the same links in opposite orders, one of which PostgreSQL aborts, are
not among the behaviours.  Prices and names are left out throughout.  BullMQ, Redis, PostgreSQL, the
process supervisor and signals are modelled from how the code uses them.

## Plan

1. `Backpressure`, once something calls it: acquire and release as one action per
   Lua script, at most `maxConcurrent` holders younger than `maxHold`, starts
   spaced.
2. An abstract specification of the consumers, an event that is written, recorded and
   acknowledged in this order and written twice only when `unsure`, which
   `QueueConsumers` implements like the dispatcher implements `OutboxDelivery`.
