# Catering API: verification

TLA+ models of the Catering API (NestJS, PostgreSQL through drizzle-orm and
postgres.js), the TLC runs that check them on small instances, and TLAPS proofs
of their most important properties for every instance. Paths below are relative
to the repository; the program itself is in `src/src`.

What makes this code hard is not one algorithm. Every request and every job is a
chain of awaited SQL statements, mostly without a transaction around them, and
several replicas share one database: between any two statements of one request
another request, a job, another replica, a crash or the clock may act. The
models are therefore written at that grain: **one action per statement (or
transaction, or awaited call), everything a handler remembers between two of
them in variables of its own.**

## 1. Inventory

| Component | State | Operations | Hard behaviour |
| --- | --- | --- | --- |
| Outbox (`shared/outbox`) | `outbox_events`; per replica `isProcessing`, `isShuttingDown` and the local variables of a run | `storeEvent(s)`, `processOutbox` (cron, 5 s), `processNow`, `retryDeadEvents`, `onModuleDestroy` | replicas claiming the same rows, lock timeout, crash between publish and mark, retries from stale copies, dead letters |
| Event bus, idempotency, contract event handlers (`shared/events`, `contract/application/event-handlers`) | `processed_events` | `publish`, four handlers, `processOnce` | redelivery, overlap of two deliveries, failure in the middle of a task |
| Contracts (`modules/contract`) | `contracts`, its events in the outbox | create, pause, resume, terminate; finance metrics (read only) | check in one statement, write by id in another; a transaction of several statements that may fail at each; the unique index as the only check at the time of a write |
| Service days (`modules/service-day`) | `service_days` | generate, confirm expected, confirm served, fallback; reports (read only) | load - decide - save of all columns, a deadline, a batch job whose items fail one by one |
| Scheduler and advisory locks (`service-day.scheduler.ts`, `shared/domain/advisory-lock.ts`) | PostgreSQL's session locks, the pool's connections | `tryAcquireLock`, `releaseLock`, `withAdvisoryLock`; two cron jobs and a run at start-up | a re-entrant lock of a *session* used through a *pool*; overlapping runs |
| Authentication (`modules/auth`) | `companies.password_hash`, `refresh_tokens`, `password_reset_tokens` | login, refresh, bearer check, logout, change and reset password | validate, hash and write as separate statements without a transaction; revocation racing a login |
| Client and catering companies (`modules/client`, `catering`) | `companies`, profiles, `client_office_days` | create, update, soft delete | READ COMMITTED transactions that delete and insert rows of one key; lock order; contracts and accounts depend on a company's status |
| Company users (`modules/user`) | `users` | create, update, delete | ownership read before a write by id |
| Guards, middleware, controllers, DTOs, errors | none (the middleware writes `last_activity_at`, read nowhere) | request checks | - |
| Dates and rules (`service-day.rules.ts`, `contract.rules.ts`, `date.utils.ts`) | none; the server's time zone | deadlines, ranges, weekdays | boundaries, local against UTC dates, clocks that change |
| Finance metrics and weekly report | none | three SELECTs and sums; one SELECT between two dates | ends of months and weeks, SELECTs of different moments, zeros |
| Seed, health, e-mail, database set-up | demonstration rows | I/O | - |

How they interact. A contract change and its event are stored in one transaction
(`contract.service.ts` calls `outbox.storeEvent(tx, ...)`). The processor of some
replica later claims the row, publishes it on that replica's in-memory bus, and
the contract handlers reach the outside through `processOnce`. Contracts read
the status of companies; service days read the status and the limits of
contracts; the scheduler runs the generation and the fallback of service days
under an advisory lock. No component calls back into contracts from an event.

What correctness means for each part:

- outbox: no stored event is lost, or done without a delivery, or given up
  before its attempts are used up; a second delivery has a reason; every event
  comes to an end although replicas die;
- delivery: a record in `processed_events` means that the recipients were
  reached, a done event leaves a record, and a repetition has a reason;
- contracts: one ACTIVE contract per pair of companies; status changes follow
  the domain rules, as far as the service does; the stored events tell the life
  of the row without a gap;
- service days: no row is half of one save and half of another; quantities are
  in range and in time; answers last; what nobody answered gets the fallback;
- scheduler: two replicas do not run a job at a time; a lock left behind does
  not stop the job for ever;
- authentication: a reset link changes one password once; a change of password
  ends the sessions begun with an earlier one, and nobody else's;
- companies: no update is lost or half there, office days given together stay
  together, no two updates block each other;
- dates: the week ahead is planned, on the contract's weekdays; client and
  fallback share the time before and after the deadline without a gap;
- finance: a meal counts in one month and one week, a month closes with the sum
  that was shown for it, and the figures of one answer fit together.

`PROJECT.json` lists the hazards of this code with the properties that cover
them, and those that no property covers yet with the reason.

## 2. Modules and the code

| Module | Models | Proofs |
| --- | --- | --- |
| `AtLeastOnce` | the promise of the outbox: no rows, replicas or time | |
| `Outbox` | `OutboxProcessor`, `OutboxRepository`, `outbox_events` | `Outbox_proofs` |
| `EventDelivery` | bus, `IdempotencyService`, `ContractEventHandlers`, on top of `AtLeastOnce` | `EventDelivery_proofs` |
| `ContractRules` | `contract.rules.ts` | |
| `ContractLifecycle` | `ContractService`, company status | `ContractLifecycle_proofs` |
| `ServiceDay` | entity, repository, use cases, generation, fallback job | `ServiceDay_proofs` |
| `SchedulerLock` | `advisory-lock.ts` over a pool of connections | `Scheduler_proofs` |
| `Accounts` | `AuthService`, `RefreshTokenService`, `PasswordResetService`, bearer check | `Accounts_proofs` |
| `Companies` | `ClientService`, `CateringService` in READ COMMITTED | `Companies_proofs` |
| `Dates` | `date.utils.ts` and the local reading of a JavaScript `Date` | |
| `Calendar` | the scheduler's jobs on a clock; `service-day.rules.ts` beside the code that runs | `Scheduler_proofs` |
| `Finance` | `getFinanceMetrics`, the range of `getWeeklyReport` | `Finance_proofs` |

Each `MC<Module>` only adds the symmetry set or the values of the constants of its
instances (model values for `Accounts` and `Companies`). Definitions whose
comment starts with "Mutant:" are deliberately wrong variants of the definition
below them; nothing in a specification uses them. They show that each property
notices the mistake it is there for.

In all modules *history variables* (named as such where they are declared) record
what happened and are read by properties only.

**Outbox.** The columns of a row are functions over `Events`. A replica is a
program counter: `StartRun` (guards of `processOutbox` or `processNow`, and
`recoverStaleLocks`), `SelectPending` and `ClaimSelected` (the two statements of
the claiming transaction, READ COMMITTED: the second sees what others committed
since the first), `BeginEvent` or `ReleaseAndStop` (head of the loop), `PublishOk`
or `PublishFails`, `MarkProcessed` or `HandleEventFailure`. `claim[p][e]` is the
copy of `retry_count` that the failure handler counts from. `processNow` is the
same run with `manual` set: it ignores shutdown. The writes by id alone are
modelled as such. Faults are a crash, a shutdown, a statement that throws. A
statement that throws was not applied, or was and only its answer was lost
(`StatementFails`, `MarkFails`): in the second case a replica may have marked its row
PROCESSED and still go on to `HandleEventFailure` (`"unheard"`). Time is
relative to the present (`Tick` moves all timestamps back) and stops
at `-LockTimeout`, where the code can no longer tell instants apart: so it is not
bounded.

**AtLeastOnce / EventDelivery.** `AtLeastOnce` has the life of an event (accepted,
delivered, completed, failed, given up, requeued) and what goes wrong: a worker that is
late, that dies before it could record a delivery, or that recorded it and does not know
(`"unsure"`). `Outbox` implements it with `state` computed from `status` and from who is
unheard, and `late` from `overrun`. `EventDelivery` then uses that promise in place of
the outbox: its replicas' `Publish` and `Acknowledge` are conjoined with `Deliver`,
`Complete` and `FailAttempt`, and what the outbox may do around them (giving up,
requeueing, overrunning the timeout) is `OutboxStep`. `Check`, `Reach` and `Record` are
the three parts of `processOnce`. `Key` is what a record names: since
`deserializeEvent` drops the row's id, that is the contract and the handler's
name, not the event. `RecordThrows` is there because drizzle wraps the driver's
error and `isUniqueViolation` looks at the outer one; both outcomes are allowed,
since the package version is a range. The contract's own order of events is left
open except that it is created first.

**ContractLifecycle / ContractRules.** A request of `create` is `CheckCatering`,
`CheckClient`, `CheckExisting`, then `InsertContract`; one of the other three is
`ReadContract`, then `UpdateContract`. These two begin a transaction, whose statements are
actions of their own: the row (`WriteRow`), the event (`StoreEvent`) and `Commit`. What it
has written is in `row` and `stored` and nobody else sees it before `Commit`; at each of its
statements it may fail, and then leaves nothing (`Fail`). `WriteRow` waits for another
transaction that has the row, and for one on whose end it depends whether the pair has an
ACTIVE contract; `IndexAllows` is the partial unique index. `event` is the last event
of a contract in the outbox, as far as a reader can tell its status from it.
`ContractRules` is the state machine of `contract.rules.ts`, which the service never calls.
The service's own checks do *not* amount to it: `terminate` checks nothing, and what a
check has found may be gone when the request writes. The abstract specification
therefore has two actions that are not of the rules, `TerminateAgain` and `Overwrite`, and
`ImplementsContractRules` says that these are the only ways in which the service leaves them.
A termination that changes no status is not a stutter there: `ended` counts those told of.

**ServiceDay.** A request takes the time (`Begin`), loads and changes an entity
(`LoadExpected`, `LoadServed`) and saves all its columns (`Save`); generation is
`LoadContract` and `InsertDays` (`ON CONFLICT DO NOTHING`); a run of the fallback job
loads many entities by one query (`FindEligible`) and saves them one by one, some of
which may fail (`SaveFails`). Time is reduced to where the present is from each
day's notice deadline: before, at or after.

**SchedulerLock.** `holds[c]` is how often the session of connection `c` has the lock.
Taking and giving back go through any connection of the replica's pool.
`Close` ends a session, and with it its locks (the pool's `max_lifetime`).

**Accounts.** A request is a chain of statements and may die before any of them
(`Fail`). A password is known by its place in the order of the UPDATEs that set it, so
that a session can say under which password it *began*; a token is its row. `LoginCheck`
and `LoginStore` are the read and the INSERT of a login, between which a bcrypt hash
runs. `ChangeVerify`, `ChangePassword`, `RevokeAll` are those of a change, and
`ResetValidate`, `ResetSelect`, `ResetMark`, `ResetPassword`, `RevokeAll` those of a
reset: its second SELECT may find the row marked or expired, and the password is set
all the same. `late`, `amid`, `left`, `expelled`, `shared` and `cut` record what excuses a
session or a link, and `unswept` a `revokeAllTokensForCompany` that never ran. `LogoutFind`
takes a token and a bearer who need not be of one company: `left` is a logout by the
token's own, `expelled` by another.

**Companies.** An update is one transaction, `Script` its statements: the two shared
rows as far as the DTO has fields of them, then a DELETE and an INSERT of the office
days. What PostgreSQL does is spelled out: an UPDATE waits for a transaction that has
the row (`WriteRow`); a DELETE sees what was committed when it began (`DeleteDays`),
waits, and deletes what is then still there (`LockDays`); an INSERT waits for the same
key and is refused if it is taken. Values are left out: a row is known by who wrote it.

**Dates, Calendar, Finance.** `Dates` has instants in UTC ticks, dates in days, and a
zone that changes its offset at most once; `FromLocal` reads a local time that comes
twice or never as ECMAScript does. A `date` column takes the date of `toISOString`, which
is what drizzle sends for a column in `mode: 'date'`. `Calendar` runs the two jobs hour
by hour on a server that starts and stops (`Start` is `onApplicationBootstrap`), with the
walk of `generateForContract` as it is written, by local `getDay` and `setDate`. Requests
(`GenerateByHand`) begin and end at any hour, since the endpoint makes a `Date` of whatever
`@IsDateString` lets through, a time of day with it. The
deadline is there three times, as in the code: `Deadline` (entity, and
`getNoticePeriodDeadline`), `Eligible` (the query), `IsWithinNoticePeriod` and
`IsEligibleForFallback` (`service-day.rules.ts`, which only its own test calls).
`Finance` asks for metrics in three SELECTs with the time taken before them; months are
ranges between local midnights compared with dates. Prices are in cents (`numeric(12, 2)`),
of which `Cents` make the unit of money. The program computes with floats and rounds by
`Math.round`: what should lie on a half may come out just below it (250.5 / 31 * 31 is less
than 250.5) and be rounded down. So a figure is the *set* of what its rounding may give
(`Rounded`, and with it `Shown`, `Projected`, `CostPerPerson`, `UtilizationRate`): the nearest
number, and on a half either of the two. That presumes amounts small enough for an error of
a float not to reach any other boundary, which holds for sums with two decimals below
some 10^8. `FiguresFit` is about every choice from these sets.

## 3. Runs

| Run | Instance | Shows |
| --- | --- | --- |
| `outbox_safety` | 2 rows, 2 replicas, batch 2, 2 attempts, timeout 1 tick, 1 fault | no false PROCESSED and none reopened, exclusive holders, explained duplicates, **`Outbox` implements `AtLeastOnce`** |
| `outbox_liveness` | 1 row, 2 replicas, jitter, 1 fault, 1 requeue, timeout 2 | `EventuallySettled` under fairness; the inductive invariant of the proofs (types, locks, dead letters) |
| `event_delivery` | 2 events of a contract, 2 replicas, 2 ports, 1 fault | what records mean, why repetitions happen |
| `event_reached` | 2 events, 1 replica, no fault | *violation*: a second pause reaches nobody |
| `contract_safety` | 1 catering, 1 client, 2 contracts, 2 requests | index, events and rows committed together, **where the rules are kept and where not**, company checks |
| `service_day_safety` | 1 day, 2 requests, 1 job, quantities 0-2, range 1-2 | coherent rows, in time, answers last, changes only by races |
| `service_day_fallback` | 2 days, 1 request, 1 job, 1 fault | `EventuallyAnswered` under fairness |
| `scheduler_lock` | 2 replicas, 2 connections and 2 overlapping runs each, up to 3 holds | covered runs, exclusion, `JobGoesOn` under fairness |
| `accounts` | 2 companies, 2 requests, 1 session, 1 link, 2 new passwords of one company, an earlier access token of the other, 1 failure | links are spent once, sessions end with their password and for no other reason, `StaleSessionsEnd` under fairness |
| `companies` | 1 client, 1 catering, 2 transactions, 2 weekdays, 1 failure | last word stays, when office days mix, days move together, `UpdatesEnd` under fairness |
| `calendar` | days of 4 hours, 14 hours, 8 zones, notice 5 hours, 2 weekdays, requests from any hour up to date 3 for at most 2 days | week planned, weekdays kept, deadlines agree, fallback prompt |
| `finance` | 3 service days of 2 contracts, 6 zones, 1 save meanwhile, served 0, 7 or 12 | in which month and week a meal counts, months close as shown, figures fit, deviations fair |

`IndInv` is the inductive invariant of a module's proofs; it contains the type invariant and
the properties it is there for. The runs of `Outbox`, `ContractLifecycle` and `ServiceDay` check
it as it is. Those of `EventDelivery`, `Accounts`, `Companies` and `Calendar` check what follows
from it; TLC has found `IndInv` itself true on their instances before it was proved, and will
again if it is added to their INVARIANTS. `Inv` of `Finance` is the types, what its proofs know
of a request (`AnswersAreRead`), and `DeviationsAreFair`. The same holds of
`LockIndInv`. (Its names begin with `Lock` where
`Calendar` has the same ones: `Scheduler_proofs` is about both.)

Why the bounds are enough. Two replicas (requests, jobs) suffice for every race of
the code, all of which are between one writer and one other; a third adds no new
pair. Two rows give a batch in which the first takes so long that the second's lock
goes stale unpublished. Two attempts separate a retry from a dead letter. One fault
at each possible point covers crash, lost record and failed statement; two faults are
two faults of this kind, and the proofs have no such bound. Two contracts
of one pair are needed for the index and for the transactions that wait for each other in it.
A contract of another pair meets neither, so `contract_safety` has one pair, and the proofs any
number. `Quantities` 0 to 2
with range 1 to 2 gives a value below, at the lower and at the upper end; the
case above is symmetric. `MaxHolds` 3 exceeds the two runs that may overlap.
*Accounts*: two requests on one link or one session row are the only pairs; a second
company shows what a missing WHERE does, and its bearer, who is there from the start
(`Bearers`), what a logout does with a token of the first; two passwords after the first let a
change overtake another. The second company's password stays as it is: what a company's changes do
to the other's sessions and links is the same both ways. *Companies*: two weekdays allow sets that are equal, overlap, contain
each other or are apart. *Calendar*: four hours to a day are the fewest with offsets of
both signs that are less than half a day, a notice longer than a day, and an hour that
is nobody's midnight; fourteen hours hold three midnights of UTC and of the zone before
and after its change. Requests by hand reach from every hour of three dates to two days
later: across the changes of the zones, and from times of day on both sides of the hour at
which a zone's date is another than UTC's. The zones of `calendar` and `finance` are those in which something
different happens. The properties were also tried, in the same instances, on every zone whose
offsets are two of -1, 0, 1 an hour apart and on every hour of its change; three of the zones
now in the instances come from there or from a proof, and the exceptions they showed are
stated below. *Finance*: two dates of the last days of a month and one of the
next, and clocks that change on the last day of the month and of the week, within the
week, or not; months begin early and late enough for every date to have one before its own
and two firsts behind it, which `HasMonths` assumes. Two cents to the unit and prices of 5 and 8 give,
with 7 or 12 served, amounts on a half and others; of 10 expected, 7 and 12 deviate to either
side, and 0 is the quantity that is not compared.

What the properties except, and where the documents say otherwise. A property that
would not hold as a document says it is stated with the exception that TLC found, and
fails without it:

- two replicas may process one event at a time once a batch overran the lock timeout
  (`HoldersAreExclusive`; `outbox.processor.ts:31` says "without processing duplicates");
- a PROCESSED event becomes PENDING or DEAD again after an overrun, and also without one when
  the answer to the UPDATE that marked it is lost: the catch counts a failed attempt, and the
  UPDATE of `handleEventFailure` asks for the id alone (`ProcessedIsFinal`,
  `ImplementsAtLeastOnce`; `outbox.processor.ts:201-217`, `238-248`);
- a recipient is reached again if a task ended between its first call and its record, or two
  replicas had it at a time (`RepeatsAreExplained`; `contract.event-handlers.ts:26-27` says that
  "side effects like emails are only executed once" even if an event is delivered several times,
  `:70-71` that "notifications are sent exactly once, even if the event is processed multiple
  times"). With a provider behind the ports, that is a second e-mail. The loser of two records may
  moreover count a failed attempt, where `idempotency.service.ts:72-73` says "This is fine, we just
  log and continue";
- a pause or resume that was overtaken undoes TERMINATED, and a contract that *is* TERMINATED is
  terminated again by a request of its own, with a second `contract.terminated` event
  (`ImplementsContractRules`; `contract.service.ts:307-308` checks nothing, `contract.rules.ts:36`
  says "no transitions allowed", and so do the table at `:44` and the message at `:80`);
- a pause or resume that was overtaken tells of a previousStatus that the row no longer had
  (`EventsTellStatus`);
- a save of an entity loaded earlier overwrites a confirmed day (`ImmutableUnlessRaced`;
  `README.md:307` says "Once confirmed -> Immutable");
- the advisory lock may outlive its run (`RunsAreCovered` and `JobGoesOn` say what is
  left; `advisory-lock.ts:73` says "Automatically releases the lock when done");
- west of Greenwich days are generated on the weekday after the contract's, behind a
  change to summer time a day early, and east of Greenwich a day early, too, by a request that
  begins at a time of day which is the next date there: 2026-01-25T23:00Z is a Monday an hour
  east and is stored as Sunday's date (`RowsOnServiceWeekdays`; `service-day.controller.ts:77-81`;
  `service-day.service.ts:68` says "Only generates for days that match the contract's
  serviceDays", `date.utils.ts:4` that all date operations should use UTC; the integration test,
  `generate-service-days.integration.spec.ts:72-74`, walks from local midnights, which east of
  Greenwich are such times). A change back to winter time costs the
  seventh day ahead, and one to the west of Greenwich (as on the Azores) shifts the days
  behind it (`WeekIsPlanned`);
- around a change of the zone's offset, entity and query disagree on a deadline, and so they
  do on one that falls into the hour which clocks leave out (`DeadlinesAgree`);
- east of Greenwich a month's range reaches from the last date of the month before to its own
  last but one: what is served on the last date of a month counts in the next one
  (`EveryMealCountsOnce`; `contract.service.ts:374` and `finance-metrics.dto.ts:5` say "for current
  month"). A change of clocks on the last date of a month, or at its midnight, puts that date into
  two months or none, and one to summer time takes the Sunday out of the weekly report;
- on the last day of a month projected and consumed may differ by one, if the amount lies on a
  half (`FiguresFit`; `contract.service.ts:485-486` and `579-581`);
- a contract all of whose days deviate is not counted if a zero is recorded on each
  (`DeviationsAreFair`; `contract.service.ts:519` takes a zero for a quantity that is missing);
- two resets with one link both set a password if the second was let in before the first
  was through, and a link may be spent for nothing if a request dies (`LinksChangeOnce`); a login overtaken by a change leaves a session of the old password, and
  one that came early with the new password is logged out (`SessionsEndWithPassword`,
  `RevocationsHaveReasons`);
- a change of password revokes the caller's own refresh token with the others
  (`auth.controller.ts:77` says "All other refresh tokens will be revoked"), and a logout
  revokes any token it is given, whosever it is (`SECURITY.md:738-747` shows an UPDATE that asks
  for the bearer's company; `refresh-token.service.ts:93-104` does not): both are reasons in
  `RevocationsHaveReasons`, the second as `LeftByAnother`;
- office days of two updates may stand side by side if they wrote nothing else in common
  (`MixedDaysShareNoRow`).

A server in UTC, as most deployments have it, meets none of the exceptions about zones.

Deadlock is checked except in three runs: `event_delivery`, `companies` and `calendar`
stop when all events are done, all requests used, or the hours over.

Fairness, and why the code justifies it. *Outbox*: time passes; the cron fires every
five seconds, so a run starts again and again (`StartRun(p, FALSE)`); awaited
statements and publishes settle (`ProcessorStep`, weak: a replica inside a run goes on);
a process told to stop exits. Nothing is assumed of faults, operators
or `processNow`. *Service days*: the job is started hourly, its statements settle, time
passes; nothing is assumed of requests. `EventuallyAnswered` is conditional on the
contract being ACTIVE from some time on. *Scheduler*: a run begins if the lock stays
free, a run that began ends, a connection does not live for ever. For a replica that
tries while the lock is taken nothing is assumed. *Accounts*: a request that has set a
password goes on to revoke the sessions, or fails; nothing is assumed of other steps.
*Companies*: a statement of a transaction that need not wait is executed; that nobody
waits for ever is what is checked, not assumed.

## 4. Proofs

All theorems hold for every number of rows, replicas, requests, days, connections
and runs, every retry limit and timeout, and any number of faults. The assumptions
are those named `...Assumption` in the modules: constants are natural numbers where the
code has them, and `Null` differs from everything it is compared with.

- **`Outbox_proofs`.** `IndInv` adds to the properties of the runs what they rest on:
  a replica that has not overrun an event still owns the lock it took, with the time of
  its own run, and that time is not stale (`HoldersOwnFreshLocks`); its copy of
  `retry_count` never exceeds the failed attempts (`CopiesAreCounted`); whoever is about
  to mark has delivered (`MarkingWasDelivered`); a delivery is recorded, about to be, or
  explained (`DeliveriesAreRecorded`). Without the first, exclusion is not
  inductive: the claim checks the row's status, and only the age of the lock
  says that nobody else works on a PENDING row.
  **The promise.** Under the mapping, every step of `Outbox` is a step of
  `AtLeastOnce` or a stutter (`PromiseKept`). This needs one more fact, that a held row exists,
  and for a replica that has marked a row without knowing, that it is alone with it until it
  overruns (`HoldersOwnFreshLocks` says so). `ProcessedFinal` follows from the same lemmas.
- **`ContractLifecycle_proofs`.** `IndInv` relates what a request has read to the row
  (`SeenIsCurrent`: unless overtaken, it is still so; `CheckedAreActive`: a company that was
  checked is active unless it was updated since), and open transactions to each other and to
  the tables (`TransactionsAlone`: each has its row to itself, and the pair's place in the index if
  the row is ACTIVE; the event it is about to commit is its request's). From it: one ACTIVE contract
  per pair, events that tell of the row before and after, companies that were active when a
  contract was made for them, and the refinement `RulesImplemented`.
- **`ServiceDay_proofs`.** `IndInv` relates loaded entities to their rows
  (`EntitiesAreSound`: each is coherent, in time, an answer, and unless overtaken a
  legal change of the row). From it the invariants of the rows and the two action
  properties.
- **`EventDelivery_proofs`.** `IndInv` says how far a replica is: the ports before its task are
  recorded, and whom it need not reach any more was reached or refused (`HandlersProgress`).
  That alone gives `RecordsAreTrue`. `RepeatsAreExplained` needs a count: until a task is cut or
  overlapped one replica at most has it, none once it is recorded, and nobody was reached
  twice (`TasksRunOnce`).
  **The promise.** What bus, handlers and replicas do to the events is what `AtLeastOnce` allows
  (`PromiseUsed`): the promise that `Outbox` keeps is all that `EventDelivery` asks for.
- **`Accounts_proofs`.** For sessions, what has to be known beforehand is `SweepsHaveReasons`:
  while a revocation of all tokens is to come, every session it may meet, and every login that
  has still to store one, began under an earlier password or during the change. For links it is
  `UnsharedLinksAreHeldOnce`: a link nobody shared has one request in it at most, and none after
  its change. That a request's company is the one of its session or link, and that a link that
  is spent stays spent, are the rest of `IndInv`.
- **`Companies_proofs`.** The argument is one about locks of READ COMMITTED. `RowsAreLocked`: of two
  transactions on a company, what one has written, deleted or inserted is not the other's.
  `Replacement` says what a transaction whose DELETE has begun will find when it commits: what
  it saw and is still there it has deleted, it saw all or none of the rows of another update,
  and the rows it did not see come from updates that wrote no shared row. From these follow
  that the last word stays, when days mix, and that days given together move together. `InOrder`
  ties both to the statement a transaction has reached.
- **`Scheduler_proofs`**, the lock. `LockIndInv` adds that one session at most has the lock. The
  argument is a count: a session undisturbed under its replica's runs has at
  least as many holds as there are runs at work, and giving one back ends one run.
  **The calendar.** The recursive function `ServiceDates` is shown to exist and to satisfy
  its own equation (`WalkIsKnown`), and then where it comes by (`NextStation`): the midnights of UTC
  and, once clocks have changed on the way, as far from them as clocks were set. That tells on
  which weekdays rows of the job lie. A walk from a time of day keeps no such distance;
  of it the proof knows that what is stored is the date of an instant whose local date is a service day
  (`WalkStores`), and that the two dates are a day apart at most, in the zone's direction
  (`LocalDateIsNear`, `TimedWalkFits`). Together that is `WeekdaysCorrect`. It also tells which dates a week covers; but those are the dates ahead of the *last* time the job ran, and the clock has
  moved since. `WeekFollowsMidnight` is the missing fact: a server without a job due has
  planned the week of some hour since which no local midnight has passed. With it comes
  `PlanCorrect`, and `PromptCorrect` needs the types only.
  That entity, query and rules agree on a deadline is arithmetic of the zone (`HoursOnTheClock`): hours on
  the clock and hours that pass come to the same instant if the offset there is the one of the
  start, by *both* reckonings. The second condition is a result of the proof: without it a
  deadline in the hour that clocks leave out is an hour later for the entity than for the
  query, which TLC confirms (it is one of the zones of the run).
  These theorems assume that a zone stays less than a day from UTC and sets its clocks by less than
  a day (`StaysWithinDay`), as all zones do but for moves across the date line (Samoa, 2011), and
  that the model's dates go on for a week behind its last hour.
- **`Finance_proofs`.** A request is known by what it has read: `AnswersAreRead` says that its
  answers are the rows of the months of the time it took, and that an expected quantity it saw
  lasts. `DeviationsAreFair` is then a matter of sums on one side of a bound (`SumsOnOneSide`,
  `FairlyCompared`). `CountsCorrect` and `ClosesCorrect` rest on the order of the months' first and
  last dates (`MonthBegins`, `MonthFollows`) and on where `toISOString` puts a local midnight: on the
  date itself or the one before (`DateHereIs`, and `EarlyDate` for which of the two). So a meal
  counts in its own month but for the last date of one that ends early, whose month is then the next. When the month turns, the one that was the current
  becomes the previous one row by row, so the two sums agree whatever is in them.
  `FiguresCorrect` needs the order of what is
  rounded, whichever way (`RoundedOrder`, `RoundedIsNear`), that only a half can be rounded apart
  (`HalvesDiffer`), that some contract is no dearer than the average person and some
  no cheaper (`SomeAreNoDearer`), and that the months of an answer share a row only through a change of
  clocks (`MonthsShareNothing`). Beside the zones of `Calendar` these theorems assume that every
  date of the model has its months (`HasMonths`).

What a sum over a set is for every set, and a walk for every number of steps, are inductions
over data. The library's induction theorems take an operator as parameter and cannot be used;
the proofs go by a least counterexample instead (`AllNumbers`, `AllSubsets`, from the
well-foundedness of the numbers and of the subsets of a finite set), with the set of
those for which the claim holds in place of the operator.

Only model-checked is liveness (`EventuallySettled`, `EventuallyAnswered`, `JobGoesOn`,
`StaleSessionsEnd`, `UpdatesEnd`), which is out of the prover's reach. Every other property of
the passing runs is the statement of a theorem.

The violation is a counterexample of TLC and is what the code does in the model.

## 5. What is not modelled, and why

- Company users: single statements after an ownership check on a column that no
  operation changes; nothing else reads these rows.
- Guards (but for the bearer check), controllers, DTOs and error mapping: stateless. The
  session-activity middleware runs before the guard that sets `req.user`, so it never
  writes.
- Seed, health, database set-up: I/O. E-mail: a reset link arrives or not (`SendMail`).
- Of modelled parts: read-only queries (`getStats`, `getDeadEvents`, `findAll`,
  `getSessionStatus`); `subscribe` and `unsubscribe`, which run only at start-up or not at
  all; `markProcessedInTx` and both `cleanupExpiredTokens`, without a caller; the confirm
  methods of `service-day.service.ts`, which no controller reaches; the changes against
  the previous month and the CSV of the reports; the authorisation and immutability
  predicates of `service-day.rules.ts`, which only their test calls.
- `startDate` and `endDate` of a contract are consulted by no operation and are therefore
  in no model. A notice period of more than seven days makes generation create rows past
  their deadline; in `Calendar` these are the `fresh` rows, left to the next hour's
  fallback.
- Authorisation checks turn a request away before it does anything: a request that is
  turned away is one that does not begin. What a payload says is left out. The
  notification and analytics ports have no provider in the repository: a `send` reaches
  its recipient, resolves with `success = false`, or throws.
- A deadlock of two multi-row INSERTs of office days, which PostgreSQL breaks by failing
  one of them, is `Fail` of `Companies`; a new
  `tax_id` that another company has is refused by its unique index, which is `Fail`, too. That
  index is partial (`schema.ts:60-62`; `WHERE "companies"."tax_id" IS NOT NULL` in the first
  migration). PostgreSQL counts the columns of a partial index not among the keys that a foreign key may
  refer to, so an UPDATE of `tax_id` takes a FOR NO KEY UPDATE lock, with which the FOR KEY SHARE
  of a foreign key's check does not conflict. No update changes `id` or `email`, the columns of
  the indexes that do count: the INSERT of office days never waits for an update of the company,
  and `Companies` has no such wait.

## 6. Plan

Done: all modules of section 2, model-checked, and the proofs of section 4: every safety
invariant and action property of the runs. Left: the exclusion of two replicas' jobs
(`SchedulerLock`) related to the writes of `ServiceDay`, that is, which of its races remain
when the fallback job of one replica only is at work; and the four hazards in
`PROJECT.json` that no property covers (a backoff that a claim skips, days of a contract paused
meanwhile, an attempt that the loser of two records counts, and a password overwritten unseen).
