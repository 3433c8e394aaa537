# A TLA+ model of Avroleva Elevators

Avroleva Elevators is a service for lift maintenance firms: an API (`apps/api`,
Express and Prisma over PostgreSQL, jobs through pg-boss), an offline-first phone
application for technicians (`apps/tech`) and an office application
(`apps/office`). This directory models the parts whose correctness depends on the
order in which several actors act, checks them on small instances with TLC, and
proves the most important invariants with TLAPS for every value of the constants.

All paths below are relative to the repository; `billing/`, `jobs/` and the like
stand for `apps/api/src/modules/billing/`, `apps/api/src/modules/jobs/`.

## 1. Inventory

| Component | State | Operations | Who else touches it | What is hard | What makes it correct |
| --- | --- | --- | --- | --- | --- |
| Invoice balances (`billing/service.ts`) | `invoice` rows with denormalised `paidCents`, `creditedCents`, `lateFeeCents`, `status`; `payment`, `credit_note`, `invoice_adjustment` rows | recordPayment, pay, issueCreditNote, applyLateFee, rollStatuses | staff, bank import, payment links, dunning, every page that lists invoices | reads outside the writing transaction, absolute values written from them | sums equal their rows; money is never lost |
| Dunning (`billing/dunning.ts`) | stage of each invoice, stages and fee rules as rows | runDunning, preview, remindNow | the daily cron, "run now" | one list for a long loop, three writes per invoice, failed runs | one fee and one notice per stage |
| Numbering and billing runs (`billing/run.ts`, `service.ts`, `repo/billing.ts`) | sequence rows, `invoice` rows unique per contract and period | runScheduled, generate, issueInvoice, credit notes | cron, staff, repair jobs | row locks held to the commit, check before the lock, rollbacks, a job that misses a day | gapless, unique numbers; every month billed exactly once |
| Bank import, payment links (`billing/reconciliation.ts`, `links.ts`) | import rows, links | preview, matchRow, commit, createPaymentLink, settle | recordPayment | payment and mark are two commits; rows read before the first payment | each row and link is booked once, no money is dropped |
| Event bus (`platform/events/bus.ts`, `platform/jobs/boss.ts`) | `domain_event`, `event_delivery`, pg-boss jobs | publish, dispatch, deliver, sweep, acknowledge | every module publishes; `subscribers.ts` handles | dispatch before the commit, retries, expiry, lost sends, sweeps | committed events reach every handler; rolled back ones none; no false "done" |
| Notifications (`notifications/service.ts`) | delivery-log rows, mail jobs | handleEvent, sendOnce, deliver, requeueStuck, markSent | the bus, pg-boss, adapters | redelivered events, a crash between row, job, adapter and mark | nobody forgotten, nobody told twice, no mail stuck |
| Jobs and crons (`jobs.ts`, `platform/jobs/registry.ts`) | pg-boss schedule, last runs | one handler per cron, per tenant | all modules | missed days, two workers, "run now" | catch-up, idempotence |
| Technician outbox and pull (`apps/tech/src/sync/`) | IndexedDB tables, outbox rows, watermark | enqueue, drain, retryItem, pull | the sync endpoints | offline, closed pages, lost answers, optimistic copies | everything recorded arrives once; the phone catches up |
| Idempotency and sync endpoints (`platform/http/idempotency.ts`, `http/sync.ts`) | stored responses, receipts | /sync/push, /sync/pull | phones | lookup, execution and store are separate | a repeated request has one effect and one answer |
| Callbacks (`callbacks/`) | `callback` rows and timeline | open, dispatch, transition, close, slaWatch | office, phones, public page, cron | read-check-write without a lock, a visit after the commit, overlapping watch runs | what happened stays; a breach is announced once |
| Visits and defects (`visits/`, `defects/`), the lift itself (`registry/service/elevators.ts`) | visits, amendments, defects, status and dates of the lift | record, amend, resolve, update, reschedule, recompute | phones, office, hourly job | checks outside the transaction, dates computed from old copies | a dangerous lift stays stopped; checks never go back |
| Day plans (`maintenance/service/plans.ts`) | `day_plan`: one JSON document per pair | generate, update, moveStop, publish, setStopStatus, markStopDoneByRef | planner, phones, subscriber | the whole document is read and written back | no handler forgets what a person did |
| Repair jobs (`jobs/`) | job, quote versions and lines, stages, what was invoiced | lines, transition, sendQuote, schedule, start, complete, invoice | office, phones, billing, visits | an invoice issued between a read and a write, a visit after the commit | approval before work; billed what was quoted |
| Calendar, building links and statements, documents, reporting, tenancy, demo data, HTTP shell, pages, shared packages | see `PROJECT.json` | | | | |

How they interact: HTTP handlers and jobs call module services; services write
through repositories and publish events; the bus turns an event into one job per
subscriber; subscribers write notifications, tick stops off day plans and recompute
schedules; billing is driven by crons, imports and repair jobs and read by every
page; the phone talks to `/sync/push` and `/sync/pull` only.

`PROJECT.json` lists every component, modelled or not, and every hazard with its
line; the properties are aimed at those hazards.

## 2. Modules

| Module | Models | Instance | Theorems |
| --- | --- | --- | --- |
| `InvoiceLedger` | payments, credit notes, the overdue roll and dunning on issued invoices | `MCInvoiceLedger` | `InvoiceLedgerProofs` |
| `GaplessSeries` | abstract: what a legal document series promises | refined by `BillingRun` | |
| `BillingRun` | numbering, manual and scheduled runs, repair invoices, credit note numbers | `MCBillingRun` | `BillingRunProofs` |
| `PaymentIntake` | bank statements, payment links and payments by hand on shared invoices | `MCPaymentIntake` | `PaymentIntakeProofs` |
| `EventBus` | outbox, dispatch, delivery, retries, sweep, acknowledged history | `MCEventBus` | `EventBusProofs` |
| `Notifications` | from an event to log rows, mail jobs and the adapter | `MCNotifications` | `NotificationsProofs` |
| `TechOutbox` | the phone's taps, drain and pull; stored responses and callback transitions on the server | `MCTechOutbox` | `TechOutboxProofs` |
| `Callbacks` | one callback from intake to close-out visit, and its response limit | `MCCallbacks` | `FieldWorkProofs` |
| `LiftRecords` | defects, visits, amendments and the schedule of one lift | `MCLiftRecords` | `FieldWorkProofs` |
| `DayPlans` | the plans of one day | `MCDayPlans` | `FieldWorkProofs` |
| `RepairJobs` | one repair job from draft to invoice | `MCRepairJobs` | `RepairJobsProofs` |

Every module has the same shape. A request of the code is a chain of awaits; the
variable `job` (or `req`, `call`) holds what each actor has read so far and where it
stands. Postgres runs READ COMMITTED without row locks except where the code asks for
them, so a single statement, or a transaction that only writes, is one step, and a
read followed by a write is two. A transaction that reads and then writes without a
lock is also two. A restart or a crash forgets `job` and keeps the tables.

**History variables.** Some promises of the code hold only as long as two requests
do not overtake each other. Instead of leaving overlap out of the model, the modules
record it: `stale` (`RepairJobs`, `LiftRecords`, `Callbacks`) says which decision was
made on a row that had changed before the write; `overlap` and `twice` that two runs of
one cron or subscriber overlapped; `lost` counts restarts between a payment and its mark,
`broken` rules that failed with a swallowed error, `unheard` events whose process died
after the commit, `hand` what the office overrode. A property excuses exactly that and
nothing else, so everything the code promises in every other interleaving is checked.

### InvoiceLedger

A command of the code is a chain of statements; `job[p]` is what actor `p` has
read so far and where it stands. Postgres runs READ COMMITTED, so one statement,
or a transaction that only writes, is one step. `invoice` is the table row reduced
to status, the three sums and the dunning stage; `entries` is what the payment,
credit note and adjustment rows add up to; comparing the two is the point. `unallocated` and
`received` are kept per purpose of a payment: an invoice, or none.

| Code | Action |
| --- | --- |
| `rollStatuses` (UPDATE ... RETURNING, then one event per row) | `Begin`, `AnnounceOverdue` |
| `recordPayment`: find and guards; transaction; events | `ReadForPayment`, `CommitPayment` or `RecordUnallocated`, `AnnounceEntry` |
| `issueCreditNote` | `ReadForCredit`, `CommitCredit`, `AnnounceEntry` |
| `runDunning`: list; per invoice fee, stage, event | `ListOpen`, `PickStage`, `CommitLateFee`, `CommitStage`, `AnnounceStage`, `FinishRun` |
| a request or process that dies | `Fail` |
| midnight | `Tick` |

`StatusAfter`, `OpenCents`, `NextStage`, `LateFeeFor` are the pure functions of
`billing/domain/states.ts` and `dunning.ts`. The overdue events of one roll are
published in one step. Amounts are small integers for cents, fee rules are flat
(a percent rule yields a constant per invoice, since it applies to the total),
all invoices share one total and due day, and `void` does not occur: no service
function sets it.

### BillingRun and GaplessSeries

`job[p]` is the transaction process `p` is in: the contracts it still has to
look at, the rows it has inserted and nobody else sees, and the next number
under the lock. `Look` is `findByContractPeriod`; `TakeNumber` is the lock on the
sequence row, the increment and the insert; the lock is kept until `Commit` or
`Rollback`; `RefuseDuplicate` is the unique index; `Announce` publishes after the
commit. Days are counted in short months of `DaysPerMonth` days; a contract is a
record of its cycle, anchor day and first and last month in force. `Tick` lets
midnight pass only when the day's job has fired, or at the cost of one fault.

`GaplessSeries` says what the law wants of a series: a batch of new documents
takes exactly the numbers after the last one. `BillingRun` implements it with
`issued <- books` (`SeriesAreGapless`): locks, running transactions and sequence
rows are hidden.

### EventBus

Queue mode, as in production. `pending` are the dispatches the publishing process
sends on its next tick, `jobs` the pg-boss queue, `worker` the `deliver` calls in
progress, one step per statement (`Fetch`, `Read`, `Claim`, `Handle` or
`HandlerThrows`, `RecordDone` or `RecordFailure`). pg-boss is external and
modelled from the options the code passes: a failed or expired job is queued again
until its retries are used up, and an expired run goes on running but its outcome
no longer counts. `Seeds` are events written under `runQuiet`; `Acknowledge` is
the last step of the demo generator and covers every event of the tenant that has
no delivery row, its own news included. `ran` and `acked` are history.

### TechOutbox

One technician's phone and the server, for taps on callbacks (`callback.event`).
`outbox` is the IndexedDB table (an item is named by its position, which is its
`createdAt` order; `waits` says that `nextAttemptAt` is in the future), `phone` the
local copies, `drain` and `pull` the two single-flight loops of the page. A push
request lives in a slot of `request` and goes on in the server when the phone has
stopped waiting; `unsaved` are responses sent but not yet written by the background
`prisma.idempotencyKey.create`, `stored` the rows written. `gaveUp` is history.

| Code | Action |
| --- | --- |
| `CallbacksPage.onEvent`, `retryItem` | `Tap`, `RetryItem` |
| `run()` of `sync/outbox.ts`: reset of "sending", the loop, the pull after a success | `StartDrain`, `SendItem`, `StopDrain`, `GoneOffline`, `FinishDrain` |
| `sendPush` and the `catch` with `classify` | `ReceiveApplied` then `MarkDone`; `ReceiveRefusal`, `ReceiveUnreadable`, `ReceiveUnauthorized`, `ReceiveError`, `ReceiveNothing` |
| the back-off timer, a closed page, re-enrolment | `BackoffElapses`, `ClosePage`, `EndSession`, `SaveSession` |
| `idempotent()`: lookup, store; the sweep of old keys | `Lookup`, `SaveResponse`, `ForgetResponse` |
| `callbacks.transition`: read and check, write and commit, publish and answer | `LoadCallback` or `RefuseInvalid`, `CommitTransition`, `RespondApplied` or `RespondError` |
| a crash or deployment, a client that is gone | `Restart`, `DropAnswer` |
| the office's dispatch and close | `OfficeLoads`, `OfficeCommits` |
| `doPull`, `applyPull` (outbox read, then the replacing transaction) | `StartPull`, `ServePull`, `PullFails`, `ReadUnsent`, `ApplyPull` |

Publishing `CallbackOnSite` and the like is part of `RespondApplied` (the bus is
`EventBus`); when it fails the request ends in `RespondError` although the transition
is committed, as in the code.

### PaymentIntake

`payments` is what the payment rows of each source (bank row, link, hand) add up to, allocated
to an invoice and unallocated; `row` the rows of an import, `link` the payment links, `job` the request of each clerk and visitor of the hosted page.
What is booked is booked by the same two actions whatever its source, as in the code.

| Code | Action |
| --- | --- |
| `matchRows` (`billing/domain/match.ts`), the preview | `MatchedRow`, `Preview` |
| `commit`: read rows once, loop, mark the import | `StartCommit`, `CommitNext`, `CommitEnd` |
| `matchRow`: checks; the row; on a committed import the booking; the count | `StartMatch`, `MatchWrite`, `MatchBook`, `MatchCount` |
| `bookRow` | `BookRow` ... `MarkRow` |
| `createPaymentLink`, thirty days, `settleDemoLink` | `StartLink`, `CreateLink`, `Expire`, `StartSettle` ... `MarkLink` |
| `pay` | `StartPay` |
| `recordPayment`: find and guards; transaction | `Record`, `Write` |
| a restart | `Restart` |

### Notifications

An event is `due` until a run of the subscriber ends; two runs of one event overlap only
after a fault (that is what `EventBus` shows of the bus). Rows are named by event, address
and a copy number, since the table has no unique key.

| Code | Action |
| --- | --- |
| `handleEvent`: rules and recipients; per recipient `existsForEvent`, then `send`; a caught error ends a rule | `Handle`, `Ask`, `Write`, `EnqueueMail`, `FailRule`, `Handled` |
| the fall-back from e-mail to a Viber link, then to a skipped row | `Targets`, `FirstStatus` |
| `deliver`: read the row, adapter, mark, error | `Fetch`, `Adapter`, `MarkSent`, `MarkFails`, `MarkError` |
| pg-boss retry and expiry (external) | `Retried`, `Report`, `Expire` |
| `requeueStuck`, `markSent` | `RequeueStuck`, `MarkViberSent` |
| a restart of the subscriber | `CrashHandler` |

### Callbacks

| Code | Action |
| --- | --- |
| `open` | `Open` |
| `load`, `assertTransition`, then the writes of `dispatch`, `transition`, `close` | `Start`, `Commit` |
| the visit of a close, and `closeoutVisitId` | `RecordVisit`, `LinkVisit` |
| `elapsedMinutes`, `slaState` | `Elapsed`, `SlaState` |
| `callbacks.slaWatch`: list and state; `alreadyPublished`; publish | `Watch`, `Ask`, `Tell` |

Times are minutes; people report their own times, so an arrival may be reported late or
ahead. `slaMinutes` is the copy taken at intake, a constant of the model.

### LiftRecords

One lift with its defects and visits. Days are small integers, `Due` is
`nextDue` of the schedule.

| Code | Action |
| --- | --- |
| `defects.record`, its event; `update` with `restoreIfClear` | `StartRecord`, `RecordDefect`, `TellStop`; `StartUpdate`, `Resolve`, `Touch` |
| `visits.record`, `amend`, `applyCheck` with `recordCheck` | `StartVisit`, `WriteVisit`; `StartAmend`, `WriteAmendment`; `CheckApplied` |
| an id that was taken meanwhile | `IdTaken` |
| `elevators.update`, `setStatus`, `setCheckOverride` | `StartEdit`, `Edit`; `StartReschedule`, `Reschedule` |
| the interval in `updateSettings`; `recomputeSchedule` every hour and on its event | `SetInterval`; `ListLift`, `Recompute` |
| a process that dies after the commit and before the event | `Crash` |

### DayPlans

A stop is named by what it refers to; the order of the stops, distances and arrival times
are left out, so the share of a pair is any share of the size `chunkEvenly` gives it.

| Code | Action |
| --- | --- |
| `generate`: plans; what is due; pair by pair merge and write | `StartGenerate`, `LoadSources`, `GeneratePair` |
| `mergeRegeneration` | `IsKept`, `Merge` |
| `update` with the body of the office's screen; `moveStop`; `setLocked` | `OpenBoard`, `Update`; `StartMove`, `MoveTo`, `MoveFrom`; `SetLocked` |
| `publish`, plan by plan with its event | `StartPublish`, `PublishPlan`, `Tell` |
| `setStopStatus` | `StartStatus`, `Report` |
| `markStopDoneByRef` on VisitRecorded, CallbackClosed, JobCompleted | `StartTick`, `Tick`, `TickEnd` |
| work that appears, and is done elsewhere | `Arise`, `Finish` |

### RepairJobs

The stage machine is the one shipped in `packages/domain-data/jobs/stages.v1.json`.

| Code | Action |
| --- | --- |
| `create`; `addLine`, `updateLine`, `removeLine` with `recomputeTotals` | `Create`; `StartLine`, `CommitLine`, `LineGone` |
| `transition`, `sendQuote`, `schedule`, `start` | `StartTransition`, `StartSend`, `SendOn`, `StartSchedule`, `StartWork`, `CommitStage`, `Publish` |
| back to draft: a new version with a copy of the lines | `CopyLines` |
| `complete`: stage; visit; link, which returns the row as it is by then; the event of that row | `StartComplete`, `CommitStage`, `RecordVisit`, `LinkVisit`, `Publish` |
| `invoice`: read; `invoiceIssuer().issue`; write | `StartPartial` or `StartFull`, `Issue`, `RecordInvoice` |

## 3. Runs

| Run | Shows | Distinct in |
| --- | --- | --- |
| `ledger_one_writer` | with one writer of each kind the sums equal their rows and a stage acts once, through failures and retries; a past-due invoice is eventually rolled or settled | one office user, one dunning caller, pages |
| `ledger_many_writers` | with several, payment rows hold all the money, an invoice is closed only by money that came in for it, and sums are never too large | two of each |
| `run` | months of daily runs with a missed day, beside manual runs and a repair invoice, with failures: every month billed exactly once, the refinement of the gapless series, everybody is answered | |
| `intake` | what is marked has its payment; money is kept; booked twice only after a restart between payment and mark; every proposal is booked or decided | |
| `bus` | honest deliveries, only committed events, and in the end every handler hears | |
| `mail` | one row per address, nobody forgotten, every mail sent or given up | |
| `outbox_safety` | what is shown as sent has taken effect; taps take effect in order, given-up ones aside | two requests, two faults |
| `outbox_settles` | every tap is eventually sent or failed; the phone ends up showing what the server has | fairness, the office |
| `callbacks` | an arrival or a closing is not rewritten; a breach is announced, once unless two runs overlap | |
| `lift` | a stopped lift stays stopped until it is clear; checks and amendments; the due date comes right; a stop is announced | |
| `plans` | what a person did is only undone by a person or an old copy; published is told once; finished work is ticked off | |
| `jobs` | no way round the approval; billed what the current version's lines come to; one visit; the stage a job rests in is announced | |

### Bounds, and why they are enough

* Ledger: one invoice (invoices never interact except through a dunning run's list),
  a total of 2 cents and amounts 1 and 3, so that partial, exact and over-payments
  occur; two days past due, so that rolling, grace and both stages happen; `MaxOps`
  commands per person. Two writers of each kind are the smallest number with stale reads.
* Run: four months of three days, a contract that starts late and waits for its own day,
  a two-month cycle cut short, one that pays nothing; one cron, one manager, one repair
  invoice and one failure or missed day. Credit notes use the same three actions with a
  series of their own; they are left out of the run (`Noters = {}`) and covered by the
  proofs, which hold for any set of them.
* Intake: two invoices and three rows, so that a name is ambiguous, a reference brings
  more than the invoice takes, and a second row waits for the same invoice; one link,
  one clerk with two actions by hand beside the commit, one visitor, one restart.
* Bus: one event and one seeded event, one handler (handlers do not interact), two
  workers, three retries, two faults; `MaxJobs = 1` keeps one job of a pair at a time.
* Mail: one event, a rule for staff and one for the building's contact, two runs of the
  subscriber, one mailer, one queue retry, two attempts, three faults: enough to use up
  the retries and to need the sweep.
* Outbox: one callback and two taps are the fewest with an order to keep; two requests in
  the server, so that one left behind runs beside its retry; two faults, since the
  interesting cases need a fault and a second one while it is being repaired.
* Callbacks: minutes 1 to 3 with a limit of one reach "at risk" and "breached"; an
  office user with one request and a technician with three go through a whole life of a
  callback with a dispatch in the middle; two watchers, one restart.
* Lift: two people, two defects (one must hold the lift while the other is resolved),
  three visits (an amendment of an amendment, or two amendments of one), two days and
  intervals, one restart. The requests come in three mixes (`Mixes`): defects and status,
  visits and amendments, visits and schedule; the parts of the lift they write are disjoint
  but for the dates, which the last mix covers.
* Plans: two pairs and two references, one assigned to a pair and one free, a planner
  with three requests, a phone with one, one subscriber, one restart.
* Jobs: a clerk with six requests, the fewest that lead from the draft to the invoice, a
  colleague and a technician with one each, a total of two and two versions, one restart.
* `CHECK_DEADLOCK FALSE` where the bounds end the behaviour (requests used up, all
  events delivered). `ledger_one_writer` and the outbox runs check deadlock.

### Fairness

* A request the server has taken in goes on to its end or until the process stops
  (weak fairness of `Step`), in every module with liveness. Nobody is obliged to send one,
  no fault is fair, and publishing is only fair as a step of a running request.
* Ledger: pages and the daily job keep calling `rollStatuses`.
* Run: waiting for the sequence row is strongly fair because Postgres grants a row
  lock in the order of its waiters.
* Intake: the office commits an import again as long as it is not committed.
* Bus: the cron fires the sweep, pg-boss expires abandoned jobs and hands jobs out oldest
  first, workers finish what they run. Dispatches are not fair: lost ones must be
  recovered by the sweep.
* Mail: subscribers and mailers go on (the bus delivers again), the sweep comes
  every few minutes (`jobs.ts:296`).
* Outbox: the page is opened again, its engine starts drains and pulls, back-off timers
  fire, the server serves what it has received, the technician enrols again when asked.
* Callbacks: the watch comes every minute (`jobs.ts:172`). Lift: the schedule is recomputed
  every hour (`jobs.ts:47`). Plans: the bus delivers until its handler has returned.

## 4. Proofs

TLAPS proves, for every value of the constants allowed by the named assumptions
(`LedgerAssumption`, `RunAssumption`, `IntakeAssumption`, `BusAssumption`,
`NotificationsAssumption`, `OutboxAssumption`, `LiftAssumption`, `JobsAssumption`, and
`PlanAssumption` as a hypothesis of the theorems about plans: bounds are
numbers, terms and stages are sequences of their types, people and processes of different
kinds are different, an invoice that is not a contract's is not named like one, and sets are
finite where things in them are counted):

| Theorem | Says |
| --- | --- |
| `InvoiceLedgerProofs!TypeCorrect`, `NeverOverstated` | sums stay natural numbers and never exceed their rows |
| `InvoiceLedgerProofs!NoMoneyLost` | payment rows hold all the money, and an invoice is closed only by what came in for it and its credit notes, for any number of writers |
| `InvoiceLedgerProofs!StageOnce`, `BooksAlwaysAgree` | one run of dunning at a time: a stage acts once; and one office user: the sums equal their rows |
| `InvoiceLedgerProofs!NeverClosedShort`, `PaidForGood` | a paid invoice is covered by its rows, for any number of writers; with one office user it stays paid |
| `BillingRunProofs!TypeCorrect`, `Gapless`, `UniqueNumbers`, `NeverTwicePerPeriod` | numbering, for any number of concurrent transactions and failures |
| `BillingRunProofs!MonthsBilledOnce`, `EveryMonthBilled` | no month is billed twice; none in force passes unbilled, if a month has more run days than there are failures |
| `BillingRunProofs!OnlyIssuedAnnounced` | what was rolled back is never announced |
| `BillingRunProofs!NeverBlocked` | whoever is under way can go on, or waits for a holder of the sequence row who can |
| `BillingRunProofs!SeriesImplemented` | every step is a step or a stutter of `GaplessSeries` |
| `PaymentIntakeProofs!TypeCorrect`, `SettledIsPaid`, `CommitLeavesNone` | marks have payments, and a committed import has no proposal left, for any statement and number of clerks, visitors and restarts |
| `PaymentIntakeProofs!MoneyKept`, `BookedOnceAlone` | what a row or link brings is a multiple of its amount; with one clerk and one visitor, once but for restarts |
| `EventBusProofs!TypeCorrect`, `CommittedOnly`, `DoneIsHonest` | only committed events run, done is honest |
| `EventBusProofs!NoEventLost`, `OnceWhenNothingFails` | what a handler has not heard has a live job or is the sweep's, with fewer faults than retries; one job of a delivery and no fault: at most one effect |
| `NotificationsProofs!TypeCorrect`, `SentIsAccepted`, `NobodyIsForgotten`, `ToldOnce` | the log is honest and complete, for any rules, runs and faults |
| `NotificationsProofs!MailIsInHand` | what the queue takes for running is in the hands of a mailer |
| `TechOutboxProofs!TypeCorrect`, `SentMeansApplied`, `InOrder` | sent means applied, and taps take effect in order, under faults of every kind |
| `TechOutboxProofs!NobodyIsStuck` | a waiting drain has its request in the server; no item is left "sending" by nobody |
| `FieldWorkProofs!TypeCorrect`, `StoppedLiftStaysStopped`, `StoppedLiftHasADefect`, `LastCheckNeverBack`, `OneAmendmentEach` | the lift, for any number of people, defects and visits |
| `FieldWorkProofs!StopIsInHand` | a stop-lift defect is announced, about to be, or its request has died |
| `FieldWorkProofs!ArrivalsStay`, `OneAlarmEach` | a callback's arrival and closing stay, one visit, one alarm of each kind, unless requests or runs overlapped |
| `FieldWorkProofs!WorkStays`, `PublishedOnceTold` | what a person did about a stop is kept; with one planner a published plan is announced once |
| `RepairJobsProofs!TypeCorrect`, `AlwaysUnderApproval`, `CompletedOnce` | approval before work and one visit, for any number of people |
| `RepairJobsProofs!BilledIsQuoted` | the invoices of a job come to its current version's lines, for any number of people |
| `RepairJobsProofs!StagesFollowTable`, `NoStageForgotten` | stages leave the table only by an overtaken write; the present stage is announced, on its way to it, or its event was lost in a restart |

The arguments. *NeverOverstated* is not inductive alone: a command writes back a
snapshot it read earlier. The strengthening says that what any running command
holds in `snap` is bounded by the present rows as well; rows only grow, so an old
bound stays a bound. *Gapless* and *UniqueNumbers* need what a running transaction may
hold: whoever holds the sequence row has numbered its rows exactly from the committed
`nextNumber` to its own `next - 1`; whoever does not, has no numbered rows.
*NeverTwicePerPeriod* adds that the rows of the lock holder are not in the books, which
the unique index checks at the insert and the lock preserves until the commit; from the
same invariant a commit is one step of `GaplessSeries` (*SeriesImplemented*), every other
action a stutter. *OnlyIssuedAnnounced* says the same of what waits to be announced.
*CommittedOnly* needs that a run past its read has seen a committed event and that commits
are final; *DoneIsHonest* that only a run whose effect happened is about to record
success. *SentMeansApplied* needs that every "applied" on its way (an answer, an unsaved
or stored response, a drain about to mark its item) speaks of an item that is in the
timeline. *InOrder* needs that whatever request is in the server, the phone's own or one
it has given up, everything made before its item has taken effect or was given up: the
drain picks the oldest pending item, and the timeline only grows.

*SettledIsPaid* needs that whoever is about to mark has its payment in the table, which
only grows. *CommitLeavesNone* needs, for every running commit, that a row that is still
a proposal is in its list or is the row it is booking; no request makes a new
proposal once the preview is written. *AlwaysUnderApproval* rests
on the copies: a request that leads to an agreed stage other than the approval itself
was begun under an agreed stage, hence under evidence, and evidence is never taken back;
so even an overtaken write keeps it. *CompletedOnce* says that whoever has recorded
the visit, or is about to, is one person, and that the job is done or invoiced by then. *NobodyIsForgotten*
follows a run: what is not in its list any more has a row, or its rule failed; *ToldOnce*
that of two runs of an event one marks the event in `twice`. *SentIsAccepted* needs
that a mailer about to mark carries a row the adapter accepted. The lift's invariants are
conjoined with what each request carries (the defect it resolves exists, the visit it amends
was not superseded when it was read) and with the fact that nothing is ever deleted, and
proved together, one lemma per action.

*NoMoneyLost* has two halves. That the rows hold the money is one transaction's split of a payment,
whose received amount grows in the step that writes the rows (`RowsHoldTheMoney`). That an invoice is
closed by nothing else needs *NeverClosedShort*: what a command writes as paid, from whatever it has read, is covered
by the rows, hence by the money behind them. *StageOnce* assumes `OneDunner`, that two runs of dunning do not
overlap (the daily cron alone; "run now" beside it is what the many-writer run adds): then what the run has read of stages and fees is still the table's, and the stage
it is about to act on is a new one. *BooksAlwaysAgree* adds `OneOfficeUser`: what its command
has read of the sums is the table's too. Both hypotheses are the instance of
`ledger_one_writer`; pages still roll statuses meanwhile.

*MonthsBilledOnce* rests on the cycle grid: every invoice of a contract starts at its cycle,
so two that share a month are one. *EveryMonthBilled* is the calendar argument. A run goes
through the list of its month and day; whoever issues a document of that list works on the same list
or a longer one, so a run that is refused a duplicate (and rolls back whole) has been
overtaken by one that bills all it would have billed. Hence a day whose run came to its end
without a fault has billed everything that is open, and every day that passes while a contract
waits has cost one failure or one missed day. `EnoughDays` says that from the day a
contract's run opens (its anchor, or the tenant's run day) a month has more days left than there
are faults in all; `SeenFromTheStart` that no contract is older than the model's clock.
Without the first the statement is false, as the last-day anchor in section 5 shows.

*MoneyKept* says that a booking adds exactly the amount of its source. *BookedOnceAlone*
(`OneClerk`, `OnePayer`) follows the one request a source can be in: what a row or link
has brought is its amount times the restarts that cost its mark, plus the booking in
progress, plus one when it is settled. Bookings of two clerks at once are the divergence of the
unlocked mark. *BilledIsQuoted* says that, as long as nobody was overtaken, a stage that
fixes the quote fixes the lines, what has been invoiced is what was issued but for the one
invoice in progress, and that one asks for no more than the rest.

Each invariant was first checked by TLC, then proved by one lemma per action (or
group of actions that leave the same variables alone), combined by PTL.

*ArrivalsStay* ties the times of a callback to its stage while nobody wrote over a stage it
had not read: from the arrival on no allowed stage leads back to "on site", nothing leads out
of "closed", and the one who closed is the only one to record the visit. *OneAlarmEach* says that
the only run of the watch is still right when it writes that the alarm is missing. *WorkStays*
needs that the stops a request is about are in its copy, that only people report, edit
and move, and that a merge, a move or a mark changes of its copy nothing a person did except what
was asked; a list written from a copy that differs from the row is the exception it names.
*PublishedOnceTold* (`OnePlanner`) says what is left on the publisher's list is a draft, and of
what is not, everything but the plan just published has been announced once. `LiftRecords`,
`Callbacks` and `DayPlans` share one module of proofs, the last two as instances over variables of
their own, since they have names in common.

**What the "eventually" properties rest on.** That something happens in the end is out of the
prover's reach. What it needs for that is a safety property, and often where the bug
would be: what it waits for is still there. Each of these stands in its module beside the
liveness property it supports, was checked by TLC on the instance of that property's
run before it was proved, and holds for every value of the constants.

* *NoEventLost* (`EveryHandlerHears`) counts the attempts of a job against the faults so far: each
  failed try is a fault, but for a first one that came before the commit, so a job is never out
  of retries while its event is unheard, and a delivery row has a live job until then. `MaxFaults < RetryLimit` is the limit of the code
  itself: a job that has used up its retries leaves a row no sweep looks for (`bus.ts:222`).
* *OnceWhenNothingFails* says that the single job of a delivery (`MaxJobs = 1`) is with one
  worker until something fails, and that an effect is on record or that worker is about to
  record it, so the next one to fetch the job finds it done. A second job for the delivery
  is the divergence of `bus.ts:172` below.
* *NobodyIsStuck* (`EveryItemSettles`) ties the drain to the slot its request is in: the server
  keeps a request until it has answered or the connection broke, and either wakes the drain.
* *NeverBlocked* (`EveryRequestEnds`): the sequence row is held only by a transaction that is
  between its lock and its commit, where no further lock is needed.
* *NoStageForgotten* (`StageIsTold`): whoever writes a stage is to announce it, and stays so while
  others overtake it; a completion that links its visit takes on the stage it finds, and then announces
  that one. *StopIsInHand* (`StopIsTold`) follows the one request that recorded the defect from its
  commit to the event. *MailIsInHand* (`EveryMailSettles`) says the
  queue's "active" and the mailer's try number agree.

*StagesFollowTable* needs from which stage each kind of request was begun (an invoice from an
agreed one, the closing one from "done"): a write that finds the stage it read moves along the
table, any other one is marked `stale`. *NeverClosedShort* combines two facts about
a command under way: the sums it read are behind the rows, and a booking was read
from an open invoice. What it writes as paid is then covered, even where the sums themselves have
lost a concurrent booking. *PaidForGood* (`OneOfficeUser`) adds that nobody closes the invoice between
that read and the write; two office users can reopen a paid invoice, which is why the property is checked
with one.

Only model-checked: liveness under fairness and what needs ENABLED (the "eventually"
properties of the runs, with the second halves of the above). `TickedOff`, `PastDueIsRolled`,
`BoardComesRight` and the first half of `BreachIsToldOnce` have no kernel of their own that would say
more than that an action is enabled.

## 5. Known divergences

Where the models reach a state that a comment or document of the repository rules out.
The properties excuse exactly these cases, by the history variables or the instance:

* Two credit notes (or payments) booked on one invoice at once: the second writes
  `creditedCents` from its old read (`billing/service.ts:826`, `851`), while
  `docs/adr/0001-billing-jobs-payments.md:17` calls it the "sum of credit notes".
  `BooksAgree` is checked with one writer, `SumsNeverOverstate` with many. No invoice is
  closed short by it (`PaidIsCovered`); one that was covered may be opened again.
* A contract anchored on the last day of a month whose last day the job missed is never
  billed for it: the run targets the current month only (`billing/domain/cycle.ts:77`), while line
  8 says "a missed day catches up on the next tick". The instance keeps anchors below that.
* Two jobs of one delivery (the original and the sweep's) both run the handler
  (`platform/events/bus.ts:172`), while line 167 says "exactly once". The instance has one job,
  and then "at most once" holds until something fails (`OnceWithoutFaults`).
* An answer lost together with its stored response makes the retry of an applied tap a 409,
  and the phone shows it as failed, while `ARCHITECTURE.md:213` says "duplicates after a
  lost response are safe". No property says "failed" means refused.
* A restart between the payment and the mark of a bank row or a link: the next commit, or a
  form sent again, books it a second time (`lost`, `BookedOnce`).
* A day plan written back from an old copy forgets what a phone reported meanwhile, although
  `maintenance/domain/plan.ts:5-6` says a regeneration "must never throw away what a person did"
  (`FromOldCopy` in `WorkIsKept`). A plan published just before a crash is never announced.
* An update of a defect that read it as open, written after another request resolved it and the
  lift was restored, leaves an open stop-lift defect on a running lift (`defects/service.ts:199`);
  two defects resolved at the same time may leave the lift stopped (`stale`).
* StopLiftRequired, and the visit and the event of a completed job, are lost by a crash after
  the commit; the retry is answered from the table or refused (`unheard`, `event = "lost"`).
* A job that is invoiced, or moved to another stage, between the commit of its completion and the link of its visit:
  the link returns the job as it is by then (`jobs/service.ts:1014`) and its event is published
  (line 1019), so `JobCompleted` never is, and its planned stop is not ticked off, which
  `subscribers.ts:14` leaves to that event. `StageIsTold` speaks of the stage the job comes to rest in.
* An invoice of a repair job issued by two requests at once, or recorded by none after a restart,
  bills the job beyond its total (`OneInvoiceAtATime`).
* Two requests for one callback decided on the same stage: an arrival is rewritten or a closed
  callback becomes "on site" again with its closing time set (`stale` in `Callbacks`).
* A rule of a notification that fails is logged and never tried again; two users of one name
  share an in-app address, so the second has no row of his own (users are distinct in the model). A user without an address
  for the channel is skipped (`notifications/service.ts:887`) and gets no row; the model's users have one.

## 6. Not modelled, and why

* Payment providers other than the demo one are stubs that accept nothing; their webhooks
  will need the model of `StartSettle` once they exist.
* Outbox items other than callback taps, uploads, two tabs on one database and the watermark
  of the pull: the phone's engine treats all kinds alike; two tabs and the watermark are
  listed as hazards without a property.
* Calendar alerts on an exact day, quote reminders, retention and the registry's own
  bookkeeping of last runs: one statement each, or no state but an event.
* The date of a lift's last check set or cleared by hand (`registry/service/elevators.ts:124`): a correction
  of what the visits say, so that "the last check never goes back" is about visits and reports.
* Contract edits, buildings, customers, users, scheduled deletion of a tenant, demo content:
  edits of single rows.
* CSV parsers, VAT and rounding, templates and texts, quotes and other documents, statements,
  reports, exports and search: functions of their input without order or concurrency.
* Views of the office and phone applications (more than half of the source lines): rendering
  and forms over the API. The models take from them what they send and in which order
  (`OpenBoard`, `Tap`).
* HTTP shell, storage and mail adapters, configuration, shared packages of types and texts.

The map names about 4,900 lines, eight per cent of the implementation: the
services that write, their repositories, the domain rules and the schema they rest on. What is
outside it is, for the most part, views, readers and formatting.
