-------------------------------- MODULE BillingRun --------------------------------
(***************************************************************************)
(* Issuing numbered documents: the scheduled and the manual billing run    *)
(* (generate), invoices of repair jobs (issueInvoice) and credit notes, in *)
(* apps/api/src/modules/billing: run.ts, service.ts, domain/cycle.ts,      *)
(* domain/invoice.ts, repo/billing.ts.                                     *)
(*                                                                         *)
(* One transaction of each is a chain of steps: it looks for an existing   *)
(* invoice without a lock, then takes a number under the sequence row's    *)
(* lock, which it keeps until it commits or rolls back.  Rows it has       *)
(* inserted are invisible to others until the commit.  Amounts, VAT and    *)
(* lines are left out; a contract in force has lines worth billing.        *)
(***************************************************************************)
EXTENDS Integers, Sequences, FiniteSets

CONSTANTS
  Terms,        \* contracts by id order: [months, exempt, anchorDay, first, last]
  RunDay,       \* the tenant's billing.runDay
  DaysPerMonth, \* length of the model's months
  LastDay,      \* bound: the clock stops here
  Crons,        \* the billing.run job
  Managers,     \* people who generate a month by hand
  Issuers,      \* callers of issueInvoice (repair jobs)
  Noters,       \* callers of issueCreditNote
  NoOne,        \* "nobody holds the sequence row"
  NoDoc,        \* "no document being numbered"
  MaxOps,       \* bound: documents or runs each person starts
  MaxFaults     \* bound: days without a run, and transactions or requests that die

Contracts == DOMAIN Terms
Procs == Crons \cup Managers \cup Issuers \cup Noters
Series == {"invoice", "note"}

Month(day) == (day \div DaysPerMonth) + 1
DayOfMonth(day) == (day % DaysPerMonth) + 1
Months == {Month(day) : day \in 0..LastDay}

ASSUME RunAssumption ==
  /\ RunDay \in Nat \ {0} /\ DaysPerMonth \in Nat \ {0} /\ LastDay \in Nat
  /\ Terms \in Seq([months : Nat \ {0}, exempt : BOOLEAN, anchorDay : Nat,
                    first : Nat, last : Nat])
  /\ NoOne \notin Procs
  /\ (Issuers \cup Managers \cup Crons) \cap Noters = {}
  /\ Crons \cap Managers = {} /\ (Crons \cup Managers) \cap Issuers = {}
  /\ (Issuers \cup Noters) \cap Contracts = {}  \* their documents name no contract
  /\ MaxOps \in Nat /\ MaxFaults \in Nat

VARIABLES
  today,     \* day since the start of the first month
  ranOn,     \* last day the billing.run job fired
  seq,       \* committed nextNumber of each sequence row (1 while there is none)
  holder,    \* the transaction that holds each sequence row FOR UPDATE
  books,     \* committed documents of each series
  announced, \* documents whose InvoiceIssued / CreditNoteIssued was published
  job,       \* the transaction or request each process is in
  left,      \* runs or documents each person may still start
  faults     \* failures still to come

vars == <<today, ranOn, seq, holder, books, announced, job, left, faults>>
clock == <<today, ranOn>>

-----------------------------------------------------------------------------
(* The billing calendar: domain/cycle.ts, domain/invoice.ts *)

\* A contract's invoice is identified by its contract and first month, which
\* carry the unique index (tenantId, contractId, periodStart).
Docs == (Contracts \X Months) \cup ((Issuers \cup Noters) \X (1..MaxOps))

InForce(c, m) == Terms[c].first <= m /\ m <= Terms[c].last

\* Months an invoice of contract c for the period from m bills: one each month
\* of the period the contract is in force.
Covered(c, m) == {k \in m..(m + Terms[c].months - 1) : InForce(c, k)}

PeriodOpensAnyMonth(c, m) == m >= Terms[c].first
PeriodStartsCycle(c, m) ==
  \/ Terms[c].months = 1
  \/ m >= Terms[c].first /\ (m - Terms[c].first) % Terms[c].months = 0

EffectiveRunDay(c) == IF Terms[c].anchorDay > 0 THEN Terms[c].anchorDay ELSE RunDay

\* What generate bills of a period; the scheduled run passes its day, and the
\* contracts whose run day is later wait.  Manual runs pass no day (0).
Billable(c, m, dayOfMonth) ==
  /\ ~Terms[c].exempt
  /\ PeriodStartsCycle(c, m)
  /\ dayOfMonth > 0 => EffectiveRunDay(c) <= dayOfMonth
  /\ Covered(c, m) # {}

\* The contracts a run goes through, in the order of listActive (by id).
WorkList(m, dayOfMonth) == {<<c, m>> : c \in {k \in Contracts : Billable(k, m, dayOfMonth)}}
ComesFirst(doc, list) == \A d \in list : d = doc \/ doc[1] < d[1]

\* The scheduled run targets the current month, from the tenant's run day, or
\* from its last day when it is shorter.
ClampRunDay == IF RunDay <= DaysPerMonth THEN RunDay ELSE DaysPerMonth
RunIsDueOnTheDay(day) == DayOfMonth(day) = ClampRunDay
RunIsDue(day) == DayOfMonth(day) >= ClampRunDay

-----------------------------------------------------------------------------
(* Transactions *)

SeriesOf(p) == IF p \in Noters THEN "note" ELSE "invoice"
Idle == [at |-> "idle", todo |-> {}, doc |-> NoDoc, rows |-> {}, next |-> 1]
Become(p, next) == job' = [job EXCEPT ![p] = next]

Init ==
  /\ today = 0
  /\ ranOn = -1
  /\ seq = [s \in Series |-> 1]
  /\ holder = [s \in Series |-> NoOne]
  /\ books = [s \in Series |-> {}]
  /\ announced = [s \in Series |-> {}]
  /\ job = [p \in Procs |-> Idle]
  /\ left = [p \in Procs |-> MaxOps]
  /\ faults = MaxFaults

\* runScheduled: the 06:00 tick, or somebody's "run now".
CronFires(p) ==
  /\ job[p].at = "idle"
  /\ ranOn' = today
  /\ Become(p, IF RunIsDue(today)
               THEN [Idle EXCEPT !.at = "scan",
                                 !.todo = WorkList(Month(today), DayOfMonth(today))]
               ELSE Idle)
  /\ UNCHANGED <<today, seq, holder, books, announced, left, faults>>

\* POST /billing/invoices/generate for month m.
ManagerStarts(p, m) ==
  /\ job[p].at = "idle" /\ left[p] > 0
  /\ left' = [left EXCEPT ![p] = @ - 1]
  /\ Become(p, [Idle EXCEPT !.at = "scan", !.todo = WorkList(m, 0)])
  /\ UNCHANGED <<clock, seq, holder, books, announced, faults>>

\* issueInvoice, issueCreditNote: a transaction of one document, numbered at once.
IssueStarts(p) ==
  /\ job[p].at = "idle" /\ left[p] > 0
  /\ left' = [left EXCEPT ![p] = @ - 1]
  /\ Become(p, [Idle EXCEPT !.at = "number", !.doc = <<p, left[p]>>])
  /\ UNCHANGED <<clock, seq, holder, books, announced, faults>>

Exists(s, doc) == \E r \in books[s] : r.doc = doc

\* findByContractPeriod: what is committed now, before the lock is taken.
Look(p) ==
  /\ job[p].at = "scan"
  /\ \E d \in job[p].todo :
       /\ ComesFirst(d, job[p].todo)
       /\ Become(p, IF Exists("invoice", d)
                    THEN [job[p] EXCEPT !.todo = job[p].todo \ {d}]
                    ELSE [job[p] EXCEPT !.at = "number", !.doc = d, !.todo = job[p].todo \ {d}])
  /\ UNCHANGED <<clock, seq, holder, books, announced, left, faults>>

\* nextInvoiceNumber waits for the sequence row, reads it and increments it;
\* createInvoice checks the unique index.  A duplicate rolls everything back.
LockFreeForAll(p) == TRUE
LockFree(p) == holder[SeriesOf(p)] \in {NoOne, p}

Number(p) == IF holder[SeriesOf(p)] = p THEN job[p].next ELSE seq[SeriesOf(p)]

DuplicateUnchecked(p) == FALSE
Duplicate(p) == Exists(SeriesOf(p), job[p].doc)

TakeNumber(p) ==
  /\ job[p].at = "number" /\ LockFree(p) /\ ~Duplicate(p)
  /\ holder' = [holder EXCEPT ![SeriesOf(p)] = p]
  /\ Become(p, [job[p] EXCEPT !.at = "scan", !.doc = NoDoc, !.next = Number(p) + 1,
                   !.rows = job[p].rows \cup {[doc |-> job[p].doc, number |-> Number(p)]}])
  /\ UNCHANGED <<clock, seq, books, announced, left, faults>>

RollbackKeepsLock(p) == Become(p, Idle) /\ UNCHANGED <<holder, seq>>
Rollback(p) ==
  /\ holder' = [s \in Series |-> IF holder[s] = p THEN NoOne ELSE holder[s]]
  /\ seq' = seq
  /\ Become(p, Idle)

RefuseDuplicate(p) ==
  /\ job[p].at = "number" /\ LockFree(p) /\ Duplicate(p)
  /\ Rollback(p)
  /\ UNCHANGED <<clock, books, announced, left, faults>>

Commit(p) ==
  /\ job[p].at = "scan" /\ job[p].todo = {} /\ job[p].rows # {}
  /\ LET s == SeriesOf(p)
     IN /\ books' = [books EXCEPT ![s] = @ \cup job[p].rows]
        /\ seq' = [seq EXCEPT ![s] = job[p].next]
        /\ holder' = [holder EXCEPT ![s] = NoOne]
  /\ Become(p, [job[p] EXCEPT !.at = "announce"])
  /\ UNCHANGED <<clock, announced, left, faults>>

\* A run that found everything issued commits nothing.
NothingToIssue(p) ==
  /\ job[p].at = "scan" /\ job[p].todo = {} /\ job[p].rows = {}
  /\ Become(p, Idle)
  /\ UNCHANGED <<clock, seq, holder, books, announced, left, faults>>

MayAnnounce(p) == job[p].at = "announce" /\ job[p].rows # {}

Announce(p) ==
  /\ MayAnnounce(p)
  /\ \E r \in job[p].rows :
       /\ \A q \in job[p].rows : r.number <= q.number
       /\ announced' = [announced EXCEPT ![SeriesOf(p)] = @ \cup {r}]
       /\ Become(p, IF job[p].rows = {r} THEN Idle ELSE [job[p] EXCEPT !.rows = job[p].rows \ {r}])
  /\ UNCHANGED <<clock, seq, holder, books, left, faults>>

\* A lost connection, the transaction's time limit or a restart: an open
\* transaction rolls back, events still to be published are not published.
Fail(p) ==
  /\ job[p].at # "idle" /\ faults > 0
  /\ faults' = faults - 1
  /\ Rollback(p)
  /\ UNCHANGED <<clock, books, announced, left>>

\* Midnight.  The job has fired that day and its transaction is over, unless
\* the worker was down.
Tick ==
  /\ today < LastDay
  /\ today' = today + 1
  /\ \A p \in Crons : job[p].at \notin {"scan", "number"}
  /\ IF Crons = {} \/ ranOn = today
     THEN faults' = faults
     ELSE faults > 0 /\ faults' = faults - 1
  /\ UNCHANGED <<ranOn, seq, holder, books, announced, job, left>>

Step(p) ==
  Look(p) \/ TakeNumber(p) \/ RefuseDuplicate(p) \/ Commit(p) \/ NothingToIssue(p) \/ Announce(p)

Next ==
  \/ \E p \in Crons : CronFires(p)
  \/ \E p \in Managers, m \in Months : ManagerStarts(p, m)
  \/ \E p \in Issuers \cup Noters : IssueStarts(p)
  \/ \E p \in Procs : Step(p) \/ Fail(p)
  \/ Tick

Spec == Init /\ [][Next]_vars

\* Postgres grants a row lock in the order of its waiters, so nobody waits for
\* ever; the other steps are the process's own.
Fairness ==
  \A p \in Procs :
    /\ WF_vars(Look(p) \/ Commit(p) \/ NothingToIssue(p) \/ Announce(p))
    /\ SF_vars(TakeNumber(p) \/ RefuseDuplicate(p))
FairSpec == Spec /\ Fairness

-----------------------------------------------------------------------------
(* Properties *)

Number1 == Nat \ {0}
Record == [doc : Docs, number : Number1]
Job == [at : {"idle", "scan", "number", "announce"}, todo : SUBSET Docs,
        doc : Docs \cup {NoDoc}, rows : SUBSET Record, next : Number1]

\* Every variable keeps its shape; numbers start at 1.
TypeOK ==
  /\ today \in 0..LastDay /\ ranOn \in Int
  /\ seq \in [Series -> Number1]
  /\ holder \in [Series -> Procs \cup {NoOne}]
  /\ books \in [Series -> SUBSET Record]
  /\ announced \in [Series -> SUBSET Record]
  /\ job \in [Procs -> Job]
  /\ left \in [Procs -> 0..MaxOps]
  /\ faults \in Nat

\* The committed numbers of each series are 1..nextNumber-1: rollbacks, lost
\* races and restarts leave no hole.
NumbersAreGapless == \A s \in Series : {r.number : r \in books[s]} = 1..(seq[s] - 1)

\* No two documents of a series share a number.
NumbersAreUnique ==
  \A s \in Series : \A r, q \in books[s] : r.number = q.number => r = q

\* InvoiceIssued never announces a document that is not in the book, whatever
\* was rolled back.
AnnouncedIsIssued == \A s \in Series : announced[s] \subseteq books[s]

\* A contract has at most one invoice per period, although each run looks for
\* it before it has the lock.
OneInvoicePerPeriod == \A r, q \in books["invoice"] : r.doc = q.doc => r = q

\* No month of a contract is billed twice, whichever runs billed the periods.
NoMonthBilledTwice ==
  \A c \in Contracts : \A m, n \in Months :
    Exists("invoice", <<c, m>>) /\ Exists("invoice", <<c, n>>) /\ m # n
      => Covered(c, m) \cap Covered(c, n) = {}

\* The committed documents behave like the abstract series.
Promise == INSTANCE GaplessSeries WITH Kinds <- Series, issued <- books
SeriesAreGapless == Promise!Spec

\* Once a month is over, every contract in force in it has been billed for it.
NoMonthLost ==
  \A c \in Contracts, m \in Months :
    m < Month(today) /\ InForce(c, m) /\ ~Terms[c].exempt
      => \E n \in Months : Exists("invoice", <<c, n>>) /\ m \in Covered(c, n)

\* What EveryRequestEnds rests on: whoever is under way can take its next step,
\* or waits for the holder of the sequence row, who is in the middle of its
\* transaction and can; nobody waits for a finished transaction or in a circle.
CanGoOn(p) == job[p].at = "scan" \/ (job[p].at = "number" /\ LockFree(p)) \/ MayAnnounce(p)
NobodyBlocked ==
  \A p \in Procs : job[p].at # "idle" =>
    \/ CanGoOn(p)
    \/ \E q \in Procs : /\ holder[SeriesOf(p)] = q /\ SeriesOf(q) = SeriesOf(p)
                        /\ job[q].at # "announce" /\ CanGoOn(q)

\* Whoever starts a run or a document gets an answer.
EveryRequestEnds == \A p \in Procs : job[p].at # "idle" ~> job[p].at = "idle"
=============================================================================
