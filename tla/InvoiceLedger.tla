------------------------------ MODULE InvoiceLedger ------------------------------
(***************************************************************************)
(* The balance of issued invoices: payments, credit notes, the overdue     *)
(* roll and the dunning run (apps/api/src/modules/billing/service.ts,      *)
(* dunning.ts, repo/billing.ts).                                           *)
(*                                                                         *)
(* Every command reads the invoice row outside the transaction that later  *)
(* writes it, and writes absolute values computed from what it read, so a  *)
(* command is a chain of steps and `job` holds what it has read so far.    *)
(* Postgres runs READ COMMITTED: a single statement or a transaction that  *)
(* only writes is one step.  Amounts are cents in the code and small       *)
(* integers here; days are integers (Europe/Sofia dates in the code).      *)
(***************************************************************************)
EXTENDS Integers, Sequences, FiniteSets

CONSTANTS
  Invoices,    \* ids of issued invoices of one tenant
  NoInvoice,   \* "no invoice chosen yet"
  Office,      \* whoever books payments and credit notes: staff, bank import, provider
  Dunners,     \* callers of runDunning: the daily cron, the admin's "run now"
  Rollers,     \* callers of rollStatuses that only read: pages and the daily roll job
  Total,       \* totalCents of every invoice
  DueDay,      \* dueAt of every invoice
  LastDay,     \* bound: the clock stops here
  Amounts,     \* amounts a person may enter
  StageOffset, \* offsetDays of the active stages, by position
  StageFee,    \* flat fee of the stage's enabled late-fee rule, 0 when it has none
  GraceDays,   \* graceDays of the rules
  FeeCap,      \* capCents of the rules
  MaxOps,      \* bound: commands each office actor or dunner issues
  MayFail      \* whether a request can die between two of its steps

Stages == DOMAIN StageOffset
Purposes == Invoices \cup {NoInvoice}  \* what a payment can be for
Actors == Office \cup Dunners \cup Rollers

ASSUME LedgerAssumption ==
  /\ NoInvoice \notin Invoices
  /\ Total \in Nat /\ DueDay \in Nat /\ LastDay \in Nat
  /\ Amounts \subseteq Nat \ {0}
  /\ StageOffset \in Seq(Int) /\ StageFee \in Seq(Nat)
  /\ Len(StageFee) = Len(StageOffset)
  /\ GraceDays \in Nat /\ FeeCap \in Nat
  /\ MaxOps \in Nat /\ MayFail \in BOOLEAN
  /\ Office \cap Dunners = {}
  /\ Office \cap Rollers = {}
  /\ Dunners \cap Rollers = {}

VARIABLES
  today,       \* the date every process sees
  invoice,     \* the invoice table: status, denormalised sums, dunning stage
  entries,     \* what the payment, credit_note and invoice_adjustment rows add up to
  unallocated, \* payment rows without an invoice, by the invoice their note says
               \* they are an over-payment of, or NoInvoice
  received,    \* history: money the callers of recordPayment booked, by invoice
  noticeSent,  \* DunningStageReached events per invoice and stage
  job,         \* the command each actor is executing
  left         \* commands each actor may still issue

vars == <<today, invoice, entries, unallocated, received,
          noticeSent, job, left>>
money == <<unallocated, received>>

-----------------------------------------------------------------------------
(* Invoice rows and the pure functions of domain/states.ts, domain/dunning.ts *)

OpenStatuses == {"issued", "partially_paid", "overdue"}
Statuses == OpenStatuses \cup {"paid"}
Row == [status : Statuses, paid : Nat, credited : Nat, lateFee : Nat, stage : Nat]
NewRow == [status |-> "issued", paid |-> 0, credited |-> 0, lateFee |-> 0, stage |-> 0]

Smaller(a, b) == IF a <= b THEN a ELSE b
Positive(a) == IF a > 0 THEN a ELSE 0

IsOpen(row) == row.status \in OpenStatuses
Balance(row) == Total + row.lateFee - row.credited - row.paid
OpenCents(row) == IF IsOpen(row) THEN Positive(Balance(row)) ELSE 0

StatusAfter(row, day) ==
  IF ~IsOpen(row) THEN row.status
  ELSE IF Balance(row) <= 0 THEN "paid"
  ELSE IF DueDay < day THEN "overdue"
  ELSE IF row.paid > 0 THEN "partially_paid"
  ELSE "issued"

DueStages(row, day) ==
  {k \in Stages : OpenCents(row) > 0 /\ k > row.stage /\ DueDay + StageOffset[k] <= day}
NextStage(row, day) ==   \* the latest of them, if there is one
  {k \in DueStages(row, day) : \A l \in DueStages(row, day) : l <= k}

LateFeeFor(k, row, day) ==
  IF DueDay + GraceDays > day THEN 0
  ELSE Smaller(StageFee[k], Positive(FeeCap - row.lateFee))

-----------------------------------------------------------------------------
(* Commands *)

Idle == [at |-> "idle", kind |-> "none", asOf |-> 0, inv |-> NoInvoice,
         amount |-> 0, snap |-> [i \in Invoices |-> NewRow], todo |-> {},
         stage |-> 0, fee |-> 0]

Init ==
  /\ today = 0
  /\ invoice = [i \in Invoices |-> NewRow]
  /\ entries = [i \in Invoices |->
                  [paid |-> 0, credited |-> 0, fees |-> [k \in Stages |-> 0], feeCents |-> 0]]
  /\ unallocated = [i \in Purposes |-> 0]
  /\ received = [i \in Purposes |-> 0]
  /\ noticeSent = [i \in Invoices |-> [k \in Stages |-> 0]]
  /\ job = [p \in Actors |-> Idle]
  /\ left = [p \in Actors |-> MaxOps]

Become(p, next) == job' = [job EXCEPT ![p] = next]

Kinds(p) == IF p \in Office THEN {"pay", "credit"}
            ELSE IF p \in Dunners THEN {"dunning"} ELSE {"view"}

PastDueIssuedOnly == {i \in Invoices : invoice[i].status = "issued" /\ DueDay < today}
PastDue ==
  {i \in Invoices : invoice[i].status \in {"issued", "partially_paid"} /\ DueDay < today}

\* Every command begins with rollStatuses: one atomic UPDATE.  runDunning has
\* already taken its date (a default parameter).
Begin(p, kind) ==
  /\ job[p].at = "idle"
  /\ kind \in Kinds(p)
  /\ p \in Rollers \/ left[p] > 0
  /\ left' = IF p \in Rollers THEN left ELSE [left EXCEPT ![p] = @ - 1]
  /\ invoice' = [i \in Invoices |-> IF i \in PastDue
                                    THEN [invoice[i] EXCEPT !.status = "overdue"]
                                    ELSE invoice[i]]
  /\ Become(p, [Idle EXCEPT !.at = "rolled", !.kind = kind, !.asOf = today])
  /\ UNCHANGED <<today, entries, money, noticeSent>>

\* ... then one InvoiceOverdue per row that changed, after the UPDATE.
AnnounceOverdue(p) ==
  /\ job[p].at = "rolled"
  /\ Become(p, IF job[p].kind = "view" THEN Idle
               ELSE [job[p] EXCEPT !.at = "ready",
                       !.asOf = IF job[p].kind = "dunning" THEN @ ELSE today])
  /\ UNCHANGED <<today, invoice, entries, money, noticeSent, left>>

(* recordPayment *)

\* findInvoice and the guards, outside the transaction.
ReadForPayment(p, i, amount) ==
  /\ job[p].at = "ready" /\ job[p].kind = "pay"
  /\ Become(p, IF IsOpen(invoice[i])
               THEN [job[p] EXCEPT !.at = "booking", !.inv = i, !.amount = amount,
                                   !.snap = [@ EXCEPT ![i] = invoice[i]]]
               ELSE Idle)   \* 409 billing.invoiceNotOpen
  /\ UNCHANGED <<today, invoice, entries, money, noticeSent, left>>

\* The part that settles the invoice as it was read, and the part above it.
Allocated(p) == Smaller(job[p].amount, OpenCents(job[p].snap[job[p].inv]))
RemainderLost(p) == 0
Remainder(p) == job[p].amount - Allocated(p)
PaidWithRemainder(p) == job[p].snap[job[p].inv].paid + job[p].amount
PaidAfter(p) == job[p].snap[job[p].inv].paid + Allocated(p)

\* The transaction: the payment row, the invoice's new absolute paidCents and
\* status, and the part above the open balance as a row without an invoice.
CommitPayment(p) ==
  /\ job[p].at = "booking" /\ job[p].kind = "pay"
  /\ LET i   == job[p].inv
         row == [job[p].snap[i] EXCEPT !.paid = PaidAfter(p)]
     IN /\ entries' = [entries EXCEPT ![i].paid = @ + Allocated(p)]
        /\ invoice' = [invoice EXCEPT ![i].paid = row.paid,
                                      ![i].status = StatusAfter(row, job[p].asOf)]
        /\ unallocated' = [unallocated EXCEPT ![i] = @ + Remainder(p)]
        /\ received' = [received EXCEPT ![i] = @ + job[p].amount]
  /\ Become(p, [job[p] EXCEPT !.at = "booked"])
  /\ UNCHANGED <<today, noticeSent, left>>

\* recordPayment without an invoice: one row of the building.
RecordUnallocated(p, amount) ==
  /\ job[p].at = "ready" /\ job[p].kind = "pay"
  /\ unallocated' = [unallocated EXCEPT ![NoInvoice] = @ + amount]
  /\ received' = [received EXCEPT ![NoInvoice] = @ + amount]
  /\ Become(p, Idle)
  /\ UNCHANGED <<today, invoice, entries, noticeSent, left>>

(* issueCreditNote *)

\* findInvoice and the guards; the date is taken after the read.
ReadForCredit(p, i, amount) ==
  /\ job[p].at = "ready" /\ job[p].kind = "credit"
  /\ Become(p, IF IsOpen(invoice[i]) /\ amount <= OpenCents(invoice[i])
               THEN [job[p] EXCEPT !.at = "booking", !.inv = i, !.amount = amount,
                                   !.asOf = today, !.snap = [@ EXCEPT ![i] = invoice[i]]]
               ELSE Idle)   \* 409 billing.invoiceNotOpen, 400 billing.creditExceedsOpen
  /\ UNCHANGED <<today, invoice, entries, money, noticeSent, left>>

\* The transaction: the credit note (numbered, see Issuing) and the invoice's
\* new absolute creditedCents and status.
CreditedForgetsEarlier(p) == job[p].amount
Credited(p) == job[p].snap[job[p].inv].credited + job[p].amount

CommitCredit(p) ==
  /\ job[p].at = "booking" /\ job[p].kind = "credit"
  /\ LET i   == job[p].inv
         row == [job[p].snap[i] EXCEPT !.credited = Credited(p)]
     IN /\ entries' = [entries EXCEPT ![i].credited = @ + job[p].amount]
        /\ invoice' = [invoice EXCEPT ![i].credited = row.credited,
                                      ![i].status = StatusAfter(row, job[p].asOf)]
  /\ Become(p, [job[p] EXCEPT !.at = "booked"])
  /\ UNCHANGED <<today, money, noticeSent, left>>

\* PaymentRecorded / CreditNoteIssued, published after the commit.
AnnounceEntry(p) ==
  /\ job[p].at = "booked"
  /\ Become(p, Idle)
  /\ UNCHANGED <<today, invoice, entries, money, noticeSent, left>>

(* runDunning *)

\* openInvoices: every open row, read once, before the loop.
ListOpen(p) ==
  /\ job[p].at = "ready" /\ job[p].kind = "dunning"
  /\ Become(p, [job[p] EXCEPT !.at = "loop", !.snap = invoice,
                              !.todo = {i \in Invoices : IsOpen(invoice[i])}])
  /\ UNCHANGED <<today, invoice, entries, money, noticeSent, left>>

\* One turn of the loop up to the first write: nextStage and lateFeeFor on the
\* row as it was listed, then adjustmentForStage on the table as it is now.
FeeExistsUnchecked(i, k) == FALSE
FeeExists(i, k) == entries[i].fees[k] > 0

PickStage(p, i) ==
  /\ job[p].at = "loop" /\ i \in job[p].todo
  /\ LET row == job[p].snap[i]
         day == job[p].asOf
         rest == job[p].todo \ {i}
     IN \/ /\ NextStage(row, day) = {}
           /\ Become(p, [job[p] EXCEPT !.todo = rest])
        \/ \E k \in NextStage(row, day) :
             Become(p, IF LateFeeFor(k, row, day) > 0 /\ ~FeeExists(i, k)
                       THEN [job[p] EXCEPT !.at = "fee", !.inv = i, !.stage = k,
                               !.fee = LateFeeFor(k, row, day), !.todo = rest]
                       ELSE [job[p] EXCEPT !.at = "stage", !.inv = i, !.stage = k,
                               !.fee = 0, !.todo = rest])
  /\ UNCHANGED <<today, invoice, entries, money, noticeSent, left>>

\* applyLateFee's transaction: the adjustment and the absolute lateFeeCents;
\* the status is not recomputed.
FeeAfter(p) == job[p].snap[job[p].inv].lateFee + job[p].fee

FeesAfter(p) == [entries[job[p].inv].fees EXCEPT ![job[p].stage] = @ + 1]
Charged(p) == [entries[job[p].inv] EXCEPT !.fees = FeesAfter(p), !.feeCents = @ + job[p].fee]

CommitLateFee(p) ==
  /\ job[p].at = "fee"
  /\ entries' = [entries EXCEPT ![job[p].inv] = Charged(p)]
  /\ invoice' = [invoice EXCEPT ![job[p].inv].lateFee = FeeAfter(p)]
  /\ Become(p, [job[p] EXCEPT !.at = "stage"])
  /\ UNCHANGED <<today, money, noticeSent, left>>

\* The stage counter, in a statement of its own.
CommitStage(p) ==
  /\ job[p].at = "stage"
  /\ invoice' = [invoice EXCEPT ![job[p].inv].stage = job[p].stage]
  /\ Become(p, [job[p] EXCEPT !.at = "notice"])
  /\ UNCHANGED <<today, entries, money, noticeSent, left>>

AnnounceStage(p) ==
  /\ job[p].at = "notice"
  /\ noticeSent' = [noticeSent EXCEPT ![job[p].inv][job[p].stage] = @ + 1]
  /\ Become(p, [job[p] EXCEPT !.at = "loop", !.inv = NoInvoice, !.stage = 0, !.fee = 0])
  /\ UNCHANGED <<today, invoice, entries, money, left>>

FinishRun(p) ==
  /\ job[p].at = "loop" /\ job[p].todo = {}
  /\ Become(p, Idle)
  /\ UNCHANGED <<today, invoice, entries, money, noticeSent, left>>

(* Surroundings *)

\* A request that dies (restart, lost connection) keeps what it committed.
Fail(p) ==
  /\ MayFail /\ job[p].at # "idle"
  /\ Become(p, Idle)
  /\ UNCHANGED <<today, invoice, entries, money, noticeSent, left>>

Tick ==
  /\ today < LastDay
  /\ today' = today + 1
  /\ UNCHANGED <<invoice, entries, money, noticeSent, job, left>>

OfficeStep(p) ==
  \/ \E i \in Invoices, amount \in Amounts : ReadForPayment(p, i, amount)
  \/ \E amount \in Amounts : RecordUnallocated(p, amount)
  \/ \E i \in Invoices, amount \in Amounts : ReadForCredit(p, i, amount)
  \/ CommitPayment(p) \/ CommitCredit(p) \/ AnnounceEntry(p)

DunningStep(p) ==
  \/ ListOpen(p) \/ (\E i \in Invoices : PickStage(p, i))
  \/ CommitLateFee(p) \/ CommitStage(p) \/ AnnounceStage(p) \/ FinishRun(p)

Next ==
  \/ \E p \in Actors :
       \/ \E kind \in Kinds(p) : Begin(p, kind)
       \/ AnnounceOverdue(p)
       \/ Fail(p)
  \/ \E p \in Office : OfficeStep(p)
  \/ \E p \in Dunners : DunningStep(p)
  \/ Tick

Spec == Init /\ [][Next]_vars

\* The daily roll job and the pages it shares rollStatuses with keep coming.
Fairness == \A p \in Rollers : WF_vars(Begin(p, "view")) /\ WF_vars(AnnounceOverdue(p))
FairSpec == Spec /\ Fairness

-----------------------------------------------------------------------------
(* Properties *)

Entry == [paid : Nat, credited : Nat, fees : [Stages -> Nat], feeCents : Nat]
Places == {"idle", "rolled", "ready", "booking", "booked", "loop", "fee", "stage", "notice"}
Job == [at : Places, kind : {"none", "pay", "credit", "dunning", "view"}, asOf : Nat,
        inv : Invoices \cup {NoInvoice}, amount : Nat,
        snap : [Invoices -> Row], todo : SUBSET Invoices, stage : Nat, fee : Nat]

\* Every variable keeps its shape.
TypeOK ==
  /\ today \in Nat
  /\ invoice \in [Invoices -> Row]
  /\ entries \in [Invoices -> Entry]
  /\ unallocated \in [Purposes -> Nat] /\ received \in [Purposes -> Nat]
  /\ noticeSent \in [Invoices -> [Stages -> Nat]]
  /\ job \in [Actors -> Job]
  /\ left \in [Actors -> Nat]

\* The denormalised sums of an invoice never exceed the rows they summarise,
\* however the stale reads of concurrent commands interleave: a lost update
\* makes a customer owe too much, never too little.
SumsNeverOverstate ==
  \A i \in Invoices :
    /\ invoice[i].paid <= entries[i].paid
    /\ invoice[i].credited <= entries[i].credited
    /\ invoice[i].lateFee <= entries[i].feeCents

\* All the money callers of recordPayment book is in payment rows: what an
\* invoice could not absorb is kept as an unallocated payment.
RowsHoldTheMoney ==
  /\ \A i \in Invoices : received[i] = entries[i].paid + unallocated[i]
  /\ received[NoInvoice] = unallocated[NoInvoice]

\* The rows hold all the money that came in, and an invoice is closed only when
\* what came in for it, without what is kept for the building, and its credit
\* notes pay its total, also when several people settle it from old reads.
MoneyIsKept ==
  /\ RowsHoldTheMoney
  /\ \A i \in Invoices :
       invoice[i].status = "paid" => received[i] - unallocated[i] + entries[i].credited >= Total

\* paidCents, creditedCents and lateFeeCents are the sums of the invoice's
\* payments, credit notes and adjustments.  True with one writer per kind of
\* command, whatever page reads, rolls and failures interleave.
BooksAgree ==
  \A i \in Invoices :
    /\ invoice[i].paid = entries[i].paid
    /\ invoice[i].credited = entries[i].credited
    /\ invoice[i].lateFee = entries[i].feeCents

\* A stage acts once: however often a run fails half way and is repeated, an
\* invoice is charged at most one fee per stage, and its customer is sent at most
\* one notice, for a stage the invoice has reached.
StagesActOnce ==
  \A i \in Invoices, k \in Stages :
    /\ entries[i].fees[k] <= 1
    /\ noticeSent[i][k] <= 1
    /\ noticeSent[i][k] > 0 => k <= invoice[i].stage

\* No invoice is closed while part of its total is owed: payments and credit
\* notes cover it, however the writes of concurrent commands interleave.
PaidIsCovered ==
  \A i \in Invoices : invoice[i].status = "paid" => entries[i].paid + entries[i].credited >= Total

\* With one office user a paid invoice stays paid (states.ts; a second booking
\* from an old read would reopen it), whatever dunning, rolls and failures do.
NotReopened == \A i \in Invoices : invoice[i].status = "paid" => invoice'[i].status = "paid"
PaidStaysPaid == [][NotReopened]_vars

\* An open invoice past its due day is eventually marked overdue or settled.
PastDueIsRolled ==
  \A i \in Invoices :
    (invoice[i].status \in {"issued", "partially_paid"} /\ DueDay < today)
      ~> (invoice[i].status \notin {"issued", "partially_paid"})
=============================================================================
