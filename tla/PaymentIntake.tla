------------------------------ MODULE PaymentIntake ------------------------------
(***************************************************************************)
(* Money that arrives from outside: bank statements that are matched with  *)
(* open invoices and committed row by row, payment links that are settled  *)
(* on the hosted page, and payments entered by hand                        *)
(* (apps/api/src/modules/billing: reconciliation.ts, links.ts,             *)
(* domain/match.ts, recordPayment and pay in service.ts).                  *)
(*                                                                         *)
(* Every booking is a chain of steps of one request: choose where the      *)
(* money goes, record the payment in a transaction of its own, mark the    *)
(* bank row or the link in a second statement.  A restart may fall between *)
(* any two of them.  Each invoice has a building of its own; fees, credit  *)
(* notes and due dates are InvoiceLedger's.                                *)
(***************************************************************************)
EXTENDS Integers, Sequences, FiniteSets

CONSTANTS
  Invoices,   \* invoices issued
  Total,      \* what each of them comes to
  Statement,  \* the rows of the bank file: [ref, amount, names], see below
  Links,      \* payment links that may be created
  Clerks,     \* office users
  Payers,     \* visitors of the hosted page
  NoInvoice,  \* "no invoice": unallocated money, an unmatched row
  MaxHand,    \* bound: matches, links and payments each clerk makes by hand
  MaxFaults   \* bound: restarts

\* A statement row: the invoice its reference names (or NoInvoice), the amount,
\* and the invoices whose customer's name is in its text.
Rows == DOMAIN Statement
Hand == 0  \* where a payment comes from that is neither a row's nor a link's
Sources == Rows \cup Links \cup {Hand}
Procs == Clerks \cup Payers

ASSUME IntakeAssumption ==
  /\ NoInvoice \notin Invoices
  /\ Total \in Nat \ {0}
  /\ Statement \in Seq([ref : Invoices \cup {NoInvoice}, amount : Nat \ {0},
                        names : SUBSET Invoices])
  /\ Links \cap Nat = {}
  /\ IsFiniteSet(Clerks) /\ IsFiniteSet(Payers) /\ Clerks \cap Payers = {}
  /\ MaxHand \in Nat /\ MaxFaults \in Nat

VARIABLES
  invoice,  \* paidCents and whether the status is an open one
  payments, \* the payment table: what the rows of each source add up to, those of an
            \* invoice and those without one
  import,   \* the bank_import: status, bookedCount, matchedCount
  row,      \* its rows: status, match kind, invoice, whether a building is set
  link,     \* the payment_link table: status, invoice, amount, past expiresAt
  job,      \* the request each person has in the server
  left,     \* requests by hand still to come
  lost,     \* history: restarts between a source's payment and its mark
  faults    \* restarts still to come

vars == <<invoice, payments, import, row, link, job, left, lost, faults>>

Idle == [at |-> "idle", for |-> "none", src |-> Hand, todo |-> {}, to |-> NoInvoice,
         amount |-> 0, paid |-> 0, booked |-> 0, committed |-> FALSE]
FreshRow == [status |-> "none", kind |-> "none", invoice |-> NoInvoice, building |-> FALSE]
NoPayment == [allocated |-> 0, unallocated |-> 0]
NoLink == [status |-> "none", invoice |-> NoInvoice, amount |-> 0, expired |-> FALSE]

Init ==
  /\ invoice = [i \in Invoices |-> [paid |-> 0, open |-> TRUE]]
  /\ payments = [s \in Sources |-> NoPayment]
  /\ import = [status |-> "none", booked |-> 0, matched |-> 0]
  /\ row = [r \in Rows |-> FreshRow]
  /\ link = [l \in Links |-> NoLink]
  /\ job = [p \in Procs |-> Idle]
  /\ left = [p \in Clerks |-> MaxHand]
  /\ lost = [s \in Sources |-> 0]
  /\ faults = MaxFaults

Become(p, next) == job' = [job EXCEPT ![p] = next]

\* openCentsOf
OpenCents(i) ==
  IF invoice[i].open /\ invoice[i].paid < Total THEN Total - invoice[i].paid ELSE 0
AsProposed(i) == i
OpenOr(i) == IF i # NoInvoice /\ OpenCents(i) > 0 THEN i ELSE NoInvoice

-----------------------------------------------------------------------------
(* The preview: domain/match.ts *)

OpenInvoices == {i \in Invoices : invoice[i].open}
ByReference(r) == Statement[r].ref \in OpenInvoices
ClaimedByReference == {Statement[r].ref : r \in {q \in Rows : ByReference(q)}}

\* The one open invoice of this amount whose customer is named and that no
\* other row has claimed.
Candidates(r, claimed) ==
  {i \in OpenInvoices \ claimed : OpenCents(i) = Statement[r].amount /\ i \in Statement[r].names}
ByName(r, claimed) ==
  IF ~ByReference(r) /\ Cardinality(Candidates(r, claimed)) = 1
  THEN Candidates(r, claimed) ELSE {}

Claimed ==
  LET after[n \in 0..Len(Statement)] ==
        IF n = 0 THEN ClaimedByReference ELSE after[n - 1] \cup ByName(n, after[n - 1])
  IN  after

MatchedRow(r) ==
  LET named == ByName(r, Claimed[r - 1])
      to == IF ByReference(r) THEN Statement[r].ref
            ELSE IF named # {} THEN CHOOSE i \in named : TRUE ELSE NoInvoice
  IN [status |-> IF to = NoInvoice THEN "unallocated" ELSE "proposed",
      kind |-> IF ByReference(r) THEN "reference" ELSE IF named # {} THEN "amount_name" ELSE "none",
      invoice |-> to, building |-> FALSE]

Proposed(rows) == {r \in Rows : rows[r].status \in {"proposed", "matched"}}

Preview ==
  /\ import.status = "none"
  /\ row' = [r \in Rows |-> MatchedRow(r)]
  /\ import' = [import EXCEPT !.status = "preview", !.matched = Cardinality(Proposed(row'))]
  /\ UNCHANGED <<invoice, payments, link, job, left, lost, faults>>

-----------------------------------------------------------------------------
(* Requests *)

ByHand(p) == left[p] > 0 /\ left' = [left EXCEPT ![p] = @ - 1]

\* commit: the rows and the status of the import are read once.
StartCommit(p) ==
  /\ job[p].at = "idle" /\ import.status = "preview"
  /\ Become(p, [Idle EXCEPT !.at = "next", !.for = "commit", !.todo = Proposed(row)])
  /\ UNCHANGED <<invoice, payments, import, row, link, left, lost, faults>>

First(todo) == CHOOSE r \in todo : \A q \in todo : r <= q

\* bookRow reads the row again and the invoice it points to.  An invoice that
\* is settled by now leaves the money on its building.
BookableOpenOnly(r) == row[r].status # "booked" /\ OpenOr(row[r].invoice) # NoInvoice
Bookable(r) ==
  /\ row[r].status \notin {"booked", "ignored"}
  /\ row[r].invoice # NoInvoice \/ row[r].building
BookRow(p, r, skip) ==
  Become(p, IF Bookable(r)
            THEN [job[p] EXCEPT !.at = "record", !.src = r, !.to = OpenOr(row[r].invoice),
                    !.amount = Statement[r].amount, !.todo = job[p].todo \ {r}]
            ELSE skip)

CommitNext(p) ==
  /\ job[p].at = "next" /\ job[p].todo # {}
  /\ BookRow(p, First(job[p].todo), [job[p] EXCEPT !.todo = @ \ {First(@)}])
  /\ UNCHANGED <<invoice, payments, import, row, link, left, lost, faults>>

CommitEnd(p) ==
  /\ job[p].at = "next" /\ job[p].todo = {}
  /\ import' = [import EXCEPT !.status = "committed", !.booked = job[p].booked]
  /\ Become(p, Idle)
  /\ UNCHANGED <<invoice, payments, row, link, left, lost, faults>>

\* matchRow: the import and the row are read and a booked row is refused; the
\* decision is one of ignore, an invoice, a building, or none of them.
StartMatch(p, r, what, i) ==
  /\ job[p].at = "idle" /\ import.status # "none" /\ row[r].status # "booked"
  /\ what = "invoice" <=> i # NoInvoice
  /\ ByHand(p)
  /\ Become(p, [Idle EXCEPT !.at = "match", !.for = what, !.src = r, !.to = i,
                            !.committed = (import.status = "committed")])
  /\ UNCHANGED <<invoice, payments, import, row, link, lost, faults>>

MatchWrite(p) ==
  LET j == job[p]
  IN /\ j.at = "match"
     /\ row' = [row EXCEPT ![j.src] =
          [status |-> CASE j.for = "ignore" -> "ignored" [] j.for = "clear" -> "unallocated"
                        [] OTHER -> "matched",
           kind |-> IF j.for = "clear" THEN "none" ELSE "manual",
           invoice |-> j.to, building |-> j.for \in {"invoice", "building"}]]
     /\ Become(p, [j EXCEPT !.at = IF j.committed /\ j.for \in {"invoice", "building"}
                                   THEN "book" ELSE "count"])
     /\ UNCHANGED <<invoice, payments, import, link, left, lost, faults>>

MatchBook(p) ==
  /\ job[p].at = "book"
  /\ BookRow(p, job[p].src, [job[p] EXCEPT !.at = "count"])
  /\ UNCHANGED <<invoice, payments, import, row, link, left, lost, faults>>

MatchCount(p) ==
  /\ job[p].at = "count"
  /\ import' = [import EXCEPT !.matched = Cardinality(Proposed(row))]
  /\ Become(p, Idle)
  /\ UNCHANGED <<invoice, payments, row, link, left, lost, faults>>

FreeLinks == Cardinality({l \in Links : link[l].status = "none"})
             - Cardinality({q \in Procs : job[q].at = "link"})

\* createPaymentLink: an open link of the same amount is handed out again.
StartLink(p, i) ==
  /\ job[p].at = "idle" /\ OpenCents(i) > 0 /\ FreeLinks > 0 /\ ByHand(p)
  /\ Become(p, IF \E l \in Links : link[l] = [status |-> "open", invoice |-> i,
                                              amount |-> OpenCents(i), expired |-> FALSE]
               THEN Idle
               ELSE [Idle EXCEPT !.at = "link", !.to = i, !.amount = OpenCents(i)])
  /\ UNCHANGED <<invoice, payments, import, row, link, lost, faults>>

CreateLink(p, l) ==
  /\ job[p].at = "link" /\ link[l].status = "none"
  /\ link' = [link EXCEPT ![l] = [status |-> "open", invoice |-> job[p].to,
                                  amount |-> job[p].amount, expired |-> FALSE]]
  /\ Become(p, Idle)
  /\ UNCHANGED <<invoice, payments, import, row, left, lost, faults>>

\* Thirty days later.
Expire(l) ==
  /\ link[l].status # "none" /\ ~link[l].expired
  /\ link' = [link EXCEPT ![l].expired = TRUE]
  /\ UNCHANGED <<invoice, payments, import, row, job, left, lost, faults>>

\* settleDemoLink: a paid link answers with its payment; otherwise the invoice
\* is read to see whether the money still belongs to it.
ReceivedFrom(s) == payments[s].allocated + payments[s].unallocated
HasPayment(s) == ReceivedFrom(s) > 0  \* nobody books nothing
NeverPaid(l) == FALSE
Paid(l) == link[l].status = "paid" /\ HasPayment(l)
StartSettle(p, l) ==
  /\ job[p].at = "idle" /\ link[l].status # "none" /\ ~link[l].expired
  /\ ~Paid(l)
  /\ Become(p, [Idle EXCEPT !.at = "record", !.for = "link", !.src = l,
                            !.to = OpenOr(link[l].invoice), !.amount = link[l].amount])
  /\ UNCHANGED <<invoice, payments, import, row, link, left, lost, faults>>

\* pay: the open balance of an invoice, entered by hand.
StartPay(p, i) ==
  /\ job[p].at = "idle" /\ OpenCents(i) > 0 /\ ByHand(p)
  /\ Become(p, [Idle EXCEPT !.at = "record", !.for = "hand", !.to = i, !.amount = OpenCents(i)])
  /\ UNCHANGED <<invoice, payments, import, row, link, lost, faults>>

-----------------------------------------------------------------------------
(* recordPayment *)

\* The invoice is read; one that has been settled meanwhile is refused, and
\* with it the request.
Record(p) ==
  LET j == job[p]
  IN /\ j.at = "record"
     /\ Become(p, IF j.to = NoInvoice THEN [j EXCEPT !.at = "write"]
                  ELSE IF ~invoice[j.to].open THEN Idle
                  ELSE [j EXCEPT !.at = "write", !.paid = invoice[j.to].paid])
     /\ UNCHANGED <<invoice, payments, import, row, link, left, lost, faults>>

Payment(allocated, rest) == [allocated |-> allocated, unallocated |-> rest]

Allocated(j) == IF j.amount <= Total - j.paid THEN j.amount ELSE Total - j.paid
NoRest(j) == 0
Rest(j) == j.amount - Allocated(j)
BookingOpenOnly(j) == IF j.to = NoInvoice THEN NoPayment ELSE Payment(Allocated(j), 0)
Booking(j) == IF j.to = NoInvoice THEN Payment(0, j.amount)
              ELSE Payment(Allocated(j), Rest(j))

AfterPayment(j) ==
  CASE j.for = "commit" -> [j EXCEPT !.at = "mark", !.booked = @ + 1]
    [] j.for = "hand" -> Idle
    [] OTHER -> [j EXCEPT !.at = "mark"]

Write(p) ==
  LET j == job[p]
  IN /\ j.at = "write"
     /\ payments' = [payments EXCEPT ![j.src] =
          Payment(@.allocated + Booking(j).allocated, @.unallocated + Booking(j).unallocated)]
     /\ invoice' = IF j.to = NoInvoice THEN invoice
                   ELSE [invoice EXCEPT ![j.to] =
                           [paid |-> j.paid + Allocated(j), open |-> j.paid + Allocated(j) < Total]]
     /\ Become(p, AfterPayment(j))
     /\ UNCHANGED <<import, row, link, left, lost, faults>>

\* The second statement: the row is booked, or the link paid.
MarkRow(p) ==
  LET j == job[p]
  IN /\ j.at = "mark" /\ j.for # "link"
     /\ row' = [row EXCEPT ![j.src].status = "booked", ![j.src].invoice = j.to,
                           ![j.src].building = TRUE]
     /\ Become(p, [j EXCEPT !.at = IF j.for = "commit" THEN "next" ELSE "count"])
     /\ UNCHANGED <<invoice, payments, import, link, left, lost, faults>>

MarkLink(p) ==
  /\ job[p].at = "mark" /\ job[p].for = "link"
  /\ link' = [link EXCEPT ![job[p].src].status = "paid"]
  /\ Become(p, Idle)
  /\ UNCHANGED <<invoice, payments, import, row, left, lost, faults>>

\* The API restarts: whatever is in the server ends where it is.
Restart ==
  /\ faults > 0 /\ \E p \in Procs : job[p].at # "idle"
  /\ faults' = faults - 1
  /\ job' = [p \in Procs |-> Idle]
  /\ lost' = [s \in Sources |->
       lost[s] + Cardinality({p \in Procs : job[p].at = "mark" /\ job[p].src = s})]
  /\ UNCHANGED <<invoice, payments, import, row, link, left>>

-----------------------------------------------------------------------------
Start(p) ==
  \/ p \in Clerks /\ StartCommit(p)
  \/ p \in Clerks /\ \E i \in Invoices : StartPay(p, i) \/ StartLink(p, i)
  \/ p \in Clerks /\ \E r \in Rows, what \in {"ignore", "invoice", "building", "clear"},
                        i \in Invoices \cup {NoInvoice} : StartMatch(p, r, what, i)
  \/ p \in Payers /\ \E l \in Links : StartSettle(p, l)

Step(p) ==
  \/ CommitNext(p) \/ CommitEnd(p)
  \/ MatchWrite(p) \/ MatchBook(p) \/ MatchCount(p)
  \/ \E l \in Links : CreateLink(p, l)
  \/ Record(p) \/ Write(p) \/ MarkRow(p) \/ MarkLink(p)

Next ==
  \/ Preview
  \/ \E p \in Procs : Start(p) \/ Step(p)
  \/ \E l \in Links : Expire(l)
  \/ Restart

Spec == Init /\ [][Next]_vars

\* A request that has been taken in goes on to its end.  The office commits an
\* import again for as long as it is not committed.
Fairness ==
  /\ \A p \in Procs : WF_vars(Step(p))
  /\ \A p \in Clerks : WF_vars(StartCommit(p))
FairSpec == Spec /\ Fairness

-----------------------------------------------------------------------------
(* Properties *)

Money == Nat
Places == Invoices \cup {NoInvoice}
RowType == [status : {"none", "proposed", "matched", "unallocated", "booked", "ignored"},
            kind : {"none", "reference", "amount_name", "manual"},
            invoice : Places, building : BOOLEAN]
LinkType == [status : {"none", "open", "paid"}, invoice : Places, amount : Money,
             expired : BOOLEAN]
JobType ==
  [at : {"idle", "next", "match", "book", "count", "link", "record", "write", "mark"},
   for : {"none", "commit", "ignore", "invoice", "building", "clear", "link", "hand"},
   src : Sources, todo : SUBSET Rows, to : Places, amount : Money, paid : 0..Total,
   booked : Nat, committed : BOOLEAN]

\* Every variable keeps its shape: no payment is negative and no invoice is
\* paid beyond its total.
TypeOK ==
  /\ invoice \in [Invoices -> [paid : 0..Total, open : BOOLEAN]]
  /\ payments \in [Sources -> [allocated : Money, unallocated : Money]]
  /\ import \in [status : {"none", "preview", "committed"}, booked : Nat, matched : Nat]
  /\ row \in [Rows -> RowType]
  /\ link \in [Links -> LinkType]
  /\ job \in [Procs -> JobType]
  /\ left \in [Clerks -> 0..MaxHand]
  /\ lost \in [Sources -> Nat]
  /\ faults \in 0..MaxFaults

\* A booked row and a paid link have their payment in the ledger, wherever a
\* restart fell and whoever marked them.
SettledHasPayment ==
  /\ \A r \in Rows : row[r].status = "booked" => HasPayment(r)
  /\ \A l \in Links : link[l].status = "paid" => HasPayment(l)

\* A committed import leaves no proposal behind, also when its invoice was
\* settled by somebody else after the preview or an earlier commit broke off.
NothingLeftProposed ==
  import.status = "committed" => \A r \in Rows : row[r].status # "proposed"

AmountOf(s) == IF s \in Links THEN link[s].amount ELSE Statement[s].amount

\* The payments of a row or a link add up to its amount once for each time it
\* was booked: what the invoice no longer takes is kept for the building.
MoneyIsKept ==
  \A s \in Rows \cup Links : HasPayment(s) => ReceivedFrom(s) % AmountOf(s) = 0

\* One clerk and one payer: the same money is booked again only after a restart
\* between its payment and its mark.
BookedOnce == \A s \in Rows \cup Links : ReceivedFrom(s) <= AmountOf(s) * (1 + lost[s])

\* Every proposal is booked in the end, or somebody decides otherwise: an
\* invoice settled meanwhile cannot make the commit fail for ever.
ProposalsAreBooked ==
  \A r \in Rows : row[r].status = "proposed" ~> row[r].status # "proposed"
=============================================================================
