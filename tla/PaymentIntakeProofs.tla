--------------------------- MODULE PaymentIntakeProofs ---------------------------
(***************************************************************************)
(* Proofs about PaymentIntake, for any statement and any number of         *)
(* invoices, links, clerks, payers and restarts: what counts as settled    *)
(* has its payment, and a committed import has no proposal left.           *)
(***************************************************************************)
EXTENDS PaymentIntake, FiniteSetTheorems, TLAPS

Ats == {"idle", "next", "match", "book", "count", "link", "record", "write", "mark"}
OfCommit == {"next", "record", "write", "mark"}

\* A request about to mark a row or a link has recorded the payment.
PaidIn(s, table) == table[s].allocated + table[s].unallocated > 0
MarksArePaid == \A p \in Procs : job[p].at = "mark" => PaidIn(job[p].src, payments)

\* A proposal says where the money goes.
ProposalsNamed == \A r \in Rows : row[r].status = "proposed" => row[r].invoice # NoInvoice

\* A commit in the server still has every proposal before it, or in hand.
Covers(J, rows) ==
  J.for = "commit" =>
    /\ J.at \in OfCommit
    /\ \A r \in Rows : rows[r].status = "proposed" => r \in J.todo \/ (J.at # "next" /\ r = J.src)
CommitsCover ==
  \A p \in Procs : Covers(job[p], row) /\ (job[p].for = "commit" => import.status # "none")

\* Only a commit goes on to a next row, only a row is matched, and nobody books
\* or asks for nothing.
Placed(J) ==
  /\ J.at = "next" => J.for = "commit"
  /\ J.at \in {"match", "book"} => J.src \in Rows /\ J.for \notin {"link", "hand"}
  /\ J.at \in {"link", "record", "write"} => J.amount > 0
JobsPlaced == \A p \in Procs : Placed(job[p])

\* A booking is of a row, of a link that exists, or by hand, and of its amount.
Stands(J, links) ==
  /\ J.for = "link" =>
       J.src \in Links /\ links[J.src].status # "none" /\ J.amount = links[J.src].amount
  /\ J.for = "hand" => J.src = Hand
  /\ J.for \notin {"link", "hand"} /\ J.at \in {"record", "write", "mark"} =>
       J.src \in Rows /\ J.amount = Statement[J.src].amount
JobsStand == \A p \in Procs : Stands(job[p], link)
LinksPriced == \A l \in Links : link[l].status # "none" => link[l].amount > 0

IInv == TypeOK /\ SettledHasPayment /\ MarksArePaid /\ ProposalsNamed /\ CommitsCover
        /\ JobsPlaced /\ JobsStand /\ LinksPriced /\ NothingLeftProposed

-----------------------------------------------------------------------------
(* What the helpers return *)

LEMMA RowsAre == Rows \subseteq Nat /\ IsFiniteSet(Rows) /\ Hand \notin Rows
<1>1. Rows = 1..Len(Statement) /\ Len(Statement) \in Nat
  BY IntakeAssumption DEF Rows
<1>2. IsFiniteSet(1..Len(Statement))
  BY <1>1, FS_Interval
<1>3. QED
  BY <1>1, <1>2 DEF Hand

LEMMA RowsTyped ==
  ASSUME NEW r \in Rows
  PROVE  /\ Statement[r].ref \in Places /\ Statement[r].amount \in Nat
         /\ Statement[r].amount # 0 /\ Statement[r].names \subseteq Invoices
<1> DEFINE R == [ref : Invoices \cup {NoInvoice}, amount : Nat \ {0}, names : SUBSET Invoices]
<1>1. Statement \in Seq(R)
  BY IntakeAssumption
<1> HIDE DEF R
<1>2. Statement[r] \in R
  BY <1>1 DEF Rows
<1>3. QED
  BY <1>2 DEF R, Places

\* The smallest row of a list is in it.
LEMMA FirstIsIn == ASSUME NEW todo \in SUBSET Rows, todo # {} PROVE First(todo) \in todo
<1>1. todo \subseteq Nat
  BY RowsAre
<1>2. PICK x \in todo : \A y \in todo : ~ (<<y, x>> \in OpToRel(<, Nat))
  BY <1>1, WFMin, NatLessThanWellFounded
<1>3. \A y \in todo : ~ (y < x)
  BY <1>1, <1>2 DEF OpToRel
<1>4. \A y \in todo : x <= y
  BY <1>1, <1>3
<1>5. QED
  BY <1>4 DEF First

LEMMA CountType == ASSUME NEW S \in SUBSET Rows PROVE Cardinality(S) \in Nat
BY RowsAre, FS_Subset, FS_CardinalityType

LEMMA ProposedIn == \A rows : Proposed(rows) \subseteq Rows
BY DEF Proposed

\* Idle, a fresh row and no link have their types.
LEMMA StartTypes ==
  Idle \in JobType /\ FreshRow \in RowType /\ NoLink \in LinkType /\ NoInvoice \in Places
BY IntakeAssumption DEF Idle, JobType, Sources, Places, Money, FreshRow, RowType, NoLink, LinkType

LEMMA OpenCentsType ==
  ASSUME TypeOK, NEW i \in Invoices PROVE OpenCents(i) \in Nat
<1>1. invoice[i].paid \in 0..Total /\ Total \in Nat
  BY IntakeAssumption DEF TypeOK
<1>2. QED
  BY <1>1 DEF OpenCents

LEMMA OpenOrType == ASSUME NEW i \in Places PROVE OpenOr(i) \in Places
BY DEF OpenOr, Places

\* What the preview makes of a row.
LEMMA MatchedRowType ==
  ASSUME NEW r \in Rows
  PROVE  /\ MatchedRow(r) \in RowType
         /\ MatchedRow(r).status # "booked"
         /\ MatchedRow(r).status = "proposed" => MatchedRow(r).invoice # NoInvoice
<1> DEFINE named == ByName(r, Claimed[r - 1])
           to == IF ByReference(r) THEN Statement[r].ref
                 ELSE IF named # {} THEN CHOOSE i \in named : TRUE ELSE NoInvoice
<1>1. named \subseteq Invoices
  BY DEF ByName, Candidates, OpenInvoices
<1>2. to \in Places
  <2>1. named # {} => (CHOOSE i \in named : TRUE) \in named
    OBVIOUS
  <2> HIDE DEF named
  <2>2. QED
    BY <1>1, <2>1, RowsTyped, StartTypes DEF Places
<1>3. MatchedRow(r) =
        [status |-> IF to = NoInvoice THEN "unallocated" ELSE "proposed",
         kind |-> IF ByReference(r) THEN "reference"
                  ELSE IF named # {} THEN "amount_name" ELSE "none",
         invoice |-> to, building |-> FALSE]
  BY DEF MatchedRow
<1> HIDE DEF named, to
<1>4. QED
  BY <1>2, <1>3 DEF RowType

\* A booking is the whole amount, divided.
LEMMA BookingType ==
  ASSUME TypeOK, NEW j \in JobType
  PROVE  /\ Allocated(j) \in Nat /\ Allocated(j) <= Total - j.paid
         /\ Booking(j).allocated \in Nat /\ Booking(j).unallocated \in Nat
         /\ Booking(j).allocated + Booking(j).unallocated = j.amount
<1>1. j.amount \in Nat /\ j.paid \in 0..Total
  BY DEF JobType, Money
<1>2. Allocated(j) \in Nat /\ Allocated(j) <= Total - j.paid /\ Allocated(j) <= j.amount
  BY <1>1, IntakeAssumption DEF Allocated
<1>3. Rest(j) \in Nat /\ Allocated(j) + Rest(j) = j.amount
  BY <1>1, <1>2 DEF Rest
<1>4. QED
  BY <1>1, <1>2, <1>3 DEF Booking, Payment

-----------------------------------------------------------------------------
LEMMA InitHolds == Init => IInv
<1> SUFFICES ASSUME Init PROVE IInv
  OBVIOUS
<1>1. /\ invoice \in [Invoices -> [paid : 0..Total, open : BOOLEAN]]
      /\ payments \in [Sources -> [allocated : Money, unallocated : Money]]
      /\ import \in [status : {"none", "preview", "committed"}, booked : Nat, matched : Nat]
      /\ left \in [Clerks -> 0..MaxHand] /\ lost \in [Sources -> Nat] /\ faults \in 0..MaxFaults
  BY IntakeAssumption DEF Init, NoPayment, Money
<1>2. row \in [Rows -> RowType] /\ link \in [Links -> LinkType] /\ job \in [Procs -> JobType]
  BY StartTypes DEF Init
<1>3. TypeOK
  BY <1>1, <1>2 DEF TypeOK
<1>4. SettledHasPayment /\ ProposalsNamed /\ LinksPriced /\ NothingLeftProposed
  BY DEF Init, SettledHasPayment, ProposalsNamed, LinksPriced, NothingLeftProposed, FreshRow, NoLink
<1>5. MarksArePaid /\ CommitsCover /\ JobsPlaced /\ JobsStand
  BY DEF Init, MarksArePaid, CommitsCover, Covers, JobsPlaced, Placed, JobsStand, Stands, Idle
<1>6. QED
  BY <1>3, <1>4, <1>5 DEF IInv

\* Everything but the jobs.
TablesTyped ==
  /\ invoice \in [Invoices -> [paid : 0..Total, open : BOOLEAN]]
  /\ payments \in [Sources -> [allocated : Money, unallocated : Money]]
  /\ import \in [status : {"none", "preview", "committed"}, booked : Nat, matched : Nat]
  /\ row \in [Rows -> RowType]
  /\ link \in [Links -> LinkType]
  /\ left \in [Clerks -> 0..MaxHand]
  /\ lost \in [Sources -> Nat]
  /\ faults \in 0..MaxFaults

\* Payments are never taken back, and what becomes settled has one.
LedgerGrows ==
  /\ \A s \in Sources : PaidIn(s, payments) => PaidIn(s, payments')
  /\ \A r \in Rows : row'[r].status = "booked" => row[r].status = "booked" \/ PaidIn(r, payments')
  /\ \A l \in Links : link'[l].status = "paid" => link[l].status = "paid" \/ PaidIn(l, payments')

\* A link that exists keeps its amount, and a new one has an amount.
LinksKept ==
  \A l \in Links :
    /\ link[l].status # "none" => link'[l].status # "none" /\ link'[l].amount = link[l].amount
    /\ link'[l].status # "none" => link'[l].amount > 0

\* No row is proposed anew, and the import does not become new again.
NothingIsProposed ==
  /\ \A r \in Rows : row'[r].status = "proposed" => row'[r] = row[r]
  /\ import.status # "none" => import'.status # "none"

LEMMA SettledStep ==
  ASSUME SettledHasPayment, LedgerGrows PROVE SettledHasPayment'
<1>1. \A s : HasPayment(s) <=> PaidIn(s, payments)
  BY DEF HasPayment, ReceivedFrom, PaidIn
<1>2. \A s : HasPayment(s)' <=> PaidIn(s, payments')
  BY DEF HasPayment, ReceivedFrom, PaidIn
<1>3. Rows \subseteq Sources /\ Links \subseteq Sources
  BY DEF Sources
<1>4. QED
  BY <1>1, <1>2, <1>3 DEF SettledHasPayment, LedgerGrows

\* One request takes a step, with its effect on the tables.
LEMMA JobStep ==
  ASSUME IInv, NEW p \in Procs, NEW J \in JobType, Become(p, J), TablesTyped',
         LedgerGrows, LinksKept, NothingIsProposed, NothingLeftProposed',
         J.at = "mark" => PaidIn(J.src, payments'),
         Placed(J), Stands(J, link'), Covers(J, row'), J.for = "commit" => import'.status # "none"
  PROVE  IInv'
<1>1. job' = [job EXCEPT ![p] = J] /\ job \in [Procs -> JobType]
  BY DEF Become, IInv, TypeOK
<1>2. job'[p] = J /\ \A q \in Procs \ {p} : job'[q] = job[q]
  BY <1>1
<1>3. TypeOK'
  BY <1>1 DEF TablesTyped, TypeOK
<1>4. SettledHasPayment'
  BY SettledStep DEF IInv
<1>5. MarksArePaid'
  <2> SUFFICES ASSUME NEW q \in Procs, job'[q].at = "mark"
               PROVE  PaidIn(job'[q].src, payments')
    BY DEF MarksArePaid, PaidIn
  <2>1. CASE q = p
    BY <1>2, <2>1
  <2>2. CASE q # p
    <3>1. job[q].src \in Sources
      BY <1>1 DEF JobType
    <3>2. QED
      BY <1>2, <2>2, <3>1 DEF IInv, MarksArePaid, LedgerGrows
  <2>3. QED
    BY <2>1, <2>2
<1>6. ProposalsNamed'
  BY DEF IInv, ProposalsNamed, NothingIsProposed
<1>7. CommitsCover'
  <2> SUFFICES ASSUME NEW q \in Procs
               PROVE  Covers(job'[q], row') /\ (job'[q].for = "commit" => import'.status # "none")
    BY DEF CommitsCover, Covers
  <2>1. CASE q = p
    BY <1>2, <2>1
  <2>2. CASE q # p
    BY <1>2, <2>2 DEF IInv, CommitsCover, Covers, NothingIsProposed
  <2>3. QED
    BY <2>1, <2>2
<1>8. JobsPlaced'
  BY <1>2 DEF IInv, JobsPlaced, Placed
<1>9. JobsStand'
  <2> SUFFICES ASSUME NEW q \in Procs PROVE Stands(job'[q], link')
    BY DEF JobsStand, Stands
  <2>1. CASE q = p
    BY <1>2, <2>1
  <2>2. CASE q # p
    BY <1>2, <2>2 DEF IInv, JobsStand, Stands, LinksKept
  <2>3. QED
    BY <2>1, <2>2
<1>10. LinksPriced'
  BY DEF LinksKept, LinksPriced
<1>11. QED
  BY <1>3, <1>4, <1>5, <1>6, <1>7, <1>8, <1>9, <1>10 DEF IInv

\* ... and without one.
LEMMA QuietStep ==
  ASSUME IInv, NEW p \in Procs, NEW J \in JobType, Become(p, J), TablesTyped',
         UNCHANGED <<payments, row, link, import>>,
         J.at # "mark", Placed(J), Stands(J, link), Covers(J, row),
         J.for = "commit" => import.status # "none"
  PROVE  IInv'
<1>1. LedgerGrows /\ NothingIsProposed /\ LinksKept
  BY DEF LedgerGrows, NothingIsProposed, LinksKept, IInv, LinksPriced
<1>2. NothingLeftProposed'
  BY DEF IInv, NothingLeftProposed
<1>3. Covers(J, row') /\ Stands(J, link') /\ (J.for = "commit" => import'.status # "none")
  OBVIOUS
<1>4. QED
  BY <1>1, <1>2, <1>3, JobStep

LEMMA Tables == IInv => TablesTyped /\ job \in [Procs -> JobType]
BY DEF IInv, TypeOK, TablesTyped

-----------------------------------------------------------------------------
(* Each action *)

LEMMA ByHandType == ASSUME IInv, NEW p \in Clerks, ByHand(p) PROVE left' \in [Clerks -> 0..MaxHand]
<1>1. left[p] \in 0..MaxHand /\ MaxHand \in Nat
  BY IntakeAssumption DEF IInv, TypeOK
<1>2. left[p] - 1 \in 0..MaxHand
  BY <1>1 DEF ByHand
<1>3. QED
  BY <1>2 DEF ByHand, IInv, TypeOK

LEMMA PreviewHolds == ASSUME IInv, Preview PROVE IInv'
<1>1. row' = [r \in Rows |-> MatchedRow(r)] /\ UNCHANGED <<invoice, payments, link, job, left, lost, faults>>
      /\ import.status = "none"
      /\ import' = [import EXCEPT !.status = "preview", !.matched = Cardinality(Proposed(row'))]
  BY DEF Preview
<1>2. row' \in [Rows -> RowType]
  BY <1>1, MatchedRowType
<1>3. Cardinality(Proposed(row')) \in Nat
  BY CountType, ProposedIn
<1>4. import' \in [status : {"none", "preview", "committed"}, booked : Nat, matched : Nat]
      /\ import'.status = "preview"
  BY <1>1, <1>3 DEF IInv, TypeOK
<1>5. TypeOK'
  BY <1>1, <1>2, <1>4 DEF IInv, TypeOK
<1>6. LedgerGrows
  BY <1>1, MatchedRowType DEF LedgerGrows
<1>7. SettledHasPayment'
  BY <1>6, SettledStep DEF IInv
<1>8. MarksArePaid' /\ JobsPlaced' /\ JobsStand'
  BY <1>1 DEF IInv, MarksArePaid, PaidIn, JobsPlaced, Placed, JobsStand, Stands
<1>9. ProposalsNamed'
  BY <1>1, MatchedRowType DEF ProposalsNamed
<1>10. CommitsCover'
  BY <1>1 DEF IInv, CommitsCover, Covers
<1>11. NothingLeftProposed' /\ LinksPriced'
  BY <1>1, <1>4 DEF NothingLeftProposed, IInv, LinksPriced
<1>12. QED
  BY <1>5, <1>7, <1>8, <1>9, <1>10, <1>11 DEF IInv

LEMMA StartCommitHolds == ASSUME IInv, NEW p \in Procs, StartCommit(p) PROVE IInv'
<1> DEFINE J == [Idle EXCEPT !.at = "next", !.for = "commit", !.todo = Proposed(row)]
<1>1. J \in JobType /\ J.at = "next" /\ J.for = "commit" /\ J.todo = Proposed(row)
  BY StartTypes, ProposedIn DEF JobType, Idle
<1>2. Become(p, J) /\ UNCHANGED <<invoice, payments, import, row, link, left, lost, faults>>
      /\ import.status = "preview"
  BY DEF StartCommit
<1> HIDE DEF J
<1>3. Covers(J, row) /\ Placed(J) /\ Stands(J, link)
  BY <1>1 DEF Covers, OfCommit, Proposed, Placed, Stands
<1>4. TablesTyped'
  BY <1>2, Tables DEF TablesTyped
<1>5. QED
  BY <1>1, <1>2, <1>3, <1>4, QuietStep

\* bookRow, on a row that may be booked.
LEMMA BookRowType ==
  ASSUME IInv, NEW p \in Procs, NEW r \in Rows
  PROVE  LET J == [job[p] EXCEPT !.at = "record", !.src = r, !.to = OpenOr(row[r].invoice),
                     !.amount = Statement[r].amount, !.todo = job[p].todo \ {r}]
         IN  J \in JobType /\ J.at = "record" /\ J.src = r /\ J.for = job[p].for
             /\ J.amount > 0 /\ J.amount = Statement[r].amount /\ J.todo = job[p].todo \ {r}
<1>1. row[r].invoice \in Places /\ job[p] \in JobType
  BY DEF IInv, TypeOK, RowType
<1>2. OpenOr(row[r].invoice) \in Places /\ Statement[r].amount \in Money /\ r \in Sources
  BY <1>1, OpenOrType, RowsTyped DEF Money, Sources
<1>3. Statement[r].amount > 0
  BY RowsTyped
<1>4. QED
  BY <1>1, <1>2, <1>3 DEF JobType

LEMMA CommitNextHolds == ASSUME IInv, NEW p \in Procs, CommitNext(p) PROVE IInv'
<1> DEFINE r == First(job[p].todo)
           B == [job[p] EXCEPT !.at = "record", !.src = r, !.to = OpenOr(row[r].invoice),
                   !.amount = Statement[r].amount, !.todo = job[p].todo \ {r}]
           S == [job[p] EXCEPT !.todo = @ \ {r}]
<1>1. job[p] \in JobType /\ job[p].at = "next" /\ job[p].todo \in SUBSET Rows /\ job[p].todo # {}
  BY DEF CommitNext, IInv, TypeOK, JobType
<1>2. r \in job[p].todo /\ r \in Rows
  BY <1>1, FirstIsIn
<1>3. Become(p, IF Bookable(r) THEN B ELSE S)
      /\ UNCHANGED <<invoice, payments, import, row, link, left, lost, faults>>
  BY DEF CommitNext, BookRow
<1> HIDE DEF r
<1>4. B \in JobType /\ B.at = "record" /\ B.src = r /\ B.for = job[p].for /\ B.todo = job[p].todo \ {r}
      /\ B.amount > 0 /\ B.amount = Statement[r].amount
  BY <1>2, BookRowType
<1>5. S \in JobType /\ S.at = "next" /\ S.for = job[p].for /\ S.todo = job[p].todo \ {r}
  <2> DEFINE T == job[p].todo \ {r}
  <2>1. T \in SUBSET Rows /\ S = [job[p] EXCEPT !.todo = T]
    BY <1>1
  <2> HIDE DEF T, S
  <2>2. S \in JobType
    BY <1>1, <2>1 DEF JobType
  <2>3. S.at = job[p].at /\ S.for = job[p].for /\ S.todo = T
    BY <1>1, <2>1 DEF JobType
  <2>4. QED
    BY <1>1, <2>2, <2>3 DEF T
<1> HIDE DEF B, S
<1>6. TablesTyped'
  BY <1>3, Tables DEF TablesTyped
<1>7. /\ Placed(B) /\ Placed(S) /\ Covers(job[p], row) /\ import.status # "none"
      /\ job[p].for = "commit"
  BY <1>1, <1>4, <1>5 DEF IInv, CommitsCover, JobsPlaced, Placed
<1>12. Stands(B, link) /\ Stands(S, link)
  BY <1>2, <1>4, <1>5, <1>7 DEF Stands
<1>8. Covers(B, row)
  BY <1>1, <1>4, <1>7 DEF Covers, OfCommit
<1>9. CASE Bookable(r)
  BY <1>3, <1>4, <1>6, <1>7, <1>8, <1>9, <1>12, QuietStep
<1>10. CASE ~Bookable(r)
  <2>1. row[r].status # "proposed"
    BY <1>2, <1>10 DEF Bookable, IInv, ProposalsNamed
  <2>2. Covers(S, row)
    BY <1>1, <1>5, <1>7, <2>1 DEF Covers, OfCommit
  <2>3. QED
    BY <1>3, <1>5, <1>6, <1>7, <1>10, <1>12, <2>2, QuietStep
<1>11. QED
  BY <1>9, <1>10

LEMMA CommitEndHolds == ASSUME IInv, NEW p \in Procs, CommitEnd(p) PROVE IInv'
<1>1. job[p] \in JobType /\ job[p].at = "next" /\ job[p].todo = {} /\ Become(p, Idle)
      /\ import' = [import EXCEPT !.status = "committed", !.booked = job[p].booked]
      /\ UNCHANGED <<invoice, payments, row, link, left, lost, faults>>
  BY DEF CommitEnd, IInv, TypeOK
<1>2. import' \in [status : {"none", "preview", "committed"}, booked : Nat, matched : Nat]
      /\ import'.status = "committed"
  BY <1>1 DEF IInv, TypeOK, JobType
<1>3. TablesTyped'
  BY <1>1, <1>2, Tables DEF TablesTyped
<1>4. LedgerGrows /\ NothingIsProposed /\ LinksKept
  BY <1>1, <1>2 DEF LedgerGrows, NothingIsProposed, LinksKept, IInv, LinksPriced
<1>5. Idle.at # "mark" /\ Idle.for # "commit" /\ Idle \in JobType /\ Placed(Idle)
      /\ Stands(Idle, link') /\ Covers(Idle, row')
  BY StartTypes DEF Idle, Placed, Stands, Covers
<1>6. NothingLeftProposed'
  <2>1. job[p].for = "commit"
    BY <1>1 DEF IInv, JobsPlaced, Placed
  <2>2. QED
    BY <1>1, <2>1 DEF NothingLeftProposed, IInv, CommitsCover, Covers
<1>7. QED
  BY <1>1, <1>3, <1>4, <1>5, <1>6, JobStep

\* A request that is not a commit and marks nothing.
LEMMA OtherRequest ==
  ASSUME IInv, NEW p \in Procs, NEW J \in JobType, Become(p, J), TablesTyped',
         UNCHANGED <<payments, row, link, import>>,
         J.for # "commit", J.at \notin {"next", "mark"}, J.at \in {"match", "book"} => J.src \in Rows /\ J.for \notin {"link", "hand"},
         J.at \in {"link", "record", "write"} => J.amount > 0, Stands(J, link)
  PROVE  IInv'
<1>1. Covers(J, row) /\ Placed(J)
  BY DEF Covers, Placed
<1>2. QED
  BY <1>1, QuietStep

LEMMA Ends ==
  ASSUME IInv, NEW p \in Procs, Become(p, Idle), TablesTyped', UNCHANGED <<payments, row, link, import>>
  PROVE  IInv'
<1>1. Idle \in JobType /\ Idle.for = "none" /\ Idle.at = "idle" /\ Stands(Idle, link)
  BY StartTypes DEF Idle, Stands
<1>2. QED
  BY <1>1, OtherRequest

LEMMA StartMatchHolds ==
  ASSUME IInv, NEW p \in Clerks, NEW r \in Rows, NEW i \in Places,
         NEW what \in {"ignore", "invoice", "building", "clear"}, StartMatch(p, r, what, i)
  PROVE  IInv'
<1> DEFINE J == [Idle EXCEPT !.at = "match", !.for = what, !.src = r, !.to = i,
                             !.committed = (import.status = "committed")]
<1>1. J \in JobType /\ J.at = "match" /\ J.for = what /\ J.src = r
  BY StartTypes DEF JobType, Idle, Sources
<1>2. Become(p, J) /\ UNCHANGED <<invoice, payments, import, row, link, lost, faults>> /\ p \in Procs
  BY DEF StartMatch, Procs
<1> HIDE DEF J
<1>3. TablesTyped'
  BY <1>2, Tables, ByHandType DEF TablesTyped, StartMatch
<1>4. Stands(J, link)
  BY <1>1 DEF Stands
<1>5. QED
  BY <1>1, <1>2, <1>3, <1>4, OtherRequest

LEMMA MatchWriteHolds == ASSUME IInv, NEW p \in Procs, MatchWrite(p) PROVE IInv'
<1> DEFINE j == job[p]
           new == [status |-> CASE j.for = "ignore" -> "ignored" [] j.for = "clear" -> "unallocated"
                                [] OTHER -> "matched",
                   kind |-> IF j.for = "clear" THEN "none" ELSE "manual",
                   invoice |-> j.to, building |-> j.for \in {"invoice", "building"}]
           J == [j EXCEPT !.at = IF j.committed /\ j.for \in {"invoice", "building"}
                                 THEN "book" ELSE "count"]
<1>1. j \in JobType /\ j.at = "match" /\ Placed(j) /\ j.for \notin {"commit", "link", "hand"}
  <2>1. j \in JobType /\ j.at = "match" /\ Placed(j)
    BY DEF MatchWrite, IInv, TypeOK, JobsPlaced
  <2>2. Covers(j, row)
    BY DEF IInv, CommitsCover
  <2> HIDE DEF j
  <2>3. QED
    BY <2>1, <2>2 DEF Placed, Covers, OfCommit
<1>2. new \in RowType /\ new.status \notin {"booked", "proposed"}
  <2>1. j.to \in Places
    BY <1>1 DEF JobType
  <2>2. new.status \in {"ignored", "unallocated", "matched"} /\ new.kind \in {"none", "manual"}
    OBVIOUS
  <2>3. QED
    BY <2>1, <2>2 DEF RowType
<1>3. J \in JobType /\ J.at \in {"book", "count"} /\ J.for = j.for /\ J.src = j.src
  BY <1>1 DEF JobType
<1>4. row' = [row EXCEPT ![j.src] = new] /\ Become(p, J)
      /\ UNCHANGED <<invoice, payments, import, link, left, lost, faults>>
  BY DEF MatchWrite
<1>5. j.src \in Rows
  BY <1>1 DEF Placed
<1> HIDE DEF J, new, j
<1>6. row' \in [Rows -> RowType] /\ row'[j.src] = new /\ \A r \in Rows \ {j.src} : row'[r] = row[r]
  BY <1>2, <1>4, <1>5 DEF IInv, TypeOK
<1>7. TablesTyped'
  BY <1>4, <1>6, Tables DEF TablesTyped
<1>8. LedgerGrows /\ NothingIsProposed /\ LinksKept
  BY <1>2, <1>4, <1>6 DEF LedgerGrows, NothingIsProposed, LinksKept, IInv, LinksPriced
<1>9. NothingLeftProposed'
  BY <1>2, <1>4, <1>6 DEF IInv, NothingLeftProposed
<1>10. Placed(J) /\ Covers(J, row') /\ Stands(J, link')
  BY <1>1, <1>3, <1>5 DEF Placed, Covers, Stands
<1>11. J.for # "commit" /\ J.at # "mark"
  BY <1>1, <1>3
<1>12. QED
  BY <1>3, <1>4, <1>7, <1>8, <1>9, <1>10, <1>11, JobStep

LEMMA MatchBookHolds == ASSUME IInv, NEW p \in Procs, MatchBook(p) PROVE IInv'
<1> DEFINE r == job[p].src
           B == [job[p] EXCEPT !.at = "record", !.src = r, !.to = OpenOr(row[r].invoice),
                   !.amount = Statement[r].amount, !.todo = job[p].todo \ {r}]
           C == [job[p] EXCEPT !.at = "count"]
<1>1. job[p] \in JobType /\ job[p].at = "book" /\ r \in Rows
      /\ job[p].for \notin {"commit", "link", "hand"}
  BY DEF MatchBook, IInv, TypeOK, JobsPlaced, Placed, CommitsCover, Covers, OfCommit
<1>2. (Become(p, B) \/ Become(p, C))
      /\ UNCHANGED <<invoice, payments, import, row, link, left, lost, faults>>
  BY DEF MatchBook, BookRow
<1> HIDE DEF r
<1>3. B \in JobType /\ B.at = "record" /\ B.for = job[p].for /\ B.amount > 0
      /\ B.src = r /\ B.amount = Statement[r].amount
  BY <1>1, BookRowType
<1>4. C \in JobType /\ C.at = "count" /\ C.for = job[p].for
  BY <1>1 DEF JobType
<1> HIDE DEF B, C
<1>5. TablesTyped'
  BY <1>2, Tables DEF TablesTyped
<1>9. Stands(B, link) /\ Stands(C, link)
  BY <1>1, <1>3, <1>4 DEF Stands
<1>6. CASE Become(p, B)
  BY <1>1, <1>2, <1>3, <1>5, <1>6, <1>9, OtherRequest
<1>7. CASE Become(p, C)
  BY <1>1, <1>2, <1>4, <1>5, <1>7, <1>9, OtherRequest
<1>8. QED
  BY <1>2, <1>6, <1>7

LEMMA MatchCountHolds == ASSUME IInv, NEW p \in Procs, MatchCount(p) PROVE IInv'
<1>1. import' = [import EXCEPT !.matched = Cardinality(Proposed(row))] /\ Become(p, Idle)
      /\ UNCHANGED <<invoice, payments, row, link, left, lost, faults>>
  BY DEF MatchCount
<1>2. import' \in [status : {"none", "preview", "committed"}, booked : Nat, matched : Nat]
      /\ import'.status = import.status
  BY <1>1, CountType, ProposedIn DEF IInv, TypeOK
<1>3. TablesTyped'
  BY <1>1, <1>2, Tables DEF TablesTyped
<1>4. LedgerGrows /\ NothingIsProposed /\ LinksKept /\ NothingLeftProposed'
  BY <1>1, <1>2 DEF LedgerGrows, NothingIsProposed, LinksKept, IInv, LinksPriced, NothingLeftProposed
<1>5. Idle.at # "mark" /\ Idle.for # "commit" /\ Idle \in JobType /\ Placed(Idle)
      /\ Stands(Idle, link') /\ Covers(Idle, row')
  BY StartTypes DEF Idle, Placed, Stands, Covers
<1>6. QED
  BY <1>1, <1>3, <1>4, <1>5, JobStep

LEMMA StartLinkHolds ==
  ASSUME IInv, NEW p \in Clerks, NEW i \in Invoices, StartLink(p, i) PROVE IInv'
<1> DEFINE J == [Idle EXCEPT !.at = "link", !.to = i, !.amount = OpenCents(i)]
<1>1. J \in JobType /\ J.at = "link" /\ J.for = "none" /\ J.amount > 0
  BY StartTypes, OpenCentsType DEF JobType, Idle, Places, Money, IInv, StartLink
<1>2. (Become(p, Idle) \/ Become(p, J)) /\ p \in Procs
      /\ UNCHANGED <<invoice, payments, import, row, link, lost, faults>>
  BY DEF StartLink, Procs
<1> HIDE DEF J
<1>3. TablesTyped'
  BY <1>2, Tables, ByHandType DEF TablesTyped, StartLink
<1>4. Stands(J, link)
  BY <1>1 DEF Stands
<1>5. QED
  BY <1>1, <1>2, <1>3, <1>4, OtherRequest, Ends

LEMMA StartPayHolds ==
  ASSUME IInv, NEW p \in Clerks, NEW i \in Invoices, StartPay(p, i) PROVE IInv'
<1> DEFINE J == [Idle EXCEPT !.at = "record", !.for = "hand", !.to = i, !.amount = OpenCents(i)]
<1>1. J \in JobType /\ J.at = "record" /\ J.for = "hand" /\ J.amount > 0 /\ J.src = Hand
  BY StartTypes, OpenCentsType DEF JobType, Idle, Places, Money, IInv, StartPay
<1>2. Become(p, J) /\ p \in Procs /\ UNCHANGED <<invoice, payments, import, row, link, lost, faults>>
  BY DEF StartPay, Procs
<1> HIDE DEF J
<1>3. TablesTyped'
  BY <1>2, Tables, ByHandType DEF TablesTyped, StartPay
<1>4. Stands(J, link)
  BY <1>1 DEF Stands
<1>5. QED
  BY <1>1, <1>2, <1>3, <1>4, OtherRequest

LEMMA StartSettleHolds ==
  ASSUME IInv, NEW p \in Procs, NEW l \in Links, StartSettle(p, l) PROVE IInv'
<1> DEFINE J == [Idle EXCEPT !.at = "record", !.for = "link", !.src = l,
                             !.to = OpenOr(link[l].invoice), !.amount = link[l].amount]
<1>1. link[l].invoice \in Places /\ link[l].amount \in Money /\ link[l].amount > 0 /\ l \in Sources
  BY DEF IInv, TypeOK, LinkType, Sources, LinksPriced, StartSettle
<1>2. J \in JobType /\ J.at = "record" /\ J.for = "link" /\ J.amount > 0
      /\ J.src = l /\ J.amount = link[l].amount
  BY <1>1, StartTypes, OpenOrType DEF JobType, Idle
<1>3. Become(p, J) /\ UNCHANGED <<invoice, payments, import, row, link, left, lost, faults>>
      /\ link[l].status # "none"
  BY DEF StartSettle
<1> HIDE DEF J
<1>4. TablesTyped'
  BY <1>3, Tables DEF TablesTyped
<1>5. Stands(J, link)
  BY <1>2, <1>3 DEF Stands
<1>6. QED
  BY <1>2, <1>3, <1>4, <1>5, OtherRequest

LEMMA CreateLinkHolds ==
  ASSUME IInv, NEW p \in Procs, NEW l \in Links, CreateLink(p, l) PROVE IInv'
<1> DEFINE new == [status |-> "open", invoice |-> job[p].to, amount |-> job[p].amount,
                   expired |-> FALSE]
<1>1. new \in LinkType /\ new.status = "open" /\ new.amount > 0
  BY DEF IInv, TypeOK, JobType, LinkType, CreateLink, JobsPlaced, Placed
<1>2. link' = [link EXCEPT ![l] = new] /\ Become(p, Idle) /\ link[l].status = "none"
      /\ UNCHANGED <<invoice, payments, import, row, left, lost, faults>>
  BY DEF CreateLink
<1> HIDE DEF new
<1>3. link' \in [Links -> LinkType] /\ link'[l].status = "open" /\ link'[l].amount > 0
      /\ \A m \in Links \ {l} : link'[m] = link[m]
  BY <1>1, <1>2 DEF IInv, TypeOK
<1>4. TablesTyped'
  BY <1>2, <1>3, Tables DEF TablesTyped
<1>5. LedgerGrows /\ NothingIsProposed /\ LinksKept /\ NothingLeftProposed'
  BY <1>2, <1>3 DEF LedgerGrows, NothingIsProposed, LinksKept, IInv, LinksPriced, NothingLeftProposed
<1>6. Idle.at # "mark" /\ Idle.for # "commit" /\ Idle \in JobType /\ Placed(Idle)
      /\ Stands(Idle, link') /\ Covers(Idle, row')
  BY StartTypes DEF Idle, Placed, Stands, Covers
<1>7. QED
  BY <1>2, <1>4, <1>5, <1>6, JobStep

LEMMA RecordHolds == ASSUME IInv, NEW p \in Procs, Record(p) PROVE IInv'
<1> DEFINE j == job[p]
           W == [j EXCEPT !.at = "write"]
           V == [j EXCEPT !.at = "write", !.paid = invoice[j.to].paid]
<1>1. j \in JobType /\ j.at = "record" /\ j.amount > 0
  BY DEF Record, IInv, TypeOK, JobsPlaced, Placed
<1>2. UNCHANGED <<invoice, payments, import, row, link, left, lost, faults>>
  BY DEF Record
<1>3. Become(p, Idle) \/ Become(p, W) \/ (j.to # NoInvoice /\ Become(p, V))
  BY DEF Record
<1>4. W \in JobType /\ W.at = "write" /\ W.for = j.for /\ W.src = j.src /\ W.todo = j.todo
      /\ W.amount = j.amount
  BY <1>1 DEF JobType
<1>5. j.to # NoInvoice =>
        V \in JobType /\ V.at = "write" /\ V.for = j.for /\ V.src = j.src /\ V.todo = j.todo
        /\ V.amount = j.amount
  <2> SUFFICES ASSUME j.to # NoInvoice
               PROVE V \in JobType /\ V.at = "write" /\ V.for = j.for /\ V.src = j.src /\ V.todo = j.todo
                     /\ V.amount = j.amount
    OBVIOUS
  <2>1. invoice[j.to].paid \in 0..Total
    BY <1>1 DEF IInv, TypeOK, JobType, Places
  <2>2. QED
    BY <1>1, <2>1 DEF JobType
<1>6. Covers(j, row) /\ (j.for = "commit" => import.status # "none") /\ Stands(j, link)
  BY DEF IInv, CommitsCover, JobsStand
<1>7. TablesTyped'
  BY <1>2, Tables DEF TablesTyped
<1> HIDE DEF W, V, j
<1>8. ASSUME NEW J \in JobType, J.at = "write", J.for = j.for, J.src = j.src, J.todo = j.todo,
             J.amount = j.amount, Become(p, J)
      PROVE  IInv'
  <2>1. Covers(J, row) /\ Placed(J) /\ Stands(J, link)
    BY <1>1, <1>6, <1>8 DEF Covers, Placed, OfCommit, Stands
  <2>2. QED
    BY <1>2, <1>6, <1>7, <1>8, <2>1, QuietStep
<1>9. QED
  BY <1>2, <1>3, <1>4, <1>5, <1>7, <1>8, Ends

LEMMA WriteHolds == ASSUME IInv, NEW p \in Procs, Write(p) PROVE IInv'
<1> DEFINE j == job[p]
           B == Booking(j)
           P == [allocated : Money, unallocated : Money]
           J == AfterPayment(j)
           sum == Payment(payments[j.src].allocated + B.allocated,
                          payments[j.src].unallocated + B.unallocated)
<1>1. /\ j \in JobType /\ j.at = "write" /\ j.amount \in Nat /\ j.amount > 0
      /\ payments \in [Sources -> P] /\ j.src \in Sources
  BY DEF Write, IInv, TypeOK, JobsPlaced, Placed, JobType, Money
<1>2. /\ payments' = [payments EXCEPT ![j.src] = sum] /\ Become(p, J)
      /\ UNCHANGED <<import, row, link, left, lost, faults>>
      /\ invoice' = IF j.to = NoInvoice THEN invoice
                    ELSE [invoice EXCEPT ![j.to] =
                            [paid |-> j.paid + Allocated(j), open |-> j.paid + Allocated(j) < Total]]
  BY DEF Write
<1>3. /\ Allocated(j) \in Nat /\ Allocated(j) <= Total - j.paid
      /\ B.allocated \in Nat /\ B.unallocated \in Nat /\ B.allocated + B.unallocated = j.amount
  BY <1>1, BookingType DEF IInv
<1>4. invoice' \in [Invoices -> [paid : 0..Total, open : BOOLEAN]]
  <2>1. invoice \in [Invoices -> [paid : 0..Total, open : BOOLEAN]] /\ j.paid \in 0..Total
    BY <1>1 DEF IInv, TypeOK, JobType
  <2>2. j.paid + Allocated(j) \in 0..Total
    BY <1>3, <2>1, IntakeAssumption
  <2> DEFINE new == [paid |-> j.paid + Allocated(j), open |-> j.paid + Allocated(j) < Total]
  <2>3. new \in [paid : 0..Total, open : BOOLEAN]
    BY <2>2
  <2> HIDE DEF new
  <2>4. invoice' = invoice \/ invoice' = [invoice EXCEPT ![j.to] = new]
    BY <1>2 DEF new
  <2>5. QED
    BY <2>1, <2>3, <2>4
<1>5. /\ J \in JobType /\ J.at \in {"idle", "mark"} /\ J.for \in {"none", j.for}
      /\ J.at = "mark" => J.for = j.for /\ J.src = j.src /\ J.todo = j.todo /\ J.amount = j.amount
      /\ J.at = "idle" => J.for = "none"
  <2>1. CASE j.for = "commit"
    <3> DEFINE K == [j EXCEPT !.at = "mark", !.booked = @ + 1]
    <3>1. j.booked \in Nat /\ j.booked + 1 \in Nat
      BY <1>1 DEF JobType
    <3>2. /\ K \in JobType /\ K.at = "mark" /\ K.for = j.for /\ K.src = j.src /\ K.todo = j.todo
          /\ K.amount = j.amount
      BY <1>1, <3>1 DEF JobType
    <3>3. J = K
      BY <2>1 DEF AfterPayment
    <3> HIDE DEF K
    <3>4. QED
      BY <2>1, <3>2, <3>3
  <2>2. CASE j.for = "hand"
    BY <2>2, StartTypes DEF AfterPayment, Idle
  <2>3. CASE j.for \notin {"commit", "hand"}
    BY <1>1, <2>3 DEF AfterPayment, JobType
  <2>4. QED
    BY <2>1, <2>2, <2>3
<1>6. Covers(j, row) /\ (j.for = "commit" => import.status # "none") /\ Stands(j, link)
  BY DEF IInv, CommitsCover, JobsStand
<1>13. payments[j.src].allocated \in Nat /\ payments[j.src].unallocated \in Nat
  BY <1>1 DEF Money
<1>14. /\ sum \in P
       /\ sum.allocated + sum.unallocated
            = payments[j.src].allocated + payments[j.src].unallocated + j.amount
  BY <1>3, <1>13 DEF Payment, Money
<1> HIDE DEF j, B, P, J, sum
<1>7. /\ payments' \in [Sources -> P]
      /\ \A s \in Sources : PaidIn(s, payments) => PaidIn(s, payments')
      /\ PaidIn(j.src, payments')
  <2>1. /\ payments' \in [Sources -> P] /\ payments'[j.src] = sum
        /\ \A s \in Sources : s # j.src => payments'[s] = payments[s]
    BY <1>1, <1>2, <1>14
  <2>2. PaidIn(j.src, payments')
    BY <1>1, <1>13, <1>14, <2>1 DEF PaidIn
  <2>3. QED
    BY <2>1, <2>2 DEF PaidIn
<1>8. TablesTyped'
  BY <1>2, <1>4, <1>7, Tables DEF TablesTyped, P
<1>9. LedgerGrows /\ NothingIsProposed /\ LinksKept /\ NothingLeftProposed'
  BY <1>2, <1>7 DEF LedgerGrows, NothingIsProposed, LinksKept, IInv, LinksPriced, NothingLeftProposed
<1>10. Placed(J) /\ Covers(J, row') /\ Stands(J, link')
  BY <1>1, <1>2, <1>5, <1>6 DEF Placed, Covers, OfCommit, Stands
<1>11. (J.at = "mark" => PaidIn(J.src, payments')) /\ (J.for = "commit" => import'.status # "none")
  BY <1>2, <1>5, <1>6, <1>7
<1>12. QED
  BY <1>2, <1>5, <1>8, <1>9, <1>10, <1>11, JobStep

LEMMA MarkRowHolds == ASSUME IInv, NEW p \in Procs, MarkRow(p) PROVE IInv'
<1> DEFINE j == job[p]
           J == [j EXCEPT !.at = IF j.for = "commit" THEN "next" ELSE "count"]
<1>1. j \in JobType /\ j.at = "mark" /\ PaidIn(j.src, payments)
  BY DEF MarkRow, IInv, TypeOK, MarksArePaid
<1>2. row' = [row EXCEPT ![j.src].status = "booked", ![j.src].invoice = j.to,
                         ![j.src].building = TRUE]
      /\ Become(p, J) /\ UNCHANGED <<invoice, payments, import, link, left, lost, faults>>
  BY DEF MarkRow
<1>3. /\ J \in JobType /\ J.for = j.for /\ J.src = j.src /\ J.todo = j.todo
      /\ J.at = IF j.for = "commit" THEN "next" ELSE "count"
  BY <1>1 DEF JobType
<1>4. /\ Covers(j, row) /\ (j.for = "commit" => import.status # "none")
      /\ Stands(j, link) /\ j.for # "link"
  BY DEF IInv, CommitsCover, JobsStand, MarkRow
<1> HIDE DEF J
<1>5. row' \in [Rows -> RowType]
      /\ \A r \in Rows : IF r = j.src THEN row'[r].status = "booked" ELSE row'[r] = row[r]
  <2>1. row \in [Rows -> RowType] /\ j.to \in Places
    BY <1>1 DEF IInv, TypeOK, JobType
  <2>2. CASE j.src \in Rows
    <3> DEFINE new == [row[j.src] EXCEPT !.status = "booked", !.invoice = j.to, !.building = TRUE]
    <3>1. new \in RowType /\ new.status = "booked"
      BY <2>1, <2>2 DEF RowType
    <3>2. row' = [row EXCEPT ![j.src] = new]
      BY <1>2, <2>1, <2>2
    <3> HIDE DEF new
    <3>3. QED
      BY <2>1, <3>1, <3>2
  <2>3. CASE j.src \notin Rows
    <3>1. row' = row
      BY <1>2, <2>1, <2>3
    <3>2. QED
      BY <2>1, <2>3, <3>1
  <2>4. QED
    BY <2>2, <2>3
<1> HIDE DEF j
<1>6. TablesTyped'
  BY <1>2, <1>5, Tables DEF TablesTyped
<1>7. LedgerGrows /\ NothingIsProposed /\ LinksKept /\ NothingLeftProposed'
  BY <1>1, <1>2, <1>5 DEF LedgerGrows, NothingIsProposed, LinksKept, IInv, LinksPriced, NothingLeftProposed
<1>8. Placed(J) /\ Covers(J, row') /\ Stands(J, link')
  BY <1>1, <1>2, <1>3, <1>4, <1>5 DEF Placed, Covers, OfCommit, Stands
<1>9. J.at # "mark" /\ (J.for = "commit" => import'.status # "none")
  BY <1>2, <1>3, <1>4
<1>10. QED
  BY <1>2, <1>3, <1>6, <1>7, <1>8, <1>9, JobStep

LEMMA MarkLinkHolds == ASSUME IInv, NEW p \in Procs, MarkLink(p) PROVE IInv'
<1> DEFINE s == job[p].src
<1>1. /\ job[p] \in JobType /\ job[p].at = "mark" /\ PaidIn(s, payments)
      /\ s \in Links /\ link[s].status # "none" /\ link[s].amount > 0
  BY DEF MarkLink, IInv, TypeOK, MarksArePaid, JobsStand, Stands, LinksPriced
<1>2. link' = [link EXCEPT ![s].status = "paid"]
      /\ Become(p, Idle) /\ UNCHANGED <<invoice, payments, import, row, left, lost, faults>>
  BY DEF MarkLink
<1> HIDE DEF s
<1>3. /\ link' \in [Links -> LinkType] /\ \A l \in Links : l # s => link'[l] = link[l]
      /\ link'[s].status = "paid" /\ link'[s].amount = link[s].amount
  BY <1>1, <1>2 DEF IInv, TypeOK, LinkType
<1>4. TablesTyped'
  BY <1>2, <1>3, Tables DEF TablesTyped
<1>5. LedgerGrows /\ NothingIsProposed /\ LinksKept /\ NothingLeftProposed'
  BY <1>1, <1>2, <1>3 DEF LedgerGrows, NothingIsProposed, LinksKept, IInv, LinksPriced, NothingLeftProposed
<1>6. Idle.at # "mark" /\ Idle.for # "commit" /\ Idle \in JobType /\ Placed(Idle)
      /\ Stands(Idle, link') /\ Covers(Idle, row')
  BY StartTypes DEF Idle, Placed, Stands, Covers
<1>7. QED
  BY <1>2, <1>4, <1>5, <1>6, JobStep

LEMMA ExpireHolds == ASSUME IInv, NEW l \in Links, Expire(l) PROVE IInv'
<1>1. link' = [link EXCEPT ![l].expired = TRUE]
      /\ UNCHANGED <<invoice, payments, import, row, job, left, lost, faults>>
  BY DEF Expire
<1>2. link' \in [Links -> LinkType] /\ \A m \in Links : /\ link'[m].status = link[m].status
                                                       /\ link'[m].amount = link[m].amount
  BY <1>1 DEF IInv, TypeOK, LinkType
<1>3. TypeOK'
  BY <1>1, <1>2 DEF IInv, TypeOK
<1>4. SettledHasPayment'
  BY <1>1, <1>2, SettledStep DEF IInv, LedgerGrows
<1>5. /\ MarksArePaid' /\ ProposalsNamed' /\ CommitsCover' /\ JobsPlaced' /\ LinksPriced'
      /\ NothingLeftProposed' /\ JobsStand'
  BY <1>1, <1>2 DEF IInv, MarksArePaid, PaidIn, ProposalsNamed, CommitsCover, Covers, JobsPlaced,
                    Placed, LinksPriced, NothingLeftProposed, JobsStand, Stands
<1>6. QED
  BY <1>3, <1>4, <1>5 DEF IInv

LEMMA RestartHolds == ASSUME IInv, Restart PROVE IInv'
<1>1. job' = [p \in Procs |-> Idle] /\ faults > 0 /\ faults' = faults - 1
      /\ UNCHANGED <<invoice, payments, import, row, link, left>>
      /\ lost' = [s \in Sources |->
           lost[s] + Cardinality({p \in Procs : job[p].at = "mark" /\ job[p].src = s})]
  BY DEF Restart
<1>2. \A s \in Sources : Cardinality({p \in Procs : job[p].at = "mark" /\ job[p].src = s}) \in Nat
  <2> SUFFICES ASSUME NEW s \in Sources
               PROVE  Cardinality({p \in Procs : job[p].at = "mark" /\ job[p].src = s}) \in Nat
    OBVIOUS
  <2> DEFINE S == {p \in Procs : job[p].at = "mark" /\ job[p].src = s}
  <2>1. IsFiniteSet(Procs)
    BY IntakeAssumption, FS_Union DEF Procs
  <2>2. S \in SUBSET Procs
    OBVIOUS
  <2> HIDE DEF S
  <2>3. Cardinality(S) \in Nat
    BY <2>1, <2>2, FS_Subset, FS_CardinalityType
  <2>4. QED
    BY <2>3 DEF S
<1>3. lost' \in [Sources -> Nat]
  <2> DEFINE n(s) == Cardinality({p \in Procs : job[p].at = "mark" /\ job[p].src = s})
  <2>1. \A s \in Sources : n(s) \in Nat
    BY <1>2
  <2>2. lost' = [s \in Sources |-> lost[s] + n(s)]
    BY <1>1
  <2> HIDE DEF n
  <2>3. lost \in [Sources -> Nat]
    BY DEF IInv, TypeOK
  <2>4. \A s \in Sources : lost[s] + n(s) \in Nat
    BY <2>1, <2>3
  <2>5. QED
    BY <2>2, <2>4
<1>4. faults' \in 0..MaxFaults
  BY <1>1, IntakeAssumption DEF IInv, TypeOK
<1>5. job' \in [Procs -> JobType]
  BY <1>1, StartTypes
<1>6. TypeOK'
  BY <1>1, <1>3, <1>4, <1>5 DEF IInv, TypeOK
<1>7. SettledHasPayment' /\ ProposalsNamed' /\ NothingLeftProposed'
  BY <1>1 DEF IInv, SettledHasPayment, HasPayment, ReceivedFrom, ProposalsNamed, NothingLeftProposed
<1>8. \A p \in Procs : job'[p].at = "idle" /\ job'[p].for = "none"
  BY <1>1 DEF Idle
<1>9. MarksArePaid' /\ CommitsCover' /\ JobsPlaced' /\ JobsStand' /\ LinksPriced'
  BY <1>1, <1>8 DEF MarksArePaid, CommitsCover, Covers, JobsPlaced, Placed, JobsStand, Stands, IInv,
                    LinksPriced
<1>10. QED
  BY <1>6, <1>7, <1>9 DEF IInv

-----------------------------------------------------------------------------
LEMMA StartHolds == ASSUME IInv, NEW p \in Procs, Start(p) PROVE IInv'
<1>1. CASE StartCommit(p)
  BY <1>1, StartCommitHolds
<1>2. ASSUME NEW i \in Invoices, p \in Clerks, StartPay(p, i) \/ StartLink(p, i) PROVE IInv'
  BY <1>2, StartPayHolds, StartLinkHolds
<1>3. ASSUME NEW r \in Rows, NEW what \in {"ignore", "invoice", "building", "clear"},
             NEW i \in Places, p \in Clerks, StartMatch(p, r, what, i)
      PROVE  IInv'
  BY <1>3, StartMatchHolds
<1>4. ASSUME NEW l \in Links, StartSettle(p, l) PROVE IInv'
  BY <1>4, StartSettleHolds
<1>5. QED
  BY <1>1, <1>2, <1>3, <1>4 DEF Start, Places

LEMMA NextHolds == IInv /\ [Next]_vars => IInv'
<1> SUFFICES ASSUME IInv, [Next]_vars PROVE IInv'
  OBVIOUS
<1>1. ASSUME NEW p \in Procs, Step(p) PROVE IInv'
  BY <1>1, CommitNextHolds, CommitEndHolds, MatchWriteHolds, MatchBookHolds, MatchCountHolds,
     CreateLinkHolds, RecordHolds, WriteHolds, MarkRowHolds, MarkLinkHolds DEF Step
<1>2. CASE UNCHANGED vars
  BY <1>2 DEF vars, IInv, TypeOK, SettledHasPayment, HasPayment, ReceivedFrom, MarksArePaid,
              PaidIn, LinksPriced, ProposalsNamed, CommitsCover, Covers, JobsPlaced, Placed, JobsStand,
              Stands, NothingLeftProposed
<1>3. QED
  BY <1>1, <1>2, PreviewHolds, StartHolds, ExpireHolds, RestartHolds DEF Next

\* Every reachable state is well typed: no invoice is paid beyond its total.
THEOREM TypeCorrect == Spec => []TypeOK
<1>1. IInv => TypeOK
  BY DEF IInv
<1>2. QED
  BY <1>1, InitHolds, NextHolds, PTL DEF Spec

\* Whatever restarts between payment and mark, a booked row and a paid link
\* have their payment.
THEOREM SettledIsPaid == Spec => []SettledHasPayment
<1>1. IInv => SettledHasPayment
  BY DEF IInv
<1>2. QED
  BY <1>1, InitHolds, NextHolds, PTL DEF Spec

\* However many clerks commit, match and pay at once, a committed import has
\* booked or decided every proposal.
THEOREM CommitLeavesNone == Spec => []NothingLeftProposed
<1>1. IInv => NothingLeftProposed
  BY DEF IInv
<1>2. QED
  BY <1>1, InitHolds, NextHolds, PTL DEF Spec

-----------------------------------------------------------------------------
(* No money is lost *)

\* What has come in for a source is its amount, a whole number of times, and a
\* link that does not exist yet has received nothing.
WholeAmounts ==
  /\ \A s \in Rows \cup Links : \E k \in Nat : ReceivedFrom(s) = AmountOf(s) * k
  /\ \A l \in Links : link[l].status = "none" => ReceivedFrom(l) = 0

LEMMA Multiples == ASSUME NEW d \in Nat, d > 0, NEW k \in Nat PROVE (d * k) % d = 0
OBVIOUS

LEMMA OnceMore ==
  ASSUME NEW d \in Nat, NEW k \in Nat
  PROVE  d * k + d = d * (k + 1) /\ d * k <= d * (k + 1) /\ d * k \in Nat
OBVIOUS

LEMMA AmountsAre ==
  ASSUME TypeOK, NEW s \in Rows \cup Links
  PROVE  /\ AmountOf(s) \in Nat /\ ReceivedFrom(s) \in Nat /\ s \in Sources /\ s # Hand
         /\ s \in Rows => s \notin Links /\ AmountOf(s) = Statement[s].amount
         /\ s \in Links => s \notin Rows /\ AmountOf(s) = link[s].amount
<1>1. s \in Sources /\ s # Hand /\ ~ (s \in Rows /\ s \in Links)
  BY RowsAre, IntakeAssumption DEF Sources, Hand
<1>2. payments[s] \in [allocated : Nat, unallocated : Nat]
  BY <1>1 DEF TypeOK, Money
<1>3. ReceivedFrom(s) \in Nat
  BY <1>2 DEF ReceivedFrom
<1>4. CASE s \in Rows
  BY <1>1, <1>3, <1>4, RowsTyped DEF AmountOf
<1>5. CASE s \in Links
  BY <1>1, <1>3, <1>5 DEF AmountOf, TypeOK, LinkType, Money
<1>6. QED
  BY <1>4, <1>5

\* A link keeps its status or moves on, and has its amount from the start.
LinksMove ==
  \A l \in Links :
    /\ link'[l].status = "none" => link[l].status = "none"
    /\ link[l].status # "none" => link'[l].amount = link[l].amount

\* A step that records no payment.
LEMMA WholeStep ==
  ASSUME IInv, IInv', WholeAmounts, UNCHANGED payments, LinksMove
  PROVE  WholeAmounts'
<1>1. \A s : ReceivedFrom(s)' = ReceivedFrom(s)
  BY DEF ReceivedFrom
<1>2. ASSUME NEW s \in Rows \cup Links
      PROVE  \E k \in Nat : ReceivedFrom(s)' = AmountOf(s)' * k
  <2>1. AmountOf(s)' \in Nat
    BY RowsTyped DEF IInv, TypeOK, LinkType, Money, AmountOf
  <2>2. CASE s \in Links /\ link[s].status = "none"
    <3>1. ReceivedFrom(s)' = 0
      BY <1>1, <2>2 DEF WholeAmounts
    <3>2. AmountOf(s)' * 0 = 0
      BY <2>1
    <3>3. QED
      BY <3>1, <3>2
  <2>3. CASE ~ (s \in Links /\ link[s].status = "none")
    <3>1. AmountOf(s)' = AmountOf(s)
      BY <2>3 DEF AmountOf, LinksMove
    <3>2. QED
      BY <1>1, <1>2, <3>1 DEF WholeAmounts
  <2>4. QED
    BY <2>2, <2>3
<1>3. ASSUME NEW l \in Links, link'[l].status = "none" PROVE ReceivedFrom(l)' = 0
  BY <1>1, <1>3 DEF WholeAmounts, LinksMove
<1>4. QED
  BY <1>2, <1>3 DEF WholeAmounts

\* recordPayment adds the amount of its source, once, to what it has received.
LEMMA WriteAdds ==
  ASSUME IInv, NEW p \in Procs, Write(p)
  PROVE  /\ \A s \in Rows \cup Links :
              ReceivedFrom(s)' = ReceivedFrom(s) + (IF s = job[p].src THEN AmountOf(s) ELSE 0)
         /\ job[p].src \in Links => link[job[p].src].status # "none"
<1> DEFINE j == job[p]
           sum == Payment(payments[j.src].allocated + Booking(j).allocated,
                          payments[j.src].unallocated + Booking(j).unallocated)
<1>1. j \in JobType /\ j.at = "write" /\ Stands(j, link) /\ j.amount \in Nat
  BY DEF Write, IInv, TypeOK, JobType, Money, JobsStand
<1>2. payments' = [payments EXCEPT ![j.src] = sum]
  BY DEF Write
<1>3. Booking(j).allocated \in Nat /\ Booking(j).unallocated \in Nat
      /\ Booking(j).allocated + Booking(j).unallocated = j.amount
  BY <1>1, BookingType DEF IInv
<1>4. j.src \in Sources /\ payments[j.src].allocated \in Nat /\ payments[j.src].unallocated \in Nat
  BY <1>1 DEF IInv, TypeOK, JobType, Money
<1>5. sum.allocated + sum.unallocated
        = payments[j.src].allocated + payments[j.src].unallocated + j.amount
  BY <1>1, <1>3, <1>4 DEF Payment
<1>6. j.src \in Rows \cup Links => j.amount = AmountOf(j.src)
  BY <1>1, AmountsAre DEF Stands, IInv
<1>7. j.src \in Links => link[j.src].status # "none"
  BY <1>1, AmountsAre DEF Stands, IInv
<1> HIDE DEF j, sum
<1>8. payments \in [Sources -> [allocated : Money, unallocated : Money]]
  BY DEF IInv, TypeOK
<1>9. ASSUME NEW s \in Rows \cup Links
      PROVE  ReceivedFrom(s)' = ReceivedFrom(s) + (IF s = j.src THEN AmountOf(s) ELSE 0)
  <2>1. s \in Sources /\ ReceivedFrom(s) \in Nat
    BY AmountsAre DEF IInv
  <2>2. payments'[s] = IF s = j.src THEN sum ELSE payments[s]
    BY <1>2, <1>8, <2>1
  <2>3. CASE s = j.src
    BY <1>5, <1>6, <2>2, <2>3 DEF ReceivedFrom
  <2>4. CASE s # j.src
    BY <2>1, <2>2, <2>4 DEF ReceivedFrom
  <2>5. QED
    BY <2>3, <2>4
<1>10. QED
  BY <1>7, <1>9 DEF j

LEMMA WriteWhole ==
  ASSUME IInv, IInv', WholeAmounts, NEW p \in Procs, Write(p) PROVE WholeAmounts'
<1> DEFINE src == job[p].src
<1>1. \A s \in Rows \cup Links :
        ReceivedFrom(s)' = ReceivedFrom(s) + (IF s = src THEN AmountOf(s) ELSE 0)
  BY WriteAdds
<1>2. src \in Links => link[src].status # "none"
  BY WriteAdds
<1>3. link' = link
  BY DEF Write
<1> HIDE DEF src
<1>4. ASSUME NEW s \in Rows \cup Links
      PROVE  \E k \in Nat : ReceivedFrom(s)' = AmountOf(s)' * k
  <2>1. AmountOf(s) \in Nat /\ AmountOf(s)' = AmountOf(s) /\ ReceivedFrom(s) \in Nat
    BY <1>3, AmountsAre DEF IInv, AmountOf
  <2>2. PICK k \in Nat : ReceivedFrom(s) = AmountOf(s) * k
    BY DEF WholeAmounts
  <2>3. CASE s = src
    <3>1. ReceivedFrom(s)' = AmountOf(s) * k + AmountOf(s)
      BY <1>1, <2>2, <2>3
    <3>2. k + 1 \in Nat
      OBVIOUS
    <3>4. AmountOf(s) * k + AmountOf(s) = AmountOf(s) * (k + 1)
      BY <2>1, OnceMore, Zenon
    <3>3. QED
      BY <2>1, <3>1, <3>2, <3>4
  <2>4. CASE s # src
    BY <1>1, <2>1, <2>2, <2>4
  <2>5. QED
    BY <2>3, <2>4
<1>5. ASSUME NEW l \in Links, link'[l].status = "none" PROVE ReceivedFrom(l)' = 0
  <2>1. l # src /\ ReceivedFrom(l) = 0
    BY <1>2, <1>3, <1>5 DEF WholeAmounts
  <2>2. QED
    BY <1>1, <2>1
<1>6. QED
  BY <1>4, <1>5 DEF WholeAmounts

\* Only recordPayment touches the payments, and no step unmakes a link.
LEMMA LinksMoveOn ==
  ASSUME IInv, [Next]_vars
  PROVE  LinksMove /\ (UNCHANGED payments \/ \E p \in Procs : Write(p))
<1>1. ASSUME NEW p \in Procs, NEW l \in Links, CreateLink(p, l) PROVE LinksMove /\ UNCHANGED payments
  <2> DEFINE new == [status |-> "open", invoice |-> job[p].to, amount |-> job[p].amount,
                     expired |-> FALSE]
  <2>1. link' = [link EXCEPT ![l] = new] /\ link[l].status = "none" /\ UNCHANGED payments
    BY <1>1 DEF CreateLink
  <2>2. new.status = "open"
    OBVIOUS
  <2> HIDE DEF new
  <2>3. link \in [Links -> LinkType]
    BY DEF IInv, TypeOK
  <2>4. QED
    BY <2>1, <2>2, <2>3 DEF LinksMove
<1>2. ASSUME NEW p \in Procs, MarkLink(p) PROVE LinksMove /\ UNCHANGED payments
  BY <1>2 DEF MarkLink, IInv, TypeOK, LinkType, LinksMove
<1>3. ASSUME NEW l \in Links, Expire(l) PROVE LinksMove /\ UNCHANGED payments
  BY <1>3 DEF Expire, IInv, TypeOK, LinkType, LinksMove
<1>4. CASE link' = link
  <2>1. LinksMove
    BY <1>4 DEF LinksMove
  <2>2. ASSUME NEW p \in Procs, Start(p) PROVE UNCHANGED payments
    BY <2>2 DEF Start, StartCommit, StartPay, StartLink, StartMatch, StartSettle
  <2>3. ASSUME NEW p \in Procs, Step(p) PROVE UNCHANGED payments \/ Write(p)
    BY <2>3 DEF Step, CommitNext, CommitEnd, MatchWrite, MatchBook, MatchCount, CreateLink, Record,
                MarkRow, MarkLink
  <2>4. QED
    BY <2>1, <2>2, <2>3 DEF Next, Preview, Expire, Restart, vars
<1>5. CASE link' # link
  <2>1. ASSUME NEW p \in Procs, Start(p) PROVE FALSE
    BY <1>5, <2>1 DEF Start, StartCommit, StartPay, StartLink, StartMatch, StartSettle
  <2>2. ASSUME NEW p \in Procs, Step(p) PROVE MarkLink(p) \/ \E l \in Links : CreateLink(p, l)
    BY <1>5, <2>2 DEF Step, CommitNext, CommitEnd, MatchWrite, MatchBook, MatchCount, Record, Write,
                      MarkRow
  <2>3. QED
    BY <1>1, <1>2, <1>3, <1>5, <2>1, <2>2 DEF Next, Preview, Restart, vars
<1>6. QED
  BY <1>4, <1>5

LEMMA WholeHolds == IInv /\ WholeAmounts /\ [Next]_vars => WholeAmounts'
<1> SUFFICES ASSUME IInv, WholeAmounts, [Next]_vars PROVE WholeAmounts'
  OBVIOUS
<1>1. IInv'
  BY NextHolds
<1>2. QED
  BY <1>1, LinksMoveOn, WholeStep, WriteWhole

LEMMA WholeInit == Init => WholeAmounts
<1> SUFFICES ASSUME Init PROVE WholeAmounts
  OBVIOUS
<1>1. TypeOK
  BY InitHolds DEF IInv
<1>2. ASSUME NEW s \in Rows \cup Links PROVE ReceivedFrom(s) = 0 /\ AmountOf(s) * 0 = 0
  BY <1>1, AmountsAre DEF Init, ReceivedFrom, NoPayment
<1>3. QED
  BY <1>2 DEF WholeAmounts

\* Whatever an invoice no longer takes stays with its building: what a row or a
\* link has brought in is its amount for each time it was booked, also when the
\* invoice was settled between the choice and the booking.
THEOREM MoneyKept == Spec => []MoneyIsKept
<1>1. IInv /\ WholeAmounts => MoneyIsKept
  <2> SUFFICES ASSUME IInv, WholeAmounts, NEW s \in Rows \cup Links, HasPayment(s)
               PROVE  ReceivedFrom(s) % AmountOf(s) = 0
    BY DEF MoneyIsKept
  <2>1. PICK k \in Nat : ReceivedFrom(s) = AmountOf(s) * k
    BY DEF WholeAmounts
  <2>2. AmountOf(s) \in Nat /\ AmountOf(s) > 0
    <3>1. CASE s \in Rows
      BY <3>1, AmountsAre, RowsTyped DEF IInv
    <3>2. CASE s \in Links
      <4>1. link[s].status # "none"
        BY <3>2 DEF HasPayment, WholeAmounts
      <4>2. QED
        BY <3>2, <4>1, AmountsAre DEF IInv, LinksPriced
    <3>3. QED
      BY <3>1, <3>2
  <2>3. QED
    BY <2>1, <2>2, Multiples
<1>2. QED
  BY <1>1, InitHolds, NextHolds, WholeInit, WholeHolds, PTL DEF Spec

-----------------------------------------------------------------------------
(* No money is booked twice *)

OneClerk == \A p, q \in Clerks : p = q
OnePayer == \A p, q \in Payers : p = q

Turn == {"match", "book", "record", "write", "mark"}
SettledIn(s, rows, links) ==
  IF s \in Links THEN links[s].status = "paid" ELSE rows[s].status = "booked"

\* Payers settle links and clerks do the rest; a row is only worked on when the
\* import has been read; and what is still to be booked is not settled.
Fits(p, J, status, rows, links) ==
  /\ IF J.for = "link" THEN p \in Payers ELSE J.at = "idle" \/ p \in Clerks
  /\ J.at \in Turn /\ J.src \in Rows => status # "none"
  /\ J.at \in Turn \ {"mark"} /\ J.src \in Rows \cup Links => ~SettledIn(J.src, rows, links)

NothingBefore == import.status = "none" => \A r \in Rows : row[r].status # "booked"

\* Once for each payment whose mark was lost, and once more when it is marked
\* or about to be.
Marking(s) == \E p \in Procs : job[p].at = "mark" /\ job[p].src = s
Times(s) == lost[s] + (IF SettledIn(s, row, link) \/ Marking(s) THEN 1 ELSE 0)
AsOften == \A s \in Rows \cup Links : ReceivedFrom(s) <= AmountOf(s) * Times(s)

OnceInv ==
  /\ IInv /\ WholeAmounts
  /\ \A p \in Procs : Fits(p, job[p], import.status, row, link)
  /\ NothingBefore /\ AsOften

LEMMA TimesType ==
  ASSUME IInv, NEW s \in Rows \cup Links PROVE lost[s] \in Nat /\ Times(s) \in Nat
<1>1. lost[s] \in Nat
  BY AmountsAre DEF IInv, TypeOK
<1>2. QED
  BY <1>1 DEF Times

LEMMA Products ==
  ASSUME NEW d \in Nat, NEW a \in Nat, NEW b \in Nat, a <= b
  PROVE  d * a \in Nat /\ d * b \in Nat /\ d * a <= d * b
OBVIOUS

\* A row is booked for a clerk and a link for a payer.
LEMMA KindOf ==
  ASSUME IInv, NEW p \in Procs, job[p].at \in Turn
  PROVE  /\ job[p].src \in Rows => job[p].for # "link"
         /\ job[p].src \in Links => job[p].for = "link"
         /\ job[p].src \in Rows \cup Links => job[p].for # "hand"
<1>1. Placed(job[p]) /\ Stands(job[p], link)
  BY DEF IInv, JobsPlaced, JobsStand
<1>2. \A s \in Rows \cup Links : s # Hand /\ ~ (s \in Rows /\ s \in Links)
  BY AmountsAre DEF IInv
<1>3. QED
  BY <1>1, <1>2 DEF Placed, Stands, Turn

\* Nobody else works on the same row or link.
LEMMA Alone ==
  ASSUME OneClerk, OnePayer, OnceInv, NEW p \in Procs, NEW q \in Procs,
         job[p].at \in Turn, job[q].at \in Turn,
         job[p].src = job[q].src, job[p].src \in Rows \cup Links
  PROVE  p = q
<1>1. (job[p].for = "link") <=> (job[q].for = "link")
  BY KindOf DEF OnceInv
<1>2. job[p].at # "idle" /\ job[q].at # "idle"
  BY DEF Turn
<1>3. CASE job[p].for = "link"
  BY <1>1, <1>3 DEF OnceInv, Fits, OnePayer
<1>4. CASE job[p].for # "link"
  BY <1>1, <1>2, <1>4 DEF OnceInv, Fits, OneClerk
<1>5. QED
  BY <1>3, <1>4

\* What is booked as often as before stays within its bound.
LEMMA OftenKept ==
  ASSUME IInv, IInv', WholeAmounts, AsOften, UNCHANGED payments, LinksMove,
         \A s \in Rows \cup Links : Times(s) <= Times(s)'
  PROVE  AsOften'
<1> SUFFICES ASSUME NEW s \in Rows \cup Links PROVE ReceivedFrom(s)' <= AmountOf(s)' * Times(s)'
  BY DEF AsOften
<1>1. ReceivedFrom(s)' = ReceivedFrom(s) /\ ReceivedFrom(s) \in Nat
  BY AmountsAre DEF ReceivedFrom, IInv
<1>2. AmountOf(s) \in Nat /\ AmountOf(s)' \in Nat
  <2>1. AmountOf(s) \in Nat
    BY AmountsAre DEF IInv
  <2>2. AmountOf(s)' \in Nat
    BY RowsTyped DEF IInv, TypeOK, LinkType, Money, AmountOf
  <2>3. QED
    BY <2>1, <2>2
<1>3. Times(s) \in Nat /\ Times(s)' \in Nat
  <2>1. lost'[s] \in Nat
    <3>1. s \in Sources
      BY AmountsAre DEF IInv
    <3>2. QED
      BY <3>1 DEF IInv, TypeOK
  <2>2. QED
    BY <2>1, TimesType DEF Times
<1>4. CASE s \in Links /\ link[s].status = "none"
  <2>1. ReceivedFrom(s)' = 0
    BY <1>1, <1>4 DEF WholeAmounts
  <2> DEFINE d == AmountOf(s)'
             b == Times(s)'
  <2>2. d \in Nat /\ b \in Nat
    BY <1>2, <1>3
  <2> HIDE DEF d, b
  <2>3. d * b \in Nat
    BY <2>2, Products
  <2>4. QED
    BY <2>1, <2>3 DEF d, b
<1>5. CASE ~ (s \in Links /\ link[s].status = "none")
  <2> DEFINE d == AmountOf(s)
             a == Times(s)
             b == Times(s)'
  <2>1. AmountOf(s)' = d
    BY <1>5 DEF AmountOf, LinksMove
  <2>2. d \in Nat /\ a \in Nat /\ b \in Nat /\ a <= b /\ ReceivedFrom(s) <= d * a
    BY <1>2, <1>3 DEF AsOften
  <2> HIDE DEF d, a, b
  <2>3. d * a \in Nat /\ d * b \in Nat /\ d * a <= d * b
    BY <2>2, Products
  <2>4. ReceivedFrom(s) <= d * b
    BY <1>1, <2>2, <2>3
  <2>5. QED
    BY <1>1, <2>1, <2>4 DEF b
<1>6. QED
  BY <1>4, <1>5

\* A request moves on without a payment: only its own source may become
\* settled, and only from its mark.
LEMMA OnceStep ==
  ASSUME OneClerk, OnePayer, OnceInv, IInv', WholeAmounts', NEW p \in Procs, NEW J, Become(p, J),
         UNCHANGED <<payments, lost>>, LinksMove,
         import.status # "none" => import'.status # "none",
         \A s \in Rows \cup Links :
           IF SettledIn(s, row, link) \/ (s = job[p].src /\ job[p].at = "mark")
           THEN SettledIn(s, row', link') ELSE ~SettledIn(s, row', link'),
         Fits(p, J, import'.status, row', link')
  PROVE  OnceInv'
<1>1. job' = [job EXCEPT ![p] = J] /\ job \in [Procs -> JobType]
  BY DEF Become, OnceInv, IInv, TypeOK
<1>2. job'[p] = J /\ \A q \in Procs \ {p} : job'[q] = job[q]
  BY <1>1
<1>3. ASSUME NEW q \in Procs PROVE Fits(q, job'[q], import'.status, row', link')
  <2>1. CASE q = p
    BY <1>2, <2>1
  <2>2. CASE q # p
    <3>1. Fits(q, job[q], import.status, row, link)
      BY DEF OnceInv
    <3>2. ASSUME job[q].at \in Turn \ {"mark"}, job[q].src \in Rows \cup Links
          PROVE  ~SettledIn(job[q].src, row', link')
      <4>1. job[q].at \in Turn /\ ~SettledIn(job[q].src, row, link)
        BY <3>1, <3>2 DEF Fits
      <4>2. ~ (job[q].src = job[p].src /\ job[p].at = "mark")
        BY <2>2, <3>2, <4>1, Alone DEF Turn
      <4>3. QED
        BY <3>2, <4>1, <4>2
    <3>3. QED
      BY <1>2, <2>2, <3>1, <3>2 DEF Fits
  <2>3. QED
    BY <2>1, <2>2
<1>4. NothingBefore'
  <2> SUFFICES ASSUME import'.status = "none", NEW r \in Rows PROVE row'[r].status # "booked"
    BY DEF NothingBefore
  <2>1. import.status = "none" /\ row[r].status # "booked" /\ r \notin Links
    BY AmountsAre DEF OnceInv, NothingBefore, IInv
  <2>2. ~ (r = job[p].src /\ job[p].at = "mark")
    BY <2>1 DEF OnceInv, Fits, Turn
  <2>3. QED
    BY <2>1, <2>2 DEF SettledIn
<1>5. ASSUME NEW s \in Rows \cup Links PROVE Times(s) <= Times(s)'
  <2>1. SettledIn(s, row, link) \/ Marking(s) => SettledIn(s, row', link') \/ Marking(s)'
    BY <1>2 DEF Marking
  <2>2. lost[s] \in Nat /\ lost' = lost
    BY TimesType DEF OnceInv
  <2>3. QED
    BY <2>1, <2>2 DEF Times, SettledIn
<1>6. AsOften'
  BY <1>5, OftenKept DEF OnceInv
<1>7. QED
  BY <1>3, <1>4, <1>6 DEF OnceInv

\* ... and a step of nobody's.
LEMMA OnceQuiet ==
  ASSUME OnceInv, IInv', WholeAmounts', UNCHANGED <<payments, lost, job>>, LinksMove,
         import.status # "none" => import'.status # "none",
         \A s \in Rows \cup Links : SettledIn(s, row, link) <=> SettledIn(s, row', link')
  PROVE  OnceInv'
<1>1. ASSUME NEW p \in Procs PROVE Fits(p, job'[p], import'.status, row', link')
  <2>1. Fits(p, job[p], import.status, row, link)
    BY DEF OnceInv
  <2>2. QED
    BY <2>1 DEF Fits
<1>2. NothingBefore'
  <2> SUFFICES ASSUME import'.status = "none", NEW r \in Rows PROVE row'[r].status # "booked"
    BY DEF NothingBefore
  <2>1. row[r].status # "booked" /\ r \notin Links
    BY AmountsAre DEF OnceInv, NothingBefore, IInv
  <2>2. QED
    BY <2>1 DEF SettledIn
<1>3. ASSUME NEW s \in Rows \cup Links PROVE Times(s) <= Times(s)'
  <2>1. SettledIn(s, row, link) \/ Marking(s) => SettledIn(s, row', link') \/ Marking(s)'
    BY DEF Marking
  <2>2. lost[s] \in Nat /\ lost' = lost
    BY TimesType DEF OnceInv
  <2>3. QED
    BY <2>1, <2>2 DEF Times, SettledIn
<1>4. AsOften'
  BY <1>3, OftenKept DEF OnceInv
<1>5. QED
  BY <1>1, <1>2, <1>4 DEF OnceInv

\* The tables of rows and links stand still.
LEMMA OnceTalk ==
  ASSUME OneClerk, OnePayer, OnceInv, IInv', WholeAmounts', NEW p \in Procs, NEW J, Become(p, J),
         UNCHANGED <<payments, lost, row, link>>, job[p].at # "mark",
         import.status # "none" => import'.status # "none",
         Fits(p, J, import'.status, row, link)
  PROVE  OnceInv'
<1>1. LinksMove
  BY DEF LinksMove
<1>2. Fits(p, J, import'.status, row', link')
  OBVIOUS
<1>3. \A s \in Rows \cup Links :
        IF SettledIn(s, row, link) \/ (s = job[p].src /\ job[p].at = "mark")
        THEN SettledIn(s, row', link') ELSE ~SettledIn(s, row', link')
  OBVIOUS
<1>4. QED
  BY <1>1, <1>2, <1>3, OnceStep

LEMMA IdleFits == \A p, status, rows, links : Fits(p, Idle, status, rows, links)
BY DEF Idle, Fits, Turn

LEMMA RowIsSettled ==
  ASSUME NEW r \in Rows, NEW rows, NEW links
  PROVE  SettledIn(r, rows, links) <=> rows[r].status = "booked"
BY RowsAre, IntakeAssumption DEF SettledIn

LEMMA ClerkActs ==
  ASSUME OnceInv, NEW p \in Procs, job[p].at # "idle", job[p].for # "link" PROVE p \in Clerks
BY DEF OnceInv, Fits

LEMMA StartOnce ==
  ASSUME OneClerk, OnePayer, OnceInv, IInv', WholeAmounts', NEW p \in Procs, Start(p)
  PROVE  OnceInv'
<1>1. ASSUME p \in Clerks, StartCommit(p) PROVE OnceInv'
  <2> DEFINE J == [Idle EXCEPT !.at = "next", !.for = "commit", !.todo = Proposed(row)]
  <2>1. Become(p, J) /\ UNCHANGED <<payments, lost, row, link, import>> /\ job[p].at # "mark"
    BY <1>1 DEF StartCommit
  <2>2. Fits(p, J, import'.status, row, link)
    BY <1>1 DEF Idle, Fits, Turn
  <2> HIDE DEF J
  <2>3. QED
    BY <2>1, <2>2, OnceTalk
<1>2. ASSUME p \in Clerks, NEW i \in Invoices, StartPay(p, i) PROVE OnceInv'
  <2> DEFINE J == [Idle EXCEPT !.at = "record", !.for = "hand", !.to = i, !.amount = OpenCents(i)]
  <2>1. Become(p, J) /\ UNCHANGED <<payments, lost, row, link, import>> /\ job[p].at # "mark"
    BY <1>2 DEF StartPay
  <2>2. J.src = Hand /\ J.for = "hand"
    BY DEF Idle
  <2>3. Hand \notin Rows \cup Links
    BY AmountsAre DEF OnceInv, IInv
  <2> HIDE DEF J
  <2>4. Fits(p, J, import'.status, row, link)
    BY <1>2, <2>2, <2>3 DEF Fits
  <2>5. QED
    BY <2>1, <2>4, OnceTalk
<1>3. ASSUME p \in Clerks, NEW i \in Invoices, StartLink(p, i) PROVE OnceInv'
  <2> DEFINE J == [Idle EXCEPT !.at = "link", !.to = i, !.amount = OpenCents(i)]
  <2>1. /\ Become(p, Idle) \/ Become(p, J)
        /\ UNCHANGED <<payments, lost, row, link, import>> /\ job[p].at # "mark"
    BY <1>3 DEF StartLink
  <2>2. Fits(p, J, import'.status, row, link)
    BY <1>3 DEF Idle, Fits, Turn
  <2> HIDE DEF J
  <2>3. QED
    BY <2>1, <2>2, IdleFits, OnceTalk
<1>4. ASSUME p \in Clerks, NEW r \in Rows, NEW what \in {"ignore", "invoice", "building", "clear"},
             NEW i \in Invoices \cup {NoInvoice}, StartMatch(p, r, what, i)
      PROVE  OnceInv'
  <2> DEFINE J == [Idle EXCEPT !.at = "match", !.for = what, !.src = r, !.to = i,
                               !.committed = (import.status = "committed")]
  <2>1. /\ Become(p, J) /\ UNCHANGED <<payments, lost, row, link, import>> /\ job[p].at # "mark"
        /\ import.status # "none" /\ row[r].status # "booked"
    BY <1>4 DEF StartMatch
  <2>2. J.src = r /\ J.for = what
    BY DEF Idle
  <2> HIDE DEF J
  <2>3. Fits(p, J, import'.status, row, link)
    BY <1>4, <2>1, <2>2, RowIsSettled DEF Fits
  <2>4. QED
    BY <2>1, <2>3, OnceTalk
<1>5. ASSUME p \in Payers, NEW l \in Links, StartSettle(p, l) PROVE OnceInv'
  <2> DEFINE J == [Idle EXCEPT !.at = "record", !.for = "link", !.src = l,
                               !.to = OpenOr(link[l].invoice), !.amount = link[l].amount]
  <2>1. /\ Become(p, J) /\ UNCHANGED <<payments, lost, row, link, import>> /\ job[p].at # "mark"
        /\ ~Paid(l)
    BY <1>5 DEF StartSettle
  <2>2. J.src = l /\ J.for = "link"
    BY DEF Idle
  <2>3. l \notin Rows /\ link[l].status # "paid"
    BY <2>1, AmountsAre DEF Paid, OnceInv, IInv, SettledHasPayment
  <2> HIDE DEF J
  <2>4. Fits(p, J, import'.status, row, link)
    BY <1>5, <2>2, <2>3 DEF Fits, SettledIn
  <2>5. QED
    BY <2>1, <2>4, OnceTalk
<1>6. QED
  BY <1>1, <1>2, <1>3, <1>4, <1>5 DEF Start

\* bookRow goes on with a row that is not booked yet.
LEMMA BookRowFits ==
  ASSUME OnceInv, NEW p \in Clerks, NEW r \in Rows, NEW J, J.src = r, J.at = "record",
         J.for # "link", Bookable(r), import.status # "none"
  PROVE  Fits(p, J, import.status, row, link)
BY RowIsSettled DEF Fits, Bookable

LEMMA BookingOnce ==
  ASSUME OneClerk, OnePayer, OnceInv, IInv', WholeAmounts', NEW p \in Procs,
         CommitNext(p) \/ MatchBook(p)
  PROVE  OnceInv'
<1> DEFINE r == IF job[p].at = "next" THEN First(job[p].todo) ELSE job[p].src
           B == [job[p] EXCEPT !.at = "record", !.src = r, !.to = OpenOr(row[r].invoice),
                   !.amount = Statement[r].amount, !.todo = job[p].todo \ {r}]
           S == [job[p] EXCEPT !.todo = @ \ {r}]
           C == [job[p] EXCEPT !.at = "count"]
<1>1. job[p] \in JobType /\ Placed(job[p]) /\ Covers(job[p], row) /\ job[p].todo \in SUBSET Rows
      /\ (job[p].for = "commit" => import.status # "none")
      /\ Fits(p, job[p], import.status, row, link)
  BY DEF OnceInv, IInv, TypeOK, JobType, JobsPlaced, CommitsCover
<1>2. \/ job[p].at = "next" /\ job[p].todo # {} /\ Become(p, IF Bookable(r) THEN B ELSE S)
      \/ job[p].at = "book" /\ Become(p, IF Bookable(r) THEN B ELSE C)
  BY DEF CommitNext, MatchBook, BookRow
<1>3. UNCHANGED <<payments, lost, row, link, import>>
  BY DEF CommitNext, MatchBook
<1>4. r \in Rows
  <2>1. CASE job[p].at = "next"
    BY <1>1, <1>2, <2>1, FirstIsIn
  <2>2. CASE job[p].at = "book"
    BY <1>1, <2>2 DEF Placed
  <2>3. QED
    BY <1>2, <2>1, <2>2
<1> HIDE DEF r
<1>5. /\ B.at = "record" /\ B.src = r /\ B.for = job[p].for
      /\ S.at = job[p].at /\ S.for = job[p].for
      /\ C.at = "count" /\ C.for = job[p].for
  BY <1>1 DEF JobType
<1> HIDE DEF B, S, C
<1>6. job[p].for # "link" /\ job[p].at # "idle" /\ p \in Clerks
  BY <1>1, <1>2, ClerkActs DEF Placed
<1>7. import.status # "none"
  BY <1>1, <1>2 DEF Placed, Fits, Turn
<1>8. CASE Become(p, B) /\ Bookable(r)
  <2>1. Fits(p, B, import.status, row, link)
    BY <1>4, <1>5, <1>6, <1>7, <1>8, BookRowFits
  <2>2. QED
    BY <1>2, <1>3, <1>8, <2>1, OnceTalk
<1>9. CASE Become(p, S) /\ job[p].at = "next"
  <2>1. Fits(p, S, import.status, row, link)
    BY <1>5, <1>6, <1>9 DEF Fits, Turn
  <2>2. QED
    BY <1>3, <1>9, <2>1, OnceTalk
<1>10. CASE Become(p, C)
  <2>1. Fits(p, C, import.status, row, link)
    BY <1>5, <1>6 DEF Fits, Turn
  <2>2. QED
    BY <1>2, <1>3, <1>10, <2>1, OnceTalk
<1>11. QED
  BY <1>2, <1>8, <1>9, <1>10

LEMMA EndOnce ==
  ASSUME OneClerk, OnePayer, OnceInv, IInv', WholeAmounts', NEW p \in Procs,
         CommitEnd(p) \/ MatchCount(p)
  PROVE  OnceInv'
<1>1. Become(p, Idle) /\ UNCHANGED <<payments, lost, row, link>> /\ job[p].at # "mark"
  BY DEF CommitEnd, MatchCount
<1>2. import.status # "none" => import'.status # "none"
  BY DEF CommitEnd, MatchCount, OnceInv, IInv, TypeOK
<1>3. QED
  BY <1>1, <1>2, IdleFits, OnceTalk

LEMMA RecordOnce ==
  ASSUME OneClerk, OnePayer, OnceInv, IInv', WholeAmounts', NEW p \in Procs, Record(p)
  PROVE  OnceInv'
<1> DEFINE j == job[p]
           W == [j EXCEPT !.at = "write"]
           V == [j EXCEPT !.at = "write", !.paid = invoice[j.to].paid]
<1>1. j \in JobType /\ j.at = "record" /\ Fits(p, j, import.status, row, link)
  BY DEF Record, OnceInv, IInv, TypeOK
<1>2. UNCHANGED <<payments, lost, row, link, import>>
  BY DEF Record
<1>3. Become(p, Idle) \/ Become(p, W) \/ Become(p, V)
  BY DEF Record
<1>4. /\ W.at = "write" /\ W.for = j.for /\ W.src = j.src
      /\ V.at = "write" /\ V.for = j.for /\ V.src = j.src
  BY <1>1 DEF JobType
<1> HIDE DEF W, V
<1>5. Fits(p, W, import.status, row, link) /\ Fits(p, V, import.status, row, link)
  BY <1>1, <1>4 DEF Fits, Turn
<1>6. QED
  BY <1>1, <1>2, <1>3, <1>5, IdleFits, OnceTalk

LEMMA MatchWriteOnce ==
  ASSUME OneClerk, OnePayer, OnceInv, IInv', WholeAmounts', NEW p \in Procs, MatchWrite(p)
  PROVE  OnceInv'
<1> DEFINE j == job[p]
           new == [status |-> CASE j.for = "ignore" -> "ignored" [] j.for = "clear" -> "unallocated"
                                [] OTHER -> "matched",
                   kind |-> IF j.for = "clear" THEN "none" ELSE "manual",
                   invoice |-> j.to, building |-> j.for \in {"invoice", "building"}]
           J == [j EXCEPT !.at = IF j.committed /\ j.for \in {"invoice", "building"}
                                 THEN "book" ELSE "count"]
<1>1. /\ j \in JobType /\ j.at = "match" /\ j.src \in Rows
      /\ Fits(p, j, import.status, row, link)
  BY DEF MatchWrite, OnceInv, IInv, TypeOK, JobsPlaced, Placed
<1>2. row' = [row EXCEPT ![j.src] = new] /\ Become(p, J) /\ UNCHANGED <<payments, lost, import, link>>
  BY DEF MatchWrite
<1>3. new.status # "booked"
  OBVIOUS
<1>4. J.at \in {"book", "count"} /\ J.for = j.for /\ J.src = j.src
  BY <1>1 DEF JobType
<1> HIDE DEF J, new, j
<1>5. row \in [Rows -> RowType]
  BY DEF OnceInv, IInv, TypeOK
<1>6. row[j.src].status # "booked" /\ row'[j.src].status # "booked"
      /\ \A r \in Rows : r # j.src => row'[r] = row[r]
  BY <1>1, <1>2, <1>3, <1>5, RowIsSettled DEF Fits, Turn
<1>7. \A s \in Rows \cup Links : SettledIn(s, row', link') <=> SettledIn(s, row, link)
  BY <1>2, <1>6 DEF SettledIn
<1>8. Fits(p, J, import'.status, row', link')
  BY <1>1, <1>2, <1>4, <1>6, RowIsSettled DEF Fits, Turn
<1>9. LinksMove
  BY <1>2 DEF LinksMove
<1>10. job[p].at # "mark"
  BY <1>1 DEF j
<1>11. QED
  BY <1>2, <1>7, <1>8, <1>9, <1>10, OnceStep

LEMMA MarkOnce ==
  ASSUME OneClerk, OnePayer, OnceInv, IInv', WholeAmounts', LinksMove, NEW p \in Procs,
         MarkRow(p) \/ MarkLink(p)
  PROVE  OnceInv'
<1> DEFINE src == job[p].src
<1>1. /\ job[p] \in JobType /\ job[p].at = "mark" /\ Fits(p, job[p], import.status, row, link)
      /\ UNCHANGED <<payments, lost, import>>
  BY DEF OnceInv, IInv, TypeOK, MarkRow, MarkLink
<1>2. row \in [Rows -> RowType] /\ link \in [Links -> LinkType]
  BY DEF OnceInv, IInv, TypeOK
<1>3. PICK J : Become(p, J) /\ J.at \notin Turn /\ (J = Idle \/ J.for = job[p].for)
  <2>1. CASE MarkLink(p)
    BY <2>1 DEF MarkLink, Idle, Turn
  <2>2. CASE MarkRow(p)
    <3> DEFINE K == [job[p] EXCEPT !.at = IF job[p].for = "commit" THEN "next" ELSE "count"]
    <3>1. Become(p, K)
      BY <2>2 DEF MarkRow
    <3>2. K.at \notin Turn /\ K.for = job[p].for
      BY <1>1 DEF JobType, Turn
    <3> HIDE DEF K
    <3>3. QED
      BY <3>1, <3>2
  <2>3. QED
    BY <2>1, <2>2
<1>4. Fits(p, J, import'.status, row', link')
  BY <1>1, <1>3, IdleFits DEF Fits
<1>5. src \in Rows => job[p].for # "link"
  BY <1>1, KindOf DEF OnceInv, Turn
<1>6. src \in Links => job[p].for = "link"
  BY <1>1, KindOf DEF OnceInv, Turn
<1>7. /\ MarkRow(p) => link' = link /\ job[p].for # "link"
                       /\ row' = [row EXCEPT ![src].status = "booked", ![src].invoice = job[p].to,
                                             ![src].building = TRUE]
      /\ MarkLink(p) => row' = row /\ job[p].for = "link"
                        /\ link' = [link EXCEPT ![src].status = "paid"]
  BY DEF MarkRow, MarkLink
<1> HIDE DEF src
<1>8. \A s \in Rows \cup Links :
        IF SettledIn(s, row, link) \/ s = src
        THEN SettledIn(s, row', link') ELSE ~SettledIn(s, row', link')
  <2> SUFFICES ASSUME NEW s \in Rows \cup Links
               PROVE  IF SettledIn(s, row, link) \/ s = src
                      THEN SettledIn(s, row', link') ELSE ~SettledIn(s, row', link')
    OBVIOUS
  <2>1. CASE MarkRow(p)
    <3>1. s \in Links => s # src
      BY <1>6, <1>7, <2>1
    <3>2. s \notin Links => s \in Rows /\ (row'[s].status = "booked" <=> s = src \/ row[s].status = "booked")
      BY <1>2, <1>7, <2>1 DEF RowType
    <3>3. QED
      BY <1>7, <2>1, <3>1, <3>2 DEF SettledIn
  <2>2. CASE MarkLink(p)
    <3>1. s \notin Links => s # src
      BY <1>5, <1>7, <2>2
    <3>2. s \in Links => (link'[s].status = "paid" <=> s = src \/ link[s].status = "paid")
      BY <1>2, <1>7, <2>2 DEF LinkType
    <3>3. QED
      BY <1>7, <2>2, <3>1, <3>2 DEF SettledIn
  <2>3. QED
    BY <2>1, <2>2
<1>9. \A s \in Rows \cup Links :
        IF SettledIn(s, row, link) \/ (s = job[p].src /\ job[p].at = "mark")
        THEN SettledIn(s, row', link') ELSE ~SettledIn(s, row', link')
  BY <1>1, <1>8 DEF src
<1>10. QED
  BY <1>1, <1>3, <1>4, <1>9, OnceStep

LEMMA CreateOnce ==
  ASSUME OneClerk, OnePayer, OnceInv, IInv', WholeAmounts', LinksMove, NEW p \in Procs, NEW l \in Links,
         CreateLink(p, l)
  PROVE  OnceInv'
<1> DEFINE new == [status |-> "open", invoice |-> job[p].to, amount |-> job[p].amount,
                   expired |-> FALSE]
<1>1. /\ Become(p, Idle) /\ UNCHANGED <<payments, lost, row, import>> /\ job[p].at = "link"
      /\ link[l].status = "none" /\ link' = [link EXCEPT ![l] = new]
  BY DEF CreateLink
<1>2. new.status = "open" /\ link \in [Links -> LinkType]
  BY DEF OnceInv, IInv, TypeOK
<1> HIDE DEF new
<1>3. \A s \in Rows \cup Links : SettledIn(s, row', link') <=> SettledIn(s, row, link)
  BY <1>1, <1>2 DEF SettledIn
<1>4. QED
  BY <1>1, <1>3, IdleFits, OnceStep

LEMMA WriteOnce ==
  ASSUME OneClerk, OnePayer, OnceInv, IInv', WholeAmounts', NEW p \in Procs, Write(p)
  PROVE  OnceInv'
<1> DEFINE j == job[p]
           J == AfterPayment(j)
<1>1. /\ j \in JobType /\ j.at = "write" /\ Fits(p, j, import.status, row, link)
      /\ Become(p, J) /\ UNCHANGED <<lost, row, link, import>>
  BY DEF Write, OnceInv, IInv, TypeOK
<1>2. J = Idle \/ (J.at = "mark" /\ J.for = j.for /\ J.src = j.src)
  BY <1>1 DEF AfterPayment, JobType
<1>3. j.src \in Rows \cup Links => J # Idle /\ J.at = "mark" /\ J.src = j.src
  <2> SUFFICES ASSUME j.src \in Rows \cup Links PROVE J # Idle /\ J.at = "mark" /\ J.src = j.src
    OBVIOUS
  <2>1. j.for # "hand"
    BY <1>1, KindOf DEF OnceInv, Turn
  <2>2. J.at = "mark" /\ J.src = j.src
    BY <1>1, <2>1 DEF AfterPayment, JobType
  <2>3. Idle.at = "idle"
    BY DEF Idle
  <2> HIDE DEF J
  <2>4. QED
    BY <2>2, <2>3
<1>4. \A s \in Rows \cup Links :
        ReceivedFrom(s)' = ReceivedFrom(s) + (IF s = j.src THEN AmountOf(s) ELSE 0)
  BY WriteAdds DEF OnceInv
<1>5. job' = [job EXCEPT ![p] = J] /\ job \in [Procs -> JobType]
  BY <1>1 DEF Become, OnceInv, IInv, TypeOK
<1> HIDE DEF J
<1>6. job'[p] = J /\ \A q \in Procs \ {p} : job'[q] = job[q]
  BY <1>5
<1>7. ASSUME NEW q \in Procs PROVE Fits(q, job'[q], import'.status, row', link')
  <2>1. CASE q = p
    <3>1. Fits(p, J, import.status, row, link)
      BY <1>1, <1>2, IdleFits DEF Fits, Turn
    <3>2. QED
      BY <1>1, <1>6, <2>1, <3>1
  <2>2. CASE q # p
    BY <1>1, <1>6, <2>2 DEF OnceInv
  <2>3. QED
    BY <2>1, <2>2
<1>8. NothingBefore'
  BY <1>1 DEF OnceInv, NothingBefore
<1>9. ASSUME NEW s \in Rows \cup Links PROVE ReceivedFrom(s)' <= AmountOf(s)' * Times(s)'
  <2>1. AmountOf(s)' = AmountOf(s) /\ AmountOf(s) \in Nat /\ ReceivedFrom(s) \in Nat
    BY <1>1, AmountsAre DEF AmountOf, OnceInv, IInv
  <2>2. lost[s] \in Nat /\ Times(s) \in Nat /\ lost' = lost /\ ReceivedFrom(s) <= AmountOf(s) * Times(s)
    BY <1>1, TimesType DEF OnceInv, AsOften
  <2>3. CASE s = j.src
    <3>1. ~SettledIn(s, row, link)
      BY <1>1, <2>3 DEF Fits, Turn
    <3>2. ~Marking(s)
      <4> SUFFICES ASSUME NEW q \in Procs, job[q].at = "mark", job[q].src = s PROVE FALSE
        BY DEF Marking
      <4>1. p = q
        BY <1>1, <2>3, Alone DEF Turn
      <4>2. QED
        BY <1>1, <4>1
    <3>3. Marking(s)'
      BY <1>3, <1>6, <2>3 DEF Marking
    <3>4. Times(s) = lost[s] /\ Times(s)' = lost[s] + 1
      BY <2>2, <3>1, <3>2, <3>3 DEF Times
    <3> DEFINE d == AmountOf(s)
               k == lost[s]
    <3>5. d \in Nat /\ k \in Nat /\ ReceivedFrom(s) <= d * k /\ ReceivedFrom(s)' = ReceivedFrom(s) + d
      BY <1>4, <2>1, <2>2, <2>3, <3>4
    <3>6. AmountOf(s)' * Times(s)' = d * (k + 1)
      BY <2>1, <3>4
    <3> HIDE DEF d, k
    <3>7. d * k + d = d * (k + 1) /\ d * k \in Nat
      BY <3>5, OnceMore
    <3>8. ReceivedFrom(s) + d <= d * (k + 1)
      BY <2>1, <3>5, <3>7
    <3>9. QED
      BY <3>5, <3>6, <3>8
  <2>4. CASE s # j.src
    <3>1. Marking(s)' <=> Marking(s)
      <4>1. J.at = "mark" => J.src = j.src
        BY <1>2 DEF Idle
      <4>2. \A q \in Procs : (job'[q].at = "mark" /\ job'[q].src = s)
                               <=> (job[q].at = "mark" /\ job[q].src = s)
        BY <1>1, <1>6, <2>4, <4>1
      <4>3. QED
        BY <4>2 DEF Marking
    <3>2. Times(s)' = Times(s)
      BY <1>1, <2>2, <3>1 DEF Times
    <3>3. ReceivedFrom(s)' = ReceivedFrom(s)
      BY <1>4, <2>1, <2>4
    <3>4. QED
      BY <2>1, <2>2, <3>2, <3>3
  <2>5. QED
    BY <2>3, <2>4
<1>10. AsOften'
  BY <1>9 DEF AsOften
<1>11. QED
  BY <1>7, <1>8, <1>10 DEF OnceInv

\* A restart counts the payments whose mark it loses.
LEMMA RestartOnce == ASSUME OnceInv, IInv', WholeAmounts', LinksMove, Restart PROVE OnceInv'
<1> DEFINE M(s) == {p \in Procs : job[p].at = "mark" /\ job[p].src = s}
<1>1. job' = [p \in Procs |-> Idle] /\ UNCHANGED <<payments, import, row, link>>
      /\ lost' = [s \in Sources |-> lost[s] + Cardinality(M(s))]
  BY DEF Restart
<1>2. ASSUME NEW s
      PROVE  Cardinality(M(s)) \in Nat /\ (Marking(s) => Cardinality(M(s)) >= 1)
  <2>1. IsFiniteSet(Procs)
    BY IntakeAssumption, FS_Union DEF Procs
  <2>2. M(s) \subseteq Procs
    OBVIOUS
  <2>3. Marking(s) => M(s) # {}
    BY DEF Marking
  <2> HIDE DEF M
  <2>4. IsFiniteSet(M(s)) /\ Cardinality(M(s)) \in Nat
    BY <2>1, <2>2, FS_Subset, FS_CardinalityType
  <2>5. Marking(s) => Cardinality(M(s)) # 0
    BY <2>3, <2>4, FS_EmptySet
  <2>6. QED
    BY <2>4, <2>5
<1> HIDE DEF M
<1>3. ASSUME NEW s \in Rows \cup Links PROVE Times(s) <= Times(s)'
  <2>1. lost[s] \in Nat /\ s \in Sources
    BY TimesType, AmountsAre DEF OnceInv, IInv
  <2>2. lost'[s] = lost[s] + Cardinality(M(s))
    BY <1>1, <2>1
  <2>3. Cardinality(M(s)) \in Nat /\ (Marking(s) => Cardinality(M(s)) >= 1)
    BY <1>2
  <2>4. SettledIn(s, row, link) => SettledIn(s, row', link')
    BY <1>1
  <2>5. QED
    BY <2>1, <2>2, <2>3, <2>4 DEF Times
<1>4. AsOften'
  BY <1>1, <1>3, OftenKept DEF OnceInv
<1>5. \A p \in Procs : Fits(p, job'[p], import'.status, row', link')
  BY <1>1, IdleFits
<1>6. NothingBefore'
  BY <1>1 DEF OnceInv, NothingBefore
<1>7. QED
  BY <1>4, <1>5, <1>6 DEF OnceInv

LEMMA NextOnce == ASSUME OneClerk, OnePayer, OnceInv, [Next]_vars PROVE OnceInv'
<1>1. IInv' /\ WholeAmounts' /\ LinksMove
  BY NextHolds, WholeHolds, LinksMoveOn DEF OnceInv
<1>2. CASE Preview
  <2>1. /\ UNCHANGED <<payments, link, job, lost>> /\ row' = [r \in Rows |-> MatchedRow(r)]
        /\ import.status = "none"
    BY <1>2 DEF Preview
  <2>2. \A r \in Rows : row[r].status # "booked" /\ row'[r].status # "booked"
    BY <2>1, MatchedRowType DEF OnceInv, NothingBefore
  <2>3. \A s \in Rows \cup Links : SettledIn(s, row, link) <=> SettledIn(s, row', link')
    BY <2>1, <2>2 DEF SettledIn
  <2>4. QED
    BY <1>1, <2>1, <2>3, OnceQuiet
<1>3. ASSUME NEW p \in Procs, Start(p) PROVE OnceInv'
  BY <1>1, <1>3, StartOnce
<1>4. ASSUME NEW p \in Procs, Step(p) PROVE OnceInv'
  BY <1>1, <1>4, BookingOnce, EndOnce, RecordOnce, MatchWriteOnce, MarkOnce, CreateOnce, WriteOnce
     DEF Step
<1>5. ASSUME NEW l \in Links, Expire(l) PROVE OnceInv'
  <2>1. link' = [link EXCEPT ![l].expired = TRUE] /\ link \in [Links -> LinkType]
        /\ UNCHANGED <<payments, import, row, job, lost>>
    BY <1>5 DEF Expire, OnceInv, IInv, TypeOK
  <2>2. \A m \in Links : link'[m].status = link[m].status
    BY <2>1 DEF LinkType
  <2>3. \A s \in Rows \cup Links : SettledIn(s, row, link) <=> SettledIn(s, row', link')
    BY <2>1, <2>2 DEF SettledIn
  <2>4. QED
    BY <1>1, <2>1, <2>3, OnceQuiet
<1>6. CASE UNCHANGED vars
  BY <1>1, <1>6, OnceQuiet DEF vars
<1>7. QED
  BY <1>1, <1>2, <1>3, <1>4, <1>5, <1>6, RestartOnce DEF Next

LEMMA OnceInit == Init => OnceInv
<1> SUFFICES ASSUME Init PROVE OnceInv
  OBVIOUS
<1>1. IInv /\ WholeAmounts
  BY InitHolds, WholeInit
<1>2. \A p \in Procs : Fits(p, job[p], import.status, row, link)
  BY IdleFits DEF Init
<1>3. NothingBefore
  BY DEF Init, NothingBefore, FreshRow
<1>4. ASSUME NEW s \in Rows \cup Links PROVE ReceivedFrom(s) <= AmountOf(s) * Times(s)
  <2>1. ReceivedFrom(s) = 0 /\ AmountOf(s) \in Nat /\ Times(s) \in Nat
    BY <1>1, AmountsAre, TimesType DEF IInv, Init, ReceivedFrom, NoPayment
  <2>2. AmountOf(s) * Times(s) \in Nat
    BY <2>1, Products
  <2>3. QED
    BY <2>1, <2>2
<1>5. QED
  BY <1>1, <1>2, <1>3, <1>4 DEF OnceInv, AsOften

\* One clerk and one payer: however commits, matches, hosted pages and restarts
\* interleave, a row or a link brings in its amount once, and once more only for
\* each restart that fell between its payment and its mark.
THEOREM BookedOnceAlone == ASSUME OneClerk, OnePayer PROVE Spec => []BookedOnce
<1>1. OnceInv /\ [Next]_vars => OnceInv'
  BY NextOnce
<1>2. OnceInv => BookedOnce
  <2> SUFFICES ASSUME OnceInv, NEW s \in Rows \cup Links
               PROVE  ReceivedFrom(s) <= AmountOf(s) * (1 + lost[s])
    BY DEF BookedOnce
  <2> DEFINE d == AmountOf(s)
             a == Times(s)
             b == 1 + lost[s]
  <2>1. d \in Nat /\ ReceivedFrom(s) \in Nat /\ ReceivedFrom(s) <= d * a
    BY AmountsAre DEF OnceInv, IInv, AsOften
  <2>2. a \in Nat /\ b \in Nat /\ a <= b
    <3>1. lost[s] \in Nat
      BY TimesType DEF OnceInv
    <3>2. QED
      BY <3>1 DEF Times
  <2> HIDE DEF d, a, b
  <2>3. d * a \in Nat /\ d * b \in Nat /\ d * a <= d * b
    BY <2>1, <2>2, Products
  <2>4. ReceivedFrom(s) <= d * b
    BY <2>1, <2>3
  <2>5. QED
    BY <2>4 DEF d, b
<1>3. QED
  BY <1>1, <1>2, OnceInit, PTL DEF Spec
=============================================================================
