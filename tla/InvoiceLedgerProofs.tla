--------------------------- MODULE InvoiceLedgerProofs ---------------------------
(***************************************************************************)
(* Proofs about InvoiceLedger, for every set of invoices and actors, every *)
(* amount, stage schedule and bound.                                       *)
(***************************************************************************)
EXTENDS InvoiceLedger, TLAPS

\* What a command read is never ahead of the rows booked since.
SnapsBehind ==
  \A p \in Actors, i \in Invoices :
    /\ job[p].snap[i].paid <= entries[i].paid
    /\ job[p].snap[i].credited <= entries[i].credited
    /\ job[p].snap[i].lateFee <= entries[i].feeCents

\* A command past its read has an invoice, and a dunning turn a stage.
Targeted ==
  \A p \in Actors :
    /\ job[p].at \in {"booking", "booked", "fee", "stage", "notice"} => job[p].inv \in Invoices
    /\ job[p].at \in {"fee", "stage", "notice"} => job[p].stage \in Stages

IInv == TypeOK /\ Targeted /\ SnapsBehind /\ SumsNeverOverstate

-----------------------------------------------------------------------------
(* The pure functions return what the rows may hold. *)

\* The stages are positions 1..n.
LEMMA StagesAreNat == Stages \subseteq Nat /\ \A k \in Stages : StageFee[k] \in Nat
BY LedgerAssumption DEF Stages

\* The open balance of a row is never negative, and so is what a payment settles of it.
LEMMA OpenCentsNat == ASSUME NEW row \in Row PROVE OpenCents(row) \in Nat
<1>1. Balance(row) \in Int
  BY LedgerAssumption DEF Balance, Row
<1>2. QED
  BY <1>1 DEF OpenCents, Positive

LEMMA StatusAfterStatus ==
  ASSUME NEW row \in Row, NEW day \in Nat PROVE StatusAfter(row, day) \in Statuses
BY DEF StatusAfter, Statuses, OpenStatuses, IsOpen, Row

LEMMA LateFeeNat ==
  ASSUME NEW row \in Row, NEW day \in Nat, NEW k \in Stages PROVE LateFeeFor(k, row, day) \in Nat
<1>1. StageFee[k] \in Nat /\ FeeCap - row.lateFee \in Int
  BY StagesAreNat, LedgerAssumption DEF Row
<1>2. QED
  BY <1>1 DEF LateFeeFor, Smaller, Positive

LEMMA AllocatedBounds ==
  ASSUME TypeOK, NEW p \in Actors, job[p].inv \in Invoices
  PROVE  Allocated(p) \in Nat /\ Allocated(p) <= job[p].amount
<1>1. job[p] \in Job /\ job[p].snap[job[p].inv] \in Row
  BY DEF TypeOK, Job
<1>2. OpenCents(job[p].snap[job[p].inv]) \in Nat
  BY <1>1, OpenCentsNat
<1>3. job[p].amount \in Nat
  BY <1>1 DEF Job
<1>4. QED
  BY <1>2, <1>3 DEF Allocated, Smaller

-----------------------------------------------------------------------------
(* Every action preserves the inductive invariant. *)

LEMMA IdleIsJob == Idle \in Job /\ \A i \in Invoices : Idle.snap[i] = NewRow
BY DEF Idle, Job, Places, NewRow, Row, Statuses, OpenStatuses

LEMMA InitHolds == Init => IInv
<1> SUFFICES ASSUME Init PROVE IInv
  OBVIOUS
<1> USE IdleIsJob
<1>1. TypeOK
  BY StagesAreNat, LedgerAssumption
     DEF Init, TypeOK, Entry, NewRow, Row, Statuses, OpenStatuses
<1>2. Targeted
  BY DEF Init, Targeted, Idle
<1>3. SnapsBehind
  BY DEF Init, SnapsBehind, Idle, NewRow
<1>4. SumsNeverOverstate
  BY DEF Init, SumsNeverOverstate, NewRow
<1>5. QED
  BY <1>1, <1>2, <1>3, <1>4 DEF IInv

\* A job record that keeps the invariant: well typed, aimed, and behind the rows.
Sound(J) ==
  /\ J \in Job
  /\ J.at \in {"booking", "booked", "fee", "stage", "notice"} => J.inv \in Invoices
  /\ J.at \in {"fee", "stage", "notice"} => J.stage \in Stages
  /\ \A i \in Invoices : /\ J.snap[i].paid <= entries[i].paid
                         /\ J.snap[i].credited <= entries[i].credited
                         /\ J.snap[i].lateFee <= entries[i].feeCents

LEMMA JobsAreSound == IInv => \A p \in Actors : Sound(job[p])
BY DEF IInv, TypeOK, Targeted, SnapsBehind, Sound

LEMMA IdleIsSound == TypeOK => Sound(Idle)
<1> SUFFICES ASSUME TypeOK PROVE Sound(Idle)
  OBVIOUS
<1>1. \A i \in Invoices : entries[i] \in Entry
  BY DEF TypeOK
<1>2. Idle.at = "idle"
  BY DEF Idle
<1>3. QED
  BY <1>1, <1>2, IdleIsJob DEF Sound, Entry, NewRow

\* The variables no command record or invoice invariant speaks of.
OthersTyped ==
  /\ today \in Nat
  /\ unallocated \in [Purposes -> Nat] /\ received \in [Purposes -> Nat]
  /\ noticeSent \in [Invoices -> [Stages -> Nat]]
  /\ left \in [Actors -> Nat]

\* Replacing one actor's record by a sound one keeps the invariant while the
\* tables it speaks of stay.
LEMMA JobStep ==
  ASSUME IInv, NEW p \in Actors, NEW J, Sound(J), Become(p, J),
         UNCHANGED <<invoice, entries>>, OthersTyped'
  PROVE  IInv'
<1>1. TypeOK'
  BY DEF IInv, TypeOK, OthersTyped, Sound, Become
<1>2. Targeted' /\ SnapsBehind'
  BY DEF IInv, TypeOK, Targeted, SnapsBehind, Sound, Become
<1>3. SumsNeverOverstate'
  BY DEF IInv, SumsNeverOverstate
<1>4. QED
  BY <1>1, <1>2, <1>3 DEF IInv

LEMMA BeginHolds ==
  ASSUME IInv, NEW p \in Actors, NEW kind \in Kinds(p), Begin(p, kind) PROVE IInv'
<1> USE DEF IInv
<1> DEFINE J == [Idle EXCEPT !.at = "rolled", !.kind = kind, !.asOf = today]
<1>1. J \in Job /\ J.snap = Idle.snap /\ J.at = "rolled"
  BY IdleIsJob DEF Job, Places, Kinds, PastDue, TypeOK, Idle
<1>2. job' = [job EXCEPT ![p] = J] /\ job \in [Actors -> Job]
  BY DEF Begin, TypeOK, Become
<1>3. \A i \in Invoices : /\ invoice'[i] \in Row
                          /\ invoice'[i].paid = invoice[i].paid
                          /\ invoice'[i].credited = invoice[i].credited
                          /\ invoice'[i].lateFee = invoice[i].lateFee
  BY DEF Begin, TypeOK, Row, Statuses, OpenStatuses
<1>4. TypeOK'
  BY <1>1, <1>2, <1>3 DEF TypeOK, Begin, money
<1>5. Targeted'
  BY <1>1, <1>2 DEF Targeted
<1>6. SnapsBehind'
  BY <1>1, <1>2, IdleIsJob DEF SnapsBehind, Begin, TypeOK, Entry, NewRow
<1>7. SumsNeverOverstate'
  BY <1>3 DEF SumsNeverOverstate, Begin
<1>8. QED
  BY <1>4, <1>5, <1>6, <1>7

LEMMA AnnounceOverdueHolds ==
  ASSUME IInv, NEW p \in Actors, AnnounceOverdue(p) PROVE IInv'
<1> DEFINE day == IF job[p].kind = "dunning" THEN job[p].asOf ELSE today
           J == [job[p] EXCEPT !.at = "ready", !.asOf = day]
<1>1. Sound(job[p]) /\ Sound(Idle) /\ today \in Nat
  BY JobsAreSound, IdleIsSound DEF IInv, TypeOK
<1>2. Sound(J)
  <2>1. day \in Nat
    BY <1>1 DEF Sound, Job
  <2>2. QED
    BY <1>1, <2>1 DEF Sound, Job, Places
<1>3. OthersTyped' /\ UNCHANGED <<invoice, entries>>
  BY DEF IInv, TypeOK, OthersTyped, AnnounceOverdue, money
<1>4. CASE job[p].kind = "view"
  BY <1>1, <1>3, <1>4, JobStep DEF AnnounceOverdue
<1>5. CASE job[p].kind # "view"
  BY <1>2, <1>3, <1>5, JobStep DEF AnnounceOverdue
<1>6. QED
  BY <1>4, <1>5

LEMMA ReadForPaymentHolds ==
  ASSUME IInv, NEW p \in Actors, NEW i \in Invoices, NEW amount \in Amounts,
         ReadForPayment(p, i, amount)
  PROVE  IInv'
<1> DEFINE snap == [job[p].snap EXCEPT ![i] = invoice[i]]
           J == [job[p] EXCEPT !.at = "booking", !.inv = i, !.amount = amount, !.snap = snap]
<1>1. Sound(job[p]) /\ Sound(Idle) /\ amount \in Nat /\ invoice[i] \in Row
  BY JobsAreSound, IdleIsSound, LedgerAssumption DEF IInv, TypeOK
<1>2. Sound(J)
  BY <1>1 DEF Sound, Job, Places, IInv, SumsNeverOverstate
<1>3. OthersTyped' /\ UNCHANGED <<invoice, entries>>
  BY DEF IInv, TypeOK, OthersTyped, ReadForPayment, money
<1>4. CASE IsOpen(invoice[i])
  BY <1>2, <1>3, <1>4, JobStep DEF ReadForPayment
<1>5. CASE ~IsOpen(invoice[i])
  BY <1>1, <1>3, <1>5, JobStep DEF ReadForPayment
<1>6. QED
  BY <1>4, <1>5

LEMMA ReadForCreditHolds ==
  ASSUME IInv, NEW p \in Actors, NEW i \in Invoices, NEW amount \in Amounts,
         ReadForCredit(p, i, amount)
  PROVE  IInv'
<1> DEFINE snap == [job[p].snap EXCEPT ![i] = invoice[i]]
           ok == IsOpen(invoice[i]) /\ amount <= OpenCents(invoice[i])
           J == [job[p] EXCEPT !.at = "booking", !.inv = i, !.amount = amount,
                               !.asOf = today, !.snap = snap]
<1>1. Sound(job[p]) /\ Sound(Idle) /\ amount \in Nat /\ invoice[i] \in Row /\ today \in Nat
  BY JobsAreSound, IdleIsSound, LedgerAssumption DEF IInv, TypeOK
<1>2. Sound(J)
  BY <1>1 DEF Sound, Job, Places, IInv, SumsNeverOverstate
<1>3. OthersTyped' /\ UNCHANGED <<invoice, entries>>
  BY DEF IInv, TypeOK, OthersTyped, ReadForCredit, money
<1>4. CASE ok
  BY <1>2, <1>3, <1>4, JobStep DEF ReadForCredit
<1>5. CASE ~ok
  BY <1>1, <1>3, <1>5, JobStep DEF ReadForCredit
<1>6. QED
  BY <1>4, <1>5

LEMMA RecordUnallocatedHolds ==
  ASSUME IInv, NEW p \in Actors, NEW amount \in Amounts, RecordUnallocated(p, amount) PROVE IInv'
<1>1. Sound(Idle) /\ amount \in Nat
  BY IdleIsSound, LedgerAssumption DEF IInv
<1>2. OthersTyped' /\ UNCHANGED <<invoice, entries>>
  <2>1. NoInvoice \in Purposes
    BY DEF Purposes
  <2>2. QED
    BY <1>1, <2>1 DEF IInv, TypeOK, OthersTyped, RecordUnallocated
<1>3. QED
  BY <1>1, <1>2, JobStep DEF RecordUnallocated

LEMMA AnnounceEntryHolds ==
  ASSUME IInv, NEW p \in Actors, AnnounceEntry(p) PROVE IInv'
<1>1. Sound(Idle)
  BY IdleIsSound DEF IInv
<1>2. OthersTyped' /\ UNCHANGED <<invoice, entries>>
  <2>1. job[p].inv \in Invoices
    BY DEF IInv, Targeted, AnnounceEntry
  <2>2. QED
    BY <2>1 DEF IInv, TypeOK, OthersTyped, AnnounceEntry, money
<1>3. QED
  BY <1>1, <1>2, JobStep DEF AnnounceEntry

LEMMA ListOpenHolds ==
  ASSUME IInv, NEW p \in Actors, ListOpen(p) PROVE IInv'
<1> DEFINE open == {i \in Invoices : IsOpen(invoice[i])}
           J == [job[p] EXCEPT !.at = "loop", !.snap = invoice, !.todo = open]
<1>1. Sound(job[p]) /\ invoice \in [Invoices -> Row]
  BY JobsAreSound DEF IInv, TypeOK
<1>2. open \subseteq Invoices
  OBVIOUS
<1>3. Sound(J)
  <2> HIDE DEF open
  <2>1. QED
    BY <1>1, <1>2 DEF Sound, Job, Places, IInv, SumsNeverOverstate
<1>4. OthersTyped' /\ UNCHANGED <<invoice, entries>>
  BY DEF IInv, TypeOK, OthersTyped, ListOpen, money
<1>5. QED
  BY <1>3, <1>4, JobStep DEF ListOpen

LEMMA PickStageHolds ==
  ASSUME IInv, NEW p \in Actors, NEW i \in Invoices, PickStage(p, i) PROVE IInv'
<1> DEFINE row == job[p].snap[i]
           day == job[p].asOf
           rest == job[p].todo \ {i}
           Fee(k) == LateFeeFor(k, row, day)
           Charge(k) == [job[p] EXCEPT !.at = "fee", !.inv = i, !.stage = k,
                           !.fee = Fee(k), !.todo = rest]
           Advance(k) == [job[p] EXCEPT !.at = "stage", !.inv = i, !.stage = k,
                           !.fee = 0, !.todo = rest]
<1>1. Sound(job[p]) /\ row \in Row /\ day \in Nat /\ rest \subseteq Invoices
  BY JobsAreSound DEF Sound, Job
<1>2. OthersTyped' /\ UNCHANGED <<invoice, entries>>
  BY DEF IInv, TypeOK, OthersTyped, PickStage, money
<1>3. ASSUME NEW k \in NextStage(row, day) PROVE Sound(Charge(k)) /\ Sound(Advance(k))
  <2>1. k \in Stages /\ k \in Nat
    BY <1>3, StagesAreNat DEF NextStage, DueStages
  <2>2. Fee(k) \in Nat
    BY <1>1, <2>1, LateFeeNat
  <2> HIDE DEF Fee, rest
  <2>3. QED
    BY <1>1, <2>1, <2>2 DEF Sound, Job, Places
<1>4. Sound([job[p] EXCEPT !.todo = rest])
  <2> HIDE DEF rest
  <2>1. QED
    BY <1>1 DEF Sound, Job
<1>5. CASE NextStage(row, day) = {} /\ Become(p, [job[p] EXCEPT !.todo = rest])
  BY <1>2, <1>4, <1>5, JobStep
<1>6. ASSUME NEW k \in NextStage(row, day), Become(p, Charge(k)) \/ Become(p, Advance(k))
      PROVE  IInv'
  <2>1. Sound(Charge(k)) /\ Sound(Advance(k))
    BY <1>3
  <2> HIDE DEF Charge, Advance
  <2>2. QED
    BY <1>2, <1>6, <2>1, JobStep
<1>7. QED
  BY <1>5, <1>6 DEF PickStage

LEMMA FinishRunHolds == ASSUME IInv, NEW p \in Actors, FinishRun(p) PROVE IInv'
<1>1. Sound(Idle)
  BY IdleIsSound DEF IInv
<1>2. OthersTyped' /\ UNCHANGED <<invoice, entries>>
  BY DEF IInv, TypeOK, OthersTyped, FinishRun, money
<1>3. QED
  BY <1>1, <1>2, JobStep DEF FinishRun

LEMMA FailHolds == ASSUME IInv, NEW p \in Actors, Fail(p) PROVE IInv'
<1>1. Sound(Idle)
  BY IdleIsSound DEF IInv
<1>2. OthersTyped' /\ UNCHANGED <<invoice, entries>>
  BY DEF IInv, TypeOK, OthersTyped, Fail, money
<1>3. QED
  BY <1>1, <1>2, JobStep DEF Fail

LEMMA AnnounceStageHolds == ASSUME IInv, NEW p \in Actors, AnnounceStage(p) PROVE IInv'
<1> DEFINE J == [job[p] EXCEPT !.at = "loop", !.inv = NoInvoice, !.stage = 0, !.fee = 0]
<1>1. Sound(job[p])
  BY JobsAreSound
<1>2. Sound(J)
  BY <1>1 DEF Sound, Job, Places
<1>3. OthersTyped' /\ UNCHANGED <<invoice, entries>>
  <2>1. job[p].inv \in Invoices /\ job[p].stage \in Stages
    BY DEF IInv, Targeted, AnnounceStage
  <2>2. noticeSent' \in [Invoices -> [Stages -> Nat]]
    BY <2>1 DEF IInv, TypeOK, AnnounceStage
  <2>3. QED
    BY <2>2 DEF IInv, TypeOK, OthersTyped, AnnounceStage, money
<1>4. QED
  BY <1>2, <1>3, JobStep DEF AnnounceStage

LEMMA TickHolds == ASSUME IInv, Tick PROVE IInv'
<1>1. TypeOK'
  BY DEF IInv, TypeOK, Tick, money
<1>2. Targeted' /\ SnapsBehind' /\ SumsNeverOverstate'
  BY DEF IInv, Tick, Targeted, SnapsBehind, SumsNeverOverstate
<1>3. QED
  BY <1>1, <1>2 DEF IInv

\* A commit: the rows of one invoice grow, its denormalised sums stay behind
\* them, and the actor's record keeps what it read.
LEMMA CommitStep ==
  ASSUME IInv, NEW p \in Actors, NEW at \in Places, Become(p, [job[p] EXCEPT !.at = at]),
         job[p].at # "idle" /\ job[p].inv \in Invoices,
         at \in {"fee", "stage", "notice"} => job[p].stage \in Stages,
         OthersTyped',
         invoice' \in [Invoices -> Row], entries' \in [Invoices -> Entry],
         \A i \in Invoices :
            /\ entries[i].paid <= entries'[i].paid
            /\ entries[i].credited <= entries'[i].credited
            /\ entries[i].feeCents <= entries'[i].feeCents,
         SumsNeverOverstate'
  PROVE  IInv'
<1> DEFINE J == [job[p] EXCEPT !.at = at]
<1>1. Sound(job[p])
  BY JobsAreSound
<1>2. J \in Job /\ J.snap = job[p].snap /\ J.at = at /\ J.inv = job[p].inv /\ J.stage = job[p].stage
  BY <1>1 DEF Sound, Job
<1>3. job' = [job EXCEPT ![p] = J] /\ job \in [Actors -> Job]
  BY DEF Become, IInv, TypeOK
<1> HIDE DEF J
<1>4. TypeOK'
  BY <1>2, <1>3 DEF TypeOK, OthersTyped
<1>5. Targeted'
  BY <1>2, <1>3 DEF IInv, Targeted
<1>6. \A q \in Actors : job'[q].snap = job[q].snap
  BY <1>2, <1>3
<1>7. \A q \in Actors, i \in Invoices : job[q].snap[i] \in Row /\ entries[i] \in Entry
  BY DEF IInv, TypeOK, Job
<1>8. SnapsBehind'
  <2> SUFFICES ASSUME NEW q \in Actors, NEW i \in Invoices
               PROVE  /\ job'[q].snap[i].paid <= entries'[i].paid
                      /\ job'[q].snap[i].credited <= entries'[i].credited
                      /\ job'[q].snap[i].lateFee <= entries'[i].feeCents
    BY DEF SnapsBehind
  <2>1. entries'[i] \in Entry
    OBVIOUS
  <2>2. QED
    BY <1>6, <1>7, <2>1 DEF IInv, SnapsBehind, Row, Entry
<1>9. QED
  BY <1>4, <1>5, <1>8 DEF IInv

\* Replacing an entry by a larger one makes the entries grow.
LEMMA EntryReplaced ==
  ASSUME entries \in [Invoices -> Entry], NEW i \in Invoices, NEW e \in Entry,
         entries' = [entries EXCEPT ![i] = e],
         e.paid >= entries[i].paid, e.credited >= entries[i].credited,
         e.feeCents >= entries[i].feeCents
  PROVE  /\ entries' \in [Invoices -> Entry]
         /\ \A j \in Invoices : /\ entries[j].paid <= entries'[j].paid
                                /\ entries[j].credited <= entries'[j].credited
                                /\ entries[j].feeCents <= entries'[j].feeCents
<1>1. entries' \in [Invoices -> Entry]
  OBVIOUS
<1>2. \A j \in Invoices : entries[j] \in Entry /\ entries'[j] = IF j = i THEN e ELSE entries[j]
  OBVIOUS
<1>3. QED
  BY <1>1, <1>2 DEF Entry

LEMMA CommitPaymentHolds == ASSUME IInv, NEW p \in Actors, CommitPayment(p) PROVE IInv'
<1> DEFINE i == job[p].inv
           row == [job[p].snap[i] EXCEPT !.paid = PaidAfter(p)]
           status == StatusAfter(row, job[p].asOf)
<1>1. i \in Invoices /\ job[p] \in Job /\ job[p].snap[i] \in Row /\ job[p].amount \in Nat
  BY DEF IInv, TypeOK, Targeted, CommitPayment, Job
<1>2. Allocated(p) \in Nat /\ Allocated(p) <= job[p].amount
  BY <1>1, AllocatedBounds DEF IInv
<1>3. PaidAfter(p) = job[p].snap[i].paid + Allocated(p) /\ Remainder(p) \in Nat
  BY <1>1, <1>2 DEF PaidAfter, Remainder
<1>4. row \in Row /\ row.paid = PaidAfter(p) /\ PaidAfter(p) \in Nat
  BY <1>1, <1>2, <1>3 DEF Row
<1>5. status \in Statuses
  BY <1>1, <1>4, StatusAfterStatus DEF Job
<1>6. /\ entries' = [entries EXCEPT ![i].paid = @ + Allocated(p)]
      /\ invoice' = [invoice EXCEPT ![i].paid = PaidAfter(p), ![i].status = status]
  BY <1>4 DEF CommitPayment
<1> HIDE DEF i, row, status
<1>7. /\ entries' \in [Invoices -> Entry]
      /\ \A j \in Invoices : /\ entries[j].paid <= entries'[j].paid
                             /\ entries[j].credited <= entries'[j].credited
                             /\ entries[j].feeCents <= entries'[j].feeCents
  <2> DEFINE e == [entries[i] EXCEPT !.paid = entries[i].paid + Allocated(p)]
  <2>1. entries \in [Invoices -> Entry] /\ entries[i] \in Entry
    BY <1>1 DEF IInv, TypeOK
  <2>2. e \in Entry
    BY <1>2, <2>1 DEF Entry
  <2>3. e.paid >= entries[i].paid /\ e.credited >= entries[i].credited
        /\ e.feeCents >= entries[i].feeCents
    BY <1>2, <2>1 DEF Entry
  <2>4. entries' = [entries EXCEPT ![i] = e]
    BY <1>6
  <2> HIDE DEF e
  <2>5. QED
    BY <1>1, <2>1, <2>2, <2>3, <2>4, EntryReplaced
<1>8. invoice' \in [Invoices -> Row]
  BY <1>1, <1>4, <1>5, <1>6 DEF IInv, TypeOK, Row
<1>9. SumsNeverOverstate'
  BY <1>1, <1>2, <1>3, <1>6 DEF IInv, TypeOK, Entry, Row, SumsNeverOverstate, SnapsBehind
<1>10. OthersTyped'
  <2>1. job[p].inv \in Purposes
    BY <1>1 DEF Purposes, i
  <2>2. QED
    BY <1>1, <1>3, <2>1 DEF CommitPayment, IInv, TypeOK, OthersTyped
<1>11. Become(p, [job[p] EXCEPT !.at = "booked"]) /\ job[p].at = "booking" /\ "booked" \in Places
  BY DEF CommitPayment, Places
<1>12. QED
  BY <1>1, <1>7, <1>8, <1>9, <1>10, <1>11, CommitStep DEF i

LEMMA CommitCreditHolds == ASSUME IInv, NEW p \in Actors, CommitCredit(p) PROVE IInv'
<1> DEFINE i == job[p].inv
           row == [job[p].snap[i] EXCEPT !.credited = Credited(p)]
           status == StatusAfter(row, job[p].asOf)
<1>1. i \in Invoices /\ job[p] \in Job /\ job[p].snap[i] \in Row /\ job[p].amount \in Nat
  BY DEF IInv, TypeOK, Targeted, CommitCredit, Job
<1>2. Credited(p) = job[p].snap[i].credited + job[p].amount
  BY DEF Credited
<1>3. row \in Row /\ row.credited = Credited(p) /\ Credited(p) \in Nat
  BY <1>1, <1>2 DEF Row
<1>4. status \in Statuses
  BY <1>1, <1>3, StatusAfterStatus DEF Job
<1>5. /\ entries' = [entries EXCEPT ![i].credited = @ + job[p].amount]
      /\ invoice' = [invoice EXCEPT ![i].credited = Credited(p), ![i].status = status]
  BY <1>3 DEF CommitCredit
<1> HIDE DEF i, row, status
<1>6. /\ entries' \in [Invoices -> Entry]
      /\ \A j \in Invoices : /\ entries[j].paid <= entries'[j].paid
                             /\ entries[j].credited <= entries'[j].credited
                             /\ entries[j].feeCents <= entries'[j].feeCents
  <2> DEFINE e == [entries[i] EXCEPT !.credited = entries[i].credited + job[p].amount]
  <2>1. entries \in [Invoices -> Entry] /\ entries[i] \in Entry
    BY <1>1 DEF IInv, TypeOK
  <2>2. e \in Entry
    BY <1>1, <2>1 DEF Entry
  <2>3. e.paid >= entries[i].paid /\ e.credited >= entries[i].credited
        /\ e.feeCents >= entries[i].feeCents
    BY <1>1, <2>1 DEF Entry
  <2>4. entries' = [entries EXCEPT ![i] = e]
    BY <1>5
  <2> HIDE DEF e
  <2>5. QED
    BY <1>1, <2>1, <2>2, <2>3, <2>4, EntryReplaced
<1>7. invoice' \in [Invoices -> Row]
  BY <1>1, <1>3, <1>4, <1>5 DEF IInv, TypeOK, Row
<1>8. SumsNeverOverstate'
  BY <1>1, <1>2, <1>5 DEF IInv, TypeOK, Entry, Row, SumsNeverOverstate, SnapsBehind
<1>9. OthersTyped'
  BY DEF CommitCredit, IInv, TypeOK, OthersTyped, money
<1>10. Become(p, [job[p] EXCEPT !.at = "booked"]) /\ job[p].at = "booking" /\ "booked" \in Places
  BY DEF CommitCredit, Places
<1>11. QED
  BY <1>1, <1>6, <1>7, <1>8, <1>9, <1>10, CommitStep DEF i

LEMMA CommitLateFeeHolds == ASSUME IInv, NEW p \in Actors, CommitLateFee(p) PROVE IInv'
<1> DEFINE i == job[p].inv
           k == job[p].stage
<1>1. i \in Invoices /\ k \in Stages /\ job[p] \in Job /\ job[p].snap[i] \in Row /\ job[p].fee \in Nat
  BY DEF IInv, TypeOK, Targeted, CommitLateFee, Job
<1>2. FeeAfter(p) = job[p].snap[i].lateFee + job[p].fee /\ FeeAfter(p) \in Nat
  BY <1>1 DEF FeeAfter, Row
<1>3. /\ entries' = [entries EXCEPT ![i] = Charged(p)]
      /\ invoice' = [invoice EXCEPT ![i].lateFee = FeeAfter(p)]
  BY DEF CommitLateFee
<1> HIDE DEF i, k
<1>4. /\ entries' \in [Invoices -> Entry]
      /\ \A j \in Invoices : /\ entries[j].paid <= entries'[j].paid
                             /\ entries[j].credited <= entries'[j].credited
                             /\ entries[j].feeCents <= entries'[j].feeCents
  <2> DEFINE e == Charged(p)
  <2>1. entries \in [Invoices -> Entry] /\ entries[i] \in Entry
    BY <1>1 DEF IInv, TypeOK
  <2>2. FeesAfter(p) \in [Stages -> Nat]
    <3>1. entries[i].fees \in [Stages -> Nat]
      BY <2>1 DEF Entry
    <3>2. \A n \in Stages : (entries[i].fees)[n] + 1 \in Nat
      BY <3>1
    <3>3. QED
      BY <1>1, <3>1, <3>2 DEF FeesAfter, i, k
  <2>3. e \in Entry
    <3>1. e = [entries[i] EXCEPT !.fees = FeesAfter(p), !.feeCents = entries[i].feeCents + job[p].fee]
      BY DEF Charged, i
    <3>2. entries[i].feeCents + job[p].fee \in Nat
      BY <1>1, <2>1 DEF Entry
    <3> HIDE DEF e
    <3>3. QED
      BY <2>1, <2>2, <3>1, <3>2 DEF Entry
  <2>4. e.paid >= entries[i].paid /\ e.credited >= entries[i].credited
        /\ e.feeCents >= entries[i].feeCents
    BY <1>1, <2>1 DEF Entry, Charged, i
  <2>5. entries' = [entries EXCEPT ![i] = e]
    BY <1>3
  <2> HIDE DEF e
  <2>6. QED
    BY <1>1, <2>1, <2>3, <2>4, <2>5, EntryReplaced
<1>6. invoice' \in [Invoices -> Row]
  BY <1>1, <1>2, <1>3 DEF IInv, TypeOK, Row
<1>7. SumsNeverOverstate'
  <2>1. entries'[i].feeCents = entries[i].feeCents + job[p].fee
        /\ entries'[i].paid = entries[i].paid /\ entries'[i].credited = entries[i].credited
    BY <1>1, <1>3 DEF Charged, i, IInv, TypeOK, Entry
  <2>2. /\ invoice'[i].lateFee = job[p].snap[i].lateFee + job[p].fee
        /\ invoice'[i].paid = invoice[i].paid /\ invoice'[i].credited = invoice[i].credited
    BY <1>1, <1>2, <1>3 DEF IInv, TypeOK, Row
  <2>3. job[p].snap[i].lateFee <= entries[i].feeCents
        /\ job[p].snap[i].lateFee \in Nat /\ entries[i].feeCents \in Nat
    BY <1>1 DEF IInv, TypeOK, SnapsBehind, Entry, Row
  <2>4. \A j \in Invoices \ {i} : invoice'[j] = invoice[j] /\ entries'[j] = entries[j]
    BY <1>1, <1>3 DEF IInv, TypeOK
  <2>5. QED
    BY <1>1, <2>1, <2>2, <2>3, <2>4 DEF IInv, SumsNeverOverstate
<1>8. OthersTyped'
  BY DEF CommitLateFee, IInv, TypeOK, OthersTyped, money
<1>9. Become(p, [job[p] EXCEPT !.at = "stage"]) /\ job[p].at = "fee" /\ "stage" \in Places
  BY DEF CommitLateFee, Places
<1>10. QED
  BY <1>1, <1>4, <1>6, <1>7, <1>8, <1>9, CommitStep DEF i, k

LEMMA CommitStageHolds == ASSUME IInv, NEW p \in Actors, CommitStage(p) PROVE IInv'
<1> DEFINE i == job[p].inv
           k == job[p].stage
<1>1. i \in Invoices /\ k \in Stages /\ k \in Nat
  BY StagesAreNat DEF IInv, Targeted, CommitStage
<1>2. invoice' = [invoice EXCEPT ![i].stage = k] /\ UNCHANGED entries
  BY DEF CommitStage
<1> HIDE DEF i, k
<1>3. invoice' \in [Invoices -> Row] /\ SumsNeverOverstate'
  BY <1>1, <1>2 DEF IInv, TypeOK, Row, SumsNeverOverstate
<1>4. entries' \in [Invoices -> Entry]
      /\ \A j \in Invoices : /\ entries[j].paid <= entries'[j].paid
                             /\ entries[j].credited <= entries'[j].credited
                             /\ entries[j].feeCents <= entries'[j].feeCents
  BY <1>2 DEF IInv, TypeOK, Entry
<1>5. OthersTyped'
  BY DEF CommitStage, IInv, TypeOK, OthersTyped, money
<1>6. Become(p, [job[p] EXCEPT !.at = "notice"]) /\ job[p].at = "stage" /\ "notice" \in Places
  BY DEF CommitStage, Places
<1>7. QED
  BY <1>1, <1>3, <1>4, <1>5, <1>6, CommitStep DEF i, k

-----------------------------------------------------------------------------
(* The invariant is inductive *)

LEMMA NextHolds == IInv /\ [Next]_vars => IInv'
<1> SUFFICES ASSUME IInv, [Next]_vars PROVE IInv'
  OBVIOUS
<1>1. ASSUME NEW p \in Actors, NEW kind \in Kinds(p), Begin(p, kind) PROVE IInv'
  BY <1>1, BeginHolds
<1>2. ASSUME NEW p \in Actors, AnnounceOverdue(p) \/ Fail(p) PROVE IInv'
  BY <1>2, AnnounceOverdueHolds, FailHolds
<1>3. ASSUME NEW p \in Office, OfficeStep(p) PROVE IInv'
  BY <1>3, ReadForPaymentHolds, ReadForCreditHolds, RecordUnallocatedHolds, CommitPaymentHolds,
     CommitCreditHolds, AnnounceEntryHolds DEF OfficeStep, Actors
<1>4. ASSUME NEW p \in Dunners, DunningStep(p) PROVE IInv'
  BY <1>4, ListOpenHolds, PickStageHolds, CommitLateFeeHolds, CommitStageHolds,
     AnnounceStageHolds, FinishRunHolds DEF DunningStep, Actors
<1>5. CASE UNCHANGED vars
  <2>1. TypeOK'
    BY <1>5 DEF IInv, TypeOK, vars
  <2>2. Targeted' /\ SnapsBehind' /\ SumsNeverOverstate'
    BY <1>5 DEF IInv, Targeted, SnapsBehind, SumsNeverOverstate, vars
  <2>3. QED
    BY <2>1, <2>2 DEF IInv
<1>6. QED
  BY <1>1, <1>2, <1>3, <1>4, <1>5, TickHolds DEF Next

-----------------------------------------------------------------------------
(* Where the money goes *)

\* A payment is divided into what settles the invoice and the rest, and both
\* are rows of the same purpose: no other step books money.
LEMMA MoneyStep == ASSUME IInv, RowsHoldTheMoney, [Next]_vars PROVE RowsHoldTheMoney'
<1>1. ASSUME NEW p \in Actors, CommitPayment(p) PROVE RowsHoldTheMoney'
  <2> DEFINE i == job[p].inv
  <2>1. i \in Invoices /\ i \in Purposes /\ i # NoInvoice /\ job[p].amount \in Nat
    BY <1>1, LedgerAssumption DEF IInv, TypeOK, Targeted, CommitPayment, Job, Purposes
  <2>2. Allocated(p) \in Nat /\ Allocated(p) + Remainder(p) = job[p].amount
    BY <2>1, AllocatedBounds DEF IInv, Remainder
  <2>3. Remainder(p) \in Int
    BY <2>1, <2>2 DEF Remainder
  <2>4. /\ entries' = [entries EXCEPT ![i].paid = @ + Allocated(p)]
        /\ unallocated' = [unallocated EXCEPT ![i] = @ + Remainder(p)]
        /\ received' = [received EXCEPT ![i] = @ + job[p].amount]
    BY <1>1 DEF CommitPayment
  <2> HIDE DEF i
  <2>5. \A j \in Invoices : entries'[j].paid = entries[j].paid + (IF j = i THEN Allocated(p) ELSE 0)
    BY <2>1, <2>2, <2>4 DEF IInv, TypeOK, Entry
  <2>6. \A j \in Purposes :
          /\ unallocated'[j] = unallocated[j] + (IF j = i THEN Remainder(p) ELSE 0)
          /\ received'[j] = received[j] + (IF j = i THEN job[p].amount ELSE 0)
    BY <2>1, <2>2, <2>3, <2>4 DEF IInv, TypeOK
  <2>7. \A j \in Invoices : entries[j].paid \in Nat /\ unallocated[j] \in Nat /\ j \in Purposes
    BY DEF IInv, TypeOK, Entry, Purposes
  <2>8. NoInvoice \in Purposes
    BY DEF Purposes
  <2>9. QED
    BY <2>1, <2>2, <2>3, <2>5, <2>6, <2>7, <2>8 DEF RowsHoldTheMoney
<1>2. ASSUME NEW p \in Actors, NEW amount \in Amounts, RecordUnallocated(p, amount)
      PROVE  RowsHoldTheMoney'
  <2>1. NoInvoice \in Purposes /\ NoInvoice \notin Invoices /\ Invoices \subseteq Purposes
    BY LedgerAssumption DEF Purposes
  <2>2. QED
    BY <1>2, <2>1 DEF RecordUnallocated, RowsHoldTheMoney, IInv, TypeOK
<1>3. ASSUME UNCHANGED money, \A i \in Invoices : entries'[i].paid = entries[i].paid
      PROVE  RowsHoldTheMoney'
  BY <1>3 DEF RowsHoldTheMoney, money
<1>4. ASSUME NEW p \in Actors, CommitCredit(p) \/ CommitLateFee(p) PROVE RowsHoldTheMoney'
  <2>1. UNCHANGED money
    BY <1>4 DEF CommitCredit, CommitLateFee
  <2>2. job[p].inv \in Invoices /\ entries[job[p].inv] \in Entry
    BY <1>4 DEF CommitCredit, CommitLateFee, IInv, TypeOK, Targeted
  <2>3. Charged(p).paid = entries[job[p].inv].paid
    BY <2>2 DEF Charged, Entry
  <2>4. entries \in [Invoices -> Entry]
    BY DEF IInv, TypeOK
  <2>5. CASE CommitCredit(p)
    <3> DEFINE e == [entries[job[p].inv] EXCEPT !.credited = @ + job[p].amount]
    <3>1. entries' = [entries EXCEPT ![job[p].inv] = e]
      BY <2>2, <2>4, <2>5 DEF CommitCredit
    <3>2. e.paid = entries[job[p].inv].paid
      BY <2>2 DEF Entry
    <3> HIDE DEF e
    <3>3. \A i \in Invoices : entries'[i].paid = entries[i].paid
      BY <2>2, <2>4, <3>1, <3>2
    <3>4. QED
      BY <1>3, <2>1, <3>3
  <2>6. CASE CommitLateFee(p)
    <3>1. entries' = [entries EXCEPT ![job[p].inv] = Charged(p)]
      BY <2>6 DEF CommitLateFee
    <3>2. \A i \in Invoices : entries'[i].paid = entries[i].paid
      BY <2>2, <2>3, <2>4, <3>1
    <3>3. QED
      BY <1>3, <2>1, <3>2
  <2>7. QED
    BY <1>4, <2>5, <2>6
<1>5. ASSUME NEW p \in Actors, \/ \E kind \in Kinds(p) : Begin(p, kind)
                               \/ AnnounceOverdue(p) \/ Fail(p)
      PROVE  RowsHoldTheMoney'
  BY <1>3, <1>5 DEF Begin, AnnounceOverdue, Fail
<1>6. ASSUME NEW p \in Office, OfficeStep(p) PROVE RowsHoldTheMoney'
  <2>1. CASE \E i \in Invoices, amount \in Amounts :
               ReadForPayment(p, i, amount) \/ ReadForCredit(p, i, amount)
    BY <1>3, <2>1 DEF ReadForPayment, ReadForCredit
  <2>2. QED
    BY <1>1, <1>2, <1>3, <1>4, <1>6, <2>1 DEF OfficeStep, AnnounceEntry, Actors
<1>7. ASSUME NEW p \in Dunners, DunningStep(p) PROVE RowsHoldTheMoney'
  <2>1. CASE \E i \in Invoices : PickStage(p, i)
    BY <1>3, <2>1 DEF PickStage
  <2>2. QED
    BY <1>3, <1>4, <1>7, <2>1
       DEF DunningStep, Actors, ListOpen, CommitStage, AnnounceStage, FinishRun
<1>8. CASE Tick
  BY <1>3, <1>8 DEF Tick
<1>9. CASE UNCHANGED vars
  BY <1>3, <1>9 DEF vars, money
<1>10. QED
  BY <1>5, <1>6, <1>7, <1>8, <1>9 DEF Next

-----------------------------------------------------------------------------
(* One run of dunning at a time *)

OneDunner == \A p, q \in Dunners : p = q

\* What a run of dunning, of all that it has read, may rely on while no other
\* run is in the server: the stage and the fees of the invoices still on its
\* list are the table's, and the stage it is about to act on is a new one.
Alone(J) ==
  /\ J.at \in {"loop", "fee", "stage", "notice"} =>
       \A i \in J.todo : /\ J.snap[i].stage = invoice[i].stage
                         /\ J.snap[i].lateFee = invoice[i].lateFee
  /\ J.at \in {"fee", "stage", "notice"} => J.inv \notin J.todo
  /\ J.at = "fee" => /\ entries[J.inv].fees[J.stage] = 0
                     /\ J.snap[J.inv].lateFee = invoice[J.inv].lateFee
  /\ J.at \in {"fee", "stage"} => J.stage > invoice[J.inv].stage
  /\ J.at = "notice" => /\ J.stage = invoice[J.inv].stage
                        /\ noticeSent[J.inv][J.stage] = 0
DunnersAlone == \A p \in Dunners : Alone(job[p])

DunningInv == IInv /\ DunnersAlone /\ StagesActOnce

\* Steps that leave the stages, fees and notices alone keep DunningInv, if the
\* record a dunner changes to is one that may rely on them.
LEMMA DunningFrame ==
  ASSUME DunnersAlone, StagesActOnce, TypeOK, NEW p \in Actors, NEW J, Become(p, J),
         p \in Dunners => Alone(J),
         UNCHANGED noticeSent,
         \A i \in Invoices : /\ invoice'[i].stage = invoice[i].stage
                             /\ invoice'[i].lateFee = invoice[i].lateFee
                             /\ entries'[i].fees = entries[i].fees,
         Targeted, p \in Dunners /\ J.at \in {"fee", "stage", "notice"} => J.inv \in Invoices,
         p \in Dunners => J.todo \subseteq Invoices
  PROVE  DunnersAlone' /\ StagesActOnce'
<1>1. job' = [job EXCEPT ![p] = J] /\ job \in [Actors -> Job]
  BY DEF Become, TypeOK
<1>2. ASSUME NEW q \in Dunners PROVE Alone(job[q])'
  <2>1. q \in Actors
    BY DEF Actors
  <2>2. CASE q = p
    <3>1. job'[q] = J
      BY <1>1, <2>1, <2>2
    <3>2. Alone(J) /\ J.todo \subseteq Invoices
          /\ (J.at \in {"fee", "stage", "notice"} => J.inv \in Invoices)
      BY <1>2, <2>2
    <3>3. QED
      BY <3>1, <3>2 DEF Alone
  <2>3. CASE q # p
    <3>1. job'[q] = job[q] /\ job[q].todo \subseteq Invoices
      BY <1>1, <2>1, <2>3 DEF Job
    <3>2. job[q].at \in {"fee", "stage", "notice"} => job[q].inv \in Invoices
      BY <2>1 DEF Targeted
    <3>3. Alone(job[q])
      BY <1>2 DEF DunnersAlone
    <3>4. QED
      BY <3>1, <3>2, <3>3 DEF Alone
  <2>4. QED
    BY <2>2, <2>3
<1>3. StagesActOnce'
  BY DEF StagesActOnce
<1>4. QED
  BY <1>2, <1>3 DEF DunnersAlone

\* Whatever is not a dunner's turn leaves stages, fees and notices alone.
LEMMA OthersDunning ==
  ASSUME DunningInv, NEW p \in Actors,
         \/ \E kind \in Kinds(p) : Begin(p, kind)
         \/ AnnounceOverdue(p) \/ Fail(p)
         \/ p \in Office /\ OfficeStep(p)
  PROVE  DunnersAlone' /\ StagesActOnce'
<1> USE DEF DunningInv, IInv
<1> DEFINE Frame == /\ UNCHANGED noticeSent
                    /\ \A i \in Invoices : /\ invoice'[i].stage = invoice[i].stage
                                           /\ invoice'[i].lateFee = invoice[i].lateFee
                                           /\ entries'[i].fees = entries[i].fees
<1>1. job[p] \in Job /\ \A i \in Invoices : invoice[i] \in Row /\ entries[i] \in Entry
  BY DEF TypeOK
<1>2. ASSUME NEW J, Become(p, J), Frame, p \in Dunners => J.at \in {"idle", "rolled", "ready"},
             J.todo \subseteq Invoices
      PROVE  DunnersAlone' /\ StagesActOnce'
  <2>1. p \in Dunners => Alone(J)
    BY <1>2 DEF Alone
  <2>2. p \in Dunners /\ J.at \in {"fee", "stage", "notice"} => J.inv \in Invoices
    BY <1>2
  <2>3. QED
    BY <1>2, <2>1, <2>2, DunningFrame
<1>3. Idle.at = "idle" /\ Idle.todo = {}
  BY DEF Idle
<1>4. ASSUME NEW kind \in Kinds(p), Begin(p, kind) PROVE DunnersAlone' /\ StagesActOnce'
  <2> DEFINE J == [Idle EXCEPT !.at = "rolled", !.kind = kind, !.asOf = today]
  <2>1. J.at = "rolled" /\ J.todo = {}
    BY DEF Idle
  <2>2. Become(p, J) /\ UNCHANGED <<noticeSent, entries>>
    BY <1>4 DEF Begin
  <2>3. \A i \in Invoices : invoice'[i].stage = invoice[i].stage
                            /\ invoice'[i].lateFee = invoice[i].lateFee
    BY <1>4 DEF Begin, TypeOK, Row
  <2> HIDE DEF J
  <2>4. QED
    BY <1>2, <2>1, <2>2, <2>3
<1>5. CASE AnnounceOverdue(p)
  <2> DEFINE J == IF job[p].kind = "view" THEN Idle
                  ELSE [job[p] EXCEPT !.at = "ready",
                          !.asOf = IF job[p].kind = "dunning" THEN @ ELSE today]
  <2>1. J.at \in {"idle", "ready"} /\ J.todo \subseteq Invoices
    BY <1>1, <1>3 DEF Job
  <2>2. Become(p, J) /\ Frame
    BY <1>5 DEF AnnounceOverdue
  <2> HIDE DEF J
  <2>3. QED
    BY <1>2, <2>1, <2>2
<1>6. CASE Fail(p)
  BY <1>2, <1>3, <1>6 DEF Fail
<1>7. CASE p \in Office /\ OfficeStep(p)
  <2>1. p \notin Dunners
    BY <1>7, LedgerAssumption
  <2>2. ASSUME NEW J, Become(p, J), Frame PROVE DunnersAlone' /\ StagesActOnce'
    <3>1. p \in Dunners => Alone(J)
      BY <2>1
    <3>2. p \in Dunners /\ J.at \in {"fee", "stage", "notice"} => J.inv \in Invoices
      BY <2>1
    <3>3. QED
      BY <2>1, <2>2, <3>1, <3>2, DunningFrame
  <2>3. ASSUME NEW i \in Invoices, NEW amount \in Amounts,
               ReadForPayment(p, i, amount) \/ ReadForCredit(p, i, amount)
        PROVE  DunnersAlone' /\ StagesActOnce'
    <3>1. CASE ReadForPayment(p, i, amount)
      <4> DEFINE J == IF IsOpen(invoice[i])
                      THEN [job[p] EXCEPT !.at = "booking", !.inv = i, !.amount = amount,
                                          !.snap = [@ EXCEPT ![i] = invoice[i]]]
                      ELSE Idle
      <4>1. Become(p, J) /\ Frame
        BY <3>1 DEF ReadForPayment
      <4> HIDE DEF J
      <4>2. QED
        BY <2>2, <4>1
    <3>2. CASE ReadForCredit(p, i, amount)
      <4> DEFINE J == IF IsOpen(invoice[i]) /\ amount <= OpenCents(invoice[i])
                      THEN [job[p] EXCEPT !.at = "booking", !.inv = i, !.amount = amount,
                                          !.asOf = today, !.snap = [@ EXCEPT ![i] = invoice[i]]]
                      ELSE Idle
      <4>1. Become(p, J) /\ Frame
        BY <3>2 DEF ReadForCredit
      <4> HIDE DEF J
      <4>2. QED
        BY <2>2, <4>1
    <3>3. QED
      BY <2>3, <3>1, <3>2
  <2>4. CASE (\E amount \in Amounts : RecordUnallocated(p, amount)) \/ AnnounceEntry(p)
    <3>1. Become(p, Idle) /\ Frame
      BY <2>4 DEF RecordUnallocated, AnnounceEntry
    <3>2. QED
      BY <2>2, <3>1
  <2>5. CASE CommitPayment(p) \/ CommitCredit(p)
    <3>1. Become(p, [job[p] EXCEPT !.at = "booked"]) /\ UNCHANGED noticeSent
      BY <2>5 DEF CommitPayment, CommitCredit
    <3>2. job[p].inv \in Invoices
      BY <2>5 DEF Targeted, CommitPayment, CommitCredit
    <3>3. \E e : /\ invoice' = [invoice EXCEPT ![job[p].inv] = e]
                /\ e.stage = invoice[job[p].inv].stage
                /\ e.lateFee = invoice[job[p].inv].lateFee
      <4>1. CASE CommitPayment(p)
        <5> DEFINE row == [job[p].snap[job[p].inv] EXCEPT !.paid = PaidAfter(p)]
                   e == [invoice[job[p].inv] EXCEPT !.paid = row.paid,
                                                   !.status = StatusAfter(row, job[p].asOf)]
        <5>1. invoice' = [invoice EXCEPT ![job[p].inv].paid = row.paid,
                                         ![job[p].inv].status = StatusAfter(row, job[p].asOf)]
          BY <4>1 DEF CommitPayment
        <5> HIDE DEF row
        <5>2. invoice' = [invoice EXCEPT ![job[p].inv] = e]
          BY <3>2, <5>1 DEF TypeOK
        <5>3. e.stage = invoice[job[p].inv].stage /\ e.lateFee = invoice[job[p].inv].lateFee
          BY <1>1, <3>2 DEF Row
        <5> HIDE DEF e
        <5>4. QED
          BY <5>2, <5>3
      <4>2. CASE CommitCredit(p)
        <5> DEFINE row == [job[p].snap[job[p].inv] EXCEPT !.credited = Credited(p)]
                   e == [invoice[job[p].inv] EXCEPT !.credited = row.credited,
                                                   !.status = StatusAfter(row, job[p].asOf)]
        <5>1. invoice' = [invoice EXCEPT ![job[p].inv].credited = row.credited,
                                         ![job[p].inv].status = StatusAfter(row, job[p].asOf)]
          BY <4>2 DEF CommitCredit
        <5> HIDE DEF row
        <5>2. invoice' = [invoice EXCEPT ![job[p].inv] = e]
          BY <3>2, <5>1 DEF TypeOK
        <5>3. e.stage = invoice[job[p].inv].stage /\ e.lateFee = invoice[job[p].inv].lateFee
          BY <1>1, <3>2 DEF Row
        <5> HIDE DEF e
        <5>4. QED
          BY <5>2, <5>3
      <4>3. QED
        BY <2>5, <4>1, <4>2
    <3>4. \E e : /\ entries' = [entries EXCEPT ![job[p].inv] = e]
                /\ e.fees = entries[job[p].inv].fees
      <4> DEFINE Paid(n) == [entries[job[p].inv] EXCEPT !.paid = n]
                 Noted(n) == [entries[job[p].inv] EXCEPT !.credited = n]
      <4>1. \A n : /\ Paid(n).fees = entries[job[p].inv].fees
                   /\ Noted(n).fees = entries[job[p].inv].fees
        BY <1>1, <3>2 DEF Entry
      <4>2. \E n : \/ entries' = [entries EXCEPT ![job[p].inv] = Paid(n)]
                  \/ entries' = [entries EXCEPT ![job[p].inv] = Noted(n)]
        BY <2>5 DEF CommitPayment, CommitCredit
      <4> HIDE DEF Paid, Noted
      <4>3. QED
        BY <4>1, <4>2
    <3>5. \A i \in Invoices : /\ invoice'[i].stage = invoice[i].stage
                              /\ invoice'[i].lateFee = invoice[i].lateFee
      BY <3>2, <3>3 DEF TypeOK
    <3>6. \A i \in Invoices : entries'[i].fees = entries[i].fees
      BY <3>2, <3>4 DEF TypeOK
    <3>7. QED
      BY <2>2, <3>1, <3>5, <3>6
  <2>6. QED
    BY <1>7, <2>3, <2>4, <2>5 DEF OfficeStep
<1>8. QED
  BY <1>4, <1>5, <1>6, <1>7

\* A turn of a run of dunning, when there is no other.
LEMMA OwnDunning ==
  ASSUME OneDunner, DunningInv, NEW p \in Dunners, DunningStep(p)
  PROVE  DunnersAlone' /\ StagesActOnce'
<1> USE DEF DunningInv, IInv
<1>1. p \in Actors /\ job[p] \in Job /\ Alone(job[p])
  BY DEF TypeOK, Actors, DunnersAlone
<1>2. \A i \in Invoices : invoice[i] \in Row /\ entries[i] \in Entry /\ noticeSent[i] \in [Stages -> Nat]
  BY DEF TypeOK
<1>3. Alone(job[p])' => DunnersAlone'
  BY DEF OneDunner, DunnersAlone
<1>0. ASSUME NEW J, Become(p, J) PROVE job'[p] = J
  BY <1>0, <1>1 DEF Become, TypeOK
<1>4. CASE ListOpen(p) \/ FinishRun(p)
  <2>1. UNCHANGED <<invoice, entries, noticeSent>>
    BY <1>4 DEF ListOpen, FinishRun
  <2>2. CASE ListOpen(p)
    <3> DEFINE J == [job[p] EXCEPT !.at = "loop", !.snap = invoice,
                                   !.todo = {i \in Invoices : IsOpen(invoice[i])}]
    <3>1. J.at = "loop" /\ J.snap = invoice /\ J.todo \subseteq Invoices
      BY <1>1 DEF Job
    <3>2. Become(p, J)
      BY <2>2 DEF ListOpen
    <3> HIDE DEF J
    <3>3. job'[p] = J
      BY <1>0, <3>2
    <3>4. Alone(job[p])'
      BY <2>1, <3>1, <3>3 DEF Alone
    <3>5. QED
      BY <1>3, <2>1, <3>4 DEF StagesActOnce
  <2>3. CASE FinishRun(p)
    <3>1. job'[p] = Idle
      BY <1>0, <2>3 DEF FinishRun
    <3>2. Alone(job[p])'
      BY <3>1 DEF Alone, Idle
    <3>3. QED
      BY <1>3, <2>1, <3>2 DEF StagesActOnce
  <2>4. QED
    BY <1>4, <2>2, <2>3
<1>5. ASSUME NEW i \in Invoices, PickStage(p, i) PROVE DunnersAlone' /\ StagesActOnce'
  <2> DEFINE row == job[p].snap[i]
             day == job[p].asOf
             rest == job[p].todo \ {i}
             Fee(k) == LateFeeFor(k, row, day)
             Skip == [job[p] EXCEPT !.todo = rest]
             Charge(k) == [job[p] EXCEPT !.at = "fee", !.inv = i, !.stage = k,
                             !.fee = Fee(k), !.todo = rest]
             Advance(k) == [job[p] EXCEPT !.at = "stage", !.inv = i, !.stage = k,
                             !.fee = 0, !.todo = rest]
  <2>1. UNCHANGED <<invoice, entries, noticeSent>> /\ job[p].at = "loop" /\ i \in job[p].todo
    BY <1>5 DEF PickStage
  <2>2. \A l \in rest : /\ job[p].snap[l].stage = invoice[l].stage
                        /\ job[p].snap[l].lateFee = invoice[l].lateFee
    BY <1>1, <2>1 DEF Alone
  <2>3. row.stage = invoice[i].stage /\ row.lateFee = invoice[i].lateFee /\ i \notin rest
    BY <1>1, <2>1 DEF Alone
  <2>4. CASE Become(p, Skip)
    <3>1. Skip.at = "loop" /\ Skip.todo = rest /\ Skip.snap = job[p].snap
      BY <1>1, <2>1 DEF Job
    <3> HIDE DEF Skip, rest
    <3>2. job'[p] = Skip
      BY <1>0, <2>4
    <3>3. Alone(job[p])'
      BY <2>1, <2>2, <3>1, <3>2 DEF Alone
    <3>4. QED
      BY <1>3, <2>1, <3>3 DEF StagesActOnce
  <2>5. ASSUME NEW k \in NextStage(row, day),
               \/ Become(p, Advance(k))
               \/ Become(p, Charge(k)) /\ ~FeeExists(i, k)
        PROVE  DunnersAlone' /\ StagesActOnce'
    <3>1. k \in Stages /\ k > invoice[i].stage
      BY <2>3 DEF NextStage, DueStages
    <3>2. CASE Become(p, Advance(k))
      <4> DEFINE J == Advance(k)
      <4>1. J.at = "stage" /\ J.inv = i /\ J.stage = k /\ J.todo = rest /\ J.snap = job[p].snap
        BY <1>1 DEF Job
      <4>2. Become(p, J)
        BY <3>2
      <4> HIDE DEF J
      <4>3. job'[p] = J
        BY <1>0, <4>2
      <4> HIDE DEF rest
      <4>4. Alone(job[p])'
        BY <2>1, <2>2, <2>3, <3>1, <4>1, <4>3 DEF Alone
      <4>5. QED
        BY <1>3, <2>1, <4>4 DEF StagesActOnce
    <3>3. CASE Become(p, Charge(k)) /\ ~FeeExists(i, k)
      <4> DEFINE J == Charge(k)
      <4>1. J.at = "fee" /\ J.inv = i /\ J.stage = k /\ J.todo = rest /\ J.snap = job[p].snap
        BY <1>1 DEF Job
      <4>2. Become(p, J)
        BY <3>3
      <4>3. entries[i].fees[k] = 0
        BY <1>2, <3>1, <3>3 DEF FeeExists, Entry
      <4> HIDE DEF J
      <4>4. job'[p] = J
        BY <1>0, <4>2
      <4> HIDE DEF rest
      <4>5. Alone(job[p])'
        BY <2>1, <2>2, <2>3, <3>1, <4>1, <4>3, <4>4 DEF Alone
      <4>6. QED
        BY <1>3, <2>1, <4>5 DEF StagesActOnce
    <3>4. QED
      BY <2>5, <3>2, <3>3
  <2>6. QED
    BY <1>5, <2>4, <2>5 DEF PickStage
<1>6. CASE CommitLateFee(p)
  <2> DEFINE i == job[p].inv
             k == job[p].stage
             J == [job[p] EXCEPT !.at = "stage"]
  <2>1. /\ i \in Invoices /\ k \in Stages /\ entries[i].fees[k] = 0 /\ i \notin job[p].todo
        /\ k > invoice[i].stage
    BY <1>1, <1>6 DEF Targeted, Alone, CommitLateFee
  <2>2. /\ entries' = [entries EXCEPT ![i] = Charged(p)]
        /\ invoice' = [invoice EXCEPT ![i].lateFee = FeeAfter(p)]
        /\ UNCHANGED noticeSent /\ Become(p, J) /\ job[p].at = "fee"
    BY <1>6 DEF CommitLateFee
  <2>3. Charged(p).fees = FeesAfter(p)
    BY <1>2, <2>1 DEF Charged, Entry
  <2>4. \A l \in Stages : FeesAfter(p)[l] = IF l = k THEN 1 ELSE entries[i].fees[l]
    BY <1>2, <2>1 DEF FeesAfter, Entry
  <2>5. J.at = "stage" /\ J.inv = i /\ J.stage = k /\ J.todo = job[p].todo /\ J.snap = job[p].snap
        /\ job[p].todo \subseteq Invoices
    BY <1>1 DEF Job
  <2>0. job'[p] = J
    BY <1>0, <2>2
  <2> HIDE DEF i, k, J
  <2>6. \A l \in Invoices : /\ invoice'[l].stage = invoice[l].stage
                            /\ l # i => invoice'[l].lateFee = invoice[l].lateFee
                                        /\ entries'[l] = entries[l]
    BY <2>1, <2>2 DEF TypeOK, Row
  <2>7. Alone(job[p])'
    BY <1>1, <2>0, <2>1, <2>2, <2>5, <2>6 DEF Alone
  <2>8. entries'[i].fees = FeesAfter(p)
    BY <2>1, <2>2, <2>3 DEF TypeOK
  <2>9. StagesActOnce'
    <3> SUFFICES ASSUME NEW l \in Invoices, NEW n \in Stages
                 PROVE  /\ entries'[l].fees[n] <= 1
                        /\ noticeSent'[l][n] <= 1
                        /\ noticeSent'[l][n] > 0 => n <= invoice'[l].stage
      BY DEF StagesActOnce
    <3>1. entries[l].fees[n] <= 1 /\ noticeSent[l][n] <= 1
          /\ (noticeSent[l][n] > 0 => n <= invoice[l].stage)
      BY DEF StagesActOnce
    <3>2. CASE l = i
      BY <2>2, <2>4, <2>6, <2>8, <3>1, <3>2
    <3>3. CASE l # i
      BY <2>2, <2>6, <3>1, <3>3
    <3>4. QED
      BY <3>2, <3>3
  <2>10. QED
    BY <1>3, <2>2, <2>7, <2>9
<1>7. CASE CommitStage(p)
  <2> DEFINE i == job[p].inv
             k == job[p].stage
             J == [job[p] EXCEPT !.at = "notice"]
  <2>1. /\ i \in Invoices /\ k \in Stages /\ k \in Nat /\ i \notin job[p].todo
        /\ k > invoice[i].stage /\ invoice[i].stage \in Nat
    BY <1>1, <1>2, <1>7, StagesAreNat DEF Targeted, Alone, CommitStage, Row
  <2>2. /\ invoice' = [invoice EXCEPT ![i].stage = k]
        /\ UNCHANGED <<entries, noticeSent>> /\ Become(p, J) /\ job[p].at = "stage"
    BY <1>7 DEF CommitStage
  <2>3. J.at = "notice" /\ J.inv = i /\ J.stage = k /\ J.todo = job[p].todo /\ J.snap = job[p].snap
        /\ job[p].todo \subseteq Invoices
    BY <1>1 DEF Job
  <2>0. job'[p] = J
    BY <1>0, <2>2
  <2> HIDE DEF i, k, J
  <2>4. \A l \in Invoices : /\ invoice'[l].lateFee = invoice[l].lateFee
                            /\ invoice'[l].stage = IF l = i THEN k ELSE invoice[l].stage
    BY <2>1, <2>2 DEF TypeOK, Row
  <2>5. noticeSent[i][k] \in Nat /\ ~(noticeSent[i][k] > 0)
    BY <1>2, <2>1 DEF StagesActOnce
  <2>6. noticeSent[i][k] = 0
    BY <2>5
  <2>7. Alone(job[p])'
    BY <1>1, <2>0, <2>1, <2>2, <2>3, <2>4, <2>6 DEF Alone
  <2>8. StagesActOnce'
    BY <2>1, <2>2, <2>4, StagesAreNat DEF StagesActOnce
  <2>9. QED
    BY <1>3, <2>2, <2>7, <2>8
<1>8. CASE AnnounceStage(p)
  <2> DEFINE i == job[p].inv
             k == job[p].stage
             J == [job[p] EXCEPT !.at = "loop", !.inv = NoInvoice, !.stage = 0, !.fee = 0]
  <2>1. /\ i \in Invoices /\ k \in Stages /\ k \in Nat
        /\ k = invoice[i].stage /\ noticeSent[i][k] = 0
    BY <1>1, <1>8, StagesAreNat DEF Targeted, Alone, AnnounceStage
  <2>2. /\ noticeSent' = [noticeSent EXCEPT ![i][k] = @ + 1]
        /\ UNCHANGED <<entries, invoice>> /\ Become(p, J) /\ job[p].at = "notice"
    BY <1>8 DEF AnnounceStage
  <2>3. J.at = "loop" /\ J.todo = job[p].todo /\ J.snap = job[p].snap
    BY <1>1 DEF Job
  <2>0. job'[p] = J
    BY <1>0, <2>2
  <2> HIDE DEF i, k, J
  <2>4. Alone(job[p])'
    BY <1>1, <2>0, <2>2, <2>3 DEF Alone
  <2>5. \A l \in Invoices, n \in Stages :
          noticeSent'[l][n] = IF l = i /\ n = k THEN 1 ELSE noticeSent[l][n]
    BY <1>2, <2>1, <2>2 DEF TypeOK
  <2>6. StagesActOnce'
    BY <2>1, <2>2, <2>5 DEF StagesActOnce
  <2>7. QED
    BY <1>3, <2>2, <2>4, <2>6
<1>9. QED
  BY <1>4, <1>5, <1>6, <1>7, <1>8 DEF DunningStep

LEMMA DunningHolds == ASSUME OneDunner, DunningInv, [Next]_vars PROVE DunningInv'
<1>1. IInv'
  BY NextHolds DEF DunningInv
<1>2. CASE UNCHANGED vars \/ Tick
  <2>1. UNCHANGED <<invoice, entries, noticeSent, job>>
    BY <1>2 DEF vars, Tick
  <2>2. DunnersAlone' /\ StagesActOnce'
    BY <2>1 DEF DunningInv, DunnersAlone, Alone, StagesActOnce
  <2>3. QED
    BY <1>1, <2>2 DEF DunningInv
<1>3. CASE Next /\ ~Tick
  <2>1. PICK p \in Actors :
          \/ (\E kind \in Kinds(p) : Begin(p, kind)) \/ AnnounceOverdue(p) \/ Fail(p)
          \/ p \in Office /\ OfficeStep(p)
          \/ p \in Dunners /\ DunningStep(p)
    BY <1>3 DEF Next, Actors
  <2>2. DunnersAlone' /\ StagesActOnce'
    BY <2>1, OthersDunning, OwnDunning
  <2>3. QED
    BY <1>1, <2>2 DEF DunningInv
<1>4. QED
  BY <1>2, <1>3

LEMMA DunningStarts == Init => DunningInv
<1> SUFFICES ASSUME Init PROVE DunningInv
  OBVIOUS
<1>1. \A p \in Dunners : job[p].at = "idle"
  BY DEF Init, Idle, Actors
<1>2. DunnersAlone
  BY <1>1 DEF DunnersAlone, Alone
<1>3. \A i \in Invoices, k \in Stages : entries[i].fees[k] = 0 /\ noticeSent[i][k] = 0
  BY DEF Init
<1>4. StagesActOnce
  BY <1>3 DEF StagesActOnce
<1>5. QED
  BY <1>2, <1>4, InitHolds DEF DunningInv

-----------------------------------------------------------------------------
(* One writer per kind of command *)

OneOfficeUser == \A p, q \in Office : p = q

\* What the office user's command has read of the sums is still the table's.
Fresh(J) ==
  J.at = "booking" => /\ J.snap[J.inv].paid = invoice[J.inv].paid
                      /\ J.snap[J.inv].credited = invoice[J.inv].credited
OfficeAlone == \A p \in Office : Fresh(job[p])

BooksInv == DunningInv /\ OfficeAlone /\ BooksAgree

\* The amounts of the table and of the rows it summarises, all as they were.
SumsKept ==
  \A i \in Invoices : /\ invoice'[i].paid = invoice[i].paid
                      /\ invoice'[i].credited = invoice[i].credited
                      /\ invoice'[i].lateFee = invoice[i].lateFee
                      /\ entries'[i].paid = entries[i].paid
                      /\ entries'[i].credited = entries[i].credited
                      /\ entries'[i].feeCents = entries[i].feeCents

LEMMA BooksFrame ==
  ASSUME BooksInv, SumsKept, NEW p \in Actors, NEW J, Become(p, J),
         p \in Office => Fresh(J) /\ (J.at = "booking" => J.inv \in Invoices)
  PROVE  OfficeAlone' /\ BooksAgree'
<1> USE DEF BooksInv, DunningInv, IInv
<1>1. job' = [job EXCEPT ![p] = J] /\ job \in [Actors -> Job]
  BY DEF Become, TypeOK
<1>2. ASSUME NEW q \in Office PROVE Fresh(job[q])'
  <2>1. q \in Actors
    BY DEF Actors
  <2>2. CASE q = p
    <3>1. job'[q] = J /\ Fresh(J) /\ (J.at = "booking" => J.inv \in Invoices)
      BY <1>1, <1>2, <2>1, <2>2
    <3>2. QED
      BY <3>1 DEF Fresh, SumsKept
  <2>3. CASE q # p
    <3>1. job'[q] = job[q] /\ Fresh(job[q])
      BY <1>1, <1>2, <2>1, <2>3 DEF OfficeAlone
    <3>2. job[q].at = "booking" => job[q].inv \in Invoices
      BY <2>1 DEF Targeted
    <3>3. QED
      BY <3>1, <3>2 DEF Fresh, SumsKept
  <2>4. QED
    BY <2>2, <2>3
<1>3. BooksAgree'
  BY DEF BooksAgree, SumsKept
<1>4. QED
  BY <1>2, <1>3 DEF OfficeAlone

\* Of what any actor does first, nothing touches an amount.
LEMMA CommonKeepsBooks ==
  ASSUME BooksInv, NEW p \in Actors,
         \/ \E kind \in Kinds(p) : Begin(p, kind)
         \/ AnnounceOverdue(p) \/ Fail(p)
  PROVE  OfficeAlone' /\ BooksAgree'
<1> USE DEF BooksInv, DunningInv, IInv
<1>1. ASSUME NEW J, Become(p, J), J.at # "booking", SumsKept
      PROVE  OfficeAlone' /\ BooksAgree'
  BY <1>1, BooksFrame DEF Fresh
<1>2. Idle.at = "idle"
  BY DEF Idle
<1>3. ASSUME NEW kind \in Kinds(p), Begin(p, kind) PROVE OfficeAlone' /\ BooksAgree'
  <2> DEFINE J == [Idle EXCEPT !.at = "rolled", !.kind = kind, !.asOf = today]
  <2>1. J.at = "rolled"
    BY DEF Idle
  <2>2. Become(p, J) /\ UNCHANGED entries
    BY <1>3 DEF Begin
  <2>3. \A i \in Invoices : /\ invoice'[i].paid = invoice[i].paid
                            /\ invoice'[i].credited = invoice[i].credited
                            /\ invoice'[i].lateFee = invoice[i].lateFee
    BY <1>3 DEF Begin, TypeOK, Row
  <2> HIDE DEF J
  <2>4. QED
    BY <1>1, <2>1, <2>2, <2>3 DEF SumsKept
<1>4. CASE AnnounceOverdue(p)
  <2> DEFINE J == IF job[p].kind = "view" THEN Idle
                  ELSE [job[p] EXCEPT !.at = "ready",
                          !.asOf = IF job[p].kind = "dunning" THEN @ ELSE today]
  <2>1. J.at \in {"idle", "ready"}
    BY <1>2 DEF TypeOK, Job
  <2>2. Become(p, J) /\ SumsKept
    BY <1>4 DEF AnnounceOverdue, SumsKept
  <2> HIDE DEF J
  <2>3. QED
    BY <1>1, <2>1, <2>2
<1>5. CASE Fail(p)
  BY <1>1, <1>2, <1>5 DEF Fail, SumsKept
<1>6. QED
  BY <1>3, <1>4, <1>5

\* A step of the only office user: a command that books an amount has read the
\* sum it adds it to, and the sum is still the table's.
LEMMA OfficeKeepsBooks ==
  ASSUME OneOfficeUser, BooksInv, NEW p \in Office, OfficeStep(p)
  PROVE  OfficeAlone' /\ BooksAgree'
<1> USE DEF BooksInv, DunningInv, IInv
<1>1. p \in Actors /\ job[p] \in Job /\ Fresh(job[p])
  BY DEF TypeOK, Actors, OfficeAlone
<1>2. \A i \in Invoices : invoice[i] \in Row /\ entries[i] \in Entry
  BY DEF TypeOK
<1>3. Fresh(job[p])' => OfficeAlone'
  BY DEF OneOfficeUser, OfficeAlone
<1>0. ASSUME NEW J, Become(p, J) PROVE job'[p] = J
  BY <1>0, <1>1 DEF Become, TypeOK
<1>4. ASSUME NEW J, Become(p, J), SumsKept, Fresh(J), J.at = "booking" => J.inv \in Invoices
      PROVE  OfficeAlone' /\ BooksAgree'
  BY <1>1, <1>4, BooksFrame
<1>5. Fresh(Idle) /\ Idle.at = "idle"
  BY DEF Fresh, Idle
<1>6. ASSUME NEW i \in Invoices, NEW amount \in Amounts, ReadForPayment(p, i, amount)
      PROVE  OfficeAlone' /\ BooksAgree'
  <2> DEFINE J == [job[p] EXCEPT !.at = "booking", !.inv = i, !.amount = amount,
                                 !.snap = [@ EXCEPT ![i] = invoice[i]]]
  <2>1. J.at = "booking" /\ J.inv = i /\ J.snap[i] = invoice[i]
    BY <1>1 DEF Job
  <2>2. SumsKept /\ (Become(p, J) \/ Become(p, Idle))
    BY <1>6 DEF ReadForPayment, SumsKept
  <2> HIDE DEF J
  <2>3. Fresh(J)
    BY <2>1 DEF Fresh
  <2>4. QED
    BY <1>4, <1>5, <2>1, <2>2, <2>3
<1>7. ASSUME NEW i \in Invoices, NEW amount \in Amounts, ReadForCredit(p, i, amount)
      PROVE  OfficeAlone' /\ BooksAgree'
  <2> DEFINE J == [job[p] EXCEPT !.at = "booking", !.inv = i, !.amount = amount,
                                 !.asOf = today, !.snap = [@ EXCEPT ![i] = invoice[i]]]
  <2>1. J.at = "booking" /\ J.inv = i /\ J.snap[i] = invoice[i]
    BY <1>1 DEF Job
  <2>2. SumsKept /\ (Become(p, J) \/ Become(p, Idle))
    BY <1>7 DEF ReadForCredit, SumsKept
  <2> HIDE DEF J
  <2>3. Fresh(J)
    BY <2>1 DEF Fresh
  <2>4. QED
    BY <1>4, <1>5, <2>1, <2>2, <2>3
<1>8. CASE (\E amount \in Amounts : RecordUnallocated(p, amount)) \/ AnnounceEntry(p)
  BY <1>4, <1>5, <1>8 DEF RecordUnallocated, AnnounceEntry, SumsKept
<1>9. CASE CommitPayment(p)
  <2> DEFINE i == job[p].inv
             row == [job[p].snap[i] EXCEPT !.paid = PaidAfter(p)]
             status == StatusAfter(row, job[p].asOf)
             J == [job[p] EXCEPT !.at = "booked"]
  <2>1. /\ i \in Invoices /\ job[p].snap[i] \in Row /\ job[p].amount \in Nat
        /\ job[p].snap[i].paid = invoice[i].paid /\ J.at = "booked"
    BY <1>1, <1>9 DEF Targeted, CommitPayment, Job, OfficeAlone, Fresh
  <2>10. Allocated(p) \in Nat
    BY <1>1, <2>1, AllocatedBounds
  <2>2. PaidAfter(p) = invoice[i].paid + Allocated(p) /\ row.paid = PaidAfter(p)
    BY <2>1, <2>10 DEF PaidAfter, Row
  <2>3. /\ entries' = [entries EXCEPT ![i].paid = @ + Allocated(p)]
        /\ invoice' = [invoice EXCEPT ![i].paid = row.paid, ![i].status = status]
        /\ Become(p, J)
    BY <1>9 DEF CommitPayment
  <2>0. job'[p] = J
    BY <1>0, <2>3
  <2> HIDE DEF i, row, status, J
  <2>4. \A l \in Invoices : /\ invoice'[l].paid = IF l = i THEN PaidAfter(p) ELSE invoice[l].paid
                            /\ invoice'[l].credited = invoice[l].credited
                            /\ invoice'[l].lateFee = invoice[l].lateFee
    BY <2>1, <2>2, <2>3 DEF TypeOK, Row
  <2>5. \A l \in Invoices :
          /\ entries'[l].paid = entries[l].paid + (IF l = i THEN Allocated(p) ELSE 0)
          /\ entries'[l].credited = entries[l].credited
          /\ entries'[l].feeCents = entries[l].feeCents
    BY <1>2, <2>1, <2>3, <2>10 DEF TypeOK, Entry
  <2>6. \A l \in Invoices : /\ invoice[l].paid = entries[l].paid
                            /\ invoice[l].credited = entries[l].credited
                            /\ invoice[l].lateFee = entries[l].feeCents
                            /\ entries[l].paid \in Nat
    BY <1>2 DEF BooksAgree, Entry
  <2>7. BooksAgree'
    BY <2>2, <2>4, <2>5, <2>6, <2>10 DEF BooksAgree
  <2>8. OfficeAlone'
    BY <1>3, <2>0, <2>1 DEF Fresh, J
  <2>9. QED
    BY <2>7, <2>8
<1>10. CASE CommitCredit(p)
  <2> DEFINE i == job[p].inv
             row == [job[p].snap[i] EXCEPT !.credited = Credited(p)]
             status == StatusAfter(row, job[p].asOf)
             J == [job[p] EXCEPT !.at = "booked"]
  <2>1. /\ i \in Invoices /\ job[p].snap[i] \in Row /\ job[p].amount \in Nat
        /\ job[p].snap[i].credited = invoice[i].credited /\ J.at = "booked"
    BY <1>1, <1>10 DEF Targeted, CommitCredit, Job, OfficeAlone, Fresh
  <2>2. Credited(p) = invoice[i].credited + job[p].amount /\ row.credited = Credited(p)
    BY <2>1 DEF Credited, Row
  <2>3. /\ entries' = [entries EXCEPT ![i].credited = @ + job[p].amount]
        /\ invoice' = [invoice EXCEPT ![i].credited = row.credited, ![i].status = status]
        /\ Become(p, J)
    BY <1>10 DEF CommitCredit
  <2>0. job'[p] = J
    BY <1>0, <2>3
  <2> HIDE DEF i, row, status, J
  <2>4. \A l \in Invoices : /\ invoice'[l].credited = IF l = i THEN Credited(p) ELSE invoice[l].credited
                            /\ invoice'[l].paid = invoice[l].paid
                            /\ invoice'[l].lateFee = invoice[l].lateFee
    BY <2>1, <2>2, <2>3 DEF TypeOK, Row
  <2>5. \A l \in Invoices :
          /\ entries'[l].credited = entries[l].credited + (IF l = i THEN job[p].amount ELSE 0)
          /\ entries'[l].paid = entries[l].paid
          /\ entries'[l].feeCents = entries[l].feeCents
    BY <1>2, <2>1, <2>3 DEF TypeOK, Entry
  <2>6. \A l \in Invoices : /\ invoice[l].credited = entries[l].credited
                            /\ invoice[l].paid = entries[l].paid
                            /\ invoice[l].lateFee = entries[l].feeCents
                            /\ entries[l].credited \in Nat
    BY <1>2 DEF BooksAgree, Entry
  <2>7. BooksAgree'
    BY <2>1, <2>2, <2>4, <2>5, <2>6 DEF BooksAgree
  <2>8. OfficeAlone'
    BY <1>3, <2>0, <2>1 DEF Fresh, J
  <2>9. QED
    BY <2>7, <2>8
<1>11. QED
  BY <1>6, <1>7, <1>8, <1>9, <1>10 DEF OfficeStep

\* A run of dunning writes one sum, that of the fees, and it has read the sum
\* that it adds to.
LEMMA DunningKeepsBooks ==
  ASSUME BooksInv, NEW p \in Dunners, DunningStep(p)
  PROVE  OfficeAlone' /\ BooksAgree'
<1> USE DEF BooksInv, DunningInv, IInv
<1>1. p \in Actors /\ p \notin Office /\ job[p] \in Job /\ Alone(job[p])
  BY LedgerAssumption DEF TypeOK, Actors, DunnersAlone
<1>2. \A i \in Invoices : invoice[i] \in Row /\ entries[i] \in Entry
  BY DEF TypeOK
<1>3. ASSUME NEW J, Become(p, J), SumsKept PROVE OfficeAlone' /\ BooksAgree'
  BY <1>1, <1>3, BooksFrame
<1>4. CASE ListOpen(p) \/ AnnounceStage(p) \/ FinishRun(p)
  BY <1>3, <1>4 DEF ListOpen, AnnounceStage, FinishRun, SumsKept
<1>5. ASSUME NEW i \in Invoices, PickStage(p, i) PROVE OfficeAlone' /\ BooksAgree'
  BY <1>3, <1>5 DEF PickStage, SumsKept
<1>6. CASE CommitStage(p)
  <2>1. job[p].inv \in Invoices
    BY <1>1, <1>6 DEF CommitStage, Targeted
  <2>2. SumsKept
    BY <1>2, <1>6, <2>1 DEF CommitStage, SumsKept, TypeOK, Row
  <2>3. QED
    BY <1>3, <1>6, <2>2 DEF CommitStage
<1>7. CASE CommitLateFee(p)
  <2> DEFINE i == job[p].inv
             J == [job[p] EXCEPT !.at = "stage"]
  <2>1. /\ i \in Invoices /\ job[p].snap[i] \in Row /\ job[p].fee \in Nat
        /\ job[p].snap[i].lateFee = invoice[i].lateFee
    BY <1>1, <1>7 DEF Targeted, CommitLateFee, Job, Alone
  <2>2. FeeAfter(p) = invoice[i].lateFee + job[p].fee
    BY <2>1 DEF FeeAfter
  <2>3. /\ entries' = [entries EXCEPT ![i] = Charged(p)]
        /\ invoice' = [invoice EXCEPT ![i].lateFee = FeeAfter(p)]
        /\ Become(p, J)
    BY <1>7 DEF CommitLateFee
  <2>4. /\ Charged(p).paid = entries[i].paid /\ Charged(p).credited = entries[i].credited
        /\ Charged(p).feeCents = entries[i].feeCents + job[p].fee
    BY <1>2, <2>1 DEF Charged, Entry
  <2>0. job' = [job EXCEPT ![p] = J]
    BY <2>3 DEF Become
  <2> HIDE DEF i, J
  <2>5. \A l \in Invoices : /\ invoice'[l].lateFee = IF l = i THEN FeeAfter(p) ELSE invoice[l].lateFee
                            /\ invoice'[l].paid = invoice[l].paid
                            /\ invoice'[l].credited = invoice[l].credited
    BY <2>1, <2>2, <2>3 DEF TypeOK, Row
  <2>6. \A l \in Invoices : entries'[l] = IF l = i THEN Charged(p) ELSE entries[l]
    BY <2>1, <2>3 DEF TypeOK
  <2>7. \A l \in Invoices : /\ entries'[l].paid = entries[l].paid
                            /\ entries'[l].credited = entries[l].credited
                            /\ entries'[l].feeCents = IF l = i THEN entries[l].feeCents + job[p].fee
                                                                ELSE entries[l].feeCents
    BY <2>4, <2>6
  <2>8. \A l \in Invoices : /\ invoice[l].paid = entries[l].paid
                            /\ invoice[l].credited = entries[l].credited
                            /\ invoice[l].lateFee = entries[l].feeCents
    BY DEF BooksAgree
  <2>9. BooksAgree'
    BY <2>2, <2>5, <2>7, <2>8 DEF BooksAgree
  <2>10. OfficeAlone'
    <3> SUFFICES ASSUME NEW q \in Office PROVE Fresh(job[q])'
      BY DEF OfficeAlone
    <3>1. q \in Actors /\ q # p /\ Fresh(job[q])
      BY <1>1 DEF Actors, OfficeAlone
    <3>2. job'[q] = job[q] /\ (job[q].at = "booking" => job[q].inv \in Invoices)
      BY <2>0, <3>1 DEF TypeOK, Targeted
    <3>3. QED
      BY <2>5, <3>1, <3>2 DEF Fresh
  <2>11. QED
    BY <2>9, <2>10
<1>8. QED
  BY <1>4, <1>5, <1>6, <1>7 DEF DunningStep

LEMMA BooksHold ==
  ASSUME OneDunner, OneOfficeUser, BooksInv, [Next]_vars PROVE BooksInv'
<1>1. DunningInv'
  BY DunningHolds DEF BooksInv
<1>2. CASE UNCHANGED vars \/ Tick
  <2>1. UNCHANGED <<invoice, entries, job>>
    BY <1>2 DEF vars, Tick
  <2>2. OfficeAlone' /\ BooksAgree'
    BY <2>1 DEF BooksInv, OfficeAlone, Fresh, BooksAgree
  <2>3. QED
    BY <1>1, <2>2 DEF BooksInv
<1>3. CASE Next /\ ~Tick
  <2>1. PICK p \in Actors :
          \/ (\E kind \in Kinds(p) : Begin(p, kind)) \/ AnnounceOverdue(p) \/ Fail(p)
          \/ p \in Office /\ OfficeStep(p)
          \/ p \in Dunners /\ DunningStep(p)
    BY <1>3 DEF Next, Actors
  <2>2. OfficeAlone' /\ BooksAgree'
    BY <2>1, CommonKeepsBooks, OfficeKeepsBooks, DunningKeepsBooks
  <2>3. QED
    BY <1>1, <2>2 DEF BooksInv
<1>4. QED
  BY <1>2, <1>3

LEMMA BooksStart == Init => BooksInv
<1> SUFFICES ASSUME Init PROVE BooksInv
  OBVIOUS
<1>1. OfficeAlone
  BY DEF Init, Idle, Actors, OfficeAlone, Fresh
<1>2. BooksAgree
  BY DEF Init, NewRow, BooksAgree
<1>3. QED
  BY <1>1, <1>2, DunningStarts DEF BooksInv

-----------------------------------------------------------------------------
(* The theorems *)

\* Every reachable state of the ledger is well typed.
THEOREM TypeCorrect == Spec => []TypeOK
<1>1. IInv => TypeOK
  BY DEF IInv
<1>2. QED
  BY <1>1, InitHolds, NextHolds, PTL DEF Spec

\* However payments, credit notes, fees, rolls, failures and the clock
\* interleave, the denormalised sums of an invoice never exceed its rows.
THEOREM NeverOverstated == Spec => []SumsNeverOverstate
<1>1. IInv => SumsNeverOverstate
  BY DEF IInv
<1>2. QED
  BY <1>1, InitHolds, NextHolds, PTL DEF Spec

\* While only one run of dunning is in the server, a stage charges one fee and
\* sends one notice, whatever the office books meanwhile and however often a
\* run dies half way and is repeated.
THEOREM StageOnce == ASSUME OneDunner PROVE Spec => []StagesActOnce
<1>1. DunningInv /\ [Next]_vars => DunningInv'
  BY DunningHolds
<1>2. DunningInv => StagesActOnce
  BY DEF DunningInv
<1>3. QED
  BY <1>1, <1>2, DunningStarts, PTL DEF Spec

\* With one office user and one run of dunning in the server, the sums on an
\* invoice are those of its payments, credit notes and fees, whatever pages,
\* rolls, failures and midnights come in between.
THEOREM BooksAlwaysAgree == ASSUME OneDunner, OneOfficeUser PROVE Spec => []BooksAgree
<1>1. BooksInv /\ [Next]_vars => BooksInv'
  BY BooksHold
<1>2. BooksInv => BooksAgree
  BY DEF BooksInv
<1>3. QED
  BY <1>1, <1>2, BooksStart, PTL DEF Spec

-----------------------------------------------------------------------------
(* What the status of an invoice says of the money *)

\* A booking was read from an invoice that was open.
ReadOpen(J) == J.at = "booking" => IsOpen(J.snap[J.inv])
OfficeReadsOpen == \A p \in Office : ReadOpen(job[p])

\* How the command of an office user moves: it stays, it is not a booking, or it
\* has just read an open invoice.
JustRead(J) == \E i \in Invoices : J.inv = i /\ J.snap[i] = invoice[i] /\ IsOpen(invoice[i])

LEMMA JobMoves ==
  ASSUME IInv, [Next]_vars, NEW q \in Office
  PROVE  \/ job'[q] = job[q]
         \/ job'[q].at # "booking"
         \/ JustRead(job'[q]) /\ UNCHANGED invoice
<1>1. q \in Actors /\ q \notin Dunners /\ job \in [Actors -> Job]
  BY LedgerAssumption DEF Actors, IInv, TypeOK
<1>2. ASSUME NEW p \in Actors, NEW J, Become(p, J) PROVE job'[q] = IF q = p THEN J ELSE job[q]
  BY <1>1, <1>2 DEF Become
<1>3. ASSUME NEW p \in Actors, NEW J, Become(p, J), J.at # "booking"
      PROVE  job'[q] = job[q] \/ job'[q].at # "booking"
  BY <1>2, <1>3
<1>4. Idle.at = "idle"
  BY DEF Idle
<1>5. ASSUME NEW p \in Actors, NEW kind \in Kinds(p), Begin(p, kind)
      PROVE  job'[q] = job[q] \/ job'[q].at # "booking"
  <2> DEFINE J == [Idle EXCEPT !.at = "rolled", !.kind = kind, !.asOf = today]
  <2>1. Become(p, J) /\ J.at = "rolled"
    BY <1>5 DEF Begin, Idle
  <2> HIDE DEF J
  <2>2. QED
    BY <1>3, <2>1
<1>6. ASSUME NEW p \in Actors, AnnounceOverdue(p)
      PROVE  job'[q] = job[q] \/ job'[q].at # "booking"
  <2> DEFINE J == IF job[p].kind = "view" THEN Idle
                  ELSE [job[p] EXCEPT !.at = "ready",
                          !.asOf = IF job[p].kind = "dunning" THEN @ ELSE today]
  <2>1. Become(p, J) /\ J.at \in {"idle", "ready"}
    BY <1>1, <1>4, <1>6 DEF AnnounceOverdue, Job
  <2> HIDE DEF J
  <2>2. QED
    BY <1>3, <2>1
<1>7. ASSUME NEW p \in Actors, Fail(p) PROVE job'[q] = job[q] \/ job'[q].at # "booking"
  BY <1>3, <1>4, <1>7 DEF Fail
<1>8. ASSUME NEW p \in Office, NEW i \in Invoices, NEW amount \in Amounts,
             ReadForPayment(p, i, amount) \/ ReadForCredit(p, i, amount)
      PROVE  job'[q] = job[q] \/ job'[q].at # "booking" \/ (JustRead(job'[q]) /\ UNCHANGED invoice)
  <2>1. p \in Actors /\ job[p] \in Job
    BY <1>1 DEF Actors
  <2> DEFINE P == [job[p] EXCEPT !.at = "booking", !.inv = i, !.amount = amount,
                                 !.snap = [@ EXCEPT ![i] = invoice[i]]]
             C == [job[p] EXCEPT !.at = "booking", !.inv = i, !.amount = amount,
                                 !.asOf = today, !.snap = [@ EXCEPT ![i] = invoice[i]]]
  <2>2. P.inv = i /\ P.snap[i] = invoice[i] /\ C.inv = i /\ C.snap[i] = invoice[i]
    BY <2>1 DEF Job
  <2>3. UNCHANGED invoice /\ \/ IsOpen(invoice[i]) /\ (Become(p, P) \/ Become(p, C))
                             \/ Become(p, Idle)
    BY <1>8 DEF ReadForPayment, ReadForCredit
  <2> HIDE DEF P, C
  <2>4. IsOpen(invoice[i]) => JustRead(P) /\ JustRead(C)
    BY <2>2 DEF JustRead
  <2>5. QED
    BY <1>2, <1>4, <2>1, <2>3, <2>4
<1>9. ASSUME NEW p \in Office, OfficeStep(p),
             \A i \in Invoices, amount \in Amounts :
               ~ReadForPayment(p, i, amount) /\ ~ReadForCredit(p, i, amount)
      PROVE  job'[q] = job[q] \/ job'[q].at # "booking"
  <2> DEFINE B == [job[p] EXCEPT !.at = "booked"]
  <2>1. p \in Actors /\ B.at = "booked"
    BY <1>1 DEF Actors, Job
  <2>2. Become(p, B) \/ Become(p, Idle)
    BY <1>9 DEF OfficeStep, RecordUnallocated, CommitPayment, CommitCredit, AnnounceEntry
  <2> HIDE DEF B
  <2>3. QED
    BY <1>3, <1>4, <2>1, <2>2
<1>10. ASSUME NEW p \in Dunners, DunningStep(p) PROVE job'[q] = job[q]
  <2>1. PICK J : Become(p, J)
    BY <1>10 DEF DunningStep, ListOpen, PickStage, CommitLateFee, CommitStage, AnnounceStage, FinishRun
  <2>2. p \in Actors /\ p # q
    BY <1>1, <1>10 DEF Actors
  <2>3. QED
    BY <1>2, <2>1, <2>2
<1>11. CASE Tick \/ UNCHANGED vars
  BY <1>11 DEF Tick, vars
<1>12. QED
  BY <1>5, <1>6, <1>7, <1>8, <1>9, <1>10, <1>11 DEF Next

LEMMA ReadsOpenHolds == ASSUME IInv, OfficeReadsOpen, [Next]_vars PROVE OfficeReadsOpen'
BY JobMoves DEF OfficeReadsOpen, ReadOpen, JustRead

\* Only a booking closes an invoice, or touches one that is closed.
LEMMA StatusMoves ==
  ASSUME IInv, [Next]_vars, NEW i \in Invoices
  PROVE  \/ invoice'[i].status = invoice[i].status
         \/ invoice[i].status # "paid" /\ invoice'[i].status = "overdue"
         \/ \E p \in Office : i = job[p].inv /\ (CommitPayment(p) \/ CommitCredit(p))
<1>1. invoice \in [Invoices -> Row]
  BY DEF IInv, TypeOK
<1>2. ASSUME NEW p \in Actors, NEW kind \in Kinds(p), Begin(p, kind)
      PROVE  \/ invoice'[i].status = invoice[i].status
             \/ invoice[i].status # "paid" /\ invoice'[i].status = "overdue"
  BY <1>1, <1>2 DEF Begin, PastDue, Row
<1>3. ASSUME NEW p \in Office, OfficeStep(p)
      PROVE  \/ invoice'[i].status = invoice[i].status
             \/ \E u \in Office : i = job[u].inv /\ (CommitPayment(u) \/ CommitCredit(u))
  <2>1. CASE CommitPayment(p) \/ CommitCredit(p)
    <3>1. CASE i = job[p].inv
      BY <2>1, <3>1
    <3>2. CASE i # job[p].inv
      <4>1. invoice'[i] = invoice[i]
        BY <1>1, <2>1, <3>2 DEF CommitPayment, CommitCredit
      <4>2. QED
        BY <4>1
    <3>3. QED
      BY <3>1, <3>2
  <2>2. CASE ~CommitPayment(p) /\ ~CommitCredit(p)
    BY <1>3, <2>2 DEF OfficeStep, ReadForPayment, ReadForCredit, RecordUnallocated, AnnounceEntry
  <2>3. QED
    BY <2>1, <2>2
<1>4. ASSUME NEW p \in Dunners, DunningStep(p) PROVE invoice'[i].status = invoice[i].status
  <2>1. CASE CommitLateFee(p) \/ CommitStage(p)
    BY <1>1, <2>1 DEF CommitLateFee, CommitStage, Row
  <2>2. CASE ~CommitLateFee(p) /\ ~CommitStage(p)
    BY <1>4, <2>2 DEF DunningStep, ListOpen, PickStage, AnnounceStage, FinishRun
  <2>3. QED
    BY <2>1, <2>2
<1>5. QED
  BY <1>2, <1>3, <1>4 DEF Next, AnnounceOverdue, Fail, Tick, vars

\* No step takes a booked row away.
LEMMA EntriesStay ==
  ASSUME IInv, [Next]_vars, NEW i \in Invoices
  PROVE  entries'[i].paid >= entries[i].paid /\ entries'[i].credited >= entries[i].credited
<1>1. entries \in [Invoices -> Entry] /\ entries[i] \in Entry
  BY DEF IInv, TypeOK
<1>2. CASE UNCHANGED entries
  BY <1>1, <1>2 DEF Entry
<1>3. ASSUME NEW p \in Office, CommitPayment(p)
      PROVE  entries'[i].paid >= entries[i].paid /\ entries'[i].credited = entries[i].credited
  <2>1. p \in Actors /\ job[p].inv \in Invoices
    BY <1>3 DEF Actors, IInv, Targeted, CommitPayment
  <2>2. Allocated(p) \in Nat
    BY <2>1, AllocatedBounds DEF IInv
  <2>3. entries' = [entries EXCEPT ![job[p].inv].paid = @ + Allocated(p)]
    BY <1>3 DEF CommitPayment
  <2>4. QED
    BY <1>1, <2>1, <2>2, <2>3 DEF Entry
<1>4. ASSUME NEW p \in Office, CommitCredit(p)
      PROVE  entries'[i].credited >= entries[i].credited /\ entries'[i].paid = entries[i].paid
  <2>1. p \in Actors /\ job[p] \in Job /\ job[p].inv \in Invoices
    BY <1>4 DEF Actors, IInv, TypeOK, Targeted, CommitCredit
  <2>2. job[p].amount \in Nat
    BY <2>1 DEF Job
  <2>3. entries' = [entries EXCEPT ![job[p].inv].credited = @ + job[p].amount]
    BY <1>4 DEF CommitCredit
  <2>4. QED
    BY <1>1, <2>1, <2>2, <2>3 DEF Entry
<1>5. ASSUME NEW p \in Dunners, CommitLateFee(p)
      PROVE  entries'[i].paid = entries[i].paid /\ entries'[i].credited = entries[i].credited
  <2>1. entries[job[p].inv] \in Entry /\ entries' = [entries EXCEPT ![job[p].inv] = Charged(p)]
    BY <1>1, <1>5 DEF CommitLateFee, IInv, Targeted, Actors
  <2>2. Charged(p).paid = entries[job[p].inv].paid /\ Charged(p).credited = entries[job[p].inv].credited
    BY <2>1 DEF Charged, Entry
  <2>3. QED
    BY <1>1, <2>1, <2>2
<1>6. entries[i].paid \in Nat /\ entries[i].credited \in Nat
  BY <1>1 DEF Entry
<1>7. CASE \E p \in Office : CommitPayment(p) \/ CommitCredit(p)
  BY <1>3, <1>4, <1>6, <1>7
<1>8. CASE \E p \in Dunners : CommitLateFee(p)
  BY <1>5, <1>6, <1>8
<1>9. QED
  BY <1>2, <1>7, <1>8
     DEF Next, Begin, AnnounceOverdue, Fail, Tick, vars, OfficeStep, ReadForPayment, ReadForCredit,
         RecordUnallocated, AnnounceEntry, DunningStep, ListOpen, PickStage, CommitStage,
         AnnounceStage, FinishRun

\* A row that a booking closes is settled by what it says.
LEMMA ClosedIsSettled ==
  ASSUME NEW row \in Row, NEW day \in Nat, IsOpen(row), StatusAfter(row, day) = "paid"
  PROVE  row.paid + row.credited >= Total
<1>1. Balance(row) <= 0
  BY DEF StatusAfter, IsOpen, OpenStatuses
<1>2. row.paid \in Nat /\ row.credited \in Nat /\ row.lateFee \in Nat /\ Total \in Nat
  BY LedgerAssumption DEF Row
<1>3. QED
  BY <1>1, <1>2 DEF Balance

LEMMA PaymentCovers ==
  ASSUME IInv, OfficeReadsOpen, NEW p \in Office, CommitPayment(p),
         invoice'[job[p].inv].status = "paid"
  PROVE  entries'[job[p].inv].paid + entries'[job[p].inv].credited >= Total
<1> DEFINE i == job[p].inv
           row == [job[p].snap[i] EXCEPT !.paid = PaidAfter(p)]
<1>1. p \in Actors /\ i \in Invoices /\ job[p] \in Job /\ job[p].snap[i] \in Row /\ IsOpen(job[p].snap[i])
      /\ job[p].asOf \in Nat
  BY DEF Actors, IInv, TypeOK, Targeted, CommitPayment, Job, OfficeReadsOpen, ReadOpen
<1>2. Allocated(p) \in Nat /\ PaidAfter(p) = job[p].snap[i].paid + Allocated(p)
  BY <1>1, AllocatedBounds DEF IInv, PaidAfter
<1>3. job[p].snap[i].paid \in Nat /\ job[p].snap[i].credited \in Nat /\ entries[i] \in Entry
      /\ job[p].snap[i].paid <= entries[i].paid /\ job[p].snap[i].credited <= entries[i].credited
  BY <1>1 DEF Row, IInv, TypeOK, SnapsBehind
<1>4. /\ row \in Row /\ IsOpen(row) /\ row.paid = PaidAfter(p)
      /\ row.credited = job[p].snap[i].credited
  BY <1>1, <1>2, <1>3 DEF Row, IsOpen
<1>5. entries' = [entries EXCEPT ![i].paid = @ + Allocated(p)]
      /\ invoice' = [invoice EXCEPT ![i].paid = row.paid, ![i].status = StatusAfter(row, job[p].asOf)]
  BY DEF CommitPayment
<1> HIDE DEF i, row
<1>6. StatusAfter(row, job[p].asOf) = "paid"
  BY <1>1, <1>5 DEF IInv, TypeOK, Row, i
<1>7. row.paid + row.credited >= Total
  BY <1>1, <1>4, <1>6, ClosedIsSettled
<1>8. entries'[i].paid = entries[i].paid + Allocated(p) /\ entries'[i].credited = entries[i].credited
  BY <1>1, <1>5 DEF IInv, TypeOK, Entry
<1>9. entries[i].paid \in Nat /\ entries[i].credited \in Nat /\ Total \in Nat
  BY <1>3, LedgerAssumption DEF Entry
<1>10. entries'[i].paid + entries'[i].credited >= Total
  BY <1>2, <1>3, <1>4, <1>7, <1>8, <1>9
<1>11. QED
  BY <1>10 DEF i

LEMMA CreditCovers ==
  ASSUME IInv, OfficeReadsOpen, NEW p \in Office, CommitCredit(p),
         invoice'[job[p].inv].status = "paid"
  PROVE  entries'[job[p].inv].paid + entries'[job[p].inv].credited >= Total
<1> DEFINE i == job[p].inv
           row == [job[p].snap[i] EXCEPT !.credited = Credited(p)]
<1>1. p \in Actors /\ i \in Invoices /\ job[p] \in Job /\ job[p].snap[i] \in Row /\ IsOpen(job[p].snap[i])
      /\ job[p].asOf \in Nat /\ job[p].amount \in Nat
  BY DEF Actors, IInv, TypeOK, Targeted, CommitCredit, Job, OfficeReadsOpen, ReadOpen
<1>2. Credited(p) = job[p].snap[i].credited + job[p].amount
  BY DEF Credited
<1>3. job[p].snap[i].paid \in Nat /\ job[p].snap[i].credited \in Nat /\ entries[i] \in Entry
      /\ job[p].snap[i].paid <= entries[i].paid /\ job[p].snap[i].credited <= entries[i].credited
  BY <1>1 DEF Row, IInv, TypeOK, SnapsBehind
<1>4. /\ row \in Row /\ IsOpen(row) /\ row.credited = Credited(p)
      /\ row.paid = job[p].snap[i].paid
  BY <1>1, <1>2, <1>3 DEF Row, IsOpen
<1>5. entries' = [entries EXCEPT ![i].credited = @ + job[p].amount]
      /\ invoice' = [invoice EXCEPT ![i].credited = row.credited, ![i].status = StatusAfter(row, job[p].asOf)]
  BY DEF CommitCredit
<1> HIDE DEF i, row
<1>6. StatusAfter(row, job[p].asOf) = "paid"
  BY <1>1, <1>5 DEF IInv, TypeOK, Row, i
<1>7. row.paid + row.credited >= Total
  BY <1>1, <1>4, <1>6, ClosedIsSettled
<1>8. entries'[i].credited = entries[i].credited + job[p].amount /\ entries'[i].paid = entries[i].paid
  BY <1>1, <1>5 DEF IInv, TypeOK, Entry
<1>9. entries[i].paid \in Nat /\ entries[i].credited \in Nat /\ Total \in Nat
  BY <1>3, LedgerAssumption DEF Entry
<1>10. entries'[i].paid + entries'[i].credited >= Total
  BY <1>1, <1>2, <1>3, <1>4, <1>7, <1>8, <1>9
<1>11. QED
  BY <1>10 DEF i

LEMMA CoverHolds ==
  ASSUME IInv, OfficeReadsOpen, PaidIsCovered, [Next]_vars PROVE PaidIsCovered'
<1> SUFFICES ASSUME NEW i \in Invoices, invoice'[i].status = "paid"
             PROVE  entries'[i].paid + entries'[i].credited >= Total
  BY DEF PaidIsCovered
<1>1. CASE \E p \in Office : i = job[p].inv /\ (CommitPayment(p) \/ CommitCredit(p))
  BY <1>1, PaymentCovers, CreditCovers
<1>2. CASE invoice[i].status = "paid"
  <2>1. entries[i].paid + entries[i].credited >= Total
    BY <1>2 DEF PaidIsCovered
  <2>2. entries[i].paid \in Nat /\ entries[i].credited \in Nat
    BY DEF IInv, TypeOK, Entry
  <2>3. IInv'
    BY NextHolds
  <2>4. entries'[i].paid \in Nat /\ entries'[i].credited \in Nat
    BY <2>3 DEF IInv, TypeOK, Entry
  <2>5. QED
    BY <2>1, <2>2, <2>4, EntriesStay, LedgerAssumption
<1>3. QED
  BY <1>1, <1>2, StatusMoves

\* However many people book at once, an invoice is only closed when payments and
\* credit notes really cover it: the lost updates of stale reads never close one.
THEOREM NeverClosedShort == Spec => []PaidIsCovered
<1>1. Init => OfficeReadsOpen /\ PaidIsCovered
  BY DEF Init, OfficeReadsOpen, ReadOpen, Idle, Actors, PaidIsCovered, NewRow
<1>2. QED
  BY <1>1, InitHolds, NextHolds, ReadsOpenHolds, CoverHolds, PTL DEF Spec

\* Whatever commands, failures and rolls interleave, and however many people book
\* from old reads, all the money that came in is in the payment rows, and it is
\* that money, with the credit notes, that closes an invoice.
THEOREM NoMoneyLost == Spec => []MoneyIsKept
<1>1. Init => RowsHoldTheMoney
  BY LedgerAssumption DEF Init, RowsHoldTheMoney, Purposes
<1>2. IInv /\ RowsHoldTheMoney /\ PaidIsCovered => MoneyIsKept
  <2> SUFFICES ASSUME IInv, RowsHoldTheMoney, PaidIsCovered, NEW i \in Invoices, invoice[i].status = "paid"
               PROVE  received[i] - unallocated[i] + entries[i].credited >= Total
    BY DEF MoneyIsKept
  <2>1. entries[i].paid \in Nat /\ unallocated[i] \in Nat
    BY DEF IInv, TypeOK, Entry, Purposes
  <2>2. received[i] = entries[i].paid + unallocated[i]
    BY DEF RowsHoldTheMoney
  <2>3. entries[i].paid + entries[i].credited >= Total
    BY DEF PaidIsCovered
  <2>4. QED
    BY <2>1, <2>2, <2>3
<1>3. QED
  BY <1>1, <1>2, InitHolds, NextHolds, MoneyStep, NeverClosedShort, PTL DEF Spec

\* The invoice the only office user is booking on has not been closed meanwhile.
StillOpen == \A p \in Office : job[p].at = "booking" => invoice[job[p].inv].status # "paid"

LEMMA StillOpenHolds == ASSUME OneOfficeUser, IInv, StillOpen, [Next]_vars PROVE StillOpen'
<1> SUFFICES ASSUME NEW p \in Office, job'[p].at = "booking"
             PROVE  invoice'[job'[p].inv].status # "paid"
  BY DEF StillOpen
<1>1. CASE JustRead(job'[p]) /\ UNCHANGED invoice
  BY <1>1 DEF JustRead, IsOpen, OpenStatuses
<1>2. CASE job'[p] = job[p]
  <2>1. job[p].inv \in Invoices /\ invoice[job[p].inv].status # "paid"
    BY <1>2 DEF StillOpen, IInv, Targeted, Actors
  <2>2. ASSUME NEW u \in Office, CommitPayment(u) \/ CommitCredit(u) PROVE FALSE
    <3>1. u = p /\ u \in Actors
      BY DEF OneOfficeUser, Actors
    <3>2. Become(p, [job[p] EXCEPT !.at = "booked"]) /\ job \in [Actors -> Job]
      BY <2>2, <3>1 DEF CommitPayment, CommitCredit, IInv, TypeOK
    <3>3. job'[p].at = "booked"
      BY <3>1, <3>2 DEF Become, Job
    <3>4. QED
      BY <3>3
  <2>3. QED
    BY <1>2, <2>1, <2>2, StatusMoves
<1>3. QED
  BY <1>1, <1>2, JobMoves

\* With one office user, a paid invoice is never reopened, however many dunning
\* runs, rolls and failures interleave with the bookings.
THEOREM PaidForGood == ASSUME OneOfficeUser PROVE Spec => PaidStaysPaid
<1>1. Init => StillOpen
  BY DEF Init, StillOpen, Idle, Actors
<1>2. IInv /\ StillOpen /\ [Next]_vars => StillOpen'
  BY StillOpenHolds
<1>3. IInv /\ StillOpen /\ [Next]_vars => [NotReopened]_vars
  <2> SUFFICES ASSUME IInv, StillOpen, [Next]_vars, NEW i \in Invoices, invoice[i].status = "paid"
               PROVE  invoice'[i].status = "paid"
    BY DEF NotReopened
  <2>1. ASSUME NEW p \in Office, i = job[p].inv, CommitPayment(p) \/ CommitCredit(p) PROVE FALSE
    BY <2>1 DEF StillOpen, CommitPayment, CommitCredit
  <2>2. QED
    BY <2>1, StatusMoves
<1>4. Spec => [](IInv /\ StillOpen)
  BY <1>1, <1>2, InitHolds, NextHolds, PTL DEF Spec
<1>5. QED
  BY <1>3, <1>4, PTL DEF Spec, PaidStaysPaid
=============================================================================
