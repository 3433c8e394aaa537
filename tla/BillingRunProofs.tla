----------------------------- MODULE BillingRunProofs -----------------------------
(***************************************************************************)
(* Proofs about BillingRun, for every set of contracts and processes: the  *)
(* numbers of a series have no hole and no document shares one, a contract *)
(* has one invoice per period and none for a month another covers, and,    *)
(* with enough days to run on, none of its months passes without one.      *)
(***************************************************************************)
EXTENDS BillingRun, FiniteSetTheorems, TLAPS

Open == {"scan", "number"}
RowDocs(J) == {r.doc : r \in J.rows}

\* The holder of a sequence row is an open transaction of that series; its rows
\* carry the numbers from the committed nextNumber up to its own, once each.
HolderCounts ==
  \A s \in Series, p \in Procs : holder[s] = p =>
    /\ SeriesOf(p) = s
    /\ job[p].at \in Open
    /\ seq[s] < job[p].next
    /\ {r.number : r \in job[p].rows} = seq[s]..(job[p].next - 1)
    /\ \A r, q \in job[p].rows : r.number = q.number => r = q

\* A transaction that has no lock has inserted nothing.
NoLockNoRows ==
  \A p \in Procs : job[p].at \in Open /\ holder[SeriesOf(p)] # p => job[p].rows = {}

\* A run numbers a document once.
Differ(J) ==
  J.at \in Open =>
    /\ \A r, q \in J.rows : r.doc = q.doc => r = q
    /\ RowDocs(J) \cap J.todo = {}
    /\ J.at = "number" => J.doc \in Docs /\ J.doc \notin RowDocs(J) /\ J.doc \notin J.todo
RowsDiffer == \A p \in Procs : Differ(job[p])

\* What the holder of the lock has inserted is not in the book.
RowsAreNew ==
  \A s \in Series, p \in Procs : holder[s] = p =>
    \A r \in job[p].rows, q \in books[s] : r.doc # q.doc

\* A document is in the book of a series once.
DocsAreUnique == \A s \in Series : \A r, q \in books[s] : r.doc = q.doc => r = q

IInv == /\ TypeOK /\ HolderCounts /\ NoLockNoRows /\ RowsDiffer /\ RowsAreNew
        /\ NumbersAreGapless /\ NumbersAreUnique /\ DocsAreUnique

-----------------------------------------------------------------------------
LEMMA InitHolds == Init => IInv
<1> SUFFICES ASSUME Init PROVE IInv
  OBVIOUS
<1>1. Idle \in Job /\ Idle.at \notin Open
  BY DEF Idle, Job, Number1, Open
<1>2. \A s \in Series : holder[s] \notin Procs
  BY RunAssumption DEF Init
<1>3. TypeOK
  BY <1>1, RunAssumption DEF Init, TypeOK, Number1
<1>4. HolderCounts /\ RowsAreNew
  BY <1>2 DEF HolderCounts, RowsAreNew
<1>5. NoLockNoRows /\ RowsDiffer
  BY <1>1 DEF Init, NoLockNoRows, RowsDiffer, Differ
<1>6. NumbersAreGapless /\ NumbersAreUnique /\ DocsAreUnique
  BY DEF Init, NumbersAreGapless, NumbersAreUnique, DocsAreUnique
<1>7. QED
  BY <1>3, <1>4, <1>5, <1>6 DEF IInv

\* The variables no transaction invariant speaks of.
OthersTyped ==
  /\ today \in 0..LastDay /\ ranOn \in Int
  /\ announced \in [Series -> SUBSET Record]
  /\ left \in [Procs -> 0..MaxOps]
  /\ faults \in Nat

LEMMA SeriesOfIn == \A p : SeriesOf(p) \in Series
BY DEF SeriesOf, Series

\* A process that keeps the rows and the count of its lock, or has neither,
\* keeps the invariant while the tables stay.
LEMMA JobStep ==
  ASSUME IInv, NEW p \in Procs, NEW J \in Job, Become(p, J),
         UNCHANGED <<seq, holder, books>>, OthersTyped', Differ(J),
         holder[SeriesOf(p)] = p =>
            J.at \in Open /\ J.rows = job[p].rows /\ J.next = job[p].next,
         holder[SeriesOf(p)] # p /\ J.at \in Open => J.rows = {}
  PROVE  IInv'
<1>1. job' = [job EXCEPT ![p] = J] /\ job \in [Procs -> Job]
  BY DEF Become, IInv, TypeOK
<1>2. job'[p] = J /\ \A q \in Procs \ {p} : job'[q] = job[q]
  BY <1>1
<1>3. TypeOK'
  BY <1>1 DEF IInv, TypeOK, OthersTyped
<1>4. HolderCounts' /\ RowsAreNew'
  BY <1>2 DEF IInv, HolderCounts, RowsAreNew
<1>5. NoLockNoRows'
  BY <1>2 DEF IInv, NoLockNoRows
<1>6. RowsDiffer'
  BY <1>2 DEF IInv, RowsDiffer
<1>7. NumbersAreGapless' /\ NumbersAreUnique' /\ DocsAreUnique'
  BY DEF IInv, NumbersAreGapless, NumbersAreUnique, DocsAreUnique
<1>8. QED
  BY <1>3, <1>4, <1>5, <1>6, <1>7 DEF IInv

\* A process between transactions holds no lock.
LEMMA IdleHasNoLock ==
  ASSUME IInv, NEW p \in Procs, job[p].at \notin Open PROVE holder[SeriesOf(p)] # p
BY SeriesOfIn DEF IInv, HolderCounts

LEMMA WorkListDocs == \A m \in Months, day \in Nat : WorkList(m, day) \subseteq Docs
BY DEF WorkList, Docs

LEMMA MonthOfToday == TypeOK => Month(today) \in Months /\ DayOfMonth(today) \in Nat
<1> SUFFICES ASSUME TypeOK PROVE Month(today) \in Months /\ DayOfMonth(today) \in Nat
  OBVIOUS
<1>1. Month(today) \in Months
  BY DEF Months, TypeOK
<1>2. today % DaysPerMonth \in Nat
  BY RunAssumption DEF TypeOK
<1>3. QED
  BY <1>1, <1>2 DEF DayOfMonth

LEMMA IdleIsFine == Idle \in Job /\ Idle.at \notin Open /\ Differ(Idle)
BY DEF Idle, Job, Number1, Open, Differ

\* A run that has just begun.
LEMMA ScanStep ==
  ASSUME IInv, NEW p \in Procs, NEW list \in SUBSET Docs, job[p].at = "idle",
         Become(p, [Idle EXCEPT !.at = "scan", !.todo = list]),
         UNCHANGED <<seq, holder, books>>, OthersTyped'
  PROVE  IInv'
<1> DEFINE J == [Idle EXCEPT !.at = "scan", !.todo = list]
<1>1. J.rows = {} /\ J.at = "scan"
  BY DEF Idle
<1>2. J \in Job
  BY IdleIsFine DEF Job
<1> HIDE DEF J
<1>3. Differ(J)
  BY <1>1 DEF Differ, RowDocs
<1>4. holder[SeriesOf(p)] # p
  BY IdleHasNoLock DEF Open
<1>5. QED
  BY <1>1, <1>2, <1>3, <1>4, JobStep DEF J

LEMMA CronFiresHolds == ASSUME IInv, NEW p \in Procs, CronFires(p) PROVE IInv'
<1>1. OthersTyped' /\ UNCHANGED <<seq, holder, books>>
  BY DEF CronFires, IInv, TypeOK, OthersTyped
<1>2. WorkList(Month(today), DayOfMonth(today)) \in SUBSET Docs
  BY WorkListDocs, MonthOfToday DEF IInv
<1>3. CASE RunIsDue(today)
  BY <1>1, <1>2, <1>3, ScanStep DEF CronFires
<1>4. CASE ~RunIsDue(today)
  <2>1. holder[SeriesOf(p)] # p
    BY IdleHasNoLock DEF CronFires, Open
  <2>2. QED
    BY <1>1, <1>4, <2>1, IdleIsFine, JobStep DEF CronFires
<1>5. QED
  BY <1>3, <1>4

LEMMA ManagerStartsHolds ==
  ASSUME IInv, NEW p \in Procs, NEW m \in Months, ManagerStarts(p, m) PROVE IInv'
<1>1. left' \in [Procs -> 0..MaxOps]
  BY RunAssumption DEF ManagerStarts, IInv, TypeOK
<1>2. OthersTyped' /\ UNCHANGED <<seq, holder, books>>
  BY <1>1 DEF ManagerStarts, IInv, TypeOK, OthersTyped, clock
<1>3. WorkList(m, 0) \in SUBSET Docs
  BY WorkListDocs
<1>4. QED
  BY <1>2, <1>3, ScanStep DEF ManagerStarts

LEMMA IssueStartsHolds ==
  ASSUME IInv, NEW p \in Issuers \cup Noters, IssueStarts(p) PROVE IInv'
<1> DEFINE J == [Idle EXCEPT !.at = "number", !.doc = <<p, left[p]>>]
<1>1. p \in Procs /\ left[p] \in 1..MaxOps
  BY RunAssumption DEF IssueStarts, IInv, TypeOK, Procs
<1>2. left' \in [Procs -> 0..MaxOps]
  BY <1>1, RunAssumption DEF IssueStarts, IInv, TypeOK
<1>3. OthersTyped' /\ UNCHANGED <<seq, holder, books>>
  BY <1>2 DEF IssueStarts, IInv, TypeOK, OthersTyped, clock
<1>4. J.doc \in Docs /\ J.rows = {} /\ J.todo = {} /\ J.at = "number" /\ J \in Job
  <2>1. <<p, left[p]>> \in Docs
    BY <1>1 DEF Docs
  <2>2. J \in Job
    BY <2>1, IdleIsFine DEF Job
  <2>3. QED
    BY <2>1, <2>2 DEF Idle
<1>5. holder[SeriesOf(p)] # p
  BY <1>1, IdleHasNoLock DEF IssueStarts, Open
<1>6. Become(p, J)
  BY DEF IssueStarts
<1> HIDE DEF J
<1>7. Differ(J)
  BY <1>4 DEF Differ, RowDocs
<1>8. QED
  BY <1>1, <1>3, <1>4, <1>5, <1>6, <1>7, JobStep

LEMMA LookHolds == ASSUME IInv, NEW p \in Procs, Look(p) PROVE IInv'
<1>1. OthersTyped' /\ UNCHANGED <<seq, holder, books>>
  BY DEF Look, IInv, TypeOK, OthersTyped, clock
<1>2. PICK d \in job[p].todo :
        Become(p, IF Exists("invoice", d)
                  THEN [job[p] EXCEPT !.todo = job[p].todo \ {d}]
                  ELSE [job[p] EXCEPT !.at = "number", !.doc = d, !.todo = job[p].todo \ {d}])
  BY DEF Look
<1>3. job[p] \in Job /\ job[p].at = "scan" /\ Differ(job[p]) /\ d \in Docs
  BY DEF Look, IInv, TypeOK, RowsDiffer, Job
<1>4. holder[SeriesOf(p)] # p => job[p].rows = {}
  BY <1>3 DEF IInv, NoLockNoRows, Open
<1> DEFINE S == [job[p] EXCEPT !.todo = job[p].todo \ {d}]
           N == [job[p] EXCEPT !.at = "number", !.doc = d, !.todo = job[p].todo \ {d}]
<1>5. S \in Job /\ S.at = "scan" /\ S.rows = job[p].rows /\ S.next = job[p].next
      /\ S.todo = job[p].todo \ {d}
  BY <1>3 DEF Job
<1>6. N \in Job /\ N.at = "number" /\ N.rows = job[p].rows /\ N.next = job[p].next
      /\ N.todo = job[p].todo \ {d} /\ N.doc = d
  BY <1>3 DEF Job
<1>7. Become(p, S) \/ Become(p, N)
  BY <1>2
<1> HIDE DEF S, N
<1>8. Differ(S) /\ Differ(N)
  BY <1>3, <1>5, <1>6 DEF Differ, Open, RowDocs
<1>9. CASE Become(p, S)
  BY <1>1, <1>4, <1>5, <1>8, <1>9, JobStep DEF Open
<1>10. CASE Become(p, N)
  BY <1>1, <1>4, <1>6, <1>8, <1>10, JobStep DEF Open
<1>11. QED
  BY <1>7, <1>9, <1>10

LEMMA NothingToIssueHolds == ASSUME IInv, NEW p \in Procs, NothingToIssue(p) PROVE IInv'
<1>1. OthersTyped' /\ UNCHANGED <<seq, holder, books>>
  BY DEF NothingToIssue, IInv, TypeOK, OthersTyped, clock
<1>2. holder[SeriesOf(p)] # p
  <2> SUFFICES ASSUME holder[SeriesOf(p)] = p PROVE FALSE
    OBVIOUS
  <2>1. seq[SeriesOf(p)] < job[p].next /\ seq[SeriesOf(p)] \in Nat /\ job[p].next \in Nat
        /\ {r.number : r \in job[p].rows} = seq[SeriesOf(p)]..(job[p].next - 1)
    BY SeriesOfIn DEF IInv, HolderCounts, TypeOK, Job, Number1
  <2>2. seq[SeriesOf(p)] \in seq[SeriesOf(p)]..(job[p].next - 1)
    BY <2>1
  <2>3. QED
    BY <2>1, <2>2 DEF NothingToIssue
<1>3. QED
  BY <1>1, <1>2, IdleIsFine, JobStep DEF NothingToIssue

\* A transaction that rolls back leaves the tables as they were.
LEMMA RollbackHolds ==
  ASSUME IInv, NEW p \in Procs, Rollback(p), UNCHANGED books, OthersTyped' PROVE IInv'
<1>1. job' = [job EXCEPT ![p] = Idle] /\ job \in [Procs -> Job] /\ seq' = seq
  BY DEF Rollback, Become, IInv, TypeOK
<1>2. \A s \in Series : holder'[s] = IF holder[s] = p THEN NoOne ELSE holder[s]
  BY DEF Rollback
<1>3. job'[p] = Idle /\ \A q \in Procs \ {p} : job'[q] = job[q]
  BY <1>1
<1>4. TypeOK'
  BY <1>1, IdleIsFine DEF Rollback, IInv, TypeOK, OthersTyped
<1>5. \A s \in Series, q \in Procs : holder'[s] = q => q # p /\ holder[s] = q
  BY <1>2, RunAssumption
<1>6. HolderCounts' /\ RowsAreNew'
  BY <1>1, <1>3, <1>5 DEF IInv, HolderCounts, RowsAreNew
<1>7. NoLockNoRows'
  BY <1>2, <1>3, IdleIsFine, SeriesOfIn DEF IInv, NoLockNoRows
<1>8. RowsDiffer'
  BY <1>3, IdleIsFine DEF IInv, RowsDiffer
<1>9. NumbersAreGapless' /\ NumbersAreUnique' /\ DocsAreUnique'
  BY <1>1 DEF IInv, NumbersAreGapless, NumbersAreUnique, DocsAreUnique
<1>10. QED
  BY <1>4, <1>6, <1>7, <1>8, <1>9 DEF IInv

LEMMA RefuseDuplicateHolds == ASSUME IInv, NEW p \in Procs, RefuseDuplicate(p) PROVE IInv'
<1>1. OthersTyped' /\ UNCHANGED books
  BY DEF RefuseDuplicate, IInv, TypeOK, OthersTyped, clock
<1>2. QED
  BY <1>1, RollbackHolds DEF RefuseDuplicate

LEMMA FailHolds == ASSUME IInv, NEW p \in Procs, Fail(p) PROVE IInv'
<1>1. OthersTyped' /\ UNCHANGED books
  BY DEF Fail, IInv, TypeOK, OthersTyped, clock
<1>2. QED
  BY <1>1, RollbackHolds DEF Fail

LEMMA TickHolds == ASSUME IInv, Tick PROVE IInv'
<1>1. TypeOK'
  BY RunAssumption DEF Tick, IInv, TypeOK
<1>2. HolderCounts' /\ NoLockNoRows' /\ RowsDiffer' /\ RowsAreNew'
  BY DEF Tick, IInv, HolderCounts, NoLockNoRows, RowsDiffer, RowsAreNew
<1>3. NumbersAreGapless' /\ NumbersAreUnique' /\ DocsAreUnique'
  BY DEF Tick, IInv, NumbersAreGapless, NumbersAreUnique, DocsAreUnique
<1>4. QED
  BY <1>1, <1>2, <1>3 DEF IInv

LEMMA AnnounceHolds == ASSUME IInv, NEW p \in Procs, Announce(p) PROVE IInv'
<1>1. PICK r \in job[p].rows :
        /\ announced' = [announced EXCEPT ![SeriesOf(p)] = @ \cup {r}]
        /\ Become(p, IF job[p].rows = {r} THEN Idle ELSE [job[p] EXCEPT !.rows = job[p].rows \ {r}])
  BY DEF Announce
<1> DEFINE J == [job[p] EXCEPT !.rows = job[p].rows \ {r}]
<1>2. job[p] \in Job /\ r \in Record /\ job[p].at = "announce"
  BY DEF Announce, MayAnnounce, IInv, TypeOK, Job
<1>3. J \in Job /\ J.at = "announce"
  BY <1>2 DEF Job
<1>4. OthersTyped' /\ UNCHANGED <<seq, holder, books>>
  BY <1>1, <1>2, SeriesOfIn DEF Announce, IInv, TypeOK, OthersTyped, clock
<1>5. holder[SeriesOf(p)] # p
  BY <1>2, IdleHasNoLock DEF Open
<1> HIDE DEF J
<1>6. Differ(J) /\ J.at \notin Open
  BY <1>3 DEF Differ, Open
<1>7. Become(p, Idle) \/ Become(p, J)
  BY <1>1 DEF J
<1>8. CASE Become(p, Idle)
  BY <1>4, <1>5, <1>8, IdleIsFine, JobStep
<1>9. CASE Become(p, J)
  BY <1>3, <1>4, <1>5, <1>6, <1>9, JobStep
<1>10. QED
  BY <1>7, <1>8, <1>9

LEMMA TakeNumberHolds == ASSUME IInv, NEW p \in Procs, TakeNumber(p) PROVE IInv'
<1> DEFINE s == SeriesOf(p)
           n == Number(p)
           row == [doc |-> job[p].doc, number |-> n]
           rows == job[p].rows \cup {row}
           J == [job[p] EXCEPT !.at = "scan", !.doc = NoDoc, !.next = n + 1, !.rows = rows]
<1>1. s \in Series /\ job[p] \in Job /\ job[p].at = "number" /\ seq[s] \in Number1
      /\ holder[s] \in {NoOne, p}
  BY SeriesOfIn DEF TakeNumber, LockFree, IInv, TypeOK
<1>2. Differ(job[p]) /\ job[p].doc \in Docs
  BY <1>1 DEF IInv, RowsDiffer, Differ, Open
<1>3. /\ job' = [job EXCEPT ![p] = J] /\ job \in [Procs -> Job]
      /\ holder' = [holder EXCEPT ![s] = p] /\ holder \in [Series -> Procs \cup {NoOne}]
      /\ UNCHANGED <<seq, books>>
  BY DEF TakeNumber, Become, IInv, TypeOK
<1>4. \A r \in books[s] : r.doc # job[p].doc
  BY DEF TakeNumber, Duplicate, Exists
<1>5. /\ n \in Number1 /\ seq[s] <= n
      /\ {r.number : r \in job[p].rows} = seq[s]..(n - 1)
      /\ \A r, q \in job[p].rows : r.number = q.number => r = q
      /\ \A r \in job[p].rows, q \in books[s] : r.doc # q.doc
  <2>1. CASE holder[s] = p
    BY <1>1, <2>1 DEF Number, IInv, HolderCounts, RowsAreNew, Number1, Job
  <2>2. CASE holder[s] = NoOne
    <3>1. job[p].rows = {} /\ n = seq[s]
      BY <1>1, <2>2, RunAssumption DEF IInv, NoLockNoRows, Open, Number
    <3>2. QED
      BY <1>1, <3>1 DEF Number1
  <2>3. QED
    BY <1>1, <2>1, <2>2
<1>6. row \in Record /\ row.doc = job[p].doc /\ row.number = n
  BY <1>2, <1>5 DEF Record
<1>7. J \in Job /\ J.at = "scan" /\ J.rows = rows /\ J.next = n + 1 /\ J.todo = job[p].todo
  <2> HIDE DEF row, n
  <2>1. rows \in SUBSET Record
    BY <1>1, <1>6 DEF Job
  <2>2. n + 1 \in Number1
    BY <1>5 DEF Number1
  <2> HIDE DEF rows
  <2>3. QED
    BY <1>1, <2>1, <2>2 DEF Job
<1>8. OthersTyped'
  BY DEF TakeNumber, IInv, TypeOK, OthersTyped, clock
<1> HIDE DEF J, row, n, s
<1>9. \A r \in job[p].rows : r.number \in Nat /\ r.number < n
  BY <1>1, <1>5 DEF Number1
<1>10. /\ {r.number : r \in J.rows} = seq[s]..(J.next - 1)
       /\ \A r, q \in J.rows : r.number = q.number => r = q
       /\ \A r \in J.rows, q \in books[s] : r.doc # q.doc
       /\ seq[s] < J.next
  <2>1. {r.number : r \in J.rows} = {r.number : r \in job[p].rows} \cup {n}
    BY <1>6, <1>7
  <2>2. (seq[s]..(n - 1)) \cup {n} = seq[s]..n
    BY <1>1, <1>5 DEF Number1
  <2>3. {r.number : r \in J.rows} = seq[s]..(J.next - 1) /\ seq[s] < J.next
    BY <1>1, <1>5, <1>7, <2>1, <2>2 DEF Number1
  <2>4. QED
    BY <1>4, <1>5, <1>6, <1>7, <1>9, <2>3
<1>11. Differ(J)
  BY <1>1, <1>2, <1>6, <1>7 DEF Differ, RowDocs, Open
<1>12. job'[p] = J /\ \A q \in Procs \ {p} : job'[q] = job[q]
  BY <1>3
<1>13. holder'[s] = p /\ \A t \in Series \ {s} : holder'[t] = holder[t]
  BY <1>1, <1>3
<1>14. TypeOK'
  BY <1>1, <1>3, <1>7, <1>8 DEF IInv, TypeOK, OthersTyped
<1>15. HolderCounts'
  <2> SUFFICES ASSUME NEW t \in Series, NEW q \in Procs, holder'[t] = q
               PROVE  /\ SeriesOf(q) = t
                      /\ job'[q].at \in Open
                      /\ seq'[t] < job'[q].next
                      /\ {r.number : r \in job'[q].rows} = seq'[t]..(job'[q].next - 1)
                      /\ \A r, u \in job'[q].rows : r.number = u.number => r = u
    BY DEF HolderCounts
  <2>1. CASE t = s
    BY <1>3, <1>7, <1>10, <1>12, <1>13, <2>1 DEF Open, s
  <2>2. CASE t # s
    <3>1. holder[t] = q
      BY <1>13, <2>2
    <3>2. q # p
      BY <2>2, <3>1 DEF s, IInv, HolderCounts
    <3>3. QED
      BY <1>3, <1>12, <3>1, <3>2 DEF IInv, HolderCounts
  <2>3. QED
    BY <2>1, <2>2
<1>16. NoLockNoRows'
  <2> SUFFICES ASSUME NEW q \in Procs, job'[q].at \in Open, holder'[SeriesOf(q)] # q
               PROVE  job'[q].rows = {}
    BY DEF NoLockNoRows
  <2>1. q # p
    BY <1>13 DEF s
  <2>2. holder[SeriesOf(q)] # q
    BY <1>1, <1>13, <2>1, SeriesOfIn, RunAssumption
  <2>3. QED
    BY <1>12, <2>1, <2>2 DEF IInv, NoLockNoRows
<1>17. RowsDiffer'
  BY <1>11, <1>12 DEF IInv, RowsDiffer
<1>18. RowsAreNew'
  <2> SUFFICES ASSUME NEW t \in Series, NEW q \in Procs, holder'[t] = q
               PROVE  \A r \in job'[q].rows, u \in books'[t] : r.doc # u.doc
    BY DEF RowsAreNew
  <2>1. CASE t = s
    BY <1>3, <1>10, <1>12, <1>13, <2>1
  <2>2. CASE t # s
    <3>1. holder[t] = q
      BY <1>13, <2>2
    <3>2. q # p
      BY <2>2, <3>1 DEF s, IInv, HolderCounts
    <3>3. QED
      BY <1>3, <1>12, <3>1, <3>2 DEF IInv, RowsAreNew
  <2>3. QED
    BY <2>1, <2>2
<1>19. NumbersAreGapless' /\ NumbersAreUnique' /\ DocsAreUnique'
  BY <1>3 DEF IInv, NumbersAreGapless, NumbersAreUnique, DocsAreUnique
<1>20. QED
  BY <1>14, <1>15, <1>16, <1>17, <1>18, <1>19 DEF IInv

LEMMA CommitHolds == ASSUME IInv, NEW p \in Procs, Commit(p) PROVE IInv'
<1> DEFINE s == SeriesOf(p)
           J == [job[p] EXCEPT !.at = "announce"]
<1>1. s \in Series /\ job[p] \in Job /\ job[p].at = "scan" /\ seq[s] \in Number1
      /\ job[p].rows # {} /\ books[s] \in SUBSET Record
  BY SeriesOfIn DEF Commit, IInv, TypeOK
<1>2. holder[s] = p
  BY <1>1 DEF IInv, NoLockNoRows, Open
<1>3. /\ job' = [job EXCEPT ![p] = J] /\ job \in [Procs -> Job]
      /\ holder' = [holder EXCEPT ![s] = NoOne] /\ holder \in [Series -> Procs \cup {NoOne}]
      /\ seq' = [seq EXCEPT ![s] = job[p].next] /\ seq \in [Series -> Number1]
      /\ books' = [books EXCEPT ![s] = books[s] \cup job[p].rows]
      /\ books \in [Series -> SUBSET Record]
  BY DEF Commit, Become, IInv, TypeOK
<1>4. /\ seq[s] < job[p].next /\ job[p].next \in Number1 /\ job[p].rows \in SUBSET Record
      /\ {r.number : r \in job[p].rows} = seq[s]..(job[p].next - 1)
      /\ \A r, q \in job[p].rows : r.number = q.number => r = q
      /\ \A r, q \in job[p].rows : r.doc = q.doc => r = q
      /\ \A r \in job[p].rows, q \in books[s] : r.doc # q.doc
  <2>1. Differ(job[p])
    BY DEF IInv, RowsDiffer
  <2>2. \A r, q \in job[p].rows : r.doc = q.doc => r = q
    BY <1>1, <2>1 DEF Differ, Open
  <2>3. QED
    BY <1>1, <1>2, <2>2 DEF IInv, HolderCounts, RowsAreNew, Job
<1>5. J \in Job /\ J.at = "announce"
  BY <1>1 DEF Job
<1>6. OthersTyped'
  BY DEF Commit, IInv, TypeOK, OthersTyped, clock
<1> HIDE DEF J, s
<1>7. job'[p] = J /\ \A q \in Procs \ {p} : job'[q] = job[q]
  BY <1>3
<1>8. holder'[s] = NoOne /\ \A t \in Series \ {s} : holder'[t] = holder[t]
  BY <1>1, <1>3
<1>9. \A t \in Series \ {s} : seq'[t] = seq[t] /\ books'[t] = books[t]
  BY <1>3
<1>10. seq'[s] = job[p].next /\ books'[s] = books[s] \cup job[p].rows
  BY <1>1, <1>3
<1>11. TypeOK'
  BY <1>1, <1>3, <1>4, <1>5, <1>6 DEF IInv, TypeOK, OthersTyped
<1>12. \A t \in Series, q \in Procs :
         holder'[t] = q => t # s /\ q # p /\ holder[t] = q
  BY <1>2, <1>8, RunAssumption DEF s, IInv, HolderCounts
<1>13. HolderCounts' /\ RowsAreNew'
  BY <1>7, <1>9, <1>12 DEF IInv, HolderCounts, RowsAreNew
<1>14. NoLockNoRows'
  <2> SUFFICES ASSUME NEW q \in Procs, job'[q].at \in Open, holder'[SeriesOf(q)] # q
               PROVE  job'[q].rows = {}
    BY DEF NoLockNoRows
  <2>1. q # p
    BY <1>5, <1>7 DEF Open
  <2>2. holder[SeriesOf(q)] # q
    BY <1>2, <1>8, <2>1, SeriesOfIn
  <2>3. QED
    BY <1>7, <2>1, <2>2 DEF IInv, NoLockNoRows
<1>15. RowsDiffer'
  BY <1>5, <1>7 DEF IInv, RowsDiffer, Differ, Open
<1>16. NumbersAreGapless'
  <2>1. {r.number : r \in books'[s]} =
          {r.number : r \in books[s]} \cup {r.number : r \in job[p].rows}
    BY <1>10
  <2>2. {r.number : r \in books[s]} = 1..(seq[s] - 1)
    BY <1>1 DEF IInv, NumbersAreGapless
  <2>3. (1..(seq[s] - 1)) \cup (seq[s]..(job[p].next - 1)) = 1..(job[p].next - 1)
    BY <1>1, <1>4 DEF Number1
  <2>4. {r.number : r \in books'[s]} = 1..(seq'[s] - 1)
    BY <1>4, <1>10, <2>1, <2>2, <2>3
  <2>5. QED
    BY <1>9, <2>4 DEF IInv, NumbersAreGapless
<1>17. NumbersAreUnique'
  <2>1. \A r \in job[p].rows, q \in books[s] : r.number # q.number
    <3>1. \A r \in job[p].rows : r.number >= seq[s] /\ r.number \in Nat
      BY <1>1, <1>4 DEF Number1, Record
    <3>2. \A q \in books[s] : q.number < seq[s] /\ q.number \in Nat
      BY <1>1 DEF IInv, NumbersAreGapless, Number1, Record
    <3>3. QED
      BY <1>1, <3>1, <3>2 DEF Number1
  <2>2. \A r, q \in books'[s] : r.number = q.number => r = q
    BY <1>1, <1>4, <1>10, <2>1 DEF IInv, NumbersAreUnique
  <2>3. QED
    BY <1>9, <2>2 DEF IInv, NumbersAreUnique
<1>18. DocsAreUnique'
  <2>1. \A r, q \in books'[s] : r.doc = q.doc => r = q
    BY <1>1, <1>4, <1>10 DEF IInv, DocsAreUnique
  <2>2. QED
    BY <1>9, <2>1 DEF IInv, DocsAreUnique
<1>19. QED
  BY <1>11, <1>13, <1>14, <1>15, <1>16, <1>17, <1>18 DEF IInv

-----------------------------------------------------------------------------
LEMMA NextHolds == IInv /\ [Next]_vars => IInv'
<1> SUFFICES ASSUME IInv, [Next]_vars PROVE IInv'
  OBVIOUS
<1>1. ASSUME NEW p \in Crons, CronFires(p) PROVE IInv'
  BY <1>1, CronFiresHolds DEF Procs
<1>2. ASSUME NEW p \in Managers, NEW m \in Months, ManagerStarts(p, m) PROVE IInv'
  BY <1>2, ManagerStartsHolds DEF Procs
<1>3. ASSUME NEW p \in Issuers \cup Noters, IssueStarts(p) PROVE IInv'
  BY <1>3, IssueStartsHolds
<1>4. ASSUME NEW p \in Procs, Step(p) \/ Fail(p) PROVE IInv'
  BY <1>4, LookHolds, TakeNumberHolds, RefuseDuplicateHolds, CommitHolds, NothingToIssueHolds,
     AnnounceHolds, FailHolds DEF Step
<1>5. CASE UNCHANGED vars
  BY <1>5 DEF vars, IInv, TypeOK, HolderCounts, NoLockNoRows, RowsDiffer, RowsAreNew,
              NumbersAreGapless, NumbersAreUnique, DocsAreUnique
<1>6. QED
  BY <1>1, <1>2, <1>3, <1>4, <1>5, TickHolds DEF Next

\* Every reachable state of the billing run is well typed.
THEOREM TypeCorrect == Spec => []TypeOK
<1>1. IInv => TypeOK
  BY DEF IInv
<1>2. QED
  BY <1>1, InitHolds, NextHolds, PTL DEF Spec

\* However runs, single documents, rollbacks and restarts interleave, the
\* numbers of each series in the book are 1..n.
THEOREM Gapless == Spec => []NumbersAreGapless
<1>1. IInv => NumbersAreGapless
  BY DEF IInv
<1>2. QED
  BY <1>1, InitHolds, NextHolds, PTL DEF Spec

\* ... and no two documents of a series share one.
THEOREM UniqueNumbers == Spec => []NumbersAreUnique
<1>1. IInv => NumbersAreUnique
  BY DEF IInv
<1>2. QED
  BY <1>1, InitHolds, NextHolds, PTL DEF Spec

\* A contract never has two invoices for one period, although every run looks
\* for the first before it waits for the lock.
THEOREM NeverTwicePerPeriod == Spec => []OneInvoicePerPeriod
<1>1. IInv => OneInvoicePerPeriod
  BY DEF IInv, DocsAreUnique, OneInvoicePerPeriod, Series
<1>2. QED
  BY <1>1, InitHolds, NextHolds, PTL DEF Spec

-----------------------------------------------------------------------------
(* Events follow the book *)

\* What a process has still to announce was committed.
ToAnnounceIsIssued ==
  \A p \in Procs : job[p].at = "announce" => job[p].rows \subseteq books[SeriesOf(p)]
AInv == AnnouncedIsIssued /\ ToAnnounceIsIssued

\* A process that has nothing to announce keeps it.
LEMMA QuietStep ==
  ASSUME TypeOK, AInv, NEW p \in Procs, NEW J, J.at # "announce", Become(p, J),
         UNCHANGED <<books, announced>>
  PROVE  AInv'
<1>1. \A q \in Procs : job'[q] = IF q = p THEN J ELSE job[q]
  BY DEF TypeOK, Become
<1>2. QED
  BY <1>1 DEF AInv, AnnouncedIsIssued, ToAnnounceIsIssued

LEMMA AnnounceKeepsBook ==
  ASSUME TypeOK, AInv, NEW p \in Procs, Announce(p) PROVE AInv'
<1>1. PICK r \in job[p].rows :
        /\ announced' = [announced EXCEPT ![SeriesOf(p)] = @ \cup {r}]
        /\ Become(p, IF job[p].rows = {r} THEN Idle ELSE [job[p] EXCEPT !.rows = job[p].rows \ {r}])
  BY DEF Announce
<1> DEFINE J == IF job[p].rows = {r} THEN Idle ELSE [job[p] EXCEPT !.rows = job[p].rows \ {r}]
<1>2. job[p].at = "announce" /\ job[p] \in Job /\ job[p].rows \subseteq books[SeriesOf(p)]
  BY DEF Announce, MayAnnounce, TypeOK, AInv, ToAnnounceIsIssued
<1>3. J.at = "announce" => J.rows \subseteq books[SeriesOf(p)]
  BY <1>2 DEF Job, Idle
<1> HIDE DEF J
<1>4. \A q \in Procs : job'[q] = IF q = p THEN J ELSE job[q]
  BY <1>1 DEF TypeOK, Become, J
<1>5. books' = books
  BY DEF Announce
<1>6. ToAnnounceIsIssued'
  BY <1>3, <1>4, <1>5 DEF AInv, ToAnnounceIsIssued
<1>7. \A s \in Series : announced'[s] = IF s = SeriesOf(p) THEN announced[s] \cup {r} ELSE announced[s]
  BY <1>1 DEF TypeOK
<1>8. AnnouncedIsIssued'
  BY <1>2, <1>5, <1>7 DEF AInv, AnnouncedIsIssued
<1>9. QED
  BY <1>6, <1>8 DEF AInv

LEMMA CommitKeepsBook ==
  ASSUME TypeOK, AInv, NEW p \in Procs, Commit(p) PROVE AInv'
<1>1. /\ books' = [books EXCEPT ![SeriesOf(p)] = @ \cup job[p].rows]
      /\ Become(p, [job[p] EXCEPT !.at = "announce"]) /\ announced' = announced
  BY DEF Commit
<1>2. \A s \in Series : books'[s] = IF s = SeriesOf(p) THEN books[s] \cup job[p].rows ELSE books[s]
  BY <1>1 DEF TypeOK
<1>3. \A q \in Procs : job'[q].rows = job[q].rows /\ (q # p => job'[q] = job[q])
  BY <1>1 DEF TypeOK, Become, Job
<1>4. AnnouncedIsIssued'
  BY <1>1, <1>2 DEF AInv, AnnouncedIsIssued
<1>5. \A q \in Procs : job'[q].at = "announce" => job'[q].rows \subseteq books'[SeriesOf(q)]
  BY <1>2, <1>3, SeriesOfIn DEF AInv, ToAnnounceIsIssued
<1>6. QED
  BY <1>4, <1>5 DEF AInv, ToAnnounceIsIssued

LEMMA StepKeepsBook ==
  ASSUME TypeOK, AInv, NEW p \in Procs, Step(p) \/ Fail(p) PROVE AInv'
<1>1. Idle.at # "announce"
  BY DEF Idle
<1>2. CASE RefuseDuplicate(p) \/ Fail(p) \/ NothingToIssue(p)
  BY <1>1, <1>2, QuietStep DEF RefuseDuplicate, Rollback, Fail, NothingToIssue
<1>3. CASE Look(p)
  <2>1. PICK J : J.at # "announce" /\ Become(p, J) /\ UNCHANGED <<books, announced>>
    BY <1>3 DEF Look, TypeOK, Job
  <2>2. QED
    BY <2>1, QuietStep
<1>4. CASE TakeNumber(p)
  <2>1. job[p] \in Job
    BY DEF TypeOK
  <2>2. PICK J : J.at = "scan" /\ Become(p, J) /\ UNCHANGED <<books, announced>>
    BY <1>4, <2>1 DEF TakeNumber, Job
  <2>3. QED
    BY <2>2, QuietStep
<1>5. QED
  BY <1>2, <1>3, <1>4, AnnounceKeepsBook, CommitKeepsBook DEF Step

LEMMA NextKeepsBook == TypeOK /\ AInv /\ [Next]_vars => AInv'
<1> SUFFICES ASSUME TypeOK, AInv, [Next]_vars PROVE AInv'
  OBVIOUS
<1>1. ASSUME NEW p \in Crons, CronFires(p) PROVE AInv'
  <2>1. PICK J : J.at # "announce" /\ Become(p, J) /\ UNCHANGED <<books, announced>>
    BY <1>1 DEF CronFires, Idle
  <2>2. QED
    BY <2>1, QuietStep DEF Procs
<1>2. ASSUME NEW p \in Managers, NEW m \in Months, ManagerStarts(p, m) PROVE AInv'
  <2>1. PICK J : J.at # "announce" /\ Become(p, J) /\ UNCHANGED <<books, announced>>
    BY <1>2 DEF ManagerStarts, Idle
  <2>2. QED
    BY <2>1, QuietStep DEF Procs
<1>3. ASSUME NEW p \in Issuers \cup Noters, IssueStarts(p) PROVE AInv'
  <2>1. PICK J : J.at # "announce" /\ Become(p, J) /\ UNCHANGED <<books, announced>>
    BY <1>3 DEF IssueStarts, Idle
  <2>2. QED
    BY <2>1, QuietStep DEF Procs
<1>4. CASE Tick
  BY <1>4 DEF Tick, AInv, AnnouncedIsIssued, ToAnnounceIsIssued
<1>5. CASE UNCHANGED vars
  BY <1>5 DEF vars, AInv, AnnouncedIsIssued, ToAnnounceIsIssued
<1>6. QED
  BY <1>1, <1>2, <1>3, <1>4, <1>5, StepKeepsBook DEF Next

\* InvoiceIssued and CreditNoteIssued are published only for documents that were
\* committed, whichever transactions rolled back in between.
THEOREM OnlyIssuedAnnounced == Spec => []AnnouncedIsIssued
<1>1. Init => AInv
  BY DEF Init, AInv, AnnouncedIsIssued, ToAnnounceIsIssued, Idle
<1>2. AInv => AnnouncedIsIssued
  BY DEF AInv
<1>3. QED
  BY <1>1, <1>2, NextKeepsBook, TypeCorrect, PTL DEF Spec

-----------------------------------------------------------------------------
(* Nobody is blocked *)

\* Who announces has something left to announce.
HasNews(J) == J.at = "announce" => J.rows # {}
NewsLeft == \A p \in Procs : HasNews(job[p])

LEMMA NewsStep ==
  ASSUME TypeOK, NewsLeft, NEW p \in Procs, NEW J, HasNews(J), Become(p, J)
  PROVE  NewsLeft'
<1>1. \A q \in Procs : job'[q] = IF q = p THEN J ELSE job[q]
  BY DEF TypeOK, Become
<1>2. QED
  BY <1>1 DEF NewsLeft, HasNews

LEMMA NextKeepsNews == TypeOK /\ NewsLeft /\ [Next]_vars => NewsLeft'
<1> SUFFICES ASSUME TypeOK, NewsLeft, [Next]_vars PROVE NewsLeft'
  OBVIOUS
<1>i. Idle.at = "idle" /\ HasNews(Idle)
  BY DEF Idle, HasNews
<1>1. ASSUME NEW p \in Crons, CronFires(p) PROVE NewsLeft'
  <2>1. PICK J : HasNews(J) /\ Become(p, J)
    BY <1>1 DEF CronFires, Idle, HasNews
  <2>2. QED
    BY <2>1, NewsStep DEF Procs
<1>2. ASSUME NEW p \in Managers, NEW m \in Months, ManagerStarts(p, m) PROVE NewsLeft'
  <2>1. PICK J : HasNews(J) /\ Become(p, J)
    BY <1>2 DEF ManagerStarts, Idle, HasNews
  <2>2. QED
    BY <2>1, NewsStep DEF Procs
<1>3. ASSUME NEW p \in Issuers \cup Noters, IssueStarts(p) PROVE NewsLeft'
  <2>1. PICK J : HasNews(J) /\ Become(p, J)
    BY <1>3 DEF IssueStarts, Idle, HasNews
  <2>2. QED
    BY <2>1, NewsStep DEF Procs
<1>4. ASSUME NEW p \in Procs, Step(p) \/ Fail(p) PROVE NewsLeft'
  <2>0. job[p] \in Job
    BY DEF TypeOK
  <2>1. CASE RefuseDuplicate(p) \/ Fail(p) \/ NothingToIssue(p)
    BY <2>1, <1>i, NewsStep DEF RefuseDuplicate, Rollback, Fail, NothingToIssue
  <2>2. CASE Look(p)
    <3>1. PICK J : J.at # "announce" /\ Become(p, J)
      BY <2>0, <2>2 DEF Look, Job
    <3>2. QED
      BY <3>1, NewsStep DEF HasNews
  <2>t. CASE TakeNumber(p)
    <3>1. PICK J : J.at = "scan" /\ Become(p, J)
      BY <2>0, <2>t DEF TakeNumber, Job
    <3>2. QED
      BY <3>1, NewsStep DEF HasNews
  <2>3. CASE Commit(p)
    <3>1. PICK J : J.rows # {} /\ Become(p, J)
      BY <2>0, <2>3 DEF Commit, Job
    <3>2. QED
      BY <3>1, NewsStep DEF HasNews
  <2>4. CASE Announce(p)
    <3>1. PICK r \in job[p].rows : Become(p, IF job[p].rows = {r} THEN Idle
                                             ELSE [job[p] EXCEPT !.rows = job[p].rows \ {r}])
      BY <2>4 DEF Announce
    <3>2. CASE job[p].rows = {r}
      BY <3>1, <3>2, <1>i, NewsStep
    <3>3. CASE job[p].rows # {r}
      <4>1. PICK J : J.rows # {} /\ Become(p, J)
        BY <2>0, <3>1, <3>3 DEF Job
      <4>2. QED
        BY <4>1, NewsStep DEF HasNews
    <3>4. QED
      BY <3>2, <3>3
  <2>5. QED
    BY <1>4, <2>1, <2>2, <2>t, <2>3, <2>4 DEF Step
<1>5. CASE Tick \/ UNCHANGED vars
  BY <1>5 DEF Tick, vars, NewsLeft
<1>6. QED
  BY <1>1, <1>2, <1>3, <1>4, <1>5 DEF Next

\* Whoever is under way can take its next step, or waits for the holder of the
\* sequence row, which is in the middle of its transaction and can.
THEOREM NeverBlocked == Spec => []NobodyBlocked
<1>1. Init => NewsLeft
  BY DEF Init, NewsLeft, HasNews, Idle
<1>2. IInv => TypeOK
  BY DEF IInv
<1>3. IInv /\ NewsLeft => NobodyBlocked
  <2> SUFFICES ASSUME IInv, NewsLeft, NEW p \in Procs, job[p].at # "idle", ~CanGoOn(p)
               PROVE  \E q \in Procs : /\ holder[SeriesOf(p)] = q /\ SeriesOf(q) = SeriesOf(p)
                                       /\ job[q].at # "announce" /\ CanGoOn(q)
    BY DEF NobodyBlocked
  <2>1. job[p].at = "number" /\ ~LockFree(p)
    BY DEF IInv, TypeOK, Job, CanGoOn, MayAnnounce, NewsLeft, HasNews
  <2>2. PICK q \in Procs : holder[SeriesOf(p)] = q
    BY <2>1, SeriesOfIn DEF LockFree, IInv, TypeOK
  <2>3. SeriesOf(q) = SeriesOf(p) /\ job[q].at \in Open
    BY <2>2, SeriesOfIn DEF IInv, HolderCounts
  <2>4. CanGoOn(q)
    BY <2>2, <2>3 DEF CanGoOn, LockFree, Open
  <2>5. QED
    BY <2>2, <2>3, <2>4 DEF Open
<1>4. QED
  BY <1>1, <1>2, <1>3, InitHolds, NextHolds, NextKeepsNews, PTL DEF Spec

-----------------------------------------------------------------------------
(* The periods of a contract *)

\* An invoice of a contract is for a period that starts its billing cycle.
OnCycle(d) ==
  \A c \in Contracts, m \in Months : d = <<c, m>> => PeriodStartsCycle(c, m)
Planned(J) ==
  J.at \in Open =>
    /\ \A d \in J.todo : OnCycle(d)
    /\ \A r \in J.rows : OnCycle(r.doc)
    /\ J.at = "number" => OnCycle(J.doc)
CyclesKept == /\ \A r \in books["invoice"] : OnCycle(r.doc)
              /\ \A p \in Procs : Planned(job[p])

LEMMA Multiple ==
  ASSUME NEW x \in Nat, NEW d \in Nat \ {0}, x % d = 0 PROVE \E a \in Nat : x = d * a
<1>1. x = d * (x \div d) + (x % d) /\ x \div d \in Nat
  OBVIOUS
<1>2. QED
  BY <1>1

LEMMA NextMultiple ==
  ASSUME NEW d \in Nat \ {0}, NEW a \in Nat, NEW b \in Nat, a < b PROVE d * a + d <= d * b
<1>1. PICK e \in Nat : b = a + 1 + e
  <2>1. b - a - 1 \in Nat /\ b = a + 1 + (b - a - 1)
    OBVIOUS
  <2>2. QED
    BY <2>1
<1>2. d * b = d * a + d + d * e
  BY <1>1
<1>3. d * e \in Nat /\ d * a \in Nat
  OBVIOUS
<1>4. QED
  BY <1>2, <1>3

LEMMA TermsTyped ==
  ASSUME NEW c \in Contracts
  PROVE  Terms[c].months \in Nat \ {0} /\ Terms[c].first \in Nat
<1> DEFINE T == [months : Nat \ {0}, exempt : BOOLEAN, anchorDay : Nat, first : Nat, last : Nat]
<1>1. Terms \in Seq(T)
  BY RunAssumption
<1> HIDE DEF T
<1>2. Terms[c] \in T
  BY <1>1 DEF Contracts
<1>3. QED
  BY <1>2 DEF T

LEMMA MonthsAreNat == Months \subseteq Nat
<1> SUFFICES ASSUME NEW day \in 0..LastDay PROVE Month(day) \in Nat
  BY DEF Months
<1>1. day \in Nat /\ DaysPerMonth \in Nat \ {0}
  BY RunAssumption
<1>2. day \div DaysPerMonth \in Nat
  BY <1>1
<1>3. QED
  BY <1>2 DEF Month

\* The starts of a cycle are at least a period apart.
LEMMA CyclesApart ==
  ASSUME NEW c \in Contracts, NEW m \in Nat, NEW n \in Nat, m < n,
         PeriodStartsCycle(c, m), PeriodStartsCycle(c, n)
  PROVE  m + Terms[c].months <= n
<1> DEFINE d == Terms[c].months
           f == Terms[c].first
<1>1. d \in Nat \ {0} /\ f \in Nat
  BY TermsTyped
<1>2. CASE d = 1
  BY <1>2
<1>3. CASE d # 1
  <2>1. /\ m >= f /\ (m - f) % d = 0
        /\ n >= f /\ (n - f) % d = 0
    BY <1>3 DEF PeriodStartsCycle
  <2> HIDE DEF d, f
  <2>2. m - f \in Nat /\ n - f \in Nat
    BY <1>1, <2>1
  <2>3. PICK a \in Nat : m - f = d * a
    BY <1>1, <2>1, <2>2, Multiple
  <2>4. PICK b \in Nat : n - f = d * b
    BY <1>1, <2>1, <2>2, Multiple
  <2>5. a < b
    <3> SUFFICES ASSUME b < a \/ b = a PROVE FALSE
      OBVIOUS
    <3>1. CASE b = a
      BY <1>1, <2>3, <2>4, <3>1
    <3>2. CASE b < a
      <4>1. d * b + d <= d * a
        BY <1>1, <3>2, NextMultiple
      <4>2. QED
        BY <1>1, <2>3, <2>4, <4>1
    <3>3. QED
      BY <3>1, <3>2
  <2>6. d * a + d <= d * b
    BY <1>1, <2>5, NextMultiple
  <2>7. m + d <= n
    BY <1>1, <2>3, <2>4, <2>6
  <2>8. QED
    BY <2>7 DEF d
<1>4. QED
  BY <1>2, <1>3

LEMMA CoveredApart ==
  ASSUME NEW c \in Contracts, NEW m \in Nat, NEW n \in Nat, m + Terms[c].months <= n
  PROVE  Covered(c, m) \cap Covered(c, n) = {}
<1> DEFINE d == Terms[c].months
<1>1. d \in Nat
  BY TermsTyped
<1> HIDE DEF d
<1>2. (m..(m + d - 1)) \cap (n..(n + d - 1)) = {}
  BY <1>1 DEF d
<1>3. QED
  BY <1>2 DEF Covered, d

LEMMA WorkListOnCycle == \A m \in Months, day \in Nat : \A e \in WorkList(m, day) : OnCycle(e)
<1> SUFFICES ASSUME NEW m \in Months, NEW day \in Nat, NEW e \in WorkList(m, day)
             PROVE  OnCycle(e)
  OBVIOUS
<1>1. PICK c \in Contracts : e = <<c, m>> /\ Billable(c, m, day)
  BY DEF WorkList
<1>2. PeriodStartsCycle(c, m)
  BY <1>1 DEF Billable
<1>3. QED
  BY <1>1, <1>2 DEF OnCycle

\* A process whose transaction plans only cycle starts keeps it.
LEMMA PlanStep ==
  ASSUME TypeOK, CyclesKept, NEW p \in Procs, NEW J, Planned(J), Become(p, J), UNCHANGED books
  PROVE  CyclesKept'
<1>1. \A q \in Procs : job'[q] = IF q = p THEN J ELSE job[q]
  BY DEF TypeOK, Become
<1>2. QED
  BY <1>1 DEF CyclesKept

LEMMA IdlePlans == Planned(Idle)
BY DEF Planned, Idle, Open

LEMMA StepKeepsCycles ==
  ASSUME TypeOK, CyclesKept, NEW p \in Procs, Step(p) \/ Fail(p) PROVE CyclesKept'
<1>1. job[p] \in Job /\ Planned(job[p])
  BY DEF TypeOK, CyclesKept
<1>2. CASE RefuseDuplicate(p) \/ Fail(p) \/ NothingToIssue(p)
  BY <1>2, IdlePlans, PlanStep DEF RefuseDuplicate, Rollback, Fail, NothingToIssue
<1>3. CASE Look(p)
  <2>1. PICK d \in job[p].todo :
          Become(p, IF Exists("invoice", d)
                    THEN [job[p] EXCEPT !.todo = job[p].todo \ {d}]
                    ELSE [job[p] EXCEPT !.at = "number", !.doc = d, !.todo = job[p].todo \ {d}])
    BY <1>3 DEF Look
  <2> DEFINE S == [job[p] EXCEPT !.todo = job[p].todo \ {d}]
             N == [job[p] EXCEPT !.at = "number", !.doc = d, !.todo = job[p].todo \ {d}]
  <2>2. job[p].at = "scan" /\ UNCHANGED books
    BY <1>3 DEF Look
  <2>3. S.at = "scan" /\ S.rows = job[p].rows /\ S.todo = job[p].todo \ {d}
    BY <1>1, <2>2 DEF Job
  <2>4. N.at = "number" /\ N.rows = job[p].rows /\ N.todo = job[p].todo \ {d} /\ N.doc = d
    BY <1>1 DEF Job
  <2>5. Become(p, S) \/ Become(p, N)
    BY <2>1
  <2> HIDE DEF S, N
  <2>6. Planned(S) /\ Planned(N)
    BY <1>1, <2>2, <2>3, <2>4 DEF Planned, Open
  <2>7. QED
    BY <2>2, <2>5, <2>6, PlanStep
<1>4. CASE TakeNumber(p)
  <2> DEFINE row == [doc |-> job[p].doc, number |-> Number(p)]
             J == [job[p] EXCEPT !.at = "scan", !.doc = NoDoc, !.next = Number(p) + 1,
                                 !.rows = job[p].rows \cup {row}]
  <2>1. J.at = "scan" /\ J.todo = job[p].todo /\ J.rows = job[p].rows \cup {row}
        /\ row.doc = job[p].doc
    BY <1>1 DEF Job
  <2>2. Become(p, J) /\ UNCHANGED books /\ job[p].at = "number"
    BY <1>4 DEF TakeNumber
  <2> HIDE DEF J, row
  <2>3. Planned(J)
    BY <1>1, <2>1, <2>2 DEF Planned, Open
  <2>4. QED
    BY <2>2, <2>3, PlanStep
<1>5. CASE Announce(p)
  <2>1. PICK J : J.at \notin Open /\ Become(p, J) /\ UNCHANGED books
    BY <1>1, <1>5 DEF Announce, MayAnnounce, Idle, Open, Job
  <2>2. QED
    BY <2>1, PlanStep DEF Planned
<1>6. CASE Commit(p)
  <2> DEFINE J == [job[p] EXCEPT !.at = "announce"]
  <2>1. J.at \notin Open
    BY <1>1 DEF Job, Open
  <2>2. /\ books' = [books EXCEPT ![SeriesOf(p)] = @ \cup job[p].rows]
        /\ Become(p, J) /\ job[p].at = "scan"
    BY <1>6 DEF Commit
  <2> HIDE DEF J
  <2>3. \A q \in Procs : job'[q] = IF q = p THEN J ELSE job[q]
    BY <2>2 DEF TypeOK, Become
  <2>4. Planned(J)
    BY <2>1 DEF Planned
  <2>8. \A q \in Procs : Planned(job'[q])
    BY <2>3, <2>4 DEF CyclesKept
  <2>5. books'["invoice"] \subseteq books["invoice"] \cup job[p].rows
    BY <2>2 DEF TypeOK, Series
  <2>6. \A r \in books'["invoice"] : OnCycle(r.doc)
    BY <1>1, <2>2, <2>5 DEF CyclesKept, Planned, Open
  <2>7. QED
    BY <2>6, <2>8 DEF CyclesKept
<1>7. QED
  BY <1>2, <1>3, <1>4, <1>5, <1>6 DEF Step

LEMMA NextKeepsCycles == TypeOK /\ CyclesKept /\ [Next]_vars => CyclesKept'
<1> SUFFICES ASSUME TypeOK, CyclesKept, [Next]_vars PROVE CyclesKept'
  OBVIOUS
<1>1. ASSUME NEW p \in Procs, NEW m \in Months, NEW day \in Nat, UNCHANGED books,
             Become(p, [Idle EXCEPT !.at = "scan", !.todo = WorkList(m, day)])
      PROVE  CyclesKept'
  <2> DEFINE J == [Idle EXCEPT !.at = "scan", !.todo = WorkList(m, day)]
  <2>1. J.at = "scan" /\ J.todo = WorkList(m, day) /\ J.rows = {}
    BY DEF Idle
  <2> HIDE DEF J
  <2>2. Planned(J)
    BY <2>1, WorkListOnCycle DEF Planned
  <2>3. QED
    BY <1>1, <2>2, PlanStep DEF J
<1>2. ASSUME NEW p \in Crons, CronFires(p) PROVE CyclesKept'
  BY <1>1, <1>2, IdlePlans, PlanStep, MonthOfToday DEF CronFires, Procs
<1>3. ASSUME NEW p \in Managers, NEW m \in Months, ManagerStarts(p, m) PROVE CyclesKept'
  BY <1>1, <1>3 DEF ManagerStarts, Procs
<1>4. ASSUME NEW p \in Issuers \cup Noters, IssueStarts(p) PROVE CyclesKept'
  <2> DEFINE J == [Idle EXCEPT !.at = "number", !.doc = <<p, left[p]>>]
  <2>1. J.at = "number" /\ J.todo = {} /\ J.rows = {} /\ J.doc = <<p, left[p]>>
    BY DEF Idle
  <2>2. Become(p, J) /\ UNCHANGED books
    BY <1>4 DEF IssueStarts
  <2> HIDE DEF J
  <2>3. OnCycle(<<p, left[p]>>)
    BY RunAssumption DEF OnCycle
  <2>4. Planned(J)
    BY <2>1, <2>3 DEF Planned
  <2>5. QED
    BY <2>2, <2>4, PlanStep DEF Procs
<1>5. CASE Tick \/ UNCHANGED vars
  BY <1>5 DEF Tick, vars, CyclesKept
<1>6. QED
  BY <1>2, <1>3, <1>4, <1>5, StepKeepsCycles DEF Next

\* However the scheduled runs, the runs by hand and their failures overlap, and
\* whatever cycles the contracts have, no month of a contract is on two invoices.
THEOREM MonthsBilledOnce == Spec => []NoMonthBilledTwice
<1>1. Init => CyclesKept
  <2> SUFFICES ASSUME Init PROVE CyclesKept
    OBVIOUS
  <2>1. books["invoice"] = {}
    BY DEF Init, Series
  <2>2. \A p \in Procs : job[p] = Idle
    BY DEF Init
  <2>3. QED
    BY <2>1, <2>2, IdlePlans DEF CyclesKept
<1>2. CyclesKept => NoMonthBilledTwice
  <2> SUFFICES ASSUME CyclesKept, NEW c \in Contracts, NEW m \in Months, NEW n \in Months,
                      Exists("invoice", <<c, m>>), Exists("invoice", <<c, n>>), m # n
               PROVE  Covered(c, m) \cap Covered(c, n) = {}
    BY DEF NoMonthBilledTwice
  <2>1. PeriodStartsCycle(c, m) /\ PeriodStartsCycle(c, n)
    BY DEF CyclesKept, Exists, OnCycle
  <2>2. m \in Nat /\ n \in Nat
    BY MonthsAreNat
  <2>3. CASE m < n
    BY <2>1, <2>2, <2>3, CyclesApart, CoveredApart
  <2>4. CASE n < m
    <3>1. Covered(c, n) \cap Covered(c, m) = {}
      BY <2>1, <2>2, <2>4, CyclesApart, CoveredApart
    <3>2. QED
      BY <3>1
  <2>5. QED
    BY <2>2, <2>3, <2>4
<1>3. QED
  BY <1>1, <1>2, NextKeepsCycles, TypeCorrect, PTL DEF Spec

-----------------------------------------------------------------------------
(* Every month is billed *)

\* The scheduled run takes a contract from this day of the month on; a month has
\* more of these days than there are failures and missed days in all.
Opens(c) == IF RunDay <= EffectiveRunDay(c) THEN EffectiveRunDay(c) ELSE RunDay
EnoughDays == Crons # {} /\ \A c \in Contracts : Opens(c) + MaxFaults <= DaysPerMonth
\* The clock starts in month 1 and shows the contracts from their first month.
SeenFromTheStart == \A c \in Contracts : Terms[c].first > 0

Issued(d) == Exists("invoice", d)
TodaysList == WorkList(Month(today), DayOfMonth(today))

\* A transaction goes through one list: it numbers nothing else, and forgets
\* nothing of it that is not in the book.
Numbers(J, d) == d \in J.todo \/ (J.at = "number" /\ J.doc = d) \/ d \in RowDocs(J)
Follows(J, list) ==
  J.at \in Open => /\ \A d : Numbers(J, d) => d \in list
                   /\ \A d \in list : Numbers(J, d) \/ Issued(d)
Lists(p) == IF p \in Crons THEN {TodaysList}
            ELSE IF p \in Managers THEN {WorkList(m, 0) : m \in Months}
            ELSE {{<<p, k>>} : k \in Nat}
ListsFollowed == \A p \in Procs : \E list \in Lists(p) : Follows(job[p], list)

\* Whoever issues the document a scheduled run is about to number, issues or
\* finds everything on the day's list with it.
Overtaken ==
  \A p \in Crons : job[p].at = "number" /\ Issued(job[p].doc) =>
    \A d \in TodaysList : Issued(d)

\* A contract still to be billed this month has cost a failure for every day that
\* is over since its run opened, and today's, when today's run is over.
Owed(c) == Billable(c, Month(today), 0) /\ ~Issued(<<c, Month(today)>>)
DaysOver(c) == DayOfMonth(today) - Opens(c)
RunIsOver == ranOn = today /\ \A p \in Crons : job[p].at \notin Open
EveryDayCounts ==
  \A c \in Contracts : Owed(c) =>
    /\ DaysOver(c) + faults <= MaxFaults
    /\ RunIsOver /\ DaysOver(c) >= 0 => DaysOver(c) + faults < MaxFaults

PastMonthsBilled ==
  \A c \in Contracts, m \in Months : m < Month(today) /\ Billable(c, m, 0) => Issued(<<c, m>>)

CalendarInv == /\ ranOn <= today /\ faults <= MaxFaults
               /\ ListsFollowed /\ Overtaken /\ EveryDayCounts /\ PastMonthsBilled

-----------------------------------------------------------------------------
(* Each run goes through its list *)

LEMMA BooksGrow ==
  ASSUME TypeOK, [Next]_vars PROVE \A s \in Series : books[s] \subseteq books'[s]
<1>1. CASE \E p \in Procs : Commit(p)
  BY <1>1 DEF Commit, TypeOK
<1>2. CASE ~\E p \in Procs : Commit(p)
  BY <1>2 DEF Next, vars, Step, CronFires, ManagerStarts, IssueStarts, Look, TakeNumber,
              RefuseDuplicate, NothingToIssue, Announce, Fail, Tick
<1>3. QED
  BY <1>1, <1>2

LEMMA IssuedStays ==
  ASSUME NEW d, books["invoice"] \subseteq books'["invoice"], Issued(d) PROVE Issued(d)'
BY DEF Issued, Exists

LEMMA WorkListDoc ==
  ASSUME NEW m, NEW day, NEW d \in WorkList(m, day)
  PROVE  \E c \in Contracts : d = <<c, m>> /\ Billable(c, m, day)
BY DEF WorkList

LEMMA WholeList ==
  ASSUME NEW m, NEW n, NEW day, NEW d \in WorkList(m, day), d \in WorkList(n, 0)
  PROVE  WorkList(m, day) \subseteq WorkList(n, 0)
<1>1. m = n
  BY DEF WorkList
<1>2. \A c \in Contracts : Billable(c, m, day) => Billable(c, m, 0)
  BY DEF Billable
<1>3. QED
  BY <1>1, <1>2 DEF WorkList

\* A process that goes on with its list keeps it while the book stays.
LEMMA FollowStep ==
  ASSUME TypeOK, ListsFollowed, NEW p \in Procs, NEW J, Become(p, J), UNCHANGED <<books, today>>,
         \E list \in Lists(p) : Follows(J, list)
  PROVE  ListsFollowed'
<1>1. \A q \in Procs : job'[q] = IF q = p THEN J ELSE job[q]
  BY DEF TypeOK, Become
<1>2. \A q : Lists(q)' = Lists(q)
  BY DEF Lists, TodaysList
<1>3. \A q \in Procs : \E list \in Lists(q) : Follows(job'[q], list)
  BY <1>1 DEF ListsFollowed
<1>4. ASSUME NEW q \in Procs
      PROVE  \E list \in Lists(q)' : Follows(job[q], list)'
  <2>1. PICK list \in Lists(q) : Follows(job'[q], list)
    BY <1>3
  <2>2. Follows(job[q], list)'
    BY <2>1 DEF Follows, Issued, Exists
  <2>3. QED
    BY <1>2, <2>1, <2>2
<1>5. QED
  BY <1>4 DEF ListsFollowed

LEMMA ClosedFollows == \A J, list : J.at \notin Open => Follows(J, list)
BY DEF Follows

LEMMA HasLists == \A p : \E list : list \in Lists(p)
<1> SUFFICES ASSUME NEW p PROVE \E list : list \in Lists(p)
  OBVIOUS
<1>1. \E m : m \in Months
  <2>1. 0 \in 0..LastDay
    BY RunAssumption
  <2>2. QED
    BY <2>1 DEF Months
<1>2. 0 \in Nat
  OBVIOUS
<1>3. QED
  BY <1>1, <1>2 DEF Lists

\* A process that ends its transaction.
LEMMA EndFollows ==
  ASSUME TypeOK, ListsFollowed, NEW p \in Procs, NEW J, J.at \notin Open, Become(p, J),
         UNCHANGED <<books, today>>
  PROVE  ListsFollowed'
BY ClosedFollows, HasLists, FollowStep

\* A run that has just been started on its list.
LEMMA ScanFollows ==
  ASSUME TypeOK, ListsFollowed, NEW p \in Procs, NEW list \in Lists(p),
         Become(p, [Idle EXCEPT !.at = "scan", !.todo = list]), UNCHANGED <<books, today>>
  PROVE  ListsFollowed'
<1> DEFINE J == [Idle EXCEPT !.at = "scan", !.todo = list]
<1>1. J.at = "scan" /\ J.todo = list /\ J.rows = {}
  BY DEF Idle
<1> HIDE DEF J
<1>2. Follows(J, list)
  BY <1>1 DEF Follows, Numbers, RowDocs
<1>3. QED
  BY <1>2, FollowStep DEF J

LEMMA LookFollows == ASSUME TypeOK, ListsFollowed, NEW p \in Procs, Look(p) PROVE ListsFollowed'
<1>1. job[p] \in Job /\ job[p].at = "scan" /\ UNCHANGED <<books, today>>
  BY DEF TypeOK, Look, clock
<1>2. PICK d \in job[p].todo :
        Become(p, IF Issued(d) THEN [job[p] EXCEPT !.todo = job[p].todo \ {d}]
                  ELSE [job[p] EXCEPT !.at = "number", !.doc = d, !.todo = job[p].todo \ {d}])
  BY DEF Look, Issued
<1>3. PICK list \in Lists(p) : Follows(job[p], list)
  BY DEF ListsFollowed
<1> DEFINE S == [job[p] EXCEPT !.todo = job[p].todo \ {d}]
           N == [job[p] EXCEPT !.at = "number", !.doc = d, !.todo = job[p].todo \ {d}]
<1>4. S.at = "scan" /\ S.rows = job[p].rows /\ S.todo = job[p].todo \ {d}
  BY <1>1 DEF Job
<1>5. N.at = "number" /\ N.rows = job[p].rows /\ N.todo = job[p].todo \ {d} /\ N.doc = d
  BY <1>1 DEF Job
<1>6. IF Issued(d) THEN Become(p, S) ELSE Become(p, N)
  BY <1>2
<1> HIDE DEF S, N
<1>7. Issued(d) => Follows(S, list)
  BY <1>1, <1>3, <1>4 DEF Follows, Numbers, RowDocs, Open
<1>8. Follows(N, list)
  BY <1>1, <1>3, <1>5 DEF Follows, Numbers, RowDocs, Open
<1>9. QED
  BY <1>1, <1>6, <1>7, <1>8, FollowStep

LEMMA TakeNumberFollows ==
  ASSUME TypeOK, ListsFollowed, NEW p \in Procs, TakeNumber(p) PROVE ListsFollowed'
<1> DEFINE row == [doc |-> job[p].doc, number |-> Number(p)]
           J == [job[p] EXCEPT !.at = "scan", !.doc = NoDoc, !.next = Number(p) + 1,
                               !.rows = job[p].rows \cup {row}]
<1>1. job[p] \in Job /\ job[p].at = "number" /\ UNCHANGED <<books, today>> /\ Become(p, J)
  BY DEF TypeOK, TakeNumber, clock
<1>2. /\ J.at = "scan" /\ J.todo = job[p].todo /\ J.rows = job[p].rows \cup {row}
      /\ row.doc = job[p].doc
  BY <1>1 DEF Job
<1>3. PICK list \in Lists(p) : Follows(job[p], list)
  BY DEF ListsFollowed
<1> HIDE DEF J, row
<1>4. RowDocs(J) = RowDocs(job[p]) \cup {job[p].doc}
  BY <1>2 DEF RowDocs
<1>5. Follows(J, list)
  BY <1>1, <1>2, <1>3, <1>4 DEF Follows, Numbers, Open
<1>6. QED
  BY <1>1, <1>3, <1>5, FollowStep

LEMMA CommitFollows ==
  ASSUME TypeOK, ListsFollowed, NEW p \in Procs, Commit(p) PROVE ListsFollowed'
<1> DEFINE J == [job[p] EXCEPT !.at = "announce"]
<1>1. J.at \notin Open /\ Become(p, J) /\ today' = today
  BY DEF Commit, TypeOK, Job, Open, clock
<1> HIDE DEF J
<1>2. \A q \in Procs : job'[q] = IF q = p THEN J ELSE job[q]
  BY <1>1 DEF TypeOK, Become
<1>3. books["invoice"] \subseteq books'["invoice"]
  BY DEF Commit, TypeOK, Series
<1>4. \A q : Lists(q)' = Lists(q)
  BY <1>1 DEF Lists, TodaysList
<1>5. ASSUME NEW q \in Procs PROVE \E list \in Lists(q)' : Follows(job[q], list)'
  <2>1. PICK list \in Lists(q) : Follows(job[q], list)
    BY DEF ListsFollowed
  <2>2. \A d : Issued(d) => Issued(d)'
    BY <1>3, IssuedStays
  <2>3. job'[q].at \in Open => job'[q] = job[q]
    BY <1>1, <1>2
  <2>4. Follows(job[q], list)'
    BY <2>1, <2>2, <2>3 DEF Follows, Numbers, RowDocs
  <2>5. QED
    BY <1>4, <2>1, <2>4
<1>6. QED
  BY <1>5 DEF ListsFollowed

LEMMA TickFollows == ASSUME TypeOK, ListsFollowed, Tick PROVE ListsFollowed'
<1>1. UNCHANGED <<books, job>> /\ \A p \in Crons : job[p].at \notin Open
  BY DEF Tick, Open
<1>2. ASSUME NEW q \in Procs PROVE \E list \in Lists(q)' : Follows(job[q], list)'
  <2>1. CASE q \in Crons
    <3>1. PICK list : list \in Lists(q)'
      BY <2>1 DEF Lists
    <3>2. Follows(job[q], list)'
      BY <1>1, <2>1 DEF Follows
    <3>3. QED
      BY <3>1, <3>2
  <2>2. CASE q \notin Crons
    <3>1. PICK list \in Lists(q) : Follows(job[q], list)
      BY DEF ListsFollowed
    <3>2. Lists(q)' = Lists(q)
      BY <2>2 DEF Lists
    <3>3. Follows(job[q], list)'
      BY <1>1, <3>1 DEF Follows, Numbers, RowDocs, Issued, Exists
    <3>4. QED
      BY <3>1, <3>2, <3>3
  <2>3. QED
    BY <2>1, <2>2
<1>3. QED
  BY <1>2 DEF ListsFollowed

LEMMA NextFollows == ASSUME TypeOK, ListsFollowed, [Next]_vars PROVE ListsFollowed'
<1>1. Idle.at \notin Open
  BY DEF Idle, Open
<1>2. ASSUME NEW p \in Crons, CronFires(p) PROVE ListsFollowed'
  <2>1. p \in Procs /\ TodaysList \in Lists(p) /\ UNCHANGED <<books, today>>
    BY <1>2 DEF Procs, Lists, CronFires
  <2>2. CASE RunIsDue(today)
    BY <1>2, <2>1, <2>2, ScanFollows DEF CronFires, TodaysList
  <2>3. CASE ~RunIsDue(today)
    BY <1>1, <1>2, <2>1, <2>3, EndFollows DEF CronFires
  <2>4. QED
    BY <2>2, <2>3
<1>3. ASSUME NEW p \in Managers, NEW m \in Months, ManagerStarts(p, m) PROVE ListsFollowed'
  <2>1. p \in Procs /\ WorkList(m, 0) \in Lists(p)
    BY RunAssumption DEF Procs, Lists
  <2>2. QED
    BY <1>3, <2>1, ScanFollows DEF ManagerStarts, clock
<1>4. ASSUME NEW p \in Issuers \cup Noters, IssueStarts(p) PROVE ListsFollowed'
  <2> DEFINE J == [Idle EXCEPT !.at = "number", !.doc = <<p, left[p]>>]
  <2>1. J.at = "number" /\ J.todo = {} /\ J.rows = {} /\ J.doc = <<p, left[p]>>
    BY DEF Idle
  <2>2. Become(p, J) /\ UNCHANGED <<books, today>> /\ p \in Procs
    BY <1>4 DEF IssueStarts, clock, Procs
  <2> HIDE DEF J
  <2>3. left[p] \in Nat
    BY <2>2, RunAssumption DEF TypeOK
  <2>4. {<<p, left[p]>>} \in Lists(p)
    BY <2>3, RunAssumption DEF Lists
  <2>5. Follows(J, {<<p, left[p]>>})
    BY <2>1 DEF Follows, Numbers, RowDocs
  <2>6. QED
    BY <2>2, <2>4, <2>5, FollowStep
<1>5. ASSUME NEW p \in Procs, RefuseDuplicate(p) \/ Fail(p) \/ NothingToIssue(p)
      PROVE  ListsFollowed'
  BY <1>1, <1>5, EndFollows DEF RefuseDuplicate, Rollback, Fail, NothingToIssue, clock
<1>6. ASSUME NEW p \in Procs, Announce(p) PROVE ListsFollowed'
  <2>1. PICK J : J.at \notin Open /\ Become(p, J) /\ UNCHANGED <<books, today>>
    BY <1>1, <1>6 DEF Announce, MayAnnounce, Open, Job, TypeOK, clock
  <2>2. QED
    BY <2>1, EndFollows
<1>7. CASE UNCHANGED vars
  BY <1>7 DEF vars, ListsFollowed, Lists, TodaysList, Follows, Numbers, RowDocs, Issued, Exists
<1>8. QED
  BY <1>2, <1>3, <1>4, <1>5, <1>6, <1>7, LookFollows, TakeNumberFollows, CommitFollows,
     TickFollows DEF Next, Step

-----------------------------------------------------------------------------
(* A run that is overtaken, and a run that comes to its end *)

\* What a run commits, it commits with the rest of its list.
LEMMA CommitIssuesAll ==
  ASSUME TypeOK, ListsFollowed, NEW p \in Procs, Commit(p), SeriesOf(p) = "invoice"
  PROVE  \E list \in Lists(p) : /\ \A d \in RowDocs(job[p]) : d \in list
                                /\ \A d \in list : Issued(d)'
<1>1. PICK list \in Lists(p) : Follows(job[p], list)
  BY DEF ListsFollowed
<1>2. job[p].at = "scan" /\ job[p].todo = {}
  BY DEF Commit
<1>3. books'["invoice"] = books["invoice"] \cup job[p].rows
  BY DEF Commit, TypeOK, Series
<1>4. \A d \in RowDocs(job[p]) : d \in list
  BY <1>1, <1>2 DEF Follows, Open, Numbers
<1>5. ASSUME NEW d \in list PROVE Issued(d)'
  <2>1. d \in RowDocs(job[p]) \/ Issued(d)
    BY <1>1, <1>2 DEF Follows, Open, Numbers
  <2>2. QED
    BY <1>3, <2>1 DEF Issued, Exists, RowDocs
<1>6. QED
  BY <1>4, <1>5

LEMMA CommitHelpsEveryone ==
  ASSUME TypeOK, ListsFollowed, NEW p \in Procs, Commit(p), NEW d \in TodaysList,
         ~Issued(d), Issued(d)'
  PROVE  \A e \in TodaysList : Issued(e)'
<1>1. books'[SeriesOf(p)] = books[SeriesOf(p)] \cup job[p].rows
      /\ \A s \in Series : s # SeriesOf(p) => books'[s] = books[s]
  BY SeriesOfIn DEF Commit, TypeOK
<1>2. SeriesOf(p) = "invoice" /\ d \in RowDocs(job[p])
  BY <1>1 DEF Issued, Exists, Series, RowDocs
<1>3. PICK list \in Lists(p) : /\ \A e \in RowDocs(job[p]) : e \in list
                               /\ \A e \in list : Issued(e)'
  BY <1>2, CommitIssuesAll
<1>4. d \in list
  BY <1>2, <1>3
<1>5. CASE p \in Crons
  BY <1>3, <1>5 DEF Lists
<1>6. CASE p \in Managers
  <2>1. PICK m \in Months : list = WorkList(m, 0)
    BY <1>3, <1>6, RunAssumption DEF Lists
  <2>2. TodaysList \subseteq list
    BY <1>4, <2>1, WholeList DEF TodaysList
  <2>3. QED
    BY <1>3, <2>2
<1>7. CASE p \notin Crons \cup Managers
  <2>1. PICK k \in Nat : list = {<<p, k>>}
    BY <1>3, <1>7 DEF Lists
  <2>2. PICK c \in Contracts : d = <<c, Month(today)>>
    BY WorkListDoc DEF TodaysList
  <2>3. p \in Contracts
    BY <1>4, <2>1, <2>2
  <2>4. QED
    BY <1>7, <2>3, RunAssumption DEF Procs
<1>8. QED
  BY <1>5, <1>6, <1>7

\* A step after which every run about to number a document is one that was.
LEMMA NobodyLooks ==
  ASSUME Overtaken, UNCHANGED <<books, today>>,
         \A p \in Crons : job'[p].at = "number" => job'[p] = job[p]
  PROVE  Overtaken'
BY DEF Overtaken, Issued, Exists, TodaysList

LEMMA NextOvertaken ==
  ASSUME TypeOK, ListsFollowed, Overtaken, [Next]_vars PROVE Overtaken'
<1>0. Crons \subseteq Procs
  BY DEF Procs
<1>1. ASSUME NEW p \in Procs, NEW J, Become(p, J), J.at # "number", UNCHANGED <<books, today>>
      PROVE  Overtaken'
  <2>1. \A q \in Procs : job'[q] = IF q = p THEN J ELSE job[q]
    BY <1>1 DEF TypeOK, Become
  <2>2. \A q \in Crons : job'[q].at = "number" => job'[q] = job[q]
    BY <1>0, <1>1, <2>1
  <2>3. QED
    BY <1>1, <2>2, NobodyLooks
<1>2. ASSUME NEW p \in Crons, CronFires(p) PROVE Overtaken'
  <2>1. PICK J : J.at # "number" /\ Become(p, J) /\ UNCHANGED <<books, today>>
    BY <1>2 DEF CronFires, Idle
  <2>2. QED
    BY <1>0, <1>1, <2>1
<1>3. ASSUME NEW p \in Managers, NEW m \in Months, ManagerStarts(p, m) PROVE Overtaken'
  <2>1. PICK J : J.at # "number" /\ Become(p, J) /\ UNCHANGED <<books, today>>
    BY <1>3 DEF ManagerStarts, Idle, clock
  <2>2. QED
    BY <1>1, <2>1 DEF Procs
<1>4. ASSUME NEW p \in Issuers \cup Noters, IssueStarts(p) PROVE Overtaken'
  <2>1. p \in Procs /\ p \notin Crons
    BY RunAssumption DEF Procs
  <2>2. \A q \in Procs : q # p => job'[q] = job[q]
    BY <1>4 DEF IssueStarts, Become, TypeOK
  <2>3. UNCHANGED <<books, today>>
    BY <1>4 DEF IssueStarts, clock
  <2>4. QED
    BY <1>0, <2>1, <2>2, <2>3, NobodyLooks
<1>5. ASSUME NEW p \in Procs, Look(p) PROVE Overtaken'
  <2>1. PICK d \in job[p].todo :
          Become(p, IF Issued(d) THEN [job[p] EXCEPT !.todo = job[p].todo \ {d}]
                    ELSE [job[p] EXCEPT !.at = "number", !.doc = d, !.todo = job[p].todo \ {d}])
    BY <1>5 DEF Look, Issued
  <2>2. job[p] \in Job /\ job[p].at = "scan" /\ UNCHANGED <<books, today>>
    BY <1>5 DEF Look, TypeOK, clock
  <2>3. job'[p].at = "number" => job'[p].doc = d /\ ~Issued(d)
    BY <2>1, <2>2 DEF Become, TypeOK, Job
  <2>4. \A q \in Procs : q # p => job'[q] = job[q]
    BY <2>1 DEF Become, TypeOK
  <2>5. SUFFICES ASSUME NEW q \in Crons, job'[q].at = "number", Issued(job'[q].doc)
                 PROVE  \A e \in TodaysList : Issued(e)
    BY <2>2 DEF Overtaken, Issued, Exists, TodaysList
  <2>6. q # p
    BY <2>3, <2>5
  <2>7. job'[q] = job[q]
    BY <1>0, <2>4, <2>6
  <2>8. QED
    BY <2>5, <2>7 DEF Overtaken
<1>6. ASSUME NEW p \in Procs, TakeNumber(p) PROVE Overtaken'
  <2>1. job[p] \in Job
    BY DEF TypeOK
  <2>2. PICK J : J.at # "number" /\ Become(p, J) /\ UNCHANGED <<books, today>>
    BY <1>6, <2>1 DEF TakeNumber, Job, clock
  <2>3. QED
    BY <1>1, <2>2
<1>7. ASSUME NEW p \in Procs, RefuseDuplicate(p) \/ Fail(p) \/ NothingToIssue(p) PROVE Overtaken'
  <2>1. Idle.at # "number" /\ Become(p, Idle) /\ UNCHANGED <<books, today>>
    BY <1>7 DEF RefuseDuplicate, Rollback, Fail, NothingToIssue, clock, Idle
  <2>2. QED
    BY <1>1, <2>1
<1>8. ASSUME NEW p \in Procs, Announce(p) PROVE Overtaken'
  <2>1. PICK J : J.at # "number" /\ Become(p, J) /\ UNCHANGED <<books, today>>
    BY <1>8 DEF Announce, MayAnnounce, Job, TypeOK, clock, Idle
  <2>2. QED
    BY <1>1, <2>1
<1>9. ASSUME NEW p \in Procs, Commit(p) PROVE Overtaken'
  <2>1. \A q \in Procs : job'[q].at = "number" => job'[q] = job[q]
    BY <1>9 DEF Commit, Become, TypeOK, Job
  <2>2. today' = today
    BY <1>9 DEF Commit, clock
  <2>3. books["invoice"] \subseteq books'["invoice"]
    BY <1>9 DEF Commit, TypeOK, Series
  <2>4. ASSUME NEW q \in Crons, job'[q].at = "number", Issued(job[q].doc)'
        PROVE  \A e \in TodaysList : Issued(e)'
    <3>0. PICK d : d = job[q].doc
      OBVIOUS
    <3>1. job'[q] = job[q]
      BY <1>0, <2>1, <2>4
    <3>2. CASE Issued(d)
      <4>1. \A e \in TodaysList : Issued(e)
        BY <2>4, <3>0, <3>1, <3>2 DEF Overtaken
      <4>2. QED
        BY <2>3, <4>1, IssuedStays
    <3>3. CASE ~Issued(d)
      <4>1. PICK list \in Lists(q) : Follows(job[q], list)
        BY <1>0 DEF ListsFollowed
      <4>2. list = TodaysList
        BY <4>1 DEF Lists
      <4>3. d \in TodaysList
        BY <2>4, <3>0, <3>1, <4>1, <4>2 DEF Follows, Numbers, Open
      <4>4. Issued(d)'
        BY <2>4, <3>0, <3>1 DEF Issued, Exists
      <4>5. QED
        BY <1>9, <3>3, <4>3, <4>4, CommitHelpsEveryone
    <3>4. QED
      BY <3>2, <3>3
  <2>5. TodaysList' = TodaysList
    BY <2>2 DEF TodaysList
  <2>6. QED
    BY <2>4, <2>5 DEF Overtaken
<1>10. CASE Tick
  <2>1. \A p \in Crons : job'[p].at # "number"
    BY <1>10 DEF Tick
  <2>2. QED
    BY <2>1 DEF Overtaken
<1>11. CASE UNCHANGED vars
  BY <1>11, NobodyLooks DEF vars
<1>12. QED
  BY <1>2, <1>3, <1>4, <1>5, <1>6, <1>7, <1>8, <1>9, <1>10, <1>11 DEF Next, Step

-----------------------------------------------------------------------------
(* The calendar *)

\* A quotient and a remainder are those of the division.
LEMMA DivisionUnique ==
  ASSUME NEW d \in Nat \ {0}, NEW q \in Nat, NEW r \in 0..(d - 1)
  PROVE  (d * q + r) \div d = q /\ (d * q + r) % d = r
<1> DEFINE x == d * q + r
           a == x \div d
           b == x % d
<1>1. x \in Nat
  OBVIOUS
<1>2. x = d * a + b /\ a \in Nat /\ b \in 0..(d - 1)
  BY <1>1
<1> HIDE DEF a, b
<1>3. d * a + b = d * q + r
  BY <1>2
<1>4. ~(a < q)
  <2> SUFFICES ASSUME a < q PROVE FALSE
    OBVIOUS
  <2>1. d * a + d <= d * q
    BY <1>2, NextMultiple
  <2>2. d * a \in Nat /\ d * q \in Nat
    BY <1>2
  <2>3. QED
    BY <1>2, <1>3, <2>1, <2>2
<1>5. ~(q < a)
  <2> SUFFICES ASSUME q < a PROVE FALSE
    OBVIOUS
  <2>1. d * q + d <= d * a
    BY <1>2, NextMultiple
  <2>2. d * a \in Nat /\ d * q \in Nat
    BY <1>2
  <2>3. QED
    BY <1>2, <1>3, <2>1, <2>2
<1>6. a = q
  BY <1>2, <1>4, <1>5
<1>7. d * a = d * q
  BY <1>6
<1>8. b = r
  <2>1. d * q \in Nat
    OBVIOUS
  <2>2. QED
    BY <1>2, <1>3, <1>7, <2>1
<1>9. QED
  BY <1>6, <1>8 DEF a, b

LEMMA DayInMonth ==
  ASSUME NEW day \in Nat
  PROVE  /\ DayOfMonth(day) \in 1..DaysPerMonth /\ Month(day) \in Nat \ {0}
         /\ day = DaysPerMonth * (Month(day) - 1) + (DayOfMonth(day) - 1)
<1>1. DaysPerMonth \in Nat \ {0}
  BY RunAssumption
<1> DEFINE a == day \div DaysPerMonth
           b == day % DaysPerMonth
<1>2. day = DaysPerMonth * a + b /\ a \in Nat /\ b \in 0..(DaysPerMonth - 1)
  BY <1>1
<1>3. Month(day) = a + 1 /\ DayOfMonth(day) = b + 1
  BY DEF Month, DayOfMonth
<1> HIDE DEF a, b
<1>4. Month(day) - 1 = a /\ DayOfMonth(day) - 1 = b
  BY <1>2, <1>3
<1>5. QED
  BY <1>1, <1>2, <1>3, <1>4

LEMMA DayOfCalendar ==
  ASSUME NEW q \in Nat, NEW r \in 0..(DaysPerMonth - 1)
  PROVE  Month(DaysPerMonth * q + r) = q + 1 /\ DayOfMonth(DaysPerMonth * q + r) = r + 1
BY RunAssumption, DivisionUnique DEF Month, DayOfMonth

\* At midnight the next day of the month begins, or the next month.
LEMMA Midnight ==
  ASSUME NEW day \in Nat
  PROVE  \/ Month(day + 1) = Month(day) /\ DayOfMonth(day + 1) = DayOfMonth(day) + 1
         \/ /\ Month(day + 1) = Month(day) + 1
            /\ DayOfMonth(day) = DaysPerMonth /\ DayOfMonth(day + 1) = 1
<1>0. DaysPerMonth \in Nat \ {0}
  BY RunAssumption
<1>1. PICK q \in Nat, r \in 0..(DaysPerMonth - 1) :
        /\ day = DaysPerMonth * q + r /\ Month(day) = q + 1 /\ DayOfMonth(day) = r + 1
  <2>1. /\ DayOfMonth(day) \in 1..DaysPerMonth /\ Month(day) \in Nat \ {0}
        /\ day = DaysPerMonth * (Month(day) - 1) + (DayOfMonth(day) - 1)
    BY DayInMonth
  <2>2. Month(day) - 1 \in Nat /\ DayOfMonth(day) - 1 \in 0..(DaysPerMonth - 1)
    BY <1>0, <2>1
  <2>3. Month(day) = (Month(day) - 1) + 1 /\ DayOfMonth(day) = (DayOfMonth(day) - 1) + 1
    BY <1>0, <2>1
  <2>4. QED
    BY <2>1, <2>2, <2>3
<1>2. DaysPerMonth \in Nat \ {0} /\ DaysPerMonth * q \in Nat
  BY RunAssumption
<1>3. CASE r + 1 < DaysPerMonth
  <2>1. day + 1 = DaysPerMonth * q + (r + 1) /\ r + 1 \in 0..(DaysPerMonth - 1)
    BY <1>1, <1>2, <1>3
  <2>2. Month(day + 1) = q + 1 /\ DayOfMonth(day + 1) = r + 1 + 1
    BY <2>1, DayOfCalendar
  <2>3. QED
    BY <1>1, <2>2
<1>4. CASE r + 1 = DaysPerMonth
  <2>1. DaysPerMonth * (q + 1) = DaysPerMonth * q + DaysPerMonth
    BY <1>2
  <2>2. day + 1 = DaysPerMonth * (q + 1) + 0 /\ 0 \in 0..(DaysPerMonth - 1) /\ q + 1 \in Nat
    BY <1>1, <1>2, <1>4, <2>1
  <2>3. Month(day + 1) = (q + 1) + 1 /\ DayOfMonth(day + 1) = 0 + 1
    BY <2>2, DayOfCalendar
  <2>4. QED
    BY <1>1, <1>4, <2>3
<1>5. QED
  BY <1>2, <1>3, <1>4

LEMMA TermsOpen ==
  ASSUME NEW c \in Contracts
  PROVE  /\ Opens(c) \in Nat \ {0} /\ RunDay <= Opens(c) /\ EffectiveRunDay(c) <= Opens(c)
         /\ EffectiveRunDay(c) \in Nat
<1> DEFINE T == [months : Nat \ {0}, exempt : BOOLEAN, anchorDay : Nat, first : Nat, last : Nat]
<1>1. Terms \in Seq(T) /\ RunDay \in Nat \ {0}
  BY RunAssumption
<1> HIDE DEF T
<1>2. Terms[c] \in T
  BY <1>1 DEF Contracts
<1>3. Terms[c].anchorDay \in Nat
  BY <1>2 DEF T
<1>4. EffectiveRunDay(c) \in Nat
  BY <1>1, <1>3 DEF EffectiveRunDay
<1>5. QED
  BY <1>1, <1>4 DEF Opens

\* Months that are not after today's are months of the calendar.
LEMMA MonthsBefore ==
  ASSUME NEW m \in Months, NEW n \in Nat \ {0}, n <= m PROVE n \in Months
<1>1. PICK day \in 0..LastDay : m = Month(day)
  BY DEF Months
<1>2. DaysPerMonth \in Nat \ {0} /\ LastDay \in Nat
  BY RunAssumption
<1>3. m \in Nat \ {0} /\ DayOfMonth(day) - 1 \in Nat
      /\ day = DaysPerMonth * (m - 1) + (DayOfMonth(day) - 1)
  <2>1. day \in Nat
    BY <1>2
  <2>2. /\ DayOfMonth(day) \in 1..DaysPerMonth /\ Month(day) \in Nat \ {0}
        /\ day = DaysPerMonth * (Month(day) - 1) + (DayOfMonth(day) - 1)
    BY <2>1, DayInMonth
  <2>3. QED
    BY <1>1, <1>2, <2>2
<1> DEFINE start == DaysPerMonth * (n - 1)
<1>4. start \in Nat /\ start <= DaysPerMonth * (m - 1)
  <2>1. CASE n = m
    BY <1>2, <1>3, <2>1
  <2>2. CASE n < m
    <3>1. DaysPerMonth * (n - 1) + DaysPerMonth <= DaysPerMonth * (m - 1)
      <4>1. n - 1 \in Nat /\ m - 1 \in Nat /\ n - 1 < m - 1
        BY <1>3, <2>2
      <4>2. QED
        BY <1>2, <4>1, NextMultiple
    <3>2. start \in Nat /\ DaysPerMonth * (m - 1) \in Nat
      BY <1>2, <1>3
    <3>3. QED
      BY <1>2, <3>1, <3>2
  <2>3. QED
    BY <1>3, <2>1, <2>2
<1>5. start \in 0..LastDay
  <2>1. DaysPerMonth * (m - 1) \in Nat
    BY <1>2, <1>3
  <2> HIDE DEF start
  <2>2. QED
    BY <1>1, <1>2, <1>3, <1>4, <2>1
<1>6. Month(start + 0) = n
  <2>1. n - 1 \in Nat /\ 0 \in 0..(DaysPerMonth - 1)
    BY <1>2
  <2>2. Month(start + 0) = (n - 1) + 1
    BY <2>1, DayOfCalendar
  <2>3. QED
    BY <2>2
<1>7. start + 0 = start
  BY <1>4
<1>8. QED
  BY <1>5, <1>6, <1>7 DEF Months

\* A month a contract is in force in belongs to a period that starts its cycle.
LEMMA PeriodOfMonth ==
  ASSUME SeenFromTheStart, NEW c \in Contracts, NEW m \in Nat \ {0}, InForce(c, m)
  PROVE  \E n \in Nat \ {0} : n <= m /\ PeriodStartsCycle(c, n) /\ m \in Covered(c, n)
<1> DEFINE d == Terms[c].months
           f == Terms[c].first
<1>1. d \in Nat \ {0} /\ f \in Nat \ {0} /\ f <= m
  BY TermsTyped DEF SeenFromTheStart, InForce
<1>2. CASE d = 1
  <2>1. PeriodStartsCycle(c, m)
    BY <1>2 DEF PeriodStartsCycle
  <2>2. m \in m..(m + d - 1)
    BY <1>2
  <2>3. m \in Covered(c, m)
    BY <2>2 DEF Covered
  <2>4. QED
    BY <2>1, <2>3
<1>3. CASE d # 1
  <2> DEFINE a == (m - f) \div d
             b == (m - f) % d
             n == f + d * a
  <2>1. m - f \in Nat
    BY <1>1
  <2> HIDE DEF d, f
  <2>2. m - f = d * a + b /\ a \in Nat /\ b \in 0..(d - 1)
    BY <1>1, <2>1
  <2> HIDE DEF a, b
  <2>3. d * a \in Nat
    BY <1>1, <2>2
  <2>4. n \in Nat \ {0} /\ n <= m /\ n >= f /\ n - f = d * a
    BY <1>1, <2>2, <2>3
  <2>5. (n - f) % d = 0
    <3>1. d * a + 0 = d * a /\ 0 \in 0..(d - 1)
      BY <1>1, <2>3
    <3>2. (d * a + 0) % d = 0
      BY <1>1, <2>2, <3>1, DivisionUnique
    <3>3. QED
      BY <2>4, <3>1, <3>2
  <2>6. m \in n..(n + d - 1)
    BY <1>1, <2>2, <2>3, <2>4
  <2> HIDE DEF n
  <2>7. PeriodStartsCycle(c, n)
    BY <2>4, <2>5 DEF PeriodStartsCycle, d, f
  <2>8. m \in Covered(c, n)
    BY <2>6 DEF Covered, d
  <2>9. QED
    BY <2>4, <2>7, <2>8
<1>4. QED
  BY <1>2, <1>3

-----------------------------------------------------------------------------
(* Every day of a missed month is accounted for *)

LEMMA CronSeries == \A p \in Crons : SeriesOf(p) = "invoice" /\ Lists(p) = {TodaysList}
BY RunAssumption DEF SeriesOf, Lists

\* Once the run of the day has opened for a contract, it is on the day's list.
LEMMA OnTheList ==
  ASSUME TypeOK, NEW c \in Contracts, Billable(c, Month(today), 0), DaysOver(c) >= 0
  PROVE  <<c, Month(today)>> \in TodaysList /\ RunIsDue(today)
<1>1. today \in Nat
  BY RunAssumption DEF TypeOK
<1>2. DayOfMonth(today) \in Nat
  BY MonthOfToday
<1>3. RunDay \in Nat
  BY RunAssumption
<1>4. EffectiveRunDay(c) <= DayOfMonth(today) /\ RunDay <= DayOfMonth(today)
  BY <1>2, <1>3, TermsOpen DEF DaysOver
<1>5. Billable(c, Month(today), DayOfMonth(today))
  BY <1>4 DEF Billable
<1>6. QED
  BY <1>2, <1>3, <1>4, <1>5, RunAssumption DEF TodaysList, WorkList, RunIsDue, ClampRunDay

\* A step within the day: when it ends the day's run, everything on the list is in
\* the book, or the step was a failure, or no run was due.
LEMMA WithinTheDay ==
  ASSUME TypeOK, TypeOK', EveryDayCounts, PastMonthsBilled, today' = today, faults' <= faults,
         books["invoice"] \subseteq books'["invoice"],
         RunIsOver' => \/ RunIsOver \/ faults' < faults \/ ~RunIsDue(today)
                       \/ \A d \in TodaysList : Issued(d)'
  PROVE  EveryDayCounts' /\ PastMonthsBilled'
<1>1. \A d : Issued(d) => Issued(d)'
  BY IssuedStays
<1>2. PastMonthsBilled'
  BY <1>1 DEF PastMonthsBilled
<1>3. ASSUME NEW c \in Contracts, Owed(c)'
      PROVE  /\ DaysOver(c)' + faults' <= MaxFaults
             /\ RunIsOver' /\ DaysOver(c)' >= 0 => DaysOver(c)' + faults' < MaxFaults
  <2>1. Owed(c) /\ ~Issued(<<c, Month(today)>>)'
    BY <1>1, <1>3 DEF Owed
  <2>2. DaysOver(c)' = DaysOver(c) /\ DaysOver(c) \in Int
    BY TermsOpen, MonthOfToday DEF DaysOver
  <2>3. faults \in Int /\ faults' \in Int /\ MaxFaults \in Int
    BY RunAssumption DEF TypeOK
  <2>4. /\ DaysOver(c) + faults <= MaxFaults
        /\ RunIsOver /\ DaysOver(c) >= 0 => DaysOver(c) + faults < MaxFaults
    BY <2>1 DEF EveryDayCounts
  <2>5. RunIsOver' /\ DaysOver(c) >= 0 => RunIsOver \/ faults' < faults
    BY <2>1, OnTheList DEF Owed
  <2>6. DaysOver(c) + faults' <= MaxFaults
    BY <2>2, <2>3, <2>4
  <2>7. RunIsOver' /\ DaysOver(c) >= 0 => DaysOver(c) + faults' < MaxFaults
    BY <2>2, <2>3, <2>4, <2>5
  <2>8. QED
    BY <2>2, <2>6, <2>7
<1>4. EveryDayCounts'
  BY <1>3 DEF EveryDayCounts
<1>5. QED
  BY <1>2, <1>4

\* A step of somebody else, or of a run that is open before and after it.
LEMMA RunGoesOn ==
  ASSUME UNCHANGED <<today, ranOn>>, TypeOK, NEW p \in Procs, NEW J, Become(p, J),
         p \in Crons => J.at \in Open \/ job[p].at \notin Open, RunIsOver'
  PROVE  RunIsOver
<1>1. \A q \in Procs : job'[q] = IF q = p THEN J ELSE job[q]
  BY DEF TypeOK, Become
<1>2. QED
  BY <1>1 DEF RunIsOver, Procs

LEMMA StepWithinTheDay ==
  ASSUME TypeOK, TypeOK', ListsFollowed, Overtaken, EveryDayCounts, PastMonthsBilled,
         books["invoice"] \subseteq books'["invoice"], NEW p \in Procs, Step(p) \/ Fail(p)
  PROVE  EveryDayCounts' /\ PastMonthsBilled'
<1>0. /\ job[p] \in Job /\ today' = today /\ ranOn' = ranOn /\ faults' <= faults
      /\ (Fail(p) => faults' < faults)
  <2>1. job[p] \in Job /\ faults \in Int
    BY DEF TypeOK
  <2>2. Step(p) => today' = today /\ ranOn' = ranOn /\ faults' = faults
    BY DEF Step, Look, TakeNumber, RefuseDuplicate, Commit, NothingToIssue, Announce, clock
  <2>3. Fail(p) => today' = today /\ ranOn' = ranOn /\ faults' = faults - 1
    BY DEF Fail, clock
  <2>4. QED
    BY <2>1, <2>2, <2>3
<1>1. CASE Fail(p)
  BY <1>0, <1>1, WithinTheDay
<1>2. CASE Look(p)
  <2>1. job[p].at = "scan"
    BY <1>2 DEF Look
  <2>2. PICK d \in job[p].todo :
          Become(p, IF Exists("invoice", d)
                    THEN [job[p] EXCEPT !.todo = job[p].todo \ {d}]
                    ELSE [job[p] EXCEPT !.at = "number", !.doc = d, !.todo = job[p].todo \ {d}])
    BY <1>2 DEF Look
  <2>3. [job[p] EXCEPT !.todo = job[p].todo \ {d}].at \in Open
    BY <1>0, <2>1 DEF Job, Open
  <2>4. [job[p] EXCEPT !.at = "number", !.doc = d, !.todo = job[p].todo \ {d}].at \in Open
    BY <1>0 DEF Job, Open
  <2>5. PICK J : J.at \in Open /\ Become(p, J)
    BY <2>2, <2>3, <2>4
  <2>6. RunIsOver' => RunIsOver
    BY <1>0, <2>5, RunGoesOn
  <2>7. QED
    BY <1>0, <2>6, WithinTheDay
<1>3. CASE TakeNumber(p)
  <2> DEFINE J == [job[p] EXCEPT !.at = "scan", !.doc = NoDoc, !.next = Number(p) + 1,
                      !.rows = job[p].rows \cup {[doc |-> job[p].doc, number |-> Number(p)]}]
  <2>1. Become(p, J)
    BY <1>3 DEF TakeNumber
  <2>2. J.at \in Open
    BY <1>0 DEF Job, Open
  <2> HIDE DEF J
  <2>3. RunIsOver' => RunIsOver
    BY <1>0, <2>1, <2>2, RunGoesOn
  <2>4. QED
    BY <1>0, <2>3, WithinTheDay
<1>4. CASE Announce(p)
  <2>1. PICK J : Become(p, J)
    BY <1>4 DEF Announce
  <2>2. job[p].at \notin Open
    BY <1>4 DEF Announce, MayAnnounce, Open
  <2>3. RunIsOver' => RunIsOver
    BY <1>0, <2>1, <2>2, RunGoesOn
  <2>4. QED
    BY <1>0, <2>3, WithinTheDay
<1>5. CASE RefuseDuplicate(p) \/ Commit(p) \/ NothingToIssue(p)
  <2>1. CASE p \notin Crons
    <3>1. PICK J : Become(p, J)
      BY <1>5 DEF RefuseDuplicate, Rollback, Commit, NothingToIssue
    <3>2. RunIsOver' => RunIsOver
      BY <1>0, <2>1, <3>1, RunGoesOn
    <3>3. QED
      BY <1>0, <3>2, WithinTheDay
  <2>2. CASE p \in Crons
    <3>1. \A d \in TodaysList : Issued(d)'
      <4>1. CASE Commit(p)
        BY <2>2, <4>1, CronSeries, CommitIssuesAll
      <4>2. CASE RefuseDuplicate(p)
        <5>1. job[p].at = "number" /\ Issued(job[p].doc)
          BY <2>2, <4>2, CronSeries DEF RefuseDuplicate, Duplicate, Issued
        <5>2. \A d \in TodaysList : Issued(d)
          BY <2>2, <5>1 DEF Overtaken
        <5>3. QED
          BY <5>2, IssuedStays
      <4>3. CASE NothingToIssue(p)
        <5>1. Follows(job[p], TodaysList)
          BY <2>2, CronSeries DEF ListsFollowed
        <5>2. job[p].at = "scan" /\ job[p].todo = {} /\ RowDocs(job[p]) = {}
          BY <4>3 DEF NothingToIssue, RowDocs
        <5>3. \A d \in TodaysList : Issued(d)
          BY <5>1, <5>2 DEF Follows, Numbers, Open
        <5>4. QED
          BY <5>3, IssuedStays
      <4>4. QED
        BY <1>5, <4>1, <4>2, <4>3
    <3>2. QED
      BY <1>0, <3>1, WithinTheDay
  <2>3. QED
    BY <2>1, <2>2
<1>6. QED
  BY <1>1, <1>2, <1>3, <1>4, <1>5 DEF Step

\* At midnight a contract that is still owed has cost a failure for this day too:
\* its run was over, or it never began.  A month has too many days for that.
LEMMA MidnightCounts ==
  ASSUME TypeOK, TypeOK', CalendarInv, EnoughDays, Tick
  PROVE  EveryDayCounts' /\ PastMonthsBilled' /\ faults' <= MaxFaults /\ ranOn' <= today'
<1>1. today \in Nat /\ ranOn \in Int /\ faults \in Nat /\ faults' \in Nat /\ MaxFaults \in Nat
  BY RunAssumption DEF TypeOK
<1>2. today' = today + 1 /\ ranOn' = ranOn /\ books' = books
      /\ \A p \in Crons : job[p].at \notin Open
  BY DEF Tick, Open
<1>3. faults' <= faults /\ (ranOn = today \/ faults' < faults)
  BY <1>1 DEF Tick, EnoughDays
<1>4. ranOn' <= today' /\ ranOn' # today' /\ faults' <= MaxFaults
  BY <1>1, <1>2, <1>3 DEF CalendarInv
<1>5. ~RunIsOver'
  BY <1>4 DEF RunIsOver
<1>6. \A d : Issued(d)' <=> Issued(d)
  BY <1>2 DEF Issued, Exists
<1>7. \A c \in Contracts : DaysOver(c) \in Int
  BY TermsOpen, MonthOfToday DEF DaysOver
<1>8. \A c \in Contracts : Owed(c) /\ DaysOver(c) >= 0 => DaysOver(c) + faults' < MaxFaults
  <2> SUFFICES ASSUME NEW c \in Contracts, Owed(c), DaysOver(c) >= 0
               PROVE  DaysOver(c) + faults' < MaxFaults
    OBVIOUS
  <2>1. DaysOver(c) + faults <= MaxFaults /\ (RunIsOver => DaysOver(c) + faults < MaxFaults)
    BY DEF CalendarInv, EveryDayCounts
  <2>2. RunIsOver \/ faults' < faults
    BY <1>2, <1>3 DEF RunIsOver
  <2>3. QED
    BY <1>1, <1>3, <1>7, <2>1, <2>2
<1>9. \/ Month(today') = Month(today) /\ DayOfMonth(today') = DayOfMonth(today) + 1
      \/ /\ Month(today') = Month(today) + 1
         /\ DayOfMonth(today) = DaysPerMonth /\ DayOfMonth(today') = 1
  BY <1>1, <1>2, Midnight
<1>10. DayOfMonth(today) \in Int /\ Month(today) \in Int /\ DaysPerMonth \in Int
  BY <1>1, MonthOfToday, DayInMonth, RunAssumption
<1>11. ASSUME NEW c \in Contracts, Owed(c)' PROVE DaysOver(c)' + faults' <= MaxFaults
  <2>1. Opens(c) \in Nat \ {0}
    BY TermsOpen
  <2>2. DaysOver(c)' = DayOfMonth(today') - Opens(c) /\ DaysOver(c) = DayOfMonth(today) - Opens(c)
    BY DEF DaysOver
  <2>3. CASE Month(today') = Month(today) /\ DayOfMonth(today') = DayOfMonth(today) + 1
    <3>1. Owed(c)
      BY <1>6, <1>11, <2>3 DEF Owed
    <3>2. DaysOver(c) >= 0 => DaysOver(c) + faults' < MaxFaults
      BY <1>8, <3>1
    <3>3. DaysOver(c)' = DaysOver(c) + 1
      BY <1>10, <2>1, <2>2, <2>3
    <3>4. DaysOver(c) + 1 + faults' <= MaxFaults
      BY <1>1, <1>4, <1>7, <3>2
    <3>5. QED
      BY <3>3, <3>4
  <2>4. CASE DayOfMonth(today') = 1
    <3>1. (1 - Opens(c)) + faults' <= MaxFaults
      BY <1>1, <1>4, <2>1
    <3>2. QED
      BY <2>2, <2>4, <3>1
  <2>5. QED
    BY <1>9, <2>3, <2>4
<1>12. EveryDayCounts'
  BY <1>5, <1>11 DEF EveryDayCounts
<1>13. ASSUME NEW c \in Contracts, NEW m \in Months, m < Month(today'), Billable(c, m, 0)
       PROVE  Issued(<<c, m>>)
  <2>1. m \in Int
    BY MonthsAreNat
  <2>2. CASE m < Month(today)
    BY <1>13, <2>2 DEF CalendarInv, PastMonthsBilled
  <2>3. CASE ~(m < Month(today))
    <3>1. m = Month(today) /\ DayOfMonth(today) = DaysPerMonth
      BY <1>9, <1>10, <1>13, <2>1, <2>3
    <3>2. Opens(c) + MaxFaults <= DaysPerMonth /\ Opens(c) \in Nat
      BY TermsOpen DEF EnoughDays
    <3>3. SUFFICES ASSUME Owed(c) PROVE FALSE
      BY <1>13, <3>1 DEF Owed
    <3>4. DaysOver(c) >= MaxFaults /\ DaysOver(c) \in Int
      BY <1>1, <1>10, <3>1, <3>2 DEF DaysOver
    <3>5. DaysOver(c) + faults' < MaxFaults
      BY <1>1, <1>8, <3>3, <3>4
    <3>6. QED
      BY <1>1, <3>4, <3>5
  <2>4. QED
    BY <2>2, <2>3
<1>14. PastMonthsBilled'
  BY <1>6, <1>13 DEF PastMonthsBilled
<1>15. QED
  BY <1>4, <1>12, <1>14

LEMMA NextCalendar ==
  ASSUME TypeOK, TypeOK', CalendarInv, EnoughDays, [Next]_vars PROVE CalendarInv'
<1>1. ListsFollowed' /\ Overtaken'
  BY NextFollows, NextOvertaken DEF CalendarInv
<1>2. SUFFICES EveryDayCounts' /\ PastMonthsBilled' /\ faults' <= MaxFaults /\ ranOn' <= today'
  BY <1>1 DEF CalendarInv
<1>3. books["invoice"] \subseteq books'["invoice"]
  BY BooksGrow DEF Series
<1>4. today \in Int /\ ranOn \in Int /\ faults \in Int /\ faults' \in Int /\ MaxFaults \in Int
  BY RunAssumption DEF TypeOK
<1>5. ASSUME NEW p \in Crons, CronFires(p)
      PROVE  EveryDayCounts' /\ PastMonthsBilled' /\ faults' <= MaxFaults /\ ranOn' <= today'
  <2>1. today' = today /\ ranOn' = today /\ faults' = faults
    BY <1>5 DEF CronFires
  <2>2. ~RunIsDue(today) \/ ~RunIsOver'
    <3> SUFFICES ASSUME RunIsDue(today) PROVE ~RunIsOver'
      OBVIOUS
    <3> DEFINE J == [Idle EXCEPT !.at = "scan", !.todo = WorkList(Month(today), DayOfMonth(today))]
    <3>1. Become(p, J)
      BY <1>5 DEF CronFires
    <3>2. J.at \in Open
      BY DEF Idle, Open
    <3> HIDE DEF J
    <3>3. job'[p] = J
      BY <3>1 DEF Become, TypeOK, Procs
    <3>4. QED
      BY <3>2, <3>3 DEF RunIsOver
  <2>3. EveryDayCounts' /\ PastMonthsBilled'
    BY <1>3, <1>4, <2>1, <2>2, WithinTheDay DEF CalendarInv
  <2>4. QED
    BY <1>4, <2>1, <2>3 DEF CalendarInv
<1>6. ASSUME NEW p \in Procs, p \notin Crons, NEW J, Become(p, J), UNCHANGED <<today, ranOn, faults>>
      PROVE  EveryDayCounts' /\ PastMonthsBilled' /\ faults' <= MaxFaults /\ ranOn' <= today'
  <2>1. RunIsOver' => RunIsOver
    BY <1>6, RunGoesOn
  <2>2. EveryDayCounts' /\ PastMonthsBilled'
    BY <1>3, <1>4, <1>6, <2>1, WithinTheDay DEF CalendarInv
  <2>3. QED
    BY <1>6, <2>2 DEF CalendarInv
<1>7. ASSUME NEW p \in Managers, NEW m \in Months, ManagerStarts(p, m)
      PROVE  EveryDayCounts' /\ PastMonthsBilled' /\ faults' <= MaxFaults /\ ranOn' <= today'
  BY <1>6, <1>7, RunAssumption DEF ManagerStarts, clock, Procs
<1>8. ASSUME NEW p \in Issuers \cup Noters, IssueStarts(p)
      PROVE  EveryDayCounts' /\ PastMonthsBilled' /\ faults' <= MaxFaults /\ ranOn' <= today'
  BY <1>6, <1>8, RunAssumption DEF IssueStarts, clock, Procs
<1>9. ASSUME NEW p \in Procs, Step(p) \/ Fail(p)
      PROVE  EveryDayCounts' /\ PastMonthsBilled' /\ faults' <= MaxFaults /\ ranOn' <= today'
  <2>1. today' = today /\ ranOn' = ranOn /\ (faults' = faults \/ faults' = faults - 1)
    BY <1>9 DEF Step, Look, TakeNumber, RefuseDuplicate, Commit, NothingToIssue, Announce,
                Fail, clock
  <2>2. EveryDayCounts' /\ PastMonthsBilled'
    BY <1>3, <1>9, StepWithinTheDay DEF CalendarInv
  <2>3. QED
    BY <1>4, <2>1, <2>2 DEF CalendarInv
<1>10. CASE UNCHANGED vars
  BY <1>10, <1>3, <1>4, WithinTheDay DEF CalendarInv, vars, RunIsOver
<1>11. QED
  BY <1>5, <1>7, <1>8, <1>9, <1>10, MidnightCounts DEF Next

\* With a contract's run opening on more days of every month than there are failures
\* and missed days, no month it is in force in is over without an invoice for it:
\* whatever rolls back, whoever overtakes whom, and whichever run by hand comes first.
THEOREM EveryMonthBilled ==
  ASSUME EnoughDays, SeenFromTheStart PROVE Spec => []NoMonthLost
<1>1. Init => CalendarInv
  <2> SUFFICES ASSUME Init PROVE CalendarInv
    OBVIOUS
  <2>1. \A p \in Procs : job[p] = Idle /\ Idle.at \notin Open
    BY DEF Init, Idle, Open
  <2>2. ListsFollowed
    BY <2>1, ClosedFollows, HasLists DEF ListsFollowed
  <2>3. Overtaken
    BY <2>1 DEF Overtaken, Procs, Open
  <2>4. today = 0 /\ ranOn = -1 /\ faults = MaxFaults /\ MaxFaults \in Nat
    BY RunAssumption DEF Init
  <2>5. Month(0) = 1 /\ DayOfMonth(0) = 1
    <3>1. DaysPerMonth \in Nat \ {0}
      BY RunAssumption
    <3>2. 0 = DaysPerMonth * 0 + 0 /\ 0 \in 0..(DaysPerMonth - 1)
      BY <3>1
    <3>3. Month(DaysPerMonth * 0 + 0) = 0 + 1 /\ DayOfMonth(DaysPerMonth * 0 + 0) = 0 + 1
      BY <3>2, DayOfCalendar
    <3>4. QED
      BY <3>2, <3>3
  <2>6. EveryDayCounts
    <3>1. ~RunIsOver
      BY <2>4 DEF RunIsOver
    <3>2. \A c \in Contracts : DaysOver(c) + faults <= MaxFaults
      BY <2>4, <2>5, TermsOpen DEF DaysOver
    <3>3. QED
      BY <3>1, <3>2 DEF EveryDayCounts
  <2>7. PastMonthsBilled
    <3>1. \A m \in Months : m \in Nat \ {0}
      <4> SUFFICES ASSUME NEW day \in 0..LastDay PROVE Month(day) \in Nat \ {0}
        BY DEF Months
      <4>1. day \in Nat
        BY RunAssumption
      <4>2. QED
        BY <4>1, DayInMonth
    <3>2. \A m \in Months : ~(m < Month(today))
      BY <2>4, <2>5, <3>1
    <3>3. QED
      BY <3>2 DEF PastMonthsBilled
  <2>8. QED
    BY <2>2, <2>3, <2>4, <2>6, <2>7 DEF CalendarInv
<1>2. TypeOK /\ TypeOK' /\ CalendarInv /\ [Next]_vars => CalendarInv'
  BY NextCalendar
<1>3. TypeOK /\ CalendarInv => NoMonthLost
  <2> SUFFICES ASSUME TypeOK, CalendarInv, NEW c \in Contracts, NEW m \in Months,
                      m < Month(today), InForce(c, m), ~Terms[c].exempt
               PROVE  \E n \in Months : Exists("invoice", <<c, n>>) /\ m \in Covered(c, n)
    BY DEF NoMonthLost
  <2>1. m \in Nat \ {0}
    <3>1. PICK day \in 0..LastDay : m = Month(day)
      BY DEF Months
    <3>2. day \in Nat
      BY RunAssumption
    <3>3. QED
      BY <3>1, <3>2, DayInMonth
  <2>2. PICK n \in Nat \ {0} : n <= m /\ PeriodStartsCycle(c, n) /\ m \in Covered(c, n)
    BY <2>1, PeriodOfMonth
  <2>3. n \in Months
    BY <2>2, MonthsBefore
  <2>4. Billable(c, n, 0)
    BY <2>2 DEF Billable
  <2>5. n < Month(today)
    <3>1. today \in Nat
      BY RunAssumption DEF TypeOK
    <3>2. Month(today) \in Nat
      BY <3>1, DayInMonth
    <3>3. QED
      BY <2>1, <2>2, <3>2
  <2>6. Issued(<<c, n>>)
    BY <2>3, <2>4, <2>5 DEF CalendarInv, PastMonthsBilled
  <2>7. QED
    BY <2>2, <2>3, <2>6 DEF Issued
<1>4. QED
  BY <1>1, <1>2, <1>3, TypeCorrect, PTL DEF Spec

-----------------------------------------------------------------------------
(* The committed documents implement the abstract series *)

LEMMA CountInterval == \A a, b \in Int : a <= b => Cardinality(a..b) = b - a + 1
<1> SUFFICES ASSUME NEW a \in Int, NEW b \in Int, a <= b PROVE Cardinality(a..b) = b - a + 1
  OBVIOUS
<1>1. QED
  BY FS_Interval

\* The two modules count alike.
LEMMA SameCount == \A S : Promise!Cardinality(S) = Cardinality(S)
BY DEF Promise!Cardinality, Cardinality

\* Things that carry the numbers m..n, one each, are as many as those numbers.
LEMMA CountByNumber ==
  ASSUME NEW S, NEW m \in Nat, NEW n \in Nat, m <= n + 1, {r.number : r \in S} = m..n,
         \A r, q \in S : r.number = q.number => r = q
  PROVE  IsFiniteSet(S) /\ Cardinality(S) = n - m + 1
<1> DEFINE f == [r \in S |-> r.number]
<1>1. f \in [S -> m..n]
  OBVIOUS
<1>2. \A k \in m..n : \E r \in S : f[r] = k
  <2> SUFFICES ASSUME NEW k \in m..n PROVE \E r \in S : f[r] = k
    OBVIOUS
  <2>1. k \in {r.number : r \in S}
    OBVIOUS
  <2>2. QED
    BY <2>1
<1>3. \A r, q \in S : f[r] = f[q] => r = q
  OBVIOUS
<1>4. f \in Injection(S, m..n) /\ f \in Surjection(S, m..n)
  BY <1>1, <1>2, <1>3 DEF Injection, Surjection, IsInjective
<1>5. IsFiniteSet(m..n) /\ Cardinality(m..n) = n - m + 1
  BY FS_Interval
<1> HIDE DEF f
<1>6. QED
  BY <1>4, <1>5, FS_Injection

\* Documents with one row each are as many as the rows.
LEMMA CountByDoc ==
  ASSUME NEW S, IsFiniteSet(S), \A r, q \in S : r.doc = q.doc => r = q
  PROVE  Cardinality({r.doc : r \in S}) = Cardinality(S)
<1> DEFINE f == [r \in S |-> r.doc]
           T == {r.doc : r \in S}
<1>1. f \in [S -> T] /\ (\A t \in T : \E r \in S : f[r] = t)
  OBVIOUS
<1>2. \A r, q \in S : f[r] = f[q] => r = q
  OBVIOUS
<1> HIDE DEF T
<1>3. f \in Injection(S, T) /\ f \in Surjection(S, T)
  BY <1>1, <1>2 DEF Injection, Surjection, IsInjective
<1> HIDE DEF f
<1>4. QED
  BY <1>3, FS_Surjection DEF T

\* A commit adds its batch right after the last number of its series.
LEMMA CommitIssues == ASSUME IInv, NEW p \in Procs, Commit(p) PROVE Promise!Issue(SeriesOf(p))
<1> DEFINE s == SeriesOf(p)
           rows == job[p].rows
<1>1. s \in Series /\ job[p] \in Job /\ job[p].at = "scan" /\ seq[s] \in Number1 /\ rows # {}
  BY SeriesOfIn DEF Commit, IInv, TypeOK
<1>2. holder[s] = p /\ Differ(job[p])
  BY <1>1 DEF IInv, NoLockNoRows, RowsDiffer, Open
<1>3. /\ seq[s] < job[p].next /\ job[p].next \in Number1
      /\ {r.number : r \in rows} = seq[s]..(job[p].next - 1)
      /\ \A r, q \in rows : r.number = q.number => r = q
      /\ \A r, q \in rows : r.doc = q.doc => r = q
      /\ \A r \in rows, q \in books[s] : r.doc # q.doc
  BY <1>1, <1>2 DEF IInv, HolderCounts, RowsAreNew, Differ, Open, Job
<1>4. /\ {r.number : r \in books[s]} = 1..(seq[s] - 1)
      /\ \A r, q \in books[s] : r.number = q.number => r = q
  BY <1>1 DEF IInv, NumbersAreGapless, NumbersAreUnique
<1>5. books' = [books EXCEPT ![s] = books[s] \cup rows] /\ books \in [Series -> SUBSET Record]
  BY DEF Commit, IInv, TypeOK
<1> HIDE DEF s, rows
<1>6. books'[s] \ books[s] = rows
  BY <1>1, <1>3, <1>5
<1>7. Cardinality(books[s]) = seq[s] - 1
  <2>1. seq[s] - 1 \in Nat /\ 1 <= (seq[s] - 1) + 1
    BY <1>1 DEF Number1
  <2>2. Cardinality(books[s]) = (seq[s] - 1) - 1 + 1
    BY <1>4, <2>1, CountByNumber
  <2>3. QED
    BY <2>1, <2>2
<1>8. IsFiniteSet(rows) /\ Cardinality(rows) = job[p].next - seq[s]
  <2>1. seq[s] \in Nat /\ job[p].next - 1 \in Nat /\ seq[s] <= (job[p].next - 1) + 1
    BY <1>1, <1>3 DEF Number1
  <2>2. IsFiniteSet(rows) /\ Cardinality(rows) = (job[p].next - 1) - seq[s] + 1
    BY <1>3, <2>1, CountByNumber
  <2>3. seq[s] \in Int /\ job[p].next \in Int
    BY <1>1, <1>3 DEF Number1
  <2>4. QED
    BY <2>2, <2>3
<1>9. Cardinality({r.doc : r \in rows}) = Cardinality(rows)
  BY <1>3, <1>8, CountByDoc
<1>10. Cardinality({r.number : r \in rows}) = Cardinality(rows)
  <2>1. seq[s] \in Int /\ job[p].next \in Int /\ job[p].next - 1 \in Int /\ seq[s] <= job[p].next - 1
    BY <1>1, <1>3 DEF Number1
  <2>2. Cardinality(seq[s]..(job[p].next - 1)) = (job[p].next - 1) - seq[s] + 1
    BY <2>1, CountInterval
  <2>3. (job[p].next - 1) - seq[s] + 1 = job[p].next - seq[s]
    BY <2>1
  <2>4. QED
    BY <1>3, <1>8, <2>2, <2>3
<1>11. {r.number : r \in rows} =
         (Cardinality(books[s]) + 1)..(Cardinality(books[s]) + Cardinality(rows))
  BY <1>1, <1>3, <1>7, <1>8 DEF Number1
<1>12. {r.doc : r \in rows} \cap {r.doc : r \in books[s]} = {}
  BY <1>3
<1>13. rows # {}
  BY <1>1 DEF rows, s
<1>14. Promise!Issue(s)
  <2>1. books' = [books EXCEPT ![s] = books[s] \cup (books'[s] \ books[s])]
    BY <1>5, <1>6
  <2>2. Promise!NumbersOf(rows) = {r.number : r \in rows} /\ Promise!DocsOf(rows) = {r.doc : r \in rows}
        /\ Promise!DocsOf(books[s]) = {r.doc : r \in books[s]} /\ Promise!Last(s) = Cardinality(books[s])
    BY SameCount DEF Promise!NumbersOf, Promise!DocsOf, Promise!Last
  <2>3. Promise!Issue(s) <=>
          LET batch == books'[s] \ books[s]
          IN /\ batch # {}
             /\ books' = [books EXCEPT ![s] = @ \cup batch]
             /\ Promise!DocsOf(batch) \cap Promise!DocsOf(books[s]) = {}
             /\ Cardinality(Promise!DocsOf(batch)) = Cardinality(batch)
             /\ Cardinality(Promise!NumbersOf(batch)) = Cardinality(batch)
             /\ Promise!NumbersOf(batch) = (Promise!Last(s) + 1)..(Promise!Last(s) + Cardinality(batch))
    BY SameCount DEF Promise!Issue
  <2>4. QED
    BY <1>6, <1>9, <1>10, <1>11, <1>12, <1>13, <2>1, <2>2, <2>3
<1>15. QED
  BY <1>14 DEF s

\* Every other step leaves the books alone.
LEMMA StepsIssue ==
  ASSUME IInv, [Next]_vars
  PROVE  (\E k \in Series : Promise!Issue(k)) \/ UNCHANGED books
<1>1. ASSUME NEW p \in Procs, Step(p) \/ Fail(p), ~Commit(p) PROVE UNCHANGED books
  BY <1>1 DEF Step, Fail, Look, TakeNumber, RefuseDuplicate, NothingToIssue, Announce
<1>2. ASSUME NEW p \in Procs, Commit(p) PROVE \E k \in Series : Promise!Issue(k)
  BY <1>2, CommitIssues, SeriesOfIn
<1>3. CASE UNCHANGED vars
  BY <1>3 DEF vars
<1>4. CASE Tick \/ \E p \in Crons : CronFires(p)
  BY <1>4 DEF Tick, CronFires
<1>5. CASE \/ \E p \in Managers, m \in Months : ManagerStarts(p, m)
           \/ \E p \in Issuers \cup Noters : IssueStarts(p)
  BY <1>5 DEF ManagerStarts, IssueStarts
<1>6. QED
  BY <1>1, <1>2, <1>3, <1>4, <1>5 DEF Next

\* The billing run implements the abstract series: what happens to the books is
\* one whole batch after another, numbered from the last one on.
THEOREM SeriesImplemented == Spec => SeriesAreGapless
<1>1. Init => Promise!Init
  BY DEF Init, Promise!Init
<1>2. IInv /\ [Next]_vars => [\E k \in Series : Promise!Issue(k)]_books
  BY StepsIssue
<1>3. QED
  BY <1>1, <1>2, InitHolds, NextHolds, PTL DEF Spec, SeriesAreGapless, Promise!Spec
=============================================================================
