----------------------------- MODULE RepairJobsProofs -----------------------------
(***************************************************************************)
(* Proofs about RepairJobs, for any number of people, versions, requests   *)
(* and restarts: work is only done and billed under an approval with       *)
(* evidence, two visits mean that two completions overlapped, stages       *)
(* follow the table, and the stage a job rests in is announced.            *)
(***************************************************************************)
EXTENDS RepairJobs, FiniteSetTheorems, TLAPS

EventStates == {"none", "due", "published", "lost"}

\* What a request in flight carries.
Fits(J) ==
  /\ J.at = "line" => J.total \in Nat
  /\ J.at = "stage" =>
       /\ J.total \in Nat /\ J.to \in Stage \ {"invoiced"}
       /\ J.to \in AllowedNext(J.seen.status) \/ (J.to = "scheduled" /\ J.seen.status = "scheduled")
       /\ J.to = "draft" => J.seen.version < MaxVersion
       /\ J.op = "complete" => J.to = "done"
  /\ J.at \in {"issue", "record"} => J.amount \in Nat
RequestsFit == \A q \in People : Fits(job[q])

LinksAVisit == \A q \in People : job[q].at = "link" => visits # {}

\* A request that plans, does or bills work has read a job with evidence, and
\* evidence never goes away.
Backed(J, r) ==
  /\ J.at = "stage" /\ J.to \in Agreed => J.to = "approved" \/ r.evidence
  /\ J.at \in {"issue", "record"} => r.evidence
RequestsBacked ==
  /\ \A q \in People : Backed(job[q], row)
  /\ row.evidence => row.status # "none"

\* Who has completed the job, and may still record or have recorded a visit.
Completers == visits \cup {q \in People : job[q].at = "visit"}
OneCompletion ==
  "status" \notin stale =>
    /\ \A q, r \in Completers : q = r
    /\ Completers # {} => row.status \in {"done", "invoiced"}

IInv == TypeOK /\ RequestsFit /\ LinksAVisit /\ RequestsBacked /\ EvidenceHeld /\ OneCompletion

-----------------------------------------------------------------------------
LEMMA StartTypes == NoJob \in Row /\ Idle \in Job /\ Fits(Idle)
<1>1. 1 \in 1..MaxVersion
  BY JobsAssumption
<1>2. NoJob \in Row
  BY <1>1 DEF NoJob, Row, Stage
<1>3. QED
  BY <1>2 DEF Idle, Job, Fits

LEMMA InitHolds == Init => IInv
<1> SUFFICES ASSUME Init PROVE IInv
  OBVIOUS
<1>1. row = NoJob /\ visits = {} /\ stale = {} /\ \A q \in People : job[q] = Idle
  BY DEF Init
<1>2. left \in [People -> Nat] /\ faults \in 0..MaxFaults
  BY JobsAssumption DEF Init
<1>3. job \in [People -> Job] /\ lines \in [1..MaxVersion -> Nat]
  BY StartTypes DEF Init
<1>4. TypeOK
  <2>1. row \in Row /\ visits = {} /\ stale = {}
    BY <1>1, StartTypes
  <2>2. ~row.visit
    BY <1>1 DEF NoJob
  <2>3. issued \in Int
    BY DEF Init
  <2>4. event \in EventStates
    BY DEF Init, EventStates
  <2>5. QED
    BY <1>2, <1>3, <2>1, <2>2, <2>3, <2>4 DEF TypeOK, EventStates
<1>5. RequestsFit /\ LinksAVisit
  BY <1>1, StartTypes DEF RequestsFit, LinksAVisit, Idle
<1>6. RequestsBacked /\ EvidenceHeld
  BY <1>1 DEF RequestsBacked, Backed, EvidenceHeld, Agreed, NoJob, Idle
<1>7. OneCompletion
  BY <1>1 DEF OneCompletion, Completers, Idle
<1>8. QED
  BY <1>4, <1>5, <1>6, <1>7 DEF IInv

\* Everything but the requests.
RestTyped ==
  /\ row \in Row
  /\ lines \in [1..MaxVersion -> Nat]
  /\ issued \in Int /\ visits \subseteq People /\ (row.visit => visits # {})
  /\ left \in [People -> Nat]
  /\ event \in EventStates
  /\ stale \subseteq {"status", "version", "net", "invoiced"}
  /\ faults \in 0..MaxFaults

LEMMA Rest == IInv => RestTyped /\ job \in [People -> Job]
BY DEF IInv, TypeOK, RestTyped, EventStates

\* A step of one request.
LEMMA JobStep ==
  ASSUME IInv, NEW q \in People, NEW J \in Job, Become(q, J), RestTyped',
         Fits(J), Backed(J, row'), J.at = "link" => visits' # {}, visits \subseteq visits',
         row.evidence => row'.evidence, row'.evidence => row'.status # "none",
         row'.status \in Agreed => row'.evidence,
         OneCompletion'
  PROVE  IInv'
<1>1. job' = [job EXCEPT ![q] = J] /\ job \in [People -> Job]
  BY DEF Become, IInv, TypeOK
<1>2. job'[q] = J /\ \A r \in People \ {q} : job'[r] = job[r]
  BY <1>1
<1>3. TypeOK'
  BY <1>1 DEF RestTyped, TypeOK, EventStates
<1>4. RequestsFit' /\ LinksAVisit'
  BY <1>2 DEF IInv, RequestsFit, Fits, LinksAVisit
<1>5. RequestsBacked' /\ EvidenceHeld'
  BY <1>2 DEF IInv, RequestsBacked, Backed, EvidenceHeld
<1>6. QED
  BY <1>3, <1>4, <1>5 DEF IInv

\* ... that completes nothing and leaves the stage alone.
LEMMA SideStep ==
  ASSUME IInv, NEW q \in People, NEW J \in Job, Become(q, J), RestTyped',
         Fits(J), Backed(J, row), J.at \notin {"visit", "link"},
         row'.status = row.status, row'.evidence = row.evidence, visits' = visits, stale \subseteq stale'
  PROVE  IInv'
<1>1. job' = [job EXCEPT ![q] = J] /\ job \in [People -> Job]
  BY DEF Become, IInv, TypeOK
<1>2. Completers' \subseteq Completers
  BY <1>1 DEF Completers
<1>3. OneCompletion'
  BY <1>2 DEF IInv, OneCompletion
<1>4. Backed(J, row')
  BY DEF Backed
<1>5. QED
  BY <1>3, <1>4, JobStep DEF IInv, RequestsBacked, EvidenceHeld

\* The request ends, or waits to publish.
LEMMA Ends ==
  ASSUME IInv, NEW q \in People, NEW J \in Job, Become(q, J), RestTyped',
         J.at \in {"idle", "publish", "send"},
         row'.status = row.status, row'.evidence = row.evidence, visits' = visits, stale \subseteq stale'
  PROVE  IInv'
<1>1. Fits(J) /\ Backed(J, row)
  BY DEF Fits, Backed
<1>2. QED
  BY <1>1, SideStep

\* A request that is taken in.
LEMMA BeginHolds ==
  ASSUME IInv, NEW q \in People, NEW J \in Job, Begin(q, J), Fits(J), Backed(J, row),
         J.at \notin {"visit", "link"}
  PROVE  IInv'
<1>1. left[q] - 1 \in Nat
  BY DEF Begin, IInv, TypeOK
<1>2. left' \in [People -> Nat]
  BY <1>1 DEF Begin, IInv, TypeOK
<1>3. RestTyped'
  BY <1>2, Rest DEF Begin, RestTyped
<1>4. QED
  BY <1>3, SideStep DEF Begin

\* The stages under an approval come from such stages.
LEMMA AgreedComesFrom ==
  \A s : /\ AllowedNext(s) \cap (Agreed \ {"approved"}) # {} => s \in Agreed
         /\ "invoiced" \in AllowedNext(s) => s = "done"
         /\ AllowedNext("done") = {"invoiced"} /\ AllowedNext("invoiced") = {}
         /\ AllowedNext("none") = {}
BY DEF AllowedNext, Agreed

LEMMA MovingIs ==
  ASSUME IInv, NEW op \in {"transition", "send", "schedule", "start", "complete"}, NEW to \in Stage \ {"invoiced"},
         to \in AllowedNext(row.status) \/ (to = "scheduled" /\ row.status = "scheduled"),
         to = "draft" => row.version < MaxVersion, op = "complete" => to = "done"
  PROVE  Moving(op, to) \in Job /\ Fits(Moving(op, to)) /\ Backed(Moving(op, to), row)
         /\ Moving(op, to).at = "stage"
<1> DEFINE J == Moving(op, to)
<1>1. row \in Row /\ lines[row.version] \in Nat
  BY DEF IInv, TypeOK, Row
<1>2. /\ J \in Job /\ J.at = "stage" /\ J.op = op /\ J.to = to /\ J.seen = row
      /\ J.total = lines[row.version]
  <2>1. to \in Stage /\ lines[row.version] \in Int
    BY <1>1
  <2>2. QED
    BY <1>1, <2>1, StartTypes DEF Moving, Job
<1> HIDE DEF J
<1>3. Fits(J)
  BY <1>1, <1>2 DEF Fits
<1>4. Backed(J, row)
  <2>1. to \in Agreed /\ to # "approved" => row.status \in Agreed
    BY AgreedComesFrom DEF Agreed
  <2>2. QED
    BY <1>2, <2>1 DEF Backed, IInv, EvidenceHeld
<1>5. QED
  BY <1>2, <1>3, <1>4 DEF J
-----------------------------------------------------------------------------
(* Each action *)

LEMMA CreateHolds ==
  ASSUME IInv, NEW q \in People, NEW total \in 0..MaxTotal, Create(q, total) PROVE IInv'
<1>1. row.status = "none" /\ row' = [NoJob EXCEPT !.status = "draft", !.net = total]
      /\ lines' = [lines EXCEPT ![1] = total] /\ left' = [left EXCEPT ![q] = @ - 1] /\ left[q] > 0
      /\ UNCHANGED <<issued, visits, job, event, stale, faults>>
  BY DEF Create
<1>2. total \in Nat /\ ~row.evidence
  BY <1>1, JobsAssumption DEF IInv, RequestsBacked
<1>3. row' \in Row /\ row'.status = "draft" /\ row'.evidence = FALSE /\ row'.visit = FALSE
  BY <1>1, <1>2, StartTypes DEF Row, NoJob, Stage
<1>4. lines' \in [1..MaxVersion -> Nat]
  BY <1>1, <1>2 DEF IInv, TypeOK
<1>5. left' \in [People -> Nat]
  <2>1. left[q] - 1 \in Nat
    BY <1>1 DEF IInv, TypeOK
  <2>2. QED
    BY <1>1, <2>1 DEF IInv, TypeOK
<1>6. TypeOK'
  BY <1>1, <1>3, <1>4, <1>5 DEF IInv, TypeOK
<1>7. RequestsFit' /\ LinksAVisit'
  BY <1>1 DEF IInv, RequestsFit, LinksAVisit, Fits
<1>8. RequestsBacked' /\ EvidenceHeld'
  BY <1>1, <1>2, <1>3 DEF IInv, RequestsBacked, Backed, EvidenceHeld, Agreed
<1>9. OneCompletion'
  <2>1. Completers' = Completers
    BY <1>1 DEF Completers
  <2>2. "status" \notin stale => Completers = {}
    BY <1>1 DEF IInv, OneCompletion
  <2>3. QED
    BY <1>1, <2>1, <2>2 DEF OneCompletion
<1>10. QED
  BY <1>6, <1>7, <1>8, <1>9 DEF IInv

LEMMA RowIsTyped ==
  ASSUME IInv
  PROVE  /\ row \in Row /\ row.version \in 1..MaxVersion /\ lines[row.version] \in Nat
         /\ row.net \in Nat /\ row.invoiced \in Nat
BY DEF IInv, TypeOK, Row

LEMMA StartLineHolds ==
  ASSUME IInv, NEW q \in People, NEW change \in {-1, 1}, StartLine(q, change) PROVE IInv'
<1> DEFINE sum == lines[row.version] + change
           J == [Idle EXCEPT !.at = "line", !.seen = row, !.amount = change, !.total = sum]
<1>1. sum \in 0..MaxTotal /\ Begin(q, J)
  BY DEF StartLine
<1>2. sum \in Nat /\ sum \in Int /\ change \in Int
  BY <1>1, JobsAssumption
<1> HIDE DEF sum
<1>3. J \in Job /\ J.at = "line" /\ J.total = sum
  BY <1>2, StartTypes, RowIsTyped DEF Job
<1> HIDE DEF J
<1>4. J \in Job /\ J.at = "line" /\ J.total \in Nat
  BY <1>2, <1>3
<1>5. Fits(J) /\ Backed(J, row)
  BY <1>4 DEF Fits, Backed
<1>6. QED
  BY <1>1, <1>4, <1>5, BeginHolds

LEMMA StartTransitionHolds ==
  ASSUME IInv, NEW q \in People, NEW to \in Stage, StartTransition(q, to) PROVE IInv'
<1>1. /\ to \in AllowedNext(row.status) /\ to # "invoiced" /\ Begin(q, Moving("transition", to))
      /\ to = "draft" => row.version < MaxVersion
  BY DEF StartTransition, StageGuards, CanTransition
<1>2. QED
  BY <1>1, MovingIs, BeginHolds

LEMMA StartSendHolds == ASSUME IInv, NEW q \in People, StartSend(q) PROVE IInv'
<1>1. "quoted" \in AllowedNext(row.status) /\ "quoted" \in Stage /\ Begin(q, Moving("send", "quoted"))
  BY DEF StartSend, StageGuards, CanTransition
<1>2. QED
  BY <1>1, MovingIs, BeginHolds

LEMMA StartScheduleHolds == ASSUME IInv, NEW q \in People, StartSchedule(q) PROVE IInv'
<1>1. "scheduled" \in AllowedNext(row.status) \/ row.status = "scheduled"
  BY DEF StartSchedule, CanTransition
<1>2. Begin(q, Moving("schedule", "scheduled")) /\ "scheduled" \in Stage
  BY DEF StartSchedule, Stage
<1>3. QED
  BY <1>1, <1>2, MovingIs, BeginHolds

LEMMA StartWorkHolds == ASSUME IInv, NEW q \in People, StartWork(q) PROVE IInv'
<1>1. "in_progress" \in AllowedNext(row.status) /\ Begin(q, Moving("start", "in_progress"))
      /\ "in_progress" \in Stage
  BY DEF StartWork, CanTransition, Stage
<1>2. QED
  BY <1>1, MovingIs, BeginHolds

LEMMA StartCompleteHolds == ASSUME IInv, NEW q \in People, StartComplete(q) PROVE IInv'
<1>1. "done" \in AllowedNext(row.status) /\ Begin(q, Moving("complete", "done")) /\ "done" \in Stage
  BY DEF StartComplete, CanTransition, Stage
<1>2. QED
  BY <1>1, MovingIs, BeginHolds

LEMMA SendOnHolds == ASSUME IInv, NEW q \in People, SendOn(q) PROVE IInv'
<1>1. UNCHANGED <<row, lines, issued, visits, left, event, stale, faults>>
  BY DEF SendOn
<1>2. RestTyped'
  BY <1>1, Rest DEF RestTyped
<1>3. CASE StageGuards("awaiting_approval")
  <2>1. "awaiting_approval" \in AllowedNext(row.status) /\ "awaiting_approval" \in Stage
        /\ Become(q, Moving("transition", "awaiting_approval"))
    BY <1>3 DEF SendOn, StageGuards, CanTransition
  <2>2. QED
    BY <1>1, <1>2, <2>1, MovingIs, SideStep
<1>4. CASE ~StageGuards("awaiting_approval")
  <2>1. Become(q, Idle) /\ Idle.at = "idle"
    BY <1>4 DEF SendOn, Idle
  <2>2. QED
    BY <1>1, <1>2, <2>1, StartTypes, Ends
<1>5. QED
  BY <1>3, <1>4

LEMMA LineGoneHolds == ASSUME IInv, NEW q \in People, LineGone(q) PROVE IInv'
<1>1. UNCHANGED <<row, lines, issued, visits, left, event, stale, faults>> /\ Become(q, Idle)
      /\ Idle.at = "idle"
  BY DEF LineGone, Idle
<1>2. RestTyped'
  BY <1>1, Rest DEF RestTyped
<1>3. QED
  BY <1>1, <1>2, StartTypes, Ends

Columns == {"status", "version", "net", "invoiced"}

LEMMA OvertakenType ==
  ASSUME IInv, NEW q, NEW columns \in SUBSET Columns, Overtaken(q, columns)
  PROVE  stale \subseteq stale' /\ stale' \subseteq Columns
BY DEF Overtaken, Columns, IInv, TypeOK

LEMMA CommitLineHolds == ASSUME IInv, NEW q \in People, CommitLine(q) PROVE IInv'
<1> DEFINE j == job[q]
           v == j.seen.version
<1>1. j \in Job /\ j.total \in Nat /\ j.amount \in Int /\ v \in 1..MaxVersion
  BY DEF CommitLine, IInv, TypeOK, RequestsFit, Fits, Job, Row
<1>2. /\ lines[v] + j.amount >= 0 /\ lines' = [lines EXCEPT ![v] = lines[v] + j.amount]
      /\ row' = [row EXCEPT !.net = j.total] /\ Overtaken(q, {"net", "version", "status"})
      /\ Become(q, Idle) /\ UNCHANGED <<issued, visits, left, event, faults>>
  BY DEF CommitLine
<1> HIDE DEF j, v
<1>3. lines' \in [1..MaxVersion -> Nat]
  <2>1. lines \in [1..MaxVersion -> Nat]
    BY DEF IInv, TypeOK
  <2>2. lines[v] + j.amount \in Nat
    BY <1>1, <1>2, <2>1
  <2>3. QED
    BY <1>2, <2>1, <2>2
<1>4. row' \in Row /\ row'.status = row.status /\ row'.evidence = row.evidence /\ row'.visit = row.visit
  BY <1>1, <1>2, RowIsTyped DEF Row
<1>5. stale \subseteq stale' /\ stale' \subseteq Columns
  BY <1>2, OvertakenType DEF Columns
<1>6. RestTyped'
  BY <1>2, <1>3, <1>4, <1>5, Rest DEF RestTyped, Columns
<1>7. Idle.at = "idle"
  BY DEF Idle
<1>8. QED
  BY <1>2, <1>4, <1>5, <1>6, <1>7, StartTypes, Ends
\* A stage is written: evidence comes with the approval and stays.
LEMMA CommitStageHolds == ASSUME IInv, NEW q \in People, CommitStage(q) PROVE IInv'
<1> DEFINE j == job[q]
           J == [Idle EXCEPT !.at = IF j.op = "complete" THEN "visit" ELSE "publish",
                             !.op = j.op, !.to = j.to]
           version == IF j.to = "draft" THEN j.seen.version + 1 ELSE row.version
           evidence == row.evidence \/ NeedsEvidence(j.to)
           scheduled == row.scheduled \/ j.op = "schedule"
<1>1. /\ j \in Job /\ Fits(j) /\ Backed(j, row) /\ j.at = "stage"
      /\ j.total \in Nat /\ j.to \in Stage \ {"invoiced"} /\ j.seen.version \in 1..MaxVersion
      /\ j.to = "draft" => j.seen.version < MaxVersion
      /\ j.op = "complete" => j.to = "done"
      /\ j.to \in AllowedNext(j.seen.status) \/ (j.to = "scheduled" /\ j.seen.status = "scheduled")
  BY DEF CommitStage, IInv, TypeOK, RequestsFit, RequestsBacked, Fits, Job, Row
<1>2. /\ row' = [row EXCEPT !.status = j.to, !.evidence = evidence, !.scheduled = scheduled,
                            !.version = version]
      /\ lines' = IF j.to = "draft" THEN CopyLines(j) ELSE lines
      /\ Become(q, J) /\ UNCHANGED <<issued, visits, left, faults>> /\ event' \in EventStates
  BY DEF CommitStage, Due, EventStates
<1>3. stale \subseteq stale' /\ stale' \subseteq Columns
      /\ ("status" \notin stale' => row.status = j.seen.status)
  <2> DEFINE columns == {"status", "version"} \cup (IF j.to = "draft" THEN {"net"} ELSE {})
  <2>1. Overtaken(q, columns) /\ columns \in SUBSET Columns
    BY DEF CommitStage, Columns
  <2>2. "status" \in columns
    OBVIOUS
  <2> HIDE DEF columns
  <2>3. "status" \notin stale' => row["status"] = j.seen["status"]
    BY <2>1, <2>2 DEF Overtaken
  <2>4. QED
    BY <2>1, <2>3, OvertakenType
<1>4. /\ J \in Job /\ J.at = IF j.op = "complete" THEN "visit" ELSE "publish"
      /\ J.at \notin {"line", "stage", "issue", "record", "link"}
  BY <1>1, StartTypes DEF Job
<1>5. version \in 1..MaxVersion
  BY <1>1, RowIsTyped, JobsAssumption
<1>6. evidence \in BOOLEAN /\ scheduled \in BOOLEAN
  BY RowIsTyped DEF Row, NeedsEvidence
<1>7. j.to \in Agreed => evidence
  BY <1>1 DEF Backed, NeedsEvidence
<1>8. row.evidence => evidence
  OBVIOUS
<1>9. lines' \in [1..MaxVersion -> Nat]
  <2>1. lines \in [1..MaxVersion -> Nat]
    BY DEF IInv, TypeOK
  <2>2. CASE j.to = "draft"
    <3>1. j.seen.version + 1 \in 1..MaxVersion
      BY <1>1, <2>2, JobsAssumption
    <3>2. lines[j.seen.version + 1] + j.total \in Nat
      BY <1>1, <2>1, <3>1
    <3>3. QED
      BY <1>2, <2>1, <2>2, <3>2 DEF CopyLines
  <2>3. QED
    BY <1>2, <2>1, <2>2
<1> HIDE DEF j, J, version, evidence, scheduled
<1>10. /\ row' \in Row /\ row'.status = j.to /\ row'.evidence = evidence /\ row'.visit = row.visit
  <2>1. j.to \in Stage
    BY <1>1
  <2>2. QED
    BY <1>2, <1>5, <1>6, <2>1, RowIsTyped DEF Row
<1>11. RestTyped'
  BY <1>2, <1>3, <1>9, <1>10, Rest DEF RestTyped, Columns
<1>12. Fits(J) /\ Backed(J, row')
  BY <1>4 DEF Fits, Backed
<1>13. OneCompletion'
  <2>1. job' = [job EXCEPT ![q] = J] /\ job \in [People -> Job]
    BY <1>2 DEF Become, IInv, TypeOK
  <2>2. Completers' \subseteq Completers \cup {q} /\ (j.op # "complete" => Completers' \subseteq Completers)
    BY <1>2, <1>4, <2>1 DEF Completers
  <2> SUFFICES ASSUME "status" \notin stale'
               PROVE  /\ \A u, r \in Completers' : u = r
                      /\ Completers' # {} => row'.status \in {"done", "invoiced"}
    BY DEF OneCompletion
  <2>3. row.status = j.seen.status /\ "status" \notin stale
    BY <1>3
  <2>4. CASE j.op = "complete"
    <3>1. j.to = "done" /\ row.status \notin {"done", "invoiced"}
      BY <1>1, <2>3, <2>4, AgreedComesFrom
    <3>2. Completers = {}
      BY <2>3, <3>1 DEF IInv, OneCompletion
    <3>3. QED
      BY <1>10, <2>2, <3>1, <3>2
  <2>5. CASE j.op # "complete"
    <3>1. row.status \notin {"done", "invoiced"}
      BY <1>1, <2>3, AgreedComesFrom
    <3>2. Completers = {}
      BY <2>3, <3>1 DEF IInv, OneCompletion
    <3>3. QED
      BY <2>2, <2>5, <3>2
  <2>6. QED
    BY <2>4, <2>5
<1>14. row'.status # "none"
  BY <1>1, <1>10 DEF Stage
<1>15. QED
  BY <1>2, <1>4, <1>7, <1>8, <1>10, <1>11, <1>12, <1>13, <1>14, JobStep

LEMMA RecordVisitHolds == ASSUME IInv, NEW q \in People, RecordVisit(q) PROVE IInv'
<1> DEFINE L == [job[q] EXCEPT !.at = "link"]
           P == [job[q] EXCEPT !.at = "publish"]
<1>1. job[q] \in Job /\ job[q].at = "visit"
      /\ UNCHANGED <<row, lines, issued, left, event, stale, faults>>
  BY DEF RecordVisit, IInv, TypeOK
<1>2. \/ visits' = visits \cup {q} /\ Become(q, L)
      \/ visits' = visits /\ Become(q, P)
  BY DEF RecordVisit
<1>3. L \in Job /\ L.at = "link" /\ P \in Job /\ P.at = "publish"
  BY <1>1 DEF Job
<1> HIDE DEF L, P
<1>4. RestTyped'
  BY <1>1, <1>2, Rest DEF RestTyped
<1>5. q \in Completers
  BY <1>1 DEF Completers
<1>6. CASE visits' = visits \cup {q} /\ Become(q, L)
  <2>1. job' = [job EXCEPT ![q] = L] /\ job \in [People -> Job]
    BY <1>6 DEF Become, IInv, TypeOK
  <2>2. Completers' \subseteq Completers
    BY <1>3, <1>5, <1>6, <2>1 DEF Completers
  <2>3. OneCompletion'
    BY <1>1, <2>2 DEF IInv, OneCompletion
  <2>4. Fits(L) /\ Backed(L, row')
    BY <1>3 DEF Fits, Backed
  <2>5. QED
    BY <1>1, <1>3, <1>4, <1>6, <2>3, <2>4, JobStep DEF IInv, RequestsBacked, EvidenceHeld
<1>7. CASE visits' = visits /\ Become(q, P)
  BY <1>1, <1>3, <1>4, <1>7, Ends
<1>8. QED
  BY <1>2, <1>6, <1>7

LEMMA LinkVisitHolds == ASSUME IInv, NEW q \in People, LinkVisit(q) PROVE IInv'
<1> DEFINE L == [job[q] EXCEPT !.at = "publish", !.to = row.status]
           P == [job[q] EXCEPT !.at = "publish"]
<1>1. job[q] \in Job /\ job[q].at = "link" /\ (Become(q, L) \/ Become(q, P))
      /\ (row' = [row EXCEPT !.visit = TRUE] \/ row' = row)
      /\ UNCHANGED <<lines, issued, visits, left, event, stale, faults>>
  BY DEF LinkVisit, IInv, TypeOK
<1>2. row.status \in Stage \cup {"none"}
  BY RowIsTyped DEF Row
<1>3. L \in Job /\ L.at = "publish" /\ P \in Job /\ P.at = "publish"
  BY <1>1, <1>2 DEF Job
<1> HIDE DEF L, P
<1>4. row' \in Row /\ row'.status = row.status /\ row'.evidence = row.evidence
  BY <1>1, RowIsTyped DEF Row
<1>5. RestTyped'
  BY <1>1, <1>4, Rest DEF RestTyped, IInv, LinksAVisit
<1>6. QED
  BY <1>1, <1>3, <1>4, <1>5, Ends

LEMMA PublishHolds == ASSUME IInv, NEW q \in People, Publish(q) PROVE IInv'
<1> DEFINE S == [Idle EXCEPT !.at = "send"]
<1>1. (Become(q, S) \/ Become(q, Idle)) /\ event' \in EventStates
      /\ UNCHANGED <<row, lines, issued, visits, left, stale, faults>>
  BY Rest DEF Publish, RestTyped, EventStates
<1>2. S \in Job /\ S.at = "send" /\ Idle \in Job /\ Idle.at = "idle"
  BY StartTypes DEF Job, Idle
<1> HIDE DEF S
<1>3. RestTyped'
  BY <1>1, Rest DEF RestTyped
<1>4. QED
  BY <1>1, <1>2, <1>3, Ends
LEMMA RemainingType == IInv => Remaining \in Nat
<1> SUFFICES ASSUME IInv PROVE Remaining \in Nat
  OBVIOUS
<1>1. row.net \in Nat /\ row.invoiced \in Nat
  BY RowIsTyped
<1>2. QED
  BY <1>1 DEF Remaining

LEMMA InvoicingIs ==
  ASSUME row \in Row, NEW op \in {"partial", "full"}, NEW amount \in Int, NEW total \in Int
  PROVE  LET J == Invoicing(op, amount, total)
         IN J \in Job /\ J.at = "issue" /\ J.amount = amount
BY DEF Invoicing, Job

LEMMA StartPartialHolds ==
  ASSUME IInv, NEW q \in People, NEW amount \in 1..MaxTotal, StartPartial(q, amount) PROVE IInv'
<1> DEFINE J == Invoicing("partial", amount, amount)
<1>1. row.status \in Agreed /\ Begin(q, J) /\ amount \in Nat
  BY JobsAssumption DEF StartPartial, Agreed
<1>2. J \in Job /\ J.at = "issue" /\ J.amount = amount
  <2>1. row \in Row /\ amount \in Int
    BY <1>1, RowIsTyped
  <2>2. QED
    BY <2>1, InvoicingIs
<1> HIDE DEF J
<1>3. Fits(J) /\ Backed(J, row)
  BY <1>1, <1>2 DEF Fits, Backed, IInv, EvidenceHeld
<1>4. QED
  BY <1>1, <1>2, <1>3, BeginHolds

LEMMA StartFullHolds == ASSUME IInv, NEW q \in People, StartFull(q) PROVE IInv'
<1> DEFINE total == lines[row.version] - row.invoiced
           J == Invoicing("full", Remaining, total)
<1>1. "invoiced" \in AllowedNext(row.status) /\ Begin(q, J)
  BY DEF StartFull, CanTransition
<1>2. total \in Int /\ Remaining \in Nat /\ row.evidence
  BY <1>1, RowIsTyped, RemainingType, AgreedComesFrom DEF IInv, EvidenceHeld, Agreed
<1> HIDE DEF total
<1>3. J \in Job /\ J.at = "issue" /\ J.amount = Remaining
  <2>1. row \in Row /\ Remaining \in Int
    BY <1>2, RowIsTyped
  <2>2. QED
    BY <1>2, <2>1, InvoicingIs
<1> HIDE DEF J
<1>4. Fits(J) /\ Backed(J, row)
  BY <1>2, <1>3 DEF Fits, Backed
<1>5. QED
  BY <1>1, <1>3, <1>4, BeginHolds

LEMMA IssueHolds == ASSUME IInv, NEW q \in People, Issue(q) PROVE IInv'
<1> DEFINE R == [job[q] EXCEPT !.at = "record"]
<1>1. job[q] \in Job /\ job[q].at = "issue" /\ issued' = issued + job[q].total /\ Become(q, R)
      /\ UNCHANGED <<row, lines, visits, left, event, stale, faults>>
      /\ Fits(job[q]) /\ Backed(job[q], row)
  BY DEF Issue, IInv, TypeOK, RequestsFit, RequestsBacked
<1>2. R \in Job /\ R.at = "record" /\ R.amount = job[q].amount
  BY <1>1 DEF Job
<1> HIDE DEF R
<1>3. Fits(R) /\ Backed(R, row)
  BY <1>1, <1>2 DEF Fits, Backed
<1>4. issued' \in Int
  BY <1>1 DEF IInv, TypeOK, Job
<1>5. RestTyped'
  BY <1>1, <1>4, Rest DEF RestTyped
<1>6. QED
  BY <1>1, <1>2, <1>3, <1>5, SideStep

LEMMA RecordInvoiceHolds == ASSUME IInv, NEW q \in People, RecordInvoice(q) PROVE IInv'
<1> DEFINE j == job[q]
           sum == j.seen.invoiced + j.amount
           P == [Idle EXCEPT !.at = "publish", !.to = "invoiced"]
<1>1. j \in Job /\ Fits(j) /\ row.evidence /\ sum \in Nat
  BY DEF RecordInvoice, IInv, TypeOK, RequestsFit, RequestsBacked, Backed, Fits, Job, Row
<1>2. /\ row' = [row EXCEPT !.invoiced = sum, !.status = IF Covers(j) THEN "invoiced" ELSE row.status]
      /\ Become(q, P) \/ Become(q, Idle)
      /\ UNCHANGED <<lines, issued, visits, left, faults>> /\ event' \in EventStates
  BY Rest DEF RecordInvoice, RestTyped, EventStates
<1>3. stale \subseteq stale' /\ stale' \subseteq Columns
  <2> DEFINE columns == {"invoiced"} \cup (IF Covers(j) THEN {"status"} ELSE {})
  <2>1. Overtaken(q, columns) /\ columns \in SUBSET Columns
    BY DEF RecordInvoice, Columns
  <2> HIDE DEF columns
  <2>2. QED
    BY <2>1, OvertakenType
<1>4. P \in Job /\ P.at = "publish" /\ Idle \in Job /\ Idle.at = "idle"
  BY StartTypes DEF Job, Stage, Idle
<1> HIDE DEF j, sum, P
<1>5. /\ row' \in Row /\ row'.evidence = row.evidence /\ row'.visit = row.visit
      /\ row'.status \in {"invoiced", row.status}
  <2> DEFINE status == IF Covers(j) THEN "invoiced" ELSE row.status
  <2>1. status \in Stage \cup {"none"} /\ status \in {"invoiced", row.status}
    BY RowIsTyped DEF Row, Stage
  <2>2. row' = [row EXCEPT !.invoiced = sum, !.status = status]
    BY <1>2
  <2> HIDE DEF status
  <2>3. QED
    BY <1>1, <2>1, <2>2, RowIsTyped DEF Row
<1>6. RestTyped'
  BY <1>2, <1>3, <1>5, Rest DEF RestTyped, Columns
<1>7. ASSUME NEW J \in Job, J.at \in {"idle", "publish"}, Become(q, J) PROVE IInv'
  <2>1. job' = [job EXCEPT ![q] = J] /\ job \in [People -> Job]
    BY <1>7 DEF Become, IInv, TypeOK
  <2>2. Completers' \subseteq Completers
    BY <1>2, <1>7, <2>1 DEF Completers
  <2>3. OneCompletion'
    BY <1>3, <1>5, <2>2 DEF IInv, OneCompletion
  <2>4. Fits(J) /\ Backed(J, row')
    BY <1>7 DEF Fits, Backed
  <2>5. row'.evidence /\ row'.status # "none"
    BY <1>1, <1>5 DEF IInv, RequestsBacked
  <2>6. QED
    BY <1>2, <1>6, <1>7, <2>3, <2>4, <2>5, JobStep
<1>8. QED
  BY <1>2, <1>4, <1>7

LEMMA RestartHolds == ASSUME IInv, Restart PROVE IInv'
<1>1. job' = [q \in People |-> Idle] /\ faults > 0 /\ faults' = faults - 1
      /\ UNCHANGED <<row, lines, issued, visits, left, stale>> /\ event' \in EventStates
  BY Rest DEF Restart, RestTyped, EventStates
<1>2. faults' \in 0..MaxFaults
  BY <1>1, JobsAssumption DEF IInv, TypeOK
<1>3. TypeOK'
  BY <1>1, <1>2, StartTypes DEF IInv, TypeOK, EventStates
<1>4. \A q \in People : job'[q] = Idle
  BY <1>1
<1>5. Idle.at = "idle"
  BY DEF Idle
<1>6. RequestsFit' /\ LinksAVisit'
  BY <1>4, <1>5, StartTypes DEF RequestsFit, Fits, LinksAVisit
<1>7. RequestsBacked' /\ EvidenceHeld'
  BY <1>1, <1>4, <1>5 DEF IInv, RequestsBacked, Backed, EvidenceHeld
<1>8. OneCompletion'
  <2>1. Completers' \subseteq Completers
    BY <1>1, <1>4, <1>5 DEF Completers
  <2>2. QED
    BY <1>1, <2>1 DEF IInv, OneCompletion
<1>9. QED
  BY <1>3, <1>6, <1>7, <1>8 DEF IInv

-----------------------------------------------------------------------------
LEMMA RequestHolds == ASSUME IInv, NEW q \in People, Request(q) PROVE IInv'
<1>1. ASSUME NEW total \in 0..MaxTotal, Create(q, total) PROVE IInv'
  BY <1>1, CreateHolds
<1>2. ASSUME NEW change \in {-1, 1}, StartLine(q, change) PROVE IInv'
  BY <1>2, StartLineHolds
<1>3. ASSUME NEW to \in Stage, StartTransition(q, to) PROVE IInv'
  BY <1>3, StartTransitionHolds
<1>4. ASSUME NEW amount \in 1..MaxTotal, StartPartial(q, amount) PROVE IInv'
  BY <1>4, StartPartialHolds
<1>5. QED
  BY <1>1, <1>2, <1>3, <1>4, StartSendHolds, StartScheduleHolds, StartFullHolds DEF Request

LEMMA NextHolds == IInv /\ [Next]_vars => IInv'
<1> SUFFICES ASSUME IInv, [Next]_vars PROVE IInv'
  OBVIOUS
<1>1. ASSUME NEW q \in People, StartWork(q) \/ StartComplete(q) \/ Step(q) PROVE IInv'
  BY <1>1, StartWorkHolds, StartCompleteHolds, LineGoneHolds, CommitLineHolds, CommitStageHolds,
     SendOnHolds, RecordVisitHolds, LinkVisitHolds, PublishHolds, IssueHolds, RecordInvoiceHolds
     DEF Step
<1>2. CASE UNCHANGED vars
  BY <1>2 DEF vars, IInv, TypeOK, RequestsFit, Fits, LinksAVisit, RequestsBacked, Backed,
              EvidenceHeld, OneCompletion, Completers
<1>3. QED
  BY <1>1, <1>2, RequestHolds, RestartHolds DEF Next, People

\* Every reachable state is well typed.
THEOREM TypeCorrect == Spec => []TypeOK
<1>1. IInv => TypeOK
  BY DEF IInv
<1>2. QED
  BY <1>1, InitHolds, NextHolds, PTL DEF Spec

\* No interleaving of requests leads to planned, done or billed work without
\* the evidence of an approval.
THEOREM AlwaysUnderApproval == Spec => []EvidenceHeld
<1>1. IInv => EvidenceHeld
  BY DEF IInv
<1>2. QED
  BY <1>1, InitHolds, NextHolds, PTL DEF Spec

\* A job has a second visit only if two requests that move its stage overlapped.
THEOREM CompletedOnce == Spec => []OneVisit
<1>1. IInv => OneVisit
  <2> SUFFICES ASSUME IInv, "status" \notin stale PROVE Cardinality(visits) <= 1
    BY DEF OneVisit
  <2>1. \A q, r \in visits : q = r
    BY DEF IInv, OneCompletion, Completers
  <2>2. CASE visits = {}
    BY <2>2, FS_EmptySet
  <2>3. CASE visits # {}
    <3>1. PICK q \in visits : visits = {q}
      BY <2>1, <2>3
    <3>2. QED
      BY <3>1, FS_Singleton
  <2>4. QED
    BY <2>2, <2>3
<1>2. QED
  BY <1>1, InitHolds, NextHolds, PTL DEF Spec

-----------------------------------------------------------------------------
(* What the customer is billed *)

\* Nobody was overtaken and the server has not stopped.
Clean == stale = {} /\ faults = MaxFaults

\* From the approval onwards no line changes any more.
Committed == {"approved", "scheduled", "in_progress", "done", "invoiced", "cancelled"}

\* The sums a request carries are those of the quote it has read.
Carries(J) ==
  /\ J.at = "line" => Editable(J.seen.status) /\ J.total = J.seen.net + J.amount
  /\ J.at = "stage" => J.total = J.seen.net
\* An invoice asks for a part of what remained when it was begun, or all of it.
Asks(J, r) ==
  J.at \in {"issue", "record"} =>
    /\ J.amount >= 1 /\ J.amount <= J.seen.net - J.seen.invoiced /\ J.total = J.amount
    /\ J.seen.net = r.net /\ J.seen.invoiced <= r.invoiced
    /\ J.op = "full" => J.amount = J.seen.net - J.seen.invoiced

BillsAlone ==
  /\ \A p, q \in Billing : p = q
  /\ \A q \in Billing : job[q].seen.invoiced = row.invoiced

\* The job carries the sum of its lines, invoices come after the approval and
\* never exceed it, and billing has issued what the job records and the invoice
\* that is about to be recorded.
Quoted ==
  /\ row.net = lines[row.version]
  /\ \A v \in 1..MaxVersion : v > row.version => lines[v] = 0
  /\ row.status = "none" => row.version = 1
  /\ \A q \in People : Carries(job[q]) /\ Asks(job[q], row)
  /\ row.invoiced > 0 \/ Billing # {} => row.status \in Committed
  /\ row.invoiced <= row.net
  /\ row.status = "invoiced" => row.invoiced = row.net
  /\ BillsAlone =>
       /\ \A q \in People : job[q].at = "record" => issued = row.invoiced + job[q].amount
       /\ (\A q \in People : job[q].at # "record") => issued = row.invoiced

\* A request moves on beside the quote and the invoices, or begins an invoice.
LEMMA SideQuoted ==
  ASSUME IInv, Quoted, NEW q \in People, NEW J \in Job, Become(q, J), UNCHANGED <<lines, issued>>,
         row'.net = row.net, row'.version = row.version, row'.status = row.status,
         row'.invoiced = row.invoiced,
         job[q].at \notin {"issue", "record"}, J.at # "record", Carries(J), Asks(J, row),
         J.at = "issue" => row.status \in Committed
  PROVE  Quoted'
<1>1. job' = [job EXCEPT ![q] = J] /\ job \in [People -> Job]
  BY DEF Become, IInv, TypeOK
<1>2. job'[q] = J /\ \A p \in People \ {q} : job'[p] = job[p]
  BY <1>1
<1>3. \A p \in People : Carries(job'[p]) /\ Asks(job'[p], row')
  <2> SUFFICES ASSUME NEW p \in People PROVE Carries(job'[p]) /\ Asks(job'[p], row')
    OBVIOUS
  <2>1. CASE p = q
    BY <1>2, <2>1 DEF Asks
  <2>2. CASE p # q
    BY <1>2, <2>2 DEF Quoted, Asks
  <2>3. QED
    BY <2>1, <2>2
<1>4. Billing \subseteq Billing' /\ (J.at # "issue" => Billing' = Billing)
  BY <1>2 DEF Billing
<1>5. row'.invoiced > 0 \/ Billing' # {} => row'.status \in Committed
  BY <1>4 DEF Quoted
<1>6. BillsAlone' => BillsAlone
  <2> SUFFICES ASSUME BillsAlone' PROVE BillsAlone
    OBVIOUS
  <2>1. \A p \in Billing : p # q /\ p \in People
    BY DEF Billing
  <2>2. QED
    BY <1>2, <1>4, <2>1 DEF BillsAlone
<1>7. \A p \in People : (job'[p].at = "record" <=> job[p].at = "record")
                        /\ (job[p].at = "record" => job'[p] = job[p])
  BY <1>2
<1>8. BillsAlone' =>
        /\ \A p \in People : job'[p].at = "record" => issued' = row'.invoiced + job'[p].amount
        /\ (\A p \in People : job'[p].at # "record") => issued' = row'.invoiced
  BY <1>6, <1>7 DEF Quoted
<1>9. /\ row'.net = lines'[row'.version]
      /\ \A v \in 1..MaxVersion : v > row'.version => lines'[v] = 0
      /\ row'.status = "none" => row'.version = 1
      /\ row'.invoiced <= row'.net
      /\ row'.status = "invoiced" => row'.invoiced = row'.net
  BY DEF Quoted
<1>10. QED
  BY <1>3, <1>5, <1>8, <1>9 DEF Quoted

\* ... beginning with a fresh request.
LEMMA BeginQuoted ==
  ASSUME IInv, Quoted, NEW q \in People, NEW J \in Job, Begin(q, J),
         J.at # "record", Carries(J), Asks(J, row), J.at = "issue" => row.status \in Committed
  PROVE  Quoted'
BY SideQuoted DEF Begin

LEMMA MovingCarries ==
  ASSUME IInv, Quoted, NEW op, NEW to
  PROVE  Carries(Moving(op, to)) /\ Asks(Moving(op, to), row)
<1>1. /\ Moving(op, to).at = "stage" /\ Moving(op, to).seen = row
      /\ Moving(op, to).total = lines[row.version]
  BY DEF Moving, Idle
<1>2. QED
  BY <1>1 DEF Carries, Asks, Quoted

LEMMA IdleCarries == Carries(Idle) /\ \A r : Asks(Idle, r)
BY DEF Idle, Carries, Asks

LEMMA StartLineQuoted ==
  ASSUME IInv, Quoted, NEW q \in People, NEW change \in {-1, 1}, StartLine(q, change) PROVE Quoted'
<1> DEFINE sum == lines[row.version] + change
           J == [Idle EXCEPT !.at = "line", !.seen = row, !.amount = change, !.total = sum]
<1>1. Begin(q, J) /\ Editable(row.status)
  BY DEF StartLine
<1>2. sum \in Int /\ change \in Int /\ sum = row.net + change
  BY RowIsTyped DEF Quoted
<1> HIDE DEF sum
<1>3. J \in Job /\ J.at = "line" /\ J.total = sum /\ J.amount = change /\ J.seen = row
  BY <1>2, StartTypes, RowIsTyped DEF Job
<1> HIDE DEF J
<1>4. Carries(J) /\ Asks(J, row)
  BY <1>1, <1>2, <1>3 DEF Carries, Asks
<1>5. QED
  BY <1>1, <1>3, <1>4, BeginQuoted

\* The stages that are begun.
LEMMA StartStageQuoted ==
  ASSUME IInv, Quoted, NEW q \in People,
         \/ \E to \in Stage : StartTransition(q, to)
         \/ StartSend(q) \/ StartSchedule(q) \/ StartWork(q) \/ StartComplete(q)
  PROVE  Quoted'
<1>1. PICK op \in {"transition", "send", "schedule", "start", "complete"}, to \in Stage \ {"invoiced"} :
        /\ Begin(q, Moving(op, to))
        /\ to \in AllowedNext(row.status) \/ (to = "scheduled" /\ row.status = "scheduled")
        /\ to = "draft" => row.version < MaxVersion
        /\ op = "complete" => to = "done"
  <2>1. ASSUME NEW to \in Stage, StartTransition(q, to)
        PROVE  /\ Begin(q, Moving("transition", to)) /\ to \in Stage \ {"invoiced"}
               /\ to \in AllowedNext(row.status) /\ (to = "draft" => row.version < MaxVersion)
    BY <2>1 DEF StartTransition, StageGuards, CanTransition
  <2>2. StartSend(q) => Begin(q, Moving("send", "quoted")) /\ "quoted" \in AllowedNext(row.status)
    BY DEF StartSend, StageGuards, CanTransition
  <2>3. StartSchedule(q) =>
          /\ Begin(q, Moving("schedule", "scheduled"))
          /\ "scheduled" \in AllowedNext(row.status) \/ row.status = "scheduled"
    BY DEF StartSchedule, CanTransition
  <2>4. StartWork(q) =>
          Begin(q, Moving("start", "in_progress")) /\ "in_progress" \in AllowedNext(row.status)
    BY DEF StartWork, CanTransition
  <2>5. StartComplete(q) => Begin(q, Moving("complete", "done")) /\ "done" \in AllowedNext(row.status)
    BY DEF StartComplete, CanTransition
  <2>6. {"quoted", "scheduled", "in_progress", "done"} \subseteq Stage \ {"invoiced"}
    BY DEF Stage
  <2>7. QED
    BY <2>1, <2>2, <2>3, <2>4, <2>5, <2>6
<1>2. Moving(op, to) \in Job /\ Moving(op, to).at = "stage"
  BY <1>1, MovingIs
<1>3. QED
  BY <1>1, <1>2, MovingCarries, BeginQuoted

\* The small steps of a request that neither writes the quote nor bills it.
LEMMA SmallQuoted ==
  ASSUME IInv, Quoted, NEW q \in People,
         LineGone(q) \/ SendOn(q) \/ RecordVisit(q) \/ LinkVisit(q) \/ Publish(q)
  PROVE  Quoted'
<1>1. /\ UNCHANGED <<lines, issued>> /\ job[q].at \notin {"issue", "record"}
      /\ row'.net = row.net /\ row'.version = row.version /\ row'.status = row.status
      /\ row'.invoiced = row.invoiced
  BY RowIsTyped DEF LineGone, SendOn, RecordVisit, LinkVisit, Publish, Row
<1>2. job[q] \in Job
  BY DEF IInv, TypeOK
<1>3. PICK J \in Job : Become(q, J) /\ (\/ J.at \in {"idle", "link", "publish", "send"}
                                        \/ \E op, to : J = Moving(op, to) /\ J.at = "stage")
  <2>1. CASE LineGone(q)
    BY <2>1, StartTypes DEF LineGone, Idle
  <2>2. CASE SendOn(q)
    <3>1. CASE StageGuards("awaiting_approval")
      <4>1. "awaiting_approval" \in AllowedNext(row.status) /\ "awaiting_approval" \in Stage \ {"invoiced"}
            /\ Become(q, Moving("transition", "awaiting_approval"))
        BY <2>2, <3>1 DEF SendOn, StageGuards, CanTransition
      <4>2. QED
        BY <4>1, MovingIs
    <3>2. CASE ~StageGuards("awaiting_approval")
      BY <2>2, <3>2, StartTypes DEF SendOn, Idle
    <3>3. QED
      BY <3>1, <3>2
  <2>3. CASE RecordVisit(q) \/ LinkVisit(q)
    <3> DEFINE L == [job[q] EXCEPT !.at = "link"]
               P == [job[q] EXCEPT !.at = "publish"]
               M == [job[q] EXCEPT !.at = "publish", !.to = row.status]
    <3>1. Become(q, L) \/ Become(q, P) \/ Become(q, M)
      BY <2>3 DEF RecordVisit, LinkVisit
    <3>2. row.status \in Stage \cup {"none"}
      BY RowIsTyped DEF Row
    <3>3. L \in Job /\ L.at = "link" /\ P \in Job /\ P.at = "publish" /\ M \in Job /\ M.at = "publish"
      BY <1>2, <3>2 DEF Job
    <3> HIDE DEF L, P, M
    <3>4. QED
      BY <3>1, <3>3
  <2>4. CASE Publish(q)
    <3> DEFINE S == [Idle EXCEPT !.at = "send"]
    <3>1. Become(q, S) \/ Become(q, Idle)
      BY <2>4 DEF Publish
    <3>2. S \in Job /\ S.at = "send" /\ Idle \in Job /\ Idle.at = "idle"
      BY StartTypes DEF Job, Idle
    <3> HIDE DEF S
    <3>3. QED
      BY <3>1, <3>2
  <2>5. QED
    BY <2>1, <2>2, <2>3, <2>4
<1>4. Carries(J) /\ Asks(J, row) /\ J.at \notin {"issue", "record"}
  BY <1>3, MovingCarries DEF Carries, Asks
<1>5. QED
  BY <1>1, <1>3, <1>4, SideQuoted

LEMMA CreateQuoted ==
  ASSUME IInv, Quoted, NEW q \in People, NEW total \in 0..MaxTotal, Create(q, total) PROVE Quoted'
<1>1. /\ row.status = "none" /\ row' = [NoJob EXCEPT !.status = "draft", !.net = total]
      /\ lines' = [lines EXCEPT ![1] = total] /\ UNCHANGED <<issued, job>>
  BY DEF Create
<1>2. /\ row'.status = "draft" /\ row'.net = total /\ row'.version = 1 /\ row'.invoiced = 0
  BY <1>1 DEF NoJob
<1>3. row.version = 1 /\ Billing = {} /\ ~ (row.invoiced > 0) /\ row.invoiced \in Nat
  BY <1>1, RowIsTyped DEF Quoted, Committed
<1>4. lines \in [1..MaxVersion -> Nat] /\ 1 \in 1..MaxVersion
  BY JobsAssumption DEF IInv, TypeOK
<1>5. lines'[1] = total /\ \A v \in 1..MaxVersion : v > 1 => lines'[v] = 0
  BY <1>1, <1>3, <1>4 DEF Quoted
<1>6. Billing' = {} /\ BillsAlone
  BY <1>1, <1>3 DEF Billing, BillsAlone
<1>7. \A p \in People : Carries(job'[p]) /\ Asks(job'[p], row') /\ job'[p].at # "record"
  BY <1>1, <1>3 DEF Quoted, Asks, Billing
<1>8. issued' = row'.invoiced
  BY <1>1, <1>2, <1>3, <1>6, <1>7 DEF Quoted
<1>9. total >= 0
  BY JobsAssumption
<1>10. QED
  BY <1>2, <1>5, <1>6, <1>7, <1>8, <1>9 DEF Quoted

\* What a request that overtook nobody has read is still there.
LEMMA NotOvertaken ==
  ASSUME NEW q, NEW columns, Overtaken(q, columns), stale' = {}
  PROVE  \A c \in columns : row[c] = job[q].seen[c]
BY DEF Overtaken

\* A line is only written while the job can still be edited: before any invoice.
LEMMA CommitLineQuoted ==
  ASSUME IInv, Quoted, NEW q \in People, CommitLine(q), stale' = {} PROVE Quoted'
<1> DEFINE j == job[q]
           v == row.version
<1>1. /\ j \in Job /\ j.at = "line" /\ j.total \in Nat /\ Editable(j.seen.status)
      /\ j.total = j.seen.net + j.amount /\ j.amount \in Int
  BY DEF CommitLine, IInv, TypeOK, RequestsFit, Fits, Job, Quoted, Carries
<1>2. row["net"] = j.seen["net"] /\ row["version"] = j.seen["version"] /\ row["status"] = j.seen["status"]
  <2> DEFINE columns == {"net", "version", "status"}
  <2>1. \A c \in columns : row[c] = job[q].seen[c]
    BY NotOvertaken DEF CommitLine
  <2>2. QED
    BY <2>1
<1>3. row.net = j.seen.net /\ j.seen.version = v /\ row.status = j.seen.status
  BY <1>2
<1>4. /\ lines' = [lines EXCEPT ![v] = @ + j.amount] /\ row' = [row EXCEPT !.net = j.total]
      /\ job' = [job EXCEPT ![q] = Idle] /\ UNCHANGED issued
  BY <1>3 DEF CommitLine, Become
<1>5. row.status \notin Committed /\ row.status # "invoiced"
  BY <1>1, <1>3 DEF Editable, Committed
<1>6. Billing = {} /\ row.invoiced = 0
  BY <1>5, RowIsTyped DEF Quoted
<1> HIDE DEF j, v
<1>7. /\ row'.net = j.total /\ row'.version = v /\ row'.status = row.status /\ row'.invoiced = 0
  BY <1>4, <1>6, RowIsTyped DEF Row, v
<1>8. lines \in [1..MaxVersion -> Nat] /\ v \in 1..MaxVersion /\ lines[v] = row.net
  BY RowIsTyped DEF IInv, TypeOK, Quoted, v
<1>9. lines'[v] = j.total /\ \A w \in 1..MaxVersion : w # v => lines'[w] = lines[w]
  BY <1>1, <1>3, <1>4, <1>8
<1>10. \A w \in 1..MaxVersion : w > v => lines'[w] = 0
  BY <1>8, <1>9 DEF Quoted, v
<1>11. \A p \in People : job'[p] = Idle \/ job'[p] = job[p]
  BY <1>4 DEF IInv, TypeOK
<1>12. Idle.at = "idle"
  BY DEF Idle
<1>13. Billing' = {} /\ \A p \in People : job'[p].at \notin {"issue", "record"}
  BY <1>6, <1>11, <1>12 DEF Billing
<1>14. \A p \in People : Carries(job'[p]) /\ Asks(job'[p], row')
  BY <1>11, <1>13, IdleCarries DEF Quoted, Asks
<1>15. issued' = 0
  <2>1. BillsAlone /\ \A p \in People : job[p].at # "record"
    BY <1>6 DEF BillsAlone, Billing
  <2>2. QED
    BY <1>4, <1>6, <2>1 DEF Quoted
<1>16. row.status = "none" => v = 1
  BY DEF Quoted, v
<1>17. QED
  BY <1>1, <1>5, <1>7, <1>9, <1>10, <1>13, <1>14, <1>15, <1>16 DEF Quoted

\* From the approval onwards no stage leads back.
LEMMA CommittedStays ==
  \A s : /\ s \in Committed => AllowedNext(s) \subseteq Committed
         /\ "draft" \in AllowedNext(s) => s \notin Committed
         /\ "scheduled" \in Committed
BY DEF AllowedNext, Committed

LEMMA CommitStageQuoted ==
  ASSUME IInv, Quoted, NEW q \in People, CommitStage(q), stale' = {} PROVE Quoted'
<1> DEFINE j == job[q]
           J == [Idle EXCEPT !.at = IF j.op = "complete" THEN "visit" ELSE "publish",
                             !.op = j.op, !.to = j.to]
           version == IF j.to = "draft" THEN j.seen.version + 1 ELSE row.version
           v == row.version
<1>1. /\ j \in Job /\ j.at = "stage" /\ j.total \in Nat /\ j.to \in Stage \ {"invoiced"}
      /\ j.to = "draft" => j.seen.version < MaxVersion
      /\ j.to \in AllowedNext(j.seen.status) \/ (j.to = "scheduled" /\ j.seen.status = "scheduled")
      /\ j.total = j.seen.net
  BY DEF CommitStage, IInv, TypeOK, RequestsFit, Fits, Quoted, Carries
<1>2. /\ row["status"] = j.seen["status"] /\ row["version"] = j.seen["version"]
      /\ j.to = "draft" => row["net"] = j.seen["net"]
  <2> DEFINE columns == {"status", "version"} \cup (IF j.to = "draft" THEN {"net"} ELSE {})
  <2>1. \A c \in columns : row[c] = job[q].seen[c]
    BY NotOvertaken DEF CommitStage
  <2>2. QED
    BY <2>1
<1>3. /\ row.status = j.seen.status /\ row.version = j.seen.version
      /\ j.to = "draft" => row.net = j.total
  BY <1>1, <1>2
<1>4. /\ row' = [row EXCEPT !.status = j.to, !.evidence = @ \/ NeedsEvidence(j.to),
                            !.scheduled = @ \/ j.op = "schedule", !.version = version]
      /\ lines' = IF j.to = "draft" THEN CopyLines(j) ELSE lines
      /\ job' = [job EXCEPT ![q] = J] /\ UNCHANGED issued
  BY DEF CommitStage, Become
<1>5. J.at \in {"visit", "publish"}
  BY DEF Idle
<1> HIDE DEF J
<1>6. Carries(J) /\ Asks(J, row')
  BY <1>5 DEF Carries, Asks
<1>7. /\ row'.net = row.net /\ row'.version = version /\ row'.status = j.to
      /\ row'.invoiced = row.invoiced
  BY <1>4, RowIsTyped DEF Row
<1>8. lines \in [1..MaxVersion -> Nat] /\ v \in 1..MaxVersion /\ lines[v] = row.net
      /\ \A w \in 1..MaxVersion : w > v => lines[w] = 0
  BY RowIsTyped DEF IInv, TypeOK, Quoted
<1>9. /\ row'.net = lines'[row'.version]
      /\ \A w \in 1..MaxVersion : w > row'.version => lines'[w] = 0
  <2>1. CASE j.to = "draft"
    <3>1. version = v + 1 /\ v + 1 \in 1..MaxVersion /\ lines[v + 1] = 0
      BY <1>1, <1>3, <1>8, <2>1, JobsAssumption
    <3>2. lines' = [lines EXCEPT ![v + 1] = @ + j.total]
      BY <1>3, <1>4, <2>1 DEF CopyLines
    <3>3. lines'[v + 1] = j.total /\ \A w \in 1..MaxVersion : w > v + 1 => lines'[w] = 0
      BY <1>1, <1>8, <3>1, <3>2
    <3>4. QED
      BY <1>3, <1>7, <2>1, <3>1, <3>3
  <2>2. CASE j.to # "draft"
    BY <1>4, <1>7, <1>8, <2>2
  <2>3. QED
    BY <2>1, <2>2
<1> HIDE DEF version, v
<1>10. job'[q] = J /\ \A p \in People \ {q} : job'[p] = job[p]
  BY <1>4 DEF IInv, TypeOK
<1>11. Billing' = Billing
  BY <1>1, <1>5, <1>10 DEF Billing
<1>12. \A p \in People : Carries(job'[p]) /\ Asks(job'[p], row')
  <2> SUFFICES ASSUME NEW p \in People PROVE Carries(job'[p]) /\ Asks(job'[p], row')
    OBVIOUS
  <2>1. CASE p = q
    BY <1>6, <1>10, <2>1
  <2>2. CASE p # q
    BY <1>7, <1>10, <2>2 DEF Quoted, Asks
  <2>3. QED
    BY <2>1, <2>2
<1>13. row'.invoiced > 0 \/ Billing' # {} => row'.status \in Committed
  BY <1>1, <1>3, <1>7, <1>11, CommittedStays DEF Quoted
<1>14. row'.status \notin {"none", "invoiced"} /\ row'.invoiced <= row'.net
  BY <1>1, <1>7 DEF Stage, Quoted
<1>15. BillsAlone' => BillsAlone
  <2>1. \A p \in Billing : p # q /\ p \in People
    BY <1>1 DEF Billing
  <2>2. QED
    BY <1>7, <1>10, <1>11, <2>1 DEF BillsAlone
<1>16. \A p \in People : (job'[p].at = "record" <=> job[p].at = "record")
                         /\ (job[p].at = "record" => job'[p] = job[p])
  BY <1>1, <1>5, <1>10
<1>17. BillsAlone' =>
         /\ \A p \in People : job'[p].at = "record" => issued' = row'.invoiced + job'[p].amount
         /\ (\A p \in People : job'[p].at # "record") => issued' = row'.invoiced
  BY <1>4, <1>7, <1>15, <1>16 DEF Quoted
<1>18. QED
  BY <1>9, <1>12, <1>13, <1>14, <1>17 DEF Quoted

LEMMA StartPartialQuoted ==
  ASSUME IInv, Quoted, NEW q \in People, NEW amount \in 1..MaxTotal, StartPartial(q, amount)
  PROVE  Quoted'
<1> DEFINE J == Invoicing("partial", amount, amount)
<1>1. /\ row.status \in Committed /\ Begin(q, J) /\ amount \in 1..Remaining
  BY DEF StartPartial, Committed
<1>2. amount >= 1 /\ amount <= row.net - row.invoiced /\ amount \in Int
  BY <1>1, RowIsTyped, RemainingType DEF Remaining
<1>3. /\ J \in Job /\ J.at = "issue" /\ J.amount = amount /\ J.total = amount /\ J.seen = row
      /\ J.op = "partial"
  <2>1. row \in Row
    BY RowIsTyped
  <2>2. QED
    BY <1>2, <2>1, InvoicingIs DEF Invoicing
<1> HIDE DEF J
<1>4. Carries(J) /\ Asks(J, row)
  BY <1>2, <1>3, RowIsTyped DEF Carries, Asks
<1>5. QED
  BY <1>1, <1>3, <1>4, BeginQuoted

LEMMA StartFullQuoted == ASSUME IInv, Quoted, NEW q \in People, StartFull(q) PROVE Quoted'
<1> DEFINE total == lines[row.version] - row.invoiced
           J == Invoicing("full", Remaining, total)
<1>1. /\ row.status = "done" /\ Begin(q, J) /\ Remaining > 0
  BY AgreedComesFrom DEF StartFull, CanTransition
<1>2. /\ Remaining = row.net - row.invoiced /\ Remaining \in Int /\ Remaining >= 1 /\ total = Remaining
  BY <1>1, RowIsTyped DEF Remaining, Quoted
<1> HIDE DEF total
<1>3. /\ J \in Job /\ J.at = "issue" /\ J.amount = Remaining /\ J.total = Remaining /\ J.seen = row
  <2>1. row \in Row
    BY RowIsTyped
  <2>2. QED
    BY <1>2, <2>1, InvoicingIs DEF Invoicing
<1> HIDE DEF J
<1>4. Carries(J) /\ Asks(J, row)
  BY <1>2, <1>3, RowIsTyped DEF Carries, Asks
<1>5. row.status \in Committed
  BY <1>1 DEF Committed
<1>6. QED
  BY <1>1, <1>3, <1>4, <1>5, BeginQuoted

LEMMA IssueQuoted == ASSUME IInv, Quoted, NEW q \in People, Issue(q) PROVE Quoted'
<1> DEFINE R == [job[q] EXCEPT !.at = "record"]
<1>1. /\ job[q] \in Job /\ job[q].at = "issue" /\ issued' = issued + job[q].total
      /\ job' = [job EXCEPT ![q] = R] /\ UNCHANGED <<row, lines>>
      /\ job[q].amount \in Int /\ Asks(job[q], row)
  BY DEF Issue, Become, IInv, TypeOK, Job, Quoted
<1>2. /\ R.at = "record" /\ R.amount = job[q].amount /\ R.seen = job[q].seen /\ R.total = job[q].total
      /\ R.op = job[q].op
  BY <1>1 DEF Job
<1> HIDE DEF R
<1>3. job'[q] = R /\ \A p \in People \ {q} : job'[p] = job[p]
  BY <1>1 DEF IInv, TypeOK
<1>4. Billing' = Billing /\ q \in Billing
  BY <1>1, <1>2, <1>3 DEF Billing
<1>5. Carries(R) /\ Asks(R, row)
  BY <1>1, <1>2 DEF Carries, Asks
<1>6. \A p \in People : Carries(job'[p]) /\ Asks(job'[p], row')
  BY <1>1, <1>3, <1>5 DEF Quoted
<1>7. BillsAlone' =>
        /\ \A p \in People : job'[p].at = "record" => issued' = row'.invoiced + job'[p].amount
        /\ (\A p \in People : job'[p].at # "record") => issued' = row'.invoiced
  <2> SUFFICES ASSUME BillsAlone'
               PROVE  /\ \A p \in People : job'[p].at = "record" => issued' = row'.invoiced + job'[p].amount
                      /\ (\A p \in People : job'[p].at # "record") => issued' = row'.invoiced
    OBVIOUS
  <2>1. \A p \in Billing : p = q
    BY <1>4 DEF BillsAlone
  <2>2. BillsAlone
    BY <1>1, <1>2, <1>3, <1>4, <2>1 DEF BillsAlone
  <2>3. \A p \in People : job[p].at # "record"
    BY <1>1, <2>1 DEF Billing
  <2>4. issued = row.invoiced
    BY <2>2, <2>3 DEF Quoted
  <2>5. issued' = row'.invoiced + R.amount
    BY <1>1, <1>2, <2>4 DEF Asks
  <2>6. \A p \in People : job'[p].at = "record" => p = q
    BY <1>3, <2>3
  <2>7. QED
    BY <1>2, <1>3, <2>5, <2>6
<1>8. QED
  BY <1>1, <1>4, <1>6, <1>7 DEF Quoted

\* An invoice is recorded on the sum it was begun on, or somebody is overtaken;
\* whoever still has another in hand will overtake somebody.
LEMMA RecordInvoiceQuoted ==
  ASSUME IInv, Quoted, NEW q \in People, RecordInvoice(q), stale' = {} PROVE Quoted'
<1> DEFINE j == job[q]
           sum == j.seen.invoiced + j.amount
           P == [Idle EXCEPT !.at = "publish", !.to = "invoiced"]
           J == IF Covers(j) THEN P ELSE Idle
<1>1. /\ j \in Job /\ j.at = "record" /\ j.amount \in Int /\ Asks(j, row)
  BY DEF RecordInvoice, IInv, TypeOK, Job, Quoted
<1>2. row["invoiced"] = j.seen["invoiced"]
  <2> DEFINE columns == {"invoiced"} \cup (IF Covers(j) THEN {"status"} ELSE {})
  <2>1. \A c \in columns : row[c] = job[q].seen[c]
    BY NotOvertaken DEF RecordInvoice
  <2>2. QED
    BY <2>1
<1>3. /\ sum = row.invoiced + j.amount /\ j.amount >= 1 /\ sum <= row.net
      /\ Covers(j) => sum = row.net
      /\ row.invoiced \in Nat /\ row.net \in Nat
  BY <1>1, <1>2, RowIsTyped DEF Asks, Covers
<1>4. /\ row' = [row EXCEPT !.invoiced = sum, !.status = IF Covers(j) THEN "invoiced" ELSE @]
      /\ job' = [job EXCEPT ![q] = J] /\ UNCHANGED <<lines, issued>>
  BY DEF RecordInvoice, Become
<1>5. J.at \in {"idle", "publish"}
  BY DEF Idle
<1> HIDE DEF J, sum
<1>6. /\ row'.net = row.net /\ row'.version = row.version /\ row'.invoiced = sum
      /\ row'.status = IF Covers(j) THEN "invoiced" ELSE row.status
  BY <1>4, RowIsTyped DEF Row
<1>7. job'[q] = J /\ \A p \in People \ {q} : job'[p] = job[p]
  BY <1>4 DEF IInv, TypeOK
<1>8. q \in Billing /\ row.status \in Committed
  BY <1>1 DEF Billing, Quoted
<1>9. row'.status \in Committed /\ row'.status # "none"
  BY <1>6, <1>8 DEF Committed
<1>10. row'.status = "invoiced" => row'.invoiced = row'.net
  <2>1. row.status # "invoiced"
    BY <1>1, <1>3 DEF Quoted
  <2>2. QED
    BY <1>3, <1>6, <2>1
<1>11. \A p \in People : Carries(job'[p]) /\ Asks(job'[p], row')
  <2> SUFFICES ASSUME NEW p \in People PROVE Carries(job'[p]) /\ Asks(job'[p], row')
    OBVIOUS
  <2>1. CASE p = q
    BY <1>5, <1>7, <2>1 DEF Carries, Asks
  <2>2. CASE p # q
    <3>1. Carries(job[p]) /\ Asks(job[p], row) /\ job[p].seen.invoiced \in Nat
      BY DEF Quoted, IInv, TypeOK, Job, Row
    <3>2. Asks(job[p], row')
      BY <1>1, <1>3, <1>6, <3>1 DEF Asks
    <3>3. QED
      BY <1>7, <2>2, <3>1, <3>2
  <2>3. QED
    BY <2>1, <2>2
<1>12. BillsAlone' => BillsAlone /\ \A p \in People : job'[p].at # "record"
  <2> SUFFICES ASSUME BillsAlone' PROVE BillsAlone /\ \A p \in People : job'[p].at # "record"
    OBVIOUS
  <2>1. ASSUME NEW p \in Billing PROVE p = q
    <3> SUFFICES ASSUME p # q PROVE FALSE
      OBVIOUS
    <3>1. p \in People /\ job'[p] = job[p] /\ p \in Billing'
      BY <1>7 DEF Billing
    <3>2. job[p].seen.invoiced = sum
      BY <1>6, <3>1 DEF BillsAlone
    <3>3. job[p].seen.invoiced <= row.invoiced
      BY <3>1 DEF Quoted, Asks, Billing
    <3>4. QED
      BY <1>1, <1>3, <3>2, <3>3
  <2>2. BillsAlone
    BY <1>2, <2>1 DEF BillsAlone
  <2>3. \A p \in People : job'[p].at # "record"
    BY <1>5, <1>7, <2>1 DEF Billing
  <2>4. QED
    BY <2>2, <2>3
<1>13. BillsAlone' => issued' = row'.invoiced
  <2>1. BillsAlone => issued = row.invoiced + j.amount
    BY <1>1 DEF Quoted
  <2>2. QED
    BY <1>3, <1>4, <1>6, <1>12, <2>1
<1>14. QED
  BY <1>3, <1>4, <1>6, <1>9, <1>10, <1>11, <1>12, <1>13 DEF Quoted

\* What has been overtaken stays so, and a restart is not taken back.
LEMMA CleanBefore == ASSUME IInv, [Next]_vars, Clean' PROVE Clean /\ stale' = {}
<1>1. stale' = {} /\ faults' = MaxFaults
  BY DEF Clean
<1>2. ASSUME NEW q \in People, Request(q) \/ StartWork(q) \/ StartComplete(q) \/ Step(q)
      PROVE  stale \subseteq stale' /\ faults' = faults
  <2>1. Request(q) \/ StartWork(q) \/ StartComplete(q) => UNCHANGED <<stale, faults>>
    BY DEF Request, Create, StartLine, StartTransition, StartSend, StartSchedule, StartPartial,
           StartFull, StartWork, StartComplete, Begin
  <2>2. LineGone(q) \/ SendOn(q) \/ RecordVisit(q) \/ LinkVisit(q) \/ Publish(q) \/ Issue(q)
          => UNCHANGED <<stale, faults>>
    BY DEF LineGone, SendOn, RecordVisit, LinkVisit, Publish, Issue
  <2>3. CommitLine(q) \/ CommitStage(q) \/ RecordInvoice(q) => stale \subseteq stale' /\ faults' = faults
    BY DEF CommitLine, CommitStage, RecordInvoice, Overtaken
  <2>4. QED
    BY <1>2, <2>1, <2>2, <2>3 DEF Step
<1>3. ~Restart
  BY <1>1 DEF Restart, IInv, TypeOK
<1>4. stale \subseteq stale' /\ faults' = faults
  BY <1>2, <1>3 DEF Next, People, vars
<1>5. QED
  BY <1>1, <1>4 DEF Clean

LEMMA QuotedHolds == IInv /\ (Clean => Quoted) /\ [Next]_vars => (Clean => Quoted)'
<1> SUFFICES ASSUME IInv, Clean => Quoted, [Next]_vars, Clean' PROVE Quoted'
  BY DEF Clean
<1>1. Quoted /\ stale' = {} /\ faults = MaxFaults /\ faults' = MaxFaults
  BY CleanBefore DEF Clean
<1>2. ASSUME NEW q \in People, Request(q) \/ StartWork(q) \/ StartComplete(q) PROVE Quoted'
  <2>1. ASSUME NEW total \in 0..MaxTotal, Create(q, total) PROVE Quoted'
    BY <1>1, <2>1, CreateQuoted
  <2>2. ASSUME NEW change \in {-1, 1}, StartLine(q, change) PROVE Quoted'
    BY <1>1, <2>2, StartLineQuoted
  <2>3. ASSUME NEW amount \in 1..MaxTotal, StartPartial(q, amount) PROVE Quoted'
    BY <1>1, <2>3, StartPartialQuoted
  <2>4. QED
    BY <1>1, <1>2, <2>1, <2>2, <2>3, StartStageQuoted, StartFullQuoted DEF Request
<1>3. ASSUME NEW q \in People, Step(q) PROVE Quoted'
  BY <1>1, <1>3, SmallQuoted, CommitLineQuoted, CommitStageQuoted, IssueQuoted, RecordInvoiceQuoted
     DEF Step
<1>4. ~Restart
  BY <1>1 DEF Restart, IInv, TypeOK
<1>5. CASE UNCHANGED vars
  BY <1>1, <1>5 DEF vars, Quoted, BillsAlone, Billing
<1>6. QED
  BY <1>2, <1>3, <1>4, <1>5 DEF Next, People

LEMMA QuotedInit == Init => (Clean => Quoted)
<1> SUFFICES ASSUME Init PROVE Quoted
  OBVIOUS
<1>1. row = NoJob /\ issued = 0 /\ lines = [v \in 1..MaxVersion |-> 0] /\ 1 \in 1..MaxVersion
      /\ \A q \in People : job[q] = Idle
  BY JobsAssumption DEF Init
<1>2. row.status = "none" /\ row.version = 1 /\ row.net = 0 /\ row.invoiced = 0
  BY <1>1 DEF NoJob
<1>3. \A q \in People : job[q].at = "idle"
  BY <1>1 DEF Idle
<1>4. Billing = {}
  BY <1>3 DEF Billing
<1>5. \A q \in People : Carries(job[q]) /\ Asks(job[q], row)
  BY <1>1, IdleCarries
<1>6. QED
  BY <1>1, <1>2, <1>3, <1>4, <1>5 DEF Quoted

\* At most one of a finite set is any of them.
LEMMA AtMostOne ==
  ASSUME NEW S, IsFiniteSet(S), Cardinality(S) <= 1, NEW a \in S, NEW b \in S PROVE a = b
<1> SUFFICES ASSUME a # b PROVE FALSE
  OBVIOUS
<1>1. IsFiniteSet(S \ {a}) /\ Cardinality(S \ {a}) = Cardinality(S) - 1
  BY FS_RemoveElement
<1>2. Cardinality(S) \in Nat /\ Cardinality(S \ {a}) \in Nat
  BY <1>1, FS_CardinalityType
<1>3. Cardinality(S \ {a}) = 0
  BY <1>1, <1>2
<1>4. S \ {a} = {}
  BY <1>1, <1>3, FS_EmptySet
<1>5. QED
  BY <1>4

\* The customer is billed what was quoted: with no request overtaken and no
\* restart, edits, new versions, deposits and the rest never add up to more than
\* the lines of the current version, and to exactly that when the job is invoiced.
THEOREM BilledIsQuoted == Spec => []BilledAsQuoted
<1>1. IInv /\ (Clean => Quoted) => BilledAsQuoted
  <2> SUFFICES ASSUME IInv, Quoted, OneInvoiceAtATime
               PROVE  /\ issued <= lines[row.version]
                      /\ row.status = "invoiced" => issued = lines[row.version]
    BY DEF BilledAsQuoted, Clean
  <2>1. IsFiniteSet(Billing)
    <3>1. IsFiniteSet(People)
      BY JobsAssumption, FS_Union DEF People
    <3>2. Billing \subseteq People
      BY DEF Billing
    <3>3. QED
      BY <3>1, <3>2, FS_Subset
  <2>2. BillsAlone
    BY <2>1, AtMostOne DEF OneInvoiceAtATime, BillsAlone
  <2>3. row.net = lines[row.version] /\ row.net \in Nat /\ row.invoiced \in Nat
        /\ row.invoiced <= row.net /\ (row.status = "invoiced" => row.invoiced = row.net)
    BY RowIsTyped DEF Quoted
  <2>4. CASE \E q \in People : job[q].at = "record"
    <3>1. PICK q \in People : job[q].at = "record"
      BY <2>4
    <3>2. /\ issued = row.invoiced + job[q].amount
          /\ job[q].amount \in Int /\ job[q].amount >= 1
          /\ job[q].amount <= job[q].seen.net - job[q].seen.invoiced /\ job[q].seen.net = row.net
      BY <2>2, <3>1 DEF Quoted, Asks, IInv, TypeOK, Job
    <3>3. job[q].seen.invoiced = row.invoiced
      BY <2>2, <3>1 DEF BillsAlone, Billing
    <3>4. QED
      BY <2>3, <3>2, <3>3
  <2>5. CASE \A q \in People : job[q].at # "record"
    BY <2>2, <2>3, <2>5 DEF Quoted
  <2>6. QED
    BY <2>4, <2>5
<1>2. IInv /\ (Clean => Quoted) /\ [Next]_vars => IInv' /\ (Clean => Quoted)'
  BY NextHolds, QuotedHolds
<1>3. Init => IInv /\ (Clean => Quoted)
  BY InitHolds, QuotedInit
<1>4. QED
  BY <1>1, <1>2, <1>3, PTL DEF Spec

-----------------------------------------------------------------------------
(* The stages follow the table *)

\* An invoice is asked for from an agreed stage, and the closing one when the
\* job is done.
BillsFrom(J) ==
  J.at \in {"issue", "record"} =>
    /\ J.seen.status \in {"approved", "scheduled", "in_progress", "done"}
    /\ J.op = "full" => J.seen.status = "done"
BillsInOrder == \A q \in People : BillsFrom(job[q])

LEMMA OneBills ==
  ASSUME IInv, BillsInOrder, NEW q \in People, NEW J, Become(q, J), BillsFrom(J)
  PROVE  BillsInOrder'
<1>1. job' = [job EXCEPT ![q] = J] /\ job \in [People -> Job]
  BY DEF Become, IInv, TypeOK
<1>2. \A p \in People : job'[p] = IF p = q THEN J ELSE job[p]
  BY <1>1
<1>3. QED
  BY <1>2 DEF BillsInOrder

\* A request for an invoice, as it is taken in.
LEMMA AsksInOrder ==
  ASSUME IInv, NEW op, NEW amount, NEW total,
         row.status \in {"approved", "scheduled", "in_progress", "done"},
         op = "full" => row.status = "done"
  PROVE  BillsFrom(Invoicing(op, amount, total))
BY DEF BillsFrom, Invoicing

\* Every other request in flight is not about to bill.
LEMMA NotBilling == \A J : J.at \notin {"issue", "record"} => BillsFrom(J)
BY DEF BillsFrom

LEMMA MovingAt == \A op, to : Moving(op, to).at = "stage"
BY DEF Moving, Idle

LEMMA RequestBills == ASSUME IInv, BillsInOrder, NEW q \in People, Request(q) PROVE BillsInOrder'
<1>1. ASSUME NEW total \in 0..MaxTotal, Create(q, total) PROVE BillsInOrder'
  BY <1>1 DEF Create, BillsInOrder
<1>2. ASSUME NEW change \in {-1, 1}, StartLine(q, change) PROVE BillsInOrder'
  <2> DEFINE J == [Idle EXCEPT !.at = "line", !.seen = row, !.amount = change,
                               !.total = lines[row.version] + change]
  <2>1. Become(q, J)
    BY <1>2 DEF StartLine, Begin
  <2>2. J.at = "line"
    BY DEF Idle
  <2>3. QED
    BY <2>1, <2>2, OneBills, NotBilling
<1>3. ASSUME NEW op, NEW to, Begin(q, Moving(op, to)) PROVE BillsInOrder'
  BY <1>3, OneBills, NotBilling, MovingAt DEF Begin
<1>4. ASSUME NEW to \in Stage, StartTransition(q, to) PROVE BillsInOrder'
  BY <1>3, <1>4 DEF StartTransition
<1>5. CASE StartSend(q) \/ StartSchedule(q)
  BY <1>3, <1>5 DEF StartSend, StartSchedule
<1>6. ASSUME NEW amount \in 1..MaxTotal, StartPartial(q, amount) PROVE BillsInOrder'
  <2>1. BillsFrom(Invoicing("partial", amount, amount))
    BY <1>6, AsksInOrder DEF StartPartial
  <2>2. QED
    BY <1>6, <2>1, OneBills DEF StartPartial, Begin
<1>7. CASE StartFull(q)
  <2>1. row.status = "done"
    BY <1>7, AgreedComesFrom DEF StartFull, CanTransition
  <2>2. BillsFrom(Invoicing("full", Remaining, lines[row.version] - row.invoiced))
    BY <2>1, AsksInOrder
  <2>3. QED
    BY <1>7, <2>2, OneBills DEF StartFull, Begin
<1>8. QED
  BY <1>1, <1>2, <1>4, <1>5, <1>6, <1>7 DEF Request

LEMMA StepBills ==
  ASSUME IInv, BillsInOrder, NEW q \in People, StartWork(q) \/ StartComplete(q) \/ Step(q)
  PROVE  BillsInOrder'
<1>1. Idle.at = "idle"
  BY DEF Idle
<1>2. ASSUME NEW J, Become(q, J), J.at \notin {"issue", "record"} PROVE BillsInOrder'
  BY <1>2, OneBills, NotBilling
<1>3. CASE StartWork(q) \/ StartComplete(q)
  BY <1>2, <1>3, MovingAt DEF StartWork, StartComplete, Begin
<1>4. CASE LineGone(q) \/ CommitLine(q)
  BY <1>1, <1>2, <1>4 DEF LineGone, CommitLine
<1>5. CASE CommitStage(q)
  <2> DEFINE J == [Idle EXCEPT !.at = IF job[q].op = "complete" THEN "visit" ELSE "publish",
                               !.op = job[q].op, !.to = job[q].to]
  <2>1. Become(q, J)
    BY <1>5 DEF CommitStage
  <2>2. J.at \in {"visit", "publish"}
    BY DEF Idle
  <2>3. QED
    BY <1>2, <2>1, <2>2
<1>6. CASE SendOn(q)
  <2>1. \/ Become(q, Moving("transition", "awaiting_approval"))
        \/ Become(q, Idle)
    BY <1>6 DEF SendOn
  <2>2. QED
    BY <1>1, <1>2, <2>1, MovingAt
<1>7. CASE RecordVisit(q) \/ LinkVisit(q)
  <2>1. job[q] \in Job
    BY DEF IInv, TypeOK
  <2> DEFINE L == [job[q] EXCEPT !.at = "link"]
             P == [job[q] EXCEPT !.at = "publish"]
             M == [job[q] EXCEPT !.at = "publish", !.to = row.status]
  <2>2. Become(q, L) \/ Become(q, P) \/ Become(q, M)
    BY <1>7 DEF RecordVisit, LinkVisit
  <2>3. L.at = "link" /\ P.at = "publish" /\ M.at = "publish"
    BY <2>1 DEF Job
  <2> HIDE DEF L, P, M
  <2>4. QED
    BY <1>2, <2>2, <2>3
<1>8. CASE Publish(q)
  <2>1. PICK J : Become(q, J) /\ J.at \in {"idle", "send"}
    BY <1>8 DEF Publish, Idle
  <2>2. QED
    BY <1>2, <2>1
<1>9. CASE Issue(q)
  <2>1. job[q] \in Job /\ job[q].at = "issue" /\ BillsFrom(job[q])
    BY <1>9 DEF IInv, TypeOK, Issue, BillsInOrder
  <2>2. BillsFrom([job[q] EXCEPT !.at = "record"])
    BY <2>1 DEF BillsFrom, Job
  <2>3. QED
    BY <1>9, <2>2, OneBills DEF Issue
<1>10. CASE RecordInvoice(q)
  <2> DEFINE P == [Idle EXCEPT !.at = "publish", !.to = "invoiced"]
  <2>1. Become(q, P) \/ Become(q, Idle)
    BY <1>10 DEF RecordInvoice
  <2>2. P.at = "publish"
    BY DEF Idle
  <2>3. QED
    BY <1>1, <1>2, <2>1, <2>2
<1>11. QED
  BY <1>3, <1>4, <1>5, <1>6, <1>7, <1>8, <1>9, <1>10 DEF Step

\* A stage is written from the stage that was read.
LEMMA WritesAlongTable ==
  ASSUME IInv, NEW q \in People, CommitStage(q) PROVE OneStageOn
<1> DEFINE j == job[q]
           columns == {"status", "version"} \cup (IF j.to = "draft" THEN {"net"} ELSE {})
<1>1. /\ j.to \in AllowedNext(j.seen.status) \/ (j.to = "scheduled" /\ j.seen.status = "scheduled")
      /\ row'.status = j.to
  BY RowIsTyped DEF CommitStage, IInv, RequestsFit, Fits, Row
<1>2. Overtaken(q, columns) /\ "status" \in columns
  BY DEF CommitStage
<1> HIDE DEF columns
<1>3. row["status"] = j.seen["status"] \/ "status" \in stale'
  BY <1>2 DEF Overtaken
<1>4. QED
  BY <1>1, <1>3 DEF OneStageOn, StageMoves, CanTransition

\* Only an invoice that covers the rest moves the stage.
LEMMA BillsAlongTable ==
  ASSUME IInv, BillsInOrder, NEW q \in People, RecordInvoice(q) PROVE OneStageOn
<1> DEFINE j == job[q]
           columns == {"invoiced"} \cup (IF Covers(j) THEN {"status"} ELSE {})
<1>1. j.seen.status \in {"approved", "scheduled", "in_progress", "done"}
  BY DEF RecordInvoice, BillsInOrder, BillsFrom
<1>2. row'.status = IF Covers(j) THEN "invoiced" ELSE row.status
  BY RowIsTyped DEF RecordInvoice, Row
<1>3. Overtaken(q, columns) /\ (Covers(j) => "status" \in columns)
  BY DEF RecordInvoice
<1> HIDE DEF columns
<1>4. Covers(j) => row["status"] = j.seen["status"] \/ "status" \in stale'
  BY <1>3 DEF Overtaken
<1>5. "invoiced" \in AllowedNext("done")
  BY AgreedComesFrom
<1>6. QED
  BY <1>1, <1>2, <1>4, <1>5 DEF OneStageOn, StageMoves, CanTransition

\* Nothing else moves the stage of a job that exists.
LEMMA StageStays ==
  ASSUME IInv, NEW q \in People,
         Request(q) \/ StartWork(q) \/ StartComplete(q) \/ Step(q),
         ~CommitStage(q), ~RecordInvoice(q)
  PROVE  row'.status = row.status \/ (row.status = "none" /\ row'.status = "draft")
<1>1. row \in Row
  BY RowIsTyped
<1>2. ASSUME NEW total \in 0..MaxTotal, Create(q, total)
      PROVE  row.status = "none" /\ row'.status = "draft"
  BY <1>2 DEF Create, NoJob
<1>3. ASSUME NEW J, Begin(q, J) PROVE row'.status = row.status
  BY <1>3 DEF Begin
<1>4. CASE Request(q)
  BY <1>2, <1>3, <1>4 DEF Request, StartLine, StartTransition, StartSend, StartSchedule,
                          StartPartial, StartFull
<1>5. CASE StartWork(q) \/ StartComplete(q)
  BY <1>3, <1>5 DEF StartWork, StartComplete
<1>6. CASE CommitLine(q) \/ LinkVisit(q)
  BY <1>1, <1>6 DEF CommitLine, LinkVisit, Row
<1>7. CASE LineGone(q) \/ SendOn(q) \/ RecordVisit(q) \/ Publish(q) \/ Issue(q)
  BY <1>7 DEF LineGone, SendOn, RecordVisit, Publish, Issue
<1>8. QED
  BY <1>4, <1>5, <1>6, <1>7 DEF Step

LEMMA NextInOrder == IInv /\ BillsInOrder /\ [Next]_vars => BillsInOrder' /\ OneStageOn
<1> SUFFICES ASSUME IInv, BillsInOrder, [Next]_vars PROVE BillsInOrder' /\ OneStageOn
  OBVIOUS
<1>1. ASSUME NEW q \in People, Request(q) \/ StartWork(q) \/ StartComplete(q) \/ Step(q)
      PROVE  BillsInOrder' /\ OneStageOn
  <2>1. BillsInOrder'
    BY <1>1, RequestBills, StepBills
  <2>2. OneStageOn
    BY <1>1, WritesAlongTable, BillsAlongTable, StageStays DEF OneStageOn, StageMoves
  <2>3. QED
    BY <2>1, <2>2
<1>2. CASE Restart
  <2>1. \A q \in People : job'[q].at = "idle"
    BY <1>2 DEF Restart, Idle
  <2>2. QED
    BY <1>2, <2>1 DEF Restart, BillsInOrder, BillsFrom, OneStageOn
<1>3. CASE UNCHANGED vars
  BY <1>3 DEF vars, BillsInOrder, OneStageOn
<1>4. QED
  BY <1>1, <1>2, <1>3 DEF Next, People

LEMMA InitInOrder == Init => BillsInOrder
BY DEF Init, BillsInOrder, BillsFrom, Idle

\* However requests interleave, the stage of a job leaves the table only in a
\* request that decided on a stage another one had changed.
THEOREM StagesFollowTable == Spec => StagesInOrder
<1>1. Spec => [](IInv /\ BillsInOrder)
  BY InitHolds, NextHolds, InitInOrder, NextInOrder, PTL DEF Spec
<1>2. IInv /\ BillsInOrder /\ [Next]_vars => [OneStageOn]_vars
  BY NextInOrder
<1>3. QED
  BY <1>1, <1>2, PTL DEF Spec, StagesInOrder

-----------------------------------------------------------------------------
(* No stage is left unannounced *)

\* An event that is due is that of a stage that has one.
DueHasEvent == event = "due" => row.status \in Eventful

LEMMA DueStays == IInv /\ DueHasEvent /\ [Next]_vars => DueHasEvent'
<1> SUFFICES ASSUME IInv, DueHasEvent, [Next]_vars PROVE DueHasEvent'
  OBVIOUS
<1>1. row \in Row
  BY RowIsTyped
<1>2. ASSUME row'.status = row.status, event' = "due" => event = "due" PROVE DueHasEvent'
  BY <1>2 DEF DueHasEvent
<1>3. ASSUME NEW q \in People, NEW J, Begin(q, J) PROVE DueHasEvent'
  BY <1>2, <1>3 DEF Begin
<1>4. ASSUME NEW q \in People, NEW total \in 0..MaxTotal, Create(q, total) PROVE DueHasEvent'
  <2>1. row.status = "none" /\ UNCHANGED event
    BY <1>4 DEF Create
  <2>2. QED
    BY <2>1 DEF DueHasEvent, Eventful, Stage
<1>5. ASSUME NEW q \in People, CommitStage(q) PROVE DueHasEvent'
  <2>1. row'.status = job[q].to /\ event' = Due(job[q].to)
    BY <1>1, <1>5 DEF CommitStage, Row
  <2>2. QED
    BY <2>1 DEF DueHasEvent, Due
<1>6. ASSUME NEW q \in People, RecordInvoice(q) PROVE DueHasEvent'
  <2>1. \/ row'.status = "invoiced"
        \/ row'.status = row.status /\ UNCHANGED event
    BY <1>1, <1>6 DEF RecordInvoice, Row
  <2>2. QED
    BY <2>1 DEF DueHasEvent, Eventful, Stage
<1>7. ASSUME NEW q \in People,
             CommitLine(q) \/ LineGone(q) \/ SendOn(q) \/ RecordVisit(q) \/ LinkVisit(q)
               \/ Publish(q) \/ Issue(q)
      PROVE  DueHasEvent'
  <2>1. row'.status = row.status
    BY <1>1, <1>7 DEF CommitLine, LineGone, SendOn, RecordVisit, LinkVisit, Publish, Issue, Row
  <2>2. event' = "due" => event = "due"
    BY <1>7 DEF CommitLine, LineGone, SendOn, RecordVisit, LinkVisit, Publish, Issue
  <2>3. QED
    BY <1>2, <2>1, <2>2
<1>8. ASSUME NEW q \in People, Request(q) \/ StartWork(q) \/ StartComplete(q) \/ Step(q)
      PROVE  DueHasEvent'
  <2>1. Request(q) \/ StartWork(q) \/ StartComplete(q) => DueHasEvent'
    BY <1>3, <1>4 DEF Request, StartLine, StartTransition, StartSend, StartSchedule, StartPartial,
                      StartFull, StartWork, StartComplete
  <2>2. Step(q) => DueHasEvent'
    BY <1>5, <1>6, <1>7 DEF Step
  <2>3. QED
    BY <1>8, <2>1, <2>2
<1>9. CASE Restart
  BY <1>9 DEF Restart, DueHasEvent
<1>10. CASE UNCHANGED vars
  BY <1>10 DEF vars, DueHasEvent
<1>11. QED
  BY <1>8, <1>9, <1>10 DEF Next, People

\* A step after which whoever was to announce the stage still is.
LEMMA HandedOn ==
  ASSUME IInv, StageInHand, NEW q \in People, NEW J, Become(q, J), row'.status = row.status,
         event' = "due" =>
           /\ event = "due"
           /\ Announcing(q) => J.to = row.status /\ J.at \in {"visit", "link", "publish"}
  PROVE  StageInHand'
<1>1. job' = [job EXCEPT ![q] = J] /\ job \in [People -> Job]
  BY DEF Become, IInv, TypeOK
<1>2. \A p \in People : job'[p] = IF p = q THEN J ELSE job[p]
  BY <1>1
<1>3. event' = "due" => \A p \in People : Announcing(p) => Announcing(p)'
  BY <1>2 DEF Announcing
<1>4. QED
  BY <1>3 DEF StageInHand

\* Whoever has written the stage is to announce it.
LEMMA WriterAnnounces ==
  ASSUME IInv, NEW q \in People, NEW J, Become(q, J), J.to = row'.status, J.at \in {"visit", "publish"}
  PROVE  StageInHand'
<1>1. job' = [job EXCEPT ![q] = J] /\ job \in [People -> Job]
  BY DEF Become, IInv, TypeOK
<1>2. job'[q] = J
  BY <1>1
<1>3. QED
  BY <1>2 DEF StageInHand, Announcing

LEMMA RequestInHand ==
  ASSUME IInv, StageInHand, DueHasEvent, NEW q \in People,
         Request(q) \/ StartWork(q) \/ StartComplete(q)
  PROVE  StageInHand'
<1>1. ASSUME NEW total \in 0..MaxTotal, Create(q, total) PROVE StageInHand'
  <2>1. row.status = "none" /\ UNCHANGED <<job, event>>
    BY <1>1 DEF Create
  <2>2. event # "due"
    BY <2>1 DEF DueHasEvent, Eventful, Stage
  <2>3. QED
    BY <2>1, <2>2 DEF StageInHand
<1>2. ASSUME NEW J, Begin(q, J) PROVE StageInHand'
  <2>1. ~Announcing(q)
    BY <1>2 DEF Begin, Announcing
  <2>2. QED
    BY <1>2, <2>1, HandedOn DEF Begin
<1>3. QED
  BY <1>1, <1>2 DEF Request, StartLine, StartTransition, StartSend, StartSchedule, StartPartial,
                    StartFull, StartWork, StartComplete

LEMMA StepInHand ==
  ASSUME IInv, StageInHand, DueHasEvent, NEW q \in People, Step(q) PROVE StageInHand'
<1>1. row \in Row /\ job[q] \in Job
  BY RowIsTyped DEF IInv, TypeOK
<1>2. CASE CommitStage(q)
  <2> DEFINE J == [Idle EXCEPT !.at = IF job[q].op = "complete" THEN "visit" ELSE "publish",
                               !.op = job[q].op, !.to = job[q].to]
  <2>1. Become(q, J)
    BY <1>2 DEF CommitStage
  <2>2. J.at \in {"visit", "publish"} /\ J.to = job[q].to
    BY DEF Idle
  <2>3. row'.status = job[q].to
    BY <1>1, <1>2 DEF CommitStage, Row
  <2> HIDE DEF J
  <2>4. QED
    BY <2>1, <2>2, <2>3, WriterAnnounces
<1>3. CASE RecordVisit(q)
  <2>1. PICK J : /\ Become(q, J) /\ J.at \in {"link", "publish"} /\ J.to = job[q].to
                 /\ UNCHANGED <<row, event>>
    BY <1>1, <1>3 DEF RecordVisit, Job
  <2>2. QED
    BY <2>1, HandedOn DEF Announcing
<1>4. CASE LinkVisit(q)
  <2>1. PICK J : /\ Become(q, J) /\ J.at = "publish" /\ J.to \in {job[q].to, row.status}
                 /\ row'.status = row.status /\ UNCHANGED event
    BY <1>1, <1>4 DEF LinkVisit, Job, Row
  <2>2. QED
    BY <2>1, HandedOn DEF Announcing
<1>5. CASE Publish(q)
  <2>1. PICK J : Become(q, J)
    BY <1>5 DEF Publish
  <2>2. event' = "due" => event = "due" /\ (job[q].to # row.status \/ row.status \notin Eventful)
    BY <1>5 DEF Publish
  <2>3. event = "due" => row.status \in Eventful
    BY DEF DueHasEvent
  <2>4. QED
    BY <1>5, <2>1, <2>2, <2>3, HandedOn DEF Publish, Announcing
<1>6. CASE CommitLine(q) \/ LineGone(q) \/ SendOn(q) \/ Issue(q)
  <2>1. ~Announcing(q) /\ UNCHANGED event
    BY <1>6 DEF CommitLine, LineGone, SendOn, Issue, Announcing
  <2>2. row'.status = row.status
    BY <1>1, <1>6 DEF CommitLine, LineGone, SendOn, Issue, Row
  <2>3. PICK J : Become(q, J)
    BY <1>6 DEF CommitLine, LineGone, SendOn, Issue
  <2>4. QED
    BY <2>1, <2>2, <2>3, HandedOn
<1>7. CASE RecordInvoice(q)
  <2>1. CASE Covers(job[q])
    <3> DEFINE J == [Idle EXCEPT !.at = "publish", !.to = "invoiced"]
    <3>1. Become(q, J)
      BY <1>7, <2>1 DEF RecordInvoice
    <3>2. J.at = "publish" /\ J.to = "invoiced"
      BY DEF Idle
    <3>3. row'.status = "invoiced"
      BY <1>1, <1>7, <2>1 DEF RecordInvoice, Row
    <3> HIDE DEF J
    <3>4. QED
      BY <3>1, <3>2, <3>3, WriterAnnounces
  <2>2. CASE ~Covers(job[q])
    <3>1. row'.status = row.status /\ UNCHANGED event /\ Become(q, Idle) /\ ~Announcing(q)
      BY <1>1, <1>7, <2>2 DEF RecordInvoice, Row, Announcing
    <3>2. QED
      BY <3>1, HandedOn
  <2>3. QED
    BY <2>1, <2>2
<1>8. QED
  BY <1>2, <1>3, <1>4, <1>5, <1>6, <1>7 DEF Step

LEMMA NextInHand == IInv /\ StageInHand /\ DueHasEvent /\ [Next]_vars => StageInHand'
<1> SUFFICES ASSUME IInv, StageInHand, DueHasEvent, [Next]_vars PROVE StageInHand'
  OBVIOUS
<1>1. CASE Restart
  BY <1>1 DEF Restart, StageInHand
<1>2. CASE UNCHANGED vars
  BY <1>2 DEF vars, StageInHand, Announcing
<1>3. QED
  BY <1>1, <1>2, RequestInHand, StepInHand DEF Next, People

\* While the event of the stage a job is in is due, a request is about to publish
\* it, whoever overtook whom: what StageIsTold waits for is lost in a restart only.
THEOREM NoStageForgotten == Spec => []StageInHand
<1>1. Init => StageInHand /\ DueHasEvent
  BY DEF Init, StageInHand, DueHasEvent
<1>2. QED
  BY <1>1, InitHolds, NextHolds, NextInHand, DueStays, PTL DEF Spec
=============================================================================
