------------------------------ MODULE RepairJobs ------------------------------
(***************************************************************************)
(* One repair job: the quote, its stages, the work and the invoices        *)
(* (apps/api/src/modules/jobs: service.ts, domain/stages.ts,               *)
(* domain/quote.ts; packages/domain-data/jobs/stages.v1.json).             *)
(*                                                                         *)
(* A request reads the job without a lock, decides, and commits; what it   *)
(* reads in one transaction is taken together.  The visit of a completed   *)
(* job and the invoice are made by other modules between two commits, and  *)
(* the event of a stage is published after the commit.  Dates, texts, the  *)
(* mail of a quote, a tenant's own stage list and the reminders are left   *)
(* out; VAT is rounded once on the net total and plays no part here.       *)
(***************************************************************************)
EXTENDS Integers, FiniteSets

CONSTANTS
  Office,       \* office users
  Technicians,  \* the technicians the job can be assigned to
  MaxTotal,     \* bound: net total of a quote version
  MaxVersion,   \* bound: quote versions
  MaxOps,       \* bound: requests of each person: [People -> Nat]
  MaxFaults     \* bound: restarts

People == Office \cup Technicians

ASSUME JobsAssumption ==
  /\ IsFiniteSet(Office) /\ IsFiniteSet(Technicians) /\ Office \cap Technicians = {}
  /\ MaxTotal \in Nat /\ MaxVersion \in Nat \ {0}
  /\ MaxOps \in [People -> Nat] /\ MaxFaults \in Nat

VARIABLES
  row,     \* the job row
  lines,   \* net total of the lines of each quote version
  issued,  \* net amount of the invoices billing has issued for the job
  visits,  \* callers (their client ids) with a repair visit for the job
  job,     \* the request each person is in
  left,    \* requests still to come
  event,   \* the event of the stage the row is in, since the stage was written:
           \* none, due, published, or lost in a restart
  stale,   \* history: columns decided on or written from a copy that had changed
  faults   \* restarts still to come

vars == <<row, lines, issued, visits, job, left, event, stale, faults>>

Stage == {"draft", "quoted", "awaiting_approval", "approved", "scheduled", "in_progress",
          "done", "invoiced", "rejected", "cancelled"}
NoJob == [status |-> "none", version |-> 1, net |-> 0, invoiced |-> 0, evidence |-> FALSE,
          scheduled |-> FALSE, visit |-> FALSE]
Idle == [at |-> "idle", op |-> "none", to |-> "none", seen |-> NoJob, total |-> 0, amount |-> 0]

Init ==
  /\ row = NoJob
  /\ lines = [v \in 1..MaxVersion |-> 0]
  /\ issued = 0 /\ visits = {}
  /\ job = [q \in People |-> Idle]
  /\ left = MaxOps
  /\ event = "none" /\ stale = {}
  /\ faults = MaxFaults

-----------------------------------------------------------------------------
(* The stage machine as shipped *)

AllowedNextEager(s) ==
  CASE s = "draft" -> {"quoted", "cancelled"}
    [] s = "quoted" -> {"awaiting_approval", "approved", "scheduled", "rejected", "draft", "cancelled"}
    [] s = "awaiting_approval" -> {"approved", "rejected", "quoted", "draft", "cancelled"}
    [] s = "approved" -> {"scheduled", "in_progress", "done", "cancelled"}
    [] s = "scheduled" -> {"in_progress", "done", "approved", "cancelled"}
    [] s = "in_progress" -> {"done", "scheduled"}
    [] s = "done" -> {"invoiced"}
    [] s = "rejected" -> {"draft"}
    [] OTHER -> {}

AllowedNext(s) ==
  CASE s = "draft" -> {"quoted", "cancelled"}
    [] s = "quoted" -> {"awaiting_approval", "approved", "rejected", "draft", "cancelled"}
    [] s = "awaiting_approval" -> {"approved", "rejected", "quoted", "draft", "cancelled"}
    [] s = "approved" -> {"scheduled", "in_progress", "done", "cancelled"}
    [] s = "scheduled" -> {"in_progress", "done", "approved", "cancelled"}
    [] s = "in_progress" -> {"done", "scheduled"}
    [] s = "done" -> {"invoiced"}
    [] s = "rejected" -> {"draft"}
    [] OTHER -> {}

NeedsEvidence(s) == s = "approved"
Editable(s) == s \in {"draft", "quoted", "awaiting_approval"}
CanAlways(from, to) == to \in Stage
CanTransition(from, to) == to \in AllowedNext(from)

-----------------------------------------------------------------------------
(* Requests *)

Become(q, next) == job' = [job EXCEPT ![q] = next]

Begin(q, next) ==
  /\ job[q].at = "idle" /\ left[q] > 0
  /\ left' = [left EXCEPT ![q] = @ - 1]
  /\ Become(q, next)
  /\ UNCHANGED <<row, lines, issued, visits, event, stale, faults>>

\* load: a technician sees the jobs that are assigned.
Visible(q) == row.status # "none" /\ (q \in Technicians => row.scheduled)

\* The columns q has written, or decided on, that are not those it has read.
Overtaken(q, columns) == stale' = stale \cup {c \in columns : row[c] # job[q].seen[c]}

\* create: a draft, with the total of the lines it is given.
Create(q, total) ==
  /\ row.status = "none" /\ job[q].at = "idle" /\ left[q] > 0
  /\ row' = [NoJob EXCEPT !.status = "draft", !.net = total]
  /\ lines' = [lines EXCEPT ![1] = total]
  /\ left' = [left EXCEPT ![q] = @ - 1]
  /\ UNCHANGED <<issued, visits, job, event, stale, faults>>

\* addLine, updateLine, removeLine: the change and the new sum of the version.
StartLine(q, change) ==
  /\ Visible(q) /\ Editable(row.status)
  /\ lines[row.version] + change \in 0..MaxTotal
  /\ Begin(q, [Idle EXCEPT !.at = "line", !.seen = row, !.amount = change,
                           !.total = lines[row.version] + change])

\* A line that is gone when it is deleted fails the request.
LineGone(q) ==
  /\ job[q].at = "line" /\ lines[job[q].seen.version] + job[q].amount < 0
  /\ Become(q, Idle)
  /\ UNCHANGED <<row, lines, issued, visits, left, event, stale, faults>>

CommitLine(q) ==
  LET j == job[q] IN
  /\ j.at = "line" /\ lines[j.seen.version] + j.amount >= 0
  /\ lines' = [lines EXCEPT ![j.seen.version] = @ + j.amount]
  /\ row' = [row EXCEPT !.net = j.total]
  /\ Overtaken(q, {"net", "version", "status"})
  /\ Become(q, Idle)
  /\ UNCHANGED <<issued, visits, left, event, faults>>

\* transition, without the stages that have a command of their own.
StageGuards(to) ==
  /\ to \in Stage \ {"done", "invoiced"} /\ CanTransition(row.status, to)
  /\ to \in {"quoted", "awaiting_approval"} => lines[row.version] > 0
  /\ to = "scheduled" => row.scheduled
  /\ to = "draft" => row.version < MaxVersion

Moving(op, to) == [Idle EXCEPT !.at = "stage", !.op = op, !.to = to, !.seen = row,
                               !.total = lines[row.version]]

StartTransition(q, to) ==
  /\ Visible(q) /\ StageGuards(to)
  /\ Begin(q, Moving("transition", to))

\* sendQuote: a draft is first quoted, then sent.
StartSend(q) ==
  /\ Visible(q) /\ row.status = "draft" /\ StageGuards("quoted")
  /\ Begin(q, Moving("send", "quoted"))

SendOn(q) ==
  /\ job[q].at = "send"
  /\ Become(q, IF StageGuards("awaiting_approval") THEN Moving("transition", "awaiting_approval")
               ELSE Idle)
  /\ UNCHANGED <<row, lines, issued, visits, left, event, stale, faults>>

\* schedule, also again; start; complete.
StartSchedule(q) ==
  /\ Visible(q) /\ (row.status = "scheduled" \/ CanTransition(row.status, "scheduled"))
  /\ Begin(q, Moving("schedule", "scheduled"))

StartWork(q) ==
  /\ Visible(q) /\ CanTransition(row.status, "in_progress")
  /\ Begin(q, Moving("start", "in_progress"))

StartComplete(q) ==
  /\ Visible(q) /\ CanTransition(row.status, "done")
  /\ Begin(q, Moving("complete", "done"))

\* publishStage has an event for every stage but these two.
Eventful == Stage \ {"draft", "awaiting_approval"}
Due(stage) == IF stage \in Eventful THEN "due" ELSE "none"

\* Back to draft is a new version with a copy of the lines.
CopyLines(j) == [lines EXCEPT ![j.seen.version + 1] = @ + j.total]

CommitStage(q) ==
  LET j == job[q] IN
  /\ j.at = "stage"
  /\ row' = [row EXCEPT !.status = j.to,
                        !.evidence = @ \/ NeedsEvidence(j.to),
                        !.scheduled = @ \/ j.op = "schedule",
                        !.version = IF j.to = "draft" THEN j.seen.version + 1 ELSE @]
  /\ lines' = IF j.to = "draft" THEN CopyLines(j) ELSE lines
  /\ Overtaken(q, {"status", "version"} \cup (IF j.to = "draft" THEN {"net"} ELSE {}))
  /\ Become(q, [Idle EXCEPT !.at = IF j.op = "complete" THEN "visit" ELSE "publish",
                            !.op = j.op, !.to = j.to])
  /\ event' = Due(j.to)
  /\ UNCHANGED <<issued, visits, left, faults>>

RecordOrGiveUp(q) ==
  /\ job[q].at = "visit"
  /\ \/ visits' = visits \cup {q} /\ Become(q, [job[q] EXCEPT !.at = "link"])
     \/ visits' = visits /\ Become(q, Idle)
  /\ UNCHANGED <<row, lines, issued, left, event, stale, faults>>

\* The repair visit, through the port: its id is the caller's, its failure is
\* caught.
RecordVisit(q) ==
  /\ job[q].at = "visit"
  /\ \/ visits' = visits \cup {q} /\ Become(q, [job[q] EXCEPT !.at = "link"])
     \/ visits' = visits /\ Become(q, [job[q] EXCEPT !.at = "publish"])
  /\ UNCHANGED <<row, lines, issued, left, event, stale, faults>>

\* The update returns the whole row as it is by now: a stage that was committed
\* meanwhile takes the place of done.  A failure is caught here too.
LinkVisit(q) ==
  /\ job[q].at = "link"
  /\ \/ row' = [row EXCEPT !.visit = TRUE]
        /\ Become(q, [job[q] EXCEPT !.at = "publish", !.to = row.status])
     \/ row' = row /\ Become(q, [job[q] EXCEPT !.at = "publish"])
  /\ UNCHANGED <<lines, issued, visits, left, event, stale, faults>>

\* The event of the stage in the row the request's last update returned.
Publish(q) ==
  /\ job[q].at = "publish"
  /\ event' = IF job[q].to = row.status /\ row.status \in Eventful THEN "published" ELSE event
  /\ Become(q, IF job[q].op = "send" THEN [Idle EXCEPT !.at = "send"] ELSE Idle)
  /\ UNCHANGED <<row, lines, issued, visits, left, stale, faults>>

-----------------------------------------------------------------------------
(* invoice *)

WholeNet == row.net
Remaining == IF row.net > row.invoiced THEN row.net - row.invoiced ELSE 0

Invoicing(op, amount, total) ==
  [at |-> "issue", op |-> op, to |-> "none", seen |-> row, total |-> total, amount |-> amount]

\* A part of what remains, from approved onwards.
StartPartial(q, amount) ==
  /\ Visible(q) /\ row.status \in {"approved", "scheduled", "in_progress", "done"}
  /\ amount \in 1..Remaining
  /\ Begin(q, Invoicing("partial", amount, amount))

\* The rest: every line, less the deposits.
StartFull(q) ==
  /\ Visible(q) /\ CanTransition(row.status, "invoiced") /\ Remaining > 0
  /\ Begin(q, Invoicing("full", Remaining, lines[row.version] - row.invoiced))

Issue(q) ==
  /\ job[q].at = "issue"
  /\ issued' = issued + job[q].total
  /\ Become(q, [job[q] EXCEPT !.at = "record"])
  /\ UNCHANGED <<row, lines, visits, left, event, stale, faults>>

Covers(j) == j.op = "full" \/ j.seen.invoiced + j.amount >= j.seen.net

RecordInvoice(q) ==
  LET j == job[q] IN
  /\ j.at = "record"
  /\ row' = [row EXCEPT !.invoiced = j.seen.invoiced + j.amount,
                        !.status = IF Covers(j) THEN "invoiced" ELSE @]
  /\ Overtaken(q, {"invoiced"} \cup (IF Covers(j) THEN {"status"} ELSE {}))
  /\ Become(q, IF Covers(j) THEN [Idle EXCEPT !.at = "publish", !.to = "invoiced"] ELSE Idle)
  /\ event' = IF Covers(j) THEN "due" ELSE event
  /\ UNCHANGED <<lines, issued, visits, left, faults>>

Restart ==
  /\ faults > 0 /\ \E q \in People : job[q].at # "idle"
  /\ faults' = faults - 1
  /\ job' = [q \in People |-> Idle]
  /\ event' = IF event = "due" THEN "lost" ELSE event
  /\ UNCHANGED <<row, lines, issued, visits, left, stale>>

-----------------------------------------------------------------------------
Request(q) ==
  \/ \E total \in 0..MaxTotal : Create(q, total)
  \/ \E change \in {-1, 1} : StartLine(q, change)
  \/ \E to \in Stage : StartTransition(q, to)
  \/ StartSend(q) \/ StartSchedule(q)
  \/ \E amount \in 1..MaxTotal : StartPartial(q, amount)
  \/ StartFull(q)

Step(q) ==
  \/ LineGone(q) \/ CommitLine(q) \/ CommitStage(q) \/ SendOn(q)
  \/ RecordVisit(q) \/ LinkVisit(q) \/ Publish(q)
  \/ Issue(q) \/ RecordInvoice(q)

Next ==
  \/ \E q \in Office : Request(q)
  \/ \E q \in People : StartWork(q) \/ StartComplete(q) \/ Step(q)
  \/ Restart

Spec == Init /\ [][Next]_vars

\* A request that has begun goes on until it ends or the server stops.
FairSpec == Spec /\ \A q \in People : WF_vars(Step(q))

-----------------------------------------------------------------------------
Row == [status : Stage \cup {"none"}, version : 1..MaxVersion, net : Nat, invoiced : Nat,
        evidence : BOOLEAN, scheduled : BOOLEAN, visit : BOOLEAN]
Job == [at : {"idle", "line", "stage", "send", "visit", "link", "publish", "issue", "record"},
        op : {"none", "transition", "send", "schedule", "start", "complete", "partial", "full"},
        to : Stage \cup {"none"}, seen : Row, total : Int, amount : Int]

\* Every variable has its type: the versions, totals and stages that requests
\* in flight carry stay those of a job, and a visit the job refers to exists.
TypeOK ==
  /\ row \in Row
  /\ lines \in [1..MaxVersion -> Nat]
  /\ issued \in Int /\ visits \subseteq People /\ (row.visit => visits # {})
  /\ job \in [People -> Job] /\ left \in [People -> Nat]
  /\ event \in {"none", "due", "published", "lost"}
  /\ stale \subseteq {"status", "version", "net", "invoiced"}
  /\ faults \in 0..MaxFaults

\* Work is only planned, done and billed under an approval with evidence, even
\* when requests overtake each other: no sequence of overwritten stages leads
\* round it.
Agreed == {"approved", "scheduled", "in_progress", "done", "invoiced"}
EvidenceHeld == row.status \in Agreed => row.evidence

Billing == {q \in People : job[q].at \in {"issue", "record"}}
OneInvoiceAtATime ==
  /\ Cardinality(Billing) <= 1
  /\ \A q \in Billing : job[q].seen.invoiced = row.invoiced

\* The customer is billed what was quoted: unless two requests overtook each
\* other or the server stopped in one, the invoices of a job never exceed the
\* sum of the lines of its current version, through edits and revisions, and
\* they add up to it once the job is invoiced.
BilledAsQuoted ==
  OneInvoiceAtATime /\ stale = {} /\ faults = MaxFaults =>
    /\ issued <= lines[row.version]
    /\ row.status = "invoiced" => issued = lines[row.version]

\* A job is completed once: two repair visits for it mean that two people's
\* completions overtook each other.
OneVisit == "status" \notin stale => Cardinality(visits) <= 1

\* The stage of a job only moves along the table (AllowedNext), or to invoiced
\* when a partial invoice covers the rest, unless the request decided on a stage
\* that had changed: an unlocked read is the only way round the table.
StageMoves(from, to) ==
  \/ from = "none" /\ to = "draft"
  \/ CanTransition(from, to)
  \/ from \in {"approved", "scheduled", "in_progress"} /\ to = "invoiced"
OneStageOn ==
  row'.status # row.status => StageMoves(row.status, row'.status) \/ "status" \in stale'
StagesInOrder == [][OneStageOn]_vars

\* What StageIsTold waits for is never lost: while the event of the present stage
\* is due, some request is about to publish it, also when the request that wrote
\* the stage has overtaken one that still publishes, or is overtaken itself.
Announcing(q) == job[q].at \in {"visit", "link", "publish"} /\ job[q].to = row.status
StageInHand == event = "due" => \E q \in People : Announcing(q)

\* The stage in which a job comes to rest is announced, unless the server stops
\* between its commit and the event.  An earlier one need not be: the completion
\* of a job that is invoiced before its visit is linked is never published.
StageIsTold == []<>(event # "due")
=============================================================================
