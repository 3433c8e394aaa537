------------------------------ MODULE EventBusProofs ------------------------------
(***************************************************************************)
(* Proofs about the event bus, for any number of events, handlers, workers,*)
(* retries and faults.                                                     *)
(***************************************************************************)
EXTENDS EventBus, TLAPS

\* The records of the queue and of the workers.
JobStates == {"none", "queued", "active", "over"}
Tries == 0..RetryLimit
JobSet == [state : JobStates, tries : Tries]
Ats == {"idle", "read", "claim", "handle", "succeeded", "threw"}
WorkerSet == [at : Ats, pair : Pairs \cup {Nobody}, slot : Slots, try : Tries,
              attempts : Nat]

\* A busy worker works on a pair.
BusyOnPair == \A w \in Workers : worker[w].at # "idle" => worker[w].pair \in Pairs

\* A run that is past its read has seen a committed event.
PastTheRead ==
  \A w \in Workers : worker[w].at \in {"claim", "handle", "succeeded", "threw"}
                       => event[worker[w].pair[1]] = "committed"

\* A run is recorded as a success only after the handler's effect.
SucceededRan == \A w \in Workers : worker[w].at = "succeeded" => ran[worker[w].pair] > 0

-----------------------------------------------------------------------------
(* What the helpers return *)

LEMMA RetriedType == ASSUME NEW j \in JobSet PROVE Retried(j) \in JobSet
<1>1. RetryLimit \in Nat /\ j.tries \in 0..RetryLimit /\ j.state \in JobStates
  BY BusAssumption DEF JobSet, Tries
<1>2. CASE j.tries < RetryLimit
  <2>1. j.tries + 1 \in Tries
    BY <1>1, <1>2 DEF Tries
  <2> QED
    BY <1>2, <2>1 DEF Retried, JobSet, JobStates
<1>3. CASE ~(j.tries < RetryLimit)
  BY <1>3 DEF Retried, JobSet, JobStates
<1> QED
  BY <1>2, <1>3

\* Replacing one job keeps the queue's shape.
LEMMA SetJob ==
  ASSUME jobs \in [Pairs -> [Slots -> JobSet]],
         NEW x \in Pairs, NEW s \in Slots, NEW j \in JobSet
  PROVE  [jobs EXCEPT ![x][s] = j] \in [Pairs -> [Slots -> JobSet]]
<1>1. [jobs[x] EXCEPT ![s] = j] \in [Slots -> JobSet]
  OBVIOUS
<1> QED
  BY <1>1

LEMMA EnqueueType ==
  ASSUME jobs \in [Pairs -> [Slots -> JobSet]], NEW x \in Pairs, Enqueue(x)
  PROVE  jobs' \in [Pairs -> [Slots -> JobSet]]
<1>1. CASE FreeSlots(x) = {}
  BY <1>1 DEF Enqueue
<1>2. CASE FreeSlots(x) # {}
  <2>1. PICK s \in FreeSlots(x) : jobs' = Queued(x, s)
    BY <1>2 DEF Enqueue
  <2>2. s \in Slots
    BY DEF FreeSlots
  <2>3. [state |-> "queued", tries |-> 0] \in JobSet
    BY BusAssumption DEF JobSet, JobStates, Tries
  <2> QED
    BY <2>1, <2>2, <2>3, SetJob DEF Queued
<1> QED
  BY <1>1, <1>2

LEMMA ReportType ==
  ASSUME jobs \in [Pairs -> [Slots -> JobSet]], worker \in [Workers -> WorkerSet],
         NEW w \in Workers, worker[w].pair \in Pairs, NEW j \in JobSet, Report(w, j)
  PROVE  jobs' \in [Pairs -> [Slots -> JobSet]]
<1>1. worker[w].slot \in Slots
  BY DEF WorkerSet
<1> QED
  BY <1>1, SetJob DEF Report

\* The type invariant in terms of the record sets.
Shaped ==
  /\ event \in [AllEvents -> {"none", "open", "committed", "aborted"}]
  /\ pending \subseteq Pairs /\ sweeping \subseteq Pairs /\ acked \subseteq Pairs
  /\ jobs \in [Pairs -> [Slots -> JobSet]]
  /\ delivery \in [Pairs -> Rows]
  /\ worker \in [Workers -> WorkerSet]
  /\ ran \in [Pairs -> Nat]
  /\ faults \in 0..MaxFaults

LEMMA ShapedIsTypeOK == Shaped <=> TypeOK
BY DEF Shaped, TypeOK, JobSet, JobStates, Tries, WorkerSet, Ats

LEMMA IdleType == Idle \in WorkerSet
<1>1. 1 \in Slots /\ 0 \in Tries
  BY BusAssumption DEF Slots, Tries
<1> QED
  BY <1>1 DEF Idle, WorkerSet, Ats

\* Moving a worker keeps the workers' shape.
LEMMA SetWorker ==
  ASSUME worker \in [Workers -> WorkerSet], NEW w \in Workers, NEW W \in WorkerSet
  PROVE  [worker EXCEPT ![w] = W] \in [Workers -> WorkerSet]
OBVIOUS

LEMMA MoveWorker ==
  ASSUME worker \in [Workers -> WorkerSet], NEW w \in Workers, NEW a \in Ats
  PROVE  [worker EXCEPT ![w].at = a] \in [Workers -> WorkerSet]
<1>1. [worker[w] EXCEPT !.at = a] \in WorkerSet
  BY DEF WorkerSet
<1> QED
  BY <1>1, SetWorker

-----------------------------------------------------------------------------
(* Every variable keeps its shape *)

TInv == Shaped /\ BusyOnPair

LEMMA InitTyped == Init => TInv
<1> SUFFICES ASSUME Init PROVE TInv
  OBVIOUS
<1>1. NoJob \in JobSet
  BY BusAssumption DEF NoJob, JobSet, JobStates, Tries
<1>2. NoRow \in Rows
  BY DEF NoRow, Rows
<1>3. Shaped
  <2>1. jobs \in [Pairs -> [Slots -> JobSet]]
    BY <1>1 DEF Init
  <2>2. delivery \in [Pairs -> Rows] /\ worker \in [Workers -> WorkerSet]
    BY <1>2, IdleType DEF Init
  <2>3. ran \in [Pairs -> Nat] /\ event \in [AllEvents -> {"none", "open", "committed", "aborted"}]
    BY DEF Init
  <2>4. pending \subseteq Pairs /\ sweeping \subseteq Pairs 
    BY DEF Init
  <2>5. acked \subseteq Pairs
    BY DEF Init
  <2>6. faults \in 0..MaxFaults
    BY BusAssumption DEF Init
  <2> QED
    BY <2>1, <2>2, <2>3, <2>4, <2>5, <2>6 DEF Shaped
<1>4. BusyOnPair
  BY DEF Init, BusyOnPair, Idle
<1> QED
  BY <1>3, <1>4 DEF TInv

LEMMA PublisherTyped ==
  ASSUME TInv,
         \/ \E e \in AllEvents : Publish(e) \/ \E o \in {"committed", "aborted"} : EndTransaction(e, o)
         \/ \E x \in Pairs : Dispatch(x) \/ SweepSends(x)
         \/ LoseDispatch(pending) \/ \E x \in pending : LoseDispatch({x})
         \/ SweepReads \/ Acknowledge
  PROVE  TInv'
<1> USE DEF TInv, Shaped
<1>0. worker' = worker
  BY DEF Publish, EndTransaction, Dispatch, SweepSends, LoseDispatch, SweepReads, Acknowledge
<1>b. BusyOnPair'
  BY <1>0 DEF BusyOnPair
<1>1. ASSUME NEW e \in AllEvents, Publish(e) PROVE Shaped'
  <2>1. {e} \X Handlers \subseteq Pairs
    BY DEF Pairs
  <2>2. pending' \subseteq Pairs
    BY <1>1, <2>1 DEF Publish
  <2>3. event' \in [AllEvents -> {"none", "open", "committed", "aborted"}]
    BY <1>1 DEF Publish
  <2> QED
    BY <1>1, <2>2, <2>3 DEF Publish
<1>2. ASSUME NEW e \in AllEvents, NEW o \in {"committed", "aborted"}, EndTransaction(e, o)
      PROVE Shaped'
  BY <1>2 DEF EndTransaction
<1>3. ASSUME NEW x \in Pairs, Dispatch(x) PROVE Shaped'
  BY <1>3, EnqueueType DEF Dispatch
<1>4. ASSUME NEW x \in Pairs, SweepSends(x) PROVE Shaped'
  BY <1>4, EnqueueType DEF SweepSends
<1>5. ASSUME NEW lost, LoseDispatch(lost) PROVE Shaped'
  BY <1>5, BusAssumption DEF LoseDispatch
<1>6. ASSUME SweepReads PROVE Shaped'
  BY <1>6 DEF SweepReads, Missing
<1>7. ASSUME Acknowledge PROVE Shaped'
  <2>1. delivery' \in [Pairs -> Rows]
    BY <1>7 DEF Acknowledge, Rows
  <2>2. acked' \subseteq Pairs
    BY <1>7 DEF Acknowledge, Missing
  <2>3. UNCHANGED <<event, pending, jobs, worker, sweeping, ran, faults>>
    BY <1>7 DEF Acknowledge
  <2> QED
    BY <2>1, <2>2, <2>3
<1> QED
  BY <1>b, <1>1, <1>2, <1>3, <1>4, <1>5, <1>6, <1>7

LEMMA FetchTyped ==
  ASSUME TInv, NEW w \in Workers, NEW x \in Pairs, NEW s \in Slots, Fetch(w, x, s)
  PROVE  TInv'
<1> USE DEF TInv, Shaped
<1>1. jobs[x][s] \in JobSet /\ jobs[x][s].tries \in Tries
  BY DEF JobSet
<1>2. jobs' \in [Pairs -> [Slots -> JobSet]]
  <2>1. [state |-> "active", tries |-> jobs[x][s].tries] \in JobSet
    BY <1>1 DEF JobSet, JobStates
  <2> QED
    BY <2>1, SetJob DEF Fetch
<1> DEFINE W == [at |-> "read", pair |-> x, slot |-> s, try |-> jobs[x][s].tries,
                 attempts |-> 0]
<1>3. W \in WorkerSet
  BY <1>1 DEF WorkerSet, Ats
<1>4. worker' = [worker EXCEPT ![w] = W]
  BY DEF Fetch
<1>5. worker' \in [Workers -> WorkerSet]
  BY <1>3, <1>4
<1>6. BusyOnPair'
  BY <1>4 DEF BusyOnPair
<1> QED
  BY <1>2, <1>5, <1>6 DEF Fetch

\* A worker that goes idle, or moves on within its run, keeps its pair.
LEMMA StaysOnPair ==
  ASSUME TInv, NEW w \in Workers,
         \/ worker' = [worker EXCEPT ![w] = Idle]
         \/ worker[w].at # "idle" /\ \E a \in Ats : worker' = [worker EXCEPT ![w].at = a]
  PROVE  worker' \in [Workers -> WorkerSet] /\ BusyOnPair'
<1> USE DEF TInv, Shaped
<1>1. CASE worker' = [worker EXCEPT ![w] = Idle]
  <2>1. worker' \in [Workers -> WorkerSet]
    BY <1>1, IdleType, SetWorker
  <2>2. Idle.at = "idle"
    BY DEF Idle
  <2> QED
    BY <1>1, <2>1, <2>2 DEF BusyOnPair
<1>2. CASE worker[w].at # "idle" /\ \E a \in Ats : worker' = [worker EXCEPT ![w].at = a]
  <2>1. PICK a \in Ats : worker' = [worker EXCEPT ![w].at = a]
    BY <1>2
  <2>2. worker' \in [Workers -> WorkerSet]
    BY <2>1, MoveWorker
  <2>3. \A v \in Workers : worker'[v].pair = worker[v].pair
    BY <2>1 DEF WorkerSet
  <2>4. \A v \in Workers : v # w => worker'[v] = worker[v]
    BY <2>1
  <2> QED
    BY <1>2, <2>2, <2>3, <2>4 DEF BusyOnPair
<1> QED
  BY <1>1, <1>2

LEMMA ReadTyped == ASSUME TInv, NEW w \in Workers, Read(w) PROVE TInv'
<1> USE DEF TInv, Shaped
<1> DEFINE x == worker[w].pair
<1>1. worker[w].at = "read" /\ x \in Pairs
  BY DEF Read, BusyOnPair
<1>2. worker[w] \in WorkerSet /\ worker[w].slot \in Slots
  BY DEF WorkerSet
<1>3. Job(w) \in JobSet
  BY <1>1, <1>2 DEF Job
<1>4. [Job(w) EXCEPT !.state = "over"] \in JobSet /\ Retried(Job(w)) \in JobSet
  BY <1>3, RetriedType DEF JobSet, JobStates
<1>5. delivery[x] \in Rows /\ delivery[x].attempts + 1 \in Nat
  BY <1>1 DEF Rows
<1>6. jobs' \in [Pairs -> [Slots -> JobSet]]
  <2>1. CASE Report(w, [Job(w) EXCEPT !.state = "over"])
    BY <2>1, <1>1, <1>4, ReportType
  <2>2. CASE Report(w, Retried(Job(w)))
    BY <2>2, <1>1, <1>4, ReportType
  <2>3. CASE jobs' = jobs
    BY <2>3
  <2> QED
    BY <2>1, <2>2, <2>3 DEF Read
<1>7. worker' \in [Workers -> WorkerSet] /\ BusyOnPair'
  <2>1. CASE worker' = [worker EXCEPT ![w] = Idle]
    BY <2>1, StaysOnPair
  <2>2. CASE worker' = [worker EXCEPT ![w].at = "claim",
                                      ![w].attempts = delivery[x].attempts + 1]
    <3> DEFINE W == [worker[w] EXCEPT !.at = "claim", !.attempts = delivery[x].attempts + 1]
    <3>1. W \in WorkerSet /\ W.pair = x
      BY <1>2, <1>5 DEF WorkerSet, Ats
    <3>2. worker' = [worker EXCEPT ![w] = W]
      BY <2>2
    <3> HIDE DEF W
    <3> QED
      BY <1>1, <3>1, <3>2 DEF BusyOnPair
  <2> QED
    BY <2>1, <2>2 DEF Read
<1>8. UNCHANGED <<event, pending, delivery, sweeping, acked, ran, faults>>
  BY DEF Read
<1> QED
  BY <1>6, <1>7, <1>8

LEMMA ClaimTyped == ASSUME TInv, NEW w \in Workers, Claim(w) PROVE TInv'
<1> USE DEF TInv, Shaped
<1> DEFINE x == worker[w].pair
<1>1. worker[w].at = "claim" /\ x \in Pairs /\ "handle" \in Ats
  BY DEF Claim, BusyOnPair, Ats
<1>2. worker' \in [Workers -> WorkerSet] /\ BusyOnPair'
  <2>1. worker' = [worker EXCEPT ![w].at = "handle"]
    BY DEF Claim
  <2> QED
    BY <1>1, <2>1, StaysOnPair
<1>3. worker[w].attempts \in Nat /\ delivery[x] \in Rows
  BY <1>1 DEF WorkerSet
<1>4. Claimed(x, worker[w].attempts) \in Rows
  BY <1>3 DEF Claimed, Rows
<1>5. delivery' \in [Pairs -> Rows]
  BY <1>1, <1>4 DEF Claim
<1> QED
  BY <1>2, <1>5 DEF Claim

LEMMA HandleTyped ==
  ASSUME TInv, NEW w \in Workers, Handle(w) \/ HandlerThrows(w) \/ Crash(w) PROVE TInv'
<1> USE DEF TInv, Shaped
<1>1. {"succeeded", "threw"} \subseteq Ats
  BY DEF Ats
<1>2. worker' \in [Workers -> WorkerSet] /\ BusyOnPair'
  <2>1. CASE Handle(w)
    BY <2>1, <1>1, StaysOnPair DEF Handle
  <2>2. CASE HandlerThrows(w)
    BY <2>2, <1>1, StaysOnPair DEF HandlerThrows
  <2>3. CASE Crash(w)
    BY <2>3, StaysOnPair DEF Crash
  <2> QED
    BY <2>1, <2>2, <2>3
<1>3. ran' \in [Pairs -> Nat]
  BY DEF Handle, HandlerThrows, Crash
<1>4. faults' \in 0..MaxFaults
  BY BusAssumption DEF Handle, HandlerThrows, Crash
<1>5. UNCHANGED <<event, pending, jobs, delivery, sweeping, acked>>
  BY DEF Handle, HandlerThrows, Crash
<1> QED
  BY <1>2, <1>3, <1>4, <1>5

LEMMA RecordTyped ==
  ASSUME TInv, NEW w \in Workers, RecordDone(w) \/ RecordFailure(w) PROVE TInv'
<1> USE DEF TInv, Shaped
<1> DEFINE x == worker[w].pair
<1>1. x \in Pairs /\ worker[w].slot \in Slots
  BY DEF RecordDone, RecordFailure, BusyOnPair, WorkerSet
<1>2. Job(w) \in JobSet
  BY <1>1 DEF Job
<1>3. [Job(w) EXCEPT !.state = "over"] \in JobSet /\ Retried(Job(w)) \in JobSet
  BY <1>2, RetriedType DEF JobSet, JobStates
<1>4. jobs' \in [Pairs -> [Slots -> JobSet]]
  BY <1>1, <1>3, ReportType DEF RecordDone, RecordFailure
<1>5. worker' \in [Workers -> WorkerSet] /\ BusyOnPair'
  BY StaysOnPair DEF RecordDone, RecordFailure
<1>6. delivery' \in [Pairs -> Rows]
  <2>1. \A t \in {"pending", "done", "failed"} : [delivery[x] EXCEPT !.status = t] \in Rows
    BY <1>1 DEF Rows
  <2>2. \E t \in {"pending", "done", "failed"} : delivery' = [delivery EXCEPT ![x].status = t]
    BY DEF RecordDone, RecordFailure
  <2> QED
    BY <1>1, <2>1, <2>2
<1>8. UNCHANGED <<event, pending, sweeping, acked, ran, faults>>
  BY DEF RecordDone, RecordFailure
<1> QED
  BY <1>4, <1>5, <1>6, <1>8

LEMMA ExpireTyped ==
  ASSUME TInv, NEW x \in Pairs, NEW s \in Slots, Expire(x, s) \/ ExpireSlow(x, s)
  PROVE  TInv'
<1> USE DEF TInv, Shaped
<1>1. jobs[x][s] \in JobSet
  OBVIOUS
<1>2. jobs' \in [Pairs -> [Slots -> JobSet]]
  <2>1. Retried(jobs[x][s]) \in JobSet
    BY <1>1, RetriedType
  <2>2. jobs' = [jobs EXCEPT ![x][s] = Retried(jobs[x][s])]
    BY DEF Expire, ExpireSlow
  <2> QED
    BY <2>1, <2>2, SetJob
<1>3. faults' \in 0..MaxFaults
  BY BusAssumption DEF Expire, ExpireSlow
<1>4. UNCHANGED <<event, pending, delivery, worker, sweeping, acked, ran>>
  BY DEF Expire, ExpireSlow
<1>5. BusyOnPair'
  BY <1>4 DEF BusyOnPair
<1> QED
  BY <1>2, <1>3, <1>4, <1>5

LEMMA TypedStep == TInv /\ [Next]_vars => TInv'
<1> SUFFICES ASSUME TInv, [Next]_vars PROVE TInv'
  OBVIOUS
<1>1. CASE UNCHANGED vars
  BY <1>1 DEF vars, TInv, Shaped, BusyOnPair
<1>2. CASE Next
  BY <1>2, PublisherTyped, FetchTyped, ReadTyped, ClaimTyped, HandleTyped, RecordTyped, ExpireTyped
     DEF Next, WorkerStep
<1> QED
  BY <1>1, <1>2

LEMMA Typed == Spec => []TInv
BY InitTyped, TypedStep, PTL DEF Spec

\* Type correctness: the queue never holds a job with more tries than the
\* retries allow, and rows, runs and events keep their states.
THEOREM TypeCorrect == Spec => []TypeOK
<1>1. TInv => TypeOK
  BY ShapedIsTypeOK DEF TInv
<1> QED
  BY <1>1, Typed, PTL

-----------------------------------------------------------------------------
(* Only committed events run, and only handlers that ran are recorded *)

SInv == TInv /\ PastTheRead /\ SucceededRan /\ OnlyCommittedEvents /\ DoneMeansRan

LEMMA InitSafe == Init => SInv
<1> SUFFICES ASSUME Init PROVE SInv
  OBVIOUS
<1>1. PastTheRead /\ SucceededRan
  BY DEF Init, PastTheRead, SucceededRan, Idle
<1>2. OnlyCommittedEvents /\ DoneMeansRan
  BY DEF Init, OnlyCommittedEvents, DoneMeansRan, NoRow
<1> QED
  BY <1>1, <1>2, InitTyped DEF SInv

\* A step that changes neither effects nor deliveries, keeps committed events
\* committed and moves no worker past its read.
LEMMA QuietStep ==
  ASSUME SInv, TInv', UNCHANGED <<worker, delivery, ran>>, acked \subseteq acked',
         \A e \in AllEvents : event[e] = "committed" => event'[e] = "committed"
  PROVE  SInv'
<1>0. \A x \in Pairs : x[1] \in AllEvents
  BY DEF Pairs
<1>1. PastTheRead'
  BY <1>0 DEF SInv, PastTheRead, TInv, BusyOnPair
<1>2. SucceededRan'
  BY DEF SInv, SucceededRan
<1>3. OnlyCommittedEvents'
  BY <1>0 DEF SInv, OnlyCommittedEvents
<1>4. DoneMeansRan'
  BY DEF SInv, DoneMeansRan
<1> QED
  BY <1>1, <1>2, <1>3, <1>4 DEF SInv

\* A step of one worker that stays before its read, goes idle, or moves on.
LEMMA WorkerMoves ==
  ASSUME SInv, TInv', NEW w \in Workers, UNCHANGED <<event, ran, acked>>,
         \A v \in Workers \ {w} : worker'[v] = worker[v],
         \/ worker'[w].at \in {"idle", "read"}
         \/ worker'[w].at \in {"claim", "handle", "threw"}
              /\ worker'[w].pair = worker[w].pair
              /\ event[worker[w].pair[1]] = "committed",
         \A x \in Pairs : delivery'[x].status = "done" =>
                            delivery[x].status = "done" \/ ran[x] > 0
  PROVE  SInv'
<1>1. PastTheRead'
  BY DEF SInv, PastTheRead
<1>2. SucceededRan'
  BY DEF SInv, SucceededRan
<1>3. OnlyCommittedEvents'
  BY DEF SInv, OnlyCommittedEvents
<1>4. DoneMeansRan'
  BY DEF SInv, DoneMeansRan
<1> QED
  BY <1>1, <1>2, <1>3, <1>4 DEF SInv

LEMMA AcknowledgeSafe == ASSUME SInv, TInv', Acknowledge PROVE SInv'
<1>1. PastTheRead' /\ SucceededRan' /\ OnlyCommittedEvents'
  BY DEF SInv, PastTheRead, SucceededRan, OnlyCommittedEvents, Acknowledge
<1>2. \A x \in Pairs : delivery'[x].status = "done" => delivery[x].status = "done" \/ x \in Missing
  BY DEF Acknowledge
<1>3. DoneMeansRan'
  BY <1>2 DEF SInv, DoneMeansRan, Acknowledge
<1> QED
  BY <1>1, <1>3 DEF SInv

LEMMA HandleSafe == ASSUME SInv, TInv', NEW w \in Workers, Handle(w) PROVE SInv'
<1> DEFINE x == worker[w].pair
<1>1. x \in Pairs /\ event[x[1]] = "committed"
  BY DEF SInv, TInv, BusyOnPair, PastTheRead, Handle
<1>2. worker[w] \in WorkerSet /\ ran \in [Pairs -> Nat] /\ worker \in [Workers -> WorkerSet]
  BY DEF SInv, TInv, Shaped
<1>3. ran'[x] = ran[x] + 1 /\ \A y \in Pairs \ {x} : ran'[y] = ran[y]
  BY <1>1, <1>2 DEF Handle
<1>4. worker'[w].pair = x /\ \A v \in Workers \ {w} : worker'[v] = worker[v]
  BY <1>2 DEF Handle, WorkerSet
<1>5. ran'[x] > 0 /\ \A y \in Pairs : ran[y] > 0 => ran'[y] > 0
  BY <1>1, <1>2, <1>3
<1>6. PastTheRead'
  BY <1>1, <1>4 DEF SInv, PastTheRead, Handle
<1>7. SucceededRan'
  <2> SUFFICES ASSUME NEW v \in Workers, worker'[v].at = "succeeded"
               PROVE  ran'[worker'[v].pair] > 0
    BY DEF SucceededRan
  <2>1. CASE v = w
    BY <2>1, <1>4, <1>5
  <2>2. CASE v # w
    <3>1. worker'[v] = worker[v] /\ worker[v].pair \in Pairs /\ ran[worker[v].pair] > 0
      BY <2>2, <1>4 DEF SInv, TInv, BusyOnPair, SucceededRan
    <3> QED
      BY <3>1, <1>5
  <2> QED
    BY <2>1, <2>2
<1>8. OnlyCommittedEvents'
  BY <1>1, <1>3 DEF SInv, OnlyCommittedEvents, Handle
<1>9. DoneMeansRan'
  BY <1>5 DEF SInv, DoneMeansRan, Handle
<1> QED
  BY <1>6, <1>7, <1>8, <1>9 DEF SInv

LEMMA SafeStep == SInv /\ [Next]_vars => SInv'
<1> SUFFICES ASSUME SInv, [Next]_vars PROVE SInv'
  OBVIOUS
<1>t. TInv'
  BY TypedStep DEF SInv
<1>w. worker \in [Workers -> WorkerSet] /\ delivery \in [Pairs -> Rows]
  BY DEF SInv, TInv, Shaped
<1>i. Idle.at = "idle"
  BY DEF Idle
<1>1. CASE UNCHANGED vars
  BY <1>1, <1>t, QuietStep DEF vars
<1>2. ASSUME NEW e \in AllEvents, Publish(e) PROVE SInv'
  BY <1>2, <1>t, QuietStep DEF Publish, SInv, TInv, Shaped
<1>3. ASSUME NEW e \in AllEvents, NEW o \in {"committed", "aborted"}, EndTransaction(e, o)
      PROVE SInv'
  BY <1>3, <1>t, QuietStep DEF EndTransaction, SInv, TInv, Shaped
<1>4. ASSUME NEW x \in Pairs, Dispatch(x) \/ SweepSends(x) PROVE SInv'
  BY <1>4, <1>t, QuietStep DEF Dispatch, SweepSends
<1>5. ASSUME NEW lost, LoseDispatch(lost) PROVE SInv'
  BY <1>5, <1>t, QuietStep DEF LoseDispatch
<1>6. CASE SweepReads
  BY <1>6, <1>t, QuietStep DEF SweepReads
<1>7. CASE Acknowledge
  BY <1>7, <1>t, AcknowledgeSafe
<1>8. ASSUME NEW x \in Pairs, NEW s \in Slots, Expire(x, s) \/ ExpireSlow(x, s) PROVE SInv'
  BY <1>8, <1>t, QuietStep DEF Expire, ExpireSlow
<1>9. ASSUME NEW w \in Workers, NEW x \in Pairs, NEW s \in Slots, Fetch(w, x, s) PROVE SInv'
  BY <1>9, <1>t, <1>w, WorkerMoves DEF Fetch
<1>10. ASSUME NEW w \in Workers, Read(w) PROVE SInv'
  <2> DEFINE x == worker[w].pair
  <2>1. worker[w] \in WorkerSet /\ UNCHANGED <<event, ran, acked, delivery>>
    BY <1>10, <1>w DEF Read
  <2>2. CASE worker' = [worker EXCEPT ![w] = Idle]
    BY <2>1, <2>2, <1>t, <1>w, <1>i, WorkerMoves
  <2>3. CASE Readable(x[1]) /\ worker' = [worker EXCEPT ![w].at = "claim",
                                              ![w].attempts = delivery[x].attempts + 1]
    <3>1. worker'[w].at = "claim" /\ worker'[w].pair = x
      BY <2>1, <2>3, <1>w DEF WorkerSet
    <3>2. \A v \in Workers \ {w} : worker'[v] = worker[v]
      BY <2>3, <1>w
    <3> QED
      BY <2>1, <2>3, <3>1, <3>2, <1>t, WorkerMoves DEF Readable
  <2> QED
    BY <1>10, <2>2, <2>3 DEF Read
<1>11. ASSUME NEW w \in Workers, Claim(w) PROVE SInv'
  <2> DEFINE x == worker[w].pair
  <2>1. worker[w].at = "claim" /\ x \in Pairs /\ event[x[1]] = "committed"
    BY <1>11 DEF Claim, SInv, TInv, BusyOnPair, PastTheRead
  <2>2. worker'[w].at = "handle" /\ worker'[w].pair = x
    BY <1>11, <1>w DEF Claim, WorkerSet
  <2>3. \A v \in Workers \ {w} : worker'[v] = worker[v]
    BY <1>11, <1>w DEF Claim
  <2>4. Claimed(x, worker[w].attempts).status = "done" => delivery[x].status = "done"
    BY <2>1, <1>w DEF Claimed, Rows
  <2>5. \A y \in Pairs : delivery'[y].status = "done" => delivery[y].status = "done"
    BY <1>11, <2>1, <2>4, <1>w DEF Claim
  <2> QED
    BY <1>11, <2>1, <2>2, <2>3, <2>5, <1>t, WorkerMoves DEF Claim
<1>12. ASSUME NEW w \in Workers, Handle(w) PROVE SInv'
  BY <1>12, <1>t, HandleSafe
<1>13. ASSUME NEW w \in Workers, HandlerThrows(w) PROVE SInv'
  <2>1. event[worker[w].pair[1]] = "committed"
    BY <1>13 DEF HandlerThrows, SInv, PastTheRead
  <2>2. worker'[w].at = "threw" /\ worker'[w].pair = worker[w].pair
    BY <1>13, <1>w DEF HandlerThrows, WorkerSet
  <2>3. \A v \in Workers \ {w} : worker'[v] = worker[v]
    BY <1>13, <1>w DEF HandlerThrows
  <2> QED
    BY <1>13, <2>1, <2>2, <2>3, <1>t, WorkerMoves DEF HandlerThrows
<1>14. ASSUME NEW w \in Workers, RecordDone(w) PROVE SInv'
  <2> DEFINE x == worker[w].pair
  <2>1. x \in Pairs /\ ran[x] > 0
    BY <1>14 DEF RecordDone, SInv, TInv, BusyOnPair, SucceededRan
  <2>2. \A y \in Pairs : delivery'[y].status = "done" => delivery[y].status = "done" \/ ran[y] > 0
    BY <1>14, <2>1, <1>w DEF RecordDone
  <2> QED
    BY <1>14, <2>2, <1>t, <1>w, <1>i, WorkerMoves DEF RecordDone
<1>15. ASSUME NEW w \in Workers, RecordFailure(w) PROVE SInv'
  <2> DEFINE x == worker[w].pair
  <2>1. x \in Pairs
    BY <1>15 DEF RecordFailure, SInv, TInv, BusyOnPair
  <2>2. \A y \in Pairs : delivery'[y].status = "done" => delivery[y].status = "done"
    BY <1>15, <2>1, <1>w DEF RecordFailure, Rows
  <2> QED
    BY <1>15, <2>2, <1>t, <1>w, <1>i, WorkerMoves DEF RecordFailure
<1>16. ASSUME NEW w \in Workers, Crash(w) PROVE SInv'
  BY <1>16, <1>t, <1>w, <1>i, WorkerMoves DEF Crash
<1> QED
  BY <1>1, <1>2, <1>3, <1>4, <1>5, <1>6, <1>7, <1>8, <1>9, <1>10, <1>11, <1>12, <1>13, <1>14,
     <1>15, <1>16 DEF Next, WorkerStep

LEMMA Safe == Spec => []SInv
BY InitSafe, SafeStep, PTL DEF Spec

\* No handler's effect comes from an event that was not committed, whatever the
\* order of fetches, commits, rollbacks, crashes and expired runs.
THEOREM CommittedOnly == Spec => []OnlyCommittedEvents
<1>1. SInv => OnlyCommittedEvents
  BY DEF SInv
<1> QED
  BY <1>1, Safe, PTL

\* A delivery row says done only when its handler has run or it was
\* acknowledged without a run.
THEOREM DoneIsHonest == Spec => []DoneMeansRan
<1>1. SInv => DoneMeansRan
  BY DEF SInv
<1> QED
  BY <1>1, Safe, PTL
-----------------------------------------------------------------------------
(* No event is lost while there are fewer faults than retries *)

spent == MaxFaults - faults
Unheard(x) == event[x[1]] \in {"open", "committed"} /\ ran[x] = 0 /\ x \notin acked
Busy(w, x, s) == worker[w].at # "idle" /\ worker[w].pair = x /\ worker[w].slot = s

\* An event that is not published has left no trace.
NoTrace(x) ==
  /\ x \notin pending /\ x \notin sweeping /\ delivery[x].status = "none"
  /\ \A s \in Slots : jobs[x][s].state = "none"
  /\ \A w \in Workers : worker[w].at # "idle" => worker[w].pair # x
Unborn == \A x \in Pairs : event[x[1]] = "none" => NoTrace(x)

\* Only a first try can meet an open transaction.
FirstTry == \A w \in Workers :
              worker[w].at = "read" /\ worker[w].try > 0 => event[worker[w].pair[1]] # "open"

\* The job of an unheard delivery is never over: its first try may be wasted
\* before the commit, every further one is paid for with a fault.
Paid(x, s) ==
  /\ jobs[x][s].state # "over"
  /\ jobs[x][s].state # "none" => jobs[x][s].tries <= spent + 1
  /\ jobs[x][s].state = "active" /\ ~Running(x, s) => jobs[x][s].tries <= spent
\* A run belongs to its job: it is at the job's try, or was overtaken by a retry.
Follows(w, x, s) ==
  /\ jobs[x][s].state \in {"queued", "active"}
  /\ worker[w].try <= jobs[x][s].tries
  /\ jobs[x][s].state = "queued" => worker[w].try < jobs[x][s].tries
  /\ worker[w].at = "threw" /\ worker[w].try = jobs[x][s].tries => jobs[x][s].tries <= spent

Counted == \A x \in Pairs, s \in Slots : Unheard(x) => Paid(x, s)
Followed == \A x \in Pairs, s \in Slots, w \in Workers :
              Unheard(x) /\ Busy(w, x, s) => Follows(w, x, s)
RowHasJob == \A x \in Pairs : Unheard(x) /\ delivery[x].status # "none" => Alive(x)

\* An idle worker is on no pair.
Parked == \A w \in Workers : worker[w].at = "idle" => worker[w].pair = Nobody

JInv == SInv /\ Parked /\ Unborn /\ FirstTry /\ Counted /\ Followed /\ RowHasJob

LEMMA InitJobs == Init => JInv
<1> SUFFICES ASSUME Init PROVE JInv
  OBVIOUS
<1>1. SInv
  BY InitSafe
<1>2. \A x \in Pairs : x[1] \in AllEvents
  BY DEF Pairs
<1>3. \A x \in Pairs : event[x[1]] = "none" /\ ~Unheard(x)
  BY <1>2 DEF Init, Unheard
<1>4. Parked /\ FirstTry
  BY DEF Init, Parked, FirstTry, Idle
<1>5. Unborn
  BY DEF Init, Unborn, NoTrace, Idle, NoJob, NoRow
<1>6. Counted /\ Followed /\ RowHasJob
  BY <1>3 DEF Counted, Followed, RowHasJob
<1> QED
  BY <1>1, <1>4, <1>5, <1>6 DEF JInv

\* What every step does to events and effects: a pair that is unheard after
\* it was unheard before, or its event was published just now.
OnlyForward ==
  /\ \A e \in AllEvents : \/ event'[e] = event[e]
                          \/ event[e] = "none" /\ event'[e] = "open"
                          \/ event[e] = "open" /\ event'[e] \in {"committed", "aborted"}
  /\ \A x \in Pairs : ran[x] > 0 => ran'[x] > 0
  /\ acked \subseteq acked'
  /\ faults' \in 0..faults

LEMMA StillUnheard ==
  ASSUME JInv, SInv', OnlyForward, NEW x \in Pairs, Unheard(x)'
  PROVE  Unheard(x) \/ (event[x[1]] = "none" /\ NoTrace(x))
<1>1. x[1] \in AllEvents /\ ran[x] \in Nat
  BY DEF Pairs, JInv, SInv, TInv, Shaped
<1>2. ran[x] = 0 /\ x \notin acked
  BY <1>1 DEF Unheard, OnlyForward
<1> QED
  BY <1>1, <1>2 DEF Unheard, OnlyForward, JInv, Unborn

\* A slot that the step leaves alone, together with the workers on it.
LEMMA SlotLeftAlone ==
  ASSUME JInv, SInv', OnlyForward, NEW x \in Pairs, NEW s \in Slots, Unheard(x)',
         jobs'[x][s] = jobs[x][s],
         \A w \in Workers : \/ worker'[w] = worker[w]
                            \/ /\ worker[w].pair # x \/ worker[w].slot # s
                               /\ worker'[w].pair # x \/ worker'[w].slot # s
  PROVE  Paid(x, s)' /\ \A w \in Workers : Busy(w, x, s)' => Follows(w, x, s)'
<1>1. /\ faults \in 0..MaxFaults /\ faults' \in 0..MaxFaults /\ faults' <= faults
      /\ MaxFaults \in Nat /\ jobs[x][s] \in JobSet /\ jobs[x][s].tries \in Nat
  BY BusAssumption DEF JInv, SInv, TInv, Shaped, OnlyForward, JobSet, Tries
<1>2. spent \in Nat /\ spent' \in Nat /\ spent <= spent'
  BY <1>1 DEF spent
<1>3. Running(x, s) => Running(x, s)'
  BY DEF Running, Owned, Job
<1>4. CASE Unheard(x)
  <2>1. Paid(x, s)
    BY <1>4 DEF JInv, Counted
  <2>2. Paid(x, s)'
    BY <2>1, <1>1, <1>2, <1>3 DEF Paid
  <2>3. ASSUME NEW w \in Workers, Busy(w, x, s)' PROVE Follows(w, x, s)'
    <3>1. worker'[w] = worker[w] /\ Busy(w, x, s)
      BY <2>3 DEF Busy
    <3>2. Follows(w, x, s)
      BY <3>1, <1>4 DEF JInv, Followed
    <3> QED
      BY <3>1, <3>2, <1>1, <1>2 DEF Follows
  <2> QED
    BY <2>2, <2>3
<1>5. CASE NoTrace(x)
  <2>1. jobs[x][s].state = "none" /\ \A w \in Workers : worker[w].at # "idle" => worker[w].pair # x
    BY <1>5 DEF NoTrace
  <2> QED
    BY <2>1, <1>1, <1>2 DEF Paid, Busy
<1> QED
  BY <1>4, <1>5, StillUnheard DEF JInv

\* Rows keep their job: no job disappears, and none of an unheard delivery is over.
LEMMA RowsKeepJobs ==
  ASSUME JInv, SInv', OnlyForward, Counted',
         \A x \in Pairs, s \in Slots : jobs[x][s].state # "none" => jobs'[x][s].state # "none",
         \A x \in Pairs : Unheard(x)' /\ delivery'[x].status # "none" =>
           delivery[x].status # "none" \/ \E s \in Slots : jobs[x][s].state # "none"
  PROVE  RowHasJob'
<1> SUFFICES ASSUME NEW x \in Pairs, Unheard(x)', delivery'[x].status # "none"
             PROVE  Alive(x)'
  BY DEF RowHasJob
<1>2. \E s \in Slots : jobs[x][s].state # "none"
  <2>1. CASE delivery[x].status # "none"
    <3>1. Unheard(x)
      BY <2>1, StillUnheard DEF NoTrace
    <3> QED
      BY <2>1, <3>1 DEF JInv, RowHasJob, Alive
  <2> QED
    BY <2>1
<1>3. PICK s \in Slots : jobs[x][s].state # "none"
  BY <1>2
<1>4. jobs'[x][s].state # "none" /\ jobs'[x][s].state # "over"
  BY <1>3 DEF Counted, Paid
<1>5. jobs'[x][s] \in JobSet
  BY DEF SInv, TInv, Shaped
<1> QED
  BY <1>4, <1>5 DEF Alive, JobSet, JobStates

\* An event that is still unpublished after a step still has no trace.
LEMMA StaysUnborn ==
  ASSUME JInv, SInv', OnlyForward,
         \A x \in Pairs : NoTrace(x) /\ event'[x[1]] = "none" => NoTrace(x)'
  PROVE  Unborn'
<1> SUFFICES ASSUME NEW x \in Pairs, event'[x[1]] = "none" PROVE NoTrace(x)'
  BY DEF Unborn
<1>1. x[1] \in AllEvents
  BY DEF Pairs
<1>2. event[x[1]] = "none"
  BY <1>1 DEF OnlyForward
<1> QED
  BY <1>2 DEF JInv, Unborn

LEMMA StillFirstTry ==
  ASSUME JInv, SInv', OnlyForward,
         \A w \in Workers : worker'[w].at = "read" =>
           \/ worker[w].at = "read" /\ worker'[w].pair = worker[w].pair /\ worker'[w].try = worker[w].try
           \/ worker'[w].try > 0 => event'[worker'[w].pair[1]] # "open"
  PROVE  FirstTry'
<1> SUFFICES ASSUME NEW w \in Workers, worker'[w].at = "read", worker'[w].try > 0,
                    event'[worker'[w].pair[1]] = "open"
             PROVE  FALSE
  BY DEF FirstTry
<1> DEFINE x == worker[w].pair
<1>1. worker[w].at = "read" /\ worker'[w].pair = x /\ worker'[w].try = worker[w].try
  OBVIOUS
<1>2. x \in Pairs /\ x[1] \in AllEvents
  BY <1>1 DEF JInv, SInv, TInv, BusyOnPair, Pairs
<1>3. event[x[1]] # "open"
  BY <1>1 DEF JInv, FirstTry
<1>4. event[x[1]] = "none"
  BY <1>1, <1>2, <1>3 DEF OnlyForward
<1> QED
  BY <1>1, <1>2, <1>4 DEF JInv, Unborn, NoTrace

\* Steps that change neither the queue nor the workers.
LEMMA QueueUntouched ==
  ASSUME JInv, SInv', OnlyForward, UNCHANGED <<jobs, worker>>,
         \A x \in Pairs : NoTrace(x) /\ event'[x[1]] = "none" => NoTrace(x)',
         \A x \in Pairs : delivery'[x].status # "none" => delivery[x].status # "none" \/ x \in acked'
  PROVE  JInv'
<1>1. Parked'
  BY DEF JInv, Parked
<1>2. Unborn'
  BY StaysUnborn
<1>3. FirstTry'
  BY StillFirstTry
<1>4. Counted' /\ Followed'
  BY SlotLeftAlone DEF Counted, Followed
<1>5. RowHasJob'
  BY <1>4, RowsKeepJobs DEF Unheard
<1> QED
  BY <1>1, <1>2, <1>3, <1>4, <1>5 DEF JInv

LEMMA QuietJobs ==
  ASSUME JInv, SInv',
         \/ \E e \in AllEvents : Publish(e) \/ \E o \in {"committed", "aborted"} : EndTransaction(e, o)
         \/ LoseDispatch(pending) \/ \E x \in pending : LoseDispatch({x})
         \/ SweepReads \/ Acknowledge \/ UNCHANGED vars
  PROVE  JInv'
<1>t. /\ faults \in Nat /\ ran \in [Pairs -> Nat] /\ event \in [AllEvents -> {"none", "open", "committed", "aborted"}]
      /\ \A x \in Pairs : x[1] \in AllEvents
  BY BusAssumption DEF JInv, SInv, TInv, Shaped, Pairs
<1>1. ASSUME NEW e \in AllEvents, Publish(e) PROVE JInv'
  <2>1. OnlyForward
    BY <1>t, <1>1 DEF OnlyForward, Publish
  <2>2. \A x \in Pairs : NoTrace(x) /\ event'[x[1]] = "none" => NoTrace(x)'
    <3>1. \A x \in Pairs : event'[x[1]] = "none" => x[1] # e
      BY <1>t, <1>1 DEF Publish
    <3>2. \A x \in Pairs : event'[x[1]] = "none" /\ x \notin pending => x \notin pending'
      BY <1>1, <3>1 DEF Publish
    <3> QED
      BY <1>1, <3>2 DEF Publish, NoTrace
  <2> QED
    BY <1>1, <2>1, <2>2, QueueUntouched DEF Publish
<1>2. ASSUME NEW e \in AllEvents, NEW o \in {"committed", "aborted"}, EndTransaction(e, o) PROVE JInv'
  <2>1. OnlyForward
    BY <1>t, <1>2 DEF OnlyForward, EndTransaction
  <2>2. \A x \in Pairs : NoTrace(x) /\ event'[x[1]] = "none" => NoTrace(x)'
    BY <1>2 DEF EndTransaction, NoTrace
  <2> QED
    BY <1>2, <2>1, <2>2, QueueUntouched DEF EndTransaction
<1>3. ASSUME NEW lost, LoseDispatch(lost) PROVE JInv'
  <2>1. OnlyForward
    BY <1>t, <1>3 DEF OnlyForward, LoseDispatch
  <2>2. \A x \in Pairs : NoTrace(x) /\ event'[x[1]] = "none" => NoTrace(x)'
    BY <1>3 DEF LoseDispatch, NoTrace
  <2> QED
    BY <1>3, <2>1, <2>2, QueueUntouched DEF LoseDispatch
<1>4. ASSUME SweepReads PROVE JInv'
  <2>1. OnlyForward
    BY <1>t, <1>4 DEF OnlyForward, SweepReads
  <2>2. \A x \in Pairs : NoTrace(x) /\ event'[x[1]] = "none" => NoTrace(x)'
    BY <1>4 DEF SweepReads, NoTrace, Missing
  <2> QED
    BY <1>4, <2>1, <2>2, QueueUntouched DEF SweepReads
<1>5. ASSUME Acknowledge PROVE JInv'
  <2>1. OnlyForward
    BY <1>t, <1>5 DEF OnlyForward, Acknowledge
  <2>2. \A x \in Pairs : NoTrace(x) /\ event'[x[1]] = "none" => NoTrace(x)'
    BY <1>5 DEF Acknowledge, NoTrace, Missing
  <2>3. \A x \in Pairs : delivery'[x].status # "none" => delivery[x].status # "none" \/ x \in acked'
    BY <1>5 DEF Acknowledge
  <2> QED
    BY <1>5, <2>1, <2>2, <2>3, QueueUntouched DEF Acknowledge
<1>6. ASSUME UNCHANGED vars PROVE JInv'
  <2>1. OnlyForward
    BY <1>t, <1>6 DEF OnlyForward, vars
  <2>2. \A x \in Pairs : NoTrace(x) /\ event'[x[1]] = "none" => NoTrace(x)'
    BY <1>6 DEF vars, NoTrace
  <2> QED
    BY <1>6, <2>1, <2>2, QueueUntouched DEF vars
<1> QED
  BY <1>1, <1>2, <1>3, <1>4, <1>5, <1>6

\* Steps that change one slot of the queue and no worker.
LEMMA OneSlotChanges ==
  ASSUME JInv, SInv', OnlyForward, UNCHANGED <<worker, delivery, ran, acked, event>>,
         pending' \subseteq pending, sweeping' \subseteq sweeping,
         NEW x \in Pairs, NEW s \in Slots, NEW j \in JobSet, j.state # "none",
         jobs' = [jobs EXCEPT ![x][s] = j], ~NoTrace(x),
         Unheard(x) => Paid(x, s)' /\ \A w \in Workers : Busy(w, x, s) => Follows(w, x, s)'
  PROVE  JInv'
<1>0. jobs \in [Pairs -> [Slots -> JobSet]]
  BY DEF JInv, SInv, TInv, Shaped
<1>1. /\ jobs'[x][s] = j
      /\ \A y \in Pairs, t \in Slots : y # x \/ t # s => jobs'[y][t] = jobs[y][t]
  BY <1>0
<1>2. Parked' /\ FirstTry'
  BY StillFirstTry DEF JInv, Parked
<1>3. Unborn'
  <2>1. ASSUME NEW y \in Pairs, NoTrace(y) PROVE NoTrace(y)'
    <3>1. y # x
      BY <2>1
    <3> QED
      BY <2>1, <3>1, <1>1 DEF NoTrace
  <2> QED
    BY <2>1, StaysUnborn
<1>4. \A y \in Pairs : Unheard(y)' <=> Unheard(y)
  BY DEF Unheard
<1>5. ASSUME NEW y \in Pairs, NEW t \in Slots, Unheard(y)'
      PROVE  Paid(y, t)' /\ \A w \in Workers : Busy(w, y, t)' => Follows(w, y, t)'
  <2>1. CASE y = x /\ t = s
    BY <2>1, <1>4, <1>5 DEF Busy
  <2>2. CASE ~(y = x /\ t = s)
    BY <2>2, <1>1, <1>5, SlotLeftAlone
  <2> QED
    BY <2>1, <2>2
<1>6. Counted' /\ Followed'
  BY <1>5 DEF Counted, Followed
<1>7. RowHasJob'
  <2>1. \A y \in Pairs, t \in Slots : jobs[y][t].state # "none" => jobs'[y][t].state # "none"
    BY <1>1
  <2> QED
    BY <2>1, <1>6, RowsKeepJobs
<1> QED
  BY <1>2, <1>3, <1>6, <1>7 DEF JInv

LEMMA EnqueueKeepsJobs ==
  ASSUME JInv, SInv', NEW x \in Pairs, Dispatch(x) \/ SweepSends(x) PROVE JInv'
<1>0. jobs \in [Pairs -> [Slots -> JobSet]] /\ faults \in 0..MaxFaults /\ MaxFaults \in Nat
  BY BusAssumption DEF JInv, SInv, TInv, Shaped
<1>1. OnlyForward /\ ~NoTrace(x)
  BY <1>0 DEF OnlyForward, Dispatch, SweepSends, NoTrace
<1>2. UNCHANGED <<worker, delivery, ran, acked, event, faults>>
  BY DEF Dispatch, SweepSends
<1>3. pending' \subseteq pending /\ sweeping' \subseteq sweeping
  BY DEF Dispatch, SweepSends
<1>4. CASE jobs' = jobs
  <2>1. \A y \in Pairs : NoTrace(y) => NoTrace(y)'
    BY <1>2, <1>3, <1>4 DEF NoTrace
  <2> QED
    BY <1>1, <1>2, <1>4, <2>1, QueueUntouched
<1>5. CASE \E s \in FreeSlots(x) : jobs' = Queued(x, s)
  <2>1. PICK s \in FreeSlots(x) : jobs' = Queued(x, s)
    BY <1>5
  <2> DEFINE j == [state |-> "queued", tries |-> 0]
  <2>2. s \in Slots /\ jobs[x][s].state \in {"none", "over"}
    BY DEF FreeSlots
  <2>3. j \in JobSet /\ jobs' = [jobs EXCEPT ![x][s] = j]
    BY <2>1, BusAssumption DEF JobSet, JobStates, Tries, Queued
  <2>4. jobs'[x][s] = j
    BY <2>2, <2>3, <1>0
  <2>5. ASSUME Unheard(x)
        PROVE  Paid(x, s)' /\ \A w \in Workers : Busy(w, x, s) => Follows(w, x, s)'
    <3>1. spent' \in Nat
      BY <1>0, <1>2 DEF spent
    <3>2. Paid(x, s)'
      BY <2>4, <3>1 DEF Paid
    <3>3. \A w \in Workers : Busy(w, x, s) => Follows(w, x, s)
      BY <2>2, <2>5 DEF JInv, Followed
    <3>4. jobs[x][s].state = "none"
      BY <2>2, <2>5 DEF JInv, Counted, Paid
    <3> QED
      BY <3>2, <3>3, <3>4 DEF Follows
  <2> HIDE DEF j
  <2>6. j.state # "none"
    BY DEF j
  <2> QED
    BY <1>1, <1>2, <1>3, <2>2, <2>3, <2>5, <2>6, OneSlotChanges
<1> QED
  BY <1>4, <1>5 DEF Dispatch, SweepSends, Enqueue

\* A retry costs a fault that was counted before it: the job is never given up.
LEMMA RetryPaid ==
  ASSUME MaxFaults < RetryLimit, faults \in 0..MaxFaults, NEW j \in JobSet, j.tries <= spent
  PROVE  Retried(j).state = "queued" /\ Retried(j).tries = j.tries + 1
BY BusAssumption DEF Retried, spent, JobSet, Tries

LEMMA ExpireKeepsJobs ==
  ASSUME MaxFaults < RetryLimit, JInv, SInv', NEW x \in Pairs, NEW s \in Slots,
         Expire(x, s) \/ ExpireSlow(x, s)
  PROVE  JInv'
<1> DEFINE j == Retried(jobs[x][s])
<1>0. /\ jobs \in [Pairs -> [Slots -> JobSet]] /\ faults \in 0..MaxFaults /\ MaxFaults \in Nat
      /\ worker \in [Workers -> WorkerSet]
  BY BusAssumption DEF JInv, SInv, TInv, Shaped
<1>1. OnlyForward /\ ~NoTrace(x)
  BY <1>0 DEF OnlyForward, Expire, ExpireSlow, NoTrace
<1>2. UNCHANGED <<worker, delivery, ran, acked, event, pending, sweeping>>
  BY DEF Expire, ExpireSlow
<1>3. /\ jobs[x][s] \in JobSet /\ jobs[x][s].state = "active" /\ jobs[x][s].tries \in Nat
      /\ jobs' = [jobs EXCEPT ![x][s] = j]
  BY <1>0 DEF Expire, ExpireSlow, JobSet, Tries
<1>4. j \in JobSet /\ j.state # "none"
  BY <1>3, RetriedType DEF Retried
<1>5. jobs'[x][s] = j
  BY <1>0, <1>3
<1>6. ASSUME Unheard(x)
      PROVE  Paid(x, s)' /\ \A w \in Workers : Busy(w, x, s) => Follows(w, x, s)'
  <2>1. Paid(x, s) /\ \A w \in Workers : Busy(w, x, s) => Follows(w, x, s)
    BY <1>6 DEF JInv, Counted, Followed
  <2>2. faults' \in 0..MaxFaults /\ spent \in Nat /\ spent' \in Nat /\ spent' = MaxFaults - faults'
    BY <1>0 DEF Expire, ExpireSlow, spent
  <2>3. jobs[x][s].tries <= spent'
    <3>1. CASE Expire(x, s)
      BY <1>3, <2>1, <3>1 DEF Expire, Paid, spent
    <3>2. CASE ExpireSlow(x, s)
      <4>1. spent' = spent + 1
        BY <1>0, <3>2 DEF ExpireSlow, spent
      <4> QED
        BY <1>3, <2>1, <4>1 DEF Paid
    <3> QED
      BY <3>1, <3>2
  <2>4. jobs[x][s].tries < RetryLimit
    BY <1>3, <2>2, <2>3, BusAssumption
  <2>5. j.state = "queued" /\ j.tries = jobs[x][s].tries + 1
    BY <2>4 DEF Retried
  <2>6. Paid(x, s)'
    BY <1>3, <1>5, <2>2, <2>3, <2>5 DEF Paid
  <2>7. ASSUME NEW w \in Workers, Busy(w, x, s) PROVE Follows(w, x, s)'
    <3>1. worker[w].try \in Nat /\ worker[w].try <= jobs[x][s].tries
      BY <1>0, <2>1, <2>7, BusAssumption DEF Follows, WorkerSet, Tries
    <3> QED
      BY <1>2, <1>3, <1>5, <2>5, <3>1 DEF Follows
  <2> QED
    BY <2>6, <2>7
<1> HIDE DEF j
<1> QED
  BY <1>1, <1>2, <1>3, <1>4, <1>6, OneSlotChanges

\* Steps of one worker, which is on slot s of x before the step, after it, or both.
LEMMA OneWorkerMoves ==
  ASSUME JInv, SInv', OnlyForward, UNCHANGED <<event, pending, sweeping>>,
         NEW w \in Workers, NEW x \in Pairs, NEW s \in Slots, ~NoTrace(x),
         \A v \in Workers \ {w} : worker'[v] = worker[v],
         \/ worker[w].pair = Nobody
         \/ worker[w].pair = x /\ worker[w].slot = s,
         \/ worker'[w].pair = Nobody
         \/ worker'[w].pair = x /\ worker'[w].slot = s /\ worker'[w].at # "idle",
         worker'[w].at = "read" /\ worker'[w].try > 0 => event[x[1]] # "open",
         \A y \in Pairs \ {x} : delivery'[y] = delivery[y],
         delivery'[x].status # "none" => delivery[x].status # "none" \/ worker[w].at # "idle",
         \A y \in Pairs, t \in Slots : y # x \/ t # s => jobs'[y][t] = jobs[y][t],
         jobs[x][s].state # "none" => jobs'[x][s].state # "none",
         Unheard(x)' => Paid(x, s)' /\ \A v \in Workers : Busy(v, x, s)' => Follows(v, x, s)'
  PROVE  JInv'
<1>0. Nobody \notin Pairs /\ TInv'
  BY BusAssumption DEF SInv
<1>1. Parked'
  BY <1>0 DEF JInv, Parked
<1>2. FirstTry'
  <2> SUFFICES ASSUME NEW v \in Workers, worker'[v].at = "read", worker'[v].try > 0
               PROVE  event'[worker'[v].pair[1]] # "open"
    BY DEF FirstTry
  <2>1. CASE v # w
    BY <2>1 DEF JInv, FirstTry
  <2>2. CASE v = w
    <3>1. worker'[w].pair = x
      BY <1>0, <2>2 DEF TInv, BusyOnPair
    <3> QED
      BY <2>2, <3>1
  <2> QED
    BY <2>1, <2>2
<1>3. Unborn'
  <2>1. ASSUME NEW y \in Pairs, NoTrace(y) PROVE NoTrace(y)'
    <3>1. y # x
      BY <2>1
    <3>2. worker'[w].pair # y
      BY <1>0, <3>1
    <3> QED
      BY <2>1, <3>1, <3>2 DEF NoTrace
  <2> QED
    BY <2>1, StaysUnborn
<1>5. ASSUME NEW y \in Pairs, NEW t \in Slots, Unheard(y)'
      PROVE  Paid(y, t)' /\ \A v \in Workers : Busy(v, y, t)' => Follows(v, y, t)'
  <2>1. CASE y = x /\ t = s
    BY <2>1, <1>5
  <2>2. CASE y # x \/ t # s
    BY <1>0, <2>2, <1>5, SlotLeftAlone
  <2> QED
    BY <2>1, <2>2
<1>6. Counted' /\ Followed'
  BY <1>5 DEF Counted, Followed
<1>7. RowHasJob'
  <2>1. \A y \in Pairs, t \in Slots : jobs[y][t].state # "none" => jobs'[y][t].state # "none"
    BY DEF JInv
  <2>2. ASSUME NEW y \in Pairs, Unheard(y)', delivery'[y].status # "none"
        PROVE  delivery[y].status # "none" \/ \E t \in Slots : jobs[y][t].state # "none"
    <3>1. CASE y # x \/ delivery[x].status # "none"
      BY <2>2, <3>1
    <3>2. CASE y = x /\ worker[w].at # "idle"
      <4>1. worker[w].pair = x
        BY <1>0, <3>2 DEF JInv, SInv, TInv, BusyOnPair
      <4>2. Busy(w, x, s)
        BY <3>2, <4>1, <1>0 DEF Busy
      <4>3. Unheard(x)
        BY <2>2, <3>2, StillUnheard
      <4>4. Follows(w, x, s)
        BY <4>2, <4>3 DEF JInv, Followed
      <4> QED
        BY <3>2, <4>4 DEF Follows
    <3> QED
      BY <2>2, <3>1, <3>2
  <2> QED
    BY <2>1, <2>2, <1>6, RowsKeepJobs
<1> QED
  BY <1>1, <1>2, <1>3, <1>6, <1>7 DEF JInv

LEMMA FetchKeepsJobs ==
  ASSUME JInv, SInv', NEW w \in Workers, NEW x \in Pairs, NEW s \in Slots, Fetch(w, x, s)
  PROVE  JInv'
<1>0. /\ jobs \in [Pairs -> [Slots -> JobSet]] /\ faults \in 0..MaxFaults /\ MaxFaults \in Nat
      /\ worker \in [Workers -> WorkerSet]
  BY BusAssumption DEF JInv, SInv, TInv, Shaped
<1>1. /\ jobs[x][s].state = "queued" /\ jobs[x][s].tries \in Nat
      /\ worker[w].at = "idle" /\ worker[w].pair = Nobody
      /\ UNCHANGED <<event, pending, delivery, sweeping, acked, ran, faults>>
      /\ jobs[x][s].tries > 0 => event[x[1]] # "open"
  BY <1>0, BusAssumption DEF Fetch, JobSet, Tries, JInv, Parked
<1>2. OnlyForward /\ ~NoTrace(x)
  BY <1>0, <1>1 DEF OnlyForward, NoTrace
<1> DEFINE W == [at |-> "read", pair |-> x, slot |-> s, try |-> jobs[x][s].tries, attempts |-> 0]
<1>3. /\ worker'[w] = W /\ \A v \in Workers \ {w} : worker'[v] = worker[v]
      /\ jobs'[x][s] = [state |-> "active", tries |-> jobs[x][s].tries]
      /\ \A y \in Pairs, t \in Slots : y # x \/ t # s => jobs'[y][t] = jobs[y][t]
  BY <1>0 DEF Fetch
<1>4. ASSUME Unheard(x)'
      PROVE  Paid(x, s)' /\ \A v \in Workers : Busy(v, x, s)' => Follows(v, x, s)'
  <2>1. Unheard(x)
    BY <1>1, <1>4 DEF Unheard
  <2>2. Paid(x, s) /\ \A v \in Workers : Busy(v, x, s) => Follows(v, x, s)
    BY <2>1 DEF JInv, Counted, Followed
  <2>3. Running(x, s)'
    BY <1>3 DEF Running, Owned, Job
  <2>4. spent' = spent
    BY <1>1 DEF spent
  <2>5. Paid(x, s)'
    BY <2>2, <2>3, <2>4, <1>1, <1>3 DEF Paid
  <2>6. ASSUME NEW v \in Workers, Busy(v, x, s)' PROVE Follows(v, x, s)'
    <3>1. CASE v = w
      BY <1>1, <1>3, <3>1 DEF Follows
    <3>2. CASE v # w
      <4>1. worker'[v] = worker[v] /\ Follows(v, x, s) /\ worker[v].try \in Nat
        BY <1>0, <1>3, <2>2, <2>6, <3>2, BusAssumption DEF Busy, WorkerSet, Tries
      <4> QED
        BY <4>1, <1>1, <1>3, <2>4 DEF Follows
    <3> QED
      BY <3>1, <3>2
  <2> QED
    BY <2>5, <2>6
<1>5. W.at = "read" /\ W.pair = x /\ W.slot = s /\ W.try = jobs[x][s].tries
  OBVIOUS
<1> HIDE DEF W
<1> QED
  BY <1>1, <1>2, <1>3, <1>4, <1>5, OneWorkerMoves

\* A busy worker has a pair and a slot, and its event is published.
LEMMA OnSlot ==
  ASSUME JInv, NEW w \in Workers, worker[w].at # "idle"
  PROVE  /\ worker[w].pair \in Pairs /\ worker[w].slot \in Slots /\ worker[w].try \in Nat
         /\ ~NoTrace(worker[w].pair)
         /\ Busy(w, worker[w].pair, worker[w].slot)
         /\ Job(w) = jobs[worker[w].pair][worker[w].slot] /\ Job(w) \in JobSet /\ Job(w).tries \in Nat
BY BusAssumption
   DEF JInv, SInv, TInv, Shaped, BusyOnPair, WorkerSet, Tries, NoTrace, Busy, Job, JobSet

LEMMA Spending ==
  ASSUME faults \in 0..MaxFaults, faults' \in 0..faults
  PROVE  /\ spent \in Nat /\ spent' \in Nat /\ spent <= spent'
         /\ faults' = faults - 1 => spent' = spent + 1
         /\ faults' = faults => spent' = spent
<1>1. PICK f \in 0..MaxFaults : faults = f
  OBVIOUS
<1>2. PICK g \in 0..f : faults' = g
  BY <1>1
<1>3. PICK a \in Nat : spent = a /\ a = MaxFaults - f
  BY <1>1, BusAssumption DEF spent
<1>4. PICK b \in Nat : spent' = b /\ b = MaxFaults - g
  <2>1. spent' = MaxFaults - g
    BY <1>2 DEF spent
  <2>2. MaxFaults - g \in Nat
    BY BusAssumption
  <2> QED
    BY <2>1, <2>2
<1>5. a <= b /\ (g = f - 1 => b = a + 1) /\ (g = f => b = a)
  BY <1>3, <1>4, BusAssumption
<1> QED
  BY <1>1, <1>2, <1>3, <1>4, <1>5

LEMMA RetriedState == ASSUME NEW j \in JobSet PROVE Retried(j).state \in {"queued", "over"}
BY DEF Retried, JobSet

\* A worker that moves on within its run.
LEMMA RunGoesOn ==
  ASSUME JInv, SInv', OnlyForward, NEW w \in Workers, worker[w].at # "idle",
         NEW a \in {"claim", "handle", "succeeded", "threw"}, NEW W,
         worker' = [worker EXCEPT ![w] = W], W.at = a, W.pair = worker[w].pair,
         W.slot = worker[w].slot, W.try = worker[w].try,
         UNCHANGED <<event, pending, jobs, sweeping>>,
         \A y \in Pairs \ {worker[w].pair} : delivery'[y] = delivery[y],
         a = "threw" => faults' = faults - 1,
         a = "succeeded" => ran'[worker[w].pair] > 0
  PROVE  JInv'
<1>x. PICK x \in Pairs, s \in Slots : worker[w].pair = x /\ worker[w].slot = s
  BY OnSlot
<1>0. /\ jobs \in [Pairs -> [Slots -> JobSet]] /\ faults \in 0..MaxFaults /\ MaxFaults \in Nat
      /\ worker \in [Workers -> WorkerSet] /\ faults' \in 0..faults
  BY BusAssumption DEF JInv, SInv, TInv, Shaped, OnlyForward
<1>1. x \in Pairs /\ s \in Slots /\ ~NoTrace(x) /\ Busy(w, x, s) /\ worker[w].try \in Nat
  BY <1>x, OnSlot
<1>2. worker'[w] = W /\ \A v \in Workers \ {w} : worker'[v] = worker[v]
  BY <1>0
<1>3. spent \in Nat /\ spent' \in Nat /\ spent <= spent' /\ (a = "threw" => spent' = spent + 1)
  BY <1>0, Spending
<1>4. ASSUME Unheard(x)'
      PROVE  Paid(x, s)' /\ \A v \in Workers : Busy(v, x, s)' => Follows(v, x, s)'
  <2>1. Unheard(x) /\ a # "succeeded"
    BY <1>x, <1>1, <1>4, StillUnheard DEF Unheard
  <2>2. Paid(x, s) /\ \A v \in Workers : Busy(v, x, s) => Follows(v, x, s)
    BY <1>1, <2>1 DEF JInv, Counted, Followed
  <2>3. Running(x, s) => Running(x, s)'
    BY <1>x, <1>2 DEF Running, Owned, Job
  <2>t. jobs[x][s].tries \in Nat
    BY <1>0, <1>1, BusAssumption DEF JobSet, Tries
  <2>4. Paid(x, s)'
    BY <2>2, <2>3, <1>3, <2>t DEF Paid
  <2>5. ASSUME NEW v \in Workers, Busy(v, x, s)' PROVE Follows(v, x, s)'
    <3>1. CASE v = w
      <4>1. jobs[x][s].state \in {"queued", "active"} /\ W.try <= jobs[x][s].tries
            /\ (jobs[x][s].state = "queued" => W.try < jobs[x][s].tries)
        BY <1>x, <1>1, <2>2 DEF Follows
      <4>2. a = "threw" => jobs[x][s].tries <= spent'
        BY <1>3, <2>2, <2>t, <4>1 DEF Paid
      <4> QED
        BY <1>x, <3>1, <4>1, <4>2, <1>2 DEF Follows
    <3>2. CASE v # w
      <4>1. worker'[v] = worker[v] /\ Follows(v, x, s)
        BY <1>2, <2>2, <2>5, <3>2 DEF Busy
      <4> QED
        BY <4>1, <2>t, <1>3 DEF Follows
    <3> QED
      BY <3>1, <3>2
  <2> QED
    BY <2>4, <2>5
<1>5. W.pair = x /\ W.slot = s /\ W.at # "idle" /\ W.at # "read"
  BY <1>x
<1>6. \A y \in Pairs \ {x} : delivery'[y] = delivery[y]
  BY <1>x
<1>7. \A y \in Pairs, t \in Slots : jobs'[y][t] = jobs[y][t]
  OBVIOUS
<1> QED
  BY <1>x, <1>1, <1>2, <1>4, <1>5, <1>6, <1>7, OneWorkerMoves

\* A worker that ends its run, crashed or after a report.
LEMMA RunEnds ==
  ASSUME MaxFaults < RetryLimit, JInv, SInv', OnlyForward, NEW w \in Workers, worker[w].at # "idle",
         worker' = [worker EXCEPT ![w] = Idle],
         UNCHANGED <<event, pending, sweeping>>,
         \A y \in Pairs \ {worker[w].pair} : delivery'[y] = delivery[y],
         \/ jobs' = jobs /\ faults' = faults - 1
         \/ faults' = faults /\ Report(w, [Job(w) EXCEPT !.state = "over"]) /\ ~Unheard(worker[w].pair)
         \/ /\ faults' = faults /\ Report(w, Retried(Job(w)))
            /\ Unheard(worker[w].pair) /\ Owned(w) => Job(w).tries <= spent
  PROVE  JInv'
<1>x. PICK x \in Pairs, s \in Slots : worker[w].pair = x /\ worker[w].slot = s
  BY OnSlot
<1>0. /\ jobs \in [Pairs -> [Slots -> JobSet]] /\ faults \in 0..MaxFaults /\ MaxFaults \in Nat
      /\ worker \in [Workers -> WorkerSet]
  BY BusAssumption DEF JInv, SInv, TInv, Shaped
<1>1. /\ x \in Pairs /\ s \in Slots /\ ~NoTrace(x) /\ Busy(w, x, s)
      /\ Job(w) = jobs[x][s] /\ Job(w) \in JobSet /\ Job(w).tries \in Nat
  BY <1>x, OnSlot
<1>2. worker'[w] = Idle /\ \A v \in Workers \ {w} : worker'[v] = worker[v]
  BY <1>0
<1>i. Idle.at = "idle" /\ Idle.pair = Nobody /\ Nobody \notin Pairs
  BY BusAssumption DEF Idle
<1>3. \A y \in Pairs, t \in Slots : y # x \/ t # s => jobs'[y][t] = jobs[y][t]
  BY <1>x, <1>0, <1>1 DEF Report
<1>4. \/ jobs' = jobs
      \/ Owned(w) /\ jobs'[x][s] \in {[Job(w) EXCEPT !.state = "over"], Retried(Job(w))}
  BY <1>x, <1>0, <1>1 DEF Report
<1>5. jobs[x][s].state # "none" => jobs'[x][s].state # "none"
  <2>1. Retried(Job(w)).state # "none" /\ [Job(w) EXCEPT !.state = "over"].state # "none"
    BY <1>1, RetriedState DEF JobSet
  <2> QED
    BY <1>4, <2>1
<1>6. ASSUME Unheard(x)'
      PROVE  Paid(x, s)' /\ \A v \in Workers : Busy(v, x, s)' => Follows(v, x, s)'
  <2>1. Unheard(x)
    BY <1>1, <1>6, StillUnheard
  <2>2. Paid(x, s) /\ \A v \in Workers : Busy(v, x, s) => Follows(v, x, s)
    BY <1>1, <2>1 DEF JInv, Counted, Followed
  <2>3. spent \in Nat /\ spent' \in Nat
    BY <1>0, Spending DEF OnlyForward
  <2>4. CASE jobs' = jobs /\ (Owned(w) => faults' = faults - 1) /\ faults' <= faults
    <3>1. spent <= spent' /\ (Owned(w) => spent' = spent + 1)
      BY <1>0, <2>4, Spending DEF OnlyForward
    <3>2. Running(x, s) /\ ~Owned(w) => Running(x, s)'
      BY <1>x, <1>2, <2>4 DEF Running, Owned, Job
    <3>t. jobs[x][s].tries \in Nat /\ jobs'[x][s] = jobs[x][s]
      BY <1>1, <2>4
    <3>3. Paid(x, s)'
      <4>1. jobs[x][s].state # "none" => jobs[x][s].tries <= spent'+ 1
        BY <2>2, <2>3, <3>1, <3>t DEF Paid
      <4>2. jobs[x][s].state = "active" /\ ~Running(x, s) => jobs[x][s].tries <= spent'
        BY <2>2, <2>3, <3>1, <3>t DEF Paid
      <4>3. jobs[x][s].state = "active" /\ Owned(w) => jobs[x][s].tries <= spent'
        BY <2>2, <2>3, <3>1, <3>t DEF Paid
      <4>4. jobs[x][s].state # "over"
        BY <2>2 DEF Paid
      <4> QED
        BY <4>1, <4>2, <4>3, <4>4, <3>2, <3>t DEF Paid
    <3>4. ASSUME NEW v \in Workers, Busy(v, x, s)' PROVE Follows(v, x, s)'
      <4>1. v # w /\ worker'[v] = worker[v] /\ Follows(v, x, s)
        BY <1>2, <1>i, <2>2, <3>4 DEF Busy
      <4> QED
        BY <4>1, <1>1, <2>3, <2>4, <3>1 DEF Follows
    <3> QED
      BY <3>3, <3>4
  <2>5. CASE Owned(w) /\ Report(w, Retried(Job(w))) /\ Job(w).tries <= spent /\ faults' = faults
    <3>1. jobs'[x][s] = Retried(Job(w))
      BY <1>x, <1>0, <1>1, <2>5 DEF Report
    <3>2. jobs'[x][s].state = "queued" /\ jobs'[x][s].tries = Job(w).tries + 1
      BY <1>0, <1>1, <2>5, <3>1, RetryPaid
    <3>3. spent' = spent
      BY <2>5 DEF spent
    <3>4. Paid(x, s)'
      BY <1>1, <2>3, <2>5, <3>2, <3>3 DEF Paid
    <3>5. ASSUME NEW v \in Workers, Busy(v, x, s)' PROVE Follows(v, x, s)'
      <4>1. v # w /\ worker'[v] = worker[v] /\ Follows(v, x, s) /\ worker[v].try \in Nat
        BY <1>0, <1>2, <1>i, <2>2, <3>5, BusAssumption DEF Busy, WorkerSet, Tries
      <4> QED
        BY <4>1, <3>2, <1>1 DEF Follows
    <3> QED
      BY <3>4, <3>5
  <2> QED
    BY <1>x, <2>1, <2>4, <2>5, <1>0 DEF Report
<1>7. \A y \in Pairs \ {x} : delivery'[y] = delivery[y]
  BY <1>x
<1> QED
  BY <1>x, <1>1, <1>2, <1>3, <1>5, <1>6, <1>7, <1>i, OneWorkerMoves

LEMMA JobsStep == MaxFaults < RetryLimit /\ JInv /\ [Next]_vars => JInv'
<1> SUFFICES ASSUME MaxFaults < RetryLimit, JInv, [Next]_vars PROVE JInv'
  OBVIOUS
<1>t. SInv' /\ SInv
  BY SafeStep DEF JInv
<1>v. /\ faults \in Nat /\ ran \in [Pairs -> Nat] /\ worker \in [Workers -> WorkerSet]
      /\ delivery \in [Pairs -> Rows] /\ Nobody \notin Pairs
  BY <1>t, BusAssumption DEF SInv, TInv, Shaped
<1>1. CASE UNCHANGED vars
  BY <1>1, <1>t, QuietJobs
<1>2. CASE \E e \in AllEvents : Publish(e) \/ \E o \in {"committed", "aborted"} : EndTransaction(e, o)
  BY <1>2, <1>t, QuietJobs
<1>3. CASE LoseDispatch(pending) \/ \E x \in pending : LoseDispatch({x})
  BY <1>3, <1>t, QuietJobs
<1>4. CASE SweepReads \/ Acknowledge
  BY <1>4, <1>t, QuietJobs
<1>5. ASSUME NEW x \in Pairs, Dispatch(x) \/ SweepSends(x) PROVE JInv'
  BY <1>5, <1>t, EnqueueKeepsJobs
<1>6. ASSUME NEW w \in Workers, NEW x \in Pairs, NEW s \in Slots, Fetch(w, x, s) PROVE JInv'
  BY <1>6, <1>t, FetchKeepsJobs
<1>7. ASSUME NEW x \in Pairs, NEW s \in Slots, Expire(x, s) \/ ExpireSlow(x, s) PROVE JInv'
  BY <1>7, <1>t, ExpireKeepsJobs
<1>8. ASSUME NEW w \in Workers, Read(w) PROVE JInv'
  <2>1. /\ OnlyForward /\ worker[w].at = "read"
        /\ UNCHANGED <<event, pending, delivery, sweeping, acked, ran, faults>>
    BY <1>8, <1>v DEF OnlyForward, Read
  <2>2. PICK x \in Pairs : worker[w].pair = x /\ delivery[x] \in Rows
    BY <2>1, <1>v, OnSlot
  <2>3. CASE /\ delivery[x].status = "done" /\ Report(w, [Job(w) EXCEPT !.state = "over"])
             /\ worker' = [worker EXCEPT ![w] = Idle]
    <3>1. ~Unheard(x)
      BY <1>t, <1>v, <2>2, <2>3 DEF SInv, DoneMeansRan, Unheard
    <3> QED
      BY <1>t, <2>1, <2>2, <2>3, <3>1, RunEnds
  <2>4. CASE /\ ~Readable(x[1]) /\ Report(w, Retried(Job(w)))
             /\ worker' = [worker EXCEPT ![w] = Idle]
    <3>1. ASSUME Unheard(x), Owned(w) PROVE Job(w).tries <= spent
      <4>1. event[x[1]] = "open"
        BY <2>4, <3>1 DEF Unheard, Readable
      <4>2. worker[w].try = Job(w).tries /\ worker[w].try \in Nat
        BY <2>1, <3>1, OnSlot DEF Owned
      <4>3. Job(w).tries = 0
        BY <2>1, <2>2, <4>1, <4>2 DEF JInv, FirstTry
      <4>4. faults \in 0..MaxFaults /\ MaxFaults \in Nat
        BY <1>t, BusAssumption DEF SInv, TInv, Shaped
      <4>5. 0 <= spent
        BY <4>4 DEF spent
      <4> QED
        BY <4>3, <4>5
    <3> QED
      BY <1>t, <2>1, <2>2, <2>4, <3>1, RunEnds
  <2>5. CASE worker' = [worker EXCEPT ![w].at = "claim", ![w].attempts = delivery[x].attempts + 1]
             /\ jobs' = jobs
    <3> DEFINE W == [worker[w] EXCEPT !.at = "claim", !.attempts = delivery[x].attempts + 1]
    <3>1. worker' = [worker EXCEPT ![w] = W]
      BY <2>5
    <3>2. W.at = "claim" /\ W.pair = worker[w].pair /\ W.slot = worker[w].slot /\ W.try = worker[w].try
      BY <1>v DEF WorkerSet
    <3> HIDE DEF W
    <3> QED
      BY <1>t, <2>1, <2>5, <3>1, <3>2, RunGoesOn
  <2> QED
    BY <1>8, <2>2, <2>3, <2>4, <2>5 DEF Read
<1>9. ASSUME NEW w \in Workers, Claim(w) PROVE JInv'
  <2>1. /\ OnlyForward /\ worker[w].at = "claim"
        /\ UNCHANGED <<event, pending, jobs, sweeping, acked, ran, faults>>
    BY <1>9, <1>v DEF OnlyForward, Claim
  <2> DEFINE W == [worker[w] EXCEPT !.at = "handle"]
  <2>2. worker' = [worker EXCEPT ![w] = W]
    BY <1>9 DEF Claim
  <2>3. W.at = "handle" /\ W.pair = worker[w].pair /\ W.slot = worker[w].slot /\ W.try = worker[w].try
    BY <1>v DEF WorkerSet
  <2>4. \A y \in Pairs \ {worker[w].pair} : delivery'[y] = delivery[y]
    BY <1>9, <1>v DEF Claim
  <2> HIDE DEF W
  <2> QED
    BY <1>t, <2>1, <2>2, <2>3, <2>4, RunGoesOn
<1>10. ASSUME NEW w \in Workers, Handle(w) PROVE JInv'
  <2>1. PICK x \in Pairs : worker[w].pair = x /\ worker[w].at = "handle"
    BY <1>10, OnSlot DEF Handle
  <2>2. ran'[x] = ran[x] + 1 /\ \A y \in Pairs : y # x => ran'[y] = ran[y]
    BY <1>10, <1>v, <2>1 DEF Handle
  <2>3. ran'[x] > 0 /\ OnlyForward
    BY <1>10, <1>v, <2>1, <2>2 DEF OnlyForward, Handle
  <2> DEFINE W == [worker[w] EXCEPT !.at = "succeeded"]
  <2>4. worker' = [worker EXCEPT ![w] = W]
    BY <1>10 DEF Handle
  <2>5. W.at = "succeeded" /\ W.pair = worker[w].pair /\ W.slot = worker[w].slot /\ W.try = worker[w].try
    BY <1>v DEF WorkerSet
  <2>6. UNCHANGED <<event, pending, jobs, delivery, sweeping>>
    BY <1>10 DEF Handle
  <2> HIDE DEF W
  <2> QED
    BY <1>t, <2>1, <2>3, <2>4, <2>5, <2>6, RunGoesOn
<1>11. ASSUME NEW w \in Workers, HandlerThrows(w) PROVE JInv'
  <2>1. /\ OnlyForward /\ worker[w].at = "handle" /\ faults' = faults - 1
        /\ UNCHANGED <<event, pending, jobs, delivery, sweeping, acked, ran>>
    BY <1>11, <1>v DEF OnlyForward, HandlerThrows
  <2> DEFINE W == [worker[w] EXCEPT !.at = "threw"]
  <2>2. worker' = [worker EXCEPT ![w] = W]
    BY <1>11 DEF HandlerThrows
  <2>3. W.at = "threw" /\ W.pair = worker[w].pair /\ W.slot = worker[w].slot /\ W.try = worker[w].try
    BY <1>v DEF WorkerSet
  <2> HIDE DEF W
  <2> QED
    BY <1>t, <2>1, <2>2, <2>3, RunGoesOn
<1>12. ASSUME NEW w \in Workers, RecordDone(w) PROVE JInv'
  <2>1. /\ OnlyForward /\ worker[w].at = "succeeded" /\ worker' = [worker EXCEPT ![w] = Idle]
        /\ UNCHANGED <<event, pending, sweeping, acked, ran, faults>>
        /\ Report(w, [Job(w) EXCEPT !.state = "over"])
        /\ \A y \in Pairs \ {worker[w].pair} : delivery'[y] = delivery[y]
    BY <1>12, <1>v DEF OnlyForward, RecordDone
  <2>2. ~Unheard(worker[w].pair)
    BY <1>t, <2>1 DEF SInv, SucceededRan, Unheard
  <2> QED
    BY <1>t, <2>1, <2>2, RunEnds
<1>13. ASSUME NEW w \in Workers, RecordFailure(w) PROVE JInv'
  <2>1. /\ OnlyForward /\ worker[w].at = "threw" /\ worker' = [worker EXCEPT ![w] = Idle]
        /\ UNCHANGED <<event, pending, sweeping, acked, ran, faults>>
        /\ Report(w, Retried(Job(w)))
        /\ \A y \in Pairs \ {worker[w].pair} : delivery'[y] = delivery[y]
    BY <1>13, <1>v DEF OnlyForward, RecordFailure
  <2>2. ASSUME Unheard(worker[w].pair), Owned(w) PROVE Job(w).tries <= spent
    <3>1. Follows(w, worker[w].pair, worker[w].slot) /\ Job(w) = jobs[worker[w].pair][worker[w].slot]
      BY <2>1, <2>2, OnSlot DEF JInv, Followed
    <3> QED
      BY <2>1, <2>2, <3>1 DEF Follows, Owned
  <2> QED
    BY <1>t, <2>1, <2>2, RunEnds
<1>14. ASSUME NEW w \in Workers, Crash(w) PROVE JInv'
  <2>1. /\ OnlyForward /\ worker[w].at # "idle" /\ worker' = [worker EXCEPT ![w] = Idle]
        /\ UNCHANGED <<event, pending, jobs, delivery, sweeping, acked, ran>> /\ faults' = faults - 1
    BY <1>14, <1>v DEF OnlyForward, Crash
  <2> QED
    BY <1>t, <2>1, RunEnds
<1> QED
  BY <1>1, <1>2, <1>3, <1>4, <1>5, <1>6, <1>7, <1>8, <1>9, <1>10, <1>11, <1>12, <1>13, <1>14
     DEF Next, WorkerStep

\* While there are fewer faults than retries, a committed event that a handler
\* has not heard has a job that pg-boss still holds, or no row yet so that the
\* sweep finds it: lost dispatches, crashes, expired runs, handler errors and
\* first tries before the commit together never leave it to nobody.
THEOREM NoEventLost == ASSUME MaxFaults < RetryLimit PROVE Spec => []NothingFallsThrough
<1>1. JInv /\ [Next]_vars => JInv'
  BY JobsStep
<1>2. JInv => NothingFallsThrough
  <2> SUFFICES ASSUME JInv, NEW x \in Pairs, event[x[1]] = "committed", ~(ran[x] > 0),
                      x \notin acked, delivery[x].status # "none"
               PROVE  Alive(x)
    BY DEF NothingFallsThrough
  <2>1. ran[x] = 0
    BY DEF JInv, SInv, TInv, Shaped
  <2> QED
    BY <2>1 DEF JInv, RowHasJob, Unheard
<1> QED
  BY InitJobs, <1>1, <1>2, PTL DEF Spec

-----------------------------------------------------------------------------
(* Exactly once, with one job of a delivery and before any fault *)

On(w, x) == worker[w].at # "idle" /\ worker[w].pair = x

\* The one job of x is active exactly while one worker is on it, and an effect
\* is on record, or its worker is about to record it.
Alone(x) ==
  /\ \A w \in Workers : On(w, x) => worker[w].at # "threw" /\ jobs[x][1].state = "active"
                                    /\ worker[w].slot = 1 /\ worker[w].try = jobs[x][1].tries
  /\ \A v, w \in Workers : On(v, x) /\ On(w, x) => v = w
  /\ jobs[x][1].state = "active" => \E w \in Workers : On(w, x)
Once(x) ==
  /\ ran[x] <= 1
  /\ ran[x] > 0 => \/ delivery[x].status = "done"
                   \/ \E w \in Workers : On(w, x) /\ worker[w].at = "succeeded"
  /\ \A w \in Workers : On(w, x) /\ worker[w].at \in {"claim", "handle"} => ran[x] = 0

AInv == /\ SInv /\ Parked
        /\ faults = MaxFaults => \A x \in Pairs : Alone(x) /\ Once(x)

LEMMA InitAlone == Init => AInv
<1> SUFFICES ASSUME Init PROVE AInv
  OBVIOUS
<1>1. SInv
  BY InitSafe
<1>2. Parked
  BY DEF Init, Parked, Idle
<1>3. ASSUME NEW x \in Pairs PROVE Alone(x) /\ Once(x)
  <2>1. jobs[x][1].state = "none" /\ ran[x] = 0
    BY BusAssumption DEF Init, NoJob, Slots
  <2>2. \A w \in Workers : ~On(w, x)
    BY DEF Init, Idle, On
  <2> QED
    BY <2>1, <2>2 DEF Alone, Once
<1> QED
  BY <1>1, <1>2, <1>3 DEF AInv

\* A pair that the step leaves alone, but for its row being acknowledged.
LEMMA PairLeftAlone ==
  ASSUME NEW x \in Pairs, Alone(x), Once(x), jobs'[x][1] = jobs[x][1], ran'[x] = ran[x],
         delivery[x].status = "done" => delivery'[x].status = "done",
         \A w \in Workers : \/ worker'[w] = worker[w]
                            \/ ~On(w, x) /\ ~On(w, x)'
  PROVE  Alone(x)' /\ Once(x)'
<1>1. \A w \in Workers : On(w, x)' <=> On(w, x)
  BY DEF On
<1>2. \A w \in Workers : On(w, x) => worker'[w] = worker[w]
  BY <1>1
<1>3. Alone(x)'
  BY <1>1, <1>2 DEF Alone
<1>4. Once(x)'
  BY <1>1, <1>2 DEF Once
<1> QED
  BY <1>3, <1>4

\* A step of a worker on x: it goes on, is done with its run, or takes the job.
LEMMA OneWorkerAlone ==
  ASSUME AInv, SInv', faults' = MaxFaults, faults = MaxFaults,
         NEW w \in Workers, NEW x \in Pairs,
         \A v \in Workers \ {w} : worker'[v] = worker[v],
         \A y \in Pairs \ {x} : /\ jobs'[y][1] = jobs[y][1] /\ ran'[y] = ran[y]
                                /\ delivery'[y] = delivery[y],
         worker[w].at = "idle" \/ worker[w].pair = x,
         \/ worker'[w] = Idle
         \/ worker'[w].at # "idle" /\ worker'[w].pair = x,
         Alone(x)' /\ Once(x)'
  PROVE  AInv'
<1>0. Nobody \notin Pairs /\ Idle.at = "idle" /\ Idle.pair = Nobody
  BY BusAssumption DEF Idle
<1>1. Parked'
  BY <1>0 DEF AInv, Parked
<1>2. ASSUME NEW y \in Pairs PROVE Alone(y)' /\ Once(y)'
  <2>1. CASE y = x
    BY <2>1
  <2>2. CASE y # x
    <3>1. ~On(w, y) /\ ~On(w, y)'
      BY <1>0, <2>2 DEF On
    <3> QED
      BY <2>2, <3>1, PairLeftAlone DEF AInv
  <2> QED
    BY <2>1, <2>2
<1> QED
  BY <1>1, <1>2 DEF AInv

\* Steps of the publisher, the sweep and the loader.
LEMMA QuietAlone ==
  ASSUME AInv, SInv', UNCHANGED <<worker, ran>>, faults' \in 0..faults,
         \A x \in Pairs : delivery[x].status = "done" => delivery'[x].status = "done",
         \A x \in Pairs : \/ jobs'[x][1] = jobs[x][1]
                          \/ jobs[x][1].state \in {"none", "over"} /\ jobs'[x][1].state = "queued"
  PROVE  AInv'
<1>1. Parked'
  BY DEF AInv, Parked
<1>2. ASSUME faults' = MaxFaults, NEW x \in Pairs PROVE Alone(x)' /\ Once(x)'
  <2>1. faults = MaxFaults
    <3>1. faults \in 0..MaxFaults /\ MaxFaults \in Nat
      BY BusAssumption DEF AInv, SInv, TInv, Shaped
    <3> QED
      BY <1>2, <3>1
  <2>2. Alone(x) /\ Once(x)
    BY <2>1 DEF AInv
  <2>3. CASE jobs'[x][1] = jobs[x][1]
    BY <2>2, <2>3, PairLeftAlone
  <2>4. CASE jobs[x][1].state \in {"none", "over"} /\ jobs'[x][1].state = "queued"
    <3>1. \A v \in Workers : ~On(v, x) /\ ~On(v, x)'
      BY <2>2, <2>4 DEF Alone, On
    <3>2. Alone(x)'
      BY <2>4, <3>1 DEF Alone
    <3>3. Once(x)'
      BY <2>2, <3>1 DEF Once
    <3> QED
      BY <3>2, <3>3
  <2> QED
    BY <2>3, <2>4
<1> QED
  BY <1>1, <1>2 DEF AInv

LEMMA EnqueueAlone ==
  ASSUME MaxJobs = 1, AInv, SInv', NEW x \in Pairs, Dispatch(x) \/ SweepSends(x) PROVE AInv'
<1>0. /\ jobs \in [Pairs -> [Slots -> JobSet]] /\ Slots = {1} /\ faults \in 0..MaxFaults
      /\ MaxFaults \in Nat
  BY BusAssumption DEF AInv, SInv, TInv, Shaped, Slots
<1>1. UNCHANGED <<worker, ran, delivery, faults>> /\ Enqueue(x)
  BY DEF Dispatch, SweepSends
<1>2. \A y \in Pairs : \/ jobs'[y][1] = jobs[y][1]
                       \/ jobs[y][1].state \in {"none", "over"} /\ jobs'[y][1].state = "queued"
  <2>1. CASE jobs' = jobs
    BY <2>1
  <2>2. CASE \E s \in FreeSlots(x) : jobs' = Queued(x, s)
    <3>1. 1 \in FreeSlots(x) /\ jobs' = Queued(x, 1)
      BY <1>0, <2>2 DEF FreeSlots
    <3>2. jobs[x][1].state \in {"none", "over"}
      BY <3>1 DEF FreeSlots
    <3>3. jobs'[x][1].state = "queued" /\ \A y \in Pairs : y # x => jobs'[y] = jobs[y]
      BY <1>0, <3>1 DEF Queued
    <3> QED
      BY <3>2, <3>3
  <2> QED
    BY <1>1, <2>1, <2>2 DEF Enqueue
<1>3. faults' \in 0..faults
  BY <1>0, <1>1
<1> QED
  BY <1>1, <1>2, <1>3, QuietAlone

LEMMA FetchAlone ==
  ASSUME MaxJobs = 1, AInv, SInv', NEW w \in Workers, NEW x \in Pairs, NEW s \in Slots,
         Fetch(w, x, s), faults = MaxFaults
  PROVE  AInv'
<1>0. /\ jobs \in [Pairs -> [Slots -> JobSet]] /\ Slots = {1} /\ worker \in [Workers -> WorkerSet]
  BY BusAssumption DEF AInv, SInv, TInv, Shaped, Slots
<1>1. /\ s = 1 /\ worker[w].at = "idle" /\ jobs[x][1].state = "queued"
      /\ UNCHANGED <<delivery, ran, faults>>
      /\ jobs'[x][1] = [state |-> "active", tries |-> jobs[x][1].tries]
      /\ worker'[w] = [at |-> "read", pair |-> x, slot |-> s, try |-> jobs[x][1].tries, attempts |-> 0]
      /\ \A v \in Workers \ {w} : worker'[v] = worker[v]
      /\ \A y \in Pairs \ {x} : jobs'[y] = jobs[y]
  BY <1>0 DEF Fetch
<1>2. Alone(x) /\ Once(x)
  BY DEF AInv
<1>3. \A v \in Workers : ~On(v, x)
  BY <1>1, <1>2 DEF Alone
<1>4. \A v \in Workers : On(v, x)' <=> v = w
  BY <1>1, <1>3 DEF On
<1>5. Alone(x)'
  BY <1>1, <1>4 DEF Alone
<1>6. Once(x)'
  BY <1>1, <1>2, <1>3, <1>4 DEF Once
<1> QED
  BY <1>1, <1>5, <1>6, OneWorkerAlone

\* A worker that goes on with its run while its job stays active.
LEMMA GoesOnAlone ==
  ASSUME AInv, SInv', NEW w \in Workers, NEW x \in Pairs, On(w, x), faults = MaxFaults,
         NEW a \in {"claim", "handle", "succeeded"},
         worker'[w].at = a, worker'[w].pair = x, worker'[w].slot = worker[w].slot,
         worker'[w].try = worker[w].try,
         \A v \in Workers \ {w} : worker'[v] = worker[v],
         UNCHANGED <<jobs, faults>>,
         delivery[x].status = "done" => delivery'[x].status = "done",
         \A y \in Pairs \ {x} : ran'[y] = ran[y] /\ delivery'[y] = delivery[y],
         \/ a # "succeeded" /\ ran'[x] = ran[x] /\ ran[x] = 0
         \/ a = "succeeded" /\ ran'[x] = 1
  PROVE  AInv'
<1>1. Alone(x) /\ Once(x)
  BY DEF AInv
<1>2. \A v \in Workers : On(v, x)' <=> On(v, x)
  BY DEF On
<1>3. \A v \in Workers : On(v, x) <=> v = w
  BY <1>1 DEF Alone
<1>4. Alone(x)'
  BY <1>1, <1>2, <1>3 DEF Alone
<1>5. Once(x)'
  BY <1>1, <1>2, <1>3 DEF Once
<1>6. worker'[w].at # "idle" /\ worker[w].pair = x /\ faults' = MaxFaults
  BY DEF On
<1>7. \A y \in Pairs \ {x} : jobs'[y][1] = jobs[y][1]
  OBVIOUS
<1> QED
  BY <1>4, <1>5, <1>6, <1>7, OneWorkerAlone

\* A worker that ends its run and reports it.
LEMMA EndsAlone ==
  ASSUME MaxJobs = 1, AInv, SInv', NEW w \in Workers, NEW x \in Pairs, On(w, x), faults = MaxFaults,
         worker' = [worker EXCEPT ![w] = Idle],
         Report(w, [Job(w) EXCEPT !.state = "over"]) \/ Report(w, Retried(Job(w))),
         UNCHANGED <<faults, ran>>,
         \A y \in Pairs \ {x} : delivery'[y] = delivery[y],
         delivery[x].status = "done" => delivery'[x].status = "done",
         worker[w].at = "succeeded" => delivery'[x].status = "done"
  PROVE  AInv'
<1>0. /\ jobs \in [Pairs -> [Slots -> JobSet]] /\ Slots = {1} /\ worker \in [Workers -> WorkerSet]
      /\ Nobody \notin Pairs /\ Idle.pair = Nobody /\ Idle.at = "idle"
  BY BusAssumption DEF AInv, SInv, TInv, Shaped, Slots, Idle
<1>1. Alone(x) /\ Once(x)
  BY DEF AInv
<1>2. /\ worker[w].pair = x /\ worker[w].slot = 1 /\ jobs[x][1].state = "active"
      /\ Job(w) = jobs[x][1] /\ Owned(w) /\ Job(w) \in JobSet
  BY <1>0, <1>1 DEF On, Alone, Job, Owned
<1>3. PICK j \in {[Job(w) EXCEPT !.state = "over"], Retried(Job(w))} : jobs' = [jobs EXCEPT ![x][1] = j]
  BY <1>2 DEF Report
<1>4. j.state # "active"
  <2>1. [Job(w) EXCEPT !.state = "over"].state = "over" /\ Retried(Job(w)).state \in {"queued", "over"}
    BY <1>2, RetriedState DEF JobSet
  <2> QED
    BY <2>1
<1>5. jobs'[x][1] = j /\ \A y \in Pairs \ {x} : jobs'[y] = jobs[y]
  BY <1>0, <1>3
<1>6. \A v \in Workers : On(v, x) <=> v = w
  BY <1>1 DEF Alone
<1>7. worker'[w] = Idle /\ \A v \in Workers \ {w} : worker'[v] = worker[v]
  BY <1>0
<1>8. \A v \in Workers : ~On(v, x)'
  BY <1>0, <1>6, <1>7 DEF On
<1>9. Alone(x)'
  BY <1>4, <1>5, <1>8 DEF Alone
<1>10. Once(x)'
  BY <1>1, <1>6, <1>8 DEF Once
<1>11. faults' = MaxFaults
  OBVIOUS
<1> QED
  BY <1>2, <1>5, <1>7, <1>9, <1>10, <1>11, OneWorkerAlone

\* After a fault nothing is claimed any more.
LEMMA FaultyAlone ==
  ASSUME AInv, SInv', Next, faults # MaxFaults \/ faults' = faults - 1, MaxJobs = 1
  PROVE  AInv'
<1>0. /\ faults \in 0..MaxFaults /\ MaxFaults \in Nat /\ worker \in [Workers -> WorkerSet]
      /\ Idle.at = "idle" /\ Idle.pair = Nobody
  BY BusAssumption DEF AInv, SInv, TInv, Shaped, Idle
<1>1. faults' = faults \/ faults' = faults - 1
  BY DEF Next, Publish, EndTransaction, Dispatch, SweepSends, LoseDispatch, Fetch, WorkerStep, Read,
         Claim, Handle, RecordDone, RecordFailure, HandlerThrows, Crash, Expire, ExpireSlow,
         SweepReads, Acknowledge
<1>2. faults' # MaxFaults
  BY <1>0, <1>1
<1>3. Parked'
  <2>1. CASE worker' = worker
    BY <2>1 DEF AInv, Parked
  <2>2. ASSUME NEW w \in Workers, worker' = [worker EXCEPT ![w] = Idle] PROVE Parked'
    BY <1>0, <2>2 DEF AInv, Parked
  <2>3. ASSUME NEW w \in Workers, NEW x \in Pairs, NEW s \in Slots, Fetch(w, x, s) PROVE Parked'
    BY <1>0, <2>3 DEF AInv, Parked, Fetch
  <2>4. ASSUME NEW w \in Workers, NEW a \in {"claim", "handle", "succeeded", "threw"}, NEW n,
               \/ worker' = [worker EXCEPT ![w].at = a, ![w].attempts = n]
               \/ worker' = [worker EXCEPT ![w].at = a]
        PROVE  Parked'
    <3>1. worker'[w].at = a /\ \A v \in Workers \ {w} : worker'[v] = worker[v]
      BY <1>0, <2>4 DEF WorkerSet
    <3> QED
      BY <3>1 DEF AInv, Parked
  <2> QED
    BY <2>1, <2>2, <2>3, <2>4
       DEF Next, Publish, EndTransaction, Dispatch, SweepSends, LoseDispatch, WorkerStep, Read,
           Claim, Handle, RecordDone, RecordFailure, HandlerThrows, Crash, Expire, ExpireSlow,
           SweepReads, Acknowledge
<1> QED
  BY <1>2, <1>3 DEF AInv

LEMMA AloneStep == MaxJobs = 1 /\ AInv /\ [Next]_vars => AInv'
<1> SUFFICES ASSUME MaxJobs = 1, AInv, [Next]_vars PROVE AInv'
  OBVIOUS
<1>t. SInv' /\ SInv
  BY SafeStep DEF AInv
<1>v. /\ faults \in 0..MaxFaults /\ MaxFaults \in Nat /\ ran \in [Pairs -> Nat]
      /\ worker \in [Workers -> WorkerSet] /\ delivery \in [Pairs -> Rows]
  BY <1>t, BusAssumption DEF SInv, TInv, Shaped
<1>p. ASSUME NEW w \in Workers, worker[w].at # "idle"
      PROVE  worker[w].pair \in Pairs /\ On(w, worker[w].pair)
  BY <1>t, <1>p DEF SInv, TInv, BusyOnPair, On
<1>1. CASE UNCHANGED vars
  BY <1>1, <1>t, <1>v, QuietAlone DEF vars
<1>f. CASE Next /\ (faults # MaxFaults \/ faults' = faults - 1)
  BY <1>f, <1>t, FaultyAlone
<1>g. CASE Next /\ faults = MaxFaults /\ faults' # faults - 1
  <2>1. CASE \E e \in AllEvents : Publish(e) \/ \E o \in {"committed", "aborted"} : EndTransaction(e, o)
    <3>1. UNCHANGED <<worker, ran, delivery, jobs, faults>>
      BY <2>1 DEF Publish, EndTransaction
    <3> QED
      BY <3>1, <1>t, <1>v, QuietAlone
  <2>2. CASE SweepReads
    BY <2>2, <1>t, <1>v, QuietAlone DEF SweepReads
  <2>3. CASE Acknowledge
    <3>1. UNCHANGED <<worker, ran, jobs, faults>>
      BY <2>3 DEF Acknowledge
    <3>2. \A x \in Pairs : delivery[x].status = "done" => delivery'[x].status = "done"
      BY <2>3 DEF Acknowledge
    <3> QED
      BY <3>1, <3>2, <1>t, <1>v, QuietAlone
  <2>4. ASSUME NEW x \in Pairs, Dispatch(x) \/ SweepSends(x) PROVE AInv'
    BY <2>4, <1>t, EnqueueAlone
  <2>5. ASSUME NEW w \in Workers, NEW x \in Pairs, NEW s \in Slots, Fetch(w, x, s) PROVE AInv'
    BY <2>5, <1>t, <1>g, FetchAlone
  <2>6. ASSUME NEW w \in Workers, Read(w) PROVE AInv'
    <3>1. PICK x \in Pairs : worker[w].pair = x /\ On(w, x) /\ worker[w].at = "read"
      BY <2>6, <1>p DEF Read
    <3>2. UNCHANGED <<delivery, ran, faults>>
      BY <2>6 DEF Read
    <3>3. CASE /\ Report(w, [Job(w) EXCEPT !.state = "over"]) \/ Report(w, Retried(Job(w)))
               /\ worker' = [worker EXCEPT ![w] = Idle]
      BY <1>t, <1>g, <3>1, <3>2, <3>3, EndsAlone
    <3>4. CASE /\ delivery[x].status # "done" /\ jobs' = jobs
               /\ worker' = [worker EXCEPT ![w].at = "claim", ![w].attempts = delivery[x].attempts + 1]
      <4>1. /\ worker'[w].at = "claim" /\ worker'[w].pair = x /\ worker'[w].slot = worker[w].slot
            /\ worker'[w].try = worker[w].try
            /\ \A v \in Workers \ {w} : worker'[v] = worker[v]
        BY <1>v, <3>1, <3>4 DEF WorkerSet
      <4>2. Alone(x) /\ Once(x)
        BY <1>g DEF AInv
      <4>3. ran[x] = 0
        BY <1>v, <3>1, <3>4, <4>2 DEF Alone, Once
      <4>4. \A y \in Pairs \ {x} : ran'[y] = ran[y] /\ delivery'[y] = delivery[y]
        BY <3>2
      <4> QED
        BY <1>t, <1>g, <3>1, <3>2, <3>4, <4>1, <4>3, <4>4, GoesOnAlone
    <3> QED
      BY <2>6, <3>1, <3>3, <3>4 DEF Read
  <2>7. ASSUME NEW w \in Workers, Claim(w) PROVE AInv'
    <3>1. PICK x \in Pairs : worker[w].pair = x /\ On(w, x) /\ worker[w].at = "claim"
      BY <2>7, <1>p DEF Claim
    <3>2. UNCHANGED <<jobs, ran, faults>>
      BY <2>7 DEF Claim
    <3>3. /\ worker'[w].at = "handle" /\ worker'[w].pair = x /\ worker'[w].slot = worker[w].slot
          /\ worker'[w].try = worker[w].try
          /\ \A v \in Workers \ {w} : worker'[v] = worker[v]
      BY <1>v, <2>7, <3>1 DEF WorkerSet, Claim
    <3>4. ran[x] = 0
      BY <1>g, <3>1 DEF AInv, Once
    <3>5. delivery[x].status = "done" => Claimed(x, worker[w].attempts).status = "done"
      BY <1>v DEF Claimed, Rows
    <3>6. /\ \A y \in Pairs \ {x} : ran'[y] = ran[y] /\ delivery'[y] = delivery[y]
          /\ delivery'[x] = Claimed(x, worker[w].attempts)
      BY <1>v, <2>7, <3>1 DEF Claim
    <3> QED
      BY <1>t, <1>g, <3>1, <3>2, <3>3, <3>4, <3>5, <3>6, GoesOnAlone
  <2>8. ASSUME NEW w \in Workers, Handle(w) PROVE AInv'
    <3>1. PICK x \in Pairs : worker[w].pair = x /\ On(w, x) /\ worker[w].at = "handle"
      BY <2>8, <1>p DEF Handle
    <3>2. UNCHANGED <<jobs, delivery, faults>>
      BY <2>8 DEF Handle
    <3>3. /\ worker'[w].at = "succeeded" /\ worker'[w].pair = x /\ worker'[w].slot = worker[w].slot
          /\ worker'[w].try = worker[w].try
          /\ \A v \in Workers \ {w} : worker'[v] = worker[v]
      BY <1>v, <2>8, <3>1 DEF WorkerSet, Handle
    <3>4. ran[x] = 0
      BY <1>g, <3>1 DEF AInv, Once
    <3>5. ran'[x] = 1 /\ \A y \in Pairs \ {x} : ran'[y] = ran[y] /\ delivery'[y] = delivery[y]
      BY <1>v, <2>8, <3>1, <3>4 DEF Handle
    <3> QED
      BY <1>t, <1>g, <3>1, <3>2, <3>3, <3>5, GoesOnAlone
  <2>9. ASSUME NEW w \in Workers, RecordDone(w) \/ RecordFailure(w) PROVE AInv'
    <3>1. PICK x \in Pairs : worker[w].pair = x /\ On(w, x)
      BY <2>9, <1>p DEF RecordDone, RecordFailure
    <3>2. worker[w].at # "threw"
      BY <1>g, <3>1 DEF AInv, Alone
    <3>3. RecordDone(w)
      BY <2>9, <3>2 DEF RecordFailure
    <3>4. /\ worker' = [worker EXCEPT ![w] = Idle] /\ Report(w, [Job(w) EXCEPT !.state = "over"])
          /\ UNCHANGED <<faults, ran>>
      BY <3>3 DEF RecordDone
    <3>5. delivery'[x].status = "done" /\ \A y \in Pairs \ {x} : delivery'[y] = delivery[y]
      BY <1>v, <3>1, <3>3 DEF RecordDone, Rows
    <3> QED
      BY <1>t, <1>g, <3>1, <3>4, <3>5, EndsAlone
  <2>10. ASSUME NEW x \in Pairs, NEW s \in Slots, Expire(x, s) PROVE AInv'
    <3>1. Slots = {1} /\ s = 1
      BY DEF Slots
    <3>2. jobs[x][1].state = "active" /\ ~Running(x, 1) /\ Alone(x)
      BY <1>g, <2>10, <3>1 DEF Expire, AInv
    <3>3. PICK w \in Workers : On(w, x)
      BY <3>2 DEF Alone
    <3>4. Running(x, 1)
      BY <3>2, <3>3 DEF Alone, On, Running, Owned, Job
    <3> QED
      BY <3>2, <3>4
  <2>11. ~LoseDispatch(pending) /\ \A x \in pending : ~LoseDispatch({x})
    BY <1>g DEF LoseDispatch
  <2>12. \A w \in Workers : ~HandlerThrows(w) /\ ~Crash(w)
    BY <1>g DEF HandlerThrows, Crash
  <2>13. \A x \in Pairs, s \in Slots : ~ExpireSlow(x, s)
    BY <1>g DEF ExpireSlow
  <2> QED
    BY <1>g, <2>1, <2>2, <2>3, <2>4, <2>5, <2>6, <2>7, <2>8, <2>9, <2>10, <2>11, <2>12, <2>13
       DEF Next, WorkerStep
<1> QED
  BY <1>1, <1>f, <1>g

\* "exactly once" as far as the code can promise it: while pg-boss keeps one job
\* of a delivery and nothing has failed, crashed or expired, a handler's effect
\* happens at most once, whatever the sweep, the loader and the workers interleave.
THEOREM OnceWhenNothingFails == ASSUME MaxJobs = 1 PROVE Spec => []OnceWithoutFaults
<1>1. AInv /\ [Next]_vars => AInv'
  BY AloneStep
<1>2. AInv => OnceWithoutFaults
  BY DEF AInv, Once, OnceWithoutFaults
<1> QED
  BY InitAlone, <1>1, <1>2, PTL DEF Spec
=============================================================================
