--------------------------------- MODULE EventBus ---------------------------------
(***************************************************************************)
(* The event bus: the domain_event outbox, one pg-boss job per event and   *)
(* handler, the event_delivery rows and the sweep                          *)
(* (apps/api/src/platform/events/bus.ts, jobs/boss.ts; demo/generator.ts   *)
(* for history that is written quietly and acknowledged).                  *)
(*                                                                         *)
(* Queue mode only (WORKER_ENABLED).  pg-boss is external: a job is queued,*)
(* active or over, is fetched by one worker, and a job that fails or       *)
(* expires is queued again until its retries are used up.  The 24 hours    *)
(* of the sweep are taken to be longer than any outage.                    *)
(***************************************************************************)
EXTENDS Integers, FiniteSets

CONSTANTS
  Events,     \* events that will be published as news
  Seeds,      \* events the demo generator writes with dispatch suppressed
  Handlers,   \* subscribers of every event
  Workers,    \* handler runs in parallel
  Nobody,     \* "no pair" in an idle worker
  RetryLimit, \* pg-boss retries of a dispatch job
  MaxAttempts,\* MAX_DELIVERY_ATTEMPTS
  MaxJobs,    \* bound: jobs pg-boss keeps for one event and handler
  MaxFaults   \* bound: handler errors, crashes, expired runs, failed sends

AllEvents == Events \cup Seeds
Pairs == AllEvents \X Handlers
Slots == 1..MaxJobs

ASSUME BusAssumption ==
  /\ Events \cap Seeds = {} /\ Nobody \notin Pairs
  /\ RetryLimit \in Nat /\ MaxAttempts \in Nat /\ MaxFaults \in Nat
  /\ MaxJobs \in Nat \ {0}

VARIABLES
  event,    \* domain_event: none, open (its transaction has not ended), committed, aborted
  pending,  \* dispatches the publishing process still has to send
  jobs,     \* the pg-boss queue
  delivery, \* the event_delivery rows
  worker,   \* the deliver call each worker is in
  sweeping, \* deliveries the running sweep still has to enqueue
  acked,    \* history: pairs recorded as done without a run
  ran,      \* history: how often each handler's effect happened
  faults    \* faults still to come

vars == <<event, pending, jobs, delivery, worker, sweeping, acked, ran, faults>>

NoJob == [state |-> "none", tries |-> 0]
NoRow == [status |-> "none", attempts |-> 0]
Idle == [at |-> "idle", pair |-> Nobody, slot |-> 1, try |-> 0, attempts |-> 0]

Init ==
  /\ event = [e \in AllEvents |-> "none"]
  /\ pending = {}
  /\ jobs = [x \in Pairs |-> [s \in Slots |-> NoJob]]
  /\ delivery = [x \in Pairs |-> NoRow]
  /\ worker = [w \in Workers |-> Idle]
  /\ sweeping = {}
  /\ acked = {}
  /\ ran = [x \in Pairs |-> 0]
  /\ faults = MaxFaults

-----------------------------------------------------------------------------
(* Publishing *)

\* publish: the row in the caller's transaction, the dispatch on the next tick.
Publish(e) ==
  /\ event[e] = "none"
  /\ event' = [event EXCEPT ![e] = "open"]
  /\ pending' = IF e \in Seeds THEN pending ELSE pending \cup ({e} \X Handlers)
  /\ UNCHANGED <<jobs, delivery, worker, sweeping, acked, ran, faults>>

EndTransaction(e, outcome) ==
  /\ event[e] = "open"
  /\ event' = [event EXCEPT ![e] = outcome]
  /\ UNCHANGED <<pending, jobs, delivery, worker, sweeping, acked, ran, faults>>

FreeSlots(x) == {s \in Slots : jobs[x][s].state \in {"none", "over"}}
Queued(x, s) == [jobs EXCEPT ![x][s] = [state |-> "queued", tries |-> 0]]

\* boss.send for one pair; beyond the bound a job is not added.
Enqueue(x) ==
  IF FreeSlots(x) = {} THEN jobs' = jobs
  ELSE \E s \in FreeSlots(x) : (\A t \in FreeSlots(x) : s <= t) /\ jobs' = Queued(x, s)

Dispatch(x) ==
  /\ x \in pending
  /\ Enqueue(x)
  /\ pending' = pending \ {x}
  /\ UNCHANGED <<event, delivery, worker, sweeping, acked, ran, faults>>

\* A send that fails is logged; a restart loses the dispatches still in memory.
LoseDispatch(lost) ==
  /\ faults > 0 /\ lost # {}
  /\ faults' = faults - 1
  /\ pending' = pending \ lost
  /\ UNCHANGED <<event, jobs, delivery, worker, sweeping, acked, ran>>

-----------------------------------------------------------------------------
(* Delivery *)

Job(w) == jobs[worker[w].pair][worker[w].slot]
Owned(w) == Job(w).state = "active" /\ Job(w).tries = worker[w].try

Retried(j) == IF j.tries < RetryLimit THEN [state |-> "queued", tries |-> j.tries + 1]
              ELSE [j EXCEPT !.state = "over"]

\* The outcome of a run reaches the queue only while the run has not expired.
Report(w, next) ==
  jobs' = IF Owned(w) THEN [jobs EXCEPT ![worker[w].pair][worker[w].slot] = next] ELSE jobs

\* A worker takes a queued job.  Retries wait 5 s and more, a transaction is
\* over within 5 s: only a first try can come before the commit.
Fetch(w, x, s) ==
  /\ worker[w].at = "idle"
  /\ jobs[x][s].state = "queued"
  /\ jobs[x][s].tries > 0 => event[x[1]] # "open"
  /\ jobs' = [jobs EXCEPT ![x][s] = [state |-> "active", tries |-> jobs[x][s].tries]]
  /\ worker' = [worker EXCEPT ![w] = [at |-> "read", pair |-> x, slot |-> s,
                                      try |-> jobs[x][s].tries, attempts |-> 0]]
  /\ UNCHANGED <<event, pending, delivery, sweeping, acked, ran, faults>>

\* The delivery row, then the event: done returns, no event throws.
ReadableUncommitted(e) == event[e] \in {"open", "committed"}
Readable(e) == event[e] = "committed"

Read(w) ==
  /\ worker[w].at = "read"
  /\ LET x == worker[w].pair
     IN \/ /\ delivery[x].status = "done"
           /\ Report(w, [Job(w) EXCEPT !.state = "over"])
           /\ worker' = [worker EXCEPT ![w] = Idle]
        \/ /\ delivery[x].status # "done" /\ ~Readable(x[1])
           /\ Report(w, Retried(Job(w)))
           /\ worker' = [worker EXCEPT ![w] = Idle]
        \/ /\ delivery[x].status # "done" /\ Readable(x[1])
           /\ jobs' = jobs
           /\ worker' = [worker EXCEPT ![w].at = "claim",
                                       ![w].attempts = delivery[x].attempts + 1]
  /\ UNCHANGED <<event, pending, delivery, sweeping, acked, ran, faults>>

\* The upsert: a new row is pending, an existing one keeps its status.
ClaimedAsDone(x, attempts) == [status |-> "done", attempts |-> attempts]
Claimed(x, attempts) ==
  IF delivery[x].status = "none" THEN [status |-> "pending", attempts |-> 1]
  ELSE [delivery[x] EXCEPT !.attempts = attempts]

Claim(w) ==
  /\ worker[w].at = "claim"
  /\ delivery' = [delivery EXCEPT ![worker[w].pair] = Claimed(worker[w].pair, worker[w].attempts)]
  /\ worker' = [worker EXCEPT ![w].at = "handle"]
  /\ UNCHANGED <<event, pending, jobs, sweeping, acked, ran, faults>>

Handle(w) ==
  /\ worker[w].at = "handle"
  /\ ran' = [ran EXCEPT ![worker[w].pair] = @ + 1]
  /\ worker' = [worker EXCEPT ![w].at = "succeeded"]
  /\ UNCHANGED <<event, pending, jobs, delivery, sweeping, acked, faults>>

HandlerThrows(w) ==
  /\ worker[w].at = "handle" /\ faults > 0
  /\ faults' = faults - 1
  /\ worker' = [worker EXCEPT ![w].at = "threw"]
  /\ UNCHANGED <<event, pending, jobs, delivery, sweeping, acked, ran>>

RecordDone(w) ==
  /\ worker[w].at = "succeeded"
  /\ delivery' = [delivery EXCEPT ![worker[w].pair].status = "done"]
  /\ Report(w, [Job(w) EXCEPT !.state = "over"])
  /\ worker' = [worker EXCEPT ![w] = Idle]
  /\ UNCHANGED <<event, pending, sweeping, acked, ran, faults>>

RecordFailure(w) ==
  /\ worker[w].at = "threw"
  /\ delivery' = [delivery EXCEPT ![worker[w].pair].status =
                    IF worker[w].attempts >= MaxAttempts THEN "failed" ELSE "pending"]
  /\ Report(w, Retried(Job(w)))
  /\ worker' = [worker EXCEPT ![w] = Idle]
  /\ UNCHANGED <<event, pending, sweeping, acked, ran, faults>>

\* The worker process dies; its job stays active until it expires.
Crash(w) ==
  /\ worker[w].at # "idle" /\ faults > 0
  /\ faults' = faults - 1
  /\ worker' = [worker EXCEPT ![w] = Idle]
  /\ UNCHANGED <<event, pending, jobs, delivery, sweeping, acked, ran>>

Running(x, s) == \E w \in Workers : worker[w].pair = x /\ worker[w].slot = s /\ Owned(w)

\* expireInSeconds: pg-boss gives an abandoned job to the queue again, ...
Expire(x, s) ==
  /\ jobs[x][s].state = "active" /\ ~Running(x, s)
  /\ jobs' = [jobs EXCEPT ![x][s] = Retried(jobs[x][s])]
  /\ UNCHANGED <<event, pending, delivery, worker, sweeping, acked, ran, faults>>

\* ... and one whose handler takes too long, which goes on running.
ExpireSlow(x, s) ==
  /\ jobs[x][s].state = "active" /\ Running(x, s) /\ faults > 0
  /\ faults' = faults - 1
  /\ jobs' = [jobs EXCEPT ![x][s] = Retried(jobs[x][s])]
  /\ UNCHANGED <<event, pending, delivery, worker, sweeping, acked, ran>>

-----------------------------------------------------------------------------
(* The sweep, every five minutes, and the demo generator's acknowledgement *)

MissingNothing == {}
Missing == {x \in Pairs : event[x[1]] = "committed" /\ delivery[x].status = "none"}

SweepReads ==
  /\ sweeping = {} /\ Missing # {}
  /\ sweeping' = Missing
  /\ UNCHANGED <<event, pending, jobs, delivery, worker, acked, ran, faults>>

SweepSends(x) ==
  /\ x \in sweeping
  /\ Enqueue(x)
  /\ sweeping' = sweeping \ {x}
  /\ UNCHANGED <<event, pending, delivery, worker, acked, ran, faults>>

\* generateDemoData's last step, each time it is called: a done row for every
\* event of the tenant that has none, the tenant's own news included.
Acknowledge ==
  /\ Seeds # {} /\ \A e \in Seeds : event[e] \in {"committed", "aborted"}
  /\ delivery' = [x \in Pairs |-> IF x \in Missing THEN [status |-> "done", attempts |-> 0]
                                  ELSE delivery[x]]
  /\ acked' = acked \cup Missing
  /\ UNCHANGED <<event, pending, jobs, worker, sweeping, ran, faults>>

WorkerStep(w) == Read(w) \/ Claim(w) \/ Handle(w) \/ RecordDone(w) \/ RecordFailure(w)

Next ==
  \/ \E e \in AllEvents :
       \/ Publish(e)
       \/ \E outcome \in {"committed", "aborted"} : EndTransaction(e, outcome)
  \/ \E x \in Pairs : Dispatch(x) \/ SweepSends(x)
  \/ LoseDispatch(pending) \/ \E x \in pending : LoseDispatch({x})
  \/ \E w \in Workers :
       \/ \E x \in Pairs, s \in Slots : Fetch(w, x, s)
       \/ WorkerStep(w) \/ HandlerThrows(w) \/ Crash(w)
  \/ \E x \in Pairs, s \in Slots : Expire(x, s) \/ ExpireSlow(x, s)
  \/ SweepReads \/ Acknowledge

Spec == Init /\ [][Next]_vars

\* The cron fires the sweep, pg-boss expires jobs and hands them out oldest
\* first, and a worker finishes what it runs.
Fairness ==
  /\ WF_vars(SweepReads) /\ \A x \in Pairs : WF_vars(SweepSends(x))
  /\ \A x \in Pairs, s \in Slots :
       WF_vars(Expire(x, s)) /\ SF_vars(\E w \in Workers : Fetch(w, x, s))
  /\ \A w \in Workers : WF_vars(WorkerStep(w))
FairSpec == Spec /\ Fairness

-----------------------------------------------------------------------------
(* Properties *)

Rows == [status : {"none", "pending", "done", "failed"}, attempts : Nat]

\* Every variable keeps its shape.
TypeOK ==
  /\ event \in [AllEvents -> {"none", "open", "committed", "aborted"}]
  /\ pending \subseteq Pairs /\ sweeping \subseteq Pairs /\ acked \subseteq Pairs
  /\ jobs \in [Pairs -> [Slots -> [state : {"none", "queued", "active", "over"},
                                   tries : 0..RetryLimit]]]
  /\ delivery \in [Pairs -> Rows]
  /\ worker \in [Workers -> [at : {"idle", "read", "claim", "handle", "succeeded", "threw"},
                             pair : Pairs \cup {Nobody}, slot : Slots, try : 0..RetryLimit,
                             attempts : Nat]]
  /\ ran \in [Pairs -> Nat]
  /\ faults \in 0..MaxFaults

\* A delivery is recorded as done only after its handler has run, unless it was
\* acknowledged without one.
DoneMeansRan ==
  \A x \in Pairs : delivery[x].status = "done" => ran[x] > 0 \/ x \in acked

\* No handler runs for an event whose transaction has not committed, although
\* its job may be fetched before or after a rollback.
OnlyCommittedEvents == \A x \in Pairs : ran[x] > 0 => event[x[1]] = "committed"

\* What EveryHandlerHears waits for is never lost: a committed event that a
\* handler has not heard has a job, or no row yet, so that the sweep finds it.
\* Holds while there are fewer faults than retries: a job that has used them up
\* leaves a pending row, which no sweep looks for (bus.ts:222).
Alive(x) == \E s \in Slots : jobs[x][s].state \in {"queued", "active"}
NothingFallsThrough ==
  \A x \in Pairs :
    event[x[1]] = "committed"
      => ran[x] > 0 \/ x \in acked \/ delivery[x].status = "none" \/ Alive(x)

\* "exactly once" (bus.ts:167), as far as it goes: with one job of a delivery
\* and before any fault, a handler's effect happens at most once.
OnceWithoutFaults == faults = MaxFaults => \A x \in Pairs : ran[x] <= 1

\* Every committed event reaches every handler, through lost dispatches, worker
\* crashes, expired runs and handler errors (fewer than the retries), unless
\* the demo loader acknowledges it unheard.
EveryHandlerHears ==
  \A x \in Events \X Handlers :
    event[x[1]] = "committed" ~> (ran[x] > 0 \/ x \in acked)
=============================================================================
