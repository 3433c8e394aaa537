-------------------------------- MODULE DayPlans --------------------------------
(***************************************************************************)
(* The plans of one day, one per technician pair: generated from what is   *)
(* due, edited, locked and published by the office, reported on by the     *)
(* phones and by the visits recorded elsewhere                             *)
(* (apps/api/src/modules/maintenance: service/plans.ts, domain/plan.ts,    *)
(* repo/plans.ts; the three cases of subscribers.ts that tick a stop).     *)
(*                                                                         *)
(* The stops of a plan are one JSON column: every handler reads the row,   *)
(* changes its copy and writes the whole list back, without a lock or a    *)
(* version.  A stop is named by what it refers to, which is unique in a    *)
(* plan; the route (order, distances, arrival times) and the zones are     *)
(* left out, so that the share of a pair is any share of the right size.   *)
(***************************************************************************)
EXTENDS Integers, FiniteSets

CONSTANTS
  Pairs,       \* the technician pairs, by their position
  Refs,        \* what a stop can refer to: a lift to check, a callback, a job
  OwnerPair,   \* the pair of the technician a reference is assigned to, or NoPair
  NoPair,
  Teams,       \* the sets of pairs a generation may be for
  Planners,    \* office users
  Phones,      \* technicians, and the pair of each
  Subscribers, \* workers that deliver VisitRecorded, CallbackClosed, JobCompleted
  MaxOps,      \* bound: requests of each person: [People -> Nat]
  MaxFaults    \* bound: restarts

Technicians == DOMAIN Phones
People == Planners \cup Technicians
Procs == People \cup Subscribers

ASSUME PlanAssumption ==
  /\ IsFiniteSet(Pairs) /\ Pairs \subseteq Nat
  /\ IsFiniteSet(Refs)
  /\ Teams \subseteq SUBSET Pairs /\ {} \notin Teams
  /\ NoPair \notin Pairs /\ OwnerPair \in [Refs -> Pairs \cup {NoPair}]
  /\ Phones \in [Technicians -> Pairs]
  /\ Planners \cap Technicians = {} /\ People \cap Subscribers = {}
  /\ MaxOps \in [People -> Nat] /\ MaxFaults \in Nat

VARIABLES
  plan,     \* the day_plan rows: exists, status, locked, stops
  due,      \* references whose work is to be done that day
  finished, \* references whose work has been done
  news,     \* ... and whose event is still to be delivered
  job,      \* the request or delivery each process is in
  left,     \* requests still to come
  told,     \* history: DayPlanPublished events of each plan
  faults    \* restarts still to come

vars == <<plan, due, finished, news, job, left, told, faults>>
world == <<due, finished, news>>

Absent == [state |-> "absent", manual |-> FALSE]
Planned(manual) == [state |-> "planned", manual |-> manual]
Empty == [r \in Refs |-> Absent]
NoPlan == [made |-> FALSE, published |-> FALSE, locked |-> FALSE, stops |-> Empty]
Nothing == [r \in Refs |-> NoPair]
Idle == [at |-> "idle", seen |-> [p \in Pairs |-> NoPlan], todo |-> {}, share |-> Nothing,
         plan |-> NoPair, to |-> NoPair, refs |-> {}, state |-> "planned"]

Init ==
  /\ plan = [p \in Pairs |-> NoPlan]
  /\ due \in SUBSET Refs
  /\ finished = {} /\ news = {}
  /\ job = [q \in Procs |-> Idle]
  /\ left = MaxOps
  /\ told = [p \in Pairs |-> 0]
  /\ faults = MaxFaults

Become(q, next) == job' = [job EXCEPT ![q] = next]
Begin(q, next) ==
  /\ job[q].at = "idle" /\ left[q] > 0
  /\ left' = [left EXCEPT ![q] = @ - 1]
  /\ Become(q, next)

Has(stops, r) == stops[r].state # "absent"
Listed(stops) == {r \in Refs : Has(stops, r)}
Made == {p \in Pairs : plan[p].made}
Copy(rows) == [p \in Pairs |-> IF p \in rows THEN plan[p] ELSE NoPlan]

\* updatePlan of the stops column: the list that was changed replaces the row's.
WriteStops(p, stops) == plan' = [plan EXCEPT ![p].stops = stops]

-----------------------------------------------------------------------------
(* What is due *)

Arise(r) ==
  /\ r \notin due \cup finished
  /\ due' = due \cup {r}
  /\ UNCHANGED <<plan, finished, news, job, left, told, faults>>

\* A visit, a closed callback or a completed job takes the work off the list
\* and publishes its event.
Finish(r) ==
  /\ r \in due
  /\ due' = due \ {r} /\ finished' = finished \cup {r} /\ news' = news \cup {r}
  /\ UNCHANGED <<plan, job, left, told, faults>>

-----------------------------------------------------------------------------
(* generate *)

\* domain/plan.ts: what a regeneration keeps.
KeptIfReported(s) == s.state \in {"done", "skipped"}
IsKept(s) == s.state \in {"done", "skipped"} \/ (s.state = "planned" /\ s.manual)

\* mergeRegeneration: kept stops stay, the planned ones are replaced by the
\* pair's share.
Merge(old, mine) ==
  [r \in Refs |-> IF IsKept(old[r]) THEN old[r] ELSE IF r \in mine THEN Planned(FALSE) ELSE Absent]

First(todo) == CHOOSE p \in todo : \A o \in todo : p <= o

\* chunkEvenly: contiguous pieces of ceil(n / pairs) stops for the pairs in turn.
ChunkSize(n, team, p) ==
  LET size == (n + Cardinality(team) - 1) \div Cardinality(team)
      before == size * Cardinality({o \in team : o < p})
  IN IF before >= n THEN 0 ELSE IF before + size <= n THEN size ELSE n - before

\* Work that is assigned goes to its technician's pair, the rest is split.
Shares(candidates, team) ==
  LET rest == {r \in candidates : OwnerPair[r] \notin team}
      splits == {f \in [rest -> team] :
                   \A p \in team : Cardinality({r \in rest : f[r] = p})
                                     = ChunkSize(Cardinality(rest), team, p)}
  IN {[r \in Refs |-> IF r \in rest THEN f[r] ELSE IF r \in candidates THEN OwnerPair[r]
                      ELSE NoPair] : f \in splits}

\* The plans are read first, what is due afterwards.
StartGenerate(q, team) ==
  /\ Begin(q, [Idle EXCEPT !.at = "sources", !.seen = Copy(team), !.todo = team])
  /\ UNCHANGED <<plan, world, told, faults>>

LoadSources(q) ==
  /\ job[q].at = "sources"
  /\ \E share \in Shares(due, job[q].todo) :
       Become(q, [job[q] EXCEPT !.at = "generate", !.share = share])
  /\ UNCHANGED <<plan, world, left, told, faults>>

After(q) == [job[q] EXCEPT !.todo = @ \ {First(@)}]
ShareOf(q, p) == {r \in Refs : job[q].share[r] = p}

\* The lock and the stops are those of the copy; a plan made meanwhile for the
\* same pair meets the unique index, and the request fails half way.
GeneratePair(q) ==
  /\ job[q].at = "generate" /\ job[q].todo # {}
  /\ LET p == First(job[q].todo)
         old == job[q].seen[p]
     IN \/ /\ old.locked
           /\ Become(q, After(q))
           /\ UNCHANGED plan
        \/ /\ ~old.made /\ plan[p].made
           /\ Become(q, Idle)
           /\ UNCHANGED plan
        \/ /\ ~old.locked /\ (old.made \/ ~plan[p].made)
           /\ plan' = [plan EXCEPT ![p].made = TRUE, ![p].stops = Merge(old.stops, ShareOf(q, p))]
           /\ Become(q, After(q))
  /\ UNCHANGED <<world, left, told, faults>>

Finished(q) ==
  /\ job[q].at \in {"generate", "publish"} /\ job[q].todo = {}
  /\ Become(q, Idle)
  /\ UNCHANGED <<plan, world, left, told, faults>>

-----------------------------------------------------------------------------
(* The office's edits *)

\* The list the office's screen sends: what it shows of the plan, reordered,
\* without one of the stops, or with one that is due and in no plan it shows.
Edits(p) ==
  LET shown == Listed(plan[p].stops)
      unplanned == due \ UNION {Listed(plan[o].stops) : o \in Pairs}
  IN {shown} \cup {shown \ {r} : r \in shown} \cup {shown \cup {r} : r \in unplanned}

OpenBoard(q, p, body) ==
  /\ plan[p].made
  /\ Begin(q, [Idle EXCEPT !.at = "update", !.seen = Copy({p}), !.plan = p, !.refs = body])
  /\ UNCHANGED <<plan, world, told, faults>>

\* update: every field of a stop is the body's, its status too; a stop the row
\* does not have is marked manual.
Update(q) ==
  LET p == job[q].plan
      shown == job[q].seen[p].stops
  IN /\ job[q].at = "update"
     /\ WriteStops(p, [r \in Refs |->
          IF r \notin job[q].refs THEN Absent
          ELSE IF ~Has(shown, r) THEN Planned(TRUE)
          ELSE IF Has(plan[p].stops, r) THEN shown[r]
          ELSE [shown[r] EXCEPT !.manual = TRUE]])
     /\ Become(q, Idle)
     /\ UNCHANGED <<world, left, told, faults>>

\* moveStop: both rows are read, the target is written first, then the source;
\* inside one plan the stop is only reordered and marked.
StartMove(q, p, to, r) ==
  /\ plan[p].made /\ plan[to].made /\ Has(plan[p].stops, r)
  /\ Begin(q, [Idle EXCEPT !.at = "moveTo", !.seen = Copy({p, to}), !.plan = p, !.to = to,
                           !.refs = {r}])
  /\ UNCHANGED <<plan, world, told, faults>>

MovedIn(j) == [r \in Refs |-> IF r \in j.refs THEN [j.seen[j.plan].stops[r] EXCEPT !.manual = TRUE]
                              ELSE j.seen[j.to].stops[r]]
MovedOut(j) == [r \in Refs |-> IF r \in j.refs THEN Absent ELSE j.seen[j.plan].stops[r]]

MoveTo(q) ==
  /\ job[q].at = "moveTo"
  /\ WriteStops(job[q].to, MovedIn(job[q]))
  /\ Become(q, IF job[q].to = job[q].plan THEN Idle ELSE [job[q] EXCEPT !.at = "moveFrom"])
  /\ UNCHANGED <<world, left, told, faults>>

MoveFrom(q) ==
  /\ job[q].at = "moveFrom"
  /\ WriteStops(job[q].plan, MovedOut(job[q]))
  /\ Become(q, Idle)
  /\ UNCHANGED <<world, left, told, faults>>

SetLocked(q, p) ==
  /\ plan[p].made
  /\ Begin(q, Idle)
  /\ plan' = [plan EXCEPT ![p].locked = ~@]
  /\ UNCHANGED <<world, told, faults>>

\* publish: the plans that were drafts when they were read, one by one, each
\* with its event.
AllMade == Made
Drafts == {p \in Made : ~plan[p].published}

StartPublish(q) ==
  /\ Begin(q, [Idle EXCEPT !.at = "publish", !.todo = Drafts])
  /\ UNCHANGED <<plan, world, told, faults>>

PublishPlan(q) ==
  /\ job[q].at = "publish" /\ job[q].todo # {}
  /\ plan' = [plan EXCEPT ![First(job[q].todo)].published = TRUE]
  /\ Become(q, [job[q] EXCEPT !.at = "tell"])
  /\ UNCHANGED <<world, left, told, faults>>

Tell(q) ==
  /\ job[q].at = "tell"
  /\ told' = [told EXCEPT ![First(job[q].todo)] = @ + 1]
  /\ Become(q, [After(q) EXCEPT !.at = "publish"])
  /\ UNCHANGED <<plan, world, left, faults>>

-----------------------------------------------------------------------------
(* Reports *)

\* setStopStatus by the office, or by a phone for a published plan of its pair;
\* a stop that is gone answers 404.
StartStatus(q, p, r, state) ==
  /\ plan[p].made /\ Has(plan[p].stops, r)
  /\ q \in Technicians => Phones[q] = p /\ plan[p].published
  /\ Begin(q, [Idle EXCEPT !.at = "status", !.seen = Copy({p}), !.plan = p, !.refs = {r},
                           !.state = state])
  /\ UNCHANGED <<plan, world, told, faults>>

\* The stops of the copy with those of refs marked.
Marked(j, p) == [r \in Refs |-> IF r \in j.refs THEN [j.seen[p].stops[r] EXCEPT !.state = j.state]
                                ELSE j.seen[p].stops[r]]

Report(q) ==
  /\ job[q].at = "status"
  /\ WriteStops(job[q].plan, Marked(job[q], job[q].plan))
  /\ Become(q, Idle)
  /\ UNCHANGED <<world, left, told, faults>>

\* markStopDoneByRef: the published plans are read at once, then written one by
\* one; the event is delivered again after a restart.
Waiting(p, r) == plan[p].published /\ plan[p].stops[r].state = "planned"
ToTickUnlocked(r) == {p \in Pairs : Waiting(p, r) /\ ~plan[p].locked}
ToTick(r) == {p \in Pairs : Waiting(p, r)}

StartTick(q, r) ==
  /\ job[q].at = "idle" /\ r \in news
  /\ Become(q, [Idle EXCEPT !.at = "tick", !.seen = Copy(ToTick(r)), !.todo = ToTick(r),
                            !.refs = {r}, !.state = "done"])
  /\ UNCHANGED <<plan, world, left, told, faults>>

Tick(q) ==
  /\ job[q].at = "tick" /\ job[q].todo # {}
  /\ WriteStops(First(job[q].todo), Marked(job[q], First(job[q].todo)))
  /\ Become(q, After(q))
  /\ UNCHANGED <<world, left, told, faults>>

TickEnd(q) ==
  /\ job[q].at = "tick" /\ job[q].todo = {}
  /\ news' = news \ job[q].refs
  /\ Become(q, Idle)
  /\ UNCHANGED <<plan, due, finished, left, told, faults>>

Restart ==
  /\ faults > 0 /\ \E q \in Procs : job[q].at # "idle"
  /\ faults' = faults - 1
  /\ job' = [q \in Procs |-> Idle]
  /\ UNCHANGED <<plan, world, left, told>>

-----------------------------------------------------------------------------
Office(q) ==
  \/ \E team \in Teams : StartGenerate(q, team)
  \/ StartPublish(q)
  \/ \E p \in Pairs : SetLocked(q, p) \/ \E body \in Edits(p) : OpenBoard(q, p, body)
  \/ \E p, to \in Pairs, r \in Refs : StartMove(q, p, to, r)

Step(q) ==
  \/ LoadSources(q) \/ GeneratePair(q) \/ Finished(q)
  \/ Update(q) \/ MoveTo(q) \/ MoveFrom(q)
  \/ PublishPlan(q) \/ Tell(q)
  \/ Report(q) \/ Tick(q) \/ TickEnd(q)

Next ==
  \/ \E r \in Refs : Arise(r) \/ Finish(r)
  \/ \E q \in Planners : Office(q)
  \/ \E q \in People, p \in Pairs, r \in Refs, state \in {"done", "skipped", "planned"} :
       StartStatus(q, p, r, state)
  \/ \E q \in Subscribers, r \in Refs : StartTick(q, r)
  \/ \E q \in Procs : Step(q)
  \/ Restart

Spec == Init /\ [][Next]_vars

\* A request that has begun goes on, and the bus delivers an event until its
\* handler has returned.
FairSpec ==
  /\ Spec
  /\ \A q \in Procs : WF_vars(Step(q))
  /\ \A r \in Refs : WF_vars(\E q \in Subscribers : StartTick(q, r))

-----------------------------------------------------------------------------
\* What a person did about a stop: reported it, or placed it by hand.
Personal(s) == s.state \in {"done", "skipped"} \/ s.manual

\* The step writes over something it has not read, or is one a person asks for.
Moves(q) == job'[q] # job[q]
FromOldCopy(p) == \E q \in Procs : Moves(q) /\ job[q].seen[p].stops # plan[p].stops
Asked(p, r) ==
  \E q \in People :
    /\ Moves(q)
    /\ \/ job[q].at = "update" /\ p = job[q].plan /\ r \notin job[q].refs
       \/ job[q].at \in {"moveTo", "moveFrom"} /\ p \in {job[q].plan, job[q].to} /\ r \in job[q].refs
       \/ job[q].at = "status" /\ p = job[q].plan /\ r \in job[q].refs

\* What a person did about a stop is only undone by a person, or by a list
\* written back from a copy that is no longer the row's: no handler forgets it
\* by itself, a regeneration above all ("must never throw away what a person
\* did", domain/plan.ts:5-6).
OnlyUndoneByHand ==
  \A p \in Pairs, r \in Refs :
    Personal(plan[p].stops[r]) /\ ~Personal(plan'[p].stops[r]) => FromOldCopy(p) \/ Asked(p, r)
WorkIsKept == [][OnlyUndoneByHand]_vars

\* With one planner and until the server stops, a published plan that is not
\* being published has been announced, and announced once.
PublishedIsTold ==
  faults = MaxFaults =>
    \A p \in Pairs :
      /\ told[p] <= 1
      /\ plan[p].published /\ (\A q \in Planners : job[q].at # "tell") => told[p] = 1

\* Work done elsewhere ticks its planned stop off every published plan: what
\* waits when the event is delivered is done, also after a restart.
BeingTicked(r) == \E q \in Subscribers : job[q].at = "tick" /\ r \in job[q].refs
TickedOff ==
  \A p \in Pairs, r \in Refs :
    r \in news /\ Waiting(p, r) /\ ~BeingTicked(r) ~> ~Waiting(p, r)
=============================================================================
