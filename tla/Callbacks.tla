------------------------------ MODULE Callbacks ------------------------------
(***************************************************************************)
(* One callback: opened by the office, a technician or the public page,    *)
(* dispatched, answered on site, closed with its visit, and watched        *)
(* against its response limit                                              *)
(* (apps/api/src/modules/callbacks: service.ts, domain/sla.ts,             *)
(* repo/callbacks.ts; callbacks.slaWatch in jobs.ts).                      *)
(*                                                                         *)
(* A request reads the callback in its transaction without a lock, checks  *)
(* the transition and writes: two steps.  The times people report are      *)
(* their own: a phone may have been offline for a while, and up to an hour *)
(* ahead is accepted, all of the model's clock.  Of the times of a callback the model keeps those the response  *)
(* limit looks at; caller, cause, charge, notes, provenance flags and the  *)
(* events nobody counts are left out.                                      *)
(***************************************************************************)
EXTENDS Integers, FiniteSets

CONSTANTS
  Office,       \* office users, and the public page
  Technicians,
  NoOne,        \* "not assigned"
  Watchers,     \* runs of callbacks.slaWatch that may be going on at once
  Limit,        \* settings.callbackSlaMinutes
  MaxClock,     \* bound: times are 1..MaxClock; 0 is "not yet"
  MaxOps,       \* bound: requests of each person: [People -> Nat]
  MaxFaults     \* bound: restarts

People == Office \cup Technicians
Times == 1..MaxClock

ASSUME CallbacksAssumption ==
  /\ Office \cap Technicians = {} /\ NoOne \notin People
  /\ Limit \in Nat \ {0} /\ MaxClock \in Nat \ {0}
  /\ MaxOps \in [People -> Nat] /\ MaxFaults \in Nat

VARIABLES
  now,     \* the clock, in minutes
  row,     \* the callback row
  visits,  \* close-out visits recorded for it
  req,     \* the request each person is in
  watch,   \* what each run of the watch has found
  told,    \* CallbackSlaAtRisk and CallbackSlaBreached events
  stale,   \* history: a request wrote over a row it had not read
  overlap, \* history: two runs of the watch went on at once
  left,    \* requests still to come
  faults   \* restarts still to come

vars == <<now, row, visits, req, watch, told, stale, overlap, left, faults>>

NoCallback == [status |-> "none", received |-> 0, onSite |-> 0, closed |-> 0,
               assigned |-> NoOne, visit |-> FALSE]
Idle == [at |-> "idle", to |-> "none", seen |-> "none", picksUp |-> FALSE, time |-> 0,
         user |-> NoOne]
Resting == [at |-> "idle", type |-> "ok"]

Init ==
  /\ now = 1
  /\ row = NoCallback
  /\ visits = 0
  /\ req = [q \in People |-> Idle]
  /\ watch = [w \in Watchers |-> Resting]
  /\ told = [type \in {"at_risk", "breached"} |-> 0]
  /\ stale = FALSE /\ overlap = FALSE
  /\ left = MaxOps
  /\ faults = MaxFaults

-----------------------------------------------------------------------------
(* domain/sla.ts *)

\* The timer stops on site, or when the callback is closed without a visit.
Elapsed(c, at) ==
  LET end == IF c.onSite # 0 THEN c.onSite ELSE IF c.closed # 0 THEN c.closed ELSE at
  IN IF end > c.received THEN end - c.received ELSE 0

Running(c) == c.onSite = 0 /\ c.closed = 0

\* At risk from three quarters of the limit on.
SlaState(c, at) ==
  IF Elapsed(c, at) > Limit THEN "breached"
  ELSE IF Running(c) /\ 4 * Elapsed(c, at) >= 3 * Limit THEN "at_risk" ELSE "ok"

AllowedUntilClosed(status) ==
  CASE status \in {"open", "dispatched"} -> {"dispatched", "on_site", "closed"}
    [] status = "on_site" -> {"dispatched", "released", "restored", "closed"}
    [] status = "released" -> {"dispatched", "restored", "closed"}
    [] status = "restored" -> {"dispatched", "closed"}
    [] OTHER -> {}

Allowed(status) ==
  CASE status \in {"open", "dispatched"} -> {"dispatched", "on_site", "closed"}
    [] status = "on_site" -> {"released", "restored", "closed"}
    [] status = "released" -> {"restored", "closed"}
    [] status = "restored" -> {"closed"}
    [] OTHER -> {}

-----------------------------------------------------------------------------
(* Requests *)

Begin(q) == req[q].at = "idle" /\ left[q] > 0 /\ left' = [left EXCEPT ![q] = @ - 1]

\* open: a technician takes the callback, the office may send somebody at once.
Open(q, received, user) ==
  /\ row.status = "none"
  /\ q \in Technicians => user = q
  /\ Begin(q)
  /\ row' = [NoCallback EXCEPT !.status = IF user = NoOne THEN "open" ELSE "dispatched",
                               !.received = received, !.assigned = user]
  /\ UNCHANGED <<now, visits, req, watch, told, stale, overlap, faults>>

\* load: a technician finds what is assigned to nobody else.
Visible(q) == row.status # "none" /\ (q \in Technicians => row.assigned \in {NoOne, q})

\* A technician who arrives without a dispatch picks the callback up.
PicksUp(q, to) == to = "on_site" /\ row.assigned = NoOne /\ q \in Technicians

\* dispatch, transition and close: what is read, and the check of the stage.
Start(q, to, time, user) ==
  /\ Visible(q) /\ to \in Allowed(row.status)
  /\ IF to \in {"on_site", "closed"} THEN time # 0 ELSE time = 0
  /\ IF to = "dispatched" THEN q \in Office /\ user \in Technicians ELSE user = NoOne
  /\ Begin(q)
  /\ req' = [req EXCEPT ![q] = [at |-> "commit", to |-> to, seen |-> row.status,
                                picksUp |-> PicksUp(q, to), time |-> time, user |-> user]]
  /\ UNCHANGED <<now, row, visits, watch, told, stale, overlap, faults>>

Stamped(q) ==
  LET r == req[q]
  IN [row EXCEPT !.status = r.to,
        !.assigned = IF r.to = "dispatched" THEN r.user ELSE IF r.picksUp THEN q ELSE @,
        !.onSite = IF r.to = "on_site" THEN r.time ELSE @,
        !.closed = IF r.to = "closed" THEN r.time ELSE @]

\* The visit of a closed callback is written after the close has committed.
Commit(q) ==
  /\ req[q].at = "commit"
  /\ row' = Stamped(q)
  /\ stale' = (stale \/ row.status # req[q].seen)
  /\ req' = [req EXCEPT ![q] = IF @.to = "closed" THEN [@ EXCEPT !.at = "visit"] ELSE Idle]
  /\ UNCHANGED <<now, visits, watch, told, overlap, left, faults>>

\* Its failure, or that of the link to it, is logged and leaves the callback
\* closed without a visit, and a close may ask for none.
RecordVisit(q) ==
  /\ req[q].at = "visit"
  /\ \/ visits' = visits + 1 /\ req' = [req EXCEPT ![q].at = "link"]
     \/ visits' = visits /\ req' = [req EXCEPT ![q] = Idle]
  /\ UNCHANGED <<now, row, watch, told, stale, overlap, left, faults>>

LinkVisit(q) ==
  /\ req[q].at = "link"
  /\ row' \in {row, [row EXCEPT !.visit = TRUE]}
  /\ req' = [req EXCEPT ![q] = Idle]
  /\ UNCHANGED <<now, visits, watch, told, stale, overlap, left, faults>>

-----------------------------------------------------------------------------
(* callbacks.slaWatch *)

\* listOpenRows and the state of the callback at the start of the run.
Watch(w) ==
  /\ watch[w].at = "idle" /\ row.status \notin {"none", "closed"}
  /\ SlaState(row, now) # "ok"
  /\ watch' = [watch EXCEPT ![w] = [at |-> "ask", type |-> SlaState(row, now)]]
  /\ overlap' = (overlap \/ \E o \in Watchers : watch[o].at # "idle")
  /\ UNCHANGED <<now, row, visits, req, told, stale, left, faults>>

\* alreadyPublished, and then the event.
PublishedAny(type) == \E any \in DOMAIN told : told[any] > 0
Published(type) == told[type] > 0

Ask(w) ==
  /\ watch[w].at = "ask"
  /\ watch' = [watch EXCEPT ![w] = IF Published(@.type) THEN Resting ELSE [@ EXCEPT !.at = "tell"]]
  /\ UNCHANGED <<now, row, visits, req, told, stale, overlap, left, faults>>

Tell(w) ==
  /\ watch[w].at = "tell"
  /\ told' = [told EXCEPT ![watch[w].type] = @ + 1]
  /\ watch' = [watch EXCEPT ![w] = Resting]
  /\ UNCHANGED <<now, row, visits, req, stale, overlap, left, faults>>

-----------------------------------------------------------------------------
Minute ==
  /\ now < MaxClock
  /\ now' = now + 1
  /\ UNCHANGED <<row, visits, req, watch, told, stale, overlap, left, faults>>

Restart ==
  /\ faults > 0
  /\ (\E q \in People : req[q].at # "idle") \/ (\E w \in Watchers : watch[w].at # "idle")
  /\ faults' = faults - 1
  /\ req' = [q \in People |-> Idle]
  /\ watch' = [w \in Watchers |-> Resting]
  /\ UNCHANGED <<now, row, visits, told, stale, overlap, left>>

Request(q) ==
  \/ \E received \in Times, user \in Technicians \cup {NoOne} : Open(q, received, user)
  \/ \E to \in {"dispatched", "on_site", "released", "restored", "closed"},
        time \in {0} \cup Times, user \in Technicians \cup {NoOne} : Start(q, to, time, user)

Step(q) == Commit(q) \/ RecordVisit(q) \/ LinkVisit(q)
WatchStep(w) == Ask(w) \/ Tell(w)

Next ==
  \/ \E q \in People : Request(q) \/ Step(q)
  \/ \E w \in Watchers : Watch(w) \/ WatchStep(w)
  \/ Minute
  \/ Restart

Spec == Init /\ [][Next]_vars

\* Requests end, and the watch comes every minute and goes on.
FairSpec ==
  /\ Spec
  /\ \A q \in People : WF_vars(Step(q))
  /\ WF_vars(\E w \in Watchers : Watch(w))
  /\ \A w \in Watchers : WF_vars(WatchStep(w))

-----------------------------------------------------------------------------
(* Properties *)

\* What happened stays: the arrival the response time is measured by is not
\* replaced, a closed callback stays closed and has one visit at most, unless
\* two requests decided on the same past (a failing visit "never un-closes the
\* callback", close in service.ts:398-399).
NothingRewritten ==
  ~stale' =>
    /\ row.onSite # 0 => row'.onSite = row.onSite
    /\ row.closed # 0 => row'.closed = row.closed /\ row'.status = "closed"
    /\ visits' <= 1
WhatHappenedStays == [][NothingRewritten]_vars

\* No alarm comes twice unless two runs of the watch overlap: what a run asked
\* before a restart or a new minute still holds when it writes the event.
NoAlarmTwice == overlap \/ \A type \in DOMAIN told : told[type] <= 1

\* A callback that is past its limit is announced as breached while it is open
\* ("once per callback", jobs.ts:174), also when it was announced as at risk
\* before, and only once.
Overdue == row.status \notin {"none", "closed"} /\ SlaState(row, now) = "breached"
BreachIsToldOnce ==
  /\ Overdue ~> ~Overdue \/ told["breached"] > 0
  /\ []NoAlarmTwice
=============================================================================
