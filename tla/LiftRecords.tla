----------------------------- MODULE LiftRecords -----------------------------
(***************************************************************************)
(* One lift: its status and its check dates, the defects and visits that   *)
(* move them, and the office that corrects them by hand                    *)
(* (apps/api/src/modules: defects/service.ts, visits/service.ts,           *)
(* registry/service/elevators.ts, maintenance/service.ts; jobs.ts and      *)
(* subscribers.ts for the recomputation of the schedule).                  *)
(*                                                                         *)
(* A request reads the lift, decides, and commits; the transactions are    *)
(* READ COMMITTED and lock nothing they only read.  What a request reads   *)
(* is taken together, and so is what it commits.  Four of the statuses of  *)
(* a defect are one ("open"); the lift has no interval of its own and the  *)
(* strategy is the rolling one.  Checklists, photos, technicians, audit    *)
(* and the events without a consumer here are left out; so are roles,      *)
(* which decide who may send a request and not what it does.               *)
(***************************************************************************)
EXTENDS Integers, FiniteSets

CONSTANTS
  People,     \* office users and technicians
  Defects,    \* ids of defects
  Visits,     \* ids of visits
  NoVisit,    \* "supersedes nothing"
  MaxDay,     \* days of checks and reschedules are 1..MaxDay; 0 is "never", "none"
  Intervals,  \* values of settings.checkIntervalDays
  MaxOps,     \* bound: requests of each person: [Mixes -> [People -> Nat]]
  Mixes,      \* bound: the kinds of requests that meet in one behaviour
  MaxFaults   \* bound: restarts

Days == 1..MaxDay
Statuses == {"active", "stopped_by_firm", "stopped_by_authority"}
AllOps == {"record", "resolve", "touch", "visit", "amend", "status", "edit", "reschedule", "settings"}

ASSUME LiftAssumption ==
  /\ NoVisit \notin Visits
  /\ MaxDay \in Nat /\ Intervals \subseteq Nat /\ 1 \in Intervals
  /\ MaxOps \in [Mixes -> [People -> Nat]] /\ Mixes \subseteq SUBSET AllOps /\ MaxFaults \in Nat

VARIABLES
  lift,     \* the elevator row
  interval, \* settings.checkIntervalDays
  defect,   \* the defect table
  visit,    \* the visit table
  req,      \* the request each person is in
  board,    \* the copy recomputeSchedule works from
  told,     \* defects whose StopLiftRequired is published
  unheard,  \* history: defects whose request died before it published
  stale,    \* history: what was decided on a copy that had changed
  hand,     \* history: what the office did by hand
  mix,      \* the kinds of requests still to come
  left,     \* their number
  faults    \* restarts still to come

vars == <<lift, interval, defect, visit, req, board, told, unheard, stale, hand, mix, left, faults>>

NoDefect == [status |-> "none", stop |-> FALSE]
NoRow == [kind |-> "none", day |-> 0, superseded |-> FALSE, of |-> NoVisit]
NewLift == [status |-> "active", last |-> 0, override |-> 0, due |-> 0]
Idle == [at |-> "idle", op |-> "none", id |-> NoVisit, seen |-> NewLift, every |-> 1,
         flag |-> FALSE, new |-> NoRow, day |-> 0, to |-> "none"]
NoBoard == [on |-> FALSE, seen |-> NewLift, every |-> 1]

Init ==
  /\ lift = NewLift
  /\ interval = 1
  /\ defect = [d \in Defects |-> NoDefect]
  /\ visit = [v \in Visits |-> NoRow]
  /\ req = [p \in People |-> Idle]
  /\ board = NoBoard
  /\ told = {} /\ unheard = {} /\ stale = {} /\ hand = {}
  /\ mix \in Mixes /\ left = MaxOps[mix]
  /\ faults = MaxFaults

-----------------------------------------------------------------------------
(* The schedule *)

\* nextDue: a reschedule wins, otherwise the interval after the last check.
Due(last, override, every) ==
  IF override # 0 THEN override ELSE IF last = 0 THEN 0 ELSE last + every

Later(a, b) == IF a > b THEN a ELSE b

\* recordCheck, from the copy that was read: never back, and the override goes.
CheckedBack(seen, day, every) ==
  [lift EXCEPT !.last = day, !.override = 0, !.due = Due(day, 0, every)]
Checked(seen, day, every) ==
  LET last == Later(seen.last, day)
  IN [lift EXCEPT !.last = last, !.override = 0, !.due = Due(last, 0, every)]

-----------------------------------------------------------------------------
(* Requests *)

Begin(p, next) ==
  /\ req[p].at = "idle" /\ left[p] > 0 /\ next.op \in mix
  /\ left' = [left EXCEPT ![p] = @ - 1]
  /\ req' = [req EXCEPT ![p] = [next EXCEPT !.at = "commit", !.seen = [lift EXCEPT !.due = 0],
                                                 !.every = interval]]
  /\ UNCHANGED <<lift, interval, defect, visit, board, told, unheard, stale, hand, mix, faults>>

At(p, op) == req[p].at = "commit" /\ req[p].op = op
Done(p) == req' = [req EXCEPT ![p] = Idle]

\* p has decided what on something that is no longer so.
Overtaken(what, is) == stale' = IF is THEN stale \cup {what} ELSE stale

\* A restart before the event is published; one before the commit leaves
\* nothing behind and is a request that was not sent.
Crash(p) ==
  /\ req[p].at = "tell" /\ faults > 0
  /\ faults' = faults - 1
  /\ unheard' = unheard \cup {req[p].id}
  /\ Done(p)
  /\ UNCHANGED <<lift, interval, defect, visit, board, told, stale, hand, mix, left>>

-----------------------------------------------------------------------------
(* Defects *)

OpenStops == {d \in Defects : defect[d].status = "open" /\ defect[d].stop}

\* record: an id that is known is answered from the table; the status of the
\* lift is read before the transaction.
StartRecord(p, d, stop) ==
  /\ defect[d].status = "none"
  /\ Begin(p, [Idle EXCEPT !.op = "record", !.id = d, !.flag = stop])

RecordDefect(p) ==
  LET d == req[p].id
      stop == req[p].flag
  IN /\ At(p, "record") /\ defect[d].status = "none"
     /\ defect' = [defect EXCEPT ![d] = [status |-> "open", stop |-> stop]]
     /\ lift' = IF stop /\ req[p].seen.status = "active" THEN [lift EXCEPT !.status = "stopped_by_firm"]
                ELSE lift
     /\ Overtaken("status", stop /\ req[p].seen.status # lift.status)
     /\ IF stop THEN req' = [req EXCEPT ![p].at = "tell"] ELSE Done(p)
  /\ UNCHANGED <<interval, visit, board, told, unheard, hand, mix, left, faults>>

HeardIfStopped(p) == IF req[p].seen.status = "active" THEN told \cup {req[p].id} ELSE told
Heard(p) == told \cup {req[p].id}

TellStop(p) ==
  /\ req[p].at = "tell"
  /\ told' = Heard(p)
  /\ Done(p)
  /\ UNCHANGED <<lift, interval, defect, visit, board, unheard, stale, hand, mix, left, faults>>

\* update reads the defect and counts the other open stop-lift defects.
MayUpdate(d) == defect[d].status = "open"
ClearAlways(d) == d \in Defects
ClearBefore(d) == OpenStops = {}
Clear(d) == OpenStops \subseteq {d}

StartUpdate(p, d, to) ==
  /\ MayUpdate(d)
  /\ Begin(p, [Idle EXCEPT !.op = IF to = "resolved" THEN "resolve" ELSE "touch",
                           !.id = d, !.flag = Clear(d)])

\* The last stop-lift defect lets the lift run again, if the firm had stopped it.
Resolve(p) ==
  LET d == req[p].id
  IN /\ At(p, "resolve")
     /\ defect' = [defect EXCEPT ![d].status = "resolved"]
     /\ lift' = IF defect[d].stop /\ req[p].flag /\ lift.status = "stopped_by_firm"
                THEN [lift EXCEPT !.status = "active"] ELSE lift
     /\ Overtaken("status", defect[d].stop /\ req[p].flag # Clear(d))
  /\ Done(p)
  /\ UNCHANGED <<interval, visit, board, told, unheard, hand, mix, left, faults>>

\* Another of the open statuses.
Touch(p) ==
  /\ At(p, "touch")
  /\ defect' = [defect EXCEPT ![req[p].id].status = "open"]
  /\ Overtaken("status", defect[req[p].id].status = "resolved")
  /\ Done(p)
  /\ UNCHANGED <<lift, interval, visit, board, told, unheard, hand, mix, left, faults>>

-----------------------------------------------------------------------------
(* Visits *)

\* The phone names a visit, the server an amendment: that id is fresh.
Taken(v, ops) == \E q \in People : req[q].op \in ops /\ req[q].id = v

StartVisit(p, v, kind, day) ==
  /\ visit[v] = NoRow /\ ~Taken(v, {"amend"})
  /\ Begin(p, [Idle EXCEPT !.op = "visit", !.id = v,
                           !.new = [NoRow EXCEPT !.kind = kind, !.day = day]])

\* amend: the visit must not be superseded when it is read.
MayAmendAny(o) == visit[o] # NoRow
MayAmend(o) == visit[o] # NoRow /\ ~visit[o].superseded

StartAmend(p, o, v, kind, day) ==
  /\ MayAmend(o) /\ visit[v] = NoRow /\ ~Taken(v, {"visit", "amend"})
  /\ Begin(p, [Idle EXCEPT !.op = "amend", !.id = v, !.flag = visit[o].superseded,
                           !.new = [kind |-> kind, day |-> day, superseded |-> FALSE, of |-> o]])

\* applyCheck: only a check moves the dates.
IsCheck(new) == new.kind = "check"
CheckApplied(p, new) ==
  IF IsCheck(new)
  THEN /\ lift' = Checked(req[p].seen, new.day, req[p].every)
       /\ Overtaken("check", req[p].seen.last # lift.last)
  ELSE UNCHANGED <<lift, stale>>

WriteVisit(p) ==
  /\ At(p, "visit") /\ visit[req[p].id] = NoRow
  /\ visit' = [visit EXCEPT ![req[p].id] = req[p].new]
  /\ CheckApplied(p, req[p].new)
  /\ Done(p)
  /\ UNCHANGED <<interval, defect, board, told, unheard, hand, mix, left, faults>>

WriteAmendment(p) ==
  LET new == req[p].new
  IN /\ At(p, "amend") /\ visit[req[p].id] = NoRow
     /\ visit' = [visit EXCEPT ![new.of].superseded = TRUE, ![req[p].id] = new]
     /\ IF IsCheck(new) THEN lift' = Checked(req[p].seen, new.day, req[p].every)
        ELSE lift' = lift
     /\ stale' = stale \cup (IF visit[new.of].superseded # req[p].flag THEN {"amend"} ELSE {})
                       \cup (IF IsCheck(new) /\ req[p].seen.last # lift.last
                             THEN {"check"} ELSE {})
  /\ Done(p)
  /\ UNCHANGED <<interval, defect, board, told, unheard, hand, mix, left, faults>>

\* The id was taken meanwhile: the insert fails and the request with it.
IdTaken(p) ==
  /\ \/ At(p, "record") /\ defect[req[p].id].status # "none"
     \/ At(p, "visit") /\ visit[req[p].id] # NoRow
  /\ Done(p)
  /\ UNCHANGED <<lift, interval, defect, visit, board, told, unheard, stale, hand, mix, left, faults>>

-----------------------------------------------------------------------------
(* The registry *)

\* elevators.update: a new status, or a corrected date (0: keep it).
StartEdit(p, status, day) ==
  Begin(p, [Idle EXCEPT !.op = IF status = "none" THEN "edit" ELSE "status",
                        !.to = status, !.day = day])

\* It always writes the dates back, from the copy it has read.
Edited(seen, status, day, every) ==
  LET last == IF day = 0 THEN seen.last ELSE day
      override == IF day \in {0, seen.last} THEN seen.override ELSE 0
  IN [status |-> IF status = "none" THEN lift.status ELSE status,
      last |-> last, override |-> override, due |-> Due(last, override, every)]

Edit(p) ==
  LET r == req[p]
  IN /\ At(p, "edit") \/ At(p, "status")
     /\ lift' = Edited(r.seen, r.to, r.day, r.every)
     /\ hand' = hand \cup (IF r.to # "none" THEN {"status"} ELSE {})
                     \cup (IF r.day # 0 THEN {"check"} ELSE {})
     /\ Overtaken("check", r.seen.last # lift.last)
  /\ Done(p)
  /\ UNCHANGED <<interval, defect, visit, board, told, unheard, mix, left, faults>>

\* reschedule: the next check on another day, or (0) back to the schedule.
StartReschedule(p, day) == Begin(p, [Idle EXCEPT !.op = "reschedule", !.day = day])

Reschedule(p) ==
  /\ At(p, "reschedule")
  /\ lift' = [lift EXCEPT !.override = req[p].day,
                          !.due = Due(req[p].seen.last, req[p].day, req[p].every)]
  /\ Done(p)
  /\ UNCHANGED <<interval, defect, visit, board, told, unheard, stale, hand, mix, left, faults>>

\* settings: the interval of the tenant; the schedule follows by its event.
SetInterval(p, every) ==
  /\ req[p].at = "idle" /\ left[p] > 0 /\ "settings" \in mix /\ every # interval
  /\ interval' = every
  /\ left' = [left EXCEPT ![p] = @ - 1]
  /\ UNCHANGED <<lift, defect, visit, req, board, told, unheard, stale, hand, mix, faults>>

\* recomputeSchedule, on that event and every hour, in two steps for a lift:
\* the list, then the write, only where the date differs.
DiffersUnlessMoved == lift.override = 0 /\ Due(lift.last, 0, interval) # lift.due
Differs == Due(lift.last, lift.override, interval) # lift.due

ListLift ==
  /\ ~board.on /\ Differs
  /\ board' = [on |-> TRUE, seen |-> lift, every |-> interval]
  /\ UNCHANGED <<lift, interval, defect, visit, req, told, unheard, stale, hand, mix, left, faults>>

Recompute ==
  /\ board.on
  /\ lift' = [lift EXCEPT !.due = Due(board.seen.last, board.seen.override, board.every)]
  /\ board' = NoBoard
  /\ UNCHANGED <<interval, defect, visit, req, told, unheard, stale, hand, mix, left, faults>>

-----------------------------------------------------------------------------

Commits(p) ==
  RecordDefect(p) \/ TellStop(p) \/ Resolve(p) \/ Touch(p) \/ WriteVisit(p)
    \/ WriteAmendment(p) \/ IdTaken(p) \/ Edit(p) \/ Reschedule(p)

Request(p) ==
  \/ \E d \in Defects : \/ \E stop \in BOOLEAN : StartRecord(p, d, stop)
                        \/ \E to \in {"open", "resolved"} : StartUpdate(p, d, to)
  \/ \E v \in Visits, kind \in {"check", "other"}, day \in Days :
       StartVisit(p, v, kind, day) \/ \E o \in Visits : StartAmend(p, o, v, kind, day)
  \/ \E status \in Statuses : StartEdit(p, status, 0)
  \/ \E day \in {0} \cup Days : StartEdit(p, "none", day)
  \/ \E day \in {0} \cup Days : StartReschedule(p, day)
  \/ \E every \in Intervals : SetInterval(p, every)

Next ==
  \/ \E p \in People : Request(p) \/ Commits(p) \/ Crash(p)
  \/ ListLift \/ Recompute

Spec == Init /\ [][Next]_vars

\* Requests end, and the schedule is recomputed every hour.
FairSpec == Spec /\ (\A p \in People : WF_vars(Commits(p))) /\ WF_vars(ListLift \/ Recompute)

-----------------------------------------------------------------------------
(* Properties *)

Lifts == [status : Statuses, last : 0..MaxDay, override : 0..MaxDay, due : Nat]
DefectRows == [status : {"none", "open", "resolved"}, stop : BOOLEAN]
VisitRows == [kind : {"none", "check", "other"}, day : 0..MaxDay, superseded : BOOLEAN,
              of : Visits \cup {NoVisit}]
Requests == [at : {"idle", "commit", "tell"}, op : AllOps \cup {"none"},
             id : Defects \cup Visits \cup {NoVisit}, seen : Lifts, every : Intervals,
             flag : BOOLEAN, new : VisitRows, day : 0..MaxDay, to : Statuses \cup {"none"}]

\* Every row and request is one the code can be in, and only stop-lift defects
\* are announced.
TypeOK ==
  /\ lift \in Lifts /\ interval \in Intervals
  /\ defect \in [Defects -> DefectRows] /\ visit \in [Visits -> VisitRows]
  /\ req \in [People -> Requests]
  /\ board \in [on : BOOLEAN, seen : Lifts, every : Intervals]
  /\ told \subseteq Defects /\ \A d \in told : defect[d].stop
  /\ mix \in Mixes /\ left \in [People -> Nat] /\ faults \in 0..MaxFaults

\* A lift with an open stop-lift defect does not run (record and update,
\* defects/service.ts:70-73), unless the office set the status by hand or two
\* requests decided on each other's past.
StopLiftHolds ==
  OpenStops # {} => lift.status # "active" \/ "status" \in stale \cup hand

\* A lift the firm stopped runs again when its last stop-lift defect is resolved
\* (restoreIfClear), with the same two exceptions.
ResolvedLiftRuns ==
  lift.status = "stopped_by_firm" => OpenStops # {} \/ "status" \in stale \cup hand

\* "lastCheckAt never moves backwards" (recordCheck): no recorded check is later
\* than the date of the lift, unless the office corrected it by hand or wrote
\* back, or added to, a date that had moved on.
ChecksAreKept ==
  \A v \in Visits : visit[v].kind = "check"
                      => lift.last >= visit[v].day \/ "check" \in stale \cup hand

\* Amendments form a line (amend): a visit is superseded exactly when another visit
\* supersedes it, and by one only unless two amendments were read together.
AmendmentsFormALine ==
  \A o \in Visits :
    LET next == {v \in Visits : visit[v].of = o}
    IN /\ visit[o].superseded <=> next # {}
       /\ Cardinality(next) > 1 => "amend" \in stale

\* The next date on the board agrees, in the end, with the last check, the reschedule
\* and the interval, whatever stale copy it was last computed from (maintenance.recompute).
BoardComesRight == <>[](lift.due = Due(lift.last, lift.override, interval))

\* What StopIsTold waits for is never lost: a recorded stop-lift defect is
\* announced, or the request that recorded it is about to announce it, or that
\* request has died (record, defects/service.ts).
NoStopForgotten ==
  \A d \in Defects :
    defect[d].stop => \/ d \in told \cup unheard
                      \/ \E p \in People : req[p].at = "tell" /\ req[p].id = d

\* Every stop-lift defect is announced to the building (StopLiftRequired), unless the
\* process died after the commit: the retry of the phone is answered from the table.
StopIsTold ==
  \A d \in Defects : defect[d].stop ~> d \in told \cup unheard
=============================================================================
