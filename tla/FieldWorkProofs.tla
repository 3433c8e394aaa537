---------------------------- MODULE FieldWorkProofs ----------------------------
(***************************************************************************)
(* Proofs about the work in the field: the records of a lift               *)
(* (LiftRecords), the callbacks to it (Callbacks) and the plans of the day *)
(* (DayPlans), for any number of people, defects, visits, stops, days and  *)
(* restarts.  What a person did or reported is only ever lost when two     *)
(* requests overlapped or somebody overrode it by hand.                    *)
(*                                                                         *)
(* LiftRecords is extended.  The other two have names in common with it    *)
(* and come as the instances Calls and Plans, over constants and variables *)
(* of their own, declared where their section begins.                      *)
(***************************************************************************)
EXTENDS LiftRecords, FiniteSetTheorems, WellFoundedInduction, TLAPS

\* What a request carries exists in the tables, and stays there.
Fits(r, defects, visits) ==
  /\ r.op \in {"record", "resolve", "touch"} => r.id \in Defects
  /\ r.op \in {"resolve", "touch"} => defects[r.id].status # "none"
  /\ r.at = "tell" => r.id \in Defects /\ defects[r.id].status # "none" /\ defects[r.id].stop
  /\ r.op \in {"visit", "amend"} => r.id \in Visits /\ ~r.new.superseded /\ r.new.kind # "none"
  /\ r.op = "visit" => r.new.of = NoVisit
  /\ r.op = "amend" => r.new.of \in Visits /\ visits[r.new.of].kind # "none" /\ ~r.flag
RequestsFit == \A p \in People : Fits(req[p], defect, visit)

Told(defects) == \A d \in told : defects[d].status # "none" /\ defects[d].stop

\* Nothing is deleted, and a defect keeps its kind.
DefectsStay(old, new) ==
  \A d \in Defects : old[d].status # "none" => new[d].status # "none" /\ new[d].stop = old[d].stop
VisitsStay(old, new) == \A v \in Visits : old[v].kind # "none" => new[v].kind # "none"

\* The visits form a line for each first visit.
Lines(visits, overtaken) ==
  \A o \in Visits :
    /\ visits[o].kind = "none" => visits[o] = NoRow
    /\ visits[o].superseded <=> \E v \in Visits : visits[v].of = o
    /\ "amend" \notin overtaken => \A v, w \in Visits : visits[v].of = o /\ visits[w].of = o => v = w

IInv == /\ TypeOK /\ RequestsFit /\ Told(defect) /\ Lines(visit, stale)
        /\ StopLiftHolds /\ ResolvedLiftRuns /\ ChecksAreKept

-----------------------------------------------------------------------------
LEMMA StartTypes == NoRow \in VisitRows /\ NewLift \in Lifts /\ Idle \in Requests
                    /\ NoBoard \in [on : BOOLEAN, seen : Lifts, every : Intervals]
                    /\ \A ds, vs : Fits(Idle, ds, vs)
<1>1. 0 \in 0..MaxDay /\ 1 \in Intervals
  BY LiftAssumption
<1>2. NoRow \in VisitRows /\ NewLift \in Lifts
  BY <1>1 DEF NoRow, VisitRows, NewLift, Lifts, Statuses
<1>3. Idle \in Requests
  BY <1>1, <1>2 DEF Idle, Requests
<1>4. NoBoard \in [on : BOOLEAN, seen : Lifts, every : Intervals]
  BY <1>1, <1>2 DEF NoBoard
<1>5. \A ds, vs : Fits(Idle, ds, vs)
  BY DEF Idle, Fits
<1>6. QED
  BY <1>2, <1>3, <1>4, <1>5

\* Everything but the requests.
RestTyped ==
  /\ lift \in Lifts /\ interval \in Intervals
  /\ defect \in [Defects -> DefectRows] /\ visit \in [Visits -> VisitRows]
  /\ board \in [on : BOOLEAN, seen : Lifts, every : Intervals]
  /\ told \subseteq Defects
  /\ mix \in Mixes /\ left \in [People -> Nat] /\ faults \in 0..MaxFaults

LEMMA Rest == IInv => RestTyped /\ req \in [People -> Requests]
BY DEF IInv, TypeOK, RestTyped

LEMMA InitHolds == Init => IInv
<1> SUFFICES ASSUME Init PROVE IInv
  OBVIOUS
<1>1. /\ lift = NewLift /\ interval = 1 /\ board = NoBoard /\ told = {}
      /\ \A d \in Defects : defect[d] = NoDefect
      /\ \A v \in Visits : visit[v] = NoRow
      /\ \A p \in People : req[p] = Idle
  BY DEF Init
<1>2. NoDefect \in DefectRows
  BY DEF NoDefect, DefectRows
<1>3. left \in [People -> Nat] /\ faults \in 0..MaxFaults /\ mix \in Mixes
  BY LiftAssumption DEF Init
<1>4. defect \in [Defects -> DefectRows] /\ visit \in [Visits -> VisitRows]
      /\ req \in [People -> Requests]
  BY <1>2, StartTypes DEF Init
<1>5. TypeOK
  BY <1>1, <1>3, <1>4, StartTypes, LiftAssumption DEF TypeOK
<1>6. RequestsFit /\ Told(defect)
  BY <1>1, StartTypes DEF RequestsFit, Told
<1>7. Lines(visit, stale)
  <2>1. \A v \in Visits : visit[v].of = NoVisit /\ ~visit[v].superseded
    BY <1>1 DEF NoRow
  <2>2. QED
    BY <1>1, <2>1, LiftAssumption DEF Lines
<1>8. StopLiftHolds /\ ResolvedLiftRuns
  BY <1>1 DEF StopLiftHolds, ResolvedLiftRuns, OpenStops, NoDefect, NewLift
<1>9. ChecksAreKept
  BY <1>1 DEF ChecksAreKept, NoRow
<1>10. QED
  BY <1>5, <1>6, <1>7, <1>8, <1>9 DEF IInv

LEMMA FitsLater ==
  ASSUME NEW r, NEW ds, NEW es, NEW vs, NEW ws, Fits(r, ds, vs), DefectsStay(ds, es), VisitsStay(vs, ws)
  PROVE  Fits(r, es, ws)
BY DEF Fits, DefectsStay, VisitsStay

\* A step of one request.
LEMMA RequestStep ==
  ASSUME IInv, NEW p \in People, NEW J \in Requests, req' = [req EXCEPT ![p] = J], RestTyped',
         Fits(J, defect', visit'), DefectsStay(defect, defect'), VisitsStay(visit, visit'),
         told' = told, Lines(visit', stale'), (StopLiftHolds /\ ResolvedLiftRuns)', ChecksAreKept'
  PROVE  IInv'
<1>1. req \in [People -> Requests] /\ told \subseteq Defects
  BY DEF IInv, TypeOK
<1>2. req'[p] = J /\ \A r \in People \ {p} : req'[r] = req[r]
  BY <1>1
<1>3. RequestsFit'
  BY <1>2, FitsLater DEF IInv, RequestsFit
<1>4. Told(defect)' /\ \A d \in told' : defect'[d].stop
  BY <1>1 DEF IInv, Told, DefectsStay
<1>5. TypeOK'
  BY <1>1, <1>4 DEF RestTyped, TypeOK
<1>6. QED
  BY <1>3, <1>4, <1>5 DEF IInv

\* What a step that leaves a table alone leaves true.
LEMMA StatusKept ==
  ASSUME IInv, defect' = defect, lift'.status = lift.status, stale \subseteq stale', hand \subseteq hand'
  PROVE  (StopLiftHolds /\ ResolvedLiftRuns)'
BY DEF IInv, StopLiftHolds, ResolvedLiftRuns, OpenStops

LEMMA ChecksKept ==
  ASSUME IInv, visit' = visit, lift'.last = lift.last, stale \subseteq stale', hand \subseteq hand'
  PROVE  ChecksAreKept'
BY DEF IInv, ChecksAreKept

LEMMA LinesKept ==
  ASSUME IInv, visit' = visit, stale \subseteq stale'
  PROVE  Lines(visit', stale')
BY DEF IInv, Lines

LEMMA AllStay == \A t : DefectsStay(t, t) /\ VisitsStay(t, t)
BY DEF DefectsStay, VisitsStay

\* A step that changes no table.
LEMMA QuietStep ==
  ASSUME IInv, NEW p \in People, NEW J \in Requests, req' = [req EXCEPT ![p] = J], RestTyped',
         Fits(J, defect, visit), UNCHANGED <<lift, defect, visit, told, stale, hand>>
  PROVE  IInv'
BY AllStay, StatusKept, ChecksKept, LinesKept, RequestStep

\* One that corrects the lift by hand or from its check date.
LEMMA DatesStep ==
  ASSUME IInv, NEW p \in People, Done(p), RestTyped', UNCHANGED <<defect, visit, told>>,
         stale \subseteq stale', hand \subseteq hand',
         (StopLiftHolds /\ ResolvedLiftRuns)', ChecksAreKept'
  PROVE  IInv'
<1>1. req' = [req EXCEPT ![p] = Idle]
  BY DEF Done
<1>2. Fits(Idle, defect', visit') /\ Idle \in Requests
  BY StartTypes
<1>3. QED
  BY <1>1, <1>2, AllStay, LinesKept, RequestStep
-----------------------------------------------------------------------------
(* Each action *)

\* A request that is taken in.
LEMMA BeginHolds ==
  ASSUME IInv, NEW p \in People, NEW J \in Requests, Begin(p, J), J.at = "idle",
         Fits(J, defect, visit)
  PROVE  IInv'
<1> DEFINE seen == [lift EXCEPT !.due = 0]
           K == [J EXCEPT !.at = "commit", !.seen = seen, !.every = interval]
<1>1. /\ req' = [req EXCEPT ![p] = K] /\ left[p] > 0 /\ left' = [left EXCEPT ![p] = @ - 1]
      /\ UNCHANGED <<lift, interval, defect, visit, board, told, unheard, stale, hand, mix, faults>>
  BY DEF Begin
<1>2. seen \in Lifts /\ interval \in Intervals
  BY Rest DEF RestTyped, Lifts
<1> HIDE DEF seen
<1>3. K \in Requests /\ K.at = "commit" /\ K.op = J.op /\ K.id = J.id /\ K.new = J.new /\ K.flag = J.flag
  BY <1>2 DEF Requests
<1> HIDE DEF K
<1>4. left' \in [People -> Nat]
  <2>1. left \in [People -> Nat]
    BY Rest DEF RestTyped
  <2>2. left[p] - 1 \in Nat
    BY <1>1, <2>1
  <2>3. QED
    BY <1>1, <2>1, <2>2
<1>5. RestTyped'
  BY <1>1, <1>4, Rest DEF RestTyped
<1>6. Fits(K, defect, visit)
  BY <1>3 DEF Fits
<1>7. QED
  BY <1>1, <1>3, <1>5, <1>6, QuietStep

LEMMA StartRecordHolds ==
  ASSUME IInv, NEW p \in People, NEW d \in Defects, NEW stop \in BOOLEAN, StartRecord(p, d, stop)
  PROVE  IInv'
<1> DEFINE J == [Idle EXCEPT !.op = "record", !.id = d, !.flag = stop]
<1>1. Begin(p, J)
  BY DEF StartRecord
<1>2. J \in Requests /\ J.op = "record" /\ J.id = d /\ J.at = "idle"
  BY StartTypes DEF Requests, AllOps, Idle
<1> HIDE DEF J
<1>3. Fits(J, defect, visit)
  BY <1>2 DEF Fits
<1>4. QED
  BY <1>1, <1>2, <1>3, BeginHolds

LEMMA StartUpdateHolds ==
  ASSUME IInv, NEW p \in People, NEW d \in Defects, NEW to \in {"open", "resolved"}, StartUpdate(p, d, to)
  PROVE  IInv'
<1> DEFINE op == IF to = "resolved" THEN "resolve" ELSE "touch"
           flag == Clear(d)
           J == [Idle EXCEPT !.op = op, !.id = d, !.flag = flag]
<1>1. Begin(p, J) /\ defect[d].status # "none"
  BY DEF StartUpdate, MayUpdate
<1>2. op \in {"resolve", "touch"} /\ flag \in BOOLEAN
  BY DEF Clear
<1> HIDE DEF op, flag
<1>3. J \in Requests /\ J.op = op /\ J.id = d /\ J.at = "idle"
  BY <1>2, StartTypes DEF Requests, AllOps, Idle
<1> HIDE DEF J
<1>4. Fits(J, defect, visit)
  BY <1>1, <1>2, <1>3 DEF Fits
<1>5. QED
  BY <1>1, <1>3, <1>4, BeginHolds

LEMMA DaysAre == Days \subseteq 0..MaxDay
BY LiftAssumption DEF Days

LEMMA StartVisitHolds ==
  ASSUME IInv, NEW p \in People, NEW v \in Visits, NEW kind \in {"check", "other"}, NEW day \in Days,
         StartVisit(p, v, kind, day)
  PROVE  IInv'
<1> DEFINE new == [NoRow EXCEPT !.kind = kind, !.day = day]
           J == [Idle EXCEPT !.op = "visit", !.id = v, !.new = new]
<1>1. Begin(p, J)
  BY DEF StartVisit
<1>2. day \in 0..MaxDay
  BY DaysAre
<1>3. new \in VisitRows /\ new.kind # "none" /\ ~new.superseded /\ new.of = NoVisit
  BY <1>2, StartTypes DEF VisitRows, NoRow
<1> HIDE DEF new
<1>4. J \in Requests /\ J.op = "visit" /\ J.id = v /\ J.at = "idle" /\ J.new = new
  BY <1>3, StartTypes DEF Requests, AllOps, Idle
<1> HIDE DEF J
<1>5. Fits(J, defect, visit)
  BY <1>3, <1>4 DEF Fits
<1>6. QED
  BY <1>1, <1>4, <1>5, BeginHolds

LEMMA StartAmendHolds ==
  ASSUME IInv, NEW p \in People, NEW o \in Visits, NEW v \in Visits, NEW kind \in {"check", "other"},
         NEW day \in Days, StartAmend(p, o, v, kind, day)
  PROVE  IInv'
<1> DEFINE new == [kind |-> kind, day |-> day, superseded |-> FALSE, of |-> o]
           flag == visit[o].superseded
           J == [Idle EXCEPT !.op = "amend", !.id = v, !.flag = flag, !.new = new]
<1>1. Begin(p, J) /\ visit[o].kind # "none" /\ ~visit[o].superseded
  BY DEF StartAmend, MayAmend, IInv, Lines
<1>2. day \in 0..MaxDay
  BY DaysAre
<1>3. new \in VisitRows /\ new.kind # "none" /\ ~new.superseded /\ new.of = o
  BY <1>2 DEF VisitRows
<1>4. flag \in BOOLEAN /\ ~flag
  BY <1>1, Rest DEF RestTyped, VisitRows
<1> HIDE DEF new, flag
<1>5. J \in Requests /\ J.op = "amend" /\ J.id = v /\ J.at = "idle" /\ J.new = new /\ J.flag = flag
  BY <1>3, <1>4, StartTypes DEF Requests, AllOps, Idle
<1> HIDE DEF J
<1>6. Fits(J, defect, visit)
  BY <1>1, <1>3, <1>4, <1>5 DEF Fits
<1>7. QED
  BY <1>1, <1>5, <1>6, BeginHolds

LEMMA StartEditHolds ==
  ASSUME IInv, NEW p \in People, NEW status \in Statuses \cup {"none"}, NEW day \in 0..MaxDay,
         StartEdit(p, status, day)
  PROVE  IInv'
<1> DEFINE op == IF status = "none" THEN "edit" ELSE "status"
           J == [Idle EXCEPT !.op = op, !.to = status, !.day = day]
<1>1. Begin(p, J)
  BY DEF StartEdit
<1>2. op \in {"edit", "status"}
  OBVIOUS
<1> HIDE DEF op
<1>3. J \in Requests /\ J.op = op /\ J.at = "idle"
  BY <1>2, StartTypes DEF Requests, AllOps, Idle
<1> HIDE DEF J
<1>4. Fits(J, defect, visit)
  BY <1>2, <1>3 DEF Fits
<1>5. QED
  BY <1>1, <1>3, <1>4, BeginHolds

LEMMA StartRescheduleHolds ==
  ASSUME IInv, NEW p \in People, NEW day \in 0..MaxDay, StartReschedule(p, day) PROVE IInv'
<1> DEFINE J == [Idle EXCEPT !.op = "reschedule", !.day = day]
<1>1. Begin(p, J)
  BY DEF StartReschedule
<1>2. J \in Requests /\ J.op = "reschedule" /\ J.at = "idle"
  BY StartTypes DEF Requests, AllOps, Idle
<1> HIDE DEF J
<1>3. Fits(J, defect, visit)
  BY <1>2 DEF Fits
<1>4. QED
  BY <1>1, <1>2, <1>3, BeginHolds

LEMMA SetIntervalHolds ==
  ASSUME IInv, NEW p \in People, NEW every \in Intervals, SetInterval(p, every) PROVE IInv'
<1>1. /\ interval' = every /\ left[p] > 0 /\ left' = [left EXCEPT ![p] = @ - 1]
      /\ UNCHANGED <<lift, defect, visit, req, board, told, unheard, stale, hand, mix, faults>>
  BY DEF SetInterval
<1>2. left' \in [People -> Nat]
  <2>1. left \in [People -> Nat]
    BY Rest DEF RestTyped
  <2>2. left[p] - 1 \in Nat
    BY <1>1, <2>1
  <2>3. QED
    BY <1>1, <2>1, <2>2
<1>3. TypeOK'
  BY <1>1, <1>2 DEF IInv, TypeOK
<1>4. QED
  BY <1>1, <1>3, StatusKept, ChecksKept, LinesKept DEF IInv, RequestsFit, Told

LEMMA OvertakenIs ==
  ASSUME NEW what, NEW is, Overtaken(what, is)
  PROVE  stale \subseteq stale' /\ (is => what \in stale')
BY DEF Overtaken

\* A defect comes in: it is not in the table yet.
LEMMA RecordDefectHolds == ASSUME IInv, NEW p \in People, RecordDefect(p) PROVE IInv'
<1> DEFINE d == req[p].id
           stop == req[p].flag
           new == [status |-> "open", stop |-> stop]
           T == [req[p] EXCEPT !.at = "tell"]
<1>1. /\ req[p] \in Requests /\ req[p].op = "record" /\ Fits(req[p], defect, visit)
      /\ d \in Defects /\ stop \in BOOLEAN /\ defect[d].status = "none" /\ req[p].seen \in Lifts
  BY Rest DEF RecordDefect, At, IInv, RequestsFit, Fits, Requests
<1>2. /\ defect' = [defect EXCEPT ![d] = new]
      /\ UNCHANGED <<interval, visit, board, told, unheard, hand, mix, left, faults>>
  BY DEF RecordDefect
<1>3. \/ stop /\ req[p].seen.status = "active" /\ lift' = [lift EXCEPT !.status = "stopped_by_firm"]
      \/ ~(stop /\ req[p].seen.status = "active") /\ lift' = lift
  BY DEF RecordDefect
<1>4. stale \subseteq stale' /\ (stop /\ req[p].seen.status # lift.status => "status" \in stale')
  BY OvertakenIs DEF RecordDefect
<1>5. \/ stop /\ req' = [req EXCEPT ![p] = T]
      \/ req' = [req EXCEPT ![p] = Idle]
  BY DEF RecordDefect, Done
<1>6. new \in DefectRows /\ new.status = "open" /\ new.stop = stop
  BY <1>1 DEF DefectRows
<1>7. T \in Requests /\ T.at = "tell" /\ T.op = "record" /\ T.id = d
  BY <1>1 DEF Requests
<1> HIDE DEF d, stop, new, T
<1>8. lift' \in Lifts /\ lift'.last = lift.last
  BY <1>3, Rest DEF RestTyped, Lifts, Statuses
<1>9. defect' \in [Defects -> DefectRows] /\ defect'[d] = new
      /\ \A o \in Defects \ {d} : defect'[o] = defect[o]
  BY <1>1, <1>2, <1>6, Rest DEF RestTyped
<1>10. RestTyped'
  BY <1>2, <1>8, <1>9, Rest DEF RestTyped
<1>11. DefectsStay(defect, defect') /\ VisitsStay(visit, visit')
  BY <1>1, <1>2, <1>9 DEF DefectsStay, VisitsStay
<1>12. (StopLiftHolds /\ ResolvedLiftRuns)'
  <2>1. OpenStops' = IF stop THEN OpenStops \cup {d} ELSE OpenStops
    BY <1>1, <1>6, <1>9 DEF OpenStops
  <2>2. lift'.status = IF stop /\ req[p].seen.status = "active" THEN "stopped_by_firm" ELSE lift.status
    BY <1>3, Rest DEF RestTyped, Lifts
  <2>3. QED
    BY <1>2, <1>4, <2>1, <2>2 DEF IInv, StopLiftHolds, ResolvedLiftRuns
<1>13. ChecksAreKept' /\ Lines(visit', stale')
  BY <1>2, <1>4, <1>8, ChecksKept, LinesKept
<1>14. Fits(T, defect', visit') \/ ~stop
  BY <1>1, <1>6, <1>7, <1>9 DEF Fits
<1>15. CASE stop /\ req' = [req EXCEPT ![p] = T]
  BY <1>2, <1>7, <1>10, <1>11, <1>12, <1>13, <1>14, <1>15, RequestStep
<1>16. CASE req' = [req EXCEPT ![p] = Idle]
  BY <1>2, <1>10, <1>11, <1>12, <1>13, <1>16, StartTypes, RequestStep
<1>17. QED
  BY <1>5, <1>15, <1>16

LEMMA TellStopHolds == ASSUME IInv, NEW p \in People, TellStop(p) PROVE IInv'
<1>1. /\ req[p].at = "tell" /\ told' = told \cup {req[p].id} /\ req' = [req EXCEPT ![p] = Idle]
      /\ UNCHANGED <<lift, interval, defect, visit, board, unheard, stale, hand, mix, left, faults>>
  BY DEF TellStop, Heard, Done
<1>2. req[p].id \in Defects /\ defect[req[p].id].status # "none" /\ defect[req[p].id].stop
  BY <1>1 DEF IInv, RequestsFit, Fits
<1>3. Told(defect)' /\ \A d \in told' : defect'[d].stop
  BY <1>1, <1>2 DEF IInv, Told
<1>4. TypeOK'
  BY <1>1, <1>2, <1>3, StartTypes DEF IInv, TypeOK
<1>5. RequestsFit'
  <2>1. req'[p] = Idle /\ \A r \in People \ {p} : req'[r] = req[r]
    BY <1>1, Rest
  <2>2. QED
    BY <1>1, <2>1, StartTypes DEF IInv, RequestsFit
<1>6. QED
  BY <1>1, <1>3, <1>4, <1>5, StatusKept, ChecksKept, LinesKept DEF IInv

\* The status of one defect changes: the lift runs again when the last one that
\* stopped it is resolved.
LEMMA DefectMoves ==
  ASSUME IInv, NEW p \in People, NEW d \in Defects, NEW status \in {"open", "resolved"},
         defect[d].status # "none", defect' = [defect EXCEPT ![d].status = status],
         Done(p), UNCHANGED <<interval, visit, board, told, hand, mix, left, faults>>,
         lift' \in Lifts, lift'.last = lift.last, stale \subseteq stale',
         (StopLiftHolds /\ ResolvedLiftRuns)'
  PROVE  IInv'
<1>1. defect \in [Defects -> DefectRows]
  BY Rest DEF RestTyped
<1>2. [defect[d] EXCEPT !.status = status] \in DefectRows
  BY <1>1 DEF DefectRows
<1>3. defect' \in [Defects -> DefectRows]
  BY <1>1, <1>2
<1>4. RestTyped'
  BY <1>3, Rest DEF RestTyped
<1>5. DefectsStay(defect, defect') /\ VisitsStay(visit, visit')
  BY <1>1 DEF DefectsStay, VisitsStay, DefectRows
<1>6. req' = [req EXCEPT ![p] = Idle]
  BY DEF Done
<1>7. QED
  BY <1>4, <1>5, <1>6, ChecksKept, LinesKept, StartTypes, RequestStep

LEMMA ResolveHolds == ASSUME IInv, NEW p \in People, Resolve(p) PROVE IInv'
<1> DEFINE d == req[p].id
           clear == req[p].flag
<1>1. d \in Defects /\ defect[d].status # "none" /\ clear \in BOOLEAN
  BY Rest DEF Resolve, At, IInv, RequestsFit, Fits, Requests
<1>2. /\ defect' = [defect EXCEPT ![d].status = "resolved"] /\ Done(p)
      /\ UNCHANGED <<interval, visit, board, told, unheard, hand, mix, left, faults>>
      /\ lift' = IF defect[d].stop /\ clear /\ lift.status = "stopped_by_firm"
                 THEN [lift EXCEPT !.status = "active"] ELSE lift
  BY DEF Resolve
<1>3. stale \subseteq stale' /\ (defect[d].stop /\ clear # Clear(d) => "status" \in stale')
  BY OvertakenIs DEF Resolve
<1> HIDE DEF d, clear
<1>4. defect \in [Defects -> DefectRows] /\ lift \in Lifts
  BY Rest DEF RestTyped
<1>5. lift' \in Lifts /\ lift'.last = lift.last
      /\ lift'.status = IF defect[d].stop /\ clear /\ lift.status = "stopped_by_firm" THEN "active" ELSE lift.status
  BY <1>2, <1>4 DEF Lifts, Statuses
<1>6. OpenStops' = OpenStops \ {d} /\ (d \in OpenStops => defect[d].stop)
  BY <1>1, <1>2, <1>4 DEF OpenStops, DefectRows
<1>7. (StopLiftHolds /\ ResolvedLiftRuns)'
  <2>1. CASE "status" \in stale' \cup hand'
    BY <2>1 DEF StopLiftHolds, ResolvedLiftRuns
  <2>2. CASE "status" \notin stale' \cup hand'
    <3>1. "status" \notin stale \cup hand /\ (defect[d].stop => clear = Clear(d))
      BY <1>2, <1>3, <2>2
    <3>2. CASE defect[d].stop
      BY <1>5, <1>6, <3>1, <3>2 DEF IInv, StopLiftHolds, ResolvedLiftRuns, Clear
    <3>3. CASE ~defect[d].stop
      BY <1>5, <1>6, <3>1, <3>3 DEF IInv, StopLiftHolds, ResolvedLiftRuns
    <3>4. QED
      BY <3>2, <3>3
  <2>3. QED
    BY <2>1, <2>2
<1>8. QED
  BY <1>1, <1>2, <1>3, <1>5, <1>7, DefectMoves

LEMMA TouchHolds == ASSUME IInv, NEW p \in People, Touch(p) PROVE IInv'
<1> DEFINE d == req[p].id
<1>1. d \in Defects /\ defect[d].status # "none"
  BY DEF Touch, At, IInv, RequestsFit, Fits
<1>2. /\ defect' = [defect EXCEPT ![d].status = "open"] /\ Done(p)
      /\ UNCHANGED <<lift, interval, visit, board, told, unheard, hand, mix, left, faults>>
  BY DEF Touch
<1>3. stale \subseteq stale' /\ (defect[d].status = "resolved" => "status" \in stale')
  BY OvertakenIs DEF Touch
<1> HIDE DEF d
<1>4. defect \in [Defects -> DefectRows] /\ lift \in Lifts
  BY Rest DEF RestTyped
<1>5. (StopLiftHolds /\ ResolvedLiftRuns)'
  <2>1. CASE "status" \in stale'
    BY <2>1 DEF StopLiftHolds, ResolvedLiftRuns
  <2>2. CASE "status" \notin stale'
    <3>1. defect[d].status = "open"
      BY <1>1, <1>3, <1>4, <2>2 DEF DefectRows
    <3>2. defect' = defect
      BY <1>1, <1>2, <1>4, <3>1 DEF DefectRows
    <3>3. QED
      BY <1>2, <1>3, <3>2, StatusKept
  <2>3. QED
    BY <2>1, <2>2
<1>6. QED
  BY <1>1, <1>2, <1>3, <1>4, <1>5, DefectMoves

LEMMA CrashHolds == ASSUME IInv, NEW p \in People, Crash(p) PROVE IInv'
<1>1. /\ faults > 0 /\ faults' = faults - 1 /\ req' = [req EXCEPT ![p] = Idle]
      /\ UNCHANGED <<lift, interval, defect, visit, board, told, stale, hand, mix, left>>
  BY DEF Crash, Done
<1>2. faults' \in 0..MaxFaults
  BY <1>1, Rest, LiftAssumption DEF RestTyped
<1>3. RestTyped'
  BY <1>1, <1>2, Rest DEF RestTyped
<1>4. QED
  BY <1>1, <1>3, StartTypes, QuietStep

LEMMA IdTakenHolds == ASSUME IInv, NEW p \in People, IdTaken(p) PROVE IInv'
<1>1. /\ req' = [req EXCEPT ![p] = Idle]
      /\ UNCHANGED <<lift, interval, defect, visit, board, told, unheard, stale, hand, mix, left, faults>>
  BY DEF IdTaken, Done
<1>2. RestTyped'
  BY <1>1, Rest DEF RestTyped
<1>3. QED
  BY <1>1, <1>2, StartTypes, QuietStep

LEMMA DueType ==
  ASSUME NEW last \in 0..MaxDay, NEW override \in 0..MaxDay, NEW every \in Intervals
  PROVE  Due(last, override, every) \in Nat
<1>1. last \in Nat /\ override \in Nat /\ every \in Nat
  BY LiftAssumption
<1>2. QED
  BY <1>1 DEF Due

LEMMA LiftIs ==
  IInv =>
    /\ lift \in Lifts /\ lift.last \in 0..MaxDay /\ lift.override \in 0..MaxDay
    /\ board.seen \in Lifts /\ board.seen.last \in 0..MaxDay
    /\ board.seen.override \in 0..MaxDay /\ board.every \in Intervals
    /\ interval \in Intervals
    /\ \A p \in People :
         /\ req[p] \in Requests /\ req[p].seen.last \in 0..MaxDay
         /\ req[p].seen.override \in 0..MaxDay /\ req[p].every \in Intervals
         /\ req[p].new \in VisitRows /\ req[p].new.day \in 0..MaxDay /\ req[p].day \in 0..MaxDay
         /\ req[p].to \in Statuses \cup {"none"}
<1> SUFFICES ASSUME IInv
             PROVE  /\ lift \in Lifts /\ board \in [on : BOOLEAN, seen : Lifts, every : Intervals]
                    /\ interval \in Intervals /\ \A p \in People : req[p] \in Requests
  BY DEF Lifts, Requests, VisitRows
<1>1. QED
  BY Rest DEF RestTyped

\* The date that a check leaves on the lift.
LEMMA CheckedIs ==
  ASSUME IInv, NEW p \in People, NEW day \in 0..MaxDay,
         lift' = Checked(req[p].seen, day, req[p].every)
  PROVE  /\ lift' \in Lifts /\ lift'.status = lift.status /\ lift'.last >= day
         /\ req[p].seen.last = lift.last => lift'.last >= lift.last
<1> DEFINE last == Later(req[p].seen.last, day)
           due == Due(last, 0, req[p].every)
<1>1. last \in 0..MaxDay /\ last >= day /\ last >= req[p].seen.last /\ 0 \in 0..MaxDay
  BY LiftIs, LiftAssumption DEF Later
<1>2. due \in Nat
  BY <1>1, LiftIs, DueType
<1>3. lift' = [lift EXCEPT !.last = last, !.override = 0, !.due = due]
  BY DEF Checked
<1> HIDE DEF last, due
<1>4. lift' \in Lifts /\ lift'.status = lift.status /\ lift'.last = last
  BY <1>1, <1>2, <1>3, LiftIs DEF Lifts
<1>5. QED
  BY <1>1, <1>4

\* What a new row of the visit table says of the date of the lift.
LEMMA ChecksAdded ==
  ASSUME IInv, NEW p \in People, NEW v \in Visits, NEW new \in VisitRows, visit' \in [Visits -> VisitRows],
         visit'[v].kind = new.kind, visit'[v].day = new.day,
         \A o \in Visits \ {v} : visit'[o].kind = visit[o].kind /\ visit'[o].day = visit[o].day,
         IsCheck(new) => lift' = Checked(req[p].seen, new.day, req[p].every),
         ~IsCheck(new) => lift' = lift,
         IsCheck(new) /\ req[p].seen.last # lift.last => "check" \in stale',
         stale \subseteq stale', hand \subseteq hand'
  PROVE  lift' \in Lifts /\ lift'.status = lift.status /\ ChecksAreKept'
<1>1. new.day \in 0..MaxDay /\ lift.last \in 0..MaxDay
  BY LiftIs DEF VisitRows
<1>2. visit \in [Visits -> VisitRows] /\ \A o \in Visits : visit[o].day \in 0..MaxDay
  BY Rest DEF RestTyped, VisitRows
<1>3. CASE IsCheck(new)
  <2>1. /\ lift' \in Lifts /\ lift'.status = lift.status /\ lift'.last >= new.day
        /\ req[p].seen.last = lift.last => lift'.last >= lift.last
    BY <1>1, <1>3, CheckedIs
  <2>2. lift'.last \in 0..MaxDay
    BY <2>1 DEF Lifts
  <2>3. CASE "check" \in stale'
    BY <2>1, <2>3 DEF ChecksAreKept
  <2>4. CASE "check" \notin stale'
    <3>1. lift'.last >= lift.last /\ "check" \notin stale
      BY <1>3, <2>1, <2>4
    <3>2. \A o \in Visits \ {v} : visit'[o].kind = "check" => lift'.last >= visit'[o].day \/ "check" \in hand'
      BY <1>1, <1>2, <2>2, <3>1 DEF IInv, ChecksAreKept
    <3>3. QED
      BY <2>1, <3>2 DEF ChecksAreKept
  <2>5. QED
    BY <2>3, <2>4
<1>4. CASE ~IsCheck(new)
  <2>1. visit'[v].kind # "check" /\ lift' = lift
    BY <1>4 DEF IsCheck
  <2>2. QED
    BY <2>1, LiftIs DEF IInv, ChecksAreKept
<1>5. QED
  BY <1>3, <1>4

LEMMA WriteVisitHolds == ASSUME IInv, NEW p \in People, WriteVisit(p) PROVE IInv'
<1> DEFINE v == req[p].id
           new == req[p].new
<1>1. /\ v \in Visits /\ new \in VisitRows /\ ~new.superseded /\ new.kind # "none" /\ new.of = NoVisit
      /\ visit[v] = NoRow
  BY LiftIs DEF WriteVisit, At, IInv, RequestsFit, Fits
<1>2. /\ visit' = [visit EXCEPT ![v] = new] /\ Done(p)
      /\ UNCHANGED <<interval, defect, board, told, unheard, hand, mix, left, faults>>
      /\ CheckApplied(p, new)
  BY DEF WriteVisit
<1>3. /\ IsCheck(new) => lift' = Checked(req[p].seen, new.day, req[p].every)
      /\ ~IsCheck(new) => lift' = lift
      /\ stale \subseteq stale'
      /\ IsCheck(new) /\ req[p].seen.last # lift.last => "check" \in stale'
  BY <1>2, OvertakenIs DEF CheckApplied
<1>4. "amend" \in stale' => "amend" \in stale
  BY <1>2 DEF CheckApplied, Overtaken
<1> HIDE DEF v, new
<1>5. visit \in [Visits -> VisitRows]
  BY Rest DEF RestTyped
<1>6. visit' \in [Visits -> VisitRows] /\ visit'[v] = new /\ \A o \in Visits \ {v} : visit'[o] = visit[o]
  BY <1>1, <1>2, <1>5
<1>7. lift' \in Lifts /\ lift'.status = lift.status /\ ChecksAreKept'
  BY <1>1, <1>2, <1>3, <1>6, ChecksAdded
<1>8. RestTyped'
  BY <1>2, <1>6, <1>7, Rest DEF RestTyped
<1>9. Lines(visit', stale')
  <2>1. \A o \in Visits : visit'[o].of = visit[o].of /\ (visit'[o].superseded <=> visit[o].superseded)
    <3>1. visit[v].of = NoVisit /\ ~visit[v].superseded
      BY <1>1 DEF NoRow
    <3>2. QED
      BY <1>1, <1>6, <3>1
  <2>2. \A o \in Visits : visit'[o].kind = "none" => visit'[o] = NoRow
    BY <1>1, <1>6 DEF IInv, Lines
  <2>3. QED
    BY <1>3, <2>1, <2>2 DEF IInv, Lines
<1>10. VisitsStay(visit, visit') /\ DefectsStay(defect, defect')
  BY <1>1, <1>2, <1>6 DEF VisitsStay, DefectsStay
<1>11. (StopLiftHolds /\ ResolvedLiftRuns)'
  BY <1>2, <1>3, <1>7, StatusKept
<1>12. req' = [req EXCEPT ![p] = Idle]
  BY <1>2 DEF Done
<1>13. QED
  BY <1>2, <1>7, <1>8, <1>9, <1>10, <1>11, <1>12, StartTypes, RequestStep

LEMMA WriteAmendmentHolds == ASSUME IInv, NEW p \in People, WriteAmendment(p) PROVE IInv'
<1> DEFINE v == req[p].id
           new == req[p].new
           o == new.of
           flag == req[p].flag
<1>1. /\ v \in Visits /\ new \in VisitRows /\ ~new.superseded /\ new.kind # "none" /\ o \in Visits
      /\ visit[v] = NoRow /\ visit[o].kind # "none" /\ ~flag
  BY LiftIs DEF WriteAmendment, At, IInv, RequestsFit, Fits
<1>2. /\ visit' = [visit EXCEPT ![o].superseded = TRUE, ![v] = new] /\ Done(p)
      /\ UNCHANGED <<interval, defect, board, told, unheard, hand, mix, left, faults>>
      /\ IsCheck(new) => lift' = Checked(req[p].seen, new.day, req[p].every)
      /\ ~IsCheck(new) => lift' = lift
  BY DEF WriteAmendment
<1>3. /\ stale \subseteq stale'
      /\ IsCheck(new) /\ req[p].seen.last # lift.last => "check" \in stale'
      /\ visit[o].superseded # flag => "amend" \in stale'
  BY DEF WriteAmendment
<1> HIDE DEF v, new, o, flag
<1>4. visit \in [Visits -> VisitRows] /\ visit[o] \in VisitRows /\ v # o
  BY <1>1, Rest DEF RestTyped, NoRow
<1> DEFINE old == [visit[o] EXCEPT !.superseded = TRUE]
<1>5. old \in VisitRows /\ old.superseded /\ old.kind = visit[o].kind /\ old.day = visit[o].day
      /\ old.of = visit[o].of
  BY <1>4 DEF VisitRows
<1> HIDE DEF old
<1>6. /\ visit' \in [Visits -> VisitRows] /\ visit'[v] = new /\ visit'[o] = old
      /\ \A w \in Visits \ {v, o} : visit'[w] = visit[w]
  BY <1>1, <1>2, <1>4, <1>5 DEF old
<1>7. lift' \in Lifts /\ lift'.status = lift.status /\ ChecksAreKept'
  BY <1>1, <1>2, <1>3, <1>5, <1>6, ChecksAdded
<1>8. RestTyped'
  BY <1>2, <1>6, <1>7, Rest DEF RestTyped
<1>9. Lines(visit', stale')
  <2>1. \A w \in Visits \ {v} : visit'[w].of = visit[w].of
    BY <1>5, <1>6
  <2>2. visit[v].of = NoVisit /\ ~visit[v].superseded /\ NoVisit \notin Visits /\ visit'[v].of = o
        /\ o = new.of
    BY <1>1, <1>6, LiftAssumption DEF NoRow, o
  <2>3. ASSUME NEW x \in Visits, visit'[x].kind = "none" PROVE visit'[x] = NoRow
    BY <1>1, <1>5, <1>6, <2>3 DEF IInv, Lines
  <2>4. ASSUME NEW x \in Visits PROVE visit'[x].superseded <=> \E w \in Visits : visit'[w].of = x
    <3>1. CASE x = o
      BY <1>1, <1>5, <1>6, <2>2, <3>1
    <3>2. CASE x # o
      <4>1. (\E w \in Visits : visit'[w].of = x) <=> \E w \in Visits : visit[w].of = x
        BY <1>1, <2>1, <2>2, <3>2
      <4>2. visit'[x].superseded <=> visit[x].superseded
        BY <1>1, <1>6, <2>2, <3>2
      <4>3. QED
        BY <4>1, <4>2 DEF IInv, Lines
    <3>3. QED
      BY <3>1, <3>2
  <2>5. ASSUME "amend" \notin stale', NEW x \in Visits, NEW w \in Visits, NEW z \in Visits,
               visit'[w].of = x, visit'[z].of = x
        PROVE  w = z
    <3>1. "amend" \notin stale /\ ~visit[o].superseded
      BY <1>1, <1>3, <2>5
    <3>2. \A y \in Visits : visit[y].of # o
      BY <1>1, <3>1 DEF IInv, Lines
    <3>3. CASE x = o
      BY <2>1, <2>5, <3>2, <3>3
    <3>4. CASE x # o
      BY <2>1, <2>2, <2>5, <3>1, <3>4 DEF IInv, Lines
    <3>5. QED
      BY <3>3, <3>4
  <2>6. QED
    BY <2>3, <2>4, <2>5 DEF Lines
<1>10. VisitsStay(visit, visit') /\ DefectsStay(defect, defect')
  BY <1>1, <1>2, <1>5, <1>6 DEF VisitsStay, DefectsStay
<1>11. (StopLiftHolds /\ ResolvedLiftRuns)'
  BY <1>2, <1>3, <1>7, StatusKept
<1>12. req' = [req EXCEPT ![p] = Idle]
  BY <1>2 DEF Done
<1>13. QED
  BY <1>2, <1>7, <1>8, <1>9, <1>10, <1>11, <1>12, StartTypes, RequestStep

LEMMA EditHolds == ASSUME IInv, NEW p \in People, Edit(p) PROVE IInv'
<1> DEFINE r == req[p]
           last == IF r.day = 0 THEN r.seen.last ELSE r.day
           override == IF r.day \in {0, r.seen.last} THEN r.seen.override ELSE 0
           status == IF r.to = "none" THEN lift.status ELSE r.to
           due == Due(last, override, r.every)
<1>1. /\ last \in 0..MaxDay /\ override \in 0..MaxDay /\ due \in Nat
      /\ status \in Statuses /\ lift \in Lifts
  <2>1. last \in 0..MaxDay /\ override \in 0..MaxDay
    BY LiftIs, LiftAssumption
  <2>2. due \in Nat
    BY <2>1, LiftIs, DueType
  <2>3. status \in Statuses
    BY LiftIs DEF Lifts
  <2>4. QED
    BY <2>1, <2>2, <2>3, LiftIs
<1>2. /\ lift' = [status |-> status, last |-> last, override |-> override, due |-> due]
      /\ hand' = hand \cup (IF r.to # "none" THEN {"status"} ELSE {})
                      \cup (IF r.day # 0 THEN {"check"} ELSE {})
      /\ Done(p) /\ UNCHANGED <<interval, defect, visit, board, told, unheard, mix, left, faults>>
  BY DEF Edit, Edited
<1>3. stale \subseteq stale' /\ (r.seen.last # lift.last => "check" \in stale')
  BY OvertakenIs DEF Edit
<1>4. /\ hand \subseteq hand' /\ (r.to # "none" => "status" \in hand')
      /\ r.day # 0 => "check" \in hand'
      /\ r.to = "none" => status = lift.status
      /\ r.day = 0 => last = r.seen.last
  BY <1>2
<1> HIDE DEF r, last, override, status, due
<1>5. lift' \in Lifts /\ lift'.status = status /\ lift'.last = last
  BY <1>1, <1>2 DEF Lifts
<1>6. RestTyped'
  BY <1>2, <1>5, Rest DEF RestTyped
<1>7. (StopLiftHolds /\ ResolvedLiftRuns)'
  <2>1. CASE r.to = "none"
    BY <1>2, <1>3, <1>4, <1>5, <2>1, StatusKept
  <2>2. CASE r.to # "none"
    BY <1>4, <2>2 DEF StopLiftHolds, ResolvedLiftRuns
  <2>3. QED
    BY <2>1, <2>2
<1>8. ChecksAreKept'
  <2>1. CASE r.day = 0 /\ r.seen.last = lift.last
    BY <1>2, <1>3, <1>4, <1>5, <2>1, ChecksKept
  <2>2. CASE ~(r.day = 0 /\ r.seen.last = lift.last)
    BY <1>3, <1>4, <2>2 DEF ChecksAreKept
  <2>3. QED
    BY <2>1, <2>2
<1>9. QED
  BY <1>2, <1>3, <1>4, <1>6, <1>7, <1>8, DatesStep

\* Only the reschedule and the next date are written.
LEMMA DueWritten ==
  ASSUME IInv, NEW override \in 0..MaxDay, NEW due \in Nat,
         lift' = [lift EXCEPT !.override = override, !.due = due]
  PROVE  lift' \in Lifts /\ lift'.status = lift.status /\ lift'.last = lift.last
BY LiftIs DEF Lifts

LEMMA RescheduleHolds == ASSUME IInv, NEW p \in People, Reschedule(p) PROVE IInv'
<1> DEFINE due == Due(req[p].seen.last, req[p].day, req[p].every)
<1>1. /\ lift' = [lift EXCEPT !.override = req[p].day, !.due = due]
      /\ Done(p)
      /\ UNCHANGED <<interval, defect, visit, board, told, unheard, stale, hand, mix, left, faults>>
  BY DEF Reschedule
<1>2. due \in Nat /\ req[p].day \in 0..MaxDay
  BY LiftIs, DueType
<1> HIDE DEF due
<1>3. lift' \in Lifts /\ lift'.status = lift.status /\ lift'.last = lift.last
  BY <1>1, <1>2, DueWritten
<1>4. RestTyped'
  BY <1>1, <1>3, Rest DEF RestTyped
<1>5. QED
  BY <1>1, <1>3, <1>4, StatusKept, ChecksKept, DatesStep

LEMMA BoardHolds == ASSUME IInv, ListLift \/ Recompute PROVE IInv'
<1> DEFINE due == Due(board.seen.last, board.seen.override, board.every)
<1>1. due \in Nat
  BY LiftIs, DueType
<1> HIDE DEF due
<1>2. \/ lift' = lift /\ board' = [on |-> TRUE, seen |-> lift, every |-> interval]
      \/ lift' = [lift EXCEPT !.due = due] /\ board' = NoBoard
  BY DEF ListLift, Recompute, due
<1>3. UNCHANGED <<interval, defect, visit, req, told, unheard, stale, hand, mix, left, faults>>
  BY DEF ListLift, Recompute
<1>4. lift' \in Lifts /\ lift'.status = lift.status /\ lift'.last = lift.last
  BY <1>1, <1>2, LiftIs DEF Lifts
<1>5. board' \in [on : BOOLEAN, seen : Lifts, every : Intervals]
  <2>1. [on |-> TRUE, seen |-> lift, every |-> interval] \in [on : BOOLEAN, seen : Lifts, every : Intervals]
    BY LiftIs
  <2>2. QED
    BY <1>2, <2>1, StartTypes
<1>6. TypeOK'
  BY <1>3, <1>4, <1>5 DEF IInv, TypeOK
<1>7. QED
  BY <1>3, <1>4, <1>6, StatusKept, ChecksKept, LinesKept DEF IInv, RequestsFit, Told

-----------------------------------------------------------------------------
LEMMA RequestHolds == ASSUME IInv, NEW p \in People, Request(p) PROVE IInv'
<1>1. ASSUME NEW d \in Defects, NEW stop \in BOOLEAN, StartRecord(p, d, stop) PROVE IInv'
  BY <1>1, StartRecordHolds
<1>2. ASSUME NEW d \in Defects, NEW to \in {"open", "resolved"}, StartUpdate(p, d, to) PROVE IInv'
  BY <1>2, StartUpdateHolds
<1>3. ASSUME NEW v \in Visits, NEW kind \in {"check", "other"}, NEW day \in Days,
             StartVisit(p, v, kind, day)
      PROVE  IInv'
  BY <1>3, StartVisitHolds
<1>4. ASSUME NEW v \in Visits, NEW kind \in {"check", "other"}, NEW day \in Days, NEW o \in Visits,
             StartAmend(p, o, v, kind, day)
      PROVE  IInv'
  BY <1>4, StartAmendHolds
<1>5. {0} \cup Days \subseteq 0..MaxDay /\ 0 \in 0..MaxDay
  BY DaysAre, LiftAssumption
<1>6. ASSUME NEW status \in Statuses, StartEdit(p, status, 0) PROVE IInv'
  BY <1>5, <1>6, StartEditHolds
<1>7. ASSUME NEW day \in {0} \cup Days, StartEdit(p, "none", day) \/ StartReschedule(p, day) PROVE IInv'
  BY <1>5, <1>7, StartEditHolds, StartRescheduleHolds
<1>8. ASSUME NEW every \in Intervals, SetInterval(p, every) PROVE IInv'
  BY <1>8, SetIntervalHolds
<1>9. QED
  BY <1>1, <1>2, <1>3, <1>4, <1>6, <1>7, <1>8 DEF Request

LEMMA NextHolds == IInv /\ [Next]_vars => IInv'
<1> SUFFICES ASSUME IInv, [Next]_vars PROVE IInv'
  OBVIOUS
<1>1. ASSUME NEW p \in People, Commits(p) PROVE IInv'
  BY <1>1, RecordDefectHolds, TellStopHolds, ResolveHolds, TouchHolds, WriteVisitHolds,
     WriteAmendmentHolds, IdTakenHolds, EditHolds, RescheduleHolds DEF Commits
<1>2. CASE UNCHANGED vars
  BY <1>2 DEF vars, IInv, TypeOK, RequestsFit, Told, StopLiftHolds, ResolvedLiftRuns, OpenStops,
              ChecksAreKept
<1>3. QED
  BY <1>1, <1>2, RequestHolds, CrashHolds, BoardHolds DEF Next

\* Every reachable state is well typed.
THEOREM TypeCorrect == Spec => []TypeOK
<1>1. IInv => TypeOK
  BY DEF IInv
<1>2. QED
  BY <1>1, InitHolds, NextHolds, PTL DEF Spec

\* A lift with an open stop-lift defect runs only after the office set its status by
\* hand or two requests about its defects overlapped.
THEOREM StoppedLiftStaysStopped == Spec => []StopLiftHolds
<1>1. IInv => StopLiftHolds
  BY DEF IInv
<1>2. QED
  BY <1>1, InitHolds, NextHolds, PTL DEF Spec

\* A lift the firm has stopped has a defect that stops it, with the same exceptions.
THEOREM StoppedLiftHasADefect == Spec => []ResolvedLiftRuns
<1>1. IInv => ResolvedLiftRuns
  BY DEF IInv
<1>2. QED
  BY <1>1, InitHolds, NextHolds, PTL DEF Spec

\* The date of the last check is not behind a recorded check, unless a request wrote
\* from a copy of the lift that had moved on, or the office by hand.
THEOREM LastCheckNeverBack == Spec => []ChecksAreKept
<1>1. IInv => ChecksAreKept
  BY DEF IInv
<1>2. QED
  BY <1>1, InitHolds, NextHolds, PTL DEF Spec

\* A step that adds no stop-lift defect: who was about to announce one still is,
\* or has done it, or died.
LEMMA NoNewStop ==
  ASSUME IInv, NoStopForgotten, NEW p \in People, NEW J, req' = [req EXCEPT ![p] = J],
         \A d \in Defects : defect'[d].stop => defect[d].stop,
         told \cup unheard \subseteq told' \cup unheard',
         req[p].at = "tell" => req[p].id \in told' \cup unheard'
  PROVE  NoStopForgotten'
<1>1. req'[p] = J /\ \A q \in People \ {p} : req'[q] = req[q]
  BY Rest
<1>2. ASSUME NEW d \in Defects, defect'[d].stop, d \notin told' \cup unheard'
      PROVE  \E q \in People : req'[q].at = "tell" /\ req'[q].id = d
  <2>1. PICK q \in People : req[q].at = "tell" /\ req[q].id = d
    BY <1>2 DEF NoStopForgotten
  <2>2. q # p
    BY <1>2, <2>1
  <2>3. QED
    BY <1>1, <2>1, <2>2
<1>3. QED
  BY <1>2 DEF NoStopForgotten

LEMMA CommitAt ==
  \A p, op : At(p, op) => req[p].at # "tell"
BY DEF At

LEMMA RecordForgetsNone ==
  ASSUME IInv, NoStopForgotten, NEW p \in People, RecordDefect(p) PROVE NoStopForgotten'
<1> DEFINE d == req[p].id
           stop == req[p].flag
           T == [req[p] EXCEPT !.at = "tell"]
<1>1. req[p] \in Requests /\ d \in Defects /\ req[p].at # "tell" /\ req \in [People -> Requests]
      /\ defect \in [Defects -> DefectRows]
  BY Rest DEF RecordDefect, At, IInv, RequestsFit, Fits, RestTyped
<1>2. /\ defect' = [defect EXCEPT ![d] = [status |-> "open", stop |-> stop]]
      /\ UNCHANGED <<told, unheard>>
      /\ IF stop THEN req' = [req EXCEPT ![p] = T] ELSE req' = [req EXCEPT ![p] = Idle]
  BY DEF RecordDefect, Done
<1>3. T.at = "tell" /\ T.id = d
  BY <1>1 DEF Requests
<1>4. \A o \in Defects : defect'[o].stop => (o = d /\ stop) \/ defect[o].stop
  BY <1>1, <1>2
<1> HIDE DEF d, stop, T
<1>5. CASE ~stop
  BY <1>1, <1>2, <1>4, <1>5, NoNewStop
<1>6. CASE stop
  <2>1. req'[p] = T /\ \A q \in People \ {p} : req'[q] = req[q]
    BY <1>1, <1>2, <1>6
  <2>2. ASSUME NEW o \in Defects, defect'[o].stop, o \notin told' \cup unheard'
        PROVE  \E q \in People : req'[q].at = "tell" /\ req'[q].id = o
    <3>1. CASE o = d
      BY <1>3, <2>1, <3>1
    <3>2. CASE o # d
      <4>1. PICK q \in People : req[q].at = "tell" /\ req[q].id = o
        BY <1>2, <1>4, <2>2, <3>2 DEF NoStopForgotten
      <4>2. q # p
        BY <1>1, <4>1
      <4>3. QED
        BY <2>1, <4>1, <4>2
    <3>3. QED
      BY <3>1, <3>2
  <2>3. QED
    BY <2>2 DEF NoStopForgotten
<1>7. QED
  BY <1>5, <1>6

LEMMA CommitForgetsNone ==
  ASSUME IInv, NoStopForgotten, NEW p \in People, Commits(p) PROVE NoStopForgotten'
<1>1. req \in [People -> Requests] /\ defect \in [Defects -> DefectRows]
  BY Rest DEF RestTyped
<1>2. CASE TellStop(p)
  BY <1>2, NoNewStop DEF TellStop, Heard, Done
<1>3. CASE Resolve(p) \/ Touch(p)
  <2>1. \A d \in Defects : defect'[d].stop => defect[d].stop
    BY <1>1, <1>3 DEF Resolve, Touch, DefectRows
  <2>2. req[p].at # "tell" /\ UNCHANGED <<told, unheard>> /\ req' = [req EXCEPT ![p] = Idle]
    BY <1>3, CommitAt DEF Resolve, Touch, Done
  <2>3. QED
    BY <2>1, <2>2, NoNewStop
<1>4. CASE WriteVisit(p) \/ WriteAmendment(p) \/ IdTaken(p) \/ Edit(p) \/ Reschedule(p)
  <2>1. req[p].at # "tell" /\ UNCHANGED <<defect, told, unheard>> /\ req' = [req EXCEPT ![p] = Idle]
    BY <1>4, CommitAt DEF WriteVisit, WriteAmendment, IdTaken, Edit, Reschedule, Done
  <2>2. QED
    BY <2>1, NoNewStop
<1>5. QED
  BY <1>2, <1>3, <1>4, RecordForgetsNone DEF Commits

LEMMA RequestForgetsNone ==
  ASSUME IInv, NoStopForgotten, NEW p \in People, Request(p) PROVE NoStopForgotten'
<1>1. ASSUME NEW r, Begin(p, r) PROVE NoStopForgotten'
  <2>1. PICK J : req' = [req EXCEPT ![p] = J]
    BY <1>1 DEF Begin
  <2>2. req[p].at # "tell" /\ UNCHANGED <<defect, told, unheard>>
    BY <1>1 DEF Begin
  <2>3. QED
    BY <2>1, <2>2, NoNewStop
<1>2. ASSUME NEW every \in Intervals, SetInterval(p, every) PROVE NoStopForgotten'
  BY <1>2 DEF SetInterval, NoStopForgotten
<1>3. QED
  BY <1>1, <1>2 DEF Request, StartRecord, StartUpdate, StartVisit, StartAmend, StartEdit,
                    StartReschedule

LEMMA NoneForgotten == IInv /\ NoStopForgotten /\ [Next]_vars => NoStopForgotten'
<1> SUFFICES ASSUME IInv, NoStopForgotten, [Next]_vars PROVE NoStopForgotten'
  OBVIOUS
<1>1. ASSUME NEW p \in People, Crash(p) PROVE NoStopForgotten'
  BY <1>1, NoNewStop DEF Crash, Done
<1>2. CASE ListLift \/ Recompute \/ UNCHANGED vars
  <2>1. UNCHANGED <<defect, req, told, unheard>>
    BY <1>2 DEF ListLift, Recompute, vars
  <2>2. QED
    BY <2>1 DEF NoStopForgotten
<1>3. QED
  BY <1>1, <1>2, RequestForgetsNone, CommitForgetsNone DEF Next

\* A recorded stop-lift defect is announced, about to be, or lost with its request
\* in a crash: what StopIsTold waits for cannot be lost in any other way.
THEOREM StopIsInHand == Spec => []NoStopForgotten
<1>1. Init => NoStopForgotten
  BY DEF Init, NoStopForgotten, NoDefect
<1>2. QED
  BY <1>1, InitHolds, NextHolds, NoneForgotten, PTL DEF Spec

\* Visits form a line: one that is superseded has its amendment, one only unless two
\* amendments were read together.
THEOREM OneAmendmentEach == Spec => []AmendmentsFormALine
<1>1. IInv => AmendmentsFormALine
  <2> SUFFICES ASSUME IInv, NEW o \in Visits
               PROVE  LET next == {v \in Visits : visit[v].of = o}
                      IN /\ visit[o].superseded <=> next # {}
                         /\ Cardinality(next) > 1 => "amend" \in stale
    BY DEF AmendmentsFormALine
  <2> DEFINE next == {v \in Visits : visit[v].of = o}
  <2>1. visit[o].superseded <=> next # {}
    BY DEF IInv, Lines
  <2>2. ASSUME "amend" \notin stale PROVE ~(Cardinality(next) > 1)
    <3>1. \A v, w \in next : v = w
      BY <2>2 DEF IInv, Lines
    <3> HIDE DEF next
    <3>2. CASE next = {}
      <4>1. Cardinality(next) = 0
        BY <3>2, FS_EmptySet
      <4>2. QED
        BY <4>1
    <3>3. CASE next # {}
      <4>1. PICK v \in next : next = {v}
        BY <3>1, <3>3
      <4>2. Cardinality(next) = 1
        BY <4>1, FS_Singleton
      <4>3. QED
        BY <4>2
    <3>4. QED
      BY <3>2, <3>3
  <2>3. QED
    BY <2>1, <2>2
<1>2. QED
  BY <1>1, InitHolds, NextHolds, PTL DEF Spec
-----------------------------------------------------------------------------
(* The callbacks of the lift *)

CONSTANTS Office, Technicians, NoOne, Watchers, Limit, MaxClock, CallOps
VARIABLES now, row, visits, call, watch, alarms, overtaken, overlap, callsLeft, callFaults

Calls == INSTANCE Callbacks WITH
  MaxOps <- CallOps, req <- call, told <- alarms, stale <- overtaken, left <- callsLeft,
  faults <- callFaults

Alarms == {"at_risk", "breached"}
Awake == {w \in Watchers : watch[w].at # "idle"}

\* While one run of the watch goes on at a time, nobody writes the alarm a run
\* has found missing.
AlarmInv ==
  /\ alarms \in [Alarms -> Nat]
  /\ watch \in [Watchers -> [at : {"idle", "ask", "tell"}, type : Alarms \cup {"ok"}]]
  /\ \A w \in Awake : watch[w].type \in Alarms
  /\ ~overlap =>
       /\ \A v, w \in Awake : v = w
       /\ \A w \in Awake : watch[w].at = "tell" => alarms[watch[w].type] = 0
       /\ \A type \in Alarms : alarms[type] <= 1

LEMMA SlaStates == \A c, at : Calls!SlaState(c, at) \in Alarms \cup {"ok"}
BY DEF Calls!SlaState, Alarms

\* One run of the watch moves on, and tells no alarm.
LEMMA WatchMoves ==
  ASSUME AlarmInv, NEW w \in Watchers,
         NEW J \in [at : {"idle", "ask", "tell"}, type : Alarms \cup {"ok"}],
         watch' = [watch EXCEPT ![w] = J], UNCHANGED alarms,
         J.at # "idle" => J.type \in Alarms,
         J.at = "tell" => alarms[J.type] = 0,
         ~overlap' => ~overlap /\ (J.at # "idle" => \A v \in Awake : v = w)
  PROVE  AlarmInv'
<1>1. \A v \in Watchers : watch'[v] = IF v = w THEN J ELSE watch[v]
  BY DEF AlarmInv
<1>2. Awake' \subseteq Awake \cup {w} /\ (J.at = "idle" => Awake' \subseteq Awake)
  BY <1>1 DEF Awake
<1>3. watch' \in [Watchers -> [at : {"idle", "ask", "tell"}, type : Alarms \cup {"ok"}]]
  BY DEF AlarmInv
<1>4. \A v \in Awake' : watch'[v].type \in Alarms /\ (v # w => v \in Awake)
  BY <1>1 DEF Awake, AlarmInv
<1>5. ASSUME ~overlap'
      PROVE  /\ \A u, v \in Awake' : u = v
             /\ \A v \in Awake' : watch'[v].at = "tell" => alarms'[watch'[v].type] = 0
             /\ \A type \in Alarms : alarms'[type] <= 1
  BY <1>1, <1>2, <1>4, <1>5 DEF AlarmInv
<1>6. QED
  BY <1>3, <1>4, <1>5 DEF AlarmInv

LEMMA AlarmsKept == ASSUME AlarmInv, [Calls!Next]_(Calls!vars) PROVE AlarmInv'
<1>1. CASE UNCHANGED <<watch, alarms, overlap>>
  BY <1>1 DEF AlarmInv, Awake
<1>2. ASSUME NEW w \in Watchers, Calls!Watch(w) PROVE AlarmInv'
  <2> DEFINE J == [at |-> "ask", type |-> Calls!SlaState(row, now)]
  <2>1. J.type \in Alarms /\ J \in [at : {"idle", "ask", "tell"}, type : Alarms \cup {"ok"}]
    BY <1>2, SlaStates DEF Calls!Watch, Alarms
  <2>2. overlap' = (overlap \/ Awake # {})
    BY <1>2 DEF Calls!Watch, Awake
  <2>3. watch' = [watch EXCEPT ![w] = J] /\ UNCHANGED alarms /\ J.at = "ask"
    BY <1>2 DEF Calls!Watch
  <2> HIDE DEF J
  <2>4. QED
    BY <2>1, <2>2, <2>3, WatchMoves
<1>3. ASSUME NEW w \in Watchers, Calls!Ask(w) PROVE AlarmInv'
  <2> DEFINE J == IF Calls!Published(watch[w].type) THEN Calls!Resting
                  ELSE [watch[w] EXCEPT !.at = "tell"]
  <2>1. watch' = [watch EXCEPT ![w] = J] /\ UNCHANGED <<alarms, overlap>> /\ w \in Awake
    BY <1>3 DEF Calls!Ask, Awake, AlarmInv
  <2>2. /\ J \in [at : {"idle", "ask", "tell"}, type : Alarms \cup {"ok"}]
        /\ J.at # "idle" => J.type \in Alarms /\ alarms[J.type] = 0
    BY <2>1 DEF AlarmInv, Calls!Published, Calls!Resting
  <2> HIDE DEF J
  <2>3. QED
    BY <2>1, <2>2, WatchMoves DEF AlarmInv
<1>4. ASSUME NEW w \in Watchers, Calls!Tell(w) PROVE AlarmInv'
  <2>1. /\ w \in Awake /\ watch[w].type \in Alarms /\ UNCHANGED overlap
        /\ alarms' = [alarms EXCEPT ![watch[w].type] = @ + 1]
        /\ watch' = [watch EXCEPT ![w] = Calls!Resting]
    BY <1>4 DEF Calls!Tell, Awake, AlarmInv
  <2>2. /\ \A v \in Watchers : watch'[v] = IF v = w THEN Calls!Resting ELSE watch[v]
        /\ \A type \in Alarms : alarms'[type] =
             IF type = watch[w].type THEN alarms[type] + 1 ELSE alarms[type]
    BY <2>1 DEF AlarmInv
  <2>3. Awake' = Awake \ {w}
    BY <2>2 DEF Awake, Calls!Resting
  <2>4. /\ alarms' \in [Alarms -> Nat]
        /\ watch' \in [Watchers -> [at : {"idle", "ask", "tell"}, type : Alarms \cup {"ok"}]]
    BY <2>1 DEF AlarmInv, Calls!Resting
  <2>5. \A v \in Awake' : watch'[v].type \in Alarms
    BY <2>2, <2>3 DEF AlarmInv, Awake
  <2>6. ASSUME ~overlap' PROVE Awake' = {} /\ \A type \in Alarms : alarms'[type] <= 1
    <3>1. ~overlap /\ watch[w].at = "tell"
      BY <1>4, <2>1, <2>6 DEF Calls!Tell
    <3>2. alarms[watch[w].type] = 0 /\ Awake = {w}
      BY <2>1, <3>1 DEF AlarmInv
    <3>3. QED
      BY <2>2, <2>3, <3>1, <3>2 DEF AlarmInv
  <2>7. QED
    BY <2>4, <2>5, <2>6 DEF AlarmInv
<1>5. CASE Calls!Restart
  <2>1. /\ watch' = [w \in Watchers |-> Calls!Resting] /\ UNCHANGED <<alarms, overlap>>
    BY <1>5 DEF Calls!Restart
  <2>2. Awake' = {}
    BY <2>1 DEF Awake, Calls!Resting
  <2>3. QED
    BY <2>1, <2>2 DEF AlarmInv, Calls!Resting
<1>6. QED
  BY <1>1, <1>2, <1>3, <1>4, <1>5
     DEF Calls!Next, Calls!vars, Calls!Request, Calls!Step, Calls!WatchStep, Calls!Open,
         Calls!Start, Calls!Commit, Calls!RecordVisit, Calls!LinkVisit, Calls!Minute

\* No callback is announced twice as at risk, or as breached, unless two runs of the
\* watch went on at once.
THEOREM OneAlarmEach == Calls!Spec => []Calls!NoAlarmTwice
<1>1. Calls!Init => AlarmInv
  BY DEF Calls!Init, Calls!Resting, AlarmInv, Alarms, Awake
<1>2. AlarmInv => Calls!NoAlarmTwice
  BY DEF AlarmInv, Calls!NoAlarmTwice
<1>3. QED
  BY <1>1, <1>2, AlarmsKept, PTL DEF Calls!Spec

Stages == {"none", "open", "dispatched", "on_site", "released", "restored", "closed"}
Reached == {"on_site", "released", "restored", "closed"}  \* from the arrival on
Moments == {0} \cup Calls!Times
CallRows == [status : Stages, received : Moments, onSite : Moments, closed : Moments,
             assigned : Calls!People \cup {NoOne}, visit : BOOLEAN]
CallRequests == [at : {"idle", "commit", "visit", "link"}, to : Stages, seen : Stages,
                 picksUp : BOOLEAN, time : Moments, user : Calls!People \cup {NoOne}]
Closers == {q \in Calls!People : call[q].at \in {"visit", "link"}}

\* While no request has written over a stage it had not read, the times of the
\* callback follow its stage, and the one request that closed it records its visit.
CallInv ==
  /\ row \in CallRows /\ call \in [Calls!People -> CallRequests] /\ visits \in Nat
  /\ \A q \in Calls!People : call[q].at = "commit" => call[q].to \in Calls!Allowed(call[q].seen)
  /\ ~overtaken =>
       /\ row.onSite # 0 => row.status \in Reached
       /\ row.closed # 0 => row.status = "closed"
       /\ visits <= 1
       /\ row.status # "closed" => visits = 0 /\ Closers = {}
       /\ \A p, q \in Closers : p = q
       /\ \A q \in Closers : call[q].at = "visit" => visits = 0

LEMMA AllowedStages ==
  \A stage \in Stages : /\ Calls!Allowed(stage) \subseteq {"dispatched", "on_site", "released", "restored", "closed"}
                        /\ stage \in {"none", "closed"} => Calls!Allowed(stage) = {}
                        /\ stage \in Reached => Calls!Allowed(stage) \subseteq Reached \ {"on_site"}
BY DEF Stages, Reached, Calls!Allowed

\* A request that is begun, or dropped, beside the callback.
LEMMA CallBegins ==
  ASSUME CallInv, NEW q \in Calls!People, NEW J \in CallRequests, call' = [call EXCEPT ![q] = J],
         UNCHANGED <<row, visits, overtaken>>, J.at \in {"idle", "commit"},
         J.at = "commit" => J.to \in Calls!Allowed(J.seen)
  PROVE  CallInv' /\ Calls!NothingRewritten
<1>1. \A p \in Calls!People : call'[p] = IF p = q THEN J ELSE call[p]
  BY DEF CallInv
<1>2. Closers' \subseteq Closers /\ \A p \in Closers' : call'[p] = call[p]
  BY <1>1 DEF Closers
<1>3. call' \in [Calls!People -> CallRequests]
  BY DEF CallInv
<1>4. \A p \in Calls!People : call'[p].at = "commit" => call'[p].to \in Calls!Allowed(call'[p].seen)
  BY <1>1 DEF CallInv
<1>5. CallInv'
  BY <1>2, <1>3, <1>4 DEF CallInv
<1>6. QED
  BY <1>5 DEF CallInv, Calls!NothingRewritten

LEMMA IdleCall == Calls!Idle \in CallRequests /\ Calls!Idle.at = "idle"
BY DEF Calls!Idle, CallRequests, Stages, Moments

LEMMA OpenHolds ==
  ASSUME CallInv, NEW q \in Calls!People, NEW received \in Calls!Times,
         NEW user \in Technicians \cup {NoOne}, Calls!Open(q, received, user)
  PROVE  CallInv' /\ Calls!NothingRewritten
<1>1. row.status = "none" /\ UNCHANGED <<call, visits, overtaken>>
  BY DEF Calls!Open
<1>2. /\ row' \in CallRows /\ row'.onSite = 0 /\ row'.closed = 0
      /\ row'.status \in {"open", "dispatched"}
  BY DEF Calls!Open, Calls!NoCallback, CallRows, Stages, Moments, Calls!People
<1>3. Closers' = Closers
  BY <1>1 DEF Closers
<1>4. CallInv'
  BY <1>1, <1>2, <1>3 DEF CallInv, Reached
<1>5. ~overtaken => row.onSite = 0 /\ row.closed = 0
  BY <1>1 DEF CallInv, Reached
<1>6. QED
  BY <1>1, <1>4, <1>5 DEF CallInv, Calls!NothingRewritten

LEMMA StartHolds ==
  ASSUME CallInv, NEW q \in Calls!People, NEW to \in Stages, NEW time \in Moments,
         NEW user \in Technicians \cup {NoOne}, Calls!Start(q, to, time, user)
  PROVE  CallInv' /\ Calls!NothingRewritten
<1> DEFINE J == [at |-> "commit", to |-> to, seen |-> row.status,
                 picksUp |-> Calls!PicksUp(q, to), time |-> time, user |-> user]
<1>1. call' = [call EXCEPT ![q] = J] /\ UNCHANGED <<row, visits, overtaken>>
  BY DEF Calls!Start
<1>2. J \in CallRequests /\ J.at = "commit" /\ J.to \in Calls!Allowed(J.seen)
  BY DEF Calls!Start, CallInv, CallRows, CallRequests, Calls!PicksUp, Calls!People
<1> HIDE DEF J
<1>3. QED
  BY <1>1, <1>2, CallBegins

LEMMA CommitHolds ==
  ASSUME CallInv, NEW q \in Calls!People, Calls!Commit(q)
  PROVE  CallInv' /\ Calls!NothingRewritten
<1> DEFINE r == call[q]
           J == IF r.to = "closed" THEN [r EXCEPT !.at = "visit"] ELSE Calls!Idle
<1>1. /\ r.at = "commit" /\ r \in CallRequests /\ r.to \in Calls!Allowed(r.seen)
      /\ call' = [call EXCEPT ![q] = J] /\ UNCHANGED visits
      /\ overtaken' = (overtaken \/ row.status # r.seen)
  BY DEF Calls!Commit, CallInv
<1>2. /\ row' \in CallRows /\ row'.status = r.to
      /\ row'.onSite = IF r.to = "on_site" THEN r.time ELSE row.onSite
      /\ row'.closed = IF r.to = "closed" THEN r.time ELSE row.closed
  BY <1>1 DEF Calls!Commit, Calls!Stamped, CallInv, CallRows, CallRequests
<1>3. J \in CallRequests /\ J.at = (IF r.to = "closed" THEN "visit" ELSE "idle")
  BY <1>1, IdleCall DEF CallRequests
<1>4. \A p \in Calls!People : call'[p] = IF p = q THEN J ELSE call[p]
  BY <1>1 DEF CallInv
<1>5. call' \in [Calls!People -> CallRequests]
  BY <1>1, <1>3 DEF CallInv
<1>6. /\ Closers' = IF r.to = "closed" THEN Closers \cup {q} ELSE Closers
      /\ r.to = "closed" => call'[q].at = "visit"
      /\ \A p \in Closers : call'[p] = call[p]
  BY <1>1, <1>3, <1>4 DEF Closers
<1> HIDE DEF J
<1>7. \A p \in Calls!People : call'[p].at = "commit" => call'[p].to \in Calls!Allowed(call'[p].seen)
  <2> SUFFICES ASSUME NEW p \in Calls!People, call'[p].at = "commit"
               PROVE  call'[p].to \in Calls!Allowed(call'[p].seen)
    OBVIOUS
  <2>1. p # q
    BY <1>3, <1>4
  <2>2. QED
    BY <1>4, <2>1 DEF CallInv
<1>8. ASSUME ~overtaken'
      PROVE  /\ row.closed = 0 /\ row'.status # "none"
             /\ row.onSite # 0 => r.to # "on_site" /\ r.to \in Reached
             /\ visits = 0 /\ Closers = {} /\ ~overtaken
  <2>1. ~overtaken /\ row.status = r.seen /\ r.seen \in Stages
    BY <1>1, <1>8 DEF CallRequests
  <2>2. r.seen \notin {"none", "closed"} /\ r.to # "none"
    BY <1>1, <2>1, AllowedStages
  <2>3. row.closed = 0 /\ visits = 0 /\ Closers = {}
    BY <2>1, <2>2 DEF CallInv
  <2>4. row.onSite # 0 => r.seen \in Reached
    BY <2>1 DEF CallInv
  <2>5. QED
    BY <1>1, <1>2, <2>1, <2>2, <2>3, <2>4, AllowedStages
<1> HIDE DEF r
<1>9. CallInv'
  <2>1. ASSUME ~overtaken'
        PROVE  /\ row'.onSite # 0 => row'.status \in Reached
               /\ row'.closed # 0 => row'.status = "closed"
               /\ visits' <= 1
               /\ row'.status # "closed" => visits' = 0 /\ Closers' = {}
               /\ \A p, o \in Closers' : p = o
               /\ \A p \in Closers' : call'[p].at = "visit" => visits' = 0
    BY <1>1, <1>2, <1>6, <1>8, <2>1 DEF Reached
  <2>2. QED
    BY <1>1, <1>2, <1>5, <1>7, <2>1 DEF CallInv
<1>10. QED
  BY <1>1, <1>2, <1>8, <1>9 DEF Calls!NothingRewritten

\* The closer records the visit, links it, or gives up.
LEMMA CloserHolds ==
  ASSUME CallInv, NEW q \in Calls!People, Calls!RecordVisit(q) \/ Calls!LinkVisit(q)
  PROVE  CallInv' /\ Calls!NothingRewritten
<1>1. PICK J \in {Calls!Idle, [call[q] EXCEPT !.at = "link"]} :
        /\ call' = [call EXCEPT ![q] = J] /\ q \in Closers /\ UNCHANGED overtaken
        /\ row' \in {row, [row EXCEPT !.visit = TRUE]}
        /\ visits' \in {visits, visits + 1} /\ (visits' # visits => call[q].at = "visit")
  BY DEF Calls!RecordVisit, Calls!LinkVisit, Closers
<1>2. J \in CallRequests /\ J.at \in {"idle", "link"}
  BY <1>1, IdleCall DEF CallInv, CallRequests
<1>3. \A p \in Calls!People : call'[p] = IF p = q THEN J ELSE call[p]
  BY <1>1 DEF CallInv
<1>4. /\ row' \in CallRows /\ row'.status = row.status /\ row'.onSite = row.onSite
      /\ row'.closed = row.closed
  BY <1>1 DEF CallInv, CallRows
<1>5. /\ call' \in [Calls!People -> CallRequests]
      /\ \A p \in Calls!People : call'[p].at = "commit" => call'[p].to \in Calls!Allowed(call'[p].seen)
  BY <1>1, <1>2, <1>3 DEF CallInv
<1>6. Closers' \subseteq Closers /\ (q \in Closers' => call'[q].at = "link")
  BY <1>1, <1>2, <1>3 DEF Closers
<1>7. visits' \in Nat
  BY <1>1 DEF CallInv
<1>8. ASSUME ~overtaken
      PROVE  /\ row.status = "closed" /\ visits' <= 1
             /\ \A p, o \in Closers' : p = o
             /\ \A p \in Closers' : call'[p].at # "visit"
  <2>1. Closers = {q} /\ row.status = "closed" /\ (call[q].at = "visit" => visits = 0)
    BY <1>1, <1>8 DEF CallInv
  <2>2. visits' <= 1
    BY <1>1, <1>8, <2>1 DEF CallInv
  <2>3. QED
    BY <1>6, <2>1, <2>2
<1>9. CallInv'
  BY <1>1, <1>4, <1>5, <1>7, <1>8 DEF CallInv
<1>10. QED
  BY <1>1, <1>4, <1>8, <1>9 DEF CallInv, Calls!NothingRewritten

LEMMA CallsKept ==
  ASSUME CallInv, [Calls!Next]_(Calls!vars)
  PROVE  CallInv' /\ [Calls!NothingRewritten]_(Calls!vars)
<1>1. CASE UNCHANGED <<row, visits, call, overtaken>>
  BY <1>1 DEF CallInv, Closers, Calls!NothingRewritten
<1>2. ASSUME NEW q \in Calls!People, Calls!Request(q) PROVE CallInv' /\ Calls!NothingRewritten
  BY <1>2, OpenHolds, StartHolds DEF Calls!Request, Stages, Moments
<1>3. CASE Calls!Restart
  <2>1. UNCHANGED <<row, visits, overtaken>> /\ call' = [q \in Calls!People |-> Calls!Idle]
    BY <1>3 DEF Calls!Restart
  <2>2. Closers' = {}
    BY <2>1, IdleCall DEF Closers
  <2>3. CallInv'
    BY <2>1, <2>2, IdleCall DEF CallInv
  <2>4. QED
    BY <2>1, <2>3 DEF CallInv, Calls!NothingRewritten
<1>4. QED
  BY <1>1, <1>2, <1>3, CommitHolds, CloserHolds
     DEF Calls!Next, Calls!vars, Calls!Step, Calls!WatchStep, Calls!Watch, Calls!Ask, Calls!Tell,
         Calls!Minute

\* An arrival is not replaced, a closed callback stays closed, and it has one visit at
\* most, unless a request wrote over a stage it had not read.
THEOREM ArrivalsStay == Calls!Spec => Calls!WhatHappenedStays
<1>1. Calls!Init => CallInv
  BY IdleCall DEF Calls!Init, Calls!NoCallback, CallInv, CallRows, Stages, Moments, Closers, Reached
<1>2. CallInv /\ [Calls!Next]_(Calls!vars) => CallInv' /\ [Calls!NothingRewritten]_(Calls!vars)
  BY CallsKept
<1>3. QED
  BY <1>1, <1>2, PTL DEF Calls!Spec, Calls!WhatHappenedStays

-----------------------------------------------------------------------------
(* The day plans *)

CONSTANTS Pairs, Refs, OwnerPair, NoPair, Teams, Planners, Phones, Subscribers, PlanOps
VARIABLES plan, due, finished, news, job, planTold, planLeft, planFaults

Plans == INSTANCE DayPlans WITH
  MaxOps <- PlanOps, told <- planTold, left <- planLeft, faults <- planFaults

States == {"planned", "done", "skipped"}
Stops == {Plans!Absent} \cup [state : States, manual : BOOLEAN]
Lists == [Refs -> Stops]
PlanRows == [made : BOOLEAN, published : BOOLEAN, locked : BOOLEAN, stops : Lists]
PlanJobs ==
  [at : {"idle", "sources", "generate", "update", "moveTo", "moveFrom", "publish", "tell",
         "status", "tick"},
   seen : [Pairs -> PlanRows], todo : SUBSET Pairs, share : [Refs -> Pairs \cup {NoPair}],
   plan : Pairs \cup {NoPair}, to : Pairs \cup {NoPair}, refs : SUBSET Refs, state : States]

\* Who sends what, and that the stops a request is about are in its copy.
PlanFits(q, J) ==
  /\ J.at \notin {"idle", "tick"} => q \in Plans!People
  /\ J.at \in {"publish", "tell"} => q \in Planners
  /\ J.at \in {"update", "moveTo", "moveFrom", "status"} => J.plan \in Pairs
  /\ J.at \in {"moveTo", "moveFrom"} => J.to \in Pairs
  /\ J.at \in {"moveTo", "moveFrom", "status"} => \A r \in J.refs : Plans!Has(J.seen[J.plan].stops, r)
  /\ J.at = "tick" => /\ J.state = "done"
                      /\ \A p \in J.todo, r \in J.refs : Plans!Has(J.seen[p].stops, r)

PlanInv ==
  /\ plan \in [Pairs -> PlanRows] /\ due \subseteq Refs
  /\ job \in [Plans!Procs -> PlanJobs]
  /\ \A q \in Plans!Procs : PlanFits(q, job[q])

\* The smallest pair of a list is in it.
LEMMA FirstPair ==
  ASSUME Plans!PlanAssumption, NEW todo \in SUBSET Pairs, todo # {} PROVE Plans!First(todo) \in todo
<1>1. todo \subseteq Nat
  BY DEF Plans!PlanAssumption
<1>2. PICK x \in todo : \A y \in todo : ~ (<<y, x>> \in OpToRel(<, Nat))
  BY <1>1, WFMin, NatLessThanWellFounded
<1>3. \A y \in todo : ~ (y < x)
  BY <1>1, <1>2 DEF OpToRel
<1>4. \A y \in todo : x <= y
  BY <1>1, <1>3
<1>5. QED
  BY <1>4 DEF Plans!First

LEMMA PlanTypes ==
  /\ Plans!NoPlan \in PlanRows
  /\ Plans!Idle \in PlanJobs /\ Plans!Idle.at = "idle" /\ Plans!Idle.todo = {}
  /\ \A manual \in BOOLEAN : Plans!Planned(manual) \in Stops
<1>1. Plans!NoPlan \in PlanRows
  BY DEF Plans!NoPlan, Plans!Empty, PlanRows, Lists, Stops
<1>2. Plans!Idle \in PlanJobs /\ Plans!Idle.at = "idle" /\ Plans!Idle.todo = {}
  BY <1>1 DEF Plans!Idle, PlanJobs, Plans!Nothing, States
<1>3. QED
  BY <1>1, <1>2 DEF Plans!Planned, Stops, States

LEMMA CopyType == ASSUME PlanInv, NEW rows PROVE Plans!Copy(rows) \in [Pairs -> PlanRows]
BY PlanTypes DEF Plans!Copy, PlanInv

\* A request moves on and the plans keep their shape.
LEMMA PlanFrame ==
  ASSUME PlanInv, NEW q \in Plans!Procs, NEW J \in PlanJobs, Plans!Become(q, J), PlanFits(q, J),
         plan' \in [Pairs -> PlanRows], due' = due
  PROVE  PlanInv'
<1>1. \A o \in Plans!Procs : job'[o] = IF o = q THEN J ELSE job[o]
  BY DEF PlanInv, Plans!Become
<1>2. job' \in [Plans!Procs -> PlanJobs]
  BY DEF PlanInv, Plans!Become
<1>3. \A o \in Plans!Procs : PlanFits(o, job'[o])
  BY <1>1 DEF PlanInv
<1>4. QED
  BY <1>2, <1>3 DEF PlanInv, PlanFits

\* ... or it writes its list into one of them: what the list takes back of what a person did,
\* a person has asked for or it was not in the copy.
LEMMA ListWritten ==
  ASSUME PlanInv, NEW q \in Plans!Procs, NEW J \in PlanJobs, Plans!Become(q, J), PlanFits(q, J),
         NEW p \in Pairs, NEW stops \in Lists, J # job[q],
         plan' \in [Pairs -> PlanRows], plan'[p].stops = stops, due' = due,
         \A o \in Pairs : o # p => plan'[o].stops = plan[o].stops,
         \A r \in Refs : Plans!Personal(job[q].seen[p].stops[r]) =>
                           Plans!Personal(stops[r]) \/ Plans!Asked(p, r)
  PROVE  PlanInv' /\ Plans!OnlyUndoneByHand
<1>1. PlanInv'
  BY PlanFrame
<1>2. Plans!Moves(q)
  BY DEF Plans!Moves, Plans!Become, PlanInv
<1>3. ASSUME NEW o \in Pairs, NEW r \in Refs, Plans!Personal(plan[o].stops[r]),
             ~Plans!Personal(plan'[o].stops[r])
      PROVE  Plans!FromOldCopy(o) \/ Plans!Asked(o, r)
  <2>1. o = p
    BY <1>3
  <2>2. CASE job[q].seen[p].stops = plan[p].stops
    BY <1>3, <2>1, <2>2
  <2>3. CASE job[q].seen[p].stops # plan[p].stops
    BY <1>2, <2>1, <2>3 DEF Plans!FromOldCopy
  <2>4. QED
    BY <2>2, <2>3
<1>4. QED
  BY <1>1, <1>3 DEF Plans!OnlyUndoneByHand

LEMMA StopsStay ==
  ASSUME PlanInv, \A o \in Pairs : plan'[o].stops = plan[o].stops PROVE Plans!OnlyUndoneByHand
BY DEF Plans!OnlyUndoneByHand

\* What the planner's and the phones' requests do to the plans.
LEMMA BeginsFits ==
  ASSUME PlanInv, NEW q \in Plans!Procs, NEW J \in PlanJobs, Plans!Become(q, J), PlanFits(q, J),
         UNCHANGED <<plan, due>>
  PROVE  PlanInv' /\ Plans!OnlyUndoneByHand
BY PlanFrame, StopsStay DEF PlanInv

LEMMA GenerateStarts ==
  ASSUME PlanInv, Plans!PlanAssumption, NEW q \in Planners, NEW team \in Teams,
         Plans!StartGenerate(q, team)
  PROVE  PlanInv' /\ Plans!OnlyUndoneByHand
<1> DEFINE J == [Plans!Idle EXCEPT !.at = "sources", !.seen = Plans!Copy(team), !.todo = team]
<1>1. team \subseteq Pairs
  BY DEF Plans!PlanAssumption
<1>2. J \in PlanJobs /\ J.at = "sources"
  BY <1>1, PlanTypes, CopyType DEF PlanJobs
<1>3. Plans!Become(q, J) /\ UNCHANGED <<plan, due>>
  BY DEF Plans!StartGenerate, Plans!Begin, Plans!world
<1> HIDE DEF J
<1>4. q \in Plans!Procs /\ PlanFits(q, J)
  BY <1>2 DEF PlanFits, Plans!Procs, Plans!People
<1>5. QED
  BY <1>2, <1>3, <1>4, BeginsFits

LEMMA SourcesLoaded ==
  ASSUME PlanInv, Plans!PlanAssumption, NEW q \in Plans!Procs, Plans!LoadSources(q)
  PROVE  PlanInv' /\ Plans!OnlyUndoneByHand
<1> DEFINE team == job[q].todo
<1>1. job[q] \in PlanJobs /\ PlanFits(q, job[q]) /\ job[q].at = "sources"
  BY DEF PlanInv, Plans!LoadSources
<1>2. PICK share \in Plans!Shares(due, team) :
        Plans!Become(q, [job[q] EXCEPT !.at = "generate", !.share = share])
  BY DEF Plans!LoadSources
<1>3. team \subseteq Pairs
  BY <1>1 DEF PlanJobs
<1> HIDE DEF team
<1>4. share \in [Refs -> Pairs \cup {NoPair}]
  <2> DEFINE rest == {r \in due : OwnerPair[r] \notin team}
  <2>1. PICK f \in [rest -> team] :
          share = [r \in Refs |-> IF r \in rest THEN f[r] ELSE IF r \in due THEN OwnerPair[r]
                                  ELSE NoPair]
    BY <1>2 DEF Plans!Shares
  <2>2. OwnerPair \in [Refs -> Pairs \cup {NoPair}]
    BY DEF Plans!PlanAssumption
  <2> HIDE DEF rest
  <2>3. QED
    BY <1>3, <2>1, <2>2
<1> DEFINE J == [job[q] EXCEPT !.at = "generate", !.share = share]
<1>5. J \in PlanJobs /\ J.at = "generate"
  BY <1>1, <1>4 DEF PlanJobs
<1>6. UNCHANGED <<plan, due>>
  BY DEF Plans!LoadSources, Plans!world
<1>7. PlanFits(q, J)
  BY <1>1, <1>5 DEF PlanFits
<1> HIDE DEF J
<1>8. QED
  BY <1>2, <1>5, <1>6, <1>7, BeginsFits DEF J

\* The next pair of a list.
LEMMA AfterFits ==
  ASSUME PlanInv, Plans!PlanAssumption, NEW q \in Plans!Procs, job[q].todo # {}
  PROVE  /\ Plans!After(q) \in PlanJobs /\ Plans!After(q) # job[q]
         /\ Plans!After(q).at = job[q].at /\ Plans!After(q).seen = job[q].seen
         /\ Plans!After(q).todo = job[q].todo \ {Plans!First(job[q].todo)}
         /\ PlanFits(q, Plans!After(q)) /\ Plans!First(job[q].todo) \in Pairs
<1>1. job[q] \in PlanJobs /\ PlanFits(q, job[q])
  BY DEF PlanInv
<1>2. Plans!First(job[q].todo) \in job[q].todo
  BY <1>1, FirstPair DEF PlanJobs
<1> DEFINE J == Plans!After(q)
<1>3. /\ J \in PlanJobs /\ J.at = job[q].at /\ J.seen = job[q].seen /\ J.plan = job[q].plan
      /\ J.to = job[q].to /\ J.refs = job[q].refs /\ J.state = job[q].state
      /\ J.todo = job[q].todo \ {Plans!First(job[q].todo)}
  BY <1>1 DEF Plans!After, PlanJobs
<1> HIDE DEF J
<1>4. PlanFits(q, J)
  BY <1>1, <1>3 DEF PlanFits
<1>5. J # job[q] /\ Plans!First(job[q].todo) \in Pairs
  BY <1>1, <1>2, <1>3 DEF PlanJobs
<1>6. QED
  BY <1>3, <1>4, <1>5 DEF J

\* A regeneration keeps what a person did.
LEMMA MergeKeeps ==
  ASSUME NEW stops \in Lists, NEW mine
  PROVE  /\ Plans!Merge(stops, mine) \in Lists
         /\ \A r \in Refs : Plans!Personal(stops[r]) => Plans!Merge(stops, mine)[r] = stops[r]
<1>1. Plans!Planned(FALSE) \in Stops /\ Plans!Absent \in Stops
  BY PlanTypes DEF Stops
<1>2. \A r \in Refs : stops[r] \in Stops
  BY DEF Lists
<1>3. \A s \in Stops : Plans!Personal(s) => Plans!IsKept(s)
  BY DEF Plans!Personal, Plans!IsKept, Stops, States, Plans!Absent
<1>4. \A r \in Refs : Plans!Merge(stops, mine)[r] =
        IF Plans!IsKept(stops[r]) THEN stops[r]
        ELSE IF r \in mine THEN Plans!Planned(FALSE) ELSE Plans!Absent
  BY DEF Plans!Merge
<1>5. Plans!Merge(stops, mine) \in Lists
  BY <1>1, <1>2 DEF Plans!Merge, Lists
<1>6. QED
  BY <1>2, <1>3, <1>4, <1>5

LEMMA PairGenerated ==
  ASSUME PlanInv, Plans!PlanAssumption, NEW q \in Plans!Procs, Plans!GeneratePair(q)
  PROVE  PlanInv' /\ Plans!OnlyUndoneByHand
<1> DEFINE p == Plans!First(job[q].todo)
           old == job[q].seen[p]
           stops == Plans!Merge(old.stops, Plans!ShareOf(q, p))
<1>1. job[q].todo # {} /\ due' = due
  BY DEF Plans!GeneratePair, Plans!world
<1>2. /\ Plans!After(q) \in PlanJobs /\ PlanFits(q, Plans!After(q)) /\ p \in Pairs
      /\ Plans!After(q) # job[q]
  BY <1>1, AfterFits
<1>3. Plans!Idle \in PlanJobs /\ PlanFits(q, Plans!Idle)
  BY PlanTypes DEF PlanFits
<1>4. CASE Plans!Become(q, Plans!After(q)) /\ UNCHANGED plan
  BY <1>1, <1>2, <1>4, BeginsFits
<1>5. CASE Plans!Become(q, Plans!Idle) /\ UNCHANGED plan
  BY <1>1, <1>3, <1>5, BeginsFits
<1>6. CASE /\ plan' = [plan EXCEPT ![p].made = TRUE, ![p].stops = stops]
           /\ Plans!Become(q, Plans!After(q))
  <2>1. old.stops \in Lists
    <3>1. job[q].seen \in [Pairs -> PlanRows]
      BY DEF PlanInv, PlanJobs
    <3>2. old \in PlanRows
      BY <1>2, <3>1
    <3>3. QED
      BY <3>2 DEF PlanRows
  <2>2. stops \in Lists /\ \A r \in Refs : Plans!Personal(old.stops[r]) => stops[r] = old.stops[r]
    BY <2>1, MergeKeeps
  <2>3. plan[p] \in PlanRows
    BY <1>2 DEF PlanInv
  <2> HIDE DEF stops, p, old
  <2>4. plan' = [plan EXCEPT ![p] = [plan[p] EXCEPT !.made = TRUE, !.stops = stops]]
    BY <1>6
  <2>5. [plan[p] EXCEPT !.made = TRUE, !.stops = stops] \in PlanRows
    BY <2>2, <2>3 DEF PlanRows
  <2>6. /\ plan' \in [Pairs -> PlanRows] /\ plan'[p].stops = stops
        /\ \A o \in Pairs : o # p => plan'[o].stops = plan[o].stops
    BY <1>2, <2>3, <2>4, <2>5 DEF PlanInv, PlanRows
  <2>7. QED
    BY <1>1, <1>2, <1>6, <2>2, <2>6, ListWritten DEF old
<1>7. QED
  BY <1>4, <1>5, <1>6 DEF Plans!GeneratePair

LEMMA RowOfCopy ==
  ASSUME PlanInv, NEW q \in Plans!Procs, NEW p \in Pairs
  PROVE  /\ job[q].seen[p].stops \in Lists /\ plan[p].stops \in Lists
         /\ \A r \in Refs : job[q].seen[p].stops[r] \in Stops /\ plan[p].stops[r] \in Stops
<1>1. job[q].seen[p] \in PlanRows /\ plan[p] \in PlanRows
  BY DEF PlanInv, PlanJobs
<1>2. QED
  BY <1>1 DEF PlanRows, Lists

\* A list is written into one plan, which keeps everything else.
LEMMA StopsWritten ==
  ASSUME PlanInv, NEW p \in Pairs, NEW stops \in Lists, Plans!WriteStops(p, stops)
  PROVE  /\ plan' \in [Pairs -> PlanRows] /\ plan'[p].stops = stops
         /\ \A o \in Pairs : o # p => plan'[o].stops = plan[o].stops
         /\ \A o \in Pairs : plan'[o].published = plan[o].published
<1>1. plan' = [plan EXCEPT ![p] = [plan[p] EXCEPT !.stops = stops]] /\ plan[p] \in PlanRows
  BY DEF Plans!WriteStops, PlanInv
<1>2. [plan[p] EXCEPT !.stops = stops] \in PlanRows
  BY <1>1 DEF PlanRows
<1>3. QED
  BY <1>1, <1>2 DEF PlanInv, PlanRows

LEMMA Shown == \A s \in Stops : /\ s.state # "absent" => s \in [state : States, manual : BOOLEAN]
                                /\ Plans!Personal(s) => s.state # "absent"
BY DEF Stops, States, Plans!Absent, Plans!Personal

LEMMA BoardOpens ==
  ASSUME PlanInv, NEW q \in Planners, NEW p \in Pairs, NEW body \in Plans!Edits(p),
         Plans!OpenBoard(q, p, body)
  PROVE  PlanInv' /\ Plans!OnlyUndoneByHand
<1> DEFINE J == [Plans!Idle EXCEPT !.at = "update", !.seen = Plans!Copy({p}), !.plan = p, !.refs = body]
<1>1. body \subseteq Refs
  <2>1. Plans!Listed(plan[p].stops) \subseteq Refs /\ due \subseteq Refs
    BY DEF Plans!Listed, PlanInv
  <2>2. QED
    BY <2>1 DEF Plans!Edits
<1>2. J \in PlanJobs /\ J.at = "update" /\ J.plan = p
  BY <1>1, PlanTypes, CopyType DEF PlanJobs
<1>3. Plans!Become(q, J) /\ UNCHANGED <<plan, due>>
  BY DEF Plans!OpenBoard, Plans!Begin, Plans!world
<1> HIDE DEF J
<1>4. q \in Plans!Procs /\ PlanFits(q, J)
  BY <1>2 DEF PlanFits, Plans!Procs, Plans!People
<1>5. QED
  BY <1>2, <1>3, <1>4, BeginsFits

LEMMA BoardSaved ==
  ASSUME PlanInv, NEW q \in Plans!Procs, Plans!Update(q)
  PROVE  PlanInv' /\ Plans!OnlyUndoneByHand
<1> DEFINE p == job[q].plan
           shown == job[q].seen[p].stops
           stops == [r \in Refs |->
                       IF r \notin job[q].refs THEN Plans!Absent
                       ELSE IF ~Plans!Has(shown, r) THEN Plans!Planned(TRUE)
                       ELSE IF Plans!Has(plan[p].stops, r) THEN shown[r]
                       ELSE [shown[r] EXCEPT !.manual = TRUE]]
<1>1. /\ job[q].at = "update" /\ Plans!WriteStops(p, stops) /\ Plans!Become(q, Plans!Idle)
      /\ due' = due
  BY DEF Plans!Update, Plans!world
<1>2. q \in Plans!People /\ p \in Pairs
  BY <1>1 DEF PlanInv, PlanFits
<1>3. \A r \in Refs : shown[r] \in Stops
  BY <1>2, RowOfCopy
<1> HIDE DEF shown
<1>4. stops \in Lists
  <2>1. \A r \in Refs : Plans!Has(shown, r) => [shown[r] EXCEPT !.manual = TRUE] \in Stops
    BY <1>3, Shown DEF Plans!Has, Stops
  <2>2. Plans!Planned(TRUE) \in Stops /\ Plans!Absent \in Stops
    BY PlanTypes DEF Stops
  <2>3. QED
    BY <1>3, <2>1, <2>2 DEF Lists
<1>5. ASSUME NEW r \in Refs, Plans!Personal(shown[r]) 
      PROVE  Plans!Personal(stops[r]) \/ Plans!Asked(p, r)
  <2>1. CASE r \notin job[q].refs
    <3>1. Plans!Moves(q)
      BY <1>1, PlanTypes DEF Plans!Moves, Plans!Become, PlanInv
    <3>2. QED
      BY <1>1, <1>2, <2>1, <3>1 DEF Plans!Asked
  <2>2. CASE r \in job[q].refs
    <3>1. Plans!Has(shown, r) /\ shown[r] \in [state : States, manual : BOOLEAN]
      BY <1>3, <1>5, Shown DEF Plans!Has
    <3>2. stops[r] \in {shown[r], [shown[r] EXCEPT !.manual = TRUE]}
      BY <2>2, <3>1
    <3>3. QED
      BY <1>5, <3>1, <3>2 DEF Plans!Personal
  <2>3. QED
    BY <2>1, <2>2
<1> HIDE DEF stops, p
<1>6. Plans!Idle \in PlanJobs /\ PlanFits(q, Plans!Idle) /\ Plans!Idle # job[q]
  BY <1>1, PlanTypes DEF PlanFits
<1>7. QED
  BY <1>1, <1>2, <1>4, <1>5, <1>6, StopsWritten, ListWritten DEF shown

\* A stop of a copy put on another list.
LEMMA MoveStarts ==
  ASSUME PlanInv, NEW q \in Planners, NEW p \in Pairs, NEW to \in Pairs, NEW r \in Refs,
         Plans!StartMove(q, p, to, r)
  PROVE  PlanInv' /\ Plans!OnlyUndoneByHand
<1> DEFINE J == [Plans!Idle EXCEPT !.at = "moveTo", !.seen = Plans!Copy({p, to}), !.plan = p,
                                   !.to = to, !.refs = {r}]
<1>1. /\ J \in PlanJobs /\ J.at = "moveTo" /\ J.plan = p /\ J.to = to /\ J.refs = {r}
      /\ J.seen = Plans!Copy({p, to})
  BY PlanTypes, CopyType DEF PlanJobs
<1>2. Plans!Become(q, J) /\ UNCHANGED <<plan, due>> /\ Plans!Has(plan[p].stops, r)
  BY DEF Plans!StartMove, Plans!Begin, Plans!world
<1> HIDE DEF J
<1>3. J.seen[p] = plan[p]
  BY <1>1 DEF Plans!Copy
<1>4. q \in Plans!Procs /\ PlanFits(q, J)
  BY <1>1, <1>2, <1>3 DEF PlanFits, Plans!Procs, Plans!People
<1>5. QED
  BY <1>1, <1>2, <1>4, BeginsFits

\* A list that differs from the copy in the stops of the request only.
LEMMA MoveWritten ==
  ASSUME PlanInv, NEW q \in Plans!Procs, NEW J \in PlanJobs, Plans!Become(q, J), PlanFits(q, J),
         J # job[q], NEW p \in {job[q].plan, job[q].to}, NEW stops \in Lists,
         Plans!WriteStops(p, stops), due' = due, job[q].at \in {"moveTo", "moveFrom"},
         \A r \in Refs \ job[q].refs : stops[r] = job[q].seen[p].stops[r]
  PROVE  PlanInv' /\ Plans!OnlyUndoneByHand
<1>1. p \in Pairs /\ q \in Plans!People
  BY DEF PlanInv, PlanFits
<1>2. Plans!Moves(q)
  BY DEF Plans!Moves, Plans!Become, PlanInv
<1>3. \A r \in Refs : r \in job[q].refs => Plans!Asked(p, r)
  BY <1>1, <1>2 DEF Plans!Asked
<1>4. \A r \in Refs : Plans!Personal(job[q].seen[p].stops[r]) =>
                        Plans!Personal(stops[r]) \/ Plans!Asked(p, r)
  BY <1>3
<1>5. QED
  BY <1>1, <1>4, StopsWritten, ListWritten

LEMMA MovedTo ==
  ASSUME PlanInv, NEW q \in Plans!Procs, Plans!MoveTo(q) PROVE PlanInv' /\ Plans!OnlyUndoneByHand
<1> DEFINE j == job[q]
           J == IF j.to = j.plan THEN Plans!Idle ELSE [j EXCEPT !.at = "moveFrom"]
<1>1. /\ j.at = "moveTo" /\ Plans!WriteStops(j.to, Plans!MovedIn(j)) /\ Plans!Become(q, J)
      /\ due' = due
  BY DEF Plans!MoveTo, Plans!world
<1>2. j \in PlanJobs /\ PlanFits(q, j)
  BY DEF PlanInv
<1>3. /\ J \in PlanJobs /\ J.at \in {"idle", "moveFrom"} /\ J # j
      /\ J.at = "moveFrom" => J.plan = j.plan /\ J.to = j.to /\ J.refs = j.refs /\ J.seen = j.seen
  BY <1>1, <1>2, PlanTypes DEF PlanJobs
<1>4. PlanFits(q, J)
  BY <1>1, <1>2, <1>3 DEF PlanFits
<1>5. j.plan \in Pairs /\ j.to \in Pairs
  BY <1>1, <1>2 DEF PlanFits
<1>6. \A r \in Refs : /\ j.seen[j.plan].stops[r] \in Stops /\ j.seen[j.to].stops[r] \in Stops
                      /\ r \in j.refs => j.seen[j.plan].stops[r] \in [state : States, manual : BOOLEAN]
  BY <1>1, <1>2, <1>5, RowOfCopy, Shown DEF PlanFits, Plans!Has
<1> HIDE DEF J, j
<1>7. /\ Plans!MovedIn(j) \in Lists
      /\ \A r \in Refs \ j.refs : Plans!MovedIn(j)[r] = j.seen[j.to].stops[r]
  <2>1. \A r \in Refs : r \in j.refs => [j.seen[j.plan].stops[r] EXCEPT !.manual = TRUE] \in Stops
    BY <1>6 DEF Stops
  <2>2. QED
    BY <1>6, <2>1 DEF Plans!MovedIn, Lists
<1>8. QED
  BY <1>1, <1>3, <1>4, <1>7, MoveWritten DEF j

LEMMA MovedFrom ==
  ASSUME PlanInv, NEW q \in Plans!Procs, Plans!MoveFrom(q) PROVE PlanInv' /\ Plans!OnlyUndoneByHand
<1> DEFINE j == job[q]
<1>1. /\ j.at = "moveFrom" /\ Plans!WriteStops(j.plan, Plans!MovedOut(j))
      /\ Plans!Become(q, Plans!Idle) /\ due' = due
  BY DEF Plans!MoveFrom, Plans!world
<1>2. j.plan \in Pairs
  BY <1>1 DEF PlanInv, PlanFits
<1>3. \A r \in Refs : j.seen[j.plan].stops[r] \in Stops
  BY <1>2, RowOfCopy
<1>4. Plans!Idle \in PlanJobs /\ PlanFits(q, Plans!Idle) /\ Plans!Idle # j
  BY <1>1, PlanTypes DEF PlanFits
<1> HIDE DEF j
<1>5. /\ Plans!MovedOut(j) \in Lists
      /\ \A r \in Refs \ j.refs : Plans!MovedOut(j)[r] = j.seen[j.plan].stops[r]
  BY <1>3 DEF Plans!MovedOut, Lists, Stops
<1>6. QED
  BY <1>1, <1>4, <1>5, MoveWritten DEF j

\* A plan is locked or published; its stops stay.
LEMMA FlagWritten ==
  ASSUME PlanInv, NEW q \in Plans!Procs, NEW J \in PlanJobs, Plans!Become(q, J), PlanFits(q, J),
         plan' \in [Pairs -> PlanRows], \A o \in Pairs : plan'[o].stops = plan[o].stops, due' = due
  PROVE  PlanInv' /\ Plans!OnlyUndoneByHand
BY PlanFrame, StopsStay

LEMMA LockSet ==
  ASSUME PlanInv, NEW q \in Planners, NEW p \in Pairs, Plans!SetLocked(q, p)
  PROVE  /\ PlanInv' /\ Plans!OnlyUndoneByHand
         /\ \A o \in Pairs : plan'[o].published = plan[o].published
<1>1. /\ plan' = [plan EXCEPT ![p] = [plan[p] EXCEPT !.locked = ~plan[p].locked]]
      /\ Plans!Become(q, Plans!Idle) /\ due' = due
  BY DEF Plans!SetLocked, Plans!Begin, Plans!world
<1>2. plan[p] \in PlanRows
  BY DEF PlanInv
<1>3. [plan[p] EXCEPT !.locked = ~plan[p].locked] \in PlanRows
  BY <1>2 DEF PlanRows
<1>4. /\ plan' \in [Pairs -> PlanRows]
      /\ \A o \in Pairs : plan'[o].stops = plan[o].stops /\ plan'[o].published = plan[o].published
  BY <1>1, <1>2, <1>3 DEF PlanInv, PlanRows
<1>5. q \in Plans!Procs /\ Plans!Idle \in PlanJobs /\ PlanFits(q, Plans!Idle)
  BY PlanTypes DEF PlanFits, Plans!Procs, Plans!People
<1>6. QED
  BY <1>1, <1>4, <1>5, FlagWritten

LEMMA PublishStarts ==
  ASSUME PlanInv, NEW q \in Planners, Plans!StartPublish(q)
  PROVE  PlanInv' /\ Plans!OnlyUndoneByHand
<1> DEFINE J == [Plans!Idle EXCEPT !.at = "publish", !.todo = Plans!Drafts]
<1>1. J \in PlanJobs /\ J.at = "publish"
  BY PlanTypes DEF PlanJobs, Plans!Drafts, Plans!Made
<1>2. Plans!Become(q, J) /\ UNCHANGED <<plan, due>>
  BY DEF Plans!StartPublish, Plans!Begin, Plans!world
<1> HIDE DEF J
<1>3. q \in Plans!Procs /\ PlanFits(q, J)
  BY <1>1 DEF PlanFits, Plans!Procs, Plans!People
<1>4. QED
  BY <1>1, <1>2, <1>3, BeginsFits

LEMMA PlanPublished ==
  ASSUME PlanInv, Plans!PlanAssumption, NEW q \in Plans!Procs, Plans!PublishPlan(q)
  PROVE  PlanInv' /\ Plans!OnlyUndoneByHand
<1> DEFINE p == Plans!First(job[q].todo)
           J == [job[q] EXCEPT !.at = "tell"]
<1>1. /\ plan' = [plan EXCEPT ![p] = [plan[p] EXCEPT !.published = TRUE]]
      /\ Plans!Become(q, J) /\ due' = due /\ job[q].at = "publish" /\ job[q].todo # {}
  BY DEF Plans!PublishPlan, Plans!world
<1>2. job[q] \in PlanJobs /\ PlanFits(q, job[q]) /\ p \in Pairs
  BY <1>1, AfterFits DEF PlanInv
<1>3. J \in PlanJobs /\ J.at = "tell" /\ PlanFits(q, J)
  BY <1>1, <1>2 DEF PlanJobs, PlanFits
<1> HIDE DEF p, J
<1>4. plan[p] \in PlanRows
  BY <1>2 DEF PlanInv
<1>5. [plan[p] EXCEPT !.published = TRUE] \in PlanRows
  BY <1>4 DEF PlanRows
<1>6. plan' \in [Pairs -> PlanRows] /\ \A o \in Pairs : plan'[o].stops = plan[o].stops
  BY <1>1, <1>4, <1>5 DEF PlanInv, PlanRows
<1>7. QED
  BY <1>1, <1>3, <1>6, FlagWritten

LEMMA PlanTold ==
  ASSUME PlanInv, NEW q \in Plans!Procs, Plans!Tell(q) PROVE PlanInv' /\ Plans!OnlyUndoneByHand
<1> DEFINE J == [Plans!After(q) EXCEPT !.at = "publish"]
<1>1. Plans!Become(q, J) /\ UNCHANGED <<plan, due>> /\ job[q].at = "tell"
  BY DEF Plans!Tell, Plans!world
<1>2. job[q] \in PlanJobs /\ PlanFits(q, job[q])
  BY DEF PlanInv
<1>3. J \in PlanJobs /\ J.at = "publish"
  BY <1>2 DEF PlanJobs, Plans!After
<1> HIDE DEF J
<1>4. PlanFits(q, J)
  BY <1>1, <1>2, <1>3 DEF PlanFits
<1>5. QED
  BY <1>1, <1>3, <1>4, BeginsFits

\* Reports: a stop of the copy is marked.
LEMMA MarkedType ==
  ASSUME PlanInv, NEW q \in Plans!Procs, NEW p \in Pairs,
         \A r \in job[q].refs : Plans!Has(job[q].seen[p].stops, r)
  PROVE  /\ Plans!Marked(job[q], p) \in Lists
         /\ \A r \in Refs \ job[q].refs : Plans!Marked(job[q], p)[r] = job[q].seen[p].stops[r]
         /\ \A r \in Refs \cap job[q].refs : Plans!Marked(job[q], p)[r].state = job[q].state
<1>1. \A r \in Refs : /\ job[q].seen[p].stops[r] \in Stops
                      /\ r \in job[q].refs => job[q].seen[p].stops[r] \in [state : States, manual : BOOLEAN]
  BY RowOfCopy, Shown DEF Plans!Has
<1>2. job[q].state \in States
  BY DEF PlanInv, PlanJobs
<1>3. \A r \in Refs : r \in job[q].refs =>
        /\ [job[q].seen[p].stops[r] EXCEPT !.state = job[q].state] \in Stops
        /\ [job[q].seen[p].stops[r] EXCEPT !.state = job[q].state].state = job[q].state
  BY <1>1, <1>2 DEF Stops
<1>4. QED
  BY <1>1, <1>3 DEF Plans!Marked, Lists

LEMMA ReportStarts ==
  ASSUME PlanInv, NEW q \in Plans!People, NEW p \in Pairs, NEW r \in Refs, NEW state \in States,
         Plans!StartStatus(q, p, r, state)
  PROVE  PlanInv' /\ Plans!OnlyUndoneByHand
<1> DEFINE J == [Plans!Idle EXCEPT !.at = "status", !.seen = Plans!Copy({p}), !.plan = p,
                                   !.refs = {r}, !.state = state]
<1>1. /\ J \in PlanJobs /\ J.at = "status" /\ J.plan = p /\ J.refs = {r}
      /\ J.seen = Plans!Copy({p})
  BY PlanTypes, CopyType DEF PlanJobs
<1>2. Plans!Become(q, J) /\ UNCHANGED <<plan, due>> /\ Plans!Has(plan[p].stops, r)
  BY DEF Plans!StartStatus, Plans!Begin, Plans!world
<1> HIDE DEF J
<1>3. J.seen[p] = plan[p]
  BY <1>1 DEF Plans!Copy
<1>4. q \in Plans!Procs /\ PlanFits(q, J)
  BY <1>1, <1>2, <1>3 DEF PlanFits, Plans!Procs
<1>5. QED
  BY <1>1, <1>2, <1>4, BeginsFits

LEMMA Reported ==
  ASSUME PlanInv, NEW q \in Plans!Procs, Plans!Report(q) PROVE PlanInv' /\ Plans!OnlyUndoneByHand
<1> DEFINE p == job[q].plan
           stops == Plans!Marked(job[q], p)
<1>1. /\ job[q].at = "status" /\ Plans!WriteStops(p, stops) /\ Plans!Become(q, Plans!Idle)
      /\ due' = due
  BY DEF Plans!Report, Plans!world
<1>2. q \in Plans!People /\ p \in Pairs /\ \A r \in job[q].refs : Plans!Has(job[q].seen[p].stops, r)
  BY <1>1 DEF PlanInv, PlanFits
<1>3. Plans!Idle \in PlanJobs /\ PlanFits(q, Plans!Idle) /\ Plans!Idle # job[q]
  BY <1>1, PlanTypes DEF PlanFits
<1>4. Plans!Moves(q)
  BY <1>1, <1>3 DEF Plans!Moves, Plans!Become, PlanInv
<1>5. stops \in Lists /\ \A r \in Refs \ job[q].refs : stops[r] = job[q].seen[p].stops[r]
  BY <1>2, MarkedType
<1> HIDE DEF stops
<1>6. \A r \in Refs : r \in job[q].refs => Plans!Asked(p, r)
  BY <1>1, <1>2, <1>4 DEF Plans!Asked
<1>7. \A r \in Refs : Plans!Personal(job[q].seen[p].stops[r]) =>
                        Plans!Personal(stops[r]) \/ Plans!Asked(p, r)
  BY <1>5, <1>6
<1> HIDE DEF p
<1>8. QED
  BY <1>1, <1>2, <1>3, <1>5, <1>7, StopsWritten, ListWritten

LEMMA TickStarts ==
  ASSUME PlanInv, NEW q \in Subscribers, NEW r \in Refs, Plans!StartTick(q, r)
  PROVE  PlanInv' /\ Plans!OnlyUndoneByHand
<1> DEFINE J == [Plans!Idle EXCEPT !.at = "tick", !.seen = Plans!Copy(Plans!ToTick(r)),
                                   !.todo = Plans!ToTick(r), !.refs = {r}, !.state = "done"]
<1>1. Plans!ToTick(r) \subseteq Pairs
  BY DEF Plans!ToTick
<1>2. /\ J \in PlanJobs /\ J.at = "tick" /\ J.refs = {r} /\ J.state = "done"
      /\ J.todo = Plans!ToTick(r) /\ J.seen = Plans!Copy(Plans!ToTick(r))
  BY <1>1, PlanTypes, CopyType DEF PlanJobs, States
<1>3. Plans!Become(q, J) /\ UNCHANGED <<plan, due>>
  BY DEF Plans!StartTick, Plans!world
<1> HIDE DEF J
<1>4. \A p \in J.todo : Plans!Has(J.seen[p].stops, r)
  BY <1>2 DEF Plans!ToTick, Plans!Waiting, Plans!Copy, Plans!Has
<1>5. q \in Plans!Procs /\ PlanFits(q, J)
  BY <1>2, <1>4 DEF PlanFits, Plans!Procs
<1>6. QED
  BY <1>2, <1>3, <1>5, BeginsFits

LEMMA Ticked ==
  ASSUME PlanInv, Plans!PlanAssumption, NEW q \in Plans!Procs, Plans!Tick(q)
  PROVE  PlanInv' /\ Plans!OnlyUndoneByHand
<1> DEFINE p == Plans!First(job[q].todo)
           stops == Plans!Marked(job[q], p)
<1>1. /\ job[q].at = "tick" /\ job[q].todo # {} /\ Plans!WriteStops(p, stops)
      /\ Plans!Become(q, Plans!After(q)) /\ due' = due
  BY DEF Plans!Tick, Plans!world
<1>2. job[q] \in PlanJobs /\ PlanFits(q, job[q])
  BY DEF PlanInv
<1>3. p \in job[q].todo /\ p \in Pairs
  BY <1>1, <1>2, FirstPair DEF PlanJobs
<1>4. job[q].state = "done" /\ \A r \in job[q].refs : Plans!Has(job[q].seen[p].stops, r)
  BY <1>1, <1>2, <1>3 DEF PlanFits
<1>5. /\ stops \in Lists /\ \A r \in Refs \ job[q].refs : stops[r] = job[q].seen[p].stops[r]
      /\ \A r \in Refs \cap job[q].refs : stops[r].state = "done"
  BY <1>3, <1>4, MarkedType
<1> HIDE DEF stops, p
<1>6. \A r \in Refs : Plans!Personal(job[q].seen[p].stops[r]) =>
                        Plans!Personal(stops[r]) \/ Plans!Asked(p, r)
  <2> SUFFICES ASSUME NEW r \in Refs, Plans!Personal(job[q].seen[p].stops[r])
               PROVE  Plans!Personal(stops[r])
    OBVIOUS
  <2>1. CASE r \in job[q].refs
    BY <1>5, <2>1 DEF Plans!Personal
  <2>2. CASE r \notin job[q].refs
    BY <1>5, <2>2
  <2>3. QED
    BY <2>1, <2>2
<1>7. Plans!After(q) \in PlanJobs /\ PlanFits(q, Plans!After(q)) /\ Plans!After(q) # job[q]
  BY <1>1, AfterFits
<1>8. QED
  BY <1>1, <1>3, <1>5, <1>6, <1>7, StopsWritten, ListWritten

LEMMA RequestEnds ==
  ASSUME PlanInv, NEW q \in Plans!Procs, Plans!Finished(q) \/ Plans!TickEnd(q)
  PROVE  PlanInv' /\ Plans!OnlyUndoneByHand
<1>1. Plans!Become(q, Plans!Idle) /\ UNCHANGED <<plan, due>>
  BY DEF Plans!Finished, Plans!TickEnd, Plans!world
<1>2. Plans!Idle \in PlanJobs /\ PlanFits(q, Plans!Idle)
  BY PlanTypes DEF PlanFits
<1>3. QED
  BY <1>1, <1>2, BeginsFits

LEMMA WorldHolds ==
  ASSUME PlanInv, (\E r \in Refs : Plans!Arise(r) \/ Plans!Finish(r)) \/ Plans!Restart
  PROVE  PlanInv' /\ Plans!OnlyUndoneByHand
<1>1. plan' = plan /\ due' \subseteq Refs
  BY DEF Plans!Arise, Plans!Finish, Plans!Restart, Plans!world, PlanInv
<1>2. job' = job \/ job' = [q \in Plans!Procs |-> Plans!Idle]
  BY DEF Plans!Arise, Plans!Finish, Plans!Restart
<1>3. \A q : PlanFits(q, Plans!Idle)
  BY PlanTypes DEF PlanFits
<1>4. PlanInv'
  BY <1>1, <1>2, <1>3, PlanTypes DEF PlanInv, PlanFits
<1>5. QED
  BY <1>1, <1>4, StopsStay

LEMMA PlansKept ==
  ASSUME Plans!PlanAssumption, PlanInv, [Plans!Next]_(Plans!vars)
  PROVE  PlanInv' /\ [Plans!OnlyUndoneByHand]_(Plans!vars)
<1>1. CASE UNCHANGED Plans!vars
  BY <1>1 DEF Plans!vars, PlanInv, PlanFits
<1>2. ASSUME NEW q \in Planners, Plans!Office(q) PROVE PlanInv' /\ Plans!OnlyUndoneByHand
  BY <1>2, GenerateStarts, PublishStarts, LockSet, BoardOpens, MoveStarts DEF Plans!Office
<1>3. ASSUME NEW q \in Plans!Procs, Plans!Step(q) PROVE PlanInv' /\ Plans!OnlyUndoneByHand
  BY <1>3, SourcesLoaded, PairGenerated, RequestEnds, BoardSaved, MovedTo, MovedFrom,
     PlanPublished, PlanTold, Reported, Ticked DEF Plans!Step
<1>4. QED
  BY <1>1, <1>2, <1>3, ReportStarts, TickStarts, WorldHolds DEF Plans!Next, States

LEMMA PlansBegin == ASSUME Plans!Init PROVE PlanInv
<1>1. plan \in [Pairs -> PlanRows] /\ due \subseteq Refs
  BY PlanTypes DEF Plans!Init
<1>2. job = [q \in Plans!Procs |-> Plans!Idle] /\ \A q : PlanFits(q, Plans!Idle)
  BY PlanTypes DEF Plans!Init, PlanFits
<1>3. QED
  BY <1>1, <1>2, PlanTypes DEF PlanInv

\* What a person did about a stop is only undone by a person, or by a list written back
\* from a copy that was no longer the row's: for any pairs, stops and people.
THEOREM WorkStays == ASSUME Plans!PlanAssumption PROVE Plans!Spec => Plans!WorkIsKept
<1>1. PlanInv /\ [Plans!Next]_(Plans!vars) => PlanInv' /\ [Plans!OnlyUndoneByHand]_(Plans!vars)
  BY PlansKept
<1>2. QED
  BY <1>1, PlansBegin, PTL DEF Plans!Spec, Plans!WorkIsKept

OnePlanner == \A p, q \in Planners : p = q

\* The one who publishes has published what he is about to announce, and nothing
\* else on his list; every other published plan has been announced once.
Telling(p) == \E q \in Planners : job[q].at = "tell" /\ p = Plans!First(job[q].todo)
Publishes(J) ==
  /\ J.at = "publish" => \A p \in J.todo : ~plan[p].published
  /\ J.at = "tell" => /\ J.todo # {}
                      /\ \A p \in J.todo : plan[p].published <=> p = Plans!First(J.todo)
ToldInv ==
  /\ planFaults \in 0..MaxFaults
  /\ planTold \in [Pairs -> Nat]
  /\ planFaults = MaxFaults =>
       /\ \A q \in Planners : Publishes(job[q])
       /\ \A p \in Pairs : planTold[p] = IF plan[p].published /\ ~Telling(p) THEN 1 ELSE 0

\* A step that publishes and announces nothing.
LEMMA ToldFrame ==
  ASSUME PlanInv, ToldInv, NEW q \in Plans!Procs, NEW J, Plans!Become(q, J),
         J.at \notin {"publish", "tell"} \/ J = job[q],
         job[q].at # "tell" \/ J = job[q],
         \A p \in Pairs : plan'[p].published = plan[p].published,
         UNCHANGED <<planTold, planFaults>>
  PROVE  ToldInv'
<1>1. \A o \in Plans!Procs : job'[o] = IF o = q THEN J ELSE job[o]
  BY DEF PlanInv, Plans!Become
<1>2. \A o \in Planners : o \in Plans!Procs /\ job[o].todo \subseteq Pairs
  BY DEF PlanInv, PlanJobs, Plans!Procs, Plans!People
<1>3. \A p : Telling(p)' <=> Telling(p)
  BY <1>1, <1>2 DEF Telling
<1>4. ASSUME NEW o \in Planners, Publishes(job[o]) PROVE Publishes(job[o])'
  BY <1>1, <1>2, <1>4 DEF Publishes
<1>5. QED
  BY <1>3, <1>4 DEF ToldInv

LEMMA ToldStarts ==
  ASSUME PlanInv, ToldInv, OnePlanner, NEW q \in Planners, Plans!StartPublish(q)
  PROVE  ToldInv'
<1> DEFINE J == [Plans!Idle EXCEPT !.at = "publish", !.todo = Plans!Drafts]
<1>1. J.at = "publish" /\ J.todo = Plans!Drafts
  BY DEF Plans!Idle
<1>2. Plans!Become(q, J) /\ UNCHANGED <<plan, planTold, planFaults>> /\ job[q].at = "idle"
  BY DEF Plans!StartPublish, Plans!Begin
<1> HIDE DEF J
<1>3. q \in Plans!Procs /\ job'[q] = J /\ \A o \in Planners : o = q
  BY <1>2 DEF Plans!Become, PlanInv, Plans!Procs, Plans!People, OnePlanner
<1>4. \A p \in J.todo : ~plan'[p].published
  BY <1>1, <1>2 DEF Plans!Drafts
<1>5. \A p : ~Telling(p) /\ ~Telling(p)'
  BY <1>1, <1>2, <1>3 DEF Telling
<1>6. \A o \in Planners : Publishes(job[o])'
  BY <1>1, <1>3, <1>4 DEF Publishes
<1>7. QED
  BY <1>2, <1>5, <1>6 DEF ToldInv

LEMMA ToldPublishes ==
  ASSUME PlanInv, ToldInv, OnePlanner, Plans!PlanAssumption, NEW q \in Plans!Procs,
         Plans!PublishPlan(q)
  PROVE  ToldInv'
<1> DEFINE first == Plans!First(job[q].todo)
           J == [job[q] EXCEPT !.at = "tell"]
<1>1. /\ job[q].at = "publish" /\ job[q].todo # {} /\ Plans!Become(q, J)
      /\ plan' = [plan EXCEPT ![first] = [plan[first] EXCEPT !.published = TRUE]]
      /\ UNCHANGED <<planTold, planFaults>>
  BY DEF Plans!PublishPlan
<1>2. q \in Planners /\ job[q] \in PlanJobs /\ \A o \in Planners : o = q
  BY <1>1 DEF PlanInv, PlanFits, OnePlanner
<1>3. J.at = "tell" /\ J.todo = job[q].todo /\ job[q].todo \subseteq Pairs
  BY <1>2 DEF PlanJobs
<1>4. job'[q] = J
  BY <1>1 DEF Plans!Become, PlanInv
<1>5. first \in job[q].todo
  BY <1>1, <1>3, FirstPair
<1> HIDE DEF J, first
<1>6. \A p \in Pairs : plan'[p].published = IF p = first THEN TRUE ELSE plan[p].published
  <2>1. plan \in [Pairs -> PlanRows] /\ first \in Pairs /\ plan[first] \in PlanRows
    BY <1>3, <1>5 DEF PlanInv
  <2>2. [plan[first] EXCEPT !.published = TRUE].published = TRUE
    BY <2>1 DEF PlanRows
  <2>3. QED
    BY <1>1, <2>1, <2>2
<1>7. \A p : ~Telling(p) /\ (Telling(p)' <=> p = first)
  BY <1>1, <1>2, <1>3, <1>4 DEF Telling, first
<1>8. ASSUME planFaults = MaxFaults
      PROVE  /\ \A p \in job[q].todo : ~plan[p].published
             /\ \A p \in Pairs : planTold[p] = IF plan[p].published THEN 1 ELSE 0
  BY <1>1, <1>2, <1>7, <1>8 DEF ToldInv, Publishes
<1>9. planFaults = MaxFaults => \A o \in Planners : Publishes(job[o])'
  BY <1>1, <1>2, <1>3, <1>4, <1>6, <1>8 DEF Publishes, first
<1>10. planFaults = MaxFaults =>
         \A p \in Pairs : planTold[p] = IF plan'[p].published /\ ~Telling(p)' THEN 1 ELSE 0
  BY <1>3, <1>5, <1>6, <1>7, <1>8
<1>11. QED
  BY <1>1, <1>9, <1>10 DEF ToldInv

LEMMA ToldTells ==
  ASSUME PlanInv, ToldInv, OnePlanner, Plans!PlanAssumption, NEW q \in Plans!Procs, Plans!Tell(q)
  PROVE  ToldInv'
<1> DEFINE first == Plans!First(job[q].todo)
           J == [Plans!After(q) EXCEPT !.at = "publish"]
<1>1. /\ job[q].at = "tell" /\ Plans!Become(q, J) /\ UNCHANGED <<plan, planFaults>>
      /\ planTold' = [planTold EXCEPT ![first] = @ + 1]
  BY DEF Plans!Tell
<1>2. q \in Planners /\ job[q] \in PlanJobs /\ \A o \in Planners : o = q
  BY <1>1 DEF PlanInv, PlanFits, OnePlanner
<1>3. J.at = "publish" /\ J.todo = job[q].todo \ {first} /\ job[q].todo \subseteq Pairs
  BY <1>2 DEF PlanJobs, Plans!After
<1>4. job'[q] = J
  BY <1>1 DEF Plans!Become, PlanInv
<1>5. job[q].todo # {} => first \in job[q].todo
  BY <1>3, FirstPair
<1> HIDE DEF J, first
<1>6. planTold' \in [Pairs -> Nat]
  <2>1. planTold \in [Pairs -> Nat]
    BY DEF ToldInv
  <2>2. CASE first \in Pairs
    BY <1>1, <2>1, <2>2
  <2>3. CASE first \notin Pairs
    <3>1. planTold' = planTold
      BY <1>1, <2>1, <2>3
    <3>2. QED
      BY <2>1, <3>1
  <2>4. QED
    BY <2>2, <2>3
<1>7. \A p : ~Telling(p)' /\ (Telling(p) <=> p = first)
  BY <1>1, <1>2, <1>3, <1>4 DEF Telling, first
<1>8. ASSUME planFaults = MaxFaults
      PROVE  /\ first \in job[q].todo
             /\ \A p \in job[q].todo : plan[p].published <=> p = first
             /\ \A p \in Pairs : planTold[p] = IF plan[p].published /\ p # first THEN 1 ELSE 0
  BY <1>1, <1>2, <1>5, <1>7, <1>8 DEF ToldInv, Publishes, first
<1>9. planFaults = MaxFaults => \A o \in Planners : Publishes(job[o])'
  BY <1>1, <1>2, <1>3, <1>4, <1>8 DEF Publishes
<1>10. ASSUME planFaults = MaxFaults, NEW p \in Pairs
       PROVE  planTold'[p] = IF plan'[p].published /\ ~Telling(p)' THEN 1 ELSE 0
  <2>1. planTold'[p] = IF p = first THEN planTold[p] + 1 ELSE planTold[p]
    BY <1>1 DEF ToldInv
  <2>2. QED
    BY <1>1, <1>3, <1>7, <1>8, <1>10, <2>1
<1>11. QED
  BY <1>1, <1>6, <1>9, <1>10 DEF ToldInv

LEMMA PublishedStays ==
  ASSUME PlanInv, NEW p, NEW stops, NEW made,
         \/ Plans!WriteStops(p, stops)
         \/ plan' = [plan EXCEPT ![p].made = made, ![p].stops = stops]
         \/ plan' = plan
  PROVE  \A o \in Pairs : plan'[o].published = plan[o].published
<1> SUFFICES ASSUME NEW o \in Pairs PROVE plan'[o].published = plan[o].published
  OBVIOUS
<1>1. plan \in [Pairs -> PlanRows] /\ plan[o] \in PlanRows
  BY DEF PlanInv
<1>2. /\ [plan[o] EXCEPT !.stops = stops].published = plan[o].published
      /\ [plan[o] EXCEPT !.made = made, !.stops = stops].published = plan[o].published
  BY <1>1 DEF PlanRows
<1>3. CASE plan' = [plan EXCEPT ![p] = [plan[p] EXCEPT !.stops = stops]]
  BY <1>1, <1>2, <1>3
<1>4. CASE plan' = [plan EXCEPT ![p] = [plan[p] EXCEPT !.made = made, !.stops = stops]]
  BY <1>1, <1>2, <1>4
<1>5. QED
  BY <1>3, <1>4 DEF Plans!WriteStops

\* The steps of the other requests.
LEMMA ToldBeside ==
  ASSUME PlanInv, NEW q \in Plans!Procs, Plans!Step(q), ~Plans!PublishPlan(q), ~Plans!Tell(q)
  PROVE  /\ job[q].at # "tell" /\ UNCHANGED <<planTold, planFaults>>
         /\ \E J : Plans!Become(q, J) /\ J.at \notin {"publish", "tell"}
         /\ \A p \in Pairs : plan'[p].published = plan[p].published
<1>1. job[q] \in PlanJobs
  BY DEF PlanInv
<1>2. /\ Plans!Idle.at = "idle" /\ Plans!After(q).at = job[q].at
      /\ [job[q] EXCEPT !.at = "moveFrom"].at = "moveFrom"
      /\ \A share : [job[q] EXCEPT !.at = "generate", !.share = share].at = "generate"
  BY <1>1, PlanTypes DEF PlanJobs, Plans!After
<1>3. CASE Plans!LoadSources(q)
  BY <1>2, <1>3 DEF Plans!LoadSources
<1>4. CASE Plans!GeneratePair(q)
  <2>1. /\ job[q].at = "generate" /\ UNCHANGED <<planTold, planFaults>>
        /\ Plans!Become(q, Plans!After(q)) \/ Plans!Become(q, Plans!Idle)
    BY <1>4 DEF Plans!GeneratePair
  <2>2. \A p \in Pairs : plan'[p].published = plan[p].published
    BY <1>4, PublishedStays DEF Plans!GeneratePair
  <2>3. QED
    BY <1>2, <2>1, <2>2
<1>5. CASE Plans!Finished(q) \/ Plans!TickEnd(q)
  BY <1>2, <1>5 DEF Plans!Finished, Plans!TickEnd
<1>6. CASE Plans!Update(q) \/ Plans!MoveFrom(q) \/ Plans!Report(q)
  <2>1. /\ job[q].at # "tell" /\ UNCHANGED <<planTold, planFaults>> /\ Plans!Become(q, Plans!Idle)
    BY <1>6 DEF Plans!Update, Plans!MoveFrom, Plans!Report
  <2>2. \A p \in Pairs : plan'[p].published = plan[p].published
    BY <1>6, PublishedStays DEF Plans!Update, Plans!MoveFrom, Plans!Report
  <2>3. QED
    BY <1>2, <2>1, <2>2
<1>7. CASE Plans!MoveTo(q)
  BY <1>2, <1>7, PublishedStays DEF Plans!MoveTo
<1>8. CASE Plans!Tick(q)
  BY <1>2, <1>8, PublishedStays DEF Plans!Tick
<1>9. QED
  BY <1>3, <1>4, <1>5, <1>6, <1>7, <1>8 DEF Plans!Step

\* The planner's other requests, and everybody's beginnings.
LEMMA ToldBegins ==
  ASSUME PlanInv, ToldInv, NEW q \in Plans!Procs, NEW J, Plans!Become(q, J), job[q].at = "idle",
         J.at \notin {"publish", "tell"}, UNCHANGED <<planTold, planFaults>>,
         \A p \in Pairs : plan'[p].published = plan[p].published
  PROVE  ToldInv'
BY ToldFrame

LEMMA BeginsBeside ==
  ASSUME NEW q,
         \/ \E team : Plans!StartGenerate(q, team)
         \/ \E p, body : Plans!OpenBoard(q, p, body)
         \/ \E p, to, r : Plans!StartMove(q, p, to, r)
         \/ \E p, r, state : Plans!StartStatus(q, p, r, state)
         \/ \E r : Plans!StartTick(q, r)
  PROVE  /\ job[q].at = "idle" /\ UNCHANGED <<plan, planTold, planFaults>>
         /\ \E J : Plans!Become(q, J) /\ J.at \notin {"publish", "tell"}
<1>1. ASSUME NEW team, Plans!StartGenerate(q, team)
      PROVE  \E J : Plans!Become(q, J) /\ J.at \notin {"publish", "tell"}
  <2> DEFINE J == [Plans!Idle EXCEPT !.at = "sources", !.seen = Plans!Copy(team), !.todo = team]
  <2>1. J.at = "sources"
    BY DEF Plans!Idle
  <2>2. Plans!Become(q, J)
    BY <1>1 DEF Plans!StartGenerate, Plans!Begin
  <2> HIDE DEF J
  <2>3. QED
    BY <2>1, <2>2
<1>2. ASSUME NEW p, NEW body, Plans!OpenBoard(q, p, body)
      PROVE  \E J : Plans!Become(q, J) /\ J.at \notin {"publish", "tell"}
  <2> DEFINE J == [Plans!Idle EXCEPT !.at = "update", !.seen = Plans!Copy({p}), !.plan = p, !.refs = body]
  <2>1. J.at = "update"
    BY DEF Plans!Idle
  <2>2. Plans!Become(q, J)
    BY <1>2 DEF Plans!OpenBoard, Plans!Begin
  <2> HIDE DEF J
  <2>3. QED
    BY <2>1, <2>2
<1>3. ASSUME NEW p, NEW to, NEW r, Plans!StartMove(q, p, to, r)
      PROVE  \E J : Plans!Become(q, J) /\ J.at \notin {"publish", "tell"}
  <2> DEFINE J == [Plans!Idle EXCEPT !.at = "moveTo", !.seen = Plans!Copy({p, to}), !.plan = p,
                                     !.to = to, !.refs = {r}]
  <2>1. J.at = "moveTo"
    BY DEF Plans!Idle
  <2>2. Plans!Become(q, J)
    BY <1>3 DEF Plans!StartMove, Plans!Begin
  <2> HIDE DEF J
  <2>3. QED
    BY <2>1, <2>2
<1>4. ASSUME NEW p, NEW r, NEW state, Plans!StartStatus(q, p, r, state)
      PROVE  \E J : Plans!Become(q, J) /\ J.at \notin {"publish", "tell"}
  <2> DEFINE J == [Plans!Idle EXCEPT !.at = "status", !.seen = Plans!Copy({p}), !.plan = p,
                                     !.refs = {r}, !.state = state]
  <2>1. J.at = "status"
    BY DEF Plans!Idle
  <2>2. Plans!Become(q, J)
    BY <1>4 DEF Plans!StartStatus, Plans!Begin
  <2> HIDE DEF J
  <2>3. QED
    BY <2>1, <2>2
<1>5. ASSUME NEW r, Plans!StartTick(q, r)
      PROVE  \E J : Plans!Become(q, J) /\ J.at \notin {"publish", "tell"}
  <2> DEFINE J == [Plans!Idle EXCEPT !.at = "tick", !.seen = Plans!Copy(Plans!ToTick(r)),
                                     !.todo = Plans!ToTick(r), !.refs = {r}, !.state = "done"]
  <2>1. J.at = "tick"
    BY DEF Plans!Idle
  <2>2. Plans!Become(q, J)
    BY <1>5 DEF Plans!StartTick
  <2> HIDE DEF J
  <2>3. QED
    BY <2>1, <2>2
<1>6. job[q].at = "idle" /\ UNCHANGED <<plan, planTold, planFaults>>
  BY DEF Plans!StartGenerate, Plans!OpenBoard, Plans!StartMove, Plans!StartStatus, Plans!StartTick,
         Plans!Begin
<1>7. QED
  BY <1>1, <1>2, <1>3, <1>4, <1>5, <1>6

LEMMA ToldKept ==
  ASSUME Plans!PlanAssumption, OnePlanner, PlanInv, ToldInv, [Plans!Next]_(Plans!vars)
  PROVE  ToldInv'
<1>1. CASE UNCHANGED <<plan, job, planTold, planFaults>>
  BY <1>1 DEF ToldInv, Telling, Publishes
<1>2. ASSUME NEW q \in Planners, Plans!Office(q) PROVE ToldInv'
  <2>1. q \in Plans!Procs
    BY DEF Plans!Procs, Plans!People
  <2>2. CASE Plans!StartPublish(q)
    BY <2>2, ToldStarts
  <2>3. CASE \E p \in Pairs : Plans!SetLocked(q, p)
    <3>1. PICK p \in Pairs : Plans!SetLocked(q, p)
      BY <2>3
    <3>2. /\ Plans!Become(q, Plans!Idle) /\ job[q].at = "idle"
          /\ UNCHANGED <<planTold, planFaults>>
      BY <3>1 DEF Plans!SetLocked, Plans!Begin
    <3>3. QED
      BY <2>1, <3>1, <3>2, LockSet, ToldBegins, PlanTypes
  <2>4. CASE \/ \E team \in Teams : Plans!StartGenerate(q, team)
             \/ \E p \in Pairs : \E body \in Plans!Edits(p) : Plans!OpenBoard(q, p, body)
             \/ \E p, to \in Pairs, r \in Refs : Plans!StartMove(q, p, to, r)
    BY <2>1, <2>4, BeginsBeside, ToldBegins
  <2>5. QED
    BY <1>2, <2>2, <2>3, <2>4 DEF Plans!Office
<1>3. ASSUME NEW q \in Plans!Procs, Plans!Step(q) PROVE ToldInv'
  <2>1. CASE Plans!PublishPlan(q) \/ Plans!Tell(q)
    BY <2>1, ToldPublishes, ToldTells
  <2>2. CASE ~Plans!PublishPlan(q) /\ ~Plans!Tell(q)
    BY <1>3, <2>2, ToldBeside, ToldFrame
  <2>3. QED
    BY <2>1, <2>2
<1>4. ASSUME NEW q \in Plans!Procs,
             \/ \E p, r, state : Plans!StartStatus(q, p, r, state)
             \/ \E r : Plans!StartTick(q, r)
      PROVE  ToldInv'
  BY <1>4, BeginsBeside, ToldBegins
<1>5. CASE Plans!Restart
  <2>1. planFaults > 0 /\ planFaults' = planFaults - 1 /\ UNCHANGED planTold
    BY <1>5 DEF Plans!Restart
  <2>2. MaxFaults \in Nat /\ planFaults \in 0..MaxFaults
    BY DEF ToldInv, Plans!PlanAssumption
  <2>3. planFaults' \in 0..MaxFaults /\ planFaults' # MaxFaults
    BY <2>1, <2>2
  <2>4. QED
    BY <2>1, <2>3 DEF ToldInv
<1>6. ASSUME NEW r \in Refs, Plans!Arise(r) \/ Plans!Finish(r) PROVE ToldInv'
  BY <1>1, <1>6 DEF Plans!Arise, Plans!Finish
<1>7. CASE UNCHANGED Plans!vars
  BY <1>1, <1>7 DEF Plans!vars
<1>8. QED
  BY <1>2, <1>3, <1>4, <1>5, <1>6, <1>7 DEF Plans!Next, Plans!Procs

\* With one planner, and until the server stops, a published plan that is not being
\* published has been announced, and no plan is announced twice.
THEOREM PublishedOnceTold ==
  ASSUME Plans!PlanAssumption, OnePlanner PROVE Plans!Spec => []Plans!PublishedIsTold
<1>1. Plans!Init => ToldInv
  <2> SUFFICES ASSUME Plans!Init PROVE ToldInv
    OBVIOUS
  <2>1. /\ planTold = [p \in Pairs |-> 0] /\ planFaults = MaxFaults /\ MaxFaults \in Nat
        /\ \A p \in Pairs : ~plan[p].published
    BY DEF Plans!Init, Plans!NoPlan, Plans!PlanAssumption
  <2>2. \A q \in Planners : job[q].at = "idle"
    BY PlanTypes DEF Plans!Init, Plans!Procs, Plans!People
  <2>3. \A q \in Planners : Publishes(job[q])
    BY <2>2 DEF Publishes
  <2>4. QED
    BY <2>1, <2>3 DEF ToldInv
<1>2. ToldInv => Plans!PublishedIsTold
  <2> SUFFICES ASSUME ToldInv, planFaults = MaxFaults, NEW p \in Pairs
               PROVE  /\ planTold[p] <= 1
                      /\ plan[p].published /\ (\A q \in Planners : job[q].at # "tell") => planTold[p] = 1
    BY DEF Plans!PublishedIsTold
  <2>1. planTold[p] = IF plan[p].published /\ ~Telling(p) THEN 1 ELSE 0
    BY DEF ToldInv
  <2>2. (\A q \in Planners : job[q].at # "tell") => ~Telling(p)
    BY DEF Telling
  <2>3. QED
    BY <2>1, <2>2
<1>3. PlanInv /\ ToldInv /\ [Plans!Next]_(Plans!vars) => PlanInv' /\ ToldInv'
  BY PlansKept, ToldKept
<1>4. QED
  BY <1>1, <1>2, <1>3, PlansBegin, PTL DEF Plans!Spec
=============================================================================
