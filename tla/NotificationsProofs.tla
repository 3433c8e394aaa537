---------------------------- MODULE NotificationsProofs ----------------------------
(***************************************************************************)
(* Proofs about Notifications, for any number of events, users, rules,     *)
(* runs, mailers and faults: an address gets one row per event unless two  *)
(* runs of the event overlapped, nobody is forgotten unless a rule failed, *)
(* what the log calls sent was accepted by the adapter, and what the queue *)
(* takes for running is in a mailer's hands.                               *)
(***************************************************************************)
EXTENDS Notifications, FiniteSetTheorems, TLAPS

\* The address has a row for the event.
Seen(rows, e, a) == \E n \in Runs : rows[<<e, a, n>>].status # "none"
RowsStay(old, new) == \A x \in Rows : old[x].status # "none" => new[x].status # "none"

\* The users of the staff rules still on the list of a call, or with a row.
Reached(c, rows, failed) ==
  \A r \in StaffRules : <<c.event, r>> \notin failed =>
    \A u \in Staff[r] : <<r, <<Channel[r], u>>>> \in c.todo \/ Seen(rows, c.event, <<Channel[r], u>>)

Fits(c, rows, failed) ==
  c.at # "idle" =>
    /\ c.event \in Events
    /\ Reached(c, rows, failed)
    /\ c.at \in {"write", "enqueue"} => c.rule \in Rules /\ c.row \in Rows /\ c.row[1] = c.event
    /\ c.at = "enqueue" => rows[c.row].status # "none" /\ IsMailed(c.row[2])
CallsFit == \A n \in Runs : Fits(call[n], row, broken)

\* A job, and a mailer, is about a row that is mailed.
MailFits(m, rows, taken) ==
  m.at # "idle" => /\ m.row \in Rows /\ IsMailed(m.row[2]) /\ rows[m.row].status # "none"
                   /\ m.at = "accepted" => m.row \in taken
JobsFit(jobs) == \A x \in Rows : jobs[x].state # "none" => IsMailed(x[2])
MailersFit == (\A w \in Mailers : MailFits(mailer[w], row, accepted)) /\ JobsFit(job)

\* An event whose runs never overlapped has one call and one row per address,
\* and a call about to write one finds none.
Alone(calls, rows, both) ==
  \A e \in Events \ both :
    /\ \A m, n \in Runs : /\ calls[m].at # "idle" /\ calls[m].event = e
                          /\ calls[n].at # "idle" /\ calls[n].event = e
                          => m = n
    /\ \A n \in Runs : calls[n].at = "write" /\ calls[n].event = e => ~Seen(rows, e, calls[n].row[2])
    /\ \A a \in Addresses, m, n \in Runs :
         rows[<<e, a, m>>].status # "none" /\ rows[<<e, a, n>>].status # "none" => m = n

IInv == /\ TypeOK /\ CallsFit /\ MailersFit /\ Alone(call, row, twice)
        /\ SentWasAccepted /\ EveryoneHasARow

RowTypes == [status : {"none", "queued", "sent", "failed", "skipped"}, attempts : Nat]

-----------------------------------------------------------------------------
LEMMA NamesAre ==
  /\ \A e \in Events, a \in Addresses, n \in Runs : <<e, a, n>> \in Rows
  /\ \A x \in Rows : x[1] \in Events /\ x[2] \in Addresses /\ x[3] \in Runs /\ x = <<x[1], x[2], x[3]>>
BY DEF Rows

LEMMA StaffAreAddressed ==
  \A r \in StaffRules : \A u \in Staff[r] : <<Channel[r], u>> \in Addresses
BY NotificationsAssumption DEF Addresses

LEMMA StartTypes == NoCall \in Calls /\ NoMail \in Mails /\ NoJob \in JobRows /\ NoRow \in RowTypes
<1>1. 0 \in 0..RetryLimit /\ 0 \in Nat
  BY NotificationsAssumption
<1>2. QED
  BY <1>1 DEF NoCall, Calls, NoMail, Mails, NoJob, JobRows, NoRow, RowTypes

LEMMA InitHolds == Init => IInv
<1> SUFFICES ASSUME Init PROVE IInv
  OBVIOUS
<1>1. /\ \A n \in Runs : call[n] = NoCall
      /\ \A x \in Rows : row[x] = NoRow /\ job[x] = NoJob
      /\ \A w \in Mailers : mailer[w] = NoMail
      /\ \A e \in Events : delivery[e] = "due"
  BY DEF Init
<1>2. faults \in 0..MaxFaults
  BY NotificationsAssumption DEF Init
<1>3. TypeOK
  BY <1>2, StartTypes DEF Init, TypeOK, RowTypes
<1>4. CallsFit
  BY <1>1 DEF CallsFit, Fits, NoCall
<1>5. MailersFit
  BY <1>1 DEF MailersFit, MailFits, JobsFit, NoMail, NoJob
<1>6. Alone(call, row, twice)
  <2>1. \A n \in Runs : call[n].at = "idle"
    BY <1>1 DEF NoCall
  <2>2. \A e \in Events, a \in Addresses, n \in Runs : row[<<e, a, n>>].status = "none"
    <3> TAKE e \in Events, a \in Addresses, n \in Runs
    <3>1. <<e, a, n>> \in Rows
      BY NamesAre
    <3>2. row[<<e, a, n>>] = NoRow
      BY <1>1, <3>1
    <3>3. QED
      BY <3>2 DEF NoRow
  <2>3. QED
    BY <2>1, <2>2 DEF Alone
<1>7. SentWasAccepted /\ EveryoneHasARow
  BY <1>1 DEF SentWasAccepted, EveryoneHasARow, NoRow
<1>8. QED
  BY <1>3, <1>4, <1>5, <1>6, <1>7 DEF IInv

LEMMA SeenStays ==
  ASSUME NEW old, NEW new, RowsStay(old, new), NEW e \in Events, NEW a \in Addresses, Seen(old, e, a)
  PROVE  Seen(new, e, a)
<1>1. PICK n \in Runs : old[<<e, a, n>>].status # "none"
  BY DEF Seen
<1>2. <<e, a, n>> \in Rows
  BY NamesAre
<1>3. QED
  BY <1>1, <1>2 DEF Seen, RowsStay

LEMMA FitsLater ==
  ASSUME NEW c, NEW old, NEW new, NEW f, NEW g, Fits(c, old, f), RowsStay(old, new), f \subseteq g
  PROVE  Fits(c, new, g)
<1> SUFFICES ASSUME c.at # "idle"
             PROVE  /\ c.event \in Events
                    /\ Reached(c, new, g)
                    /\ c.at \in {"write", "enqueue"} => c.rule \in Rules /\ c.row \in Rows /\ c.row[1] = c.event
                    /\ c.at = "enqueue" => new[c.row].status # "none" /\ IsMailed(c.row[2])
  BY DEF Fits
<1>1. c.event \in Events /\ Reached(c, old, f)
      /\ (c.at \in {"write", "enqueue"} => c.rule \in Rules /\ c.row \in Rows /\ c.row[1] = c.event)
      /\ (c.at = "enqueue" => old[c.row].status # "none" /\ IsMailed(c.row[2]))
  BY DEF Fits
<1>2. Reached(c, new, g)
  BY <1>1, SeenStays, StaffAreAddressed DEF Reached
<1>3. QED
  BY <1>1, <1>2 DEF RowsStay

LEMMA EveryoneStays ==
  ASSUME IInv, RowsStay(row, row'), broken \subseteq broken', delivery' = delivery
  PROVE  EveryoneHasARow'
<1> SUFFICES ASSUME NEW e \in Events, NEW r \in StaffRules, delivery'[e] = "done", <<e, r>> \notin broken',
                    NEW u \in Staff[r]
             PROVE  \E n \in Runs : row'[<<e, <<Channel[r], u>>, n>>].status # "none"
  BY DEF EveryoneHasARow
<1>1. Seen(row, e, <<Channel[r], u>>)
  BY DEF IInv, EveryoneHasARow, Seen
<1>2. Seen(row', e, <<Channel[r], u>>)
  BY <1>1, SeenStays, StaffAreAddressed
<1>3. QED
  BY <1>2 DEF Seen

\* A step of one call that leaves the mails alone.
LEMMA CallStep ==
  ASSUME IInv, NEW n \in Runs, NEW C \in Calls, Becomes(n, C), UNCHANGED <<mailer, accepted>>,
         job' \in [Rows -> JobRows], JobsFit(job'),
         delivery' \in [Events -> {"due", "done"}], card' = card,
         row' \in [Rows -> RowTypes], RowsStay(row, row'),
         broken \subseteq broken', broken' \subseteq Events \X Rules, twice' \subseteq Events,
         faults' \in 0..MaxFaults,
         Fits(C, row', broken'), Alone(call', row', twice'), SentWasAccepted', EveryoneHasARow'
  PROVE  IInv'
<1>1. call \in [Runs -> Calls] /\ call' = [call EXCEPT ![n] = C]
  BY DEF IInv, TypeOK, Becomes
<1>2. call'[n] = C /\ \A m \in Runs \ {n} : call'[m] = call[m]
  BY <1>1
<1>3. TypeOK'
  BY <1>1 DEF IInv, TypeOK, RowTypes
<1>4. CallsFit'
  <2>1. \A m \in Runs : Fits(call'[m], row', broken')
    BY <1>2, FitsLater DEF IInv, CallsFit
  <2>2. QED
    BY <2>1 DEF CallsFit
<1>5. MailersFit'
  BY DEF IInv, MailersFit, MailFits, RowsStay
<1>6. QED
  BY <1>3, <1>4, <1>5 DEF IInv

\* ... and the rows.
LEMMA QuietCall ==
  ASSUME IInv, NEW n \in Runs, NEW C \in Calls, Becomes(n, C),
         UNCHANGED <<delivery, card, row, mailer, accepted, twice>>,
         job' \in [Rows -> JobRows], JobsFit(job'),
         broken \subseteq broken', broken' \subseteq Events \X Rules, faults' \in 0..MaxFaults,
         Fits(C, row, broken'), C.at # "write",
         C.at # "idle" => call[n].at # "idle" /\ C.event = call[n].event
  PROVE  IInv'
<1>1. row \in [Rows -> RowTypes] /\ RowsStay(row, row')
  BY DEF IInv, TypeOK, RowTypes, RowsStay
<1>2. call \in [Runs -> Calls] /\ call' = [call EXCEPT ![n] = C]
  BY DEF IInv, TypeOK, Becomes
<1>3. call'[n] = C /\ \A m \in Runs \ {n} : call'[m] = call[m]
  BY <1>2
<1>4. Alone(call', row', twice')
  BY <1>3 DEF IInv, Alone
<1>5. SentWasAccepted'
  BY DEF IInv, SentWasAccepted
<1>6. EveryoneHasARow'
  BY <1>1, EveryoneStays
<1>7. twice \subseteq Events /\ delivery \in [Events -> {"due", "done"}]
  BY DEF IInv, TypeOK
<1>8. QED
  BY <1>1, <1>4, <1>5, <1>6, <1>7, CallStep

-----------------------------------------------------------------------------
(* The subscriber *)

LEMMA JobsSame == IInv => job \in [Rows -> JobRows] /\ JobsFit(job) /\ faults \in 0..MaxFaults
                          /\ broken \subseteq Events \X Rules /\ twice \subseteq Events
                          /\ delivery \in [Events -> {"due", "done"}]
                          /\ row \in [Rows -> RowTypes] /\ call \in [Runs -> Calls]
BY DEF IInv, TypeOK, MailersFit, RowTypes

LEMMA FaultIs == IInv /\ Fault => faults' \in 0..MaxFaults
BY NotificationsAssumption DEF IInv, TypeOK, Fault

LEMMA TargetsAre ==
  \A r \in Rules : Targets(r) \subseteq Addresses /\ (r \in StaffRules => \A u \in Staff[r] : <<Channel[r], u>> \in Targets(r))
<1> SUFFICES ASSUME NEW r \in Rules
             PROVE  Targets(r) \subseteq Addresses
                    /\ (r \in StaffRules => \A u \in Staff[r] : <<Channel[r], u>> \in Targets(r))
  OBVIOUS
<1>1. CASE r \in StaffRules
  BY <1>1, StaffAreAddressed DEF Targets
<1>2. CASE r \notin StaffRules
  <2>1. Targets(r) \in {{<<"email", Contact>>}, {<<"viber_link", Contact>>}, {<<"email", NoOne>>}}
    BY <1>2 DEF Targets
  <2>2. <<"email", Contact>> \in Addresses /\ <<"viber_link", Contact>> \in Addresses
        /\ <<"email", NoOne>> \in Addresses
    BY DEF Addresses, Channels
  <2>3. QED
    BY <1>2, <2>1, <2>2
<1>3. QED
  BY <1>1, <1>2

LEMMA HandleHolds == ASSUME IInv, NEW n \in Runs, NEW e \in Events, Handle(n, e) PROVE IInv'
<1> DEFINE todo == UNION {{r} \X Targets(r) : r \in Rules}
           C == [NoCall EXCEPT !.at = "ask", !.event = e, !.todo = todo]
           running == \E o \in Runs : call[o].at # "idle" /\ call[o].event = e
<1>1. /\ Becomes(n, C) /\ UNCHANGED <<delivery, card, row, job, mailer, accepted, broken>>
      /\ IF running THEN Fault ELSE UNCHANGED faults
      /\ twice' = IF running THEN twice \cup {e} ELSE twice
  BY DEF Handle
<1>2. todo \subseteq Rules \X Addresses
  BY TargetsAre
<1>3. \A r \in StaffRules : \A u \in Staff[r] : <<r, <<Channel[r], u>>>> \in todo
  <2> SUFFICES ASSUME NEW r \in StaffRules, NEW u \in Staff[r]
               PROVE  <<r, <<Channel[r], u>>>> \in todo
    OBVIOUS
  <2>1. r \in Rules /\ <<Channel[r], u>> \in Targets(r)
    BY TargetsAre DEF Rules
  <2>2. QED
    BY <2>1
<1> HIDE DEF todo
<1>4. C \in Calls /\ C.at = "ask" /\ C.event = e /\ C.todo = todo
  BY <1>2, StartTypes DEF Calls, NoCall
<1> HIDE DEF C
<1>5. Fits(C, row, broken)
  BY <1>3, <1>4 DEF Fits, Reached
<1>6. faults' \in 0..MaxFaults /\ twice' \subseteq Events
  BY <1>1, FaultIs, JobsSame
<1>7. call'[n] = C /\ \A m \in Runs \ {n} : call'[m] = call[m]
  BY <1>1, JobsSame DEF Becomes
<1>8. Alone(call', row', twice')
  <2> SUFFICES ASSUME NEW f \in Events \ twice'
               PROVE  /\ \A k, m \in Runs : /\ call'[k].at # "idle" /\ call'[k].event = f
                                            /\ call'[m].at # "idle" /\ call'[m].event = f
                                            => k = m
                      /\ \A m \in Runs : call'[m].at = "write" /\ call'[m].event = f
                                           => ~Seen(row, f, call'[m].row[2])
                      /\ \A a \in Addresses, k, m \in Runs :
                           row[<<f, a, k>>].status # "none" /\ row[<<f, a, m>>].status # "none" => k = m
    BY <1>1 DEF Alone
  <2>1. f \notin twice /\ (f = e => ~running)
    BY <1>1
  <2>2. QED
    BY <1>4, <1>7, <2>1 DEF IInv, Alone
<1>9. RowsStay(row, row') /\ SentWasAccepted'
  BY <1>1 DEF RowsStay, IInv, SentWasAccepted
<1>10. EveryoneHasARow'
  BY <1>1, <1>9, EveryoneStays
<1>11. QED
  BY <1>1, <1>4, <1>5, <1>6, <1>8, <1>9, <1>10, JobsSame, CallStep

\* A call that goes on to the next recipient.
LEMMA PastIs ==
  ASSUME IInv, NEW n \in Runs, call[n].at # "idle", NEW r, NEW gone, NEW failed,
         broken \subseteq failed,
         \A u \in Staff[r] : r \in StaffRules /\ <<Channel[r], u>> \in gone /\ <<call[n].event, r>> \notin failed
                               => Seen(row, call[n].event, <<Channel[r], u>>)
  PROVE  LET C == [call[n] EXCEPT !.at = "ask", !.todo = @ \ ({r} \X gone), !.rule = "none", !.row = <<>>]
         IN C \in Calls /\ C.at = "ask" /\ C.event = call[n].event /\ Fits(C, row, failed)
<1> DEFINE todo == call[n].todo \ ({r} \X gone)
           C == [call[n] EXCEPT !.at = "ask", !.todo = todo, !.rule = "none", !.row = <<>>]
<1>1. call[n] \in Calls /\ Fits(call[n], row, broken)
  BY JobsSame DEF IInv, CallsFit
<1>2. todo \subseteq Rules \X Addresses
  BY <1>1 DEF Calls
<1>3. \A t \in call[n].todo : t \in todo \/ (t \in {r} \X gone)
  OBVIOUS
<1> HIDE DEF todo
<1>4. C \in Calls /\ C.at = "ask" /\ C.event = call[n].event /\ C.todo = todo
  BY <1>1, <1>2 DEF Calls
<1> HIDE DEF C
<1>5. Reached(C, row, failed)
  <2> SUFFICES ASSUME NEW s \in StaffRules, <<call[n].event, s>> \notin failed, NEW u \in Staff[s]
               PROVE  <<s, <<Channel[s], u>>>> \in todo \/ Seen(row, call[n].event, <<Channel[s], u>>)
    BY <1>4 DEF Reached
  <2>1. <<s, <<Channel[s], u>>>> \in call[n].todo \/ Seen(row, call[n].event, <<Channel[s], u>>)
    BY <1>1 DEF Fits, Reached
  <2>2. CASE <<s, <<Channel[s], u>>>> \in {r} \X gone
    <3>1. s = r /\ <<Channel[s], u>> \in gone
      BY <2>2
    <3>2. QED
      BY <3>1
  <2>3. QED
    BY <1>3, <2>1, <2>2
<1>6. Fits(C, row, failed)
  BY <1>1, <1>4, <1>5 DEF Fits
<1>7. QED
  BY <1>4, <1>6 DEF C, todo

LEMMA CopyIs == \A e, a, n : n \in Runs => Copy(e, a) \in Runs
<1> SUFFICES ASSUME NEW e, NEW a, NEW n \in Runs PROVE Copy(e, a) \in Runs
  OBVIOUS
<1> DEFINE taken == {x \in Rows : row[x].status # "none" \/ \E o \in Runs : call[o].row = x}
           P(i) == <<e, a, i>> \in taken => \A k \in Runs : <<e, a, k>> \in taken
<1>1. Copy(e, a) = CHOOSE i \in Runs : P(i)
  BY DEF Copy
<1>2. \E i \in Runs : P(i)
  <2>1. CASE \A k \in Runs : <<e, a, k>> \in taken
    BY <2>1
  <2>2. CASE \E k \in Runs : <<e, a, k>> \notin taken
    BY <2>2
  <2>3. QED
    BY <2>1, <2>2
<1> HIDE DEF P
<1>3. QED
  BY <1>1, <1>2

LEMMA AskHolds ==
  ASSUME IInv, NEW n \in Runs, NEW r \in Rules, NEW a \in Addresses, Ask(n, r, a) PROVE IInv'
<1> DEFINE e == call[n].event
           name == <<e, a, Copy(e, a)>>
           P == [call[n] EXCEPT !.at = "ask", !.todo = @ \ ({r} \X {a}), !.rule = "none", !.row = <<>>]
           W == [call[n] EXCEPT !.at = "write", !.rule = r, !.row = name]
<1>1. /\ call[n].at = "ask" /\ e \in Events /\ call[n] \in Calls /\ Fits(call[n], row, broken)
      /\ UNCHANGED <<delivery, card, row, job, mailer, accepted, broken, twice, faults>>
  BY JobsSame DEF Ask, IInv, CallsFit, Fits
<1>2. CASE Exists(e, a)
  <2>1. Becomes(n, P)
    BY <1>2 DEF Ask, Past
  <2>2. Seen(row, e, a)
    BY <1>2 DEF Exists, Seen
  <2>3. P \in Calls /\ P.at = "ask" /\ P.event = e /\ Fits(P, row, broken)
    <3>1. \A u \in Staff[r] : r \in StaffRules /\ <<Channel[r], u>> \in {a} /\ <<e, r>> \notin broken
                                => Seen(row, e, <<Channel[r], u>>)
      BY <2>2
    <3>2. call[n].at # "idle"
      BY <1>1
    <3>3. QED
      BY <3>1, <3>2, PastIs
  <2> HIDE DEF P
  <2>4. QED
    BY <1>1, <2>1, <2>3, JobsSame, QuietCall
<1>3. CASE ~Exists(e, a)
  <2>1. Becomes(n, W)
    BY <1>3 DEF Ask
  <2>2. ~Seen(row, e, a)
    BY <1>3 DEF Exists, Seen
  <2>3. Copy(e, a) \in Runs
    BY CopyIs
  <2>4. name \in Rows /\ name[1] = e /\ name[2] = a
    BY <1>1, <2>3, NamesAre
  <2> HIDE DEF name
  <2>5. W \in Calls /\ W.at = "write" /\ W.event = e /\ W.rule = r /\ W.row = name /\ W.todo = call[n].todo
    BY <1>1, <2>4 DEF Calls
  <2> HIDE DEF W
  <2>6. Fits(W, row, broken)
    BY <1>1, <2>4, <2>5 DEF Fits, Reached
  <2>7. call'[n] = W /\ \A m \in Runs \ {n} : call'[m] = call[m]
    BY <2>1, JobsSame DEF Becomes
  <2>8. Alone(call', row', twice')
    BY <1>1, <2>2, <2>4, <2>5, <2>7 DEF IInv, Alone
  <2>9. RowsStay(row, row') /\ SentWasAccepted'
    BY <1>1 DEF RowsStay, IInv, SentWasAccepted
  <2>10. EveryoneHasARow'
    BY <1>1, <2>9, EveryoneStays
  <2>11. QED
    BY <1>1, <2>1, <2>5, <2>6, <2>8, <2>9, <2>10, JobsSame, CallStep
<1>4. QED
  BY <1>2, <1>3

\* A row is written: for an event whose runs never overlapped it is the first
\* of its address.
LEMMA RowWritten ==
  ASSUME IInv, NEW n \in Runs, call[n].at = "write", NEW C \in Calls, Becomes(n, C),
         C.at \in {"ask", "enqueue"}, C.event = call[n].event,
         row' = [row EXCEPT ![call[n].row].status = FirstStatus(call[n].row[2])], twice' = twice
  PROVE  /\ row' \in [Rows -> RowTypes] /\ RowsStay(row, row')
         /\ Alone(call', row', twice') /\ row'[call[n].row].status # "none"
<1> DEFINE x == call[n].row
           e == call[n].event
           new == [row[x] EXCEPT !.status = FirstStatus(x[2])]
<1>1. x \in Rows /\ x[1] = e /\ e \in Events
  BY DEF IInv, CallsFit, Fits
<1>2. FirstStatus(x[2]) \in {"skipped", "sent", "queued"}
  BY DEF FirstStatus
<1>3. row \in [Rows -> RowTypes] /\ row[x] \in RowTypes
  BY <1>1, JobsSame
<1>4. new \in RowTypes /\ new.status # "none"
  BY <1>2, <1>3 DEF RowTypes
<1>5. row' = [row EXCEPT ![x] = new]
  BY <1>1, <1>3
<1> HIDE DEF new
<1>6. row' \in [Rows -> RowTypes] /\ row'[x] = new /\ \A y \in Rows \ {x} : row'[y] = row[y]
  BY <1>1, <1>3, <1>4, <1>5
<1>7. RowsStay(row, row')
  BY <1>4, <1>6 DEF RowsStay
<1>8. call'[n] = C /\ \A m \in Runs \ {n} : call'[m] = call[m]
  BY JobsSame DEF Becomes
<1>9. Alone(call', row', twice')
  <2> SUFFICES ASSUME NEW f \in Events \ twice
               PROVE  /\ \A k, m \in Runs : /\ call'[k].at # "idle" /\ call'[k].event = f
                                            /\ call'[m].at # "idle" /\ call'[m].event = f
                                            => k = m
                      /\ \A m \in Runs : call'[m].at = "write" /\ call'[m].event = f
                                           => ~Seen(row', f, call'[m].row[2])
                      /\ \A a \in Addresses, k, m \in Runs :
                           row'[<<f, a, k>>].status # "none" /\ row'[<<f, a, m>>].status # "none" => k = m
    BY DEF Alone
  <2>1. /\ \A k, m \in Runs : /\ call[k].at # "idle" /\ call[k].event = f
                              /\ call[m].at # "idle" /\ call[m].event = f
                              => k = m
        /\ \A m \in Runs : call[m].at = "write" /\ call[m].event = f => ~Seen(row, f, call[m].row[2])
        /\ \A a \in Addresses, k, m \in Runs :
             row[<<f, a, k>>].status # "none" /\ row[<<f, a, m>>].status # "none" => k = m
    BY DEF IInv, Alone
  <2>2. \A k, m \in Runs : /\ call'[k].at # "idle" /\ call'[k].event = f
                           /\ call'[m].at # "idle" /\ call'[m].event = f
                           => k = m
    BY <1>8, <2>1
  <2>3. ASSUME NEW a \in Addresses, NEW k \in Runs, f # e \/ a # x[2]
        PROVE  row'[<<f, a, k>>] = row[<<f, a, k>>]
    <3>1. <<f, a, k>> \in Rows /\ <<f, a, k>> # x
      BY <1>1, <2>3, NamesAre
    <3>2. QED
      BY <1>6, <3>1
  <2>4. ASSUME NEW m \in Runs, call'[m].at = "write", call'[m].event = f
        PROVE  ~Seen(row', f, call'[m].row[2])
    <3>1. m # n /\ call'[m] = call[m]
      BY <1>8, <2>4
    <3>2. f # e
      BY <2>1, <2>4, <3>1
    <3>3. call[m].row[2] \in Addresses
      BY <2>4, <3>1, NamesAre DEF IInv, CallsFit, Fits
    <3>4. ~Seen(row, f, call[m].row[2])
      BY <2>1, <2>4, <3>1
    <3>5. QED
      BY <2>3, <3>1, <3>2, <3>3, <3>4 DEF Seen
  <2>5. ASSUME NEW a \in Addresses, NEW k \in Runs, NEW m \in Runs,
               row'[<<f, a, k>>].status # "none", row'[<<f, a, m>>].status # "none"
        PROVE  k = m
    <3>1. CASE f # e \/ a # x[2]
      <4>1. row'[<<f, a, k>>] = row[<<f, a, k>>] /\ row'[<<f, a, m>>] = row[<<f, a, m>>]
        BY <2>3, <3>1
      <4>2. row[<<f, a, k>>].status # "none" /\ row[<<f, a, m>>].status # "none"
        BY <2>5, <4>1
      <4>3. QED
        BY <2>1, <4>2
    <3>2. CASE f = e /\ a = x[2]
      <4>1. \A i \in Runs : row[<<f, a, i>>].status = "none"
        BY <2>1, <3>2 DEF Seen
      <4>2. \A i \in Runs : row'[<<f, a, i>>].status # "none" => <<f, a, i>> = x
        <5> SUFFICES ASSUME NEW i \in Runs, <<f, a, i>> # x PROVE row'[<<f, a, i>>].status = "none"
          OBVIOUS
        <5>1. <<f, a, i>> \in Rows
          BY NamesAre
        <5>2. QED
          BY <1>6, <4>1, <5>1
      <4>3. <<f, a, k>> = x /\ <<f, a, m>> = x
        BY <2>5, <4>2
      <4>4. <<f, a, k>>[3] = k /\ <<f, a, m>>[3] = m
        OBVIOUS
      <4>5. QED
        BY <4>3, <4>4
    <3>3. QED
      BY <3>1, <3>2
  <2>6. QED
    BY <2>2, <2>4, <2>5
<1>10. QED
  BY <1>4, <1>6, <1>7, <1>9

LEMMA WriteHolds == ASSUME IInv, NEW n \in Runs, Write(n) PROVE IInv'
<1> DEFINE x == call[n].row
           P == [call[n] EXCEPT !.at = "ask", !.todo = @ \ ({call[n].rule} \X {x[2]}), !.rule = "none",
                                !.row = <<>>]
           Q == [call[n] EXCEPT !.at = "enqueue"]
<1>1. /\ call[n].at = "write" /\ call[n] \in Calls /\ Fits(call[n], row, broken) /\ x \in Rows
      /\ row' = [row EXCEPT ![x].status = FirstStatus(x[2])]
      /\ UNCHANGED <<delivery, card, job, mailer, accepted, broken, twice, faults>>
  BY JobsSame DEF Write, IInv, CallsFit, Fits
<1>2. IF IsMailed(x[2]) THEN Becomes(n, Q) ELSE Becomes(n, P)
  BY DEF Write, Past
<1>3. Q \in Calls /\ Q.at = "enqueue" /\ Q.event = call[n].event /\ Q.row = x /\ Q.todo = call[n].todo
      /\ Q.rule = call[n].rule
  BY <1>1 DEF Calls
<1>4. /\ P \in Calls /\ P.at = "ask" /\ P.event = call[n].event
      /\ P.todo = call[n].todo \ ({call[n].rule} \X {x[2]})
  <2> DEFINE todo == call[n].todo \ ({call[n].rule} \X {x[2]})
  <2>1. todo \subseteq Rules \X Addresses
    BY <1>1 DEF Calls
  <2> HIDE DEF todo
  <2>2. LET C == [call[n] EXCEPT !.at = "ask", !.todo = todo, !.rule = "none", !.row = <<>>]
        IN C \in Calls /\ C.at = "ask" /\ C.event = call[n].event /\ C.todo = todo
    BY <1>1, <2>1 DEF Calls
  <2>3. QED
    BY <2>2 DEF todo
<1> HIDE DEF P, Q
<1>5. PICK C \in {P, Q} : Becomes(n, C) /\ (C = Q => IsMailed(x[2]))
  BY <1>2, <1>3, <1>4
<1>6. C \in Calls /\ C.at \in {"ask", "enqueue"} /\ C.event = call[n].event
  BY <1>3, <1>4, <1>5
<1>7. /\ row' \in [Rows -> RowTypes] /\ RowsStay(row, row')
      /\ Alone(call', row', twice') /\ row'[x].status # "none"
  BY <1>1, <1>5, <1>6, RowWritten
<1>8. Fits(call[n], row', broken)
  BY <1>1, <1>7, FitsLater
<1>9. x[1] = call[n].event /\ x \in Rows /\ call[n].rule \in Rules /\ call[n].event \in Events
      /\ Reached(call[n], row', broken)
  BY <1>1, <1>8 DEF Fits
<1>10. Seen(row', call[n].event, x[2])
  <2>1. x = <<call[n].event, x[2], x[3]>> /\ x[3] \in Runs
    BY <1>9, NamesAre
  <2>2. row'[<<call[n].event, x[2], x[3]>>].status # "none"
    BY <1>7, <2>1
  <2>3. QED
    BY <2>1, <2>2 DEF Seen
<1>11. Fits(C, row', broken')
  <2>1. CASE C = Q
    BY <1>1, <1>3, <1>5, <1>7, <1>9, <2>1 DEF Fits, Reached
  <2>2. CASE C = P
    <3>1. Reached(P, row', broken)
      <4> SUFFICES ASSUME NEW s \in StaffRules, <<call[n].event, s>> \notin broken, NEW u \in Staff[s],
                          <<s, <<Channel[s], u>>>> \notin P.todo
                   PROVE  Seen(row', call[n].event, <<Channel[s], u>>)
        BY <1>4 DEF Reached
      <4>1. <<s, <<Channel[s], u>>>> \in call[n].todo \/ Seen(row', call[n].event, <<Channel[s], u>>)
        BY <1>9 DEF Reached
      <4>2. CASE <<s, <<Channel[s], u>>>> \in {call[n].rule} \X {x[2]}
        <5>1. <<Channel[s], u>> = x[2]
          BY <4>2
        <5>2. QED
          BY <1>10, <5>1
      <4>3. QED
        BY <1>4, <4>1, <4>2
    <3>2. QED
      BY <1>1, <1>4, <1>9, <2>2, <3>1 DEF Fits
  <2>3. QED
    BY <1>5, <2>1, <2>2
<1>12. SentWasAccepted'
  <2> SUFFICES ASSUME NEW y \in Rows, row'[y].status = "sent", IsMailed(y[2]) PROVE y \in accepted
    BY <1>1 DEF SentWasAccepted
  <2>1. row \in [Rows -> RowTypes]
    BY JobsSame
  <2>2. CASE y = x
    <3>1. row'[x].status = FirstStatus(x[2])
      BY <1>1, <2>1 DEF RowTypes
    <3>2. FirstStatus(y[2]) = "queued"
      BY DEF FirstStatus, IsMailed
    <3>3. QED
      BY <2>2, <3>1, <3>2
  <2>3. CASE y # x
    <3>1. row'[y] = row[y]
      BY <1>1, <2>1, <2>3
    <3>2. QED
      BY <3>1 DEF IInv, SentWasAccepted
  <2>4. QED
    BY <2>2, <2>3
<1>13. EveryoneHasARow'
  BY <1>1, <1>7, EveryoneStays
<1>14. QED
  BY <1>1, <1>5, <1>6, <1>7, <1>11, <1>12, <1>13, JobsSame, CallStep

\* The job of a row is queued, unless it is already.
LEMMA QueuedIs ==
  ASSUME IInv, NEW x \in Rows, IsMailed(x[2])
  PROVE  Queued(x) \in [Rows -> JobRows] /\ JobsFit(Queued(x))
<1> DEFINE new == [state |-> "queued", tries |-> 0]
<1>1. new \in JobRows
  BY NotificationsAssumption DEF JobRows
<1>2. job \in [Rows -> JobRows] /\ JobsFit(job)
  BY JobsSame
<1>3. Queued(x) \in {job, [job EXCEPT ![x] = new]}
  BY DEF Queued
<1> HIDE DEF new
<1>4. [job EXCEPT ![x] = new] \in [Rows -> JobRows] /\ JobsFit([job EXCEPT ![x] = new])
  BY <1>1, <1>2 DEF JobsFit
<1>5. QED
  BY <1>2, <1>3, <1>4

LEMMA EnqueueMailHolds == ASSUME IInv, NEW n \in Runs, EnqueueMail(n) PROVE IInv'
<1> DEFINE x == call[n].row
           r == call[n].rule
           P == [call[n] EXCEPT !.at = "ask", !.todo = @ \ ({r} \X {x[2]}), !.rule = "none", !.row = <<>>]
<1>1. /\ call[n].at = "enqueue" /\ Fits(call[n], row, broken) /\ job' = Queued(x) /\ Becomes(n, P)
      /\ UNCHANGED <<delivery, card, row, mailer, accepted, broken, twice, faults>>
  BY DEF EnqueueMail, Past, IInv, CallsFit
<1>2. /\ x \in Rows /\ IsMailed(x[2]) /\ x[1] = call[n].event /\ call[n].event \in Events
      /\ row[x].status # "none"
  BY <1>1 DEF Fits
<1>3. job' \in [Rows -> JobRows] /\ JobsFit(job')
  BY <1>1, <1>2, QueuedIs
<1>4. Seen(row, call[n].event, x[2])
  <2>1. x = <<call[n].event, x[2], x[3]>> /\ x[3] \in Runs
    BY <1>2, NamesAre
  <2>2. row[<<call[n].event, x[2], x[3]>>].status # "none"
    BY <1>2, <2>1
  <2>3. QED
    BY <2>1, <2>2 DEF Seen
<1>5. P \in Calls /\ P.at = "ask" /\ P.event = call[n].event /\ Fits(P, row, broken)
  <2>1. \A u \in Staff[r] : r \in StaffRules /\ <<Channel[r], u>> \in {x[2]} /\ <<call[n].event, r>> \notin broken
                              => Seen(row, call[n].event, <<Channel[r], u>>)
    BY <1>4
  <2>2. call[n].at # "idle"
    BY <1>1
  <2>3. QED
    BY <2>1, <2>2, PastIs
<1> HIDE DEF P, x, r
<1>6. QED
  BY <1>1, <1>3, <1>5, JobsSame, QuietCall

LEMMA FailRuleHolds == ASSUME IInv, NEW n \in Runs, NEW r \in Rules, FailRule(n, r) PROVE IInv'
<1> DEFINE P == [call[n] EXCEPT !.at = "ask", !.todo = @ \ ({r} \X Addresses), !.rule = "none", !.row = <<>>]
<1>1. /\ call[n].at # "idle" /\ Becomes(n, P) /\ broken' = broken \cup {<<call[n].event, r>>} /\ Fault
      /\ UNCHANGED <<delivery, card, row, job, mailer, accepted, twice>>
  BY DEF FailRule, Past
<1>2. call[n].event \in Events
  BY <1>1 DEF IInv, CallsFit, Fits
<1>3. P \in Calls /\ P.at = "ask" /\ P.event = call[n].event /\ Fits(P, row, broken')
  <2>1. \A u \in Staff[r] : r \in StaffRules /\ <<Channel[r], u>> \in Addresses /\ <<call[n].event, r>> \notin broken'
                              => Seen(row, call[n].event, <<Channel[r], u>>)
    BY <1>1
  <2>2. broken \subseteq broken' /\ call[n].at # "idle"
    BY <1>1
  <2>3. QED
    BY <2>1, <2>2, PastIs
<1> HIDE DEF P
<1>4. broken' \subseteq Events \X Rules /\ faults' \in 0..MaxFaults /\ broken \subseteq broken'
  BY <1>1, <1>2, FaultIs, JobsSame
<1>5. QED
  BY <1>1, <1>3, <1>4, JobsSame, QuietCall

LEMMA HandledHolds == ASSUME IInv, NEW n \in Runs, Handled(n) PROVE IInv'
<1>1. /\ call[n].at = "ask" /\ call[n].todo = {} /\ delivery' = [delivery EXCEPT ![call[n].event] = "done"]
      /\ Becomes(n, NoCall) /\ UNCHANGED <<card, row, job, mailer, accepted, broken, twice, faults>>
  BY DEF Handled
<1>2. Reached(call[n], row, broken) /\ call[n].event \in Events
  BY <1>1 DEF IInv, CallsFit, Fits
<1>3. delivery' \in [Events -> {"due", "done"}]
  BY <1>1, JobsSame
<1>4. NoCall \in Calls /\ NoCall.at = "idle" /\ Fits(NoCall, row', broken')
  BY StartTypes DEF NoCall, Fits
<1>5. call'[n] = NoCall /\ \A m \in Runs \ {n} : call'[m] = call[m]
  BY <1>1, JobsSame DEF Becomes
<1>6. Alone(call', row', twice')
  BY <1>1, <1>4, <1>5 DEF IInv, Alone
<1>7. RowsStay(row, row') /\ SentWasAccepted'
  BY <1>1 DEF RowsStay, IInv, SentWasAccepted
<1>8. EveryoneHasARow'
  <2> SUFFICES ASSUME NEW e \in Events, NEW r \in StaffRules, delivery'[e] = "done", <<e, r>> \notin broken,
                      NEW u \in Staff[r]
               PROVE  \E k \in Runs : row[<<e, <<Channel[r], u>>, k>>].status # "none"
    BY <1>1 DEF EveryoneHasARow
  <2>1. CASE e = call[n].event
    BY <1>1, <1>2, <2>1 DEF Reached, Seen
  <2>2. CASE e # call[n].event
    <3>1. delivery[e] = "done"
      BY <1>1, <2>2, JobsSame
    <3>2. QED
      BY <3>1 DEF IInv, EveryoneHasARow
  <2>3. QED
    BY <2>1, <2>2
<1>9. QED
  BY <1>1, <1>3, <1>4, <1>6, <1>7, <1>8, JobsSame, CallStep

LEMMA CrashHandlerHolds == ASSUME IInv, NEW n \in Runs, CrashHandler(n) PROVE IInv'
<1>1. Becomes(n, NoCall) /\ Fault /\ UNCHANGED <<delivery, card, row, job, mailer, accepted, broken, twice>>
  BY DEF CrashHandler
<1>2. NoCall \in Calls /\ NoCall.at = "idle" /\ Fits(NoCall, row, broken')
  BY StartTypes DEF NoCall, Fits
<1>3. faults' \in 0..MaxFaults
  BY <1>1, FaultIs
<1>4. QED
  BY <1>1, <1>2, <1>3, JobsSame, QuietCall

-----------------------------------------------------------------------------
(* The mailers *)

\* A step that leaves the calls alone.
LEMMA MailStep ==
  ASSUME IInv, UNCHANGED <<delivery, card, call, broken, twice>>,
         row' \in [Rows -> RowTypes], \A x \in Rows : row'[x].status = "none" <=> row[x].status = "none",
         job' \in [Rows -> JobRows], JobsFit(job'), mailer' \in [Mailers -> Mails],
         accepted' \subseteq Rows, faults' \in 0..MaxFaults,
         \A w \in Mailers : MailFits(mailer'[w], row, accepted'), SentWasAccepted'
  PROVE  IInv'
<1>1. TypeOK'
  BY DEF IInv, TypeOK, RowTypes
<1>2. RowsStay(row, row')
  BY DEF RowsStay
<1>3. CallsFit'
  <2>1. \A n \in Runs : Fits(call'[n], row', broken')
    BY <1>2, FitsLater DEF IInv, CallsFit
  <2>2. QED
    BY <2>1 DEF CallsFit
<1>4. MailersFit'
  BY DEF MailersFit, MailFits
<1>5. Alone(call', row', twice')
  <2>1. \A e \in Events, a \in Addresses, n \in Runs :
          row'[<<e, a, n>>].status = "none" <=> row[<<e, a, n>>].status = "none"
    BY NamesAre
  <2>2. \A e \in Events, a \in Addresses : Seen(row', e, a) <=> Seen(row, e, a)
    BY <2>1 DEF Seen
  <2>3. \A n \in Runs : call[n].at = "write" => call[n].row[2] \in Addresses
    BY NamesAre DEF IInv, CallsFit, Fits
  <2>4. QED
    BY <2>1, <2>2, <2>3 DEF IInv, Alone
<1>6. EveryoneHasARow'
  BY <1>2, EveryoneStays
<1>7. QED
  BY <1>1, <1>3, <1>4, <1>5, <1>6 DEF IInv

\* One mailer goes on to M.
LEMMA MailerIs ==
  ASSUME IInv, NEW w \in Mailers, NEW M \in Mails, mailer' = [mailer EXCEPT ![w] = M],
         NEW taken, accepted \subseteq taken, MailFits(M, row, taken)
  PROVE  mailer' \in [Mailers -> Mails] /\ \A v \in Mailers : MailFits(mailer'[v], row, taken)
<1>1. mailer \in [Mailers -> Mails] /\ \A v \in Mailers : MailFits(mailer[v], row, accepted)
  BY DEF IInv, TypeOK, MailersFit
<1>2. mailer'[w] = M /\ \A v \in Mailers \ {w} : mailer'[v] = mailer[v]
  BY <1>1
<1>3. \A v \in Mailers \ {w} : MailFits(mailer'[v], row, taken)
  BY <1>1, <1>2 DEF MailFits
<1>4. QED
  BY <1>1, <1>2, <1>3

LEMMA MailIs ==
  ASSUME IInv, NEW w \in Mailers, mailer[w].at # "idle"
  PROVE  /\ mailer[w] \in Mails /\ mailer[w].row \in Rows /\ IsMailed(mailer[w].row[2])
         /\ job[mailer[w].row] \in JobRows /\ row[mailer[w].row].status # "none" /\ mailer[w].attempts \in Nat
         /\ mailer[w].at = "accepted" => mailer[w].row \in accepted
BY DEF IInv, TypeOK, MailersFit, MailFits, Mails

LEMMA NoMailFits == NoMail \in Mails /\ \A rows, taken : MailFits(NoMail, rows, taken)
BY StartTypes DEF NoMail, MailFits

LEMMA ReportIs ==
  ASSUME IInv, NEW w \in Mailers, mailer[w].at # "idle", NEW next \in JobRows, Report(w, next)
  PROVE  job' \in [Rows -> JobRows] /\ JobsFit(job')
<1> DEFINE x == mailer[w].row
<1>1. x \in Rows /\ IsMailed(x[2])
  BY MailIs
<1>2. job' \in {job, [job EXCEPT ![x] = next]}
  BY DEF Report
<1>3. [job EXCEPT ![x] = next] \in [Rows -> JobRows] /\ JobsFit([job EXCEPT ![x] = next])
  BY <1>1, JobsSame DEF JobsFit
<1>4. QED
  BY <1>2, <1>3, JobsSame

LEMMA RetriedIs == \A j \in JobRows : Retried(j) \in JobRows /\ [j EXCEPT !.state = "over"] \in JobRows
<1> SUFFICES ASSUME NEW j \in JobRows PROVE Retried(j) \in JobRows /\ [j EXCEPT !.state = "over"] \in JobRows
  OBVIOUS
<1>1. [j EXCEPT !.state = "over"] \in JobRows
  BY DEF JobRows
<1>2. CASE j.tries < RetryLimit
  <2>1. j.tries + 1 \in 0..RetryLimit
    BY <1>2, NotificationsAssumption DEF JobRows
  <2>2. QED
    BY <1>1, <1>2, <2>1 DEF Retried, JobRows
<1>3. CASE ~(j.tries < RetryLimit)
  BY <1>1, <1>3 DEF Retried
<1>4. QED
  BY <1>2, <1>3

LEMMA RowsAre == IInv => row \in [Rows -> RowTypes] /\ accepted \subseteq Rows /\ mailer \in [Mailers -> Mails]
BY JobsSame DEF IInv, TypeOK

LEMMA FetchHolds == ASSUME IInv, NEW w \in Mailers, NEW x \in Rows, Fetch(w, x) PROVE IInv'
<1> DEFINE state == IF MaySend(x) THEN "active" ELSE "over"
           M == [at |-> "send", row |-> x, try |-> job[x].tries, attempts |-> row[x].attempts + 1]
<1>1. /\ job[x].state = "queued" /\ job' = [job EXCEPT ![x].state = state]
      /\ mailer' = IF ~MaySend(x) THEN mailer ELSE [mailer EXCEPT ![w] = M]
      /\ UNCHANGED <<delivery, card, call, row, accepted, broken, twice, faults>>
  BY DEF Fetch
<1>2. IsMailed(x[2]) /\ job[x] \in JobRows /\ row[x] \in RowTypes
  BY <1>1, JobsSame DEF JobsFit
<1>3. state \in {"active", "over"}
  OBVIOUS
<1>4. [job[x] EXCEPT !.state = state] \in JobRows
  BY <1>2, <1>3 DEF JobRows
<1>5. job' \in [Rows -> JobRows] /\ JobsFit(job')
  BY <1>1, <1>2, <1>4, JobsSame DEF JobsFit
<1>6. MaySend(x) => M \in Mails /\ MailFits(M, row, accepted)
  <2>1. job[x].tries \in 0..RetryLimit /\ row[x].attempts + 1 \in Nat
    BY <1>2 DEF JobRows, RowTypes
  <2>2. QED
    BY <1>2, <2>1 DEF Mails, MailFits, MaySend
<1> HIDE DEF M, state
<1>7. mailer' \in [Mailers -> Mails] /\ \A v \in Mailers : MailFits(mailer'[v], row, accepted)
  <2>1. CASE ~MaySend(x)
    BY <1>1, <2>1, RowsAre DEF IInv, MailersFit
  <2>2. CASE MaySend(x)
    BY <1>1, <1>6, <2>2, MailerIs
  <2>3. QED
    BY <1>1, <2>1, <2>2
<1>8. SentWasAccepted'
  BY <1>1 DEF IInv, SentWasAccepted
<1>9. QED
  BY <1>1, <1>5, <1>7, <1>8, RowsAre, JobsSame, MailStep

LEMMA AdapterHolds ==
  ASSUME IInv, NEW w \in Mailers, NEW answer \in {"accepted", "refused"}, Adapter(w, answer) PROVE IInv'
<1> DEFINE x == mailer[w].row
           M == [mailer[w] EXCEPT !.at = answer]
<1>1. /\ mailer[w].at = "send" /\ mailer' = [mailer EXCEPT ![w] = M]
      /\ accepted' = IF answer = "accepted" THEN accepted \cup {x} ELSE accepted
      /\ IF answer = "refused" THEN Fault ELSE UNCHANGED faults
      /\ UNCHANGED <<delivery, card, call, row, job, broken, twice>>
  BY RowsAre DEF Adapter
<1>2. mailer[w] \in Mails /\ x \in Rows /\ IsMailed(x[2]) /\ row[x].status # "none"
  BY <1>1, MailIs
<1>3. M \in Mails /\ M.row = x /\ M.at = answer
  BY <1>2 DEF Mails
<1>4. accepted \subseteq accepted' /\ accepted' \subseteq Rows /\ (answer = "accepted" => x \in accepted')
  BY <1>1, <1>2, RowsAre
<1>5. MailFits(M, row, accepted')
  BY <1>2, <1>3, <1>4 DEF MailFits
<1> HIDE DEF M, x
<1>6. mailer' \in [Mailers -> Mails] /\ \A v \in Mailers : MailFits(mailer'[v], row, accepted')
  BY <1>1, <1>3, <1>4, <1>5, MailerIs
<1>7. SentWasAccepted'
  BY <1>1, <1>4 DEF IInv, SentWasAccepted
<1>8. faults' \in 0..MaxFaults
  BY <1>1, FaultIs, JobsSame
<1>9. QED
  BY <1>1, <1>4, <1>6, <1>7, <1>8, RowsAre, JobsSame, MailStep

LEMMA MarkSentHolds == ASSUME IInv, NEW w \in Mailers, MarkSent(w) PROVE IInv'
<1> DEFINE x == mailer[w].row
           new == [status |-> "sent", attempts |-> mailer[w].attempts]
<1>1. /\ mailer[w].at = "accepted" /\ row' = [row EXCEPT ![x] = new] /\ Report(w, Over(w))
      /\ mailer' = [mailer EXCEPT ![w] = NoMail]
      /\ UNCHANGED <<delivery, card, call, accepted, broken, twice, faults>>
  BY DEF MarkSent, Sent
<1>2. x \in Rows /\ IsMailed(x[2]) /\ x \in accepted /\ job[x] \in JobRows /\ new \in RowTypes
  BY <1>1, MailIs DEF RowTypes
<1>3. job' \in [Rows -> JobRows] /\ JobsFit(job')
  BY <1>1, <1>2, RetriedIs, ReportIs DEF Over
<1>4. mailer' \in [Mailers -> Mails] /\ \A v \in Mailers : MailFits(mailer'[v], row, accepted)
  BY <1>1, NoMailFits, MailerIs
<1>5. row \in [Rows -> RowTypes] /\ row' \in [Rows -> RowTypes] /\ row'[x].status = "sent"
      /\ \A y \in Rows \ {x} : row'[y] = row[y]
  BY <1>1, <1>2, RowsAre
<1>6. SentWasAccepted'
  BY <1>1, <1>2, <1>5 DEF IInv, SentWasAccepted
<1>7. \A y \in Rows : row'[y].status = "none" <=> row[y].status = "none"
  BY <1>1, <1>5, MailIs
<1>8. QED
  BY <1>1, <1>3, <1>4, <1>5, <1>6, <1>7, RowsAre, JobsSame, MailStep

LEMMA MarkFailsHolds == ASSUME IInv, NEW w \in Mailers, MarkFails(w) PROVE IInv'
<1> DEFINE M == [mailer[w] EXCEPT !.at = "refused"]
<1>1. /\ mailer[w].at = "accepted" /\ mailer' = [mailer EXCEPT ![w] = M] /\ Fault
      /\ UNCHANGED <<delivery, card, call, row, job, accepted, broken, twice>>
  BY RowsAre DEF MarkFails
<1>2. M \in Mails /\ M.row = mailer[w].row /\ M.at = "refused"
  BY <1>1, MailIs DEF Mails
<1>3. MailFits(M, row, accepted)
  BY <1>1, <1>2, MailIs DEF MailFits
<1> HIDE DEF M
<1>4. mailer' \in [Mailers -> Mails] /\ \A v \in Mailers : MailFits(mailer'[v], row, accepted)
  BY <1>1, <1>2, <1>3, MailerIs
<1>5. SentWasAccepted' /\ faults' \in 0..MaxFaults
  BY <1>1, FaultIs DEF IInv, SentWasAccepted
<1>6. QED
  BY <1>1, <1>4, <1>5, RowsAre, JobsSame, MailStep

LEMMA MarkErrorHolds == ASSUME IInv, NEW w \in Mailers, MarkError(w) PROVE IInv'
<1> DEFINE x == mailer[w].row
           n == mailer[w].attempts
           failed == [status |-> "failed", attempts |-> n]
           again == [row[x] EXCEPT !.attempts = n]
<1>1. /\ mailer[w].at = "refused" /\ mailer' = [mailer EXCEPT ![w] = NoMail]
      /\ \/ row' = [row EXCEPT ![x] = failed] /\ Report(w, Over(w))
         \/ row' = [row EXCEPT ![x].attempts = n] /\ Report(w, Retried(job[x]))
      /\ UNCHANGED <<delivery, card, call, accepted, broken, twice, faults>>
  BY DEF MarkError
<1>2. x \in Rows /\ job[x] \in JobRows /\ n \in Nat /\ row[x].status # "none" /\ row[x] \in RowTypes
  BY <1>1, MailIs, RowsAre
<1>3. job' \in [Rows -> JobRows] /\ JobsFit(job')
  BY <1>1, <1>2, RetriedIs, ReportIs DEF Over
<1>4. mailer' \in [Mailers -> Mails] /\ \A v \in Mailers : MailFits(mailer'[v], row, accepted)
  BY <1>1, NoMailFits, MailerIs
<1>5. /\ failed \in RowTypes /\ failed.status = "failed"
      /\ again \in RowTypes /\ again.status = row[x].status
  BY <1>2 DEF RowTypes
<1> HIDE DEF failed
<1>6. PICK new \in {failed, again} : row' = [row EXCEPT ![x] = new]
  BY <1>1, <1>2, RowsAre
<1> HIDE DEF again
<1>7. row' \in [Rows -> RowTypes] /\ row'[x] = new /\ \A y \in Rows \ {x} : row'[y] = row[y]
  BY <1>2, <1>5, <1>6, RowsAre
<1>8. \A y \in Rows : row'[y].status = row[y].status \/ (row'[y].status = "failed" /\ y = x)
  <2>1. new.status = "failed" \/ new.status = row[x].status
    BY <1>5, <1>6
  <2>2. QED
    BY <1>7, <2>1
<1>9. SentWasAccepted' /\ \A y \in Rows : row'[y].status = "none" <=> row[y].status = "none"
  BY <1>1, <1>2, <1>8 DEF IInv, SentWasAccepted
<1>10. UNCHANGED <<delivery, card, call, broken, twice>> /\ accepted' \subseteq Rows /\ faults' \in 0..MaxFaults
       /\ \A v \in Mailers : MailFits(mailer'[v], row, accepted')
  BY <1>1, <1>4, RowsAre, JobsSame
<1>11. QED
  BY <1>3, <1>4, <1>7, <1>9, <1>10, MailStep

LEMMA ExpireHolds == ASSUME IInv, NEW w \in Mailers, NEW ends \in BOOLEAN, Expire(w, ends) PROVE IInv'
<1>1. /\ mailer[w].at # "idle" /\ Fault /\ Report(w, Retried(job[mailer[w].row]))
      /\ mailer' = [mailer EXCEPT ![w] = NoMail] \/ mailer' = mailer
      /\ UNCHANGED <<delivery, card, call, row, accepted, broken, twice>>
  BY DEF Expire
<1>2. job' \in [Rows -> JobRows] /\ JobsFit(job')
  BY <1>1, MailIs, RetriedIs, ReportIs
<1>3. mailer' \in [Mailers -> Mails] /\ \A v \in Mailers : MailFits(mailer'[v], row, accepted)
  <2>1. CASE mailer' = mailer
    BY <2>1, RowsAre DEF IInv, MailersFit
  <2>2. CASE mailer' = [mailer EXCEPT ![w] = NoMail]
    BY <2>2, NoMailFits, MailerIs
  <2>3. QED
    BY <1>1, <2>1, <2>2
<1>4. SentWasAccepted' /\ faults' \in 0..MaxFaults
  BY <1>1, FaultIs DEF IInv, SentWasAccepted
<1>5. QED
  BY <1>1, <1>2, <1>3, <1>4, RowsAre, JobsSame, MailStep

LEMMA RequeueStuckHolds == ASSUME IInv, NEW x \in Rows, RequeueStuck(x) PROVE IInv'
<1>1. /\ IsMailed(x[2]) /\ job' = Queued(x)
      /\ UNCHANGED <<delivery, card, call, row, mailer, accepted, broken, twice, faults>>
  BY DEF RequeueStuck, Stuck
<1>2. job' \in [Rows -> JobRows] /\ JobsFit(job')
  BY <1>1, QueuedIs
<1>3. SentWasAccepted' /\ \A w \in Mailers : MailFits(mailer'[w], row, accepted')
  BY <1>1 DEF IInv, SentWasAccepted, MailersFit
<1>4. QED
  BY <1>1, <1>2, <1>3, RowsAre, JobsSame, MailStep

LEMMA MarkViberSentHolds == ASSUME IInv, NEW x \in Rows, MarkViberSent(x) PROVE IInv'
<1> DEFINE new == [row[x] EXCEPT !.status = "sent"]
<1>1. /\ x[2][1] = "viber_link" /\ row[x].status = "queued" /\ row' = [row EXCEPT ![x] = new]
      /\ UNCHANGED <<delivery, card, call, job, mailer, accepted, broken, twice, faults>>
  BY RowsAre DEF MarkViberSent
<1>2. new \in RowTypes /\ new.status = "sent"
  BY RowsAre DEF RowTypes
<1> HIDE DEF new
<1>3. row' \in [Rows -> RowTypes] /\ row'[x] = new /\ \A y \in Rows \ {x} : row'[y] = row[y]
  BY <1>1, <1>2, RowsAre
<1>4. \A y \in Rows : row'[y].status = "none" <=> row[y].status = "none"
  BY <1>1, <1>2, <1>3
<1>5. SentWasAccepted'
  <2>1. ~IsMailed(x[2])
    BY <1>1 DEF IsMailed
  <2>2. QED
    BY <1>1, <1>3, <2>1 DEF IInv, SentWasAccepted
<1>6. \A w \in Mailers : MailFits(mailer'[w], row, accepted')
  BY <1>1 DEF IInv, MailersFit
<1>7. QED
  BY <1>1, <1>3, <1>4, <1>5, <1>6, RowsAre, JobsSame, MailStep

LEMMA EditCardHolds == ASSUME IInv, NEW better \in {"phone", "email"}, EditCard(better) PROVE IInv'
<1>1. card' = better /\ UNCHANGED <<delivery, call, row, job, mailer, accepted, broken, twice, faults>>
  BY DEF EditCard
<1>2. TypeOK'
  BY <1>1 DEF IInv, TypeOK
<1>3. CallsFit' /\ MailersFit' /\ Alone(call', row', twice')
  BY <1>1 DEF IInv, CallsFit, MailersFit
<1>4. SentWasAccepted' /\ EveryoneHasARow'
  BY <1>1 DEF IInv, SentWasAccepted, EveryoneHasARow
<1>5. QED
  BY <1>2, <1>3, <1>4 DEF IInv

-----------------------------------------------------------------------------
LEMMA NextHolds == IInv /\ [Next]_vars => IInv'
<1> SUFFICES ASSUME IInv, [Next]_vars PROVE IInv'
  OBVIOUS
<1>1. ASSUME NEW n \in Runs, Subscriber(n) PROVE IInv'
  BY <1>1, HandleHolds, AskHolds, FailRuleHolds, WriteHolds, EnqueueMailHolds, HandledHolds,
     CrashHandlerHolds DEF Subscriber
<1>2. ASSUME NEW w \in Mailers, Mailer(w) PROVE IInv'
  BY <1>2, FetchHolds, MarkSentHolds, MarkFailsHolds, MarkErrorHolds, AdapterHolds, ExpireHolds
     DEF Mailer
<1>3. CASE UNCHANGED vars
  <2>1. UNCHANGED <<delivery, card, call, row, job, mailer, accepted, broken, twice, faults>>
    BY <1>3 DEF vars
  <2>2. SentWasAccepted' /\ \A w \in Mailers : MailFits(mailer'[w], row, accepted')
    BY <2>1 DEF IInv, SentWasAccepted, MailersFit
  <2>3. QED
    BY <2>1, <2>2, RowsAre, JobsSame, MailStep
<1>4. QED
  BY <1>1, <1>2, <1>3, EditCardHolds, RequeueStuckHolds, MarkViberSentHolds DEF Next

\* Every reachable state is well typed.
THEOREM TypeCorrect == Spec => []TypeOK
<1>1. IInv => TypeOK
  BY DEF IInv
<1>2. QED
  BY <1>1, InitHolds, NextHolds, PTL DEF Spec

\* The log never calls a mail sent that the adapter has not accepted, whatever
\* crashes, expired runs and second runs of its job.
THEOREM SentIsAccepted == Spec => []SentWasAccepted
<1>1. IInv => SentWasAccepted
  BY DEF IInv
<1>2. QED
  BY <1>1, InitHolds, NextHolds, PTL DEF Spec

\* An event that counts as delivered has a row for every user its rules name,
\* failed rules apart.
THEOREM NobodyIsForgotten == Spec => []EveryoneHasARow
<1>1. IInv => EveryoneHasARow
  BY DEF IInv
<1>2. QED
  BY <1>1, InitHolds, NextHolds, PTL DEF Spec

\* An address is told of an event once, unless two runs of the event overlapped.
THEOREM ToldOnce == Spec => []OneRowPerAddress
<1>1. IInv => OneRowPerAddress
  <2> SUFFICES ASSUME IInv, NEW e \in Events, NEW a \in Addresses, e \notin twice
               PROVE  ~(Cardinality({n \in Runs : row[<<e, a, n>>].status # "none"}) > 1)
    BY DEF OneRowPerAddress
  <2> DEFINE copies == {n \in Runs : row[<<e, a, n>>].status # "none"}
  <2>1. \A m, n \in copies : m = n
    BY DEF IInv, Alone
  <2> HIDE DEF copies
  <2>2. CASE copies = {}
    <3>1. Cardinality(copies) = 0
      BY <2>2, FS_EmptySet
    <3>2. QED
      BY <3>1 DEF copies
  <2>3. CASE copies # {}
    <3>1. PICK n \in copies : copies = {n}
      BY <2>1, <2>3
    <3>2. Cardinality(copies) = 1
      BY <3>1, FS_Singleton
    <3>3. QED
      BY <3>2 DEF copies
  <2>4. QED
    BY <2>2, <2>3
<1>2. QED
  BY <1>1, InitHolds, NextHolds, PTL DEF Spec

-----------------------------------------------------------------------------
(* No mail is stranded *)

\* The mailer would report on the job.
Holds(M, x, jobs) == M.at # "idle" /\ M.row = x /\ M.try = jobs[x].tries

\* A step of one mailer: a job it held is still held by it, or no longer active.
LEMMA StillHeld ==
  ASSUME IInv, NoMailStranded, NEW w \in Mailers, NEW M, mailer' = [mailer EXCEPT ![w] = M],
         \A x \in Rows : job'[x].state = "active" =>
           /\ job'[x] = job[x]
           /\ Holds(mailer[w], x, job) => Holds(M, x, job)
  PROVE  NoMailStranded'
<1>1. mailer'[w] = M /\ \A v \in Mailers \ {w} : mailer'[v] = mailer[v]
  BY RowsAre
<1>2. ASSUME NEW x \in Rows, job'[x].state = "active" PROVE Held(x)'
  <2>1. job'[x] = job[x] /\ (Holds(mailer[w], x, job) => Holds(M, x, job))
    BY <1>2
  <2>2. PICK v \in Mailers : Holds(mailer[v], x, job)
    BY <1>2, <2>1 DEF NoMailStranded, Held, Holds
  <2>3. Holds(mailer'[v], x, job)
    BY <1>1, <2>1, <2>2
  <2>4. QED
    BY <2>1, <2>3 DEF Held, Holds
<1>3. QED
  BY <1>2 DEF NoMailStranded

\* A step that leaves the mailers alone and makes no job active.
LEMMA NoneHeld ==
  ASSUME NoMailStranded, mailer' = mailer,
         \A x \in Rows : job'[x].state = "active" => job'[x] = job[x]
  PROVE  NoMailStranded'
BY DEF NoMailStranded, Held

\* A mailer that reports ends the job it holds; the others are left alone.
LEMMA ReportEnds ==
  ASSUME IInv, NEW w \in Mailers, mailer[w].at # "idle", NEW next, Report(w, next),
         next.state # "active", NEW x \in Rows, job'[x].state = "active"
  PROVE  job'[x] = job[x] /\ ~Holds(mailer[w], x, job)
<1> DEFINE y == mailer[w].row
<1>1. y \in Rows /\ job \in [Rows -> JobRows]
  BY MailIs, JobsSame
<1>2. \/ job[y].state = "active" /\ job[y].tries = mailer[w].try /\ job' = [job EXCEPT ![y] = next]
      \/ ~(job[y].state = "active" /\ job[y].tries = mailer[w].try) /\ job' = job
  BY DEF Report
<1>3. QED
  BY <1>1, <1>2 DEF Holds

LEMMA EndStates == \A j \in JobRows : Retried(j).state # "active" /\ [j EXCEPT !.state = "over"].state # "active"
BY DEF Retried, JobRows

\* Every end of a run: it reports, and the mailer rests or goes on.
LEMMA EndHeld ==
  ASSUME IInv, NoMailStranded, NEW w \in Mailers, mailer[w].at # "idle",
         NEW next, Report(w, next), next.state # "active",
         mailer' = [mailer EXCEPT ![w] = NoMail] \/ mailer' = mailer
  PROVE  NoMailStranded'
<1>1. \A x \in Rows : job'[x].state = "active" => job'[x] = job[x] /\ ~Holds(mailer[w], x, job)
  BY ReportEnds
<1>2. QED
  BY <1>1, StillHeld, NoneHeld

LEMMA FetchHeld ==
  ASSUME IInv, NoMailStranded, NEW w \in Mailers, NEW x \in Rows, Fetch(w, x) PROVE NoMailStranded'
<1>1. job \in [Rows -> JobRows] /\ mailer[w].at = "idle" /\ mailer \in [Mailers -> Mails]
  BY JobsSame, RowsAre DEF Fetch
<1>2. CASE ~MaySend(x)
  <2>1. mailer' = mailer /\ job' = [job EXCEPT ![x].state = "over"]
    BY <1>2 DEF Fetch
  <2>2. \A y \in Rows : job'[y].state = "active" => job'[y] = job[y]
    BY <1>1, <2>1 DEF JobRows
  <2>3. QED
    BY <2>1, <2>2, NoneHeld
<1>3. CASE MaySend(x)
  <2> DEFINE M == [at |-> "send", row |-> x, try |-> job[x].tries, attempts |-> row[x].attempts + 1]
  <2>1. mailer' = [mailer EXCEPT ![w] = M] /\ job' = [job EXCEPT ![x].state = "active"]
    BY <1>3 DEF Fetch
  <2>2. M.at = "send" /\ M.row = x /\ M.try = job[x].tries
    OBVIOUS
  <2> HIDE DEF M
  <2>3. mailer'[w] = M /\ \A v \in Mailers \ {w} : mailer'[v] = mailer[v]
    BY <1>1, <2>1
  <2>4. job'[x].tries = job[x].tries /\ \A y \in Rows \ {x} : job'[y] = job[y]
    BY <1>1, <2>1 DEF JobRows
  <2>5. Held(x)'
    BY <2>2, <2>3, <2>4 DEF Held
  <2>6. ASSUME NEW y \in Rows \ {x}, job'[y].state = "active" PROVE Held(y)'
    <3>1. PICK v \in Mailers : mailer[v].at # "idle" /\ mailer[v].row = y /\ mailer[v].try = job[y].tries
      BY <2>4, <2>6 DEF NoMailStranded, Held
    <3>2. mailer'[v] = mailer[v]
      BY <1>1, <2>3, <3>1
    <3>3. QED
      BY <2>4, <3>1, <3>2 DEF Held
  <2>7. QED
    BY <2>5, <2>6 DEF NoMailStranded
<1>4. QED
  BY <1>2, <1>3

\* Between its ends a run goes on with the same job.
LEMMA GoesOnHeld ==
  ASSUME IInv, NoMailStranded, NEW w \in Mailers,
         MarkFails(w) \/ \E answer \in {"accepted", "refused"} : Adapter(w, answer)
  PROVE  NoMailStranded'
<1>1. PICK at \in {"accepted", "refused"} : mailer' = [mailer EXCEPT ![w].at = at] /\ job' = job
  BY DEF MarkFails, Adapter
<1>2. mailer[w] \in Mails
  BY RowsAre
<1> DEFINE M == [mailer[w] EXCEPT !.at = at]
<1>3. M.at # "idle" /\ M.row = mailer[w].row /\ M.try = mailer[w].try
  BY <1>2 DEF Mails
<1>4. mailer' = [mailer EXCEPT ![w] = M]
  BY <1>1
<1> HIDE DEF M
<1>5. \A x \in Rows : Holds(mailer[w], x, job) => Holds(M, x, job)
  BY <1>3 DEF Holds
<1>6. QED
  BY <1>1, <1>4, <1>5, StillHeld

LEMMA MailerHeld ==
  ASSUME IInv, NoMailStranded, NEW w \in Mailers, Mailer(w) PROVE NoMailStranded'
<1> DEFINE x == mailer[w].row
<1>1. ASSUME mailer[w].at # "idle"
      PROVE  Over(w).state # "active" /\ Retried(job[x]).state # "active"
  BY <1>1, MailIs, EndStates DEF Over
<1>2. CASE MarkSent(w)
  BY <1>1, <1>2, EndHeld DEF MarkSent
<1>3. CASE MarkError(w)
  <2>1. mailer[w].at # "idle" /\ mailer' = [mailer EXCEPT ![w] = NoMail]
        /\ (Report(w, Over(w)) \/ Report(w, Retried(job[x])))
    BY <1>3 DEF MarkError
  <2>2. QED
    BY <1>1, <2>1, EndHeld
<1>4. ASSUME NEW ends \in BOOLEAN, Expire(w, ends) PROVE NoMailStranded'
  <2>1. /\ mailer[w].at # "idle" /\ Report(w, Retried(job[x]))
        /\ mailer' = [mailer EXCEPT ![w] = NoMail] \/ mailer' = mailer
    BY <1>4 DEF Expire
  <2>2. QED
    BY <1>1, <2>1, EndHeld
<1>5. QED
  BY <1>2, <1>3, <1>4, FetchHeld, GoesOnHeld DEF Mailer

\* Sending a row to the queue makes no job active.
LEMMA QueuedHeld ==
  ASSUME IInv, NoMailStranded, NEW x \in Rows, job' = Queued(x), mailer' = mailer PROVE NoMailStranded'
<1>1. job' = job \/ job' = [job EXCEPT ![x] = [state |-> "queued", tries |-> 0]]
  BY DEF Queued
<1>2. \A y \in Rows : job'[y].state = "active" => job'[y] = job[y]
  BY <1>1, JobsSame
<1>3. QED
  BY <1>2, NoneHeld

LEMMA SubscriberHeld ==
  ASSUME IInv, NoMailStranded, NEW n \in Runs, Subscriber(n) PROVE NoMailStranded'
<1>1. CASE EnqueueMail(n)
  <2>1. call[n].row \in Rows
    BY <1>1 DEF EnqueueMail, IInv, CallsFit, Fits
  <2>2. QED
    BY <1>1, <2>1, QueuedHeld DEF EnqueueMail
<1>2. CASE UNCHANGED <<job, mailer>>
  BY <1>2, NoneHeld
<1>3. QED
  BY <1>1, <1>2 DEF Subscriber, Handle, Ask, Write, FailRule, Handled, CrashHandler

LEMMA NextHeld == IInv /\ NoMailStranded /\ [Next]_vars => NoMailStranded'
<1> SUFFICES ASSUME IInv, NoMailStranded, [Next]_vars PROVE NoMailStranded'
  OBVIOUS
<1>1. ASSUME NEW x \in Rows, RequeueStuck(x) \/ MarkViberSent(x) PROVE NoMailStranded'
  BY <1>1, QueuedHeld, NoneHeld DEF RequeueStuck, MarkViberSent
<1>2. ASSUME NEW better \in {"phone", "email"}, EditCard(better) PROVE NoMailStranded'
  BY <1>2, NoneHeld DEF EditCard
<1>3. CASE UNCHANGED vars
  BY <1>3, NoneHeld DEF vars
<1>4. QED
  BY <1>1, <1>2, <1>3, SubscriberHeld, MailerHeld DEF Next

\* No crash, expired run or late report leaves the queue waiting for a run that
\* nobody is in: what EveryMailSettles waits for cannot be lost.
THEOREM MailIsInHand == Spec => []NoMailStranded
<1>1. Init => NoMailStranded
  BY DEF Init, NoMailStranded, NoJob
<1>2. QED
  BY <1>1, InitHolds, NextHolds, NextHeld, PTL DEF Spec
=============================================================================
