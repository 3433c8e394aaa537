---------------------------- MODULE Notifications ----------------------------
(***************************************************************************)
(* Notifications: the subscriber that turns an event into delivery-log     *)
(* rows, and the job that mails them                                       *)
(* (apps/api/src/modules/notifications: service.ts, repo/notifications.ts; *)
(* jobs.ts for the sweep).                                                 *)
(*                                                                         *)
(* The bus is taken as EventBus shows it: an event is delivered until a    *)
(* run of the subscriber ends, and two runs of one event overlap only      *)
(* after a fault.  pg-boss keeps one job per row, and fetches, retries and *)
(* expires as in EventBus.  Rows are named by event, address and a number  *)
(* (the table has no unique key; one per run is enough).  The text, the    *)
(* templates and the dunning override of the channel are left out, SMS is  *)
(* handled like e-mail, and a template that is missing fails its rule.     *)
(***************************************************************************)
EXTENDS Integers, FiniteSets

CONSTANTS
  Events,       \* events that rules match
  Users,        \* notifiable users of the tenant
  StaffRules,   \* rules for users of the tenant
  ContactRules, \* e-mail rules for the contact of the building, Viber as fallback
  Channel,      \* channel of a staff rule: [StaffRules -> Channels]
  Staff,        \* users a staff rule resolves to: [StaffRules -> SUBSET Users]
  Contact,      \* the contact person, as an address
  NoOne,        \* the address of a row that is skipped
  MaxRuns,      \* runs of the subscriber in parallel
  Mailers,      \* runs of notifications.deliver in parallel
  RetryLimit,   \* pg-boss retries of a deliver job
  MaxSend,      \* MAX_SEND_ATTEMPTS
  MaxFaults     \* bound: errors of the database and the adapter, crashes, expired runs

Rules == StaffRules \cup ContactRules
Channels == {"in_app", "email", "viber_link"}
Addresses == Channels \X (Users \cup {Contact, NoOne})
Runs == 1..MaxRuns
Rows == Events \X Addresses \X Runs

ASSUME NotificationsAssumption ==
  /\ StaffRules \cap ContactRules = {}
  /\ Contact \notin Users /\ NoOne \notin Users \cup {Contact}
  /\ Channel \in [StaffRules -> Channels] /\ Staff \in [StaffRules -> SUBSET Users]
  /\ MaxRuns \in Nat /\ RetryLimit \in Nat /\ MaxSend \in Nat \ {0} /\ MaxFaults \in Nat

VARIABLES
  delivery, \* what the bus knows of the subscriber: due or done, per event
  card,     \* how the contact of the building can be reached: email, phone, none
  call,     \* the handleEvent each run is in
  row,      \* the notification table
  job,      \* the deliver job of each row
  mailer,   \* the deliver each mailer is in
  accepted, \* history: rows the adapter has accepted
  broken,   \* history: rules that failed, with their event
  twice,    \* history: events whose runs overlapped
  faults    \* faults still to come

vars == <<delivery, card, call, row, job, mailer, accepted, broken, twice, faults>>

NoRow == [status |-> "none", attempts |-> 0]
NoJob == [state |-> "none", tries |-> 0]
NoCall == [at |-> "idle", event |-> "none", todo |-> {}, rule |-> "none", row |-> <<>>]
NoMail == [at |-> "idle", row |-> <<>>, try |-> 0, attempts |-> 0]

Init ==
  /\ delivery = [e \in Events |-> "due"]
  /\ card = "none"
  /\ call = [n \in Runs |-> NoCall]
  /\ row = [x \in Rows |-> NoRow]
  /\ job = [x \in Rows |-> NoJob]
  /\ mailer = [w \in Mailers |-> NoMail]
  /\ accepted = {}
  /\ broken = {} /\ twice = {}
  /\ faults = MaxFaults

Fault == faults > 0 /\ faults' = faults - 1
Becomes(n, next) == call' = [call EXCEPT ![n] = next]

\* Somebody completes the card of the building's contact (bound: once, while it matters).
EditCard(better) ==
  /\ \E e \in Events : delivery[e] = "due"
  /\ card = "none" /\ better \in {"phone", "email"}
  /\ card' = better
  /\ UNCHANGED <<delivery, call, row, job, mailer, accepted, broken, twice, faults>>

-----------------------------------------------------------------------------
(* handleEvent *)

\* The addresses of a rule; a contact without e-mail gets a Viber link, without
\* a phone a row that says why nothing was sent.
Targets(r) ==
  IF r \in StaffRules THEN {<<Channel[r], u>> : u \in Staff[r]}
  ELSE CASE card = "email" -> {<<"email", Contact>>}
         [] card = "phone" -> {<<"viber_link", Contact>>}
         [] OTHER -> {<<"email", NoOne>>}

\* The bus runs the subscriber; a second run of one event comes after a fault.
\* Rules, users and contacts are read once; their order is left open.
Handle(n, e) ==
  /\ call[n].at = "idle" /\ delivery[e] = "due"
  /\ \A o \in 1..n - 1 : call[o].at # "idle"   \* runs are alike: the first that is idle
  /\ LET running == \E o \in Runs : call[o].at # "idle" /\ call[o].event = e
     IN /\ IF running THEN Fault ELSE UNCHANGED faults
        /\ twice' = IF running THEN twice \cup {e} ELSE twice
  /\ Becomes(n, [NoCall EXCEPT !.at = "ask", !.event = e,
                               !.todo = UNION {{r} \X Targets(r) : r \in Rules}])
  /\ UNCHANGED <<delivery, card, row, job, mailer, accepted, broken>>

\* One recipient of a rule, or the rule, is done with.
Past(n, r, gone) ==
  Becomes(n, [call[n] EXCEPT !.at = "ask", !.todo = @ \ ({r} \X gone), !.rule = "none",
                             !.row = <<>>])

\* existsForEvent
ExistsNever(e, a) == e \notin Events
ExistsForEvent(e, a) == \E b \in Addresses, n \in Runs : row[<<e, b, n>>].status # "none"
Exists(e, a) == \E n \in Runs : row[<<e, a, n>>].status # "none"

\* The name of one more row for an address.
Copy(e, a) ==
  LET taken == {x \in Rows : row[x].status # "none" \/ \E n \in Runs : call[n].row = x}
  IN CHOOSE i \in Runs : <<e, a, i>> \in taken => \A k \in Runs : <<e, a, k>> \in taken

\* sendOnce and skipped ask first,
Ask(n, r, a) ==
  /\ call[n].at = "ask" /\ <<r, a>> \in call[n].todo
  /\ IF Exists(call[n].event, a) THEN Past(n, r, {a})
     ELSE Becomes(n, [call[n] EXCEPT !.at = "write", !.rule = r,
                                     !.row = <<call[n].event, a, Copy(call[n].event, a)>>])
  /\ UNCHANGED <<delivery, card, row, job, mailer, accepted, broken, twice, faults>>

\* and then send writes the row: shown in the app at once, sent by hand, or queued.
FirstStatus(a) ==
  CASE a[2] = NoOne -> "skipped" [] a[1] = "in_app" -> "sent" [] OTHER -> "queued"
IsMailed(a) == a[1] = "email" /\ a[2] # NoOne
MailRows == {x \in Rows : IsMailed(x[2])}

Write(n) ==
  /\ call[n].at = "write"
  /\ LET x == call[n].row
     IN /\ row' = [row EXCEPT ![x].status = FirstStatus(x[2])]
        /\ IF IsMailed(x[2]) THEN Becomes(n, [call[n] EXCEPT !.at = "enqueue"])
           ELSE Past(n, call[n].rule, {x[2]})
  /\ UNCHANGED <<delivery, card, job, mailer, accepted, broken, twice, faults>>

\* boss.send with the row's singleton key.
Queued(x) == IF job[x].state \in {"queued", "active"} THEN job
             ELSE [job EXCEPT ![x] = [state |-> "queued", tries |-> 0]]

EnqueueMail(n) ==
  /\ call[n].at = "enqueue"
  /\ job' = Queued(call[n].row)
  /\ Past(n, call[n].rule, {call[n].row[2]})
  /\ UNCHANGED <<delivery, card, row, mailer, accepted, broken, twice, faults>>

\* An error is logged and ends the rule; the others go on.
FailRule(n, r) ==
  /\ \/ call[n].at = "ask" /\ \E a \in Addresses : <<r, a>> \in call[n].todo
     \/ call[n].at \in {"write", "enqueue"} /\ call[n].rule = r
  /\ Fault
  /\ broken' = broken \cup {<<call[n].event, r>>}
  /\ Past(n, r, Addresses)
  /\ UNCHANGED <<delivery, card, row, job, mailer, accepted, twice>>

Handled(n) ==
  /\ call[n].at = "ask" /\ call[n].todo = {}
  /\ delivery' = [delivery EXCEPT ![call[n].event] = "done"]
  /\ Becomes(n, NoCall)
  /\ UNCHANGED <<card, row, job, mailer, accepted, broken, twice, faults>>

\* A restart, or an error before the first rule: the bus delivers again.
CrashHandler(n) ==
  /\ call[n].at # "idle"
  /\ Fault
  /\ Becomes(n, NoCall)
  /\ UNCHANGED <<delivery, card, row, job, mailer, accepted, broken, twice>>

-----------------------------------------------------------------------------
(* deliver, and the sweep *)

Retried(j) == IF j.tries < RetryLimit THEN [state |-> "queued", tries |-> j.tries + 1]
              ELSE [j EXCEPT !.state = "over"]

\* The end of a run reaches the queue only while the run has not expired.
Report(w, next) ==
  LET x == mailer[w].row
  IN job' = IF job[x].state = "active" /\ job[x].tries = mailer[w].try
            THEN [job EXCEPT ![x] = next] ELSE job

Over(w) == [job[mailer[w].row] EXCEPT !.state = "over"]

\* Only a queued row is sent.
MaySend(x) == row[x].status = "queued"

\* A worker fetches the job and reads the row.
Fetch(w, x) ==
  /\ mailer[w].at = "idle" /\ job[x].state = "queued"
  /\ job' = [job EXCEPT ![x].state = IF MaySend(x) THEN "active" ELSE "over"]
  /\ mailer' = IF ~MaySend(x) THEN mailer
               ELSE [mailer EXCEPT ![w] = [at |-> "send", row |-> x, try |-> job[x].tries,
                                           attempts |-> row[x].attempts + 1]]
  /\ UNCHANGED <<delivery, card, call, row, accepted, broken, twice, faults>>

\* The adapter takes the message, or refuses it.
Adapter(w, answer) ==
  /\ mailer[w].at = "send"
  /\ accepted' = IF answer = "accepted" THEN accepted \cup {mailer[w].row} ELSE accepted
  /\ IF answer = "refused" THEN Fault ELSE UNCHANGED faults
  /\ mailer' = [mailer EXCEPT ![w].at = answer]
  /\ UNCHANGED <<delivery, card, call, row, job, broken, twice>>

Sent(x, attempts) == [row EXCEPT ![x] = [status |-> "sent", attempts |-> attempts]]

MarkSent(w) ==
  /\ mailer[w].at = "accepted"
  /\ row' = Sent(mailer[w].row, mailer[w].attempts)
  /\ Report(w, Over(w))
  /\ mailer' = [mailer EXCEPT ![w] = NoMail]
  /\ UNCHANGED <<delivery, card, call, accepted, broken, twice, faults>>

\* The write fails inside the try: the message counts as not sent.
MarkFails(w) ==
  /\ mailer[w].at = "accepted"
  /\ Fault
  /\ mailer' = [mailer EXCEPT ![w].at = "refused"]
  /\ UNCHANGED <<delivery, card, call, row, job, accepted, broken, twice>>

Final(attempts) == attempts >= MaxSend

MarkError(w) ==
  /\ mailer[w].at = "refused"
  /\ LET x == mailer[w].row
         n == mailer[w].attempts
     IN IF Final(n) THEN /\ row' = [row EXCEPT ![x] = [status |-> "failed", attempts |-> n]]
                         /\ Report(w, Over(w))
        ELSE /\ row' = [row EXCEPT ![x].attempts = n]
             /\ Report(w, Retried(job[x]))
  /\ mailer' = [mailer EXCEPT ![w] = NoMail]
  /\ UNCHANGED <<delivery, card, call, accepted, broken, twice, faults>>

\* A run takes longer than 60 s and goes on, or its process ends.
Expire(w, ends) ==
  /\ mailer[w].at # "idle"
  /\ Fault
  /\ Report(w, Retried(job[mailer[w].row]))
  /\ mailer' = IF ends THEN [mailer EXCEPT ![w] = NoMail] ELSE mailer
  /\ UNCHANGED <<delivery, card, call, row, accepted, broken, twice>>

\* listStuckQueued: rows of the mailed channels that are still queued.
StuckNeverEnqueued(x) == IsMailed(x[2]) /\ row[x].status = "queued" /\ job[x].state = "none"
Stuck(x) == IsMailed(x[2]) /\ row[x].status = "queued"

RequeueStuck(x) ==
  /\ Stuck(x) /\ job[x].state \notin {"queued", "active"}
  /\ job' = Queued(x)
  /\ UNCHANGED <<delivery, card, call, row, mailer, accepted, broken, twice, faults>>

\* markSent: the office has sent the Viber text by hand.
MarkViberSent(x) ==
  /\ x[2][1] = "viber_link" /\ row[x].status = "queued"
  /\ row' = [row EXCEPT ![x].status = "sent"]
  /\ UNCHANGED <<delivery, card, call, job, mailer, accepted, broken, twice, faults>>

-----------------------------------------------------------------------------

Subscriber(n) ==
  \/ \E e \in Events : Handle(n, e)
  \/ \E r \in Rules : (\E a \in Addresses : Ask(n, r, a)) \/ FailRule(n, r)
  \/ Write(n) \/ EnqueueMail(n) \/ Handled(n) \/ CrashHandler(n)

Mailer(w) ==
  \/ \E x \in Rows : Fetch(w, x)
  \/ MarkSent(w) \/ MarkFails(w) \/ MarkError(w)
  \/ \E answer \in {"accepted", "refused"} : Adapter(w, answer)
  \/ \E ends \in BOOLEAN : Expire(w, ends)

Next ==
  \/ \E better \in {"phone", "email"} : EditCard(better)
  \/ \E n \in Runs : Subscriber(n)
  \/ \E w \in Mailers : Mailer(w)
  \/ \E x \in Rows : RequeueStuck(x) \/ MarkViberSent(x)

Spec == Init /\ [][Next]_vars

\* The worker runs: subscribers and mailers go on, and the sweep comes.
Fairness ==
  /\ \A n \in Runs : WF_vars(Subscriber(n))
  /\ \A w \in Mailers : WF_vars(Mailer(w))
  /\ \A x \in MailRows : WF_vars(RequeueStuck(x))

FairSpec == Spec /\ Fairness

-----------------------------------------------------------------------------
(* Properties *)

Calls == [at : {"idle", "ask", "write", "enqueue"}, event : Events \cup {"none"},
          todo : SUBSET (Rules \X Addresses), rule : Rules \cup {"none"}, row : Rows \cup {<<>>}]
JobRows == [state : {"none", "queued", "active", "over"}, tries : 0..RetryLimit]
Mails == [at : {"idle", "send", "accepted", "refused"}, row : Rows \cup {<<>>},
          try : 0..RetryLimit, attempts : Nat]

\* Every row, job and call is one the code can be in, and no job of the queue
\* tries more often than it may.
TypeOK ==
  /\ delivery \in [Events -> {"due", "done"}]
  /\ card \in {"none", "phone", "email"}
  /\ call \in [Runs -> Calls]
  /\ row \in [Rows -> [status : {"none", "queued", "sent", "failed", "skipped"}, attempts : Nat]]
  /\ job \in [Rows -> JobRows]
  /\ mailer \in [Mailers -> Mails]
  /\ accepted \subseteq Rows /\ broken \subseteq Events \X Rules /\ twice \subseteq Events
  /\ faults \in 0..MaxFaults

\* A mail the log calls sent was accepted by the adapter (deliver, service.ts:322),
\* also when a second run of the job marks the row after the first.
SentWasAccepted ==
  \A x \in Rows : row[x].status = "sent" /\ IsMailed(x[2]) => x \in accepted

\* "Idempotent per (event, channel, recipient)" (handleEvent, sendOnce): an address has
\* one row per event, unless two runs of the event overlapped.
OneRowPerAddress ==
  \A e \in Events, a \in Addresses :
    Cardinality({n \in Runs : row[<<e, a, n>>].status # "none"}) > 1 => e \in twice

\* When an event counts as delivered, every user its rules name has a row, unless
\* that rule failed (handleEvent swallows the error, so nobody tries again).
EveryoneHasARow ==
  \A e \in Events, r \in StaffRules :
    delivery[e] = "done" /\ <<e, r>> \notin broken
      => \A u \in Staff[r] : \E n \in Runs : row[<<e, <<Channel[r], u>>, n>>].status # "none"

\* What EveryMailSettles waits for is never lost: a job the queue takes for
\* running is in the hands of a mailer whose end will reach the queue, so a
\* queued mail is being sent, waits in the queue, or is found by requeueStuck.
Held(x) == \E w \in Mailers : /\ mailer[w].at # "idle" /\ mailer[w].row = x
                               /\ mailer[w].try = job[x].tries
NoMailStranded == \A x \in Rows : job[x].state = "active" => Held(x)

\* Every mail of the log is sent or given up in the end (requeueStuck, jobs.ts:296),
\* whatever crashes, errors and used-up retries it meets.
EveryMailSettles ==
  \A x \in MailRows : row[x].status = "queued" ~> row[x].status \in {"sent", "failed"}
=============================================================================
