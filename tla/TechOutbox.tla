------------------------------- MODULE TechOutbox -------------------------------
(***************************************************************************)
(* The technician's phone: taps on callbacks recorded in the outbox, the   *)
(* drain that sends them to /sync/push, the pull that replaces the local   *)
(* copies, and the server behind them: stored responses and the callback   *)
(* transition (apps/tech/src/sync/, platform/http.ts, CallbacksPage.tsx;   *)
(* apps/api/src/platform/http/idempotency.ts, http/sync.ts, callbacks/).   *)
(*                                                                         *)
(* Items of kind callback.event only; an item is named by its position,    *)
(* which is its createdAt order.  One page is open at a time.  A request   *)
(* the phone has given up on goes on in the server.                        *)
(***************************************************************************)
EXTENDS Integers, Sequences, FiniteSets

CONSTANTS
  Callbacks,   \* callbacks assigned to the technician
  OfficeTypes, \* transitions the office makes beside him
  MaxTaps,     \* bound: items the technician records
  MaxRequests, \* bound: push requests in the server at once
  MaxFaults,   \* bound: faults of the kinds below
  MaxRetries,  \* bound: presses of "try again" on failed items
  MaxOffice,   \* bound: transitions by the office
  Faults       \* kinds of faults that may occur

Items == 1..MaxTaps
Slots == 1..MaxRequests

Statuses == {"open", "dispatched", "on_site", "released", "restored", "closed"}
Taps == {"on_site", "released", "restored"}

ASSUME OutboxAssumption ==
  /\ MaxTaps \in Nat /\ MaxRequests \in Nat /\ MaxFaults \in Nat
  /\ MaxRetries \in Nat /\ MaxOffice \in Nat
  /\ OfficeTypes \subseteq Statuses \ {"open"}

VARIABLES
  outbox,   \* the outbox table: callback, type, status, nextAttemptAt in the future
  phone,    \* db.callbacks: the local copy of each callback, or "absent"
  reenroll, \* meta.needsReenroll
  drain,    \* the drain in flight
  pull,     \* the pull in flight
  session,  \* the device session is valid
  callback, \* the callback table
  timeline, \* the callback_event table, in the order of insertion
  stored,   \* the idempotency_key table: response by key
  unsaved,  \* responses sent and not yet stored
  request,  \* push requests in the server
  desk,     \* the transition the office is making
  gaveUp,   \* history: items that have been marked failed
  budget    \* faults, retries and office transitions still to come

vars == <<outbox, phone, reenroll, drain, pull, session, callback, timeline,
          stored, unsaved, request, desk, gaveUp, budget>>
phoneVars == <<outbox, phone, reenroll, drain, pull, gaveUp>>
tables == <<callback, timeline>>
answers == <<stored, unsaved>>

AllOpen == [c \in Callbacks |-> "open"]
DrainIdle == [at |-> "idle", item |-> 0, slot |-> 0, sentAny |-> FALSE]
PullIdle == [at |-> "idle", copies |-> AllOpen, unsent |-> {}]
NoRequest == [at |-> "none", item |-> 0, answer |-> "none"]
DeskIdle == [at |-> "idle", row |-> {}]

Init ==
  /\ outbox = <<>>
  /\ phone = [c \in Callbacks |-> "absent"]
  /\ reenroll = FALSE
  /\ drain = DrainIdle
  /\ pull = PullIdle
  /\ session = TRUE
  /\ callback = AllOpen
  /\ timeline = <<>>
  /\ stored = [i \in Items |-> "none"]
  /\ unsaved = {}
  /\ request = [s \in Slots |-> NoRequest]
  /\ desk = DeskIdle
  /\ gaveUp = {}
  /\ budget = [fault |-> MaxFaults, retry |-> MaxRetries, office |-> MaxOffice]

Spend(what) == budget[what] > 0 /\ budget' = [budget EXCEPT ![what] = @ - 1]
Fault(kind) == kind \in Faults /\ Spend("fault")

ItemsWith(statuses) == {i \in DOMAIN outbox : outbox[i].status \in statuses}
Unsent == ItemsWith({"pending", "sending", "failed"})

-----------------------------------------------------------------------------
(* The technician *)

\* The buttons a callback offers: each status and the taps it allows.
TapFrom(type) == CASE type = "on_site" -> {"open", "dispatched"}
                   [] type = "released" -> {"on_site"}
                   [] type = "restored" -> {"on_site", "released"}

\* The outbox row and the optimistic local status, in one transaction.
Tap(c, type) ==
  /\ ~reenroll /\ Len(outbox) < MaxTaps
  /\ phone[c] \in TapFrom(type)
  /\ outbox' = Append(outbox, [cb |-> c, type |-> type, status |-> "pending", waits |-> FALSE])
  /\ phone' = [phone EXCEPT ![c] = type]
  /\ UNCHANGED <<reenroll, drain, pull, session, tables, answers, request, desk, gaveUp, budget>>

RetryItem(i) ==
  /\ outbox[i].status = "failed" /\ Spend("retry")
  /\ outbox' = [outbox EXCEPT ![i].status = "pending", ![i].waits = FALSE]
  /\ UNCHANGED <<phone, reenroll, drain, pull, session, tables, answers, request, desk, gaveUp>>

BackoffElapses(i) ==
  /\ outbox[i].waits
  /\ outbox' = [outbox EXCEPT ![i].waits = FALSE]
  /\ UNCHANGED <<phone, reenroll, drain, pull, session, tables, answers, request, desk, gaveUp, budget>>

\* The owner ends the device session; the technician enrolls the phone again.
EndSession ==
  /\ session /\ Fault("session")
  /\ session' = FALSE
  /\ UNCHANGED <<phoneVars, tables, answers, request, desk>>

SaveSession ==
  /\ reenroll
  /\ session' = TRUE /\ reenroll' = FALSE
  /\ UNCHANGED <<outbox, phone, drain, pull, tables, answers, request, desk, gaveUp, budget>>

-----------------------------------------------------------------------------
(* The drain *)

PendingOnly == ItemsWith({"pending"})
Queued == ItemsWith({"pending", "sending"})

\* Start, online, focus, a tap, the service worker or the back-off timer.  With
\* nothing queued a run changes nothing.
StartDrain ==
  /\ drain.at = "idle" /\ ~reenroll
  /\ Queued # {}
  /\ outbox' = [i \in DOMAIN outbox |-> IF i \in Queued THEN [outbox[i] EXCEPT !.status = "pending"]
                                        ELSE outbox[i]]
  /\ drain' = [DrainIdle EXCEPT !.at = "pick"]
  /\ UNCHANGED <<phone, reenroll, pull, session, tables, answers, request, desk, gaveUp, budget>>

OldestDue == {i \in ItemsWith({"pending"}) :
                ~outbox[i].waits /\ \A j \in ItemsWith({"pending"}) : outbox[j].waits \/ i <= j}
Oldest == {i \in ItemsWith({"pending"}) : \A j \in ItemsWith({"pending"}) : i <= j}
FreeSlots == {s \in Slots : request[s].at = "none"}

\* The oldest pending item is marked and its request leaves.
SendItem ==
  /\ drain.at = "pick" /\ ~reenroll
  /\ \E i \in Oldest, s \in FreeSlots :
       /\ ~outbox[i].waits
       /\ outbox' = [outbox EXCEPT ![i].status = "sending"]
       /\ request' = [request EXCEPT ![s] = [at |-> "sent", item |-> i, answer |-> "none"]]
       /\ drain' = [drain EXCEPT !.at = "wait", !.item = i, !.slot = s]
  /\ UNCHANGED <<phone, reenroll, pull, session, tables, answers, desk, gaveUp, budget>>

\* The loop is left; after a successful send a pull is asked for.
Stopped == IF drain.sentAny THEN [DrainIdle EXCEPT !.at = "stop"] ELSE DrainIdle

StopDrain ==
  /\ drain.at = "pick"
  /\ reenroll \/ \A i \in Oldest : outbox[i].waits
  /\ drain' = Stopped
  /\ UNCHANGED <<outbox, phone, reenroll, pull, session, tables, answers, request, desk, gaveUp, budget>>

GoneOffline ==
  /\ drain.at = "pick" /\ Fault("offline")
  /\ drain' = Stopped
  /\ UNCHANGED <<outbox, phone, reenroll, pull, session, tables, answers, request, desk, gaveUp>>

FinishDrain ==
  /\ drain.at = "stop"
  /\ drain' = DrainIdle
  /\ pull' = IF pull.at = "idle" /\ ~reenroll THEN [PullIdle EXCEPT !.at = "asked"] ELSE pull
  /\ UNCHANGED <<outbox, phone, reenroll, session, tables, answers, request, desk, gaveUp, budget>>

Answer == request[drain.slot].answer
Answered(answer) ==
  /\ drain.at = "wait" /\ request[drain.slot].at = "answered" /\ Answer = answer
  /\ request' = [request EXCEPT ![drain.slot] = NoRequest]

\* Back in the queue, to be tried again after a while.
BackOff == outbox' = [outbox EXCEPT ![drain.item].status = "pending", ![drain.item].waits = TRUE]

\* 2xx: the server copy first (a stored answer carries the copy of its time), ...
ReceiveApplied ==
  /\ Answered("applied")
  /\ phone' = [phone EXCEPT ![outbox[drain.item].cb] = outbox[drain.item].type]
  /\ drain' = [drain EXCEPT !.at = "mark"]
  /\ UNCHANGED <<outbox, reenroll, pull, session, tables, answers, desk, gaveUp, budget>>

\* ... then the item.
MarkDone ==
  /\ drain.at = "mark"
  /\ outbox' = [outbox EXCEPT ![drain.item].status = "done"]
  /\ drain' = [DrainIdle EXCEPT !.at = "pick", !.sentAny = TRUE]
  /\ UNCHANGED <<phone, reenroll, pull, session, tables, answers, request, desk, gaveUp, budget>>

GiveUp ==
  /\ outbox' = [outbox EXCEPT ![drain.item].status = "failed"]
  /\ gaveUp' = gaveUp \cup {drain.item}
  /\ drain' = [drain EXCEPT !.at = "pick", !.item = 0, !.slot = 0]

ReceiveRefusal ==
  /\ Answered("refused")
  /\ GiveUp
  /\ UNCHANGED <<phone, reenroll, pull, session, tables, answers, desk, budget>>

\* Neither an ApiError nor a NetworkError (the body breaks off, IndexedDB is
\* full) is a permanent failure too, whatever the answer was.
ReceiveUnreadable ==
  /\ \E answer \in {"applied", "refused", "error", "unauthorized"} : Answered(answer)
  /\ Fault("body")
  /\ GiveUp
  /\ UNCHANGED <<phone, reenroll, pull, session, tables, answers, desk>>

ReceiveUnauthorized ==
  /\ Answered("unauthorized")
  /\ outbox' = [outbox EXCEPT ![drain.item].status = "pending"]
  /\ reenroll' = TRUE
  /\ drain' = Stopped
  /\ UNCHANGED <<phone, pull, session, tables, answers, desk, gaveUp, budget>>

ReceiveError ==
  /\ Answered("error")
  /\ BackOff
  /\ drain' = Stopped
  /\ UNCHANGED <<phone, reenroll, pull, session, tables, answers, desk, gaveUp, budget>>

\* NetworkError: the connection is gone, or the phone stops waiting while the
\* server goes on.
ReceiveNothing ==
  /\ drain.at = "wait"
  /\ \/ /\ request[drain.slot].at = "dead"
        /\ request' = [request EXCEPT ![drain.slot] = NoRequest]
        /\ budget' = budget
     \/ /\ Fault("timeout")
        /\ \/ request' = request
           \/ /\ request[drain.slot].at = "sent"   \* it never arrives
              /\ request' = [request EXCEPT ![drain.slot] = NoRequest]
  /\ BackOff
  /\ drain' = Stopped
  /\ UNCHANGED <<phone, reenroll, pull, session, tables, answers, desk, gaveUp>>

\* The page is closed or killed; what is in the database stays.
ClosePage ==
  /\ drain.at # "idle" \/ pull.at # "idle"
  /\ Fault("close")
  /\ drain' = DrainIdle /\ pull' = PullIdle
  /\ UNCHANGED <<outbox, phone, reenroll, session, tables, answers, request, desk, gaveUp>>

-----------------------------------------------------------------------------
(* The server: a push request *)

Allowed(from) == CASE from \in {"open", "dispatched"} -> {"dispatched", "on_site", "closed"}
                   [] from = "on_site" -> {"released", "restored", "closed"}
                   [] from = "released" -> {"restored", "closed"}
                   [] from = "restored" -> {"closed"}
                   [] from = "closed" -> {}

Respond(s, answer) ==
  request' = [request EXCEPT ![s].at = "answered", ![s].answer = answer]

\* Who is waiting for the answer of a request.
Awaited(s) == drain.at = "wait" /\ drain.slot = s

\* Authentication, then the stored response of an earlier identical request.
Lookup(s) ==
  /\ request[s].at = "sent"
  /\ LET i == request[s].item
     IN \/ ~session /\ Respond(s, "unauthorized")
        \/ session /\ stored[i] # "none" /\ Respond(s, stored[i])
        \/ /\ session /\ stored[i] = "none"
           /\ request' = [request EXCEPT ![s].at = "load"]
  /\ UNCHANGED <<phoneVars, session, tables, answers, desk, budget>>

RefuseAsDuplicate(s) ==
  /\ Respond(s, "applied")
  /\ unsaved' = unsaved \cup {<<request[s].item, "applied">>}
Refuse(s) ==
  /\ Respond(s, "refused")
  /\ unsaved' = unsaved \cup {<<request[s].item, "refused">>}

\* The transaction reads the callback without a lock and checks the transition.
LoadCallback(s) ==
  /\ request[s].at = "load"
  /\ LET item == outbox[request[s].item]
     IN \/ item.type \notin Allowed(callback[item.cb]) /\ Refuse(s)
        \/ /\ item.type \in Allowed(callback[item.cb])
           /\ request' = [request EXCEPT ![s].at = "commit"]
           /\ unsaved' = unsaved
  /\ UNCHANGED <<phoneVars, session, tables, stored, desk, budget>>

\* Another refusal: the time is in the future, the callback is gone, ...
RefuseInvalid(s) ==
  /\ request[s].at = "load" /\ Fault("invalid")
  /\ Refuse(s)
  /\ UNCHANGED <<phoneVars, session, tables, stored, desk>>

Write(c, type, i) ==
  /\ callback' = [callback EXCEPT ![c] = type]
  /\ timeline' = Append(timeline, [cb |-> c, type |-> type, item |-> i])

CommitTransition(s) ==
  /\ request[s].at = "commit"
  /\ Write(outbox[request[s].item].cb, outbox[request[s].item].type, request[s].item)
  /\ request' = [request EXCEPT ![s].at = "publish"]
  /\ UNCHANGED <<phoneVars, session, answers, desk, budget>>

\* The event is published, the response is sent and stored in the background.
RespondApplied(s) ==
  /\ request[s].at = "publish"
  /\ Respond(s, "applied")
  /\ unsaved' = unsaved \cup {<<request[s].item, "applied">>}
  /\ UNCHANGED <<phoneVars, session, tables, stored, desk, budget>>

RespondError(s) ==
  /\ request[s].at \in {"sent", "load", "commit", "publish"} /\ Fault("error")
  /\ Respond(s, "error")
  /\ UNCHANGED <<phoneVars, session, tables, answers, desk>>

\* The first response under a key stays.
SaveResponse(r) ==
  /\ r \in unsaved
  /\ unsaved' = unsaved \ {r}
  /\ stored' = IF stored[r[1]] = "none" THEN [stored EXCEPT ![r[1]] = r[2]] ELSE stored
  /\ UNCHANGED <<phoneVars, session, tables, request, desk, budget>>

\* Seven days have passed.
ForgetResponse(i) ==
  /\ stored[i] # "none" /\ Fault("expiry")
  /\ stored' = [stored EXCEPT ![i] = "none"]
  /\ UNCHANGED <<phoneVars, session, tables, unsaved, request, desk>>

\* An answer nobody waits for, or a request that broke off.
DropAnswer(s) ==
  /\ request[s].at \in {"answered", "dead"} /\ ~Awaited(s)
  /\ request' = [request EXCEPT ![s] = NoRequest]
  /\ UNCHANGED <<phoneVars, session, tables, answers, desk, budget>>

\* A deployment or a crash: what was committed stays.
Restart ==
  /\ Fault("restart")
  /\ request' = [s \in Slots |-> IF request[s].at = "none" THEN NoRequest
                                 ELSE [request[s] EXCEPT !.at = "dead"]]
  /\ unsaved' = {} /\ desk' = DeskIdle
  /\ UNCHANGED <<phoneVars, session, tables, stored>>

-----------------------------------------------------------------------------
(* The server: the office, and the pull *)

OfficeLoads(c, type) ==
  /\ desk.at = "idle" /\ type \in Allowed(callback[c]) /\ Spend("office")
  /\ desk' = [at |-> "commit", row |-> {<<c, type>>}]
  /\ UNCHANGED <<phoneVars, session, tables, answers, request>>

OfficeCommits ==
  /\ desk.at = "commit"
  /\ \E r \in desk.row : Write(r[1], r[2], 0)
  /\ desk' = DeskIdle
  /\ UNCHANGED <<phoneVars, session, answers, request, budget>>

StartPull ==
  /\ pull.at = "idle" /\ ~reenroll
  /\ pull' = [PullIdle EXCEPT !.at = "asked"]
  /\ UNCHANGED <<outbox, phone, reenroll, drain, session, tables, answers, request, desk, gaveUp, budget>>

\* GET /sync/pull: the open callbacks as they are, or 401.
ServePull ==
  /\ pull.at = "asked"
  /\ \/ session /\ pull' = [pull EXCEPT !.at = "served", !.copies = callback] /\ reenroll' = reenroll
     \/ ~session /\ pull' = PullIdle /\ reenroll' = TRUE
  /\ UNCHANGED <<outbox, phone, drain, session, tables, answers, request, desk, gaveUp, budget>>

PullFails ==
  /\ pull.at \in {"asked", "served"} /\ Fault("timeout")
  /\ pull' = PullIdle
  /\ UNCHANGED <<outbox, phone, reenroll, drain, session, tables, answers, request, desk, gaveUp>>

\* applyPull reads the outbox before the transaction that replaces the callbacks.
ReadUnsent ==
  /\ pull.at = "served"
  /\ pull' = [pull EXCEPT !.at = "apply", !.unsent = Unsent]
  /\ UNCHANGED <<outbox, phone, reenroll, drain, session, tables, answers, request, desk, gaveUp, budget>>

Rank(status) == CASE status = "open" -> 0 [] status = "dispatched" -> 1
                  [] status = "on_site" -> 2 [] status = "released" -> 3
                  [] status = "restored" -> 4 [] status = "closed" -> 5

\* applyOptimistic: the furthest of the server's status and the unsent taps.
Ahead(c, status, unsent) ==
  LET claims == {status} \cup {outbox[i].type : i \in {j \in unsent : outbox[j].cb = c}}
  IN  CHOOSE t \in claims : \A u \in claims : Rank(u) <= Rank(t)
ShownWithClosed(copies, unsent) == [c \in Callbacks |-> Ahead(c, copies[c], unsent)]
Shown(copies, unsent) ==
  [c \in Callbacks |-> IF copies[c] = "closed" THEN "absent" ELSE Ahead(c, copies[c], unsent)]

ApplyPull ==
  /\ pull.at = "apply"
  /\ phone' = Shown(pull.copies, pull.unsent)
  /\ pull' = PullIdle
  /\ UNCHANGED <<outbox, reenroll, drain, session, tables, answers, request, desk, gaveUp, budget>>

Receive == \/ ReceiveApplied \/ ReceiveRefusal \/ ReceiveUnauthorized
           \/ ReceiveError \/ ReceiveNothing
Serve(s) == \/ Lookup(s) \/ LoadCallback(s) \/ CommitTransition(s) \/ RespondApplied(s)
            \/ DropAnswer(s)

Next ==
  \/ \E c \in Callbacks, type \in Taps : Tap(c, type)
  \/ \E i \in DOMAIN outbox : RetryItem(i) \/ BackoffElapses(i)
  \/ EndSession \/ SaveSession
  \/ StartDrain \/ SendItem \/ StopDrain \/ GoneOffline \/ FinishDrain
  \/ Receive \/ MarkDone \/ ReceiveUnreadable \/ ClosePage
  \/ \E s \in Slots : Serve(s) \/ RefuseInvalid(s) \/ RespondError(s)
  \/ (\E r \in unsaved : SaveResponse(r)) \/ (\E i \in Items : ForgetResponse(i)) \/ Restart
  \/ (\E c \in Callbacks, type \in OfficeTypes : OfficeLoads(c, type)) \/ OfficeCommits
  \/ StartPull \/ ServePull \/ PullFails \/ ReadUnsent \/ ApplyPull

Spec == Init /\ [][Next]_vars

\* The page, while open, runs its drain and pulls every 15 minutes; the technician
\* comes back to it and enrolls it again when asked; the server answers.
Fairness ==
  /\ WF_vars(StartDrain) /\ WF_vars(SendItem) /\ WF_vars(StopDrain) /\ WF_vars(FinishDrain)
  /\ WF_vars(Receive) /\ WF_vars(MarkDone) /\ WF_vars(SaveSession)
  /\ \A i \in Items : WF_vars(i \in DOMAIN outbox /\ BackoffElapses(i))
  /\ \A s \in Slots : WF_vars(Serve(s))
  /\ WF_vars(OfficeCommits)
  /\ WF_vars(StartPull) /\ WF_vars(ServePull) /\ WF_vars(ReadUnsent) /\ WF_vars(ApplyPull)
FairSpec == Spec /\ Fairness

-----------------------------------------------------------------------------
(* Properties *)

Applied(i) == \E n \in DOMAIN timeline : timeline[n].item = i

\* Every variable keeps its shape.
TypeOK ==
  /\ outbox \in Seq([cb : Callbacks, type : Taps, waits : BOOLEAN,
                     status : {"pending", "sending", "failed", "done"}])
  /\ Len(outbox) <= MaxTaps
  /\ phone \in [Callbacks -> Statuses \cup {"absent"}]
  /\ reenroll \in BOOLEAN /\ session \in BOOLEAN
  /\ drain \in [at : {"idle", "pick", "wait", "mark", "stop"}, item : {0} \cup DOMAIN outbox,
                slot : {0} \cup Slots, sentAny : BOOLEAN]
  /\ drain.at = "wait" => drain.slot \in Slots
  /\ drain.at \in {"wait", "mark"} => drain.item \in DOMAIN outbox
  /\ pull \in [at : {"idle", "asked", "served", "apply"}, unsent : SUBSET DOMAIN outbox,
               copies : [Callbacks -> Statuses]]
  /\ callback \in [Callbacks -> Statuses]
  /\ timeline \in Seq([cb : Callbacks, type : Statuses, item : {0} \cup Items])
  /\ stored \in [Items -> {"none", "applied", "refused"}]
  /\ unsaved \subseteq (Items \X {"applied", "refused"})
  /\ request \in [Slots -> [at : {"none", "sent", "load", "commit", "publish", "answered", "dead"},
                            item : {0} \cup Items,
                            answer : {"none", "applied", "refused", "error", "unauthorized"}]]
  /\ \A s \in Slots : request[s].at # "none" => request[s].item \in DOMAIN outbox
  /\ desk \in [at : {"idle", "commit"}, row : SUBSET (Callbacks \X Statuses)]
  /\ gaveUp \subseteq DOMAIN outbox
  /\ budget \in [fault : 0..MaxFaults, retry : 0..MaxRetries, office : 0..MaxOffice]

\* What the phone shows as sent has taken effect on the server, through lost
\* answers, stored responses, restarts and closed pages.
DoneMeansApplied == \A i \in ItemsWith({"done"}) : Applied(i)

\* Taps take effect in the order they were made; only an item that was marked
\* failed can be overtaken.
TapsInOrder ==
  \A n \in DOMAIN timeline : \A i \in Items :
    i < timeline[n].item => i \in gaveUp \/ \E m \in 1..(n - 1) : timeline[m].item = i

\* What EveryItemSettles waits for is never lost: a drain that waits has its
\* request in the server, which will answer or break off, and an item is
\* "sending" only while the drain works on it or after its page was closed,
\* when the next drain queues it again (run, sync/outbox.ts).
NobodyWaitsInVain ==
  /\ drain.at = "wait" => /\ request[drain.slot].at # "none"
                          /\ request[drain.slot].item = drain.item
  /\ \A i \in ItemsWith({"sending"}) :
       drain.at = "idle" \/ (drain.at \in {"wait", "mark"} /\ drain.item = i)

\* Every recorded item is eventually sent or marked failed.
EveryItemSettles ==
  \A i \in Items : i \in ItemsWith({"pending", "sending"}) ~> i \in ItemsWith({"done", "failed"})

\* The phone ends up showing the server's open callbacks, except for taps that
\* are still in the queue or have failed.
PhoneCatchesUp ==
  <>[](\A c \in Callbacks :
         IF callback[c] = "closed" THEN phone[c] = "absent"
         ELSE \/ phone[c] = callback[c]
              \/ \E i \in Unsent : outbox[i].cb = c /\ outbox[i].type = phone[c])
=============================================================================
