----------------------------- MODULE TechOutboxProofs -----------------------------
(***************************************************************************)
(* Proofs about the outbox, for any number of taps, requests, retries and  *)
(* faults of every kind.                                                   *)
(***************************************************************************)
EXTENDS TechOutbox, SequenceTheorems, TLAPS

ItemStates == {"pending", "sending", "failed", "done"}
Item == [cb : Callbacks, type : Taps, waits : BOOLEAN, status : ItemStates]
DrainAts == {"idle", "pick", "wait", "mark", "stop"}
RequestAts == {"none", "sent", "load", "commit", "publish", "answered", "dead"}
AllAnswers == {"none", "applied", "refused", "error", "unauthorized"}
Request == [at : RequestAts, item : {0} \cup Items, answer : AllAnswers]
Entry == [cb : Callbacks, type : Statuses, item : {0} \cup Items]

-----------------------------------------------------------------------------
(* The type invariant in parts *)

OutboxTyped == outbox \in Seq(Item) /\ Len(outbox) <= MaxTaps
DrainTyped ==
  /\ drain \in [at : DrainAts, item : {0} \cup Items, slot : {0} \cup Slots, sentAny : BOOLEAN]
  /\ drain.item = 0 \/ drain.item \in DOMAIN outbox
  /\ drain.at = "wait" => drain.slot \in Slots
  /\ drain.at \in {"wait", "mark"} => drain.item # 0
PullTyped ==
  /\ pull \in [at : {"idle", "asked", "served", "apply"}, unsent : SUBSET Items,
               copies : [Callbacks -> Statuses]]
  /\ pull.unsent \subseteq DOMAIN outbox
RequestTyped ==
  /\ request \in [Slots -> Request]
  /\ \A s \in Slots : request[s].at # "none" => request[s].item \in DOMAIN outbox
ServerTyped ==
  /\ callback \in [Callbacks -> Statuses]
  /\ timeline \in Seq(Entry)
  /\ desk \in [at : {"idle", "commit"}, row : SUBSET (Callbacks \X Statuses)]
AnswersTyped ==
  /\ stored \in [Items -> {"none", "applied", "refused"}]
  /\ unsaved \subseteq (Items \X {"applied", "refused"})
RestTyped ==
  /\ phone \in [Callbacks -> Statuses \cup {"absent"}]
  /\ reenroll \in BOOLEAN /\ session \in BOOLEAN
  /\ gaveUp \subseteq DOMAIN outbox
  /\ budget \in [fault : 0..MaxFaults, retry : 0..MaxRetries, office : 0..MaxOffice]

Shaped == OutboxTyped /\ DrainTyped /\ PullTyped /\ RequestTyped /\ ServerTyped
          /\ AnswersTyped /\ RestTyped

LEMMA DomainIsItems == ASSUME OutboxTyped PROVE DOMAIN outbox = 1..Len(outbox) /\ DOMAIN outbox \subseteq Items
BY OutboxAssumption DEF OutboxTyped, Items

LEMMA ShapedIsTypeOK == Shaped => TypeOK
<1> SUFFICES ASSUME Shaped PROVE TypeOK
  OBVIOUS
<1>1. drain \in [at : DrainAts, item : {0} \cup DOMAIN outbox, slot : {0} \cup Slots, sentAny : BOOLEAN]
  BY DEF Shaped, DrainTyped
<1>2. pull \in [at : {"idle", "asked", "served", "apply"}, unsent : SUBSET DOMAIN outbox,
                copies : [Callbacks -> Statuses]]
  BY DEF Shaped, PullTyped
<1>3. drain.at \in {"wait", "mark"} => drain.item \in DOMAIN outbox
  BY DEF Shaped, DrainTyped
<1>4. outbox \in Seq([cb : Callbacks, type : Taps, waits : BOOLEAN, status : ItemStates])
  BY DEF Shaped, OutboxTyped, Item
<1> QED
  BY <1>1, <1>2, <1>3, <1>4 DEF TypeOK, Shaped, OutboxTyped, DrainTyped, PullTyped, RequestTyped, ServerTyped,
     AnswersTyped, RestTyped, ItemStates, Request, RequestAts, AllAnswers, Entry, DrainAts

\* Replacing one item keeps the table's shape.
LEMMA SetItem ==
  ASSUME OutboxTyped, NEW i \in DOMAIN outbox, NEW x \in Item
  PROVE  /\ [outbox EXCEPT ![i] = x] \in Seq(Item)
         /\ Len([outbox EXCEPT ![i] = x]) = Len(outbox)
         /\ DOMAIN [outbox EXCEPT ![i] = x] = DOMAIN outbox
BY DEF OutboxTyped

LEMMA ItemAt == ASSUME OutboxTyped, NEW i \in DOMAIN outbox PROVE outbox[i] \in Item
BY DEF OutboxTyped

LEMMA InitTyped == Init => Shaped
<1> SUFFICES ASSUME Init PROVE Shaped
  OBVIOUS
<1>1. OutboxTyped /\ DOMAIN outbox = {}
  BY OutboxAssumption DEF Init, OutboxTyped
<1>2. DrainTyped
  BY DEF Init, DrainTyped, DrainIdle, DrainAts
<1>3. PullTyped
  BY <1>1 DEF Init, PullTyped, PullIdle, AllOpen, Statuses
<1>4. RequestTyped
  BY DEF Init, RequestTyped, NoRequest, Request, RequestAts, AllAnswers
<1>5. ServerTyped
  BY DEF Init, ServerTyped, AllOpen, DeskIdle, Statuses
<1>6. AnswersTyped
  BY DEF Init, AnswersTyped
<1>7. RestTyped
  <2>1. budget \in [fault : 0..MaxFaults, retry : 0..MaxRetries, office : 0..MaxOffice]
    BY OutboxAssumption DEF Init
  <2>2. gaveUp = {} /\ reenroll = FALSE /\ session = TRUE
    BY DEF Init
  <2>3. phone \in [Callbacks -> Statuses \cup {"absent"}]
    BY DEF Init
  <2> QED
    BY <2>1, <2>2, <2>3 DEF RestTyped
<1> QED
  BY <1>1, <1>2, <1>3, <1>4, <1>5, <1>6, <1>7 DEF Shaped
-----------------------------------------------------------------------------
(* Every step keeps the shape *)

LEMMA SpendTyped ==
  ASSUME RestTyped, NEW what \in {"fault", "retry", "office"}, Spend(what)
  PROVE  budget' \in [fault : 0..MaxFaults, retry : 0..MaxRetries, office : 0..MaxOffice]
<1>1. budget[what] \in Nat /\ budget[what] > 0
  BY OutboxAssumption DEF RestTyped, Spend
<1> QED
  BY <1>1, OutboxAssumption DEF RestTyped, Spend

LEMMA FaultTyped ==
  ASSUME RestTyped, NEW kind, Fault(kind)
  PROVE  budget' \in [fault : 0..MaxFaults, retry : 0..MaxRetries, office : 0..MaxOffice]
BY SpendTyped DEF Fault

\* Only a part whose variables change, or the table of items, can lose its shape.
LEMMA Frame ==
  ASSUME Shaped, OutboxTyped', DOMAIN outbox \subseteq DOMAIN outbox'
  PROVE  /\ UNCHANGED drain => DrainTyped'
         /\ UNCHANGED pull => PullTyped'
         /\ UNCHANGED request => RequestTyped'
         /\ UNCHANGED <<tables, desk>> => ServerTyped'
         /\ UNCHANGED answers => AnswersTyped'
         /\ UNCHANGED <<phone, reenroll, session, gaveUp, budget>> => RestTyped'
<1>1. UNCHANGED drain => DrainTyped'
  BY DEF Shaped, DrainTyped
<1>2. UNCHANGED pull => PullTyped'
  BY DEF Shaped, PullTyped
<1>3. UNCHANGED request => RequestTyped'
  BY DEF Shaped, RequestTyped
<1>4. UNCHANGED <<tables, desk>> => ServerTyped'
  BY DEF Shaped, ServerTyped, tables
<1>5. UNCHANGED answers => AnswersTyped'
  BY DEF Shaped, AnswersTyped, answers
<1>6. UNCHANGED <<phone, reenroll, session, gaveUp, budget>> => RestTyped'
  BY DEF Shaped, RestTyped
<1> QED
  BY <1>1, <1>2, <1>3, <1>4, <1>5, <1>6

LEMMA SameTable == ASSUME Shaped, UNCHANGED outbox PROVE OutboxTyped' /\ DOMAIN outbox \subseteq DOMAIN outbox'
BY DEF Shaped, OutboxTyped

LEMMA TapTyped == ASSUME Shaped, NEW c \in Callbacks, NEW type \in Taps, Tap(c, type) PROVE Shaped'
<1>1. [cb |-> c, type |-> type, status |-> "pending", waits |-> FALSE] \in Item
  BY DEF Item, ItemStates
<1>2. OutboxTyped' /\ DOMAIN outbox \subseteq DOMAIN outbox'
  BY <1>1, OutboxAssumption DEF Tap, Shaped, OutboxTyped
<1>3. type \in Statuses
  BY DEF Taps, Statuses
<1>4. RestTyped'
  BY <1>2, <1>3 DEF Tap, Shaped, RestTyped
<1> QED
  BY <1>2, <1>4, Frame DEF Tap, Shaped

\* Changing status and back-off of one item keeps the table.
LEMMA Mark ==
  ASSUME OutboxTyped, NEW i \in DOMAIN outbox, NEW st \in ItemStates, NEW w \in BOOLEAN
  PROVE  /\ [outbox EXCEPT ![i].status = st] \in Seq(Item)
         /\ Len([outbox EXCEPT ![i].status = st]) = Len(outbox)
         /\ [outbox EXCEPT ![i].waits = w] \in Seq(Item)
         /\ Len([outbox EXCEPT ![i].waits = w]) = Len(outbox)
         /\ [outbox EXCEPT ![i].status = st, ![i].waits = w] \in Seq(Item)
         /\ Len([outbox EXCEPT ![i].status = st, ![i].waits = w]) = Len(outbox)
<1>1. outbox[i] \in Item
  BY ItemAt
<1>2. /\ [outbox[i] EXCEPT !.status = st] \in Item
      /\ [outbox[i] EXCEPT !.waits = w] \in Item
      /\ [outbox[i] EXCEPT !.status = st, !.waits = w] \in Item
  BY <1>1 DEF Item
<1>3. [outbox EXCEPT ![i].status = st] = [outbox EXCEPT ![i] = [outbox[i] EXCEPT !.status = st]]
  OBVIOUS
<1>4. [outbox EXCEPT ![i].waits = w] = [outbox EXCEPT ![i] = [outbox[i] EXCEPT !.waits = w]]
  OBVIOUS
<1>5. [outbox EXCEPT ![i].status = st, ![i].waits = w]
        = [outbox EXCEPT ![i] = [outbox[i] EXCEPT !.status = st, !.waits = w]]
  BY DEF OutboxTyped
<1> QED
  BY <1>2, <1>3, <1>4, <1>5, SetItem

\* One item marked: the table is typed and keeps its domain.
Marked(i) ==
  \E st \in ItemStates, w \in BOOLEAN :
    \/ outbox' = [outbox EXCEPT ![i].status = st]
    \/ outbox' = [outbox EXCEPT ![i].waits = w]
    \/ outbox' = [outbox EXCEPT ![i].status = st, ![i].waits = w]

LEMMA MarkedTyped ==
  ASSUME OutboxTyped, NEW i \in DOMAIN outbox, Marked(i)
  PROVE  OutboxTyped' /\ DOMAIN outbox' = DOMAIN outbox
<1>1. PICK st \in ItemStates, w \in BOOLEAN :
        \/ outbox' = [outbox EXCEPT ![i].status = st]
        \/ outbox' = [outbox EXCEPT ![i].waits = w]
        \/ outbox' = [outbox EXCEPT ![i].status = st, ![i].waits = w]
  BY DEF Marked
<1>2. outbox' \in Seq(Item) /\ Len(outbox') = Len(outbox)
  <2>1. CASE outbox' = [outbox EXCEPT ![i].status = st]
    BY <2>1, Mark
  <2>2. CASE outbox' = [outbox EXCEPT ![i].waits = w]
    BY <2>2, Mark
  <2>3. CASE outbox' = [outbox EXCEPT ![i].status = st, ![i].waits = w]
    BY <2>3, Mark
  <2> QED
    BY <1>1, <2>1, <2>2, <2>3
<1> QED
  BY <1>2 DEF OutboxTyped

LEMMA UserTyped ==
  ASSUME Shaped,
         \/ \E i \in DOMAIN outbox : RetryItem(i) \/ BackoffElapses(i)
         \/ EndSession \/ SaveSession
  PROVE  Shaped'
<1>1. ASSUME NEW i \in DOMAIN outbox, RetryItem(i) PROVE Shaped'
  <2>1. Marked(i)
    BY <1>1 DEF RetryItem, Marked, ItemStates
  <2>2. OutboxTyped' /\ DOMAIN outbox' = DOMAIN outbox
    BY <2>1, MarkedTyped DEF Shaped
  <2>3. RestTyped'
    BY <1>1, <2>2, SpendTyped DEF RetryItem, Shaped, RestTyped
  <2> QED
    BY <1>1, <2>2, <2>3, Frame DEF RetryItem, Shaped
<1>2. ASSUME NEW i \in DOMAIN outbox, BackoffElapses(i) PROVE Shaped'
  <2>1. Marked(i)
    BY <1>2 DEF BackoffElapses, Marked, ItemStates
  <2>2. OutboxTyped' /\ DOMAIN outbox' = DOMAIN outbox
    BY <2>1, MarkedTyped DEF Shaped
  <2> QED
    BY <1>2, <2>2, Frame DEF BackoffElapses, Shaped
<1>3. CASE EndSession
  <2>1. RestTyped'
    BY <1>3, FaultTyped DEF EndSession, phoneVars, Shaped, RestTyped
  <2> QED
    BY <1>3, <2>1, SameTable, Frame DEF EndSession, phoneVars, Shaped
<1>4. CASE SaveSession
  <2>1. RestTyped'
    BY <1>4 DEF SaveSession, Shaped, RestTyped
  <2> QED
    BY <1>4, <2>1, SameTable, Frame DEF SaveSession, Shaped
<1> QED
  BY <1>1, <1>2, <1>3, <1>4

LEMMA StoppedTyped ==
  ASSUME DrainTyped, drain' = Stopped PROVE DrainTyped'
BY DEF DrainTyped, Stopped, DrainIdle, DrainAts

\* The drain as it moves on.
DrainSet == [at : DrainAts, item : {0} \cup Items, slot : {0} \cup Slots, sentAny : BOOLEAN]

\* The item and the slot of a drain that waits for an answer.
LEMMA Waiting ==
  ASSUME Shaped, drain.at = "wait"
  PROVE  /\ drain.item \in DOMAIN outbox /\ drain.item \in Items
         /\ drain.slot \in Slots
         /\ outbox[drain.item] \in Item
BY ItemAt, DomainIsItems DEF Shaped, DrainTyped

LEMMA ClearSlot ==
  ASSUME RequestTyped, NEW s \in Slots, request' = [request EXCEPT ![s] = NoRequest],
         DOMAIN outbox' = DOMAIN outbox
  PROVE  RequestTyped'
<1>1. NoRequest \in Request
  BY DEF NoRequest, Request, RequestAts, AllAnswers
<1> QED
  BY <1>1 DEF RequestTyped, NoRequest

LEMMA DrainRunTyped ==
  ASSUME Shaped, StartDrain \/ StopDrain \/ GoneOffline \/ FinishDrain \/ MarkDone
  PROVE  Shaped'
<1>1. CASE StartDrain
  <2>1. \A i \in DOMAIN outbox : outbox'[i] \in Item
    <3> SUFFICES ASSUME NEW i \in DOMAIN outbox PROVE outbox'[i] \in Item
      OBVIOUS
    <3>1. outbox[i] \in Item
      BY ItemAt DEF Shaped
    <3>2. [outbox[i] EXCEPT !.status = "pending"] \in Item
      BY <3>1 DEF Item, ItemStates
    <3> QED
      BY <1>1, <3>1, <3>2 DEF StartDrain
  <2>2. DOMAIN outbox = 1..Len(outbox) /\ Len(outbox) \in Nat
    BY DEF Shaped, OutboxTyped
  <2>3. outbox' = [i \in 1..Len(outbox) |-> outbox'[i]]
    BY <1>1, <2>2 DEF StartDrain
  <2>4. outbox' \in Seq(Item) /\ Len(outbox') = Len(outbox)
    BY <2>1, <2>2, <2>3
  <2>5. OutboxTyped' /\ DOMAIN outbox' = DOMAIN outbox
    BY <2>4, <2>2 DEF Shaped, OutboxTyped
  <2>6. DrainTyped'
    BY <1>1, <2>5 DEF StartDrain, DrainTyped, DrainIdle, DrainAts
  <2> QED
    BY <1>1, <2>5, <2>6, Frame DEF StartDrain, Shaped
<1>2. CASE StopDrain
  <2>1. DrainTyped'
    BY <1>2, StoppedTyped DEF StopDrain, Shaped
  <2> QED
    BY <1>2, <2>1, SameTable, Frame DEF StopDrain, Shaped
<1>3. CASE GoneOffline
  <2>1. DrainTyped'
    BY <1>3, StoppedTyped DEF GoneOffline, Shaped
  <2>2. RestTyped'
    BY <1>3, FaultTyped DEF GoneOffline, Shaped, RestTyped
  <2> QED
    BY <1>3, <2>1, <2>2, SameTable, Frame DEF GoneOffline, Shaped
<1>4. CASE FinishDrain
  <2>1. DrainTyped'
    BY <1>4 DEF FinishDrain, DrainTyped, DrainIdle, DrainAts
  <2>2. PullTyped'
    BY <1>4 DEF FinishDrain, Shaped, PullTyped, PullIdle, AllOpen, Statuses
  <2> QED
    BY <1>4, <2>1, <2>2, SameTable, Frame DEF FinishDrain, Shaped
<1>5. CASE MarkDone
  <2>1. drain.item \in DOMAIN outbox
    BY <1>5 DEF MarkDone, Shaped, DrainTyped
  <2>2. Marked(drain.item)
    BY <1>5 DEF MarkDone, Marked, ItemStates
  <2>3. OutboxTyped' /\ DOMAIN outbox' = DOMAIN outbox
    BY <2>1, <2>2, MarkedTyped DEF Shaped
  <2>4. DrainTyped'
    BY <1>5, <2>3 DEF MarkDone, DrainTyped, DrainIdle, DrainAts
  <2> QED
    BY <1>5, <2>3, <2>4, Frame DEF MarkDone, Shaped
<1> QED
  BY <1>1, <1>2, <1>3, <1>4, <1>5

LEMMA SendTyped == ASSUME Shaped, SendItem PROVE Shaped'
<1>1. PICK i \in Oldest, s \in FreeSlots :
        /\ outbox' = [outbox EXCEPT ![i].status = "sending"]
        /\ request' = [request EXCEPT ![s] = [at |-> "sent", item |-> i, answer |-> "none"]]
        /\ drain' = [drain EXCEPT !.at = "wait", !.item = i, !.slot = s]
  BY DEF SendItem
<1>2. i \in DOMAIN outbox /\ i \in Items /\ s \in Slots
  BY DomainIsItems DEF Oldest, ItemsWith, FreeSlots, Shaped
<1>3. OutboxTyped' /\ DOMAIN outbox' = DOMAIN outbox
  BY <1>1, <1>2, MarkedTyped DEF Marked, ItemStates, Shaped
<1>4. DrainTyped'
  <2>1. i # 0
    BY <1>2 DEF Items
  <2> QED
    BY <1>1, <1>2, <1>3, <2>1 DEF DrainTyped, DrainAts, Shaped
<1>5. RequestTyped'
  <2>1. [at |-> "sent", item |-> i, answer |-> "none"] \in Request
    BY <1>2 DEF Request, RequestAts, AllAnswers
  <2> QED
    BY <1>1, <1>2, <1>3, <2>1 DEF RequestTyped, Shaped
<1> QED
  BY <1>3, <1>4, <1>5, Frame DEF SendItem, Shaped

\* An answer frees the slot and marks the item; the drain moves on.
LEMMA ReceiveTyped ==
  ASSUME Shaped, Receive \/ ReceiveUnreadable PROVE Shaped'
<1>1. drain.at = "wait"
  BY DEF Receive, ReceiveUnreadable, ReceiveApplied, ReceiveRefusal, ReceiveUnauthorized,
         ReceiveError, ReceiveNothing, Answered
<1>w. drain.item \in DOMAIN outbox /\ drain.slot \in Slots /\ outbox[drain.item] \in Item
  BY <1>1, Waiting
<1>2. CASE ReceiveApplied
  <2>1. RequestTyped'
    BY <1>2, <1>w, ClearSlot DEF ReceiveApplied, Answered, Shaped
  <2>2. DrainTyped'
    BY <1>2, <1>w, <1>1 DEF ReceiveApplied, DrainTyped, DrainAts, Shaped
  <2>3. RestTyped'
    <3>1. outbox[drain.item].type \in Statuses
      BY <1>w DEF Item, Taps, Statuses
    <3> QED
      BY <1>2, <3>1 DEF ReceiveApplied, RestTyped, Shaped
  <2> QED
    BY <1>2, <2>1, <2>2, <2>3, SameTable, Frame DEF ReceiveApplied, Shaped
<1>3. ASSUME GiveUp PROVE OutboxTyped' /\ DOMAIN outbox' = DOMAIN outbox /\ DrainTyped'
                          /\ gaveUp' \subseteq DOMAIN outbox
  <2>1. OutboxTyped' /\ DOMAIN outbox' = DOMAIN outbox
    BY <1>3, <1>w, MarkedTyped DEF GiveUp, Marked, ItemStates, Shaped
  <2>2. DrainTyped'
    BY <1>3, <2>1 DEF GiveUp, DrainTyped, DrainAts, Shaped
  <2> QED
    BY <1>3, <1>w, <2>1, <2>2 DEF GiveUp, RestTyped, Shaped
<1>4. CASE ReceiveRefusal
  <2>1. GiveUp
    BY <1>4 DEF ReceiveRefusal
  <2>2. OutboxTyped' /\ DOMAIN outbox' = DOMAIN outbox /\ DrainTyped'
                          /\ gaveUp' \subseteq DOMAIN outbox
    BY <2>1, <1>3
  <2>3. RequestTyped'
    BY <1>4, <1>w, <2>2, ClearSlot DEF ReceiveRefusal, Answered, Shaped
  <2>4. RestTyped'
    BY <1>4, <2>2 DEF ReceiveRefusal, RestTyped, Shaped
  <2> QED
    BY <1>4, <2>2, <2>3, <2>4, Frame DEF ReceiveRefusal, Shaped
<1>5. CASE ReceiveUnreadable
  <2>1. GiveUp
    BY <1>5 DEF ReceiveUnreadable
  <2>2. OutboxTyped' /\ DOMAIN outbox' = DOMAIN outbox /\ DrainTyped'
                          /\ gaveUp' \subseteq DOMAIN outbox
    BY <2>1, <1>3
  <2>3. RequestTyped'
    BY <1>5, <1>w, <2>2, ClearSlot DEF ReceiveUnreadable, Answered, Shaped
  <2>4. RestTyped'
    BY <1>5, <2>2, FaultTyped DEF ReceiveUnreadable, RestTyped, Shaped
  <2> QED
    BY <1>5, <2>2, <2>3, <2>4, Frame DEF ReceiveUnreadable, Shaped
<1>6. CASE ReceiveUnauthorized
  <2>2. OutboxTyped' /\ DOMAIN outbox' = DOMAIN outbox
    BY <1>6, <1>w, MarkedTyped DEF ReceiveUnauthorized, Marked, ItemStates, Shaped
  <2>3. RequestTyped'
    BY <1>6, <1>w, <2>2, ClearSlot DEF ReceiveUnauthorized, Answered, Shaped
  <2>4. RestTyped'
    BY <1>6, <2>2 DEF ReceiveUnauthorized, RestTyped, Shaped
  <2>5. DrainTyped'
    BY <1>6, StoppedTyped DEF ReceiveUnauthorized, Shaped
  <2> QED
    BY <1>6, <2>2, <2>3, <2>4, <2>5, Frame DEF ReceiveUnauthorized, Shaped
<1>b. ASSUME BackOff PROVE OutboxTyped' /\ DOMAIN outbox' = DOMAIN outbox
  BY <1>b, <1>w, MarkedTyped DEF BackOff, Marked, ItemStates, Shaped
<1>7. CASE ReceiveError
  <2>2. OutboxTyped' /\ DOMAIN outbox' = DOMAIN outbox
    BY <1>7, <1>b DEF ReceiveError
  <2>3. RequestTyped'
    BY <1>7, <1>w, <2>2, ClearSlot DEF ReceiveError, Answered, Shaped
  <2>5. DrainTyped'
    BY <1>7, StoppedTyped DEF ReceiveError, Shaped
  <2> QED
    BY <1>7, <2>2, <2>3, <2>5, Frame DEF ReceiveError, Shaped
<1>8. CASE ReceiveNothing
  <2>2. OutboxTyped' /\ DOMAIN outbox' = DOMAIN outbox
    BY <1>8, <1>b DEF ReceiveNothing
  <2>3. request' = request \/ request' = [request EXCEPT ![drain.slot] = NoRequest]
    BY <1>8 DEF ReceiveNothing
  <2>4. RequestTyped'
    <3>1. CASE request' = request
      BY <3>1, <2>2 DEF RequestTyped, Shaped
    <3>2. CASE request' = [request EXCEPT ![drain.slot] = NoRequest]
      BY <3>2, <1>w, <2>2, ClearSlot DEF Shaped
    <3> QED
      BY <2>3, <3>1, <3>2
  <2>5. DrainTyped'
    BY <1>8, StoppedTyped DEF ReceiveNothing, Shaped
  <2>6. RestTyped'
    <3>1. budget' = budget \/ Fault("timeout")
      BY <1>8 DEF ReceiveNothing
    <3> QED
      BY <1>8, <2>2, <3>1, FaultTyped DEF ReceiveNothing, RestTyped, Shaped
  <2> QED
    BY <1>8, <2>2, <2>4, <2>5, <2>6, Frame DEF ReceiveNothing, Shaped
<1> QED
  BY <1>2, <1>4, <1>5, <1>6, <1>7, <1>8 DEF Receive

LEMMA ClosePageTyped == ASSUME Shaped, ClosePage PROVE Shaped'
<1>1. DrainTyped'
  BY DEF ClosePage, DrainTyped, DrainIdle, DrainAts
<1>2. PullTyped'
  BY DEF ClosePage, PullTyped, PullIdle, AllOpen, Statuses
<1>3. RestTyped'
  BY FaultTyped DEF ClosePage, RestTyped, Shaped
<1> QED
  BY <1>1, <1>2, <1>3, SameTable, Frame DEF ClosePage, Shaped

\* A request moves on, or gets an answer.
LEMMA MoveRequest ==
  ASSUME RequestTyped, NEW s \in Slots, request[s].at # "none", NEW at \in RequestAts,
         UNCHANGED outbox, request' = [request EXCEPT ![s].at = at]
  PROVE  RequestTyped'
<1>1. [request[s] EXCEPT !.at = at] \in Request
  BY DEF RequestTyped, Request
<1> QED
  BY <1>1 DEF RequestTyped, Request

LEMMA RespondTyped ==
  ASSUME RequestTyped, NEW s \in Slots, request[s].at # "none", NEW answer \in AllAnswers,
         UNCHANGED outbox, Respond(s, answer)
  PROVE  RequestTyped'
<1>1. [request[s] EXCEPT !.at = "answered", !.answer = answer] \in Request
  BY DEF RequestTyped, Request, RequestAts
<1> QED
  BY <1>1 DEF RequestTyped, Request, Respond

LEMMA RequestItem ==
  ASSUME Shaped, NEW s \in Slots, request[s].at # "none"
  PROVE  /\ request[s].item \in DOMAIN outbox /\ request[s].item \in Items
         /\ outbox[request[s].item] \in Item
BY ItemAt, DomainIsItems DEF Shaped, RequestTyped

LEMMA RefuseTyped ==
  ASSUME Shaped, NEW s \in Slots, request[s].at # "none", Refuse(s), UNCHANGED <<outbox, stored>>
  PROVE  RequestTyped' /\ AnswersTyped'
<1>1. RequestTyped'
  BY RespondTyped DEF Refuse, Shaped, AllAnswers
<1>2. request[s].item \in Items
  BY RequestItem
<1> QED
  BY <1>1, <1>2 DEF Refuse, Shaped, AnswersTyped

LEMMA ServeTyped == ASSUME Shaped, NEW s \in Slots, Serve(s) PROVE Shaped'
<1>1. CASE Lookup(s)
  <2>1. UNCHANGED <<outbox, phoneVars, session, tables, answers, desk, budget>> /\ request[s].at # "none"
    BY <1>1 DEF Lookup, phoneVars
  <2>2. RequestTyped'
    <3>1. stored[request[s].item] \in AllAnswers
      BY <2>1, RequestItem DEF Shaped, AnswersTyped, AllAnswers
    <3>2. CASE Respond(s, "unauthorized")
      BY <3>2, <2>1, RespondTyped DEF Shaped, AllAnswers
    <3>3. CASE Respond(s, stored[request[s].item])
      BY <3>1, <3>3, <2>1, RespondTyped DEF Shaped
    <3>4. CASE request' = [request EXCEPT ![s].at = "load"]
      BY <3>4, <2>1, MoveRequest DEF Shaped, RequestAts
    <3> QED
      BY <1>1, <3>2, <3>3, <3>4 DEF Lookup
  <2> QED
    BY <2>1, <2>2, SameTable, Frame DEF phoneVars, Shaped
<1>2. CASE LoadCallback(s)
  <2>1. UNCHANGED <<outbox, phoneVars, session, tables, stored, desk, budget>> /\ request[s].at # "none"
    BY <1>2 DEF LoadCallback, phoneVars
  <2>2. RequestTyped' /\ AnswersTyped'
    <3>1. CASE Refuse(s)
      BY <3>1, <2>1, RefuseTyped
    <3>2. CASE request' = [request EXCEPT ![s].at = "commit"] /\ unsaved' = unsaved
      BY <3>2, <2>1, MoveRequest DEF Shaped, RequestAts, AnswersTyped
    <3> QED
      BY <1>2, <3>1, <3>2 DEF LoadCallback
  <2> QED
    BY <2>1, <2>2, SameTable, Frame DEF phoneVars, Shaped
<1>3. CASE CommitTransition(s)
  <2>1. UNCHANGED <<outbox, phoneVars, session, answers, desk, budget>> /\ request[s].at # "none"
    BY <1>3 DEF CommitTransition, phoneVars
  <2>2. RequestTyped'
    BY <1>3, <2>1, MoveRequest DEF CommitTransition, Shaped, RequestAts
  <2>3. /\ outbox[request[s].item].cb \in Callbacks
        /\ outbox[request[s].item].type \in Statuses
        /\ request[s].item \in {0} \cup Items
    BY <2>1, RequestItem DEF Item, Taps, Statuses
  <2>4. ServerTyped'
    <3>1. [cb |-> outbox[request[s].item].cb, type |-> outbox[request[s].item].type,
           item |-> request[s].item] \in Entry
      BY <2>3 DEF Entry
    <3> QED
      BY <1>3, <2>1, <2>3, <3>1 DEF CommitTransition, Write, ServerTyped, Shaped
  <2> QED
    BY <2>1, <2>2, <2>4, SameTable, Frame DEF phoneVars, Shaped
<1>4. CASE RespondApplied(s)
  <2>1. UNCHANGED <<outbox, phoneVars, session, tables, stored, desk, budget>> /\ request[s].at # "none"
    BY <1>4 DEF RespondApplied, phoneVars
  <2>2. RequestTyped'
    BY <1>4, <2>1, RespondTyped DEF RespondApplied, Shaped, AllAnswers
  <2>3. AnswersTyped'
    BY <1>4, <2>1, RequestItem DEF RespondApplied, Shaped, AnswersTyped
  <2> QED
    BY <2>1, <2>2, <2>3, SameTable, Frame DEF phoneVars, Shaped
<1>5. CASE DropAnswer(s)
  <2>1. UNCHANGED <<outbox, phoneVars, session, tables, answers, desk, budget>>
    BY <1>5 DEF DropAnswer, phoneVars
  <2>2. RequestTyped'
    BY <1>5, <2>1, ClearSlot DEF DropAnswer, Shaped
  <2> QED
    BY <2>1, <2>2, SameTable, Frame DEF phoneVars, Shaped
<1> QED
  BY <1>1, <1>2, <1>3, <1>4, <1>5 DEF Serve

LEMMA ServerFaultTyped ==
  ASSUME Shaped,
         \/ \E s \in Slots : RefuseInvalid(s) \/ RespondError(s)
         \/ \E r \in unsaved : SaveResponse(r)
         \/ \E i \in Items : ForgetResponse(i)
         \/ Restart
  PROVE  Shaped'
<1>1. ASSUME NEW s \in Slots, RefuseInvalid(s) PROVE Shaped'
  <2>1. UNCHANGED <<outbox, phoneVars, session, tables, stored, desk>> /\ request[s].at # "none"
    BY <1>1 DEF RefuseInvalid, phoneVars
  <2>2. RequestTyped' /\ AnswersTyped'
    BY <1>1, <2>1, RefuseTyped DEF RefuseInvalid
  <2>3. RestTyped'
    BY <1>1, <2>1, FaultTyped DEF RefuseInvalid, phoneVars, RestTyped, Shaped
  <2> QED
    BY <2>1, <2>2, <2>3, SameTable, Frame DEF phoneVars, Shaped
<1>2. ASSUME NEW s \in Slots, RespondError(s) PROVE Shaped'
  <2>1. UNCHANGED <<outbox, phoneVars, session, tables, answers, desk>> /\ request[s].at # "none"
    BY <1>2 DEF RespondError, phoneVars
  <2>2. RequestTyped'
    BY <1>2, <2>1, RespondTyped DEF RespondError, Shaped, AllAnswers
  <2>3. RestTyped'
    BY <1>2, <2>1, FaultTyped DEF RespondError, phoneVars, RestTyped, Shaped
  <2> QED
    BY <2>1, <2>2, <2>3, SameTable, Frame DEF phoneVars, Shaped
<1>3. ASSUME NEW r \in unsaved, SaveResponse(r) PROVE Shaped'
  <2>1. UNCHANGED <<outbox, phoneVars, session, tables, request, desk, budget>>
    BY <1>3 DEF SaveResponse, phoneVars
  <2>2. r[1] \in Items /\ r[2] \in {"applied", "refused"}
    BY DEF Shaped, AnswersTyped
  <2>3. AnswersTyped'
    BY <1>3, <2>2 DEF SaveResponse, Shaped, AnswersTyped
  <2> QED
    BY <2>1, <2>3, SameTable, Frame DEF phoneVars, Shaped
<1>4. ASSUME NEW i \in Items, ForgetResponse(i) PROVE Shaped'
  <2>1. UNCHANGED <<outbox, phoneVars, session, tables, unsaved, request, desk>>
    BY <1>4 DEF ForgetResponse, phoneVars
  <2>2. AnswersTyped'
    BY <1>4 DEF ForgetResponse, Shaped, AnswersTyped
  <2>3. RestTyped'
    BY <1>4, <2>1, FaultTyped DEF ForgetResponse, phoneVars, RestTyped, Shaped
  <2> QED
    BY <2>1, <2>2, <2>3, SameTable, Frame DEF phoneVars, Shaped
<1>5. CASE Restart
  <2>1. UNCHANGED <<outbox, phoneVars, session, tables, stored>>
    BY <1>5 DEF Restart, phoneVars
  <2>2. RequestTyped'
    <3>1. NoRequest \in Request
      BY DEF NoRequest, Request, RequestAts, AllAnswers
    <3>2. \A s \in Slots : [request[s] EXCEPT !.at = "dead"] \in Request
      BY DEF Shaped, RequestTyped, Request, RequestAts
    <3>3. \A s \in Slots : request'[s] \in Request
      BY <1>5, <3>1, <3>2 DEF Restart
    <3>4. \A s \in Slots : request'[s].at # "none"
                             => request[s].at # "none" /\ request'[s].item = request[s].item
      BY <1>5 DEF Restart, NoRequest, Shaped, RequestTyped, Request
    <3>5. request' = [s \in Slots |-> request'[s]]
      BY <1>5 DEF Restart
    <3>6. request' \in [Slots -> Request]
      BY <3>3, <3>5
    <3>7. DOMAIN outbox' = DOMAIN outbox
      BY <2>1
    <3> QED
      BY <3>4, <3>6, <3>7 DEF Shaped, RequestTyped
  <2>3. ServerTyped' /\ AnswersTyped'
    BY <1>5, <2>1 DEF Restart, tables, Shaped, ServerTyped, AnswersTyped, DeskIdle
  <2>4. RestTyped'
    BY <1>5, <2>1, FaultTyped DEF Restart, phoneVars, RestTyped, Shaped
  <2> QED
    BY <2>1, <2>2, <2>3, <2>4, SameTable, Frame DEF phoneVars, Shaped
<1> QED
  BY <1>1, <1>2, <1>3, <1>4, <1>5

\* Among some statuses one is furthest.
LEMMA FurthestExists ==
  ASSUME NEW S \in SUBSET Statuses, S # {}
  PROVE  \E t \in S : \A u \in S : Rank(u) <= Rank(t)
<1>1. /\ Rank("open") = 0 /\ Rank("dispatched") = 1 /\ Rank("on_site") = 2
      /\ Rank("released") = 3 /\ Rank("restored") = 4 /\ Rank("closed") = 5
  BY DEF Rank
<1>2. \A u \in S : Rank(u) \in {0, 1, 2, 3, 4, 5}
  BY <1>1 DEF Statuses
<1>3. CASE "closed" \in S
  BY <1>1, <1>3 DEF Statuses
<1>4. CASE "closed" \notin S /\ "restored" \in S
  BY <1>1, <1>4 DEF Statuses
<1>5. CASE "closed" \notin S /\ "restored" \notin S /\ "released" \in S
  BY <1>1, <1>5 DEF Statuses
<1>6. CASE "closed" \notin S /\ "restored" \notin S /\ "released" \notin S /\ "on_site" \in S
  BY <1>1, <1>6 DEF Statuses
<1>7. CASE "closed" \notin S /\ "restored" \notin S /\ "released" \notin S /\ "on_site" \notin S
           /\ "dispatched" \in S
  BY <1>1, <1>7 DEF Statuses
<1>8. CASE S = {"open"}
  BY <1>1, <1>8
<1> QED
  BY <1>3, <1>4, <1>5, <1>6, <1>7, <1>8 DEF Statuses

LEMMA AheadTyped ==
  ASSUME OutboxTyped, NEW c, NEW status \in Statuses, NEW unsent \in SUBSET DOMAIN outbox
  PROVE  Ahead(c, status, unsent) \in Statuses
<1> DEFINE claims == {status} \cup {outbox[i].type : i \in {j \in unsent : outbox[j].cb = c}}
<1>1. \A i \in unsent : outbox[i].type \in Statuses
  <2> SUFFICES ASSUME NEW i \in unsent PROVE outbox[i].type \in Statuses
    OBVIOUS
  <2>1. outbox[i] \in Item
    BY ItemAt
  <2> QED
    BY <2>1 DEF Item, Taps, Statuses
<1>2. claims \in SUBSET Statuses /\ claims # {}
  BY <1>1
<1>3. \E t \in claims : \A u \in claims : Rank(u) <= Rank(t)
  BY <1>2, FurthestExists
<1>4. Ahead(c, status, unsent) \in claims
  BY <1>3 DEF Ahead
<1> QED
  BY <1>2, <1>4

LEMMA OfficeAndPullTyped ==
  ASSUME Shaped,
         \/ \E c \in Callbacks, type \in OfficeTypes : OfficeLoads(c, type)
         \/ OfficeCommits
         \/ StartPull \/ ServePull \/ PullFails \/ ReadUnsent \/ ApplyPull
  PROVE  Shaped'
<1>1. ASSUME NEW c \in Callbacks, NEW type \in OfficeTypes, OfficeLoads(c, type) PROVE Shaped'
  <2>1. UNCHANGED <<outbox, phoneVars, session, tables, answers, request>>
    BY <1>1 DEF OfficeLoads, phoneVars
  <2>2. ServerTyped'
    BY <1>1, OutboxAssumption DEF OfficeLoads, tables, Shaped, ServerTyped
  <2>3. RestTyped'
    BY <1>1, <2>1, SpendTyped DEF OfficeLoads, phoneVars, RestTyped, Shaped
  <2> QED
    BY <2>1, <2>2, <2>3, SameTable, Frame DEF phoneVars, Shaped
<1>2. CASE OfficeCommits
  <2>1. UNCHANGED <<outbox, phoneVars, session, answers, request, budget>>
    BY <1>2 DEF OfficeCommits, phoneVars
  <2>2. PICK r \in desk.row : Write(r[1], r[2], 0)
    BY <1>2 DEF OfficeCommits
  <2>3. r[1] \in Callbacks /\ r[2] \in Statuses
    BY DEF Shaped, ServerTyped
  <2>4. ServerTyped'
    <3>1. [cb |-> r[1], type |-> r[2], item |-> 0] \in Entry
      BY <2>3 DEF Entry
    <3> QED
      BY <1>2, <2>2, <2>3, <3>1 DEF OfficeCommits, Write, ServerTyped, Shaped, DeskIdle
  <2> QED
    BY <2>1, <2>4, SameTable, Frame DEF phoneVars, Shaped
<1>3. CASE StartPull
  <2>1. PullTyped'
    BY <1>3 DEF StartPull, PullTyped, PullIdle, AllOpen, Statuses
  <2> QED
    BY <1>3, <2>1, SameTable, Frame DEF StartPull, Shaped
<1>4. CASE ServePull
  <2>1. PullTyped'
    <3>1. CASE pull' = [pull EXCEPT !.at = "served", !.copies = callback]
      <4>1. callback \in [Callbacks -> Statuses]
        BY DEF Shaped, ServerTyped
      <4>2. outbox' = outbox
        BY <1>4 DEF ServePull
      <4> QED
        BY <3>1, <4>1, <4>2 DEF PullTyped, Shaped
    <3>2. CASE pull' = PullIdle
      BY <3>2 DEF PullTyped, PullIdle, AllOpen, Statuses
    <3> QED
      BY <1>4, <3>1, <3>2 DEF ServePull
  <2>2. RestTyped'
    BY <1>4 DEF ServePull, RestTyped, Shaped
  <2> QED
    BY <1>4, <2>1, <2>2, SameTable, Frame DEF ServePull, Shaped
<1>5. CASE PullFails
  <2>1. PullTyped'
    BY <1>5 DEF PullFails, PullTyped, PullIdle, AllOpen, Statuses
  <2>2. RestTyped'
    BY <1>5, FaultTyped DEF PullFails, RestTyped, Shaped
  <2> QED
    BY <1>5, <2>1, <2>2, SameTable, Frame DEF PullFails, Shaped
<1>6. CASE ReadUnsent
  <2>1. Unsent \subseteq DOMAIN outbox /\ DOMAIN outbox \subseteq Items
    BY DomainIsItems DEF Unsent, ItemsWith, Shaped
  <2>2. PullTyped'
    BY <1>6, <2>1 DEF ReadUnsent, PullTyped, Shaped
  <2> QED
    BY <1>6, <2>2, SameTable, Frame DEF ReadUnsent, Shaped
<1>7. CASE ApplyPull
  <2>1. PullTyped'
    BY <1>7 DEF ApplyPull, PullTyped, PullIdle, AllOpen, Statuses
  <2>2. phone' \in [Callbacks -> Statuses \cup {"absent"}]
    <3>1. \A c \in Callbacks : Ahead(c, pull.copies[c], pull.unsent) \in Statuses
      BY AheadTyped DEF Shaped, PullTyped
    <3> QED
      BY <1>7, <3>1 DEF ApplyPull, Shown
  <2>3. RestTyped'
    BY <1>7, <2>2 DEF ApplyPull, RestTyped, Shaped
  <2> QED
    BY <1>7, <2>1, <2>3, SameTable, Frame DEF ApplyPull, Shaped
<1> QED
  BY <1>1, <1>2, <1>3, <1>4, <1>5, <1>6, <1>7

LEMMA ShapedStep == Shaped /\ [Next]_vars => Shaped'
<1> SUFFICES ASSUME Shaped, [Next]_vars PROVE Shaped'
  OBVIOUS
<1>1. CASE UNCHANGED vars
  BY <1>1, SameTable, Frame DEF vars, tables, answers, Shaped
<1>2. CASE Next
  BY <1>2, TapTyped, UserTyped, DrainRunTyped, SendTyped, ReceiveTyped, ClosePageTyped, ServeTyped,
     ServerFaultTyped, OfficeAndPullTyped DEF Next
<1> QED
  BY <1>1, <1>2

LEMMA AlwaysShaped == Spec => []Shaped
BY InitTyped, ShapedStep, PTL DEF Spec

\* Every variable keeps its shape, whatever fails and in whatever order.
THEOREM TypeCorrect == Spec => []TypeOK
BY AlwaysShaped, ShapedIsTypeOK, PTL

-----------------------------------------------------------------------------
(* Answers tell the truth, and taps take effect in order *)

\* Nothing made before item k is still to come.
Before(k) == \A i \in Items : i < k => i \in gaveUp \/ Applied(i)

RequestsHonest ==
  \A s \in Slots : request[s].at # "none" =>
    /\ request[s].at = "publish" \/ request[s].answer = "applied" => Applied(request[s].item)
    /\ Before(request[s].item)
AnswersHonest ==
  /\ \A r \in unsaved : r[2] = "applied" => Applied(r[1])
  /\ \A i \in Items : stored[i] = "applied" => Applied(i)
DrainHonest ==
  /\ drain.at = "mark" => Applied(drain.item)
  /\ drain.at = "wait" => request[drain.slot].at # "none" /\ request[drain.slot].item = drain.item
OneInFlight ==
  /\ drain.at = "pick" => ItemsWith({"sending"}) = {}
  /\ drain.at \in {"wait", "mark"} => ItemsWith({"sending"}) \subseteq {drain.item}
FailedKnown == ItemsWith({"failed"}) \subseteq gaveUp

Good == RequestsHonest /\ AnswersHonest /\ DrainHonest /\ OneInFlight /\ FailedKnown
        /\ DoneMeansApplied /\ TapsInOrder

LEMMA InitGood == Init => Good
BY DEF Init, Good, RequestsHonest, AnswersHonest, DrainHonest, OneInFlight, FailedKnown, DrainIdle,
       NoRequest, DoneMeansApplied, TapsInOrder, ItemsWith

\* What has taken effect or was given up stays so.
Keeps == \A i \in {0} \cup Items : (Applied(i) => Applied(i)') /\ (i \in gaveUp => i \in gaveUp')

LEMMA KeepsIfSame == ASSUME UNCHANGED timeline, gaveUp \subseteq gaveUp' PROVE Keeps
BY DEF Keeps, Applied

LEMMA KeepsIfWritten ==
  ASSUME ServerTyped, NEW e, timeline' = Append(timeline, e), UNCHANGED gaveUp
  PROVE  Keeps
<1> SUFFICES ASSUME NEW i \in {0} \cup Items, Applied(i) PROVE Applied(i)'
  BY DEF Keeps
<1>1. PICK n \in DOMAIN timeline : timeline[n].item = i
  BY DEF Applied
<1>2. n \in DOMAIN timeline' /\ timeline'[n] = timeline[n]
  BY DEF ServerTyped
<1> QED
  BY <1>1, <1>2 DEF Applied

LEMMA BeforeKept == ASSUME Keeps, NEW k, Before(k) PROVE Before(k)'
BY DEF Keeps, Before

\* What a step leaves alone stays good.
LEMMA GoodFrame ==
  ASSUME Shaped, Good, Keeps
  PROVE  /\ UNCHANGED request => RequestsHonest'
         /\ UNCHANGED answers => AnswersHonest'
         /\ UNCHANGED <<drain, request>> => DrainHonest'
         /\ UNCHANGED <<drain, outbox>> => OneInFlight'
         /\ drain'.at \in {"idle", "stop"} => DrainHonest' /\ OneInFlight'
         /\ UNCHANGED outbox => DoneMeansApplied' /\ FailedKnown'
         /\ UNCHANGED timeline => TapsInOrder'
<1>1. UNCHANGED request => RequestsHonest'
  <2> SUFFICES ASSUME UNCHANGED request, NEW s \in Slots, request[s].at # "none"
               PROVE  /\ request[s].at = "publish" \/ request[s].answer = "applied" => Applied(request[s].item)'
                      /\ Before(request[s].item)'
    BY DEF RequestsHonest
  <2>1. request[s].item \in {0} \cup Items
    BY DEF Shaped, RequestTyped, Request
  <2>2. Before(request[s].item)'
    <3>1. Before(request[s].item)
      BY DEF Good, RequestsHonest
    <3> QED
      BY <3>1 DEF Before, Keeps
  <2> QED
    BY <2>1, <2>2 DEF Good, RequestsHonest, Keeps
<1>2. UNCHANGED answers => AnswersHonest'
  BY DEF Good, AnswersHonest, answers, Keeps, Shaped, AnswersTyped
<1>3. UNCHANGED <<drain, request>> => DrainHonest'
  BY DEF Good, DrainHonest, Keeps, Shaped, DrainTyped
<1>4. UNCHANGED <<drain, outbox>> => OneInFlight'
  BY DEF Good, OneInFlight, ItemsWith
<1>5. drain'.at \in {"idle", "stop"} => DrainHonest' /\ OneInFlight'
  BY DEF DrainHonest, OneInFlight
<1>6. UNCHANGED outbox => DoneMeansApplied' /\ FailedKnown'
  <2>1. ItemsWith({"done"}) \subseteq Items /\ ItemsWith({"failed"}) \subseteq Items
    BY DomainIsItems DEF ItemsWith, Shaped
  <2>2. UNCHANGED outbox => UNCHANGED <<ItemsWith({"done"}), ItemsWith({"failed"})>>
    BY DEF ItemsWith
  <2> QED
    BY <2>1, <2>2 DEF Good, DoneMeansApplied, FailedKnown, Keeps
<1>7. UNCHANGED timeline => TapsInOrder'
  BY DEF Good, TapsInOrder, Keeps
<1> QED
  BY <1>1, <1>2, <1>3, <1>4, <1>5, <1>6, <1>7

\* One request changes, keeping its item.
LEMMA RequestMoves ==
  ASSUME Shaped, Good, Keeps, NEW s \in Slots, request[s].at # "none",
         \A t \in Slots \ {s} : request'[t] = request[t],
         request'[s].at # "none", request'[s].item = request[s].item,
         request'[s].at = "publish" \/ request'[s].answer = "applied" => Applied(request[s].item)',
         UNCHANGED drain
  PROVE  RequestsHonest' /\ DrainHonest'
<1>1. RequestsHonest'
  <2> SUFFICES ASSUME NEW t \in Slots, request'[t].at # "none"
               PROVE  /\ request'[t].at = "publish" \/ request'[t].answer = "applied"
                           => Applied(request[t].item)'
                      /\ Before(request[t].item)'
    BY DEF RequestsHonest
  <2>1. request[t].at # "none" /\ request'[t].item = request[t].item
    OBVIOUS
  <2>2. PICK k \in {0} \cup Items : k = request[t].item /\ Before(k)
    BY <2>1 DEF Shaped, RequestTyped, Request, Good, RequestsHonest
  <2>3. Before(k)'
    BY <2>2, BeforeKept
  <2>4. request'[t].at = "publish" \/ request'[t].answer = "applied" => Applied(k)'
    <3>1. CASE t = s
      BY <2>1, <2>2, <3>1 DEF Applied
    <3>2. CASE t # s
      BY <2>1, <2>2, <3>2 DEF Good, RequestsHonest, Keeps
    <3> QED
      BY <3>1, <3>2
  <2> QED
    BY <2>1, <2>2, <2>3, <2>4 DEF Applied, Before
<1>2. DrainHonest'
  BY DEF Good, DrainHonest, Keeps, Shaped, DrainTyped
<1> QED
  BY <1>1, <1>2

LEMMA SlotCleared ==
  ASSUME Shaped, Good, Keeps, NEW s, request' = [request EXCEPT ![s] = NoRequest]
  PROVE  RequestsHonest'
<1> SUFFICES ASSUME NEW t \in Slots, request'[t].at # "none"
             PROVE  /\ request'[t].at = "publish" \/ request'[t].answer = "applied"
                         => Applied(request[t].item)'
                    /\ Before(request[t].item)'
  BY DEF RequestsHonest
<1>1. request'[t] = request[t]
  BY DEF Shaped, RequestTyped, NoRequest
<1>2. PICK k \in {0} \cup Items : k = request[t].item /\ Before(k)
  BY <1>1 DEF Shaped, RequestTyped, Request, Good, RequestsHonest
<1>3. Before(k)'
  BY <1>2, BeforeKept
<1>4. request'[t].at = "publish" \/ request'[t].answer = "applied" => Applied(k)'
  BY <1>1, <1>2 DEF Good, RequestsHonest, Keeps
<1> QED
  BY <1>1, <1>2, <1>3, <1>4 DEF Applied, Before

\* One item gets a status.
LEMMA StatusSet ==
  ASSUME Shaped, NEW i \in DOMAIN outbox, NEW st \in ItemStates,
         \/ outbox' = [outbox EXCEPT ![i].status = st]
         \/ \E w \in BOOLEAN : outbox' = [outbox EXCEPT ![i].status = st, ![i].waits = w]
  PROVE  \A x : ItemsWith({x})' = IF x = st THEN ItemsWith({x}) \cup {i} ELSE ItemsWith({x}) \ {i}
<1>1. DOMAIN outbox' = DOMAIN outbox
  BY DEF Shaped, OutboxTyped
<1>2. outbox[i] \in Item
  BY ItemAt DEF Shaped
<1>3. \A j \in DOMAIN outbox : outbox'[j].status = IF j = i THEN st ELSE outbox[j].status
  BY <1>2 DEF Item, Shaped, OutboxTyped
<1> QED
  BY <1>1, <1>3 DEF ItemsWith

\* The technician and the back-off make nothing "sending", failed or done.
LEMMA UserKeepsMarks ==
  ASSUME Shaped,
         \/ \E c \in Callbacks, type \in Taps : Tap(c, type)
         \/ \E i \in DOMAIN outbox : RetryItem(i) \/ BackoffElapses(i)
         \/ EndSession \/ SaveSession
  PROVE  \A x \in {"sending", "failed", "done"} : ItemsWith({x})' \subseteq ItemsWith({x})
<1>1. ASSUME NEW c \in Callbacks, NEW type \in Taps, Tap(c, type), NEW x \in {"sending", "failed", "done"}
      PROVE  ItemsWith({x})' \subseteq ItemsWith({x})
  <2>1. DOMAIN outbox = 1..Len(outbox) /\ Len(outbox) \in Nat /\ outbox \in Seq(Item)
    BY DEF Shaped, OutboxTyped
  <2>2. DOMAIN outbox' = 1..(Len(outbox) + 1) /\ outbox'[Len(outbox) + 1].status = "pending"
    BY <1>1, <2>1 DEF Tap
  <2>3. \A i \in DOMAIN outbox : outbox'[i] = outbox[i]
    BY <1>1, <2>1 DEF Tap
  <2> QED
    BY <2>1, <2>2, <2>3 DEF ItemsWith
<1>2. ASSUME NEW i \in DOMAIN outbox, RetryItem(i), NEW x \in {"sending", "failed", "done"}
      PROVE  ItemsWith({x})' \subseteq ItemsWith({x})
  <2>1. ItemsWith({x})' = IF x = "pending" THEN ItemsWith({x}) \cup {i} ELSE ItemsWith({x}) \ {i}
    BY <1>2, StatusSet DEF RetryItem, ItemStates
  <2> QED
    BY <2>1
<1>3. ASSUME NEW i \in DOMAIN outbox, BackoffElapses(i), NEW x \in {"sending", "failed", "done"}
      PROVE  ItemsWith({x})' \subseteq ItemsWith({x})
  <2>1. outbox[i] \in Item /\ DOMAIN outbox' = DOMAIN outbox
    BY <1>3, ItemAt DEF Shaped, OutboxTyped, BackoffElapses
  <2>2. \A j \in DOMAIN outbox : outbox'[j].status = outbox[j].status
    BY <1>3, <2>1 DEF BackoffElapses, Item, Shaped, OutboxTyped
  <2> QED
    BY <2>1, <2>2 DEF ItemsWith
<1>4. EndSession \/ SaveSession => UNCHANGED outbox
  BY DEF EndSession, SaveSession, phoneVars
<1>5. UNCHANGED outbox => \A x : ItemsWith({x})' = ItemsWith({x})
  BY DEF ItemsWith
<1> QED
  BY <1>1, <1>2, <1>3, <1>4, <1>5

\* Items recorded, retried or due again.
LEMMA UserGood ==
  ASSUME Shaped, Good,
         \/ \E c \in Callbacks, type \in Taps : Tap(c, type)
         \/ \E i \in DOMAIN outbox : RetryItem(i) \/ BackoffElapses(i)
         \/ EndSession \/ SaveSession
  PROVE  Good'
<1>1. Keeps
  BY KeepsIfSame DEF Tap, RetryItem, BackoffElapses, EndSession, SaveSession, tables, phoneVars
<1>2. \A x \in {"sending", "failed", "done"} : ItemsWith({x})' \subseteq ItemsWith({x})
  BY UserKeepsMarks
<1>3. UNCHANGED <<drain, request, answers, timeline, gaveUp>>
  BY DEF Tap, RetryItem, BackoffElapses, EndSession, SaveSession, tables, phoneVars
<1>4. OneInFlight' /\ FailedKnown'
  BY <1>2, <1>3 DEF Good, OneInFlight, FailedKnown
<1>5. DoneMeansApplied'
  BY <1>2, <1>3 DEF Good, DoneMeansApplied, Applied
<1> QED
  BY <1>1, <1>3, <1>4, <1>5, GoodFrame DEF Good

\* The drain starts, stops or marks the item done.
LEMMA DrainRunGood ==
  ASSUME Shaped, Good, StartDrain \/ StopDrain \/ GoneOffline \/ FinishDrain \/ MarkDone \/ ClosePage
  PROVE  Good'
<1>1. UNCHANGED <<timeline, gaveUp, request, answers>>
  BY DEF StartDrain, StopDrain, GoneOffline, FinishDrain, MarkDone, ClosePage, tables
<1>2. Keeps
  BY <1>1, KeepsIfSame
<1>3. CASE StopDrain \/ GoneOffline \/ FinishDrain \/ ClosePage
  <2>1. drain'.at \in {"idle", "stop"}
    BY <1>3 DEF StopDrain, GoneOffline, FinishDrain, ClosePage, Stopped, DrainIdle, Shaped, DrainTyped
  <2>2. UNCHANGED outbox
    BY <1>3 DEF StopDrain, GoneOffline, FinishDrain, ClosePage
  <2> QED
    BY <1>1, <1>2, <2>1, <2>2, GoodFrame DEF Good
<1>4. CASE StartDrain
  <2>1. \A x : ItemsWith({x})' \subseteq DOMAIN outbox
    BY <1>4 DEF StartDrain, ItemsWith
  <2>2. \A i \in DOMAIN outbox : outbox'[i].status = IF i \in Queued THEN "pending" ELSE outbox[i].status
    <3> SUFFICES ASSUME NEW i \in DOMAIN outbox
                 PROVE  outbox'[i].status = IF i \in Queued THEN "pending" ELSE outbox[i].status
      OBVIOUS
    <3>1. outbox[i] \in Item
      BY ItemAt DEF Shaped
    <3> QED
      BY <1>4, <3>1 DEF StartDrain, Item
  <2>3. ItemsWith({"sending"})' = {} /\ ItemsWith({"failed"})' \subseteq ItemsWith({"failed"})
        /\ ItemsWith({"done"})' \subseteq ItemsWith({"done"})
    BY <2>1, <2>2 DEF ItemsWith, Queued
  <2>4. drain'.at = "pick"
    BY <1>4 DEF StartDrain, DrainIdle
  <2>5. DrainHonest' /\ OneInFlight' /\ FailedKnown'
    BY <1>1, <2>3, <2>4 DEF Good, DrainHonest, OneInFlight, FailedKnown
  <2>6. DoneMeansApplied'
    BY <1>1, <2>3 DEF Good, DoneMeansApplied, Applied
  <2> QED
    BY <1>1, <1>2, <2>5, <2>6, GoodFrame DEF Good
<1>5. CASE MarkDone
  <2>1. drain.item \in DOMAIN outbox /\ Applied(drain.item)
    BY <1>5 DEF MarkDone, Shaped, DrainTyped, Good, DrainHonest
  <2>2. \A x : ItemsWith({x})' = IF x = "done" THEN ItemsWith({x}) \cup {drain.item}
                                 ELSE ItemsWith({x}) \ {drain.item}
    BY <1>5, <2>1, StatusSet DEF MarkDone, ItemStates
  <2>3. drain'.at = "pick"
    BY <1>5 DEF MarkDone, DrainIdle
  <2>4. ItemsWith({"sending"})' = {}
    BY <1>5, <2>2 DEF MarkDone, Good, OneInFlight
  <2>5. DrainHonest' /\ OneInFlight' /\ FailedKnown'
    BY <1>1, <2>2, <2>3, <2>4 DEF Good, DrainHonest, OneInFlight, FailedKnown
  <2>6. DoneMeansApplied'
    BY <1>1, <2>1, <2>2 DEF Good, DoneMeansApplied, Applied
  <2> QED
    BY <1>1, <1>2, <2>5, <2>6, GoodFrame DEF Good
<1> QED
  BY <1>3, <1>4, <1>5

\* The oldest item leaves: everything made before it took effect or was given up.
LEMMA SendGood == ASSUME Shaped, Good, SendItem PROVE Good'
<1>1. PICK i \in Oldest, s \in FreeSlots :
        /\ outbox' = [outbox EXCEPT ![i].status = "sending"]
        /\ request' = [request EXCEPT ![s] = [at |-> "sent", item |-> i, answer |-> "none"]]
        /\ drain' = [drain EXCEPT !.at = "wait", !.item = i, !.slot = s]
  BY DEF SendItem
<1>2. UNCHANGED <<timeline, gaveUp, answers>> /\ drain.at = "pick"
  BY DEF SendItem, tables
<1>3. i \in DOMAIN outbox /\ i \in Items /\ s \in Slots
  BY DomainIsItems DEF Oldest, ItemsWith, FreeSlots, Shaped
<1>4. Keeps
  BY <1>2, KeepsIfSame
<1>5. \A x : ItemsWith({x})' = IF x = "sending" THEN ItemsWith({x}) \cup {i} ELSE ItemsWith({x}) \ {i}
  BY <1>1, <1>3, StatusSet DEF ItemStates
<1>6. Before(i)
  <2> SUFFICES ASSUME NEW j \in Items, j < i PROVE j \in gaveUp \/ Applied(j)
    BY DEF Before
  <2>1. j \in DOMAIN outbox
    <3>1. DOMAIN outbox = 1..Len(outbox) /\ Len(outbox) \in Nat
      BY DEF Shaped, OutboxTyped
    <3> QED
      BY <1>3, <3>1, OutboxAssumption DEF Items
  <2>2. outbox[j].status # "pending"
    <3>1. j \notin ItemsWith({"pending"})
      BY <1>3, OutboxAssumption DEF Oldest, Items
    <3> QED
      BY <2>1, <3>1 DEF ItemsWith
  <2>3. outbox[j].status # "sending"
    BY <1>2, <2>1 DEF Good, OneInFlight, ItemsWith
  <2>4. outbox[j].status \in ItemStates
    BY <2>1, ItemAt DEF Shaped, Item
  <2>5. CASE outbox[j].status = "failed"
    BY <2>1, <2>5 DEF Good, FailedKnown, ItemsWith
  <2>6. CASE outbox[j].status = "done"
    BY <2>1, <2>6 DEF Good, DoneMeansApplied, ItemsWith
  <2> QED
    BY <2>2, <2>3, <2>4, <2>5, <2>6 DEF ItemStates
<1>7. RequestsHonest'
  <2> SUFFICES ASSUME NEW t \in Slots, request'[t].at # "none"
               PROVE  /\ request'[t].at = "publish" \/ request'[t].answer = "applied"
                           => Applied(request[t].item)'
                      /\ Before(request[t].item)'
    BY DEF RequestsHonest
  <2>1. CASE t = s
    <3>1. request'[t] = [at |-> "sent", item |-> i, answer |-> "none"]
      BY <1>1, <1>3, <2>1 DEF Shaped, RequestTyped
    <3>2. Before(i)'
      BY <1>4, <1>6, BeforeKept
    <3> QED
      BY <3>1, <3>2 DEF Before, Applied
  <2>2. CASE t # s
    <3>1. request'[t] = request[t]
      BY <1>1, <1>3, <2>2 DEF Shaped, RequestTyped
    <3>2. PICK k \in {0} \cup Items : k = request[t].item /\ Before(k)
      BY <3>1 DEF Shaped, RequestTyped, Request, Good, RequestsHonest
    <3>3. Before(k)'
      BY <1>4, <3>2, BeforeKept
    <3>4. request'[t].at = "publish" \/ request'[t].answer = "applied" => Applied(k)'
      BY <1>4, <3>1, <3>2 DEF Good, RequestsHonest, Keeps
    <3> QED
      BY <3>1, <3>2, <3>3, <3>4 DEF Applied, Before
  <2> QED
    BY <2>1, <2>2
<1>8. drain'.at = "wait" /\ drain'.item = i /\ drain'.slot = s
  BY <1>1 DEF Shaped, DrainTyped
<1>9. DrainHonest'
  BY <1>1, <1>3, <1>8 DEF DrainHonest, Shaped, RequestTyped
<1>10. OneInFlight' /\ FailedKnown'
  BY <1>2, <1>5, <1>8 DEF Good, OneInFlight, FailedKnown
<1>11. DoneMeansApplied'
  BY <1>2, <1>5 DEF Good, DoneMeansApplied, Applied
<1> QED
  BY <1>2, <1>4, <1>7, <1>9, <1>10, <1>11, GoodFrame DEF Good

\* The answer is taken: the slot is free, and the item is done, failed or queued again.
LEMMA ReceiveGood ==
  ASSUME Shaped, Good, Receive \/ ReceiveUnreadable PROVE Good'
<1>1. /\ drain.at = "wait"
      /\ UNCHANGED <<timeline, answers>>
      /\ gaveUp \subseteq gaveUp'
      /\ request' = request \/ request' = [request EXCEPT ![drain.slot] = NoRequest]
  BY DEF Receive, ReceiveUnreadable, ReceiveApplied, ReceiveRefusal, ReceiveUnauthorized,
         ReceiveError, ReceiveNothing, Answered, GiveUp, tables
<1>2. drain.item \in DOMAIN outbox /\ drain.slot \in Slots
  BY <1>1, Waiting
<1>3. Keeps
  BY <1>1, KeepsIfSame
<1>4. RequestsHonest'
  BY <1>1, <1>3, GoodFrame, SlotCleared
<1>5. CASE ReceiveApplied
  <2>1. UNCHANGED outbox /\ drain'.at = "mark" /\ drain'.item = drain.item
    BY <1>5 DEF ReceiveApplied, Shaped, DrainTyped
  <2>2. Applied(drain.item)
    <3>1. request[drain.slot].answer = "applied"
      BY <1>5 DEF ReceiveApplied, Answered, Answer
    <3>2. request[drain.slot].at # "none" /\ request[drain.slot].item = drain.item
      BY <1>1 DEF Good, DrainHonest
    <3> QED
      BY <1>2, <3>1, <3>2 DEF Good, RequestsHonest
  <2>3. DrainHonest'
    BY <1>1, <2>1, <2>2 DEF DrainHonest, Applied
  <2>4. OneInFlight'
    BY <1>1, <2>1 DEF Good, OneInFlight, ItemsWith
  <2> QED
    BY <1>1, <1>3, <1>4, <2>1, <2>3, <2>4, GoodFrame DEF Good
<1>6. CASE ReceiveRefusal \/ ReceiveUnreadable
  <2>1. GiveUp
    BY <1>6 DEF ReceiveRefusal, ReceiveUnreadable
  <2>2. \A x : ItemsWith({x})' = IF x = "failed" THEN ItemsWith({x}) \cup {drain.item}
                                 ELSE ItemsWith({x}) \ {drain.item}
    BY <1>2, <2>1, StatusSet DEF GiveUp, ItemStates
  <2>3. drain'.at = "pick" /\ gaveUp' = gaveUp \cup {drain.item}
    BY <2>1 DEF GiveUp, Shaped, DrainTyped
  <2>4. DrainHonest' /\ OneInFlight' /\ FailedKnown'
    BY <1>1, <2>2, <2>3 DEF Good, DrainHonest, OneInFlight, FailedKnown
  <2>5. DoneMeansApplied'
    BY <1>1, <2>2 DEF Good, DoneMeansApplied, Applied
  <2> QED
    BY <1>1, <1>3, <1>4, <2>4, <2>5, GoodFrame DEF Good
<1>7. CASE ReceiveUnauthorized \/ ReceiveError \/ ReceiveNothing
  <2>1. drain' = Stopped /\ UNCHANGED gaveUp
    BY <1>7 DEF ReceiveUnauthorized, ReceiveError, ReceiveNothing
  <2>2. drain'.at \in {"idle", "stop"}
    BY <2>1 DEF Stopped, DrainIdle, Shaped, DrainTyped
  <2>3. \/ outbox' = [outbox EXCEPT ![drain.item].status = "pending"]
        \/ outbox' = [outbox EXCEPT ![drain.item].status = "pending", ![drain.item].waits = TRUE]
    BY <1>7 DEF ReceiveUnauthorized, ReceiveError, ReceiveNothing, BackOff
  <2>4. \A x : ItemsWith({x})' = IF x = "pending" THEN ItemsWith({x}) \cup {drain.item}
                                 ELSE ItemsWith({x}) \ {drain.item}
    BY <1>2, <2>3, StatusSet DEF ItemStates
  <2>5. FailedKnown'
    BY <2>1, <2>4 DEF Good, FailedKnown
  <2>6. DoneMeansApplied'
    BY <1>1, <2>4 DEF Good, DoneMeansApplied, Applied
  <2> QED
    BY <1>1, <1>3, <1>4, <2>2, <2>5, <2>6, GoodFrame DEF Good
<1> QED
  BY <1>5, <1>6, <1>7 DEF Receive

\* An answer given to a request.
LEMMA RespondGood ==
  ASSUME Shaped, Good, NEW s \in Slots, request[s].at # "none", NEW answer, Respond(s, answer),
         answer = "applied" => Applied(request[s].item),
         UNCHANGED <<drain, timeline, gaveUp>>
  PROVE  RequestsHonest' /\ DrainHonest'
<1>1. Keeps
  BY KeepsIfSame
<1>2. \A t \in Slots \ {s} : request'[t] = request[t]
  BY DEF Respond, Shaped, RequestTyped
<1>3. request'[s] = [request[s] EXCEPT !.at = "answered", !.answer = answer]
  BY DEF Respond, Shaped, RequestTyped
<1>4. request'[s].at = "answered" /\ request'[s].answer = answer /\ request'[s].item = request[s].item
  BY <1>3 DEF Shaped, RequestTyped, Request
<1>5. answer = "applied" => Applied(request[s].item)'
  BY <1>4 DEF Applied
<1> QED
  BY <1>1, <1>2, <1>4, <1>5, RequestMoves

LEMMA RefuseGood ==
  ASSUME Shaped, Good, NEW s \in Slots, request[s].at # "none", Refuse(s),
         UNCHANGED <<drain, timeline, gaveUp, stored>>
  PROVE  RequestsHonest' /\ DrainHonest' /\ AnswersHonest'
<1>1. RequestsHonest' /\ DrainHonest'
  BY RespondGood DEF Refuse
<1>2. AnswersHonest'
  BY DEF Refuse, Good, AnswersHonest, Applied
<1> QED
  BY <1>1, <1>2

LEMMA ServeGood == ASSUME Shaped, Good, NEW s \in Slots, Serve(s) PROVE Good'
<1>1. CASE Lookup(s)
  <2>1. UNCHANGED <<outbox, drain, timeline, gaveUp, answers>> /\ request[s].at = "sent"
    BY <1>1 DEF Lookup, phoneVars, tables
  <2>2. Keeps
    BY <2>1, KeepsIfSame
  <2>3. RequestsHonest' /\ DrainHonest'
    <3>1. CASE Respond(s, "unauthorized")
      BY <2>1, <3>1, RespondGood
    <3>2. CASE stored[request[s].item] # "none" /\ Respond(s, stored[request[s].item])
      <4>1. request[s].item \in Items
        BY <2>1, RequestItem DEF Shaped
      <4>2. stored[request[s].item] = "applied" => Applied(request[s].item)
        BY <4>1 DEF Good, AnswersHonest
      <4> QED
        BY <2>1, <3>2, <4>2, RespondGood
    <3>3. CASE request' = [request EXCEPT ![s].at = "load"]
      <4>1. /\ \A t \in Slots \ {s} : request'[t] = request[t]
            /\ request'[s].at = "load" /\ request'[s].item = request[s].item
            /\ request'[s].answer = request[s].answer
        BY <3>3 DEF Shaped, RequestTyped, Request
      <4>2. request[s].answer = "applied" => Applied(request[s].item)
        BY <2>1 DEF Good, RequestsHonest
      <4>3. request'[s].answer = "applied" => Applied(request[s].item)'
        BY <2>1, <4>1, <4>2 DEF Applied
      <4> QED
        BY <2>1, <2>2, <4>1, <4>3, RequestMoves
    <3> QED
      BY <1>1, <3>1, <3>2, <3>3 DEF Lookup
  <2> QED
    BY <2>1, <2>2, <2>3, GoodFrame DEF Good
<1>2. CASE LoadCallback(s)
  <2>1. UNCHANGED <<outbox, drain, timeline, gaveUp, stored>> /\ request[s].at = "load"
    BY <1>2 DEF LoadCallback, phoneVars, tables
  <2>2. Keeps
    BY <2>1, KeepsIfSame
  <2>3. RequestsHonest' /\ DrainHonest' /\ AnswersHonest'
    <3>1. CASE Refuse(s)
      BY <2>1, <3>1, RefuseGood
    <3>2. CASE request' = [request EXCEPT ![s].at = "commit"] /\ unsaved' = unsaved
      <4>1. /\ \A t \in Slots \ {s} : request'[t] = request[t]
            /\ request'[s].at = "commit" /\ request'[s].item = request[s].item
            /\ request'[s].answer = request[s].answer
        BY <3>2 DEF Shaped, RequestTyped, Request
      <4>2. request[s].answer = "applied" => Applied(request[s].item)
        BY <2>1 DEF Good, RequestsHonest
      <4>3. request'[s].answer = "applied" => Applied(request[s].item)'
        BY <2>1, <4>1, <4>2 DEF Applied
      <4> QED
        BY <2>1, <2>2, <3>2, <4>1, <4>3, RequestMoves, GoodFrame DEF answers
    <3> QED
      BY <1>2, <3>1, <3>2 DEF LoadCallback
  <2> QED
    BY <2>1, <2>2, <2>3, GoodFrame DEF Good
<1>3. CASE CommitTransition(s)
  <2>1. UNCHANGED <<outbox, drain, gaveUp, answers>> /\ request[s].at = "commit"
    BY <1>3 DEF CommitTransition, phoneVars
  <2> DEFINE k == request[s].item
             e == [cb |-> outbox[k].cb, type |-> outbox[k].type, item |-> k]
  <2>2. timeline' = Append(timeline, e)
    BY <1>3 DEF CommitTransition, Write
  <2>3. k \in Items /\ timeline \in Seq(Entry)
    BY <2>1, RequestItem DEF Shaped, ServerTyped
  <2>4. Keeps
    BY <2>1, <2>2, KeepsIfWritten DEF Shaped
  <2>5. /\ DOMAIN timeline = 1..Len(timeline) /\ DOMAIN timeline' = 1..(Len(timeline) + 1)
        /\ Len(timeline) \in Nat
        /\ \A n \in DOMAIN timeline : timeline'[n] = timeline[n]
        /\ timeline'[Len(timeline) + 1] = e
    BY <2>2, <2>3
  <2>6. \E n \in DOMAIN timeline' : timeline'[n].item = k
    BY <2>5
  <2>7. RequestsHonest' /\ DrainHonest'
    <3>1. /\ \A t \in Slots \ {s} : request'[t] = request[t]
          /\ request'[s].at = "publish" /\ request'[s].item = k
      BY <1>3 DEF CommitTransition, Shaped, RequestTyped, Request
    <3>2. Applied(request[s].item)'
      BY <2>6, <3>1 DEF Applied
    <3> QED
      BY <2>1, <2>4, <3>1, <3>2, RequestMoves
  <2>8. Before(k)
    BY <2>1 DEF Good, RequestsHonest
  <2>9. TapsInOrder'
    <3> SUFFICES ASSUME NEW n \in DOMAIN timeline', NEW i \in Items, i < timeline'[n].item
                 PROVE  i \in gaveUp \/ \E m \in 1..(n - 1) : timeline'[m].item = i
      BY <2>1 DEF TapsInOrder
    <3>1. CASE n = Len(timeline) + 1
      <4>1. i \in gaveUp \/ \E m \in DOMAIN timeline : timeline[m].item = i
        BY <2>5, <2>8, <3>1 DEF Before, Applied
      <4> QED
        BY <2>5, <3>1, <4>1
    <3>2. CASE n \in DOMAIN timeline
      <4>1. i \in gaveUp \/ \E m \in 1..(n - 1) : timeline[m].item = i
        BY <2>5, <3>2 DEF Good, TapsInOrder
      <4>2. 1..(n - 1) \subseteq DOMAIN timeline
        BY <2>5, <3>2
      <4> QED
        BY <2>5, <4>1, <4>2
    <3> QED
      BY <2>5, <3>1, <3>2
  <2> QED
    BY <2>1, <2>4, <2>7, <2>9, GoodFrame DEF Good
<1>4. CASE RespondApplied(s)
  <2>1. UNCHANGED <<outbox, drain, timeline, gaveUp, stored>> /\ request[s].at = "publish"
    BY <1>4 DEF RespondApplied, phoneVars, tables
  <2>2. Keeps
    BY <2>1, KeepsIfSame
  <2>3. Applied(request[s].item)
    BY <2>1 DEF Good, RequestsHonest
  <2>4. RequestsHonest' /\ DrainHonest'
    BY <1>4, <2>1, <2>3, RespondGood DEF RespondApplied
  <2>5. AnswersHonest'
    BY <1>4, <2>1, <2>3 DEF RespondApplied, Good, AnswersHonest, Applied
  <2> QED
    BY <2>1, <2>2, <2>4, <2>5, GoodFrame DEF Good
<1>5. CASE DropAnswer(s)
  <2>1. UNCHANGED <<outbox, drain, timeline, gaveUp, answers>> /\ ~Awaited(s)
        /\ request' = [request EXCEPT ![s] = NoRequest]
    BY <1>5 DEF DropAnswer, phoneVars, tables
  <2>2. Keeps
    BY <2>1, KeepsIfSame
  <2>3. RequestsHonest'
    BY <2>1, <2>2, SlotCleared
  <2>4. DrainHonest'
    BY <2>1 DEF Awaited, Good, DrainHonest, Applied, Shaped, DrainTyped, RequestTyped
  <2> QED
    BY <2>1, <2>2, <2>3, <2>4, GoodFrame DEF Good
<1> QED
  BY <1>1, <1>2, <1>3, <1>4, <1>5 DEF Serve

LEMMA ServerFaultGood ==
  ASSUME Shaped, Good,
         \/ \E s \in Slots : RefuseInvalid(s) \/ RespondError(s)
         \/ \E r \in unsaved : SaveResponse(r)
         \/ \E i \in Items : ForgetResponse(i)
         \/ Restart
  PROVE  Good'
<1>1. UNCHANGED <<outbox, drain, timeline, gaveUp>>
  BY DEF RefuseInvalid, RespondError, SaveResponse, ForgetResponse, Restart, phoneVars, tables
<1>2. Keeps
  BY <1>1, KeepsIfSame
<1>3. ASSUME NEW s \in Slots, RefuseInvalid(s) PROVE Good'
  <2>1. request[s].at # "none" /\ Refuse(s) /\ UNCHANGED stored
    BY <1>3 DEF RefuseInvalid
  <2> QED
    BY <1>1, <1>2, <2>1, RefuseGood, GoodFrame DEF Good
<1>4. ASSUME NEW s \in Slots, RespondError(s) PROVE Good'
  <2>1. request[s].at # "none" /\ Respond(s, "error") /\ UNCHANGED answers
    BY <1>4 DEF RespondError
  <2>2. RequestsHonest' /\ DrainHonest'
    BY <1>1, <2>1, RespondGood
  <2> QED
    BY <1>1, <1>2, <2>1, <2>2, GoodFrame DEF Good
<1>5. ASSUME NEW r \in unsaved, SaveResponse(r) PROVE Good'
  <2>1. UNCHANGED request
    BY <1>5 DEF SaveResponse
  <2>2. r[1] \in Items
    BY DEF Shaped, AnswersTyped
  <2>3. AnswersHonest'
    BY <1>1, <1>5, <2>2 DEF SaveResponse, Good, AnswersHonest, Applied, Shaped, AnswersTyped
  <2> QED
    BY <1>1, <1>2, <2>1, <2>3, GoodFrame DEF Good
<1>6. ASSUME NEW i \in Items, ForgetResponse(i) PROVE Good'
  <2>1. UNCHANGED request
    BY <1>6 DEF ForgetResponse
  <2>2. AnswersHonest'
    BY <1>1, <1>6 DEF ForgetResponse, Good, AnswersHonest, Applied, Shaped, AnswersTyped
  <2> QED
    BY <1>1, <1>2, <2>1, <2>2, GoodFrame DEF Good
<1>7. CASE Restart
  <2>1. AnswersHonest'
    BY <1>1, <1>7 DEF Restart, Good, AnswersHonest, Applied
  <2>2. \A t \in Slots : \/ request[t].at = "none" /\ request'[t] = NoRequest
                         \/ /\ request[t].at # "none" /\ request'[t].at = "dead"
                            /\ request'[t].item = request[t].item
                            /\ request'[t].answer = request[t].answer
    BY <1>7 DEF Restart, Shaped, RequestTyped, Request
  <2>3. RequestsHonest'
    BY <1>1, <2>2 DEF Good, RequestsHonest, NoRequest, Before, Applied
  <2>4. DrainHonest'
    BY <1>1, <2>2 DEF Good, DrainHonest, Shaped, DrainTyped, NoRequest, Applied
  <2> QED
    BY <1>1, <1>2, <2>1, <2>3, <2>4, GoodFrame DEF Good
<1> QED
  BY <1>3, <1>4, <1>5, <1>6, <1>7

\* The office's transitions are not taps, and a pull writes no table but the copies.
LEMMA OfficeAndPullGood ==
  ASSUME Shaped, Good,
         \/ \E c \in Callbacks, type \in OfficeTypes : OfficeLoads(c, type)
         \/ OfficeCommits
         \/ StartPull \/ ServePull \/ PullFails \/ ReadUnsent \/ ApplyPull
  PROVE  Good'
<1>1. UNCHANGED <<outbox, drain, request, answers, gaveUp>>
  BY DEF OfficeLoads, OfficeCommits, StartPull, ServePull, PullFails, ReadUnsent, ApplyPull, phoneVars
<1>2. CASE OfficeCommits
  <2>1. PICK r \in desk.row : timeline' = Append(timeline, [cb |-> r[1], type |-> r[2], item |-> 0])
    BY <1>2 DEF OfficeCommits, Write
  <2>2. Keeps
    BY <1>1, <2>1, KeepsIfWritten DEF Shaped
  <2>3. /\ DOMAIN timeline = 1..Len(timeline) /\ DOMAIN timeline' = 1..(Len(timeline) + 1)
        /\ Len(timeline) \in Nat
        /\ \A n \in DOMAIN timeline : timeline'[n] = timeline[n]
        /\ timeline'[Len(timeline) + 1].item = 0
    BY <2>1 DEF Shaped, ServerTyped
  <2>4. TapsInOrder'
    <3> SUFFICES ASSUME NEW n \in DOMAIN timeline', NEW i \in Items, i < timeline'[n].item
                 PROVE  i \in gaveUp \/ \E m \in 1..(n - 1) : timeline'[m].item = i
      BY <1>1 DEF TapsInOrder
    <3>1. n \in DOMAIN timeline
      BY <2>3, OutboxAssumption DEF Items
    <3>2. i \in gaveUp \/ \E m \in 1..(n - 1) : timeline[m].item = i
      BY <2>3, <3>1 DEF Good, TapsInOrder
    <3>3. 1..(n - 1) \subseteq DOMAIN timeline
      BY <2>3, <3>1
    <3> QED
      BY <2>3, <3>2, <3>3
  <2> QED
    BY <1>1, <2>2, <2>4, GoodFrame DEF Good
<1>3. CASE ~OfficeCommits
  <2>1. UNCHANGED timeline
    BY <1>3 DEF OfficeLoads, StartPull, ServePull, PullFails, ReadUnsent, ApplyPull, tables
  <2> QED
    BY <1>1, <2>1, KeepsIfSame, GoodFrame DEF Good
<1> QED
  BY <1>2, <1>3

LEMMA GoodStep == Shaped /\ Good /\ [Next]_vars => Good'
<1> SUFFICES ASSUME Shaped, Good, [Next]_vars PROVE Good'
  OBVIOUS
<1>1. CASE UNCHANGED vars
  <2>1. UNCHANGED <<outbox, drain, request, answers, timeline, gaveUp>>
    BY <1>1 DEF vars, answers
  <2> QED
    BY <2>1, KeepsIfSame, GoodFrame DEF Good
<1>2. CASE Next
  BY <1>2, UserGood, DrainRunGood, SendGood, ReceiveGood, ServeGood, ServerFaultGood,
     OfficeAndPullGood DEF Next
<1> QED
  BY <1>1, <1>2

LEMMA AlwaysGood == Spec => []Good
BY InitGood, GoodStep, AlwaysShaped, PTL DEF Spec

\* What the phone shows as sent has taken effect on the server.
THEOREM SentMeansApplied == Spec => []DoneMeansApplied
<1>1. Good => DoneMeansApplied
  BY DEF Good
<1> QED
  BY <1>1, AlwaysGood, PTL

\* Taps take effect in the order they were made, items that were given up aside.
THEOREM InOrder == Spec => []TapsInOrder
<1>1. Good => TapsInOrder
  BY DEF Good
<1> QED
  BY <1>1, AlwaysGood, PTL

-----------------------------------------------------------------------------
(* Nobody waits in vain *)

\* A drain that is stopping has nothing under way.
Resting == drain.at = "stop" => ItemsWith({"sending"}) = {}

LEMMA RestingStep == ASSUME Shaped, Good, Resting, [Next]_vars PROVE Resting'
<1> SUFFICES ASSUME drain'.at = "stop" PROVE ItemsWith({"sending"})' = {}
  BY DEF Resting
<1>d. UNCHANGED outbox => ItemsWith({"sending"})' = ItemsWith({"sending"})
  BY DEF ItemsWith
<1>1. CASE UNCHANGED vars
  BY <1>1, <1>d DEF vars, Resting
<1>2. CASE \/ \E c \in Callbacks, type \in Taps : Tap(c, type)
           \/ \E i \in DOMAIN outbox : RetryItem(i) \/ BackoffElapses(i)
           \/ EndSession \/ SaveSession
  <2>1. UNCHANGED drain
    BY <1>2 DEF Tap, RetryItem, BackoffElapses, EndSession, SaveSession, phoneVars
  <2> QED
    BY <1>2, <2>1, UserKeepsMarks DEF Resting
<1>3. CASE StartDrain \/ SendItem \/ MarkDone \/ FinishDrain \/ ClosePage
           \/ ReceiveApplied \/ ReceiveRefusal \/ ReceiveUnreadable
  <2>1. drain \in DrainSet
    BY DEF Shaped, DrainTyped, DrainSet
  <2>2. CASE StartDrain \/ MarkDone \/ FinishDrain \/ ClosePage
    <3>1. drain' \in {DrainIdle, [DrainIdle EXCEPT !.at = "pick"],
                      [DrainIdle EXCEPT !.at = "pick", !.sentAny = TRUE]}
      BY <2>2 DEF StartDrain, MarkDone, FinishDrain, ClosePage
    <3>2. /\ DrainIdle.at = "idle" /\ [DrainIdle EXCEPT !.at = "pick"].at = "pick"
          /\ [DrainIdle EXCEPT !.at = "pick", !.sentAny = TRUE].at = "pick"
      BY DEF DrainIdle
    <3> QED
      BY <3>1, <3>2
  <2>3. CASE SendItem
    <3>1. drain'.at = "wait"
      BY <2>1, <2>3 DEF SendItem, DrainSet
    <3> QED
      BY <3>1
  <2>4. CASE ReceiveApplied
    BY <2>1, <2>4 DEF ReceiveApplied, DrainSet
  <2>5. CASE ReceiveRefusal \/ ReceiveUnreadable
    BY <2>1, <2>5 DEF ReceiveRefusal, ReceiveUnreadable, GiveUp, DrainSet
  <2> QED
    BY <1>3, <2>2, <2>3, <2>4, <2>5
<1>4. CASE StopDrain \/ GoneOffline
  <2>1. ItemsWith({"sending"}) = {} /\ UNCHANGED outbox
    BY <1>4 DEF StopDrain, GoneOffline, Good, OneInFlight
  <2> QED
    BY <2>1, <1>d
<1>5. CASE ReceiveUnauthorized \/ ReceiveError \/ ReceiveNothing
  <2>1. drain.at = "wait" /\ drain.item \in DOMAIN outbox
    BY <1>5, Waiting DEF ReceiveUnauthorized, ReceiveError, ReceiveNothing, Answered
  <2>2. \/ outbox' = [outbox EXCEPT ![drain.item].status = "pending"]
        \/ outbox' = [outbox EXCEPT ![drain.item].status = "pending", ![drain.item].waits = TRUE]
    BY <1>5 DEF ReceiveUnauthorized, ReceiveError, ReceiveNothing, BackOff
  <2>3. ItemsWith({"sending"})' = ItemsWith({"sending"}) \ {drain.item}
    BY <2>1, <2>2, StatusSet DEF ItemStates
  <2> QED
    BY <2>1, <2>3 DEF Good, OneInFlight
<1>6. CASE \/ \E s \in Slots : Serve(s) \/ RefuseInvalid(s) \/ RespondError(s)
           \/ (\E r \in unsaved : SaveResponse(r)) \/ (\E i \in Items : ForgetResponse(i)) \/ Restart
           \/ (\E c \in Callbacks, type \in OfficeTypes : OfficeLoads(c, type)) \/ OfficeCommits
           \/ StartPull \/ ServePull \/ PullFails \/ ReadUnsent \/ ApplyPull
  <2>1. UNCHANGED <<drain, outbox>>
    BY <1>6 DEF Serve, Lookup, LoadCallback, CommitTransition, RespondApplied, DropAnswer, RefuseInvalid,
                RespondError, SaveResponse, ForgetResponse, Restart, OfficeLoads, OfficeCommits, StartPull,
                ServePull, PullFails, ReadUnsent, ApplyPull, phoneVars
  <2> QED
    BY <2>1, <1>d DEF Resting
<1> QED
  BY <1>1, <1>2, <1>3, <1>4, <1>5, <1>6 DEF Next, Receive

\* What an item's settling waits for is never lost: a waiting drain has its
\* request in the server, and an item is "sending" only while the drain works
\* on it or after its page was closed, when the next drain queues it again.
THEOREM NobodyIsStuck == Spec => []NobodyWaitsInVain
<1>1. Init => Resting
  BY DEF Init, Resting, DrainIdle
<1>2. Shaped /\ Good /\ Resting /\ [Next]_vars => Resting'
  BY RestingStep
<1>3. Shaped /\ Good /\ Resting => NobodyWaitsInVain
  <2> SUFFICES ASSUME Shaped, Good, Resting, NEW i \in ItemsWith({"sending"}), drain.at # "idle"
               PROVE  drain.at \in {"wait", "mark"} /\ drain.item = i
    BY DEF NobodyWaitsInVain, Good, DrainHonest
  <2>1. drain.at \in {"pick", "wait", "mark", "stop"}
    BY DEF Shaped, DrainTyped, DrainAts
  <2> QED
    BY <2>1 DEF Good, OneInFlight, Resting
<1> QED
  BY <1>1, <1>2, <1>3, AlwaysShaped, AlwaysGood, PTL DEF Spec
===============================================================================
