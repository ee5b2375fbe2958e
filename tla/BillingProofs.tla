--------------------------- MODULE BillingProofs ---------------------------
(***************************************************************************)
(* Proofs about Billing, for any subscriptions, requests, lengths of a     *)
(* period, grace days, delivery window and bounds: type correctness, that  *)
(* a delivery is only ever counted once, that paid time is honoured, that  *)
(* the row agrees with Stripe and that a free ride ends.                   *)
(*                                                                         *)
(* All of them are about the last change of a subscription Stripe told of. *)
(* Once that has been processed the row must stay in step with it, and     *)
(* nothing may be under way that could still bring an older value back:    *)
(* not an older event, and not a sync that merges into a row it has not    *)
(* seen.                                                                   *)
(***************************************************************************)
EXTENDS Billing, TLAPS

(* Stripe's side: what is charged, what a subscription's end may be, and    *)
(* what the events tell of.                                                *)
RemoteKnows ==
  \A s \in Subs :
    /\ remote[s].status = "none" => remote[s] = Unsold /\ paidUntil[s] = 0
    /\ remote[s].status # "none" => customer[s] # None
    /\ paidUntil[s] <= remote[s].end
    /\ remote[s].end <= paidUntil[s] + Period
    /\ remote[s].end <= today + Period
    /\ remote[s].status = "active" => paidUntil[s] = remote[s].end
    /\ Live(s) => today <= remote[s].end
EventsKnow ==
  /\ \A e \in events :
       /\ e.at \in 1..version /\ customer[e.of] # None
       /\ e.of = Pass => e.kind = "checkout" /\ paidUntil[Pass] # 0
       /\ e.of \in Subs => e.body.status # "none" /\ remote[e.of].status # "none"
       /\ e.kind = "deleted" => e.body.status = "canceled"
       /\ e.kind = "failed" => e.body.status = "past_due"
  /\ \A e, f \in events : e.at = f.at => e.of = f.of /\ e.body = f.body
  /\ \A e, f \in events : e.of = Pass /\ f.of = Pass => e = f

(* The pass: bought once, granted by its one event.                         *)
PassDone == \E e \in processed : e.of = Pass
PassKnows ==
  /\ paidUntil[Pass] # 0 => paidUntil[Pass] = SeasonEnd /\ \E e \in events : e.of = Pass
  /\ PassDone => passEnd = SeasonEnd
  /\ row # NoRow /\ row.plan = "season" => PassDone
  /\ row # NoRow /\ row.plan = "monthly" => \E e \in events : e.of \in Subs

(* A request in the middle of a sync.                                       *)
Syncing(q) ==
  /\ q.event \in events /\ q.event.kind \in {"checkout", "paid"} /\ q.event.of \in Subs
  /\ q.event.kind = "paid" => q.seen # NoRow
  /\ q.got # Unsold => q.got.status # "none" /\ q.at <= version
  /\ q.seen # NoRow /\ q.seen.plan = "season" => PassDone
RequestKnows == \A r \in Requests : request[r] # Idle => Syncing(request[r])

(* The last change of a subscription that Stripe told of, and what it tells. *)
Latest(e) ==
  /\ e \in events /\ e.kind \in {"changed", "deleted"}
  /\ \A f \in events : f.of \in Subs => f.at <= e.at
LatestIsTrue ==
  /\ (\E s \in Subs : remote[s].status # "none") => \E e \in events : Latest(e)
  /\ \A e \in events : Latest(e) => e.body = remote[e.of]
  /\ \A e \in events : Latest(e) =>
       \A r \in Requests :
         LET q == request[r]
         IN q # Idle /\ q.got # Unsold /\ e.at <= q.at /\ q.event.of = e.of => q.got = e.body

(* While no subscription was bought beside another, everything under way is *)
(* of the newest, whose end is the furthest.                                *)
OneAtATime ==
  ~beside =>
    \A e \in events : Latest(e) =>
      /\ \A s \in Subs : Live(s) => s = e.of
      /\ \A s \in Subs : paidUntil[s] <= e.body.end
      /\ \A f \in Undelivered : f.of \in Subs => f.of = e.of

(* While no period was renewed over undelivered events either, all that is  *)
(* under way has the end of the last change, and the row has it as soon as  *)
(* that is processed, in whatever order.                                   *)
SamePeriod ==
  ~beside /\ ~crossed =>
    \A e \in events : Latest(e) =>
      /\ \A f \in Undelivered : f.of \in Subs => f.body.end = e.body.end
      /\ \A r \in Requests :
           LET q == request[r]
           IN q # Idle /\ q.event \in Undelivered /\ q.got # Unsold => q.got.end = e.body.end
      /\ e \in processed /\ paidUntil[Pass] = 0 => row # NoRow /\ row.end = e.body.end

(* While nothing overtook anything, the row agrees with the last change as  *)
(* soon as that is processed.  A season pass hides a column of it only      *)
(* until a sync has written that again.                                     *)
Mirrors(w, b) ==
  /\ w.status = b.status
  /\ w.end = b.end
  /\ w.status # "canceled" => w.ending = b.ending
Returned(w, seen, b) ==
  /\ seen.status = b.status => w.status = b.status
  /\ seen.end = b.end => w.end = b.end
  /\ seen.ending = b.ending /\ b.status # "canceled" => w.ending = b.ending
RowInOrder ==
  InOrder =>
    \A e \in processed : Latest(e) =>
      /\ row # NoRow /\ row.sub = e.of /\ e.at <= asOf
      /\ row.plan = "monthly" => Mirrors(row, e.body)
      /\ \A r \in Requests :
           LET q == request[r]
           IN q # Idle /\ q.seen # NoRow /\ q.seen.plan = "season" => Returned(row, q.seen, e.body)

IInv == /\ TypeOK /\ RemoteKnows /\ EventsKnow /\ PassKnows /\ RequestKnows
        /\ LatestIsTrue /\ OneAtATime /\ SamePeriod /\ RowInOrder

-----------------------------------------------------------------------------
(* What a step of Stripe does to a subscription, and what it tells of it.    *)
Bill(s, new) ==
  \E n \in Nat :
    /\ paidUntil' = [paidUntil EXCEPT ![s] = n]
    /\ n <= new.end /\ new.end <= n + Period
    /\ new.status = "active" => n = new.end
TellsOf(s, new, kinds) ==
  /\ Change(s, new, kinds)
  /\ customer[s] # None /\ new \in Remote /\ new.status # "none"
  /\ kinds \subseteq {"checkout", "changed", "deleted", "paid", "failed"}
  /\ \E k \in kinds : k \in {"changed", "deleted"}
  /\ "deleted" \in kinds => new.status = "canceled"
  /\ "failed" \in kinds => new.status = "past_due"
  /\ Bill(s, new)
  /\ new.end <= today + Period
  /\ new.status # "canceled" => today <= new.end
  /\ \/ /\ remote[s].status = "none" /\ new.end = today + Period
        /\ beside' = (beside \/ ~Settled \/ \E t \in Subs : Live(t)) /\ crossed' = crossed
     \/ /\ Live(s) /\ new.end = today + Period
        /\ beside' = beside /\ crossed' = (crossed \/ ~Settled)
     \/ Live(s) /\ new.end = remote[s].end /\ beside' = beside /\ crossed' = crossed
StripeMoves(s) ==
  Subscribe(s) \/ Renew(s) \/ RenewalFails(s) \/ Recover(s) \/ CancelAtPeriodEnd(s) \/ Cancelled(s)

(* The end of what is paid is known by the charge, or stays as it was.       *)
LEMMA BillIs ==
  ASSUME NEW s, NEW new, NEW n \in Nat, paidUntil' = [paidUntil EXCEPT ![s] = n],
         n <= new.end, new.end <= n + Period, new.status = "active" => n = new.end
  PROVE  Bill(s, new)
<1> SUFFICES \E m \in Nat : /\ paidUntil' = [paidUntil EXCEPT ![s] = m]
                            /\ m <= new.end /\ new.end <= m + Period
                            /\ new.status = "active" => m = new.end
  BY DEF Bill
<1> WITNESS n \in Nat
<1> QED
  OBVIOUS

(* Every move of Stripe's is such a step: a charge comes with the end it     *)
(* pays for, and only a failed one lets the end run ahead, by one period.    *)
LEMMA MovesTell ==
  ASSUME TypeOK, RemoteKnows, NEW s \in Subs, StripeMoves(s)
  PROVE  \E new, kinds : TellsOf(s, new, kinds)
<1>0. /\ Period \in Nat \ {0} /\ today \in Nat /\ remote[s] \in Remote /\ paidUntil[s] \in Nat
      /\ paidUntil \in [Purchases -> Nat] /\ s \in Purchases
  BY BillingAssumption DEF TypeOK, Purchases
<1> PICK now \in Remote : now = remote[s]
  BY <1>0
<1>1. /\ paidUntil[s] <= now.end /\ now.end <= paidUntil[s] + Period /\ now.end <= today + Period
      /\ now.status = "active" => paidUntil[s] = now.end
      /\ Live(s) => today <= now.end
      /\ Live(s) => customer[s] # None
  BY DEF RemoteKnows, Live
<1>2. CASE Subscribe(s)
  <2>1. PICK new : new = [status |-> "active", end |-> today + Period, ending |-> FALSE]
    OBVIOUS
  <2>2. new \in Remote /\ new.status = "active" /\ new.end = today + Period
    BY <2>1, <1>0 DEF Remote, Statuses
  <2>3. Bill(s, new)
    <3>1. PICK n \in Nat : n = today + Period
      BY <1>0
    <3>2. paidUntil' = [paidUntil EXCEPT ![s] = n]
      BY <1>2, <3>1 DEF Subscribe, Charged
    <3>3. n = new.end /\ n <= new.end /\ new.end <= n + Period
      BY <2>2, <1>0, <3>1
    <3> QED
      BY <3>2, <3>3, BillIs
  <2>4. TellsOf(s, new, {"checkout", "changed", "paid"})
    BY <1>2, <2>1, <2>2, <2>3, <1>0 DEF Subscribe, TellsOf
  <2> QED
    BY <2>4
<1>3. CASE Renew(s)
  <2>1. PICK new : new = [now EXCEPT !.end = @ + Period]
    OBVIOUS
  <2>2. now.status = "active" /\ now.end = today
    BY <1>3 DEF Renew, Renewal, Due
  <2>3. new \in Remote /\ new.status = "active" /\ new.end = today + Period
    BY <2>1, <2>2, <1>0 DEF Remote
  <2>4. Bill(s, new)
    <3>1. PICK n \in Nat : n = today + Period
      BY <1>0
    <3>2. paidUntil' = [paidUntil EXCEPT ![s] = n]
      BY <1>3, <3>1 DEF Renew, Charged
    <3>3. n = new.end /\ n <= new.end /\ new.end <= n + Period
      BY <2>3, <1>0, <3>1
    <3> QED
      BY <3>2, <3>3, BillIs
  <2>5. TellsOf(s, new, {"changed", "paid"})
    BY <1>3, <2>1, <2>2, <2>3, <2>4, <1>0, <1>1 DEF Renew, Renewal, TellsOf, Live
  <2> QED
    BY <2>5
<1>4. CASE RenewalFails(s)
  <2>1. PICK new : new = [now EXCEPT !.end = @ + Period, !.status = "past_due"]
    OBVIOUS
  <2>2. now.status = "active" /\ now.end = today
    BY <1>4 DEF RenewalFails, Renewal, Due
  <2>3. new \in Remote /\ new.status = "past_due" /\ new.end = today + Period
    <3>1. PICK n \in Nat : n = today + Period
      BY <1>0
    <3>2. new = [now EXCEPT !.end = n, !.status = "past_due"]
      BY <2>1, <2>2, <3>1
    <3> QED
      BY <3>1, <3>2 DEF Remote, Statuses
  <2>4. paidUntil' = [paidUntil EXCEPT ![s] = paidUntil[s]]
    BY <1>4, <1>0 DEF RenewalFails
  <2>5. Bill(s, new)
    <3>1. paidUntil[s] <= new.end /\ new.end <= paidUntil[s] + Period /\ new.status # "active"
      BY <2>2, <2>3, <1>0, <1>1
    <3> QED
      BY <2>4, <3>1, <1>0, BillIs
  <2>6. TellsOf(s, new, {"changed", "failed"})
    BY <1>4, <2>1, <2>2, <2>3, <2>5, <1>0, <1>1 DEF RenewalFails, Renewal, TellsOf, Live
  <2> QED
    BY <2>6
<1>5. CASE Recover(s)
  <2>1. PICK new : new = [now EXCEPT !.status = "active"]
    OBVIOUS
  <2>2. now.status = "past_due" /\ Live(s)
    BY <1>5 DEF Recover, Live
  <2>3. new \in Remote /\ new.status = "active" /\ new.end = now.end /\ now.end \in Nat
    BY <2>1, <2>2, <1>0 DEF Remote, Statuses
  <2>4. Bill(s, new)
    <3>1. PICK n \in Nat : n = now.end
      BY <2>3
    <3>2. paidUntil' = [paidUntil EXCEPT ![s] = n]
      BY <1>5, <3>1 DEF Recover, Charged
    <3>3. n = new.end /\ n <= new.end /\ new.end <= n + Period
      BY <2>3, <1>0, <3>1
    <3> QED
      BY <3>2, <3>3, BillIs
  <2>5. TellsOf(s, new, {"changed", "paid"})
    BY <1>5, <2>1, <2>2, <2>3, <2>4, <1>0, <1>1 DEF Recover, TellsOf, overlaps
  <2> QED
    BY <2>5
<1>6. CASE CancelAtPeriodEnd(s)
  <2>1. PICK new : new = [now EXCEPT !.ending = ~@]
    OBVIOUS
  <2>2. now.status = "active" /\ Live(s)
    BY <1>6 DEF CancelAtPeriodEnd, Live
  <2>3. new \in Remote /\ new.status = "active" /\ new.end = now.end /\ now.end \in Nat
    BY <2>1, <2>2, <1>0 DEF Remote, Statuses
  <2>4. paidUntil' = [paidUntil EXCEPT ![s] = paidUntil[s]]
    BY <1>6, <1>0 DEF CancelAtPeriodEnd
  <2>5. Bill(s, new)
    BY <2>2, <2>3, <2>4, <1>0, <1>1, BillIs
  <2>6. TellsOf(s, new, {"changed"})
    BY <1>6, <2>1, <2>2, <2>3, <2>5, <1>0, <1>1 DEF CancelAtPeriodEnd, TellsOf, overlaps
  <2> QED
    BY <2>6
<1>7. CASE Cancelled(s)
  <2>1. PICK new : new = [now EXCEPT !.status = "canceled"]
    OBVIOUS
  <2>2. Live(s)
    BY <1>7 DEF Cancelled, Live
  <2>3. new \in Remote /\ new.status = "canceled" /\ new.end = now.end /\ now.end \in Nat
    BY <2>1, <2>2, <1>0 DEF Remote, Statuses
  <2>4. paidUntil' = [paidUntil EXCEPT ![s] = paidUntil[s]]
    BY <1>7, <1>0 DEF Cancelled
  <2>5. Bill(s, new)
    BY <2>2, <2>3, <2>4, <1>0, <1>1, BillIs
  <2>6. TellsOf(s, new, {"deleted"})
    BY <1>7, <2>1, <2>2, <2>3, <2>5, <1>0, <1>1 DEF Cancelled, TellsOf, overlaps
  <2> QED
    BY <2>6
<1> QED
  BY <1>2, <1>3, <1>4, <1>5, <1>6, <1>7 DEF StripeMoves

-----------------------------------------------------------------------------
(* _upsert_subscription writes all columns when the row is as it was loaded, *)
(* and the columns that differ from it otherwise.                           *)
LEMMA WholeMerge ==
  ASSUME NEW new \in Row, row \in Row \cup {NoRow}
  PROVE  Merge(row, new) = new
BY NoRowAssumption DEF Merge, Row
(* ... whatever the row had become, and the result is a row again.           *)
LEMMA PartMerge ==
  ASSUME NEW loaded \in Row, NEW new \in Row, row \in Row \cup {NoRow}, NEW w, w = Merge(loaded, new)
  PROVE  /\ w \in Row
         /\ row = NoRow => w = new
         /\ row # NoRow =>
              /\ w.cust = IF new.cust = loaded.cust THEN row.cust ELSE new.cust
              /\ w.plan = IF new.plan = loaded.plan THEN row.plan ELSE new.plan
              /\ w.sub = IF new.sub = loaded.sub THEN row.sub ELSE new.sub
              /\ w.status = IF new.status = loaded.status THEN row.status ELSE new.status
              /\ w.end = IF new.end = loaded.end THEN row.end ELSE new.end
              /\ w.ending = IF new.ending = loaded.ending THEN row.ending ELSE new.ending
<1>1. CASE row = NoRow
  BY <1>1 DEF Merge
<1>2. CASE row # NoRow
  <2>1. DOMAIN new = {"cust", "plan", "sub", "status", "end", "ending"}
    BY DEF Row
  <2>2. w = [c \in DOMAIN new |-> IF new[c] = loaded[c] THEN row[c] ELSE new[c]]
    BY <1>2 DEF Merge
  <2>3. row \in Row
    BY <1>2
  <2> QED
    BY <1>2, <2>1, <2>2, <2>3 DEF Row
<1> QED
  BY <1>1, <1>2

(* What a webhook writes, and what a sync does when its answer is there.     *)
Order(at) ==
  /\ asOf' = IF at > asOf THEN at ELSE asOf
  /\ disordered' = (disordered \/ at < asOf)
Processes(e) ==
  /\ e \in Undelivered /\ Ledger(e)
  /\ UNCHANGED <<today, stripe, overlaps>>
Handled(e) ==
  /\ Processes(e) /\ UNCHANGED request
  /\ \/ /\ e.of \in Subs /\ e.kind = "changed" /\ row' = Monthly(e.of, e.body)
        /\ Order(e.at) /\ passEnd' = passEnd
     \/ /\ e.of \in Subs /\ e.kind = "deleted" /\ row' = Ended(e.of, e.body)
        /\ Order(e.at) /\ passEnd' = passEnd
     \/ /\ e.of \in Subs /\ e.kind = "failed" /\ row # NoRow /\ row' = [row EXCEPT !.status = "past_due"]
        /\ Order(e.at) /\ passEnd' = passEnd
     \/ /\ e.of = Pass /\ e.kind = "checkout" /\ row' = Season
        /\ Order(e.at) /\ passEnd' = SeasonEnd
     \/ e.of \in Subs /\ e.kind \in {"paid", "failed"} /\ UNCHANGED mirror
Synced(r) ==
  LET q == request[r]
      e == q.event
  IN /\ q # Idle /\ q \in Sync /\ q.got # Unsold
     /\ Processes(e) /\ passEnd' = passEnd /\ Order(q.at)
     /\ request' = [request EXCEPT ![r] = Idle]
     /\ row' \in Row
     /\ \/ row = NoRow /\ row' = Monthly(e.of, q.got)
        \/ e.kind = "checkout" /\ row' = Monthly(e.of, q.got)
        \/ row # NoRow /\ e.kind = "paid" /\ q.seen \in Row /\ row' = Merge(q.seen, Monthly(e.of, q.got))

(* What _on_subscription_deleted writes, column by column.                   *)
LEMMA EndedIs ==
  ASSUME NEW s, NEW b
  PROVE  Ended(s, b) = [cust |-> customer[s], plan |-> "monthly", sub |-> s,
                        status |-> "canceled", end |-> b.end, ending |-> FALSE]
<1>1. PICK m : m = [cust |-> customer[s], plan |-> "monthly", sub |-> s,
                    status |-> b.status, end |-> b.end, ending |-> b.ending]
  OBVIOUS
<1>2. m = Monthly(s, b)
  BY <1>1 DEF Monthly
<1>3. Ended(s, b) = [m EXCEPT !.status = "canceled", !.ending = FALSE]
  BY <1>2 DEF Ended
<1> QED
  BY <1>1, <1>3

(* The rows the handlers make. *)
LEMMA RowsTyped ==
  ASSUME TypeOK, EventsKnow
  PROVE  /\ \A e \in events, b \in Remote :
              e.of \in Subs /\ b.status # "none" => Monthly(e.of, b) \in Row /\ Ended(e.of, b) \in Row
         /\ \A e \in events : e.of = Pass => Season \in Row
         /\ row # NoRow => [row EXCEPT !.status = "past_due"] \in Row
<1>1. ASSUME NEW e \in events, NEW b \in Remote, e.of \in Subs, b.status # "none"
      PROVE  Monthly(e.of, b) \in Row /\ Ended(e.of, b) \in Row
  <2>1. customer[e.of] \in Purchases /\ e.of \in Subs
    BY <1>1 DEF EventsKnow, TypeOK, Event
  <2>2. b.status \in Statuses /\ b.end \in Nat /\ b.ending \in BOOLEAN
    BY <1>1 DEF Remote
  <2>3. Monthly(e.of, b) \in Row
    BY <2>1, <2>2 DEF Monthly, Row
  <2>4. Ended(e.of, b) \in Row
    BY <2>3 DEF Ended, Row, Statuses
  <2> QED
    BY <2>3, <2>4
<1>2. ASSUME NEW e \in events, e.of = Pass PROVE Season \in Row
  <2>1. customer[Pass] \in Purchases
    BY <1>2 DEF EventsKnow, TypeOK, Purchases
  <2>2. (IF row = NoRow THEN None ELSE row.sub) \in Subs \cup {None}
    BY DEF TypeOK, Row
  <2> QED
    BY <2>1, <2>2, BillingAssumption DEF Season, Row, Statuses
<1>3. row # NoRow => [row EXCEPT !.status = "past_due"] \in Row
  BY DEF TypeOK, Row, Statuses
<1> QED
  BY <1>1, <1>2, <1>3

(* Handle is one of these: the handlers that await nothing write the row as  *)
(* they loaded it.                                                          *)
LEMMA HandleIs ==
  ASSUME TypeOK, EventsKnow, NEW e \in events, Handle(e)
  PROVE  Handled(e)
<1>0. /\ e.of \in Subs \cup {Pass} /\ (e.of = Pass => e.kind = "checkout") /\ e.body \in Remote
      /\ (e.of \in Subs => e.body.status # "none") /\ Pass \notin Subs /\ row \in Row \cup {NoRow}
  BY BillingAssumption DEF TypeOK, EventsKnow, Event, Purchases
<1>1. Processes(e) /\ UNCHANGED request
  BY DEF Handle, Processes
<1>2. CASE SubscriptionChanged(e)
  <2>1. Monthly(e.of, e.body) \in Row /\ e.of \in Subs
    BY <1>0, <1>2, RowsTyped DEF SubscriptionChanged
  <2>2. row' = Monthly(e.of, e.body)
    BY <1>0, <1>2, <2>1, WholeMerge DEF SubscriptionChanged, Upsert
  <2> QED
    BY <1>1, <1>2, <2>1, <2>2 DEF SubscriptionChanged, Upsert, Handled, Order
<1>3. CASE SubscriptionDeleted(e)
  <2>1. Ended(e.of, e.body) \in Row /\ e.of \in Subs
    BY <1>0, <1>3, RowsTyped DEF SubscriptionDeleted
  <2>2. row' = Ended(e.of, e.body)
    BY <1>0, <1>3, <2>1, WholeMerge DEF SubscriptionDeleted, Upsert
  <2> QED
    BY <1>1, <1>3, <2>1, <2>2 DEF SubscriptionDeleted, Upsert, Handled, Order
<1>4. CASE InvoiceFailed(e)
  <2>1. [row EXCEPT !.status = "past_due"] \in Row /\ row # NoRow /\ e.of \in Subs
    BY <1>0, <1>4, RowsTyped DEF InvoiceFailed, Resolves
  <2>2. row' = [row EXCEPT !.status = "past_due"]
    BY <1>0, <1>4, <2>1, WholeMerge DEF InvoiceFailed, Upsert
  <2> QED
    BY <1>1, <1>4, <2>1, <2>2 DEF InvoiceFailed, Upsert, Handled, Order
<1>5. CASE SeasonCheckout(e)
  <2>1. Season \in Row
    BY <1>5, RowsTyped DEF SeasonCheckout
  <2>2. row' = Season
    BY <1>0, <1>5, <2>1, WholeMerge DEF SeasonCheckout, Upsert
  <2> QED
    BY <1>1, <1>5, <2>1, <2>2 DEF SeasonCheckout, Upsert, Handled, Order
<1>6. CASE Ignored(e)
  BY <1>0, <1>1, <1>6 DEF Ignored, Handled
<1> QED
  BY <1>2, <1>3, <1>4, <1>5, <1>6 DEF Handle

(* FinishSync is such a step: a row that was there when an invoice came is   *)
(* merged into, any other is written whole.                                 *)
LEMMA SyncIs ==
  ASSUME TypeOK, EventsKnow, RequestKnows, NEW r \in Requests, FinishSync(r)
  PROVE  Synced(r)
<1>1. PICK q \in Sync : q = request[r]
  BY DEF FinishSync, TypeOK
<1>2. /\ q # Idle /\ q.got # Unsold /\ q.event \in Undelivered /\ request' = [request EXCEPT ![r] = Idle]
      /\ Upsert(IF q.event.kind = "paid" THEN q.seen ELSE row, Monthly(q.event.of, q.got), q.at)
      /\ Processes(q.event) /\ passEnd' = passEnd
  BY <1>1 DEF FinishSync, Waiting, Processes
<1>3. Syncing(q)
  BY <1>1, <1>2 DEF RequestKnows
<1>4. q.event \in events /\ q.event.of \in Subs /\ q.event.kind \in {"checkout", "paid"} /\ q.got \in Remote
  BY <1>3 DEF Syncing, Sync
<1>5. Monthly(q.event.of, q.got) \in Row
  BY <1>2, <1>3, <1>4, RowsTyped DEF Syncing
<1>6. row \in Row \cup {NoRow} /\ q.seen \in Row \cup {NoRow}
  BY DEF TypeOK, Sync
<1>7. Order(q.at)
  BY <1>2 DEF Upsert, Order
<1>8. CASE q.event.kind = "checkout"
  <2>1. row' = Monthly(q.event.of, q.got)
    BY <1>2, <1>5, <1>6, <1>8, WholeMerge DEF Upsert
  <2> QED
    BY <1>1, <1>2, <1>5, <1>7, <1>8, <2>1 DEF Synced
<1>9. CASE q.event.kind = "paid"
  <2>1. q.seen \in Row
    BY <1>3, <1>6, <1>9 DEF Syncing
  <2>2. row' = Merge(q.seen, Monthly(q.event.of, q.got))
    BY <1>2, <1>9 DEF Upsert
  <2>3. row' \in Row /\ (row = NoRow => row' = Monthly(q.event.of, q.got))
    BY <1>5, <1>6, <2>1, <2>2, PartMerge
  <2> QED
    BY <1>1, <1>2, <1>7, <1>9, <2>1, <2>2, <2>3 DEF Synced
<1> QED
  BY <1>4, <1>8, <1>9

(* Every step keeps the types: what a handler writes are the columns of a    *)
(* row, whatever it had loaded.                                             *)
LEMMA TypeKept == TypeOK /\ RemoteKnows /\ EventsKnow /\ RequestKnows /\ [Next]_vars => TypeOK'
<1> SUFFICES ASSUME TypeOK, RemoteKnows, EventsKnow, RequestKnows, [Next]_vars PROVE TypeOK'
  OBVIOUS
<1>0. Period \in Nat \ {0} /\ SeasonEnd \in Nat \ {0} /\ Pass \notin Subs /\ None \notin Purchases
  BY BillingAssumption
<1>1. CASE UNCHANGED vars
  BY <1>1 DEF vars, stripe, mirror, overlaps, TypeOK
<1>2. ASSUME NEW p \in Purchases, CreateCheckout(p) PROVE TypeOK'
  <2>1. (IF row = NoRow THEN p ELSE row.cust) \in Purchases
    BY DEF TypeOK, Row
  <2> QED
    BY <1>2, <2>1 DEF CreateCheckout, mirror, overlaps, TypeOK
<1>3. CASE BuyPass
  <2>1. [kind |-> "checkout", of |-> Pass, at |-> version + 1, day |-> today, body |-> Unsold] \in Event
    BY DEF Event, Unsold, Remote, Purchases, TypeOK
  <2>2. events' \subseteq Event /\ processed \subseteq events'
    BY <1>3, <2>1 DEF BuyPass, Emit, TypeOK
  <2>3. paidUntil' \in [Purchases -> Nat]
    BY <1>0, <1>3 DEF BuyPass, Charged, TypeOK
  <2>4. version' \in Nat /\ asOf' \in 0..version'
    BY <1>3 DEF BuyPass, Emit, TypeOK, mirror
  <2> QED
    BY <1>3, <2>2, <2>3, <2>4 DEF BuyPass, Emit, mirror, overlaps, TypeOK
<1>4. ASSUME NEW s \in Subs, StripeMoves(s) PROVE TypeOK'
  <2>1. PICK new, kinds : TellsOf(s, new, kinds)
    BY <1>4, MovesTell
  <2>2. \A k \in kinds : [kind |-> k, of |-> s, at |-> version + 1, day |-> today, body |-> new] \in Event
    <3>1. ASSUME NEW k \in kinds
          PROVE  [kind |-> k, of |-> s, at |-> version + 1, day |-> today, body |-> new] \in Event
      <4>1. k \in {"checkout", "changed", "deleted", "paid", "failed"} /\ new \in Remote
        BY <2>1 DEF TellsOf
      <4>2. s \in Purchases /\ version + 1 \in Nat /\ today \in Nat
        BY DEF Purchases, TypeOK
      <4> QED
        BY <4>1, <4>2 DEF Event
    <3> QED
      BY <3>1
  <2>3. events' \subseteq Event /\ processed \subseteq events'
    BY <2>1, <2>2 DEF TellsOf, Change, Emit, TypeOK
  <2>4. paidUntil' \in [Purchases -> Nat]
    BY <2>1 DEF TellsOf, Bill, TypeOK
  <2>5. version' \in Nat /\ asOf' \in 0..version'
    BY <2>1 DEF TellsOf, Change, Emit, TypeOK, mirror
  <2>6. remote' \in [Subs -> Remote]
    BY <2>1 DEF TellsOf, Change, TypeOK
  <2>7. beside' \in BOOLEAN /\ crossed' \in BOOLEAN
    BY <2>1 DEF TellsOf, TypeOK
  <2> QED
    BY <2>1, <2>3, <2>4, <2>5, <2>6, <2>7 DEF TellsOf, Change, Emit, mirror, TypeOK
<1>5. CASE NextDay
  BY <1>5 DEF NextDay, stripe, mirror, overlaps, TypeOK
<1>6. ASSUME NEW e \in events, Handle(e) PROVE TypeOK'
  <2>1. Handled(e)
    BY <1>6, HandleIs
  <2>2. row' \in Row \cup {NoRow}
    BY <2>1, RowsTyped DEF Handled, mirror, TypeOK, EventsKnow, Event
  <2>3. asOf' \in 0..version /\ disordered' \in BOOLEAN /\ passEnd' \in {0, SeasonEnd}
    <3>1. e.at \in 1..version /\ version \in Nat /\ asOf \in 0..version /\ disordered \in BOOLEAN
      BY DEF TypeOK, EventsKnow
    <3>2. Order(e.at) => asOf' \in 0..version /\ disordered' \in BOOLEAN
      BY <3>1 DEF Order
    <3> QED
      BY <2>1, <3>1, <3>2 DEF Handled, mirror, TypeOK
  <2> QED
    BY <2>1, <2>2, <2>3 DEF Handled, Processes, Undelivered, Ledger, stripe, overlaps, TypeOK
<1>7. ASSUME NEW r \in Requests, NEW e \in events, StartSync(r, e) PROVE TypeOK'
  <2>1. [event |-> e, seen |-> row, got |-> Unsold, at |-> 0] \in Sync
    BY DEF Sync, Unsold, Remote, TypeOK
  <2> QED
    BY <1>7, <2>1 DEF StartSync, stripe, mirror, overlaps, TypeOK
<1>8. ASSUME NEW r \in Requests, Retrieve(r) PROVE TypeOK'
  <2>1. PICK q \in Sync : q = request[r] /\ Syncing(q)
    BY <1>8 DEF Retrieve, Waiting, TypeOK, RequestKnows
  <2>2. [q EXCEPT !.got = remote[q.event.of], !.at = version] \in Sync
    BY <2>1 DEF Syncing, Sync, TypeOK
  <2>3. request' = [request EXCEPT ![r] = [q EXCEPT !.got = remote[q.event.of], !.at = version]]
    BY <1>8, <2>1 DEF Retrieve, TypeOK
  <2> QED
    BY <1>8, <2>2, <2>3 DEF Retrieve, stripe, mirror, overlaps, TypeOK
<1>9. ASSUME NEW r \in Requests, RetrieveFails(r) PROVE TypeOK'
  BY <1>9 DEF RetrieveFails, Undelivered, Ledger, stripe, mirror, overlaps, TypeOK
<1>10. ASSUME NEW r \in Requests, FinishSync(r) PROVE TypeOK'
  <2>1. Synced(r)
    BY <1>10, SyncIs
  <2>2. request[r].at <= version /\ request[r].at \in Nat
    BY <2>1 DEF Synced, RequestKnows, Syncing, Sync
  <2>3. asOf' \in 0..version /\ disordered' \in BOOLEAN
    BY <2>1, <2>2 DEF Synced, Order, TypeOK
  <2> QED
    BY <2>1, <2>3 DEF Synced, Processes, Undelivered, Ledger, stripe, overlaps, TypeOK
<1>11. ASSUME NEW r \in Requests, RequestFails(r) PROVE TypeOK'
  BY <1>11 DEF RequestFails, stripe, mirror, overlaps, TypeOK
<1> QED
  BY <1>1, <1>2, <1>3, <1>4, <1>5, <1>6, <1>7, <1>8, <1>9, <1>10, <1>11 DEF Next, StripeMoves, Redelivered

-----------------------------------------------------------------------------
(* The events of one change at Stripe. *)
Fresh(F, s, new, kinds) ==
  /\ events' = events \cup F
  /\ \A f \in F : f.at = version + 1 /\ f.of = s /\ f.body = new /\ f.kind \in kinds
  /\ \E f \in F : f.kind \in {"changed", "deleted"}
(* Every change sends its events at once, all of the new version, and one of *)
(* them tells what the subscription has become.                             *)
LEMMA FreshEvents ==
  ASSUME NEW s, NEW new, NEW kinds, TellsOf(s, new, kinds)
  PROVE  \E F : Fresh(F, s, new, kinds)
<1>1. PICK F : F = {[kind |-> k, of |-> s, at |-> version + 1, day |-> today, body |-> new] : k \in kinds}
  OBVIOUS
<1>2. events' = events \cup F
  BY <1>1 DEF TellsOf, Change, Emit
<1>3. \A f \in F : f.at = version + 1 /\ f.of = s /\ f.body = new /\ f.kind \in kinds
  BY <1>1
<1>4. PICK k \in kinds : k \in {"changed", "deleted"}
  BY DEF TellsOf
<1>5. \E f \in F : f.kind \in {"changed", "deleted"}
  <2>1. PICK f : f = [kind |-> k, of |-> s, at |-> version + 1, day |-> today, body |-> new]
    OBVIOUS
  <2>2. f \in F /\ f.kind \in {"changed", "deleted"}
    BY <1>1, <1>4, <2>1
  <2> QED
    BY <2>2
<1> QED
  BY <1>2, <1>3, <1>5 DEF Fresh

(* The steps that neither charge nor change anything at Stripe, and those    *)
(* that change nothing but a request.                                       *)
LEMMA NextIs ==
  ASSUME TypeOK, RemoteKnows, EventsKnow, RequestKnows, [Next]_vars
  PROVE  \/ UNCHANGED vars
         \/ \E p \in Purchases : CreateCheckout(p)
         \/ BuyPass
         \/ \E s \in Subs : \E new, kinds : TellsOf(s, new, kinds)
         \/ NextDay
         \/ \E e \in events : Handled(e)
         \/ \E r \in Requests, e \in events : StartSync(r, e)
         \/ \E r \in Requests : Retrieve(r)
         \/ \E r \in Requests : RetrieveFails(r)
         \/ \E r \in Requests : Synced(r)
         \/ \E r \in Requests : RequestFails(r)
<1>1. ASSUME NEW s \in Subs, StripeMoves(s) PROVE \E new, kinds : TellsOf(s, new, kinds)
  BY <1>1, MovesTell
<1>2. ASSUME NEW e \in events, Handle(e) PROVE Handled(e)
  BY <1>2, HandleIs
<1>3. ASSUME NEW r \in Requests, FinishSync(r) PROVE Synced(r)
  BY <1>3, SyncIs
<1> QED
  BY <1>1, <1>2, <1>3 DEF Next, StripeMoves, Redelivered

(* The end of a subscription never runs ahead of what is paid by more than   *)
(* the one period whose charge failed, and never of today either.           *)
LEMMA RemoteKept == TypeOK /\ RemoteKnows /\ EventsKnow /\ RequestKnows /\ [Next]_vars => RemoteKnows'
<1> SUFFICES ASSUME TypeOK, RemoteKnows, EventsKnow, RequestKnows, [Next]_vars PROVE RemoteKnows'
  OBVIOUS
<1>0. /\ today \in Nat /\ Period \in Nat /\ Pass \notin Subs
      /\ \A s \in Subs : remote[s] \in Remote /\ remote[s].end \in Nat /\ paidUntil[s] \in Nat
  BY BillingAssumption DEF TypeOK, Remote, Purchases
<1>1. CASE /\ UNCHANGED <<today, remote>>
           /\ \A s \in Subs : paidUntil'[s] = paidUntil[s] /\ (customer[s] # None => customer'[s] # None)
  BY <1>1 DEF RemoteKnows, Live
<1>2. CASE BuyPass
  BY <1>0, <1>1, <1>2 DEF BuyPass, Emit, Charged, TypeOK
<1>6. ASSUME NEW p \in Purchases, CreateCheckout(p) PROVE RemoteKnows'
  <2>1. \A s \in Subs : customer[s] # None => customer'[s] # None
    <3>1. customer[p] = None /\ \E c : customer' = [customer EXCEPT ![p] = c]
      BY <1>6 DEF CreateCheckout
    <3> QED
      BY <3>1 DEF TypeOK, Purchases
  <2> QED
    BY <1>1, <1>6, <2>1 DEF CreateCheckout
<1>3. ASSUME NEW s \in Subs, NEW new, NEW kinds, TellsOf(s, new, kinds) PROVE RemoteKnows'
  <2>1. /\ remote' = [remote EXCEPT ![s] = new] /\ today' = today /\ new \in Remote /\ new.status # "none"
        /\ customer' = customer /\ customer[s] # None
    BY <1>3 DEF TellsOf, Change, Emit
  <2>2. PICK n \in Nat : /\ paidUntil' = [paidUntil EXCEPT ![s] = n]
                         /\ n <= new.end /\ new.end <= n + Period
                         /\ new.status = "active" => n = new.end
    BY <1>3 DEF TellsOf, Bill
  <2>3. new.end <= today + Period /\ (new.status # "canceled" => today <= new.end)
    BY <1>3 DEF TellsOf
  <2>4. ASSUME NEW t \in Subs, t # s
        PROVE  remote'[t] = remote[t] /\ paidUntil'[t] = paidUntil[t]
    BY <2>1, <2>2, <2>4 DEF TypeOK
  <2>5. remote'[s] = new /\ paidUntil'[s] = n
    BY <2>1, <2>2 DEF TypeOK, Purchases
  <2> QED
    BY <2>1, <2>2, <2>3, <2>4, <2>5 DEF RemoteKnows, Live
<1>4. CASE NextDay
  <2>1. /\ today' = today + 1 /\ UNCHANGED <<remote, paidUntil, customer>>
        /\ \A s \in Subs : Live(s) => remote[s].end > today
    BY <1>4 DEF NextDay, stripe
  <2> QED
    BY <1>0, <2>1 DEF RemoteKnows, Live
<1>5. UNCHANGED <<today, remote, paidUntil, customer>> => RemoteKnows'
  BY <1>1
<1> QED
  BY <1>2, <1>3, <1>4, <1>5, <1>6, NextIs
     DEF vars, stripe, Handled, Processes, StartSync, Retrieve, RetrieveFails, Synced, RequestFails

(* What is known of an event stays so: a subscription Stripe has told of     *)
(* does not become an unsold one again, and each change has its own version. *)
LEMMA EventsKept == TypeOK /\ RemoteKnows /\ EventsKnow /\ RequestKnows /\ [Next]_vars => EventsKnow'
<1> SUFFICES ASSUME TypeOK, RemoteKnows, EventsKnow, RequestKnows, [Next]_vars PROVE EventsKnow'
  OBVIOUS
<1>0. version \in Nat /\ Pass \notin Subs /\ SeasonEnd # 0 /\ \A e \in events : e.at \in 1..version
  BY BillingAssumption DEF TypeOK, EventsKnow
<1>1. CASE UNCHANGED <<events, version, customer, remote, paidUntil>>
  BY <1>1 DEF EventsKnow
<1>2. ASSUME NEW p \in Purchases, CreateCheckout(p) PROVE EventsKnow'
  <2>1. UNCHANGED <<events, version, remote, paidUntil>>
    BY <1>2 DEF CreateCheckout
  <2>2. \A e \in events : customer'[e.of] # None
    <3>1. (IF row = NoRow THEN p ELSE row.cust) \in Purchases /\ None \notin Purchases
      BY BillingAssumption DEF TypeOK, Row
    <3>2. customer' = [customer EXCEPT ![p] = IF row = NoRow THEN p ELSE row.cust]
      BY <1>2 DEF CreateCheckout
    <3>3. \A e \in events : e.of \in Purchases /\ customer[e.of] # None
      BY DEF TypeOK, Event, EventsKnow
    <3> QED
      BY <3>1, <3>2, <3>3 DEF TypeOK
  <2> QED
    BY <2>1, <2>2 DEF EventsKnow
<1>3. CASE BuyPass
  <2>1. PICK x : x = [kind |-> "checkout", of |-> Pass, at |-> version + 1, day |-> today, body |-> Unsold]
    OBVIOUS
  <2>2. /\ events' = events \cup {x} /\ version' = version + 1 /\ UNCHANGED <<customer, remote>>
        /\ customer[Pass] # None /\ paidUntil[Pass] = 0
    BY <1>3, <2>1 DEF BuyPass, Emit
  <2>3. paidUntil'[Pass] # 0
    BY <1>0, <1>3 DEF BuyPass, Charged, TypeOK, Purchases
  <2>4. x.at = version + 1 /\ x.of = Pass /\ x.kind = "checkout"
    BY <2>1
  <2>5. \A e \in events : e.of # Pass /\ e.at # version + 1
    BY <1>0, <2>2 DEF EventsKnow
  <2> QED
    BY <1>0, <2>2, <2>3, <2>4, <2>5 DEF EventsKnow
<1>4. ASSUME NEW s \in Subs, NEW new, NEW kinds, TellsOf(s, new, kinds) PROVE EventsKnow'
  <2>1. PICK F : Fresh(F, s, new, kinds)
    BY <1>4, FreshEvents
  <2>2. /\ version' = version + 1 /\ customer' = customer /\ remote' = [remote EXCEPT ![s] = new]
        /\ new.status # "none" /\ ("deleted" \in kinds => new.status = "canceled")
        /\ ("failed" \in kinds => new.status = "past_due")
    BY <1>4 DEF TellsOf, Change, Emit
  <2>3. paidUntil'[Pass] = paidUntil[Pass]
    BY <1>0, <1>4 DEF TellsOf, Bill, TypeOK, Purchases
  <2>4. customer[s] # None
    BY <1>4 DEF TellsOf
  <2>5. \A e \in events : e.at # version + 1
    BY <1>0
  <2>6. ASSUME NEW e \in events' PROVE e \in events \/ e \in F
    BY <2>1 DEF Fresh
  <2>7. \A f \in F : /\ f.at = version + 1 /\ f.of = s /\ f.body = new
                     /\ (f.kind = "deleted" => new.status = "canceled")
                     /\ (f.kind = "failed" => new.status = "past_due")
    BY <2>1, <2>2 DEF Fresh
  <2>8. \A t \in Subs : remote[t].status # "none" \/ t = s => remote'[t].status # "none"
    BY <2>2 DEF TypeOK
  <2>9. ASSUME NEW e \in events'
        PROVE  /\ e.at \in 1..version' /\ customer'[e.of] # None
               /\ (e.of = Pass => e.kind = "checkout" /\ paidUntil'[Pass] # 0)
               /\ (e.of \in Subs => e.body.status # "none" /\ remote'[e.of].status # "none")
               /\ (e.kind = "deleted" => e.body.status = "canceled")
               /\ (e.kind = "failed" => e.body.status = "past_due")
    <3>1. CASE e \in events
      BY <1>0, <2>2, <2>3, <2>8, <3>1 DEF EventsKnow
    <3>2. CASE e \in F
      BY <1>0, <2>2, <2>4, <2>7, <2>8, <3>2
    <3> QED
      BY <2>6, <3>1, <3>2
  <2>10. ASSUME NEW e \in events', NEW f \in events'
         PROVE  /\ (e.at = f.at => e.of = f.of /\ e.body = f.body)
                /\ (e.of = Pass /\ f.of = Pass => e = f)
    BY <1>0, <2>5, <2>6, <2>7 DEF EventsKnow
  <2> QED
    BY <2>9, <2>10 DEF EventsKnow
<1> QED
  BY <1>1, <1>2, <1>3, <1>4, NextIs
     DEF vars, stripe, NextDay, Handled, Processes, StartSync, Retrieve, RetrieveFails, Synced, RequestFails

(* Nothing Stripe sent is taken back, and nothing processed is undone.       *)
LEMMA Grows ==
  ASSUME TypeOK, RemoteKnows, EventsKnow, RequestKnows, [Next]_vars
  PROVE  events \subseteq events' /\ processed \subseteq processed' /\ version <= version'
<1>0. version \in Nat
  BY DEF TypeOK
<1>1. CASE UNCHANGED <<events, version>> /\ processed \subseteq processed'
  BY <1>0, <1>1
<1>2. CASE \E p, k, body : Emit(p, k, body)
  BY <1>0, <1>2 DEF Emit
<1>3. ASSUME NEW s \in Subs, NEW new, NEW kinds, TellsOf(s, new, kinds)
      PROVE  \E p, k, body : Emit(p, k, body)
  BY <1>3 DEF TellsOf, Change
<1>4. BuyPass => \E p, k, body : Emit(p, k, body)
  BY DEF BuyPass
<1>5. ASSUME NEW e \in events, Handled(e) PROVE UNCHANGED <<events, version>> /\ processed \subseteq processed'
  BY <1>5 DEF Handled, Processes, Ledger, stripe
<1>6. ASSUME NEW r \in Requests, Synced(r) \/ RetrieveFails(r)
      PROVE  UNCHANGED <<events, version>> /\ processed \subseteq processed'
  BY <1>6 DEF Synced, Processes, RetrieveFails, Ledger, stripe
<1> QED
  BY <1>1, <1>2, <1>3, <1>4, <1>5, <1>6, NextIs
     DEF vars, stripe, CreateCheckout, NextDay, StartSync, Retrieve, RequestFails

(* The pass is granted by its one event, and the row's plan says which event *)
(* has written it.                                                          *)
LEMMA PassKept ==
  TypeOK /\ RemoteKnows /\ EventsKnow /\ RequestKnows /\ PassKnows /\ [Next]_vars => PassKnows'
<1> SUFFICES ASSUME TypeOK, RemoteKnows, EventsKnow, RequestKnows, PassKnows, [Next]_vars PROVE PassKnows'
  OBVIOUS
<1>0. /\ events \subseteq events' /\ processed \subseteq processed' /\ processed \subseteq events
      /\ SeasonEnd # 0 /\ Pass \notin Subs
  BY Grows, BillingAssumption DEF TypeOK
<1>1. CASE UNCHANGED <<processed, passEnd, row>> /\ paidUntil'[Pass] = paidUntil[Pass]
  BY <1>0, <1>1 DEF PassKnows, PassDone
<1>2. CASE BuyPass
  <2>1. UNCHANGED <<processed, passEnd, row>> /\ paidUntil'[Pass] = SeasonEnd
    BY <1>2 DEF BuyPass, Emit, mirror, Charged, TypeOK, Purchases
  <2>2. \E e \in events' : e.of = Pass
    <3>1. PICK x : x = [kind |-> "checkout", of |-> Pass, at |-> version + 1, day |-> today, body |-> Unsold]
      OBVIOUS
    <3>2. x \in events' /\ x.of = Pass
      BY <1>2, <3>1 DEF BuyPass, Emit
    <3> QED
      BY <3>2
  <2> QED
    BY <1>0, <2>1, <2>2 DEF PassKnows, PassDone
<1>3. ASSUME NEW s \in Subs, NEW new, NEW kinds, TellsOf(s, new, kinds) PROVE PassKnows'
  <2>1. UNCHANGED <<processed, passEnd, row>>
    BY <1>3 DEF TellsOf, Change, Emit, mirror
  <2>2. paidUntil'[Pass] = paidUntil[Pass]
    BY <1>0, <1>3 DEF TellsOf, Bill, TypeOK, Purchases
  <2> QED
    BY <1>1, <2>1, <2>2
<1>4. ASSUME NEW e \in events, Handled(e) PROVE PassKnows'
  <2>1. processed' = processed \cup {e} /\ UNCHANGED <<events, paidUntil>>
    BY <1>4 DEF Handled, Processes, Ledger, stripe
  <2>2. CASE e.of = Pass
    <3>1. passEnd' = SeasonEnd /\ row'.plan = "season"
      BY <1>0, <1>4, <2>2 DEF Handled, Season
    <3> QED
      BY <2>1, <2>2, <3>1 DEF PassKnows, PassDone
  <2>3. CASE e.of \in Subs
    <3>1. passEnd' = passEnd /\ (PassDone' <=> PassDone)
      BY <1>0, <1>4, <2>1, <2>3 DEF Handled, mirror, PassDone
    <3>2. row' # NoRow /\ row'.plan = "season" => row # NoRow /\ row.plan = "season"
      <4>1. CASE row' = Monthly(e.of, e.body) \/ row' = Ended(e.of, e.body)
        <5>1. row'.plan = "monthly"
          BY <4>1, EndedIs DEF Monthly
        <5> QED
          BY <5>1
      <4>2. CASE row # NoRow /\ row' = [row EXCEPT !.status = "past_due"]
        BY <4>2 DEF TypeOK, Row
      <4>3. CASE row' = row
        BY <4>3
      <4> QED
        BY <1>0, <1>4, <2>3, <4>1, <4>2, <4>3 DEF Handled, mirror
    <3> QED
      BY <2>1, <2>3, <3>1, <3>2 DEF PassKnows
  <2> QED
    BY <1>4, <2>2, <2>3 DEF Handled
<1>5. ASSUME NEW r \in Requests, Synced(r) PROVE PassKnows'
  <2>1. PICK q \in Sync : q = request[r]
    BY <1>5 DEF Synced
  <2>2. /\ processed' = processed \cup {q.event} /\ UNCHANGED <<events, paidUntil>> /\ passEnd' = passEnd
        /\ row' \in Row
    BY <1>5, <2>1 DEF Synced, Processes, Ledger, stripe
  <2>3. q.event \in events /\ q.event.of \in Subs
    BY <1>5, <2>1 DEF RequestKnows, Syncing, Synced
  <2>4. PassDone' <=> PassDone
    BY <1>0, <2>2, <2>3 DEF PassDone
  <2>5. row'.plan = "season" => row # NoRow /\ row.plan = "season"
    <3>1. Monthly(q.event.of, q.got).plan = "monthly"
      BY DEF Monthly
    <3>2. CASE row # NoRow /\ q.seen \in Row /\ row' = Merge(q.seen, Monthly(q.event.of, q.got))
      <4>1. Monthly(q.event.of, q.got) \in Row
        BY <1>5, <2>1, <2>3, RowsTyped DEF Synced, RequestKnows, Syncing, Sync
      <4>2. row'.plan = IF "monthly" = q.seen.plan THEN row.plan ELSE "monthly"
        BY <3>1, <3>2, <4>1, PartMerge DEF TypeOK
      <4> QED
        BY <3>2, <4>2
    <3> QED
      BY <1>5, <2>1, <3>1, <3>2 DEF Synced
  <2> QED
    BY <2>2, <2>3, <2>4, <2>5 DEF PassKnows
<1>6. ASSUME NEW r \in Requests, RetrieveFails(r) PROVE PassKnows'
  <2>1. processed' = processed \cup {request[r].event} /\ UNCHANGED <<events, paidUntil, passEnd, row>>
    BY <1>6 DEF RetrieveFails, Ledger, stripe, mirror
  <2>2. request[r].event.of \in Subs
    BY <1>6 DEF RequestKnows, Syncing, RetrieveFails, Waiting
  <2>3. PassDone' <=> PassDone
    BY <1>0, <2>1, <2>2 DEF PassDone
  <2> QED
    BY <2>1, <2>3 DEF PassKnows
<1> QED
  BY <1>1, <1>2, <1>3, <1>4, <1>5, <1>6, NextIs
     DEF vars, stripe, mirror, CreateCheckout, NextDay, StartSync, Retrieve, RequestFails

(* A request in the middle of a sync holds an event Stripe has sent, and an  *)
(* answer about a subscription that was sold.                               *)
LEMMA RequestsKept ==
  TypeOK /\ RemoteKnows /\ EventsKnow /\ RequestKnows /\ PassKnows /\ [Next]_vars => RequestKnows'
<1> SUFFICES ASSUME TypeOK, RemoteKnows, EventsKnow, RequestKnows, PassKnows, [Next]_vars PROVE RequestKnows'
  OBVIOUS
<1>0. events \subseteq events' /\ processed \subseteq processed' /\ version <= version' /\ version \in Nat
  BY Grows DEF TypeOK
<1>1. PassDone => PassDone'
  BY <1>0 DEF PassDone
<1>2. ASSUME NEW q \in Sync, Syncing(q) PROVE Syncing(q)'
  <2>1. q.at \in Nat /\ version' \in Nat
    BY TypeKept DEF Sync, TypeOK
  <2>2. q.got # Unsold => q.at <= version'
    BY <1>0, <1>2, <2>1 DEF Syncing
  <2> QED
    BY <1>0, <1>1, <1>2, <2>2 DEF Syncing
<1>3. ASSUME NEW r \in Requests, request'[r] = request[r], request[r] # Idle PROVE Syncing(request[r])'
  <2>1. PICK q \in Sync : q = request[r]
    BY <1>3 DEF TypeOK
  <2> QED
    BY <1>2, <1>3, <2>1 DEF RequestKnows
<1>4. CASE UNCHANGED request
  BY <1>3, <1>4 DEF RequestKnows
<1>5. ASSUME NEW r \in Requests, NEW x, request' = [request EXCEPT ![r] = x], x # Idle => Syncing(x)'
      PROVE  RequestKnows'
  <2>1. \A h \in Requests : request'[h] = IF h = r THEN x ELSE request[h]
    BY <1>5 DEF TypeOK
  <2>2. ASSUME NEW h \in Requests, request'[h] # Idle PROVE Syncing(request[h])'
    BY <1>3, <1>5, <2>1, <2>2
  <2> QED
    BY <2>2 DEF RequestKnows
<1>6. ASSUME NEW r \in Requests, NEW e \in events, StartSync(r, e) PROVE RequestKnows'
  <2>1. PICK x : x = [event |-> e, seen |-> row, got |-> Unsold, at |-> 0]
    OBVIOUS
  <2>2. e.of \in Subs /\ e.kind \in {"checkout", "paid"} /\ (e.kind = "paid" => row # NoRow)
    BY <1>6 DEF StartSync, Syncs, Resolves, EventsKnow, TypeOK, Event, Purchases
  <2>3. row # NoRow /\ row.plan = "season" => PassDone
    BY DEF PassKnows
  <2>4. Syncing(x)'
    BY <1>0, <1>1, <2>1, <2>2, <2>3 DEF Syncing
  <2> QED
    BY <1>5, <1>6, <2>1, <2>4 DEF StartSync
<1>7. ASSUME NEW r \in Requests, Retrieve(r) PROVE RequestKnows'
  <2>1. PICK q \in Sync : q = request[r] /\ Syncing(q)
    BY <1>7 DEF Retrieve, Waiting, TypeOK, RequestKnows
  <2>2. PICK x : x = [q EXCEPT !.got = remote[q.event.of], !.at = version]
    OBVIOUS
  <2>3. x.event = q.event /\ x.seen = q.seen /\ x.got = remote[q.event.of] /\ x.at = version
    BY <2>1, <2>2 DEF Sync
  <2>4. x.got.status # "none"
    BY <2>1, <2>3 DEF Syncing, EventsKnow
  <2>5. Syncing(x)'
    BY <1>0, <1>1, <2>1, <2>3, <2>4 DEF Syncing
  <2>6. request' = [request EXCEPT ![r] = x]
    BY <1>7, <2>1, <2>2 DEF Retrieve, TypeOK
  <2> QED
    BY <1>5, <2>5, <2>6
<1>8. ASSUME NEW r \in Requests, request' = [request EXCEPT ![r] = Idle] PROVE RequestKnows'
  BY <1>5, <1>8
<1>9. ASSUME NEW s \in Subs, NEW new, NEW kinds, TellsOf(s, new, kinds) PROVE UNCHANGED request
  BY <1>9 DEF TellsOf, Change, Emit
<1> QED
  BY <1>4, <1>6, <1>7, <1>8, <1>9, NextIs
     DEF vars, CreateCheckout, BuyPass, Emit, NextDay, Handled, RetrieveFails, Synced, RequestFails

-----------------------------------------------------------------------------
(* A change at Stripe makes one of its own events the last one; the purchase *)
(* of a pass leaves it as it is.                                            *)
LEMMA LatestOfChange ==
  ASSUME TypeOK, EventsKnow, NEW s \in Subs, NEW new, NEW kinds, TellsOf(s, new, kinds)
  PROVE  /\ \E e \in events' : Latest(e)'
         /\ \A e \in events' : Latest(e)' =>
              e \notin events /\ e.at = version + 1 /\ e.of = s /\ e.body = new
         /\ \A e \in events' : e \in events \/ (e.of = s /\ e.body = new)
<1>0. version \in Nat /\ \A e \in events : e.at \in 1..version
  BY DEF TypeOK, EventsKnow
<1>1. PICK F : Fresh(F, s, new, kinds)
  BY FreshEvents
<1>2. PICK f \in F : f.kind \in {"changed", "deleted"}
  BY <1>1 DEF Fresh
<1>3. /\ events' = events \cup F
      /\ \A e \in F : e.at = version + 1 /\ e.of = s /\ e.body = new
  BY <1>1 DEF Fresh
<1>4. Latest(f)'
  BY <1>0, <1>2, <1>3 DEF Latest
<1>5. ASSUME NEW e \in events', Latest(e)' PROVE e \notin events
  BY <1>0, <1>2, <1>3, <1>5 DEF Latest
<1> QED
  BY <1>2, <1>3, <1>4, <1>5
(* Buying the pass tells nothing of a subscription.                          *)
LEMMA LatestOfPass ==
  ASSUME BuyPass
  PROVE  /\ events \subseteq events'
         /\ \A e \in events' : e \in events \/ e.of = Pass
         /\ \A e : Latest(e)' <=> Latest(e)
<1>1. PICK x : x = [kind |-> "checkout", of |-> Pass, at |-> version + 1, day |-> today, body |-> Unsold]
  OBVIOUS
<1>2. events' = events \cup {x} /\ x.of = Pass /\ x.kind = "checkout" /\ Pass \notin Subs
  BY <1>1, BillingAssumption DEF BuyPass, Emit
<1> QED
  BY <1>2 DEF Latest

(* The answer to a retrieve is what the last change told of, if that came    *)
(* before it.                                                               *)
LEMMA LatestKept ==
  TypeOK /\ RemoteKnows /\ EventsKnow /\ RequestKnows /\ LatestIsTrue /\ [Next]_vars => LatestIsTrue'
<1> SUFFICES ASSUME TypeOK, RemoteKnows, EventsKnow, RequestKnows, LatestIsTrue, [Next]_vars PROVE LatestIsTrue'
  OBVIOUS
<1>0. version \in Nat /\ Pass \notin Subs
  BY BillingAssumption DEF TypeOK
<1>1. CASE UNCHANGED <<events, remote, request>>
  BY <1>1 DEF LatestIsTrue, Latest
<1>2. ASSUME NEW r \in Requests, NEW x, request' = [request EXCEPT ![r] = x], UNCHANGED <<events, remote>>,
             x # Idle /\ x.got # Unsold =>
               \A e \in events : Latest(e) /\ e.at <= x.at /\ x.event.of = e.of => x.got = e.body
      PROVE  LatestIsTrue'
  <2>1. \A h \in Requests : request'[h] = IF h = r THEN x ELSE request[h]
    BY <1>2 DEF TypeOK
  <2>2. ASSUME NEW e \in events, Latest(e), NEW h \in Requests
        PROVE  LET q == request'[h]
               IN q # Idle /\ q.got # Unsold /\ e.at <= q.at /\ q.event.of = e.of => q.got = e.body
    BY <1>2, <2>1, <2>2 DEF LatestIsTrue
  <2> QED
    BY <1>2, <2>2 DEF LatestIsTrue, Latest
<1>3. CASE BuyPass
  <2>1. UNCHANGED <<remote, request>>
    BY <1>3 DEF BuyPass, Emit
  <2> QED
    BY <1>0, <1>3, <2>1, LatestOfPass DEF LatestIsTrue, Latest
<1>4. ASSUME NEW s \in Subs, NEW new, NEW kinds, TellsOf(s, new, kinds) PROVE LatestIsTrue'
  <2>1. remote' = [remote EXCEPT ![s] = new] /\ UNCHANGED request
    BY <1>4 DEF TellsOf, Change, Emit
  <2>2. remote'[s] = new
    BY <2>1 DEF TypeOK
  <2>3. ASSUME NEW e \in events', Latest(e)', NEW r \in Requests, request[r] # Idle, request[r].got # Unsold
        PROVE  ~(e.at <= request[r].at)
    <3>1. e.at = version + 1
      BY <1>4, <2>3, LatestOfChange
    <3>2. request[r].at <= version /\ request[r].at \in Nat
      BY <2>3 DEF RequestKnows, Syncing, TypeOK, Sync
    <3> QED
      BY <1>0, <3>1, <3>2
  <2> QED
    BY <1>4, <2>1, <2>2, <2>3, LatestOfChange DEF LatestIsTrue
<1>5. ASSUME NEW r \in Requests, NEW e \in events, StartSync(r, e) PROVE LatestIsTrue'
  <2>1. PICK x : x = [event |-> e, seen |-> row, got |-> Unsold, at |-> 0]
    OBVIOUS
  <2> QED
    BY <1>2, <1>5, <2>1 DEF StartSync, stripe
<1>6. ASSUME NEW r \in Requests, Retrieve(r) PROVE LatestIsTrue'
  <2>1. PICK q \in Sync : q = request[r]
    BY <1>6 DEF Retrieve, Waiting, TypeOK
  <2>2. PICK x : x = [q EXCEPT !.got = remote[q.event.of], !.at = version]
    OBVIOUS
  <2>3. x.event = q.event /\ x.got = remote[q.event.of]
    BY <2>1, <2>2 DEF Sync
  <2>4. request' = [request EXCEPT ![r] = x] /\ UNCHANGED <<events, remote>>
    BY <1>6, <2>1, <2>2 DEF Retrieve, stripe, TypeOK
  <2>5. \A e \in events : Latest(e) /\ x.event.of = e.of => x.got = e.body
    BY <2>3 DEF LatestIsTrue
  <2> QED
    BY <1>2, <2>4, <2>5
<1>7. ASSUME NEW r \in Requests, request' = [request EXCEPT ![r] = Idle], UNCHANGED <<events, remote>> PROVE LatestIsTrue'
  BY <1>2, <1>7
<1>8. ASSUME NEW r \in Requests, Synced(r) \/ RetrieveFails(r) \/ RequestFails(r)
      PROVE  request' = [request EXCEPT ![r] = Idle] /\ UNCHANGED <<events, remote>>
  BY <1>8 DEF Synced, Processes, RetrieveFails, RequestFails, stripe
<1>9. ASSUME NEW e \in events, Handled(e) PROVE UNCHANGED <<events, remote, request>>
  BY <1>9 DEF Handled, Processes, stripe
<1> QED
  BY <1>1, <1>3, <1>4, <1>5, <1>6, <1>7, <1>8, <1>9, NextIs DEF vars, stripe, CreateCheckout, NextDay

(* While no subscription is bought beside another, only the newest is live   *)
(* and only its events are under way.                                       *)
LEMMA OneKept ==
  TypeOK /\ RemoteKnows /\ EventsKnow /\ RequestKnows /\ LatestIsTrue /\ OneAtATime /\ [Next]_vars => OneAtATime'
<1> SUFFICES ASSUME TypeOK, RemoteKnows, EventsKnow, RequestKnows, LatestIsTrue, OneAtATime, [Next]_vars
             PROVE  OneAtATime'
  OBVIOUS
<1>0. Pass \notin Subs
  BY BillingAssumption
<1>1. CASE UNCHANGED <<events, remote, paidUntil, beside>> /\ processed \subseteq processed'
  BY <1>1 DEF OneAtATime, Latest, Live, Undelivered
<1>2. CASE BuyPass
  <2>1. UNCHANGED <<remote, beside, processed>> /\ \A s \in Subs : paidUntil'[s] = paidUntil[s]
    BY <1>0, <1>2 DEF BuyPass, Emit, Charged, overlaps, TypeOK
  <2>2. \A f \in Undelivered' : f.of \in Subs => f \in Undelivered
    BY <1>0, <1>2, <2>1, LatestOfPass DEF Undelivered
  <2>3. \A e : Latest(e)' => Latest(e) /\ e \in events
    BY <1>2, LatestOfPass DEF Latest
  <2> QED
    BY <2>1, <2>2, <2>3 DEF OneAtATime, Live
<1>3. ASSUME NEW s \in Subs, NEW new, NEW kinds, TellsOf(s, new, kinds) PROVE OneAtATime'
  <2> SUFFICES ASSUME ~beside', NEW e \in events', Latest(e)'
               PROVE  /\ \A t \in Subs : Live(t)' => t = e.of
                      /\ \A t \in Subs : paidUntil'[t] <= e.body.end
                      /\ \A f \in Undelivered' : f.of \in Subs => f.of = e.of
    BY DEF OneAtATime
  <2>1. /\ remote' = [remote EXCEPT ![s] = new] /\ processed' = processed /\ new \in Remote
        /\ \E n \in Nat : paidUntil' = [paidUntil EXCEPT ![s] = n] /\ n <= new.end
    BY <1>3 DEF TellsOf, Change, Emit, Bill
  <2>2. e.of = s /\ e.body = new
    BY <1>3, LatestOfChange
  <2>3. \A t \in Subs \ {s} : paidUntil'[t] = paidUntil[t] /\ (Live(t)' <=> Live(t)) /\ paidUntil[t] \in Nat
    BY <2>1 DEF TypeOK, Live, Purchases
  <2>4. paidUntil'[s] <= new.end
    BY <2>1 DEF TypeOK, Purchases
  <2>5. ~beside
    BY <1>3 DEF TellsOf
  <2>6. /\ \A t \in Subs \ {s} : ~Live(t) /\ paidUntil[t] <= new.end
        /\ \A f \in Undelivered : f.of \in Subs => f.of = s
    <3>1. CASE remote[s].status = "none"
      <4>1. Undelivered = {} /\ \A t \in Subs : ~Live(t)
        BY <1>3, <3>1 DEF TellsOf, Live, Settled
      <4>2. new.end = today + Period
        BY <1>3, <3>1 DEF TellsOf, Live
      <4>3. \A t \in Subs : paidUntil[t] <= remote[t].end /\ remote[t].end <= today + Period /\ remote[t].end \in Nat
        BY DEF RemoteKnows, TypeOK, Remote
      <4>4. paidUntil \in [Purchases -> Nat] /\ today \in Nat /\ Period \in Nat
        BY BillingAssumption DEF TypeOK
      <4> QED
        BY <4>1, <4>2, <4>3, <4>4 DEF Purchases
    <3>2. CASE Live(s)
      <4>1. PICK l \in events : Latest(l)
        BY <3>2 DEF LatestIsTrue, Live
      <4>2. l.of = s /\ l.body = remote[s]
        BY <2>5, <3>2, <4>1 DEF OneAtATime, LatestIsTrue
      <4>3. /\ \A t \in Subs \ {s} : ~Live(t)
            /\ \A t \in Subs : paidUntil[t] <= remote[s].end
            /\ \A f \in Undelivered : f.of \in Subs => f.of = s
        BY <2>5, <4>1, <4>2 DEF OneAtATime
      <4>4. new.end = today + Period \/ new.end = remote[s].end
        BY <1>3 DEF TellsOf, RemoteKnows, Unsold
      <4>5. \A t \in Subs : paidUntil[t] <= new.end
        <5>1. \A t \in Subs : paidUntil[t] \in Nat
          BY DEF TypeOK, Purchases
        <5>2. remote[s].end <= today + Period /\ remote[s].end \in Nat /\ today + Period \in Nat
          BY BillingAssumption DEF RemoteKnows, TypeOK, Remote
        <5> QED
          BY <4>3, <4>4, <5>1, <5>2
      <4> QED
        BY <4>3, <4>5
    <3> QED
      BY <1>3, <3>1, <3>2 DEF TellsOf
  <2>7. \A f \in events' : f \in events \/ f.of = s
    BY <1>3, LatestOfChange
  <2>8. \A f \in Undelivered' : f.of \in Subs => f.of = s
    BY <2>1, <2>6, <2>7 DEF Undelivered
  <2> QED
    BY <2>2, <2>3, <2>4, <2>6, <2>8
<1>4. ASSUME NEW e \in events, Handled(e) PROVE UNCHANGED <<events, remote, paidUntil, beside>> /\ processed \subseteq processed'
  BY <1>4 DEF Handled, Processes, Ledger, stripe, overlaps
<1>5. ASSUME NEW r \in Requests, Synced(r) \/ RetrieveFails(r)
      PROVE  UNCHANGED <<events, remote, paidUntil, beside>> /\ processed \subseteq processed'
  BY <1>5 DEF Synced, Processes, RetrieveFails, Ledger, stripe, overlaps
<1> QED
  BY <1>1, <1>2, <1>3, <1>4, <1>5, NextIs
     DEF vars, stripe, overlaps, CreateCheckout, NextDay, StartSync, Retrieve, RequestFails

-----------------------------------------------------------------------------
(* The parts of SamePeriod, for the last change l. *)
SameEnds(l) ==
  /\ \A f \in Undelivered : f.of \in Subs => f.body.end = l.body.end
  /\ \A r \in Requests :
       LET q == request[r]
       IN q # Idle /\ q.event \in Undelivered /\ q.got # Unsold => q.got.end = l.body.end
RowEnds(l) == l \in processed /\ paidUntil[Pass] = 0 => row # NoRow /\ row.end = l.body.end

(* A step that only processes an event, or leaves a request, keeps the ends  *)
(* that are under way.                                                      *)
LEMMA EndsKept ==
  ASSUME NEW l, SameEnds(l), Undelivered' \subseteq Undelivered,
         \A r \in Requests : request'[r] = request[r] \/ request'[r] = Idle
  PROVE  SameEnds(l)'
<1>1. \A f \in Undelivered' : f.of \in Subs => f.body.end = l.body.end
  BY DEF SameEnds
<1>2. ASSUME NEW r \in Requests, request'[r] # Idle, request'[r].event \in Undelivered', request'[r].got # Unsold
      PROVE  request'[r].got.end = l.body.end
  BY <1>2 DEF SameEnds
<1> QED
  BY <1>1, <1>2 DEF SameEnds

(* A row that has the end of the last change is not moved from it by what is *)
(* under way, in whatever order it is written, nor by a merge into it.       *)
LEMMA SameKept ==
  ASSUME TypeOK, RemoteKnows, EventsKnow, PassKnows, RequestKnows, LatestIsTrue, OneAtATime, SamePeriod, [Next]_vars
  PROVE  SamePeriod'
<1> SUFFICES ASSUME ~beside', ~crossed', NEW l \in events', Latest(l)'
             PROVE  SameEnds(l)' /\ RowEnds(l)'
  BY DEF SamePeriod, SameEnds, RowEnds
<1>0. ~beside /\ ~crossed /\ (\A e \in events : Latest(e) => SameEnds(e) /\ RowEnds(e))
  <2>1. ASSUME NEW s \in Subs, NEW new, NEW kinds, TellsOf(s, new, kinds) PROVE ~beside /\ ~crossed
    <3>1. ~beside
      BY <2>1 DEF TellsOf
    <3>2. ~crossed
      BY <2>1 DEF TellsOf
    <3> QED
      BY <3>1, <3>2
  <2>2. ASSUME UNCHANGED <<beside, crossed>> PROVE ~beside /\ ~crossed
    BY <2>2
  <2>3. ASSUME NEW e \in events, Handled(e) PROVE UNCHANGED <<beside, crossed>>
    BY <2>3 DEF Handled, Processes, overlaps
  <2>4. ASSUME NEW r \in Requests, Synced(r) PROVE UNCHANGED <<beside, crossed>>
    BY <2>4 DEF Synced, Processes, overlaps
  <2>5. BuyPass => UNCHANGED <<beside, crossed>>
    BY DEF BuyPass, overlaps
  <2>6. ~beside /\ ~crossed
    BY <2>1, <2>2, <2>3, <2>4, <2>5, NextIs
       DEF vars, overlaps, CreateCheckout, NextDay, StartSync, Retrieve, RetrieveFails, RequestFails
  <2> QED
    BY <2>6 DEF SamePeriod, SameEnds, RowEnds
<1>1. CASE UNCHANGED <<events, processed, row, paidUntil>> /\ \A r \in Requests : request'[r] = request[r] \/ request'[r] = Idle
  <2>1. l \in events /\ Latest(l) /\ Undelivered' \subseteq Undelivered
    BY <1>1 DEF Latest, Undelivered
  <2>2. SameEnds(l)'
    BY <1>0, <1>1, <2>1, EndsKept
  <2> QED
    BY <1>0, <1>1, <2>1, <2>2 DEF RowEnds
<1>2. CASE BuyPass
  <2>1. l \in events /\ Latest(l)
    BY <1>2, LatestOfPass DEF Latest
  <2>2. UNCHANGED <<processed, request>> /\ paidUntil'[Pass] # 0
    BY <1>2, BillingAssumption DEF BuyPass, Emit, Charged, TypeOK, Purchases
  <2>3. \A f \in Undelivered' : f.of \in Subs => f \in Undelivered
    BY <1>2, <2>2, LatestOfPass, BillingAssumption DEF Undelivered
  <2>4. \A r \in Requests : request[r] # Idle => request[r].event.of \in Subs
    BY DEF RequestKnows, Syncing
  <2>5. SameEnds(l)'
    BY <1>0, <2>1, <2>2, <2>3, <2>4 DEF SameEnds
  <2> QED
    BY <2>2, <2>5 DEF RowEnds
<1>3. ASSUME NEW s \in Subs, NEW new, NEW kinds, TellsOf(s, new, kinds) PROVE SameEnds(l)' /\ RowEnds(l)'
  <2>1. l \notin events /\ l.of = s /\ l.body = new /\ \A e \in events' : e \in events \/ (e.of = s /\ e.body = new)
    BY <1>3, LatestOfChange
  <2>2. UNCHANGED <<processed, request>>
    BY <1>3 DEF TellsOf, Change, Emit
  <2>3. RowEnds(l)'
    BY <2>1, <2>2 DEF RowEnds, TypeOK
  <2>4. CASE Settled
    <3>1. \A f \in Undelivered' : f.body = new
      BY <2>1, <2>2, <2>4 DEF Settled, Undelivered
    <3> QED
      BY <2>1, <2>2, <2>3, <2>4, <3>1 DEF Settled, SameEnds
  <2>5. CASE ~Settled
    <3>1. Live(s) /\ new.end = remote[s].end
      BY <1>3, <2>5 DEF TellsOf
    <3>2. PICK e \in events : Latest(e)
      BY <3>1 DEF LatestIsTrue, Live
    <3>3. e.body.end = new.end
      BY <1>0, <3>1, <3>2 DEF OneAtATime, LatestIsTrue
    <3>4. SameEnds(e)
      BY <1>0, <3>2
    <3>5. \A f \in Undelivered' : f \in Undelivered \/ f.body = new
      BY <2>1, <2>2 DEF Undelivered
    <3>6. \A r \in Requests : request[r] # Idle /\ request[r].event \in Undelivered' => request[r].event \in Undelivered
      BY <2>2 DEF RequestKnows, Syncing, Undelivered
    <3> QED
      BY <2>1, <2>2, <2>3, <3>3, <3>4, <3>5, <3>6 DEF SameEnds
  <2> QED
    BY <2>4, <2>5
<1>4. ASSUME NEW e \in events, Handled(e) PROVE SameEnds(l)' /\ RowEnds(l)'
  <2>1. /\ processed' = processed \cup {e} /\ UNCHANGED <<events, paidUntil, request>> /\ e \in Undelivered
    BY <1>4 DEF Handled, Processes, Ledger, stripe
  <2>2. l \in events /\ Latest(l) /\ SameEnds(l) /\ RowEnds(l) /\ Undelivered' \subseteq Undelivered
    BY <1>0, <2>1 DEF Latest, Undelivered
  <2>3. SameEnds(l)'
    BY <2>1, <2>2, EndsKept
  <2>4. ASSUME l \in processed', paidUntil[Pass] = 0 PROVE row' # NoRow /\ row'.end = l.body.end
    <3>1. e.of # Pass /\ e.of \in Subs
      BY <1>4, <2>4 DEF EventsKnow, Handled
    <3>2. e.body.end = l.body.end
      BY <2>1, <2>2, <3>1 DEF SameEnds
    <3>3. CASE e.kind = "changed" /\ row' = Monthly(e.of, e.body)
      <4>1. row' \in Row
        BY <3>1, <3>3, RowsTyped DEF TypeOK, Event, EventsKnow
      <4> QED
        BY <3>2, <3>3, <4>1, NoRowAssumption DEF Monthly
    <3>4. CASE e.kind = "deleted" /\ row' = Ended(e.of, e.body)
      <4>1. row' \in Row
        BY <3>1, <3>4, RowsTyped DEF TypeOK, Event, EventsKnow
      <4> QED
        BY <3>2, <3>4, <4>1, EndedIs, NoRowAssumption
    <3>5. CASE e.kind \in {"failed", "paid"} /\ ((row # NoRow /\ row' = [row EXCEPT !.status = "past_due"]) \/ row' = row)
      <4>1. l \in processed
        BY <2>1, <2>2, <2>4, <3>5 DEF Latest
      <4>2. row # NoRow /\ row.end = l.body.end
        BY <2>2, <2>4, <4>1 DEF RowEnds
      <4>3. row \in Row
        BY <4>2 DEF TypeOK
      <4>4. row'.end = row.end /\ row' \in Row
        BY <3>5, <4>3 DEF Row, Statuses
      <4> QED
        BY <4>2, <4>4, NoRowAssumption
    <3> QED
      BY <1>4, <3>1, <3>3, <3>4, <3>5 DEF Handled, mirror
  <2> QED
    BY <2>1, <2>3, <2>4 DEF RowEnds
<1>5. ASSUME NEW r \in Requests, Retrieve(r) PROVE SameEnds(l)' /\ RowEnds(l)'
  <2>1. UNCHANGED <<events, processed, row, paidUntil>>
    BY <1>5 DEF Retrieve, stripe, mirror
  <2>2. l \in events /\ Latest(l) /\ SameEnds(l) /\ RowEnds(l) /\ Undelivered' = Undelivered
    BY <1>0, <2>1 DEF Latest, Undelivered
  <2>3. PICK q \in Sync : q = request[r] /\ Syncing(q)
    BY <1>5 DEF Retrieve, Waiting, TypeOK, RequestKnows
  <2>4. PICK x : x = [q EXCEPT !.got = remote[q.event.of], !.at = version]
    OBVIOUS
  <2>5. x.event = q.event /\ x.got = remote[q.event.of]
    BY <2>3, <2>4 DEF Sync
  <2>6. \A h \in Requests : request'[h] = IF h = r THEN x ELSE request[h]
    BY <1>5, <2>3, <2>4 DEF Retrieve, TypeOK
  <2>7. q.event \in Undelivered => x.got.end = l.body.end
    BY <1>0, <2>2, <2>3, <2>5 DEF OneAtATime, LatestIsTrue, Syncing
  <2>8. SameEnds(l)'
    <3>1. ASSUME NEW h \in Requests, request'[h] # Idle, request'[h].event \in Undelivered, request'[h].got # Unsold
          PROVE  request'[h].got.end = l.body.end
      BY <2>2, <2>5, <2>6, <2>7, <3>1 DEF SameEnds
    <3> QED
      BY <2>2, <3>1 DEF SameEnds
  <2> QED
    BY <2>1, <2>2, <2>8 DEF RowEnds
<1>6. ASSUME NEW r \in Requests, RetrieveFails(r) PROVE SameEnds(l)' /\ RowEnds(l)'
  <2>1. /\ processed' = processed \cup {request[r].event} /\ UNCHANGED <<events, paidUntil, row>>
        /\ request' = [request EXCEPT ![r] = Idle]
    BY <1>6 DEF RetrieveFails, Ledger, stripe, mirror
  <2>2. l \in events /\ Latest(l) /\ SameEnds(l) /\ RowEnds(l) /\ Undelivered' \subseteq Undelivered
    BY <1>0, <2>1 DEF Latest, Undelivered
  <2>3. SameEnds(l)'
    BY <2>1, <2>2, EndsKept DEF TypeOK
  <2>4. l # request[r].event
    BY <1>6, <2>2 DEF RetrieveFails, Waiting, RequestKnows, Syncing, Latest
  <2> QED
    BY <2>1, <2>2, <2>3, <2>4 DEF RowEnds
<1>7. ASSUME NEW r \in Requests, Synced(r) PROVE SameEnds(l)' /\ RowEnds(l)'
  <2>1. PICK q \in Sync : q = request[r] /\ Syncing(q) /\ q # Idle
    BY <1>7 DEF Synced, RequestKnows
  <2>2. /\ processed' = processed \cup {q.event} /\ UNCHANGED <<events, paidUntil>> /\ q.event \in Undelivered
        /\ request' = [request EXCEPT ![r] = Idle] /\ row' \in Row /\ q.got # Unsold
    BY <1>7, <2>1 DEF Synced, Processes, Ledger, stripe
  <2>3. l \in events /\ Latest(l) /\ SameEnds(l) /\ RowEnds(l) /\ Undelivered' \subseteq Undelivered
    BY <1>0, <2>2 DEF Latest, Undelivered
  <2>4. SameEnds(l)'
    BY <2>2, <2>3, EndsKept DEF TypeOK
  <2>5. l # q.event /\ q.got.end = l.body.end
    BY <2>1, <2>2, <2>3 DEF Syncing, Latest, SameEnds
  <2>6. PICK new : new = Monthly(q.event.of, q.got) /\ new.end = l.body.end /\ new \in Row
    <3>1. Monthly(q.event.of, q.got) \in Row
      BY <2>1, <2>2, RowsTyped DEF Syncing, Sync
    <3> QED
      BY <2>5, <3>1 DEF Monthly
  <2>7. ASSUME l \in processed', paidUntil[Pass] = 0 PROVE row'.end = l.body.end
    <3>1. row # NoRow /\ row.end = l.body.end
      BY <2>2, <2>3, <2>5, <2>7 DEF RowEnds
    <3>2. CASE row' = new
      BY <2>6, <3>2
    <3>3. CASE q.seen \in Row /\ row' = Merge(q.seen, new)
      <4>1. row'.end = IF new.end = q.seen.end THEN row.end ELSE new.end
        BY <2>6, <3>1, <3>3, PartMerge DEF TypeOK
      <4> QED
        BY <2>6, <3>1, <4>1
    <3> QED
      BY <1>7, <2>1, <2>6, <3>2, <3>3 DEF Synced
  <2> QED
    BY <2>2, <2>4, <2>7, NoRowAssumption DEF RowEnds
<1>8. ASSUME NEW r \in Requests, NEW e \in events, StartSync(r, e) PROVE SameEnds(l)' /\ RowEnds(l)'
  <2>1. PICK x : x = [event |-> e, seen |-> row, got |-> Unsold, at |-> 0]
    OBVIOUS
  <2>2. /\ UNCHANGED <<events, processed, row, paidUntil>>
        /\ \A h \in Requests : request'[h] = IF h = r THEN x ELSE request[h]
    BY <1>8, <2>1 DEF StartSync, stripe, mirror, TypeOK
  <2>3. l \in events /\ Latest(l) /\ SameEnds(l) /\ RowEnds(l) /\ Undelivered' = Undelivered
    BY <1>0, <2>2 DEF Latest, Undelivered
  <2>4. SameEnds(l)'
    <3>1. ASSUME NEW h \in Requests, request'[h] # Idle, request'[h].event \in Undelivered, request'[h].got # Unsold
          PROVE  request'[h].got.end = l.body.end
      BY <2>1, <2>2, <2>3, <3>1 DEF SameEnds
    <3> QED
      BY <2>3, <3>1 DEF SameEnds
  <2> QED
    BY <2>2, <2>3, <2>4 DEF RowEnds
<1>9. ASSUME NEW p \in Purchases, CreateCheckout(p) PROVE SameEnds(l)' /\ RowEnds(l)'
  BY <1>1, <1>9 DEF CreateCheckout, mirror
<1>10. ASSUME NEW r \in Requests, RequestFails(r) PROVE SameEnds(l)' /\ RowEnds(l)'
  BY <1>1, <1>10 DEF RequestFails, stripe, mirror, TypeOK
<1>11. CASE UNCHANGED vars \/ NextDay
  BY <1>1, <1>11 DEF vars, NextDay, stripe, mirror
<1> QED
  BY <1>2, <1>3, <1>4, <1>5, <1>6, <1>7, <1>8, <1>9, <1>10, <1>11, NextIs

-----------------------------------------------------------------------------
(* The parts of RowInOrder, for the last change l. *)
InRow(l) ==
  /\ row # NoRow /\ row.sub = l.of /\ l.at <= asOf
  /\ row.plan = "monthly" => Mirrors(row, l.body)
Back(l) ==
  \A r \in Requests :
    LET q == request[r]
    IN q # Idle /\ q.seen # NoRow /\ q.seen.plan = "season" => Returned(row, q.seen, l.body)

(* Nothing that is in order is older than the last change once that has been *)
(* processed: only an event of the same change can still be written.         *)
LEMMA InOrderOfLast ==
  ASSUME TypeOK, EventsKnow, NEW l \in events, Latest(l), NEW e \in events, e.of \in Subs,
         e = l \/ l.at <= asOf, ~(e.at < asOf)
  PROVE  e.of = l.of /\ e.body = l.body /\ e.at = l.at
<1>1. e.at <= l.at /\ e.at \in Nat /\ l.at \in Nat /\ asOf \in Nat
  BY DEF Latest, TypeOK, EventsKnow, Event
<1>2. e.at = l.at
  BY <1>1
<1> QED
  BY <1>2 DEF EventsKnow

(* ... and what is written of that change leaves the row in step with it.    *)
LEMMA WrittenInOrder ==
  ASSUME TypeOK, EventsKnow, PassKnows, RequestKnows, NEW l \in events, Latest(l), NEW e \in events, Handled(e),
         ~disordered', l = e \/ (InRow(l) /\ Back(l))
  PROVE  InRow(l)' /\ Back(l)'
<1>0. /\ row \in Row \cup {NoRow} /\ e.body \in Remote /\ e.at \in Nat /\ l.at \in Nat /\ asOf \in Nat
      /\ Pass \notin Subs /\ UNCHANGED request /\ e \in Undelivered
  BY BillingAssumption DEF TypeOK, Event, EventsKnow, Handled, Processes
<1>1. CASE /\ e.of \in Subs /\ Order(e.at)
           /\ \/ e.kind = "changed" /\ row' = Monthly(e.of, e.body)
              \/ e.kind = "deleted" /\ row' = Ended(e.of, e.body)
              \/ e.kind = "failed" /\ row # NoRow /\ row' = [row EXCEPT !.status = "past_due"]
  <2>1. Order(e.at)
    BY <1>1
  <2>2. ~(e.at < asOf)
    BY <2>1 DEF Order
  <2>3. e.of = l.of /\ e.body = l.body /\ e.at = l.at
    BY <1>1, <2>2, InOrderOfLast DEF InRow
  <2>4. l.at <= asOf'
    BY <1>0, <2>1, <2>3 DEF Order
  <2>5. e.body.status # "none"
    BY <1>1 DEF EventsKnow
  <2>6. CASE e.kind = "changed" /\ row' = Monthly(e.of, e.body)
    <3>1. row' # NoRow
      BY <1>1, <1>0, <2>5, <2>6, RowsTyped, NoRowAssumption
    <3> QED
      BY <2>3, <2>4, <2>6, <3>1 DEF Monthly, InRow, Back, Mirrors, Returned
  <2>7. CASE e.kind = "deleted" /\ row' = Ended(e.of, e.body)
    <3>1. row' # NoRow
      BY <1>1, <1>0, <2>5, <2>7, RowsTyped, NoRowAssumption
    <3>2. l.body.status = "canceled"
      BY <2>3, <2>7 DEF EventsKnow
    <3>3. row'.sub = l.of /\ row'.status = "canceled" /\ row'.end = l.body.end
      BY <2>3, <2>7, EndedIs
    <3> QED
      BY <2>4, <3>1, <3>2, <3>3 DEF InRow, Back, Mirrors, Returned
  <2>8. CASE e.kind = "failed" /\ row # NoRow /\ row' = [row EXCEPT !.status = "past_due"]
    <3>1. InRow(l) /\ Back(l) /\ l.body.status = "past_due"
      BY <2>3, <2>8 DEF Latest, EventsKnow
    <3>2. row \in Row /\ row' \in Row
      BY <1>0, <2>8, RowsTyped
    <3>3. /\ row'.status = "past_due" /\ row'.end = row.end /\ row'.ending = row.ending
          /\ row'.plan = row.plan /\ row'.sub = row.sub /\ row' # NoRow
      BY <2>8, <3>2, NoRowAssumption DEF Row
    <3>4. InRow(l)'
      BY <2>4, <3>1, <3>3 DEF InRow, Mirrors
    <3>5. Back(l)'
      BY <1>0, <3>1, <3>3 DEF Back, Returned
    <3> QED
      BY <3>4, <3>5
  <2> QED
    BY <1>1, <2>6, <2>7, <2>8
<1>2. CASE e.of = Pass /\ e.kind = "checkout" /\ row' = Season /\ Order(e.at)
  <2>1. e.kind = "checkout" /\ row' = Season /\ Order(e.at)
    BY <1>2
  <2>2. InRow(l) /\ Back(l)
    BY <2>1 DEF Latest
  <2>3. row' # NoRow /\ row'.plan = "season" /\ row'.sub = row.sub
    <3>1. Season \in Row
      BY <1>2, RowsTyped
    <3> QED
      BY <2>1, <2>2, <3>1, NoRowAssumption DEF Season, InRow
  <2>4. l.at <= asOf'
    BY <1>0, <2>1, <2>2 DEF Order, InRow
  <2>5. ~PassDone
    BY <1>0, <1>2 DEF PassDone, EventsKnow, Undelivered, TypeOK
  <2>6. Back(l)'
    BY <1>0, <2>5 DEF Back, RequestKnows, Syncing
  <2> QED
    BY <2>2, <2>3, <2>4, <2>6 DEF InRow
<1>3. CASE UNCHANGED mirror /\ e.kind \in {"paid", "failed"}
  BY <1>0, <1>3 DEF mirror, Latest, InRow, Back
<1> QED
  BY <1>1, <1>2, <1>3 DEF Handled

(* A sync that is in order has fetched the last change: the columns it does  *)
(* not write are those that are in step already.                            *)
LEMMA SyncedInOrder ==
  ASSUME TypeOK, EventsKnow, RequestKnows, LatestIsTrue, OneAtATime, NEW l \in events, Latest(l),
         NEW r \in Requests, Synced(r), ~disordered', ~beside, InRow(l), Back(l)
  PROVE  InRow(l)' /\ Back(l)'
<1>1. PICK q \in Sync : q = request[r] /\ Syncing(q) /\ q # Idle
  BY DEF Synced, RequestKnows
<1>2. /\ q.event \in Undelivered /\ q.got # Unsold /\ Order(q.at) /\ row' \in Row
      /\ request' = [request EXCEPT ![r] = Idle]
  BY <1>1 DEF Synced, Processes
<1>3. asOf \in Nat /\ l.at \in Nat /\ q.at \in Nat /\ row \in Row /\ row' # NoRow
  BY <1>2, NoRowAssumption DEF TypeOK, EventsKnow, Event, Sync, InRow
<1>4. l.at <= q.at /\ l.at <= asOf'
  <2>1. ~(q.at < asOf)
    BY <1>2 DEF Order
  <2>2. l.at <= asOf
    BY DEF InRow
  <2> QED
    BY <1>2, <1>3, <2>1, <2>2 DEF Order
<1>5. q.event.of = l.of
  BY <1>1, <1>2 DEF OneAtATime, Syncing
<1>6. q.got = l.body
  BY <1>1, <1>2, <1>4, <1>5 DEF LatestIsTrue
<1>7. PICK new \in Row : new = Monthly(l.of, l.body)
  BY <1>1, <1>2, <1>5, <1>6, RowsTyped DEF Syncing, Sync
<1>8. /\ new.sub = l.of /\ new.plan = "monthly" /\ new.status = l.body.status
      /\ new.end = l.body.end /\ new.ending = l.body.ending
  BY <1>7 DEF Monthly
<1>9. /\ row'.sub = l.of
      /\ row'.plan = "monthly" => Mirrors(row', l.body)
      /\ row'.status \in {row.status, l.body.status} /\ row'.end \in {row.end, l.body.end}
      /\ row'.ending \in {row.ending, l.body.ending}
  <2>1. CASE row' = new
    BY <1>8, <2>1 DEF Mirrors
  <2>2. CASE q.seen \in Row /\ row' = Merge(q.seen, new)
    <3>1. PICK w \in Row : w = row'
      BY <1>2
    <3>2. /\ w.plan = IF new.plan = q.seen.plan THEN row.plan ELSE new.plan
          /\ w.sub = IF new.sub = q.seen.sub THEN row.sub ELSE new.sub
          /\ w.status = IF new.status = q.seen.status THEN row.status ELSE new.status
          /\ w.end = IF new.end = q.seen.end THEN row.end ELSE new.end
          /\ w.ending = IF new.ending = q.seen.ending THEN row.ending ELSE new.ending
      BY <1>3, <2>2, <3>1, PartMerge, NoRowAssumption
    <3>3. row.sub = l.of /\ (row.plan = "monthly" => Mirrors(row, l.body))
      BY DEF InRow
    <3>4. ASSUME w.plan = "monthly" PROVE Mirrors(w, l.body)
      <4>1. CASE row.plan = "monthly"
        BY <1>8, <3>2, <3>3, <4>1 DEF Mirrors
      <4>2. CASE row.plan # "monthly"
        <5>1. q.seen.plan = "season" /\ q.seen # NoRow
          BY <1>8, <2>2, <3>2, <3>4, <4>2, NoRowAssumption DEF Row
        <5>2. Returned(row, q.seen, l.body)
          BY <1>1, <5>1 DEF Back
        <5> QED
          BY <1>8, <3>2, <5>2 DEF Mirrors, Returned
      <4> QED
        BY <4>1, <4>2
    <3> QED
      BY <1>8, <3>1, <3>2, <3>3, <3>4
  <2> QED
    BY <1>1, <1>3, <1>5, <1>6, <1>7, <2>1, <2>2, NoRowAssumption DEF Synced
<1>10. InRow(l)'
  BY <1>3, <1>4, <1>9 DEF InRow
<1>11. ASSUME NEW h \in Requests, request'[h] # Idle, request'[h].seen # NoRow, request'[h].seen.plan = "season"
       PROVE  Returned(row', request'[h].seen, l.body)
  <2>1. request'[h] = request[h]
    BY <1>2, <1>11 DEF TypeOK
  <2>2. Returned(row, request[h].seen, l.body)
    BY <1>11, <2>1 DEF Back
  <2> QED
    BY <1>9, <2>1, <2>2 DEF Returned
<1>12. Back(l)'
  BY <1>11 DEF Back
<1> QED
  BY <1>10, <1>12

(* While nothing overtook anything, the row stays in step with the last      *)
(* change from the moment that is processed.                                *)
LEMMA RowKept ==
  ASSUME TypeOK, RemoteKnows, EventsKnow, PassKnows, RequestKnows, LatestIsTrue, OneAtATime, RowInOrder, [Next]_vars
  PROVE  RowInOrder'
<1> SUFFICES ASSUME ~disordered', ~beside', NEW l \in processed', Latest(l)'
             PROVE  InRow(l)' /\ Back(l)'
  BY DEF RowInOrder, InOrder, InRow, Back
<1>0. ~disordered /\ ~beside /\ (\A e \in processed : Latest(e) => InRow(e) /\ Back(e))
  <2>1. ASSUME NEW e \in events, Handled(e) PROVE ~disordered /\ ~beside
    <3>1. UNCHANGED beside /\ (Order(e.at) \/ UNCHANGED disordered)
      BY <2>1 DEF Handled, Processes, overlaps, mirror
    <3>2. ~disordered
      BY <3>1 DEF Order
    <3> QED
      BY <3>1, <3>2
  <2>2. ASSUME NEW r \in Requests, Synced(r) PROVE ~disordered /\ ~beside
    <3>1. UNCHANGED beside
      BY <2>2 DEF Synced, Processes, overlaps
    <3>2. ~disordered
      BY <2>2 DEF Synced, Order
    <3> QED
      BY <3>1, <3>2
  <2>3. ASSUME NEW s \in Subs, NEW new, NEW kinds, TellsOf(s, new, kinds) PROVE ~disordered /\ ~beside
    <3>1. ~beside
      BY <2>3 DEF TellsOf
    <3>2. UNCHANGED disordered
      BY <2>3 DEF TellsOf, Change, Emit, mirror
    <3> QED
      BY <3>1, <3>2
  <2>4. ASSUME UNCHANGED <<beside, disordered>> PROVE ~disordered /\ ~beside
    BY <2>4
  <2>5. BuyPass => UNCHANGED <<beside, disordered>>
    BY DEF BuyPass, Emit, overlaps, mirror
  <2>6. ~disordered /\ ~beside
    BY <2>1, <2>2, <2>3, <2>4, <2>5, NextIs
       DEF vars, overlaps, mirror, CreateCheckout, NextDay, StartSync, Retrieve, RetrieveFails, RequestFails
  <2> QED
    BY <2>6 DEF RowInOrder, InOrder, InRow, Back
<1>1. ASSUME UNCHANGED <<events, processed, row, asOf>>,
             \A r \in Requests : request'[r] = request[r] \/ request'[r] = Idle
      PROVE  InRow(l)' /\ Back(l)'
  <2>1. Latest(l) /\ l \in processed
    BY <1>1 DEF Latest
  <2>2. InRow(l) /\ Back(l)
    BY <1>0, <2>1
  <2>3. InRow(l)'
    BY <1>1, <2>2 DEF InRow
  <2>4. Back(l)'
    BY <1>1, <2>2 DEF Back
  <2> QED
    BY <2>3, <2>4
<1>2. CASE BuyPass
  <2>1. Latest(l) /\ l \in processed /\ UNCHANGED <<row, asOf, request>>
    BY <1>2, LatestOfPass DEF BuyPass, Emit, mirror
  <2>2. InRow(l) /\ Back(l)
    BY <1>0, <2>1
  <2> QED
    BY <2>1, <2>2 DEF InRow, Back
<1>3. ASSUME NEW s \in Subs, NEW new, NEW kinds, TellsOf(s, new, kinds) PROVE FALSE
  <2>1. l \in events
    BY <1>3 DEF TellsOf, Change, Emit, TypeOK
  <2>2. l \in events'
    BY DEF Latest
  <2> QED
    BY <1>3, <2>1, <2>2, LatestOfChange
<1>4. ASSUME NEW e \in events, Handled(e) PROVE InRow(l)' /\ Back(l)'
  <2>1. Latest(l) /\ l \in events /\ (l \in processed \/ l = e)
    BY <1>4 DEF Handled, Processes, Ledger, stripe, Latest
  <2>2. l = e \/ (InRow(l) /\ Back(l))
    BY <1>0, <2>1
  <2> QED
    BY <1>4, <2>1, <2>2, WrittenInOrder
<1>5. ASSUME NEW r \in Requests, NEW e \in events, StartSync(r, e) PROVE InRow(l)' /\ Back(l)'
  <2>1. Latest(l) /\ l \in processed /\ UNCHANGED <<row, asOf>>
    BY <1>5 DEF StartSync, stripe, mirror, Latest
  <2>2. InRow(l) /\ Back(l)
    BY <1>0, <2>1
  <2>3. \A h \in Requests : request'[h] = request[h] \/ request'[h].seen = row
    BY <1>5 DEF StartSync, TypeOK
  <2>4. Back(l)'
    BY <2>1, <2>2, <2>3 DEF Back, Returned
  <2> QED
    BY <2>1, <2>2, <2>4 DEF InRow
<1>6. ASSUME NEW r \in Requests, Retrieve(r) PROVE InRow(l)' /\ Back(l)'
  <2>1. Latest(l) /\ l \in processed /\ UNCHANGED <<row, asOf>>
    BY <1>6 DEF Retrieve, stripe, mirror, Latest
  <2>2. InRow(l) /\ Back(l)
    BY <1>0, <2>1
  <2>3. PICK q \in Sync : q = request[r] /\ request[r] # Idle
    BY <1>6 DEF Retrieve, Waiting, TypeOK
  <2>4. PICK x : x = [q EXCEPT !.got = remote[q.event.of], !.at = version]
    OBVIOUS
  <2>5. request' = [request EXCEPT ![r] = x] /\ x.seen = q.seen
    BY <1>6, <2>3, <2>4 DEF Retrieve, TypeOK, Sync
  <2>6. \A h \in Requests : request'[h] = request[h] \/ (h = r /\ request'[h] = x)
    BY <2>5 DEF TypeOK
  <2>7. Back(l)'
    BY <2>1, <2>2, <2>3, <2>5, <2>6 DEF Back
  <2> QED
    BY <2>1, <2>2, <2>7 DEF InRow
<1>7. ASSUME NEW r \in Requests, RetrieveFails(r) PROVE InRow(l)' /\ Back(l)'
  <2>1. request[r].event.kind \in {"checkout", "paid"}
    BY <1>7 DEF RetrieveFails, Waiting, RequestKnows, Syncing
  <2>2. Latest(l) /\ l \in processed /\ UNCHANGED <<row, asOf>> /\ request' = [request EXCEPT ![r] = Idle]
    BY <1>7, <2>1 DEF RetrieveFails, Ledger, stripe, mirror, Latest
  <2>3. InRow(l) /\ Back(l)
    BY <1>0, <2>2
  <2>4. Back(l)'
    BY <2>2, <2>3 DEF Back, TypeOK
  <2> QED
    BY <2>2, <2>3, <2>4 DEF InRow
<1>8. ASSUME NEW r \in Requests, Synced(r) PROVE InRow(l)' /\ Back(l)'
  <2>1. request[r].event.kind \in {"checkout", "paid"}
    BY <1>8 DEF Synced, RequestKnows, Syncing
  <2>2. Latest(l) /\ l \in processed /\ l \in events
    BY <1>8, <2>1 DEF Synced, Processes, Ledger, stripe, Latest
  <2>3. InRow(l) /\ Back(l) /\ ~beside
    BY <1>0, <2>2
  <2> QED
    BY <1>8, <2>2, <2>3, SyncedInOrder
<1>9. ASSUME NEW r \in Requests, RequestFails(r) PROVE InRow(l)' /\ Back(l)'
  <2>1. \A h \in Requests : request'[h] = request[h] \/ request'[h] = Idle
    BY <1>9 DEF RequestFails, TypeOK
  <2> QED
    BY <1>1, <1>9, <2>1 DEF RequestFails, stripe, mirror
<1>10. CASE UNCHANGED vars \/ NextDay \/ \E p \in Purchases : CreateCheckout(p)
  <2>1. UNCHANGED <<events, processed, row, asOf, request>>
    BY <1>10 DEF vars, stripe, mirror, NextDay, CreateCheckout
  <2> QED
    BY <1>1, <2>1
<1> QED
  BY <1>2, <1>3, <1>4, <1>5, <1>6, <1>7, <1>8, <1>9, <1>10, NextIs

-----------------------------------------------------------------------------
(* Nothing has happened at Stripe before the first checkout.                 *)
LEMMA InitHolds == Init => IInv
<1> SUFFICES ASSUME Init PROVE IInv
  OBVIOUS
<1>0. Period \in Nat \ {0} /\ Pass \notin Subs /\ None \notin Purchases
  BY BillingAssumption
<1>1. TypeOK
  <2>1. remote \in [Subs -> Remote]
    BY DEF Init, Unsold, Remote
  <2>2. customer \in [Purchases -> Purchases \cup {None}] /\ paidUntil \in [Purchases -> Nat]
    BY DEF Init
  <2>3. asOf \in 0..version /\ today \in Nat /\ version \in Nat /\ passEnd \in {0, SeasonEnd}
    BY DEF Init
  <2>4. request \in [Requests -> Sync \cup {Idle}]
    BY DEF Init
  <2>5. row \in Row \cup {NoRow} /\ events \subseteq Event /\ processed \subseteq events
    BY DEF Init
  <2>6. disordered \in BOOLEAN /\ crossed \in BOOLEAN /\ beside \in BOOLEAN
    BY DEF Init
  <2> QED
    BY <2>1, <2>2, <2>3, <2>4, <2>5, <2>6 DEF TypeOK
<1>2. RemoteKnows
  BY <1>0 DEF Init, RemoteKnows, Unsold, Live, Purchases
<1>3. EventsKnow /\ PassKnows /\ RequestKnows
  BY DEF Init, EventsKnow, PassKnows, PassDone, RequestKnows, Purchases
<1>4. LatestIsTrue
  BY DEF Init, LatestIsTrue, Latest, Unsold
<1>5. OneAtATime /\ SamePeriod
  BY DEF Init, OneAtATime, SamePeriod
<1>6. RowInOrder
  BY DEF Init, RowInOrder
<1> QED
  BY <1>1, <1>2, <1>3, <1>4, <1>5, <1>6 DEF IInv

(* The nine parts of the invariant hold together.                            *)
LEMMA IInvKept == IInv /\ [Next]_vars => IInv'
BY TypeKept, RemoteKept, EventsKept, PassKept, RequestsKept, LatestKept, OneKept, SameKept, RowKept DEF IInv

(* ... from the first state on, in every state.                              *)
THEOREM IInvHolds == Spec => []IInv
<1>1. QED
  BY InitHolds, IInvKept, PTL DEF Spec

-----------------------------------------------------------------------------
(* The row, the ledger, the requests and what Stripe knows keep their types, *)
(* and no version is written that Stripe has not reached.                   *)
THEOREM BillingTypeCorrect == Spec => []TypeOK
<1>1. IInv => TypeOK
  BY DEF IInv
<1> QED
  BY IInvHolds, <1>1, PTL

(* Where all events have arrived a customer has every day paid for: the row  *)
(* has the end of the last change, since all events that could still be      *)
(* written have it too, or since nothing older was written after it.         *)
THEOREM PaidTimeIsHonouredAlways == Spec => []PaidTimeIsHonoured
<1>1. IInv => PaidTimeIsHonoured
  <2> SUFFICES ASSUME IInv, Settled, ~beside, ~(disordered /\ crossed), NEW p \in Purchases, today < paidUntil[p],
                      p = Pass \/ paidUntil[Pass] = 0
               PROVE  IsPro
    BY DEF PaidTimeIsHonoured
  <2>0. /\ TypeOK /\ RemoteKnows /\ EventsKnow /\ PassKnows /\ LatestIsTrue
        /\ OneAtATime /\ SamePeriod /\ RowInOrder
    BY DEF IInv
  <2>1. today \in Nat /\ paidUntil[p] \in Nat /\ paidUntil[p] # 0 /\ events = processed /\ GraceDays \in Nat
    BY <2>0, BillingAssumption DEF TypeOK, Settled, Undelivered
  <2>2. CASE p = Pass
    <3>1. paidUntil[Pass] = SeasonEnd /\ PassDone
      BY <2>0, <2>1, <2>2 DEF PassKnows, PassDone
    <3>2. passEnd = SeasonEnd
      BY <2>0, <3>1 DEF PassKnows
    <3> QED
      BY <2>2, <3>1, <3>2 DEF IsPro
  <2>3. CASE p # Pass /\ paidUntil[Pass] = 0
    <3>1. p \in Subs /\ remote[p].status # "none"
      BY <2>0, <2>1, <2>3 DEF RemoteKnows, Purchases
    <3>2. PICK l \in events : Latest(l)
      BY <2>0, <3>1 DEF LatestIsTrue
    <3>3. paidUntil[p] <= l.body.end /\ l.body.end \in Nat
      BY <2>0, <3>1, <3>2 DEF OneAtATime, TypeOK, Event, Remote
    <3>4. row # NoRow /\ row.end = l.body.end
      <4>1. CASE ~crossed
        BY <2>0, <2>1, <2>3, <3>2, <4>1 DEF SamePeriod
      <4>2. CASE ~disordered
        <5>1. row # NoRow /\ (row.plan = "monthly" => Mirrors(row, l.body))
          BY <2>0, <2>1, <3>2, <4>2 DEF RowInOrder, InOrder
        <5>2. ~PassDone
          BY <2>0, <2>1, <2>3 DEF PassDone, EventsKnow
        <5>3. row.plan = "monthly"
          BY <2>0, <5>1, <5>2 DEF PassKnows, TypeOK, Row
        <5> QED
          BY <5>1, <5>3 DEF Mirrors
      <4> QED
        BY <4>1, <4>2
    <3>5. row.status \in Statuses /\ row.end \in Nat /\ today < row.end
      BY <2>0, <2>1, <3>3, <3>4 DEF TypeOK, Row
    <3> QED
      BY <2>1, <3>4, <3>5 DEF IsPro, Statuses
  <2> QED
    BY <2>2, <2>3
<1> QED
  BY IInvHolds, <1>1, PTL

(* The settled row is that of the last change.                               *)
LEMMA SettledRow ==
  ASSUME IInv, Settled, InOrder, row # NoRow, row.plan = "monthly"
  PROVE  row.sub \in Subs /\ Mirrors(row, remote[row.sub])
<1>0. TypeOK /\ EventsKnow /\ PassKnows /\ LatestIsTrue /\ RowInOrder
  BY DEF IInv
<1>1. events = processed
  BY <1>0 DEF TypeOK, Settled, Undelivered
<1>2. PICK s \in Subs : remote[s].status # "none"
  BY <1>0 DEF PassKnows, EventsKnow
<1>3. PICK l \in events : Latest(l)
  BY <1>0, <1>2 DEF LatestIsTrue
<1>4. row.sub = l.of /\ Mirrors(row, l.body)
  BY <1>0, <1>1, <1>3 DEF RowInOrder
<1>5. l.body = remote[l.of]
  BY <1>0, <1>3 DEF LatestIsTrue
<1>6. l.of \in Subs
  <2>1. l.of \in Purchases /\ l.kind # "checkout"
    BY <1>0, <1>3 DEF TypeOK, Event, Latest
  <2> QED
    BY <1>0, <1>3, <2>1 DEF EventsKnow, Purchases
<1> QED
  BY <1>4, <1>5, <1>6

(* Where nothing overtook anything the settled row is Stripe's.              *)
THEOREM MirrorTrueInOrderAlways == Spec => []MirrorTrueInOrder
<1>1. IInv => MirrorTrueInOrder
  BY SettledRow DEF MirrorTrueInOrder, Mirrors
<1> QED
  BY IInvHolds, <1>1, PTL

(* ... and a customer whose row it is has paid, or is within one period of   *)
(* the last day paid for: a live subscription is never past its end, and     *)
(* the end is at most one period ahead of the charge.                        *)
THEOREM FreeRideBoundedAlways == Spec => []FreeRideBounded
<1>1. IInv => FreeRideBounded
  <2> SUFFICES ASSUME IInv, Settled, InOrder, row # NoRow, row.plan = "monthly", passEnd <= today, IsPro
               PROVE  today <= paidUntil[row.sub] + Period
    BY DEF FreeRideBounded
  <2>0. TypeOK /\ RemoteKnows /\ Period \in Nat
    BY BillingAssumption DEF IInv
  <2>1. /\ row.sub \in Subs /\ row.status = remote[row.sub].status /\ row.end = remote[row.sub].end
    BY SettledRow DEF Mirrors
  <2>2. PICK s \in Subs : s = row.sub
    BY <2>1
  <2>3. /\ today \in Nat /\ passEnd \in Nat /\ remote[s].end \in Nat /\ paidUntil[s] \in Nat
        /\ remote[s].end <= paidUntil[s] + Period
        /\ Live(s) => today <= remote[s].end
    BY <2>0, BillingAssumption DEF TypeOK, Remote, RemoteKnows, Purchases
  <2>4. today <= remote[s].end
    <3>1. ~(passEnd > today)
      BY <2>3
    <3>2. row.status \in {"active", "past_due"} \/ row.end > today
      BY <3>1 DEF IsPro
    <3>3. row.end > today => today <= remote[s].end
      BY <2>1, <2>2, <2>3
    <3> QED
      BY <2>1, <2>2, <2>3, <3>2, <3>3 DEF Live
  <2> QED
    BY <2>0, <2>2, <2>3, <2>4
<1> QED
  BY IInvHolds, <1>1, PTL

(* The row, the pass and what they are of move with the ledger only: an      *)
(* event another request has processed, or one delivered again, moves        *)
(* nothing.                                                                  *)
THEOREM ReplayIsNoOpAlways == Spec => ReplayIsNoOp
<1>1. IInv /\ [Next]_vars => [mirror' # mirror => \E e \in events : e \notin processed /\ e \in processed']_vars
  <2> SUFFICES ASSUME IInv, [Next]_vars, mirror' # mirror
               PROVE  \E e \in events : e \notin processed /\ e \in processed'
    OBVIOUS
  <2>0. TypeOK /\ RemoteKnows /\ EventsKnow /\ RequestKnows
    BY DEF IInv
  <2>1. ASSUME NEW e, Processes(e) PROVE e \in events /\ e \notin processed /\ e \in processed'
    BY <2>1 DEF Processes, Undelivered, Ledger
  <2>2. (\E e \in events : Processes(e)) \/ (\E r \in Requests : Processes(request[r].event))
    BY <2>0, NextIs
       DEF vars, Handled, Synced, CreateCheckout, BuyPass, Emit, TellsOf, Change, NextDay, StartSync, Retrieve,
           RetrieveFails, RequestFails
  <2> QED
    BY <2>1, <2>2
<1> QED
  BY IInvHolds, <1>1, PTL DEF Spec, ReplayIsNoOp
=============================================================================
