------------------------------ MODULE Billing ------------------------------
(***************************************************************************)
(* One customer's way from Stripe to a plan: overtake/services/            *)
(* billing_service.py mirrors Stripe's state into one `subscriptions` row  *)
(* from webhooks that come late, twice and in any order, and               *)
(* Entitlements.for_user decides from that row and the season-pass date    *)
(* whether the customer is Pro.                                            *)
(*                                                                         *)
(* Stripe itself is outside the repository and is modelled by what the     *)
(* handlers rely on: an invoice is charged when a period ends and a failed *)
(* charge moves the period on all the same; every change of a subscription *)
(* is told by an event that carries the subscription as it is then; an     *)
(* event is delivered, again if need be, within DeliveryWindow days.       *)
(*                                                                         *)
(* A definition whose name continues another's after an underscore is that *)
(* operation with one slip in it, used by the sensitivity runs only.       *)
(***************************************************************************)
EXTENDS Integers, FiniteSets

CONSTANTS
  Subs,            \* the subscriptions the customer's checkouts may create
  Pass,            \* the season pass, the other thing a checkout can buy
  Requests,        \* webhook requests served at the same time
  Period,          \* days of a monthly period
  GraceDays,       \* GRACE_DAYS
  SeasonEnd,       \* settings.season_ends_at
  DeliveryWindow,  \* days within which an event is delivered
  InvoiceNamesSubscription,  \* whether an invoice has a `subscription` field
  MaxDay,          \* bound on the days that pass
  MaxVersion,      \* bound on the changes at Stripe
  None, NoRow

Purchases == Subs \cup {Pass}

ASSUME BillingAssumption ==
  /\ Pass \notin Subs
  /\ None \notin Purchases
  /\ Period \in Nat \ {0} /\ GraceDays \in Nat /\ SeasonEnd \in Nat \ {0}
  /\ DeliveryWindow \in Nat /\ DeliveryWindow < Period
  /\ InvoiceNamesSubscription \in BOOLEAN
  /\ MaxDay \in Nat /\ MaxVersion \in Nat

VARIABLES
  today,
  customer,    \* Stripe: the customer a purchase's checkout was opened for
  remote,      \* Stripe: the subscriptions
  version,     \* Stripe: changes so far
  events,      \* Stripe: the events sent
  processed,   \* the stripe_events ledger
  request,     \* of each webhook request: the sync it is in the middle of
  row,         \* the customer's `subscriptions` row
  passEnd,     \* users.season_pass_ends_at
  paidUntil,   \* history: the day each purchase is paid through
  asOf,        \* history: the newest version written to the row
  disordered,  \* history: an older version was written after a newer one
  crossed,     \* history: a period was renewed while Stripe was telling of it
  beside       \* history: ... or a subscription bought then, or beside another

stripe == <<customer, remote, version, events, paidUntil>>
mirror == <<row, passEnd, asOf, disordered>>
overlaps   == <<crossed, beside>>
vars   == <<today, stripe, processed, request, mirror, overlaps>>

Statuses == {"active", "past_due", "canceled"}
Remote == [status : Statuses \cup {"none"}, end : Nat, ending : BOOLEAN]
Unsold == [status |-> "none", end |-> 0, ending |-> FALSE]

(* `at` is the version an event tells of, `body` the object it carries.    *)
Event == [kind : {"checkout", "changed", "deleted", "paid", "failed"},
          of : Purchases, at : Nat, day : Nat, body : Remote]

Row == [cust : Purchases, plan : {"monthly", "season"}, sub : Subs \cup {None},
        status : Statuses, end : Nat, ending : BOOLEAN]

ASSUME NoRowAssumption == NoRow \notin Row

(* A request in the middle of a sync: the row it has loaded, and what       *)
(* Stripe answered (Unsold until it does), of which version.               *)
Idle == [event |-> None]
Sync == [event : Event, seen : Row \cup {NoRow}, got : Remote, at : Nat]

TypeOK ==
  /\ today \in Nat
  /\ customer \in [Purchases -> Purchases \cup {None}]
  /\ remote \in [Subs -> Remote]
  /\ version \in Nat
  /\ events \subseteq Event
  /\ processed \subseteq events
  /\ request \in [Requests -> Sync \cup {Idle}]
  /\ row \in Row \cup {NoRow}
  /\ passEnd \in {0, SeasonEnd}
  /\ paidUntil \in [Purchases -> Nat]
  /\ asOf \in 0..version
  /\ disordered \in BOOLEAN /\ crossed \in BOOLEAN /\ beside \in BOOLEAN

Init ==
  /\ today = 0
  /\ customer = [p \in Purchases |-> None]
  /\ remote = [s \in Subs |-> Unsold]
  /\ version = 0
  /\ events = {} /\ processed = {}
  /\ request = [r \in Requests |-> Idle]
  /\ row = NoRow
  /\ passEnd = 0
  /\ paidUntil = [p \in Purchases |-> 0]
  /\ asOf = 0
  /\ disordered = FALSE /\ crossed = FALSE /\ beside = FALSE

(* Entitlements.for_user: the pass, then the row's status, the grace week   *)
(* after its period end, or the rest of a period already paid.              *)
IsPro_CanceledStays ==
  \/ passEnd > today
  \/ /\ row # NoRow
     /\ \/ row.status \in {"active", "canceled"}
        \/ row.status = "past_due" /\ today <= row.end + GraceDays

IsPro_CanceledIsFree ==
  \/ passEnd > today
  \/ /\ row # NoRow
     /\ row.status = "active" \/ (row.status = "past_due" /\ today <= row.end + GraceDays)

IsPro ==
  \/ passEnd > today
  \/ /\ row # NoRow
     /\ \/ row.status = "active"
        \/ row.status = "past_due" /\ today <= row.end + GraceDays
        \/ row.status = "canceled" /\ row.end > today

-----------------------------------------------------------------------------
(* create_checkout: only who is not Pro may open one, for the customer of   *)
(* the row or a new one.  It stays payable whatever happens meanwhile.      *)
CreateCheckout(p) ==
  /\ ~IsPro
  /\ customer[p] = None
  /\ customer' = [customer EXCEPT ![p] = IF row = NoRow THEN p ELSE row.cust]
  /\ UNCHANGED <<today, remote, version, events, paidUntil, processed, request, mirror, overlaps>>

-----------------------------------------------------------------------------
(* Stripe.                                                                  *)
Emit(p, kinds, body) ==
  /\ version < MaxVersion
  /\ version' = version + 1
  /\ events' = events \cup
       {[kind |-> k, of |-> p, at |-> version + 1, day |-> today, body |-> body] : k \in kinds}
  /\ UNCHANGED <<today, customer, processed, request, mirror>>

Change(s, new, kinds) ==
  /\ remote' = [remote EXCEPT ![s] = new]
  /\ Emit(s, kinds, new)

Charged(p, until) == paidUntil' = [paidUntil EXCEPT ![p] = until]

Undelivered == events \ processed

(* Nothing Stripe has sent is still to be processed.                        *)
Settled == Undelivered = {} /\ \A r \in Requests : request[r] = Idle

Live(s) == remote[s].status \in {"active", "past_due"}

BuyPass ==
  /\ customer[Pass] # None
  /\ paidUntil[Pass] = 0
  /\ Emit(Pass, {"checkout"}, Unsold)
  /\ Charged(Pass, SeasonEnd)
  /\ UNCHANGED <<remote, overlaps>>

Subscribe(s) ==
  /\ customer[s] # None
  /\ remote[s].status = "none"
  /\ Change(s, [status |-> "active", end |-> today + Period, ending |-> FALSE],
            {"checkout", "changed", "paid"})
  /\ Charged(s, today + Period)
  /\ beside' = (beside \/ ~Settled \/ \E t \in Subs : Live(t))
  /\ UNCHANGED crossed

Due(s) == remote[s].status = "active" /\ remote[s].end = today

Renewal(s) ==
  /\ Due(s) /\ ~remote[s].ending
  /\ crossed' = (crossed \/ ~Settled)
  /\ UNCHANGED beside

Renew(s) ==
  /\ Renewal(s)
  /\ Change(s, [remote[s] EXCEPT !.end = @ + Period], {"changed", "paid"})
  /\ Charged(s, today + Period)

RenewalFails(s) ==
  /\ Renewal(s)
  /\ Change(s, [remote[s] EXCEPT !.end = @ + Period, !.status = "past_due"],
            {"changed", "failed"})
  /\ UNCHANGED paidUntil

Recover(s) ==
  /\ remote[s].status = "past_due"
  /\ Change(s, [remote[s] EXCEPT !.status = "active"], {"changed", "paid"})
  /\ Charged(s, remote[s].end)
  /\ UNCHANGED overlaps

(* A cancellation for the period's end, or one that is taken back.          *)
CancelAtPeriodEnd(s) ==
  /\ remote[s].status = "active"
  /\ Change(s, [remote[s] EXCEPT !.ending = ~@], {"changed"})
  /\ UNCHANGED <<paidUntil, overlaps>>

(* At the period's end, at once, or because the charge never went through.  *)
Cancelled(s) ==
  /\ remote[s].status = "past_due" \/ (remote[s].status = "active" /\ ~(Due(s) /\ ~remote[s].ending))
  /\ Change(s, [remote[s] EXCEPT !.status = "canceled"], {"deleted"})
  /\ UNCHANGED <<paidUntil, overlaps>>

(* Periods are renewed or closed on their last day, requests take less than *)
(* a day, and events are delivered within their window.                     *)
NextDay ==
  /\ today < MaxDay
  /\ \A s \in Subs : Live(s) => remote[s].end > today
  /\ \A r \in Requests : request[r] = Idle
  /\ \A e \in events \ processed : today < e.day + DeliveryWindow
  /\ today' = today + 1
  /\ UNCHANGED <<stripe, processed, request, mirror, overlaps>>

-----------------------------------------------------------------------------
(* What each handler hands to _upsert_subscription.                         *)
Monthly(s, from) ==
  [cust |-> customer[s], plan |-> "monthly", sub |-> s,
   status |-> from.status, end |-> from.end, ending |-> from.ending]

Ended_Misspelt(s, from) == [Monthly(s, from) EXCEPT !.status = "cancelled", !.ending = FALSE]
Ended(s, from) == [Monthly(s, from) EXCEPT !.status = "canceled", !.ending = FALSE]

Season ==
  [cust |-> customer[Pass], plan |-> "season", sub |-> IF row = NoRow THEN None ELSE row.sub,
   status |-> "active", end |-> SeasonEnd, ending |-> FALSE]

(* _upsert_subscription: there is never a second row, whatever subscription *)
(* the first is of.  The unit of work writes the columns that differ from   *)
(* the row object as it was loaded, and leaves the others.                  *)
Merge_KeepsEnd(loaded, new) ==
  IF row = NoRow THEN new
  ELSE [c \in DOMAIN new |-> IF new[c] = loaded[c] \/ c = "end" THEN row[c] ELSE new[c]]

Merge(loaded, new) ==
  IF row = NoRow THEN new
  ELSE [c \in DOMAIN new |-> IF new[c] = loaded[c] THEN row[c] ELSE new[c]]

Upsert(loaded, new, at) ==
  /\ row' = Merge(loaded, new)
  /\ asOf' = IF at > asOf THEN at ELSE asOf
  /\ disordered' = (disordered \/ at < asOf)

Ledger(e) == processed' = processed \cup {e}

(* An invoice says whose it is by the customer of the row only.             *)
Resolves(e) == row # NoRow /\ row.cust = customer[e.of]

Syncs(e) ==
  \/ e.kind = "checkout" /\ e.of # Pass
  \/ e.kind = "paid" /\ InvoiceNamesSubscription /\ Resolves(e)

(* _on_subscription_change, _on_subscription_deleted, _on_invoice_failed    *)
(* and the season branch of _on_checkout_completed: one transaction that    *)
(* awaits the database only, and commits the ledger with the row.           *)
SubscriptionChanged(e) ==
  /\ e.kind = "changed"
  /\ Upsert(row, Monthly(e.of, e.body), e.at)
  /\ UNCHANGED passEnd

SubscriptionDeleted(e) ==
  /\ e.kind = "deleted"
  /\ Upsert(row, Ended(e.of, e.body), e.at)
  /\ UNCHANGED passEnd

InvoiceFailed(e) ==
  /\ e.kind = "failed" /\ Resolves(e)
  /\ Upsert(row, [row EXCEPT !.status = "past_due"], e.at)
  /\ UNCHANGED passEnd

SeasonCheckout(e) ==
  /\ e.kind = "checkout" /\ e.of = Pass
  /\ passEnd' = SeasonEnd
  /\ Upsert(row, Season, e.at)

(* No user was found, or the invoice names no subscription: recorded only.  *)
Ignored(e) ==
  /\ e.kind \in {"paid", "failed"} /\ ~Syncs(e) /\ ~(e.kind = "failed" /\ Resolves(e))
  /\ UNCHANGED mirror

Handle(e) ==
  /\ e \in Undelivered
  /\ \/ SubscriptionChanged(e) \/ SubscriptionDeleted(e)
     \/ InvoiceFailed(e) \/ SeasonCheckout(e) \/ Ignored(e)
  /\ Ledger(e)
  /\ UNCHANGED <<today, stripe, request, overlaps>>

(* The other events re-fetch the subscription, and other requests run in    *)
(* the meantime.  _resolve_user has loaded the row for an invoice.          *)
StartSync(r, e) ==
  /\ request[r] = Idle
  /\ e \in Undelivered /\ Syncs(e)
  /\ request' = [request EXCEPT ![r] = [event |-> e, seen |-> row, got |-> Unsold, at |-> 0]]
  /\ UNCHANGED <<today, stripe, processed, mirror, overlaps>>

Waiting(r) == request[r] # Idle /\ request[r].got = Unsold

Retrieve(r) ==
  /\ Waiting(r)
  /\ request' = [request EXCEPT ![r].got = remote[request[r].event.of], ![r].at = version]
  /\ UNCHANGED <<today, stripe, processed, mirror, overlaps>>

(* A failed retrieve is logged, and the event counts as processed.          *)
RetrieveFails(r) ==
  /\ Waiting(r)
  /\ request[r].event \in Undelivered
  /\ Ledger(request[r].event)
  /\ request' = [request EXCEPT ![r] = Idle]
  /\ UNCHANGED <<today, stripe, mirror, overlaps>>

(* The ledger's key lets one of two requests with the same event commit.    *)
FinishSync_Unledgered(r) ==
  LET e == request[r].event
  IN /\ request[r] # Idle /\ ~Waiting(r)
     /\ Ledger(e)
     /\ Upsert(IF e.kind = "paid" THEN request[r].seen ELSE row,
               Monthly(e.of, request[r].got), request[r].at)
     /\ request' = [request EXCEPT ![r] = Idle]
     /\ UNCHANGED <<today, stripe, passEnd, overlaps>>

FinishSync(r) ==
  LET e == request[r].event
  IN /\ request[r] # Idle /\ ~Waiting(r)
     /\ e \in Undelivered
     /\ Ledger(e)
     /\ Upsert(IF e.kind = "paid" THEN request[r].seen ELSE row,
               Monthly(e.of, request[r].got), request[r].at)
     /\ request' = [request EXCEPT ![r] = Idle]
     /\ UNCHANGED <<today, stripe, passEnd, overlaps>>

(* A crash, or the unique key: the transaction is rolled back, Stripe is    *)
(* answered an error and delivers the event again.                          *)
RequestFails(r) ==
  /\ request[r] # Idle
  /\ request' = [request EXCEPT ![r] = Idle]
  /\ UNCHANGED <<today, stripe, processed, mirror, overlaps>>

(* An event of the ledger, delivered again: "duplicate".                    *)
Redelivered(e) ==
  /\ e \in processed
  /\ UNCHANGED vars

Next ==
  \/ \E p \in Purchases : CreateCheckout(p)
  \/ BuyPass
  \/ \E s \in Subs : \/ Subscribe(s) \/ Renew(s) \/ RenewalFails(s)
                     \/ Recover(s) \/ CancelAtPeriodEnd(s) \/ Cancelled(s)
  \/ NextDay
  \/ \E e \in events : Handle(e) \/ Redelivered(e)
  \/ \E r \in Requests : \/ \E e \in events : StartSync(r, e)
                         \/ Retrieve(r) \/ RetrieveFails(r)
                         \/ FinishSync(r) \/ RequestFails(r)

Spec == Init /\ [][Next]_vars

-----------------------------------------------------------------------------
(* Once every event has arrived, twice or not, with or without a failed     *)
(* retrieve, a customer is Pro on every day paid for.  They may arrive in   *)
(* any order, unless one of the period before is among them: it may be the  *)
(* last to be written and bring the old end back (see the README).  The one *)
(* row mirrors one purchase, so two subscriptions at once are left out, and *)
(* one beside a pass, which may be forgotten when the season is over.       *)
PaidTimeIsHonoured ==
  Settled /\ ~beside /\ ~(disordered /\ crossed)
          /\ (\E p \in Purchases : today < paidUntil[p] /\ (p = Pass \/ paidUntil[Pass] = 0))
    => IsPro

(* Where nothing overtook anything the settled row agrees with Stripe, the  *)
(* failed retrieves and the columns merged from a stale row included        *)
(* ("the `subscriptions` table is a mirror", billing_service.py).           *)
InOrder == ~disordered /\ ~beside
MirrorTrueInOrder ==
  Settled /\ InOrder /\ row # NoRow /\ row.plan = "monthly" =>
    /\ row.status = remote[row.sub].status
    /\ row.end = remote[row.sub].end
    /\ row.status # "canceled" => row.ending = remote[row.sub].ending

(* ... and nobody stays Pro beyond the one period whose charge failed       *)
(* (for_user counts the grace days from the end of that period).            *)
FreeRideBounded ==
  Settled /\ InOrder /\ row # NoRow /\ row.plan = "monthly" /\ passEnd <= today /\ IsPro =>
    today <= paidUntil[row.sub] + Period

(* "Seven days of full access [...] then downgrade" (docs/ARCHITECTURE.md): *)
(* past due for longer than the grace days, nobody is Pro.                  *)
GraceIsGraceDays ==
  Settled /\ paidUntil[Pass] = 0 =>
    \A s \in Subs : remote[s].status = "past_due" /\ today > paidUntil[s] + GraceDays => ~IsPro

(* A delivery moves the mirror only together with the ledger: an event that *)
(* was processed, here or in another request, never moves it again.         *)
ReplayIsNoOp == [][mirror' # mirror => \E e \in events : e \notin processed /\ e \in processed']_vars

(* "Entitlement is a stored date rather than a subscription row"            *)
(* (docs/ARCHITECTURE.md): who only ever bought the pass is not Pro after   *)
(* the season.                                                              *)
AccessEndsWithPass ==
  (\A s \in Subs : remote[s].status = "none") /\ SeasonEnd <= today => ~IsPro
=============================================================================
