------------------------------ MODULE Billing ------------------------------
(***************************************************************************)
(* What restaurants pay the platform: the setup fee and the subscription.  *)
(*                                                                         *)
(* Handlers create a Stripe customer for a restaurant when its billing row *)
(* has none, and then a session of Stripe's checkout or portal; Stripe     *)
(* reports payments and changes of subscriptions by webhooks, at least     *)
(* once and in any order, and a webhook is a read of the row followed by   *)
(* an upsert.  The fee per order is recorded by OrderPayment's goroutine.  *)
(*                                                                         *)
(* A call creates at most one customer and one session, and a session at   *)
(* most one subscription: the call names all three.  A handler that ends   *)
(* with an error before it changes anything is one that never goes on.     *)
(***************************************************************************)
EXTENDS Naturals, FiniteSets

CONSTANTS
    Restaurant,
    Call,           \* requests to the billing endpoints
    RestaurantOf,   \* [Call -> Restaurant]: the tenant of the token
    KindOf,         \* [Call -> {"setup", "subscription", "portal"}]
    MaxChanges,     \* bound on changes of a subscription at Stripe
    MaxLost,        \* bound on deliveries that Stripe sees fail
    MaxDBErrors,    \* bound on database errors
    None            \* no customer, no subscription

ASSUME BillingAssumption ==
    /\ RestaurantOf \in [Call -> Restaurant]
    /\ KindOf \in [Call -> {"setup", "subscription", "portal"}]
    /\ {MaxChanges, MaxLost, MaxDBErrors} \subseteq Nat
    /\ None \notin Call

VARIABLES
    rows,       \* collection billing; no row is the same as an empty one
    calls,      \* how far a call has come, and the customer it has
    subs,       \* Stripe: the subscription that the session of a call made
    pending,    \* Stripe: events not acknowledged yet
    found,      \* webhooks between their read and their upsert
    latest,     \* the newest event handled of each subscription
    overtaken,  \* subscriptions of which an older event was handled later
    lost, dbErrors

reportVars == <<latest, overtaken>>
vars == <<rows, calls, subs, pending, found, reportVars, lost, dbErrors>>

BillingRow == [customer : Call \cup {None}, setupPaid : BOOLEAN,
               status : {"none", "active", "past_due", "canceled"}, sub : Call \cup {None}]
Stages == {"idle", "gated", "unnamed", "created", "named", "opened", "paid", "refused"}
Subscription == [status : {"none", "active", "past_due", "canceled"}, version : Nat]

Completed(k) == [type |-> "checkout.session.completed", of |-> k, status |-> "none", version |-> 0]

\* The handler treats created and updated alike.
Changed(k, sub) ==
    [type |-> IF sub.status = "canceled" THEN "customer.subscription.deleted"
              ELSE "customer.subscription.updated",
     of |-> k, status |-> sub.status, version |-> sub.version]
Event == [type : {"checkout.session.completed", "customer.subscription.updated",
                  "customer.subscription.deleted"},
          of : Call, status : {"none", "active", "past_due", "canceled"}, version : Nat]

TypeOK ==
    /\ rows \in [Restaurant -> BillingRow]
    /\ calls \in [Call -> [stage : Stages, customer : Call \cup {None}]]
    /\ subs \in [Call -> Subscription]
    /\ pending \subseteq Event
    /\ found \subseteq Event \X Restaurant
    /\ latest \in [Call -> Nat]
    /\ overtaken \subseteq Call
    /\ lost \in Nat /\ dbErrors \in Nat

Init ==
    /\ rows = [x \in Restaurant |->
                  [customer |-> None, setupPaid |-> FALSE, status |-> "none", sub |-> None]]
    /\ calls = [k \in Call |-> [stage |-> "idle", customer |-> None]]
    /\ subs = [k \in Call |-> [status |-> "none", version |-> 0]]
    /\ pending = {} /\ found = {}
    /\ latest = [k \in Call |-> 0] /\ overtaken = {}
    /\ lost = 0 /\ dbErrors = 0

DBError == dbErrors < MaxDBErrors /\ dbErrors' = dbErrors + 1
NoDBError == UNCHANGED dbErrors

-----------------------------------------------------------------------------
(* The handlers                                                             *)

Goto(k, stage) == calls' = [calls EXCEPT ![k].stage = stage]
Refuse(k) == calls' = [calls EXCEPT ![k] = [stage |-> "refused", customer |-> None]]
RowOf(k) == rows[RestaurantOf[k]]

\* Mutant: no check, the fee is collected with the first invoice.
CheckNothing(k) ==
    /\ calls[k].stage = "idle" /\ KindOf[k] = "subscription"
    /\ Goto(k, "gated")
    /\ UNCHANGED <<rows, subs, pending, found, reportVars, lost, dbErrors>>

\* CreateSubscriptionCheckout: 402 until the setup fee is paid.
CheckSetupFee(k) ==
    /\ calls[k].stage = "idle" /\ KindOf[k] = "subscription"
    /\ Goto(k, IF RowOf(k).setupPaid THEN "gated" ELSE "refused")
    /\ UNCHANGED <<rows, subs, pending, found, reportVars, lost, dbErrors>>

\* getOrCreateStripeCustomer reads the row; the portal only takes a customer
\* that is there.
FindCustomer(k) ==
    /\ calls[k].stage = IF KindOf[k] = "subscription" THEN "gated" ELSE "idle"
    /\ \/ /\ RowOf(k).customer # None
          /\ calls' = [calls EXCEPT ![k] = [stage |-> "named", customer |-> RowOf(k).customer]]
       \/ /\ RowOf(k).customer = None
          /\ Goto(k, IF KindOf[k] = "portal" THEN "refused" ELSE "unnamed")
    /\ UNCHANGED <<rows, subs, pending, found, reportVars, lost, dbErrors>>

\* Mutant: a customer with the same e-mail is reused, also another tenant's.
CustomerByEmail(k) ==
    {c \in Call : \E x \in Restaurant : rows[x].customer = c} \cup {k}

\* Stripe makes a new customer at every call.
NewCustomer(k) == {k}

CreateCustomer(k) ==
    /\ calls[k].stage = "unnamed"
    /\ \/ \E c \in NewCustomer(k) :
              calls' = [calls EXCEPT ![k] = [stage |-> "created", customer |-> c]]
       \/ Refuse(k)
    /\ UNCHANGED <<rows, subs, pending, found, reportVars, lost, dbErrors>>

\* An error of this upsert is only logged.
SaveCustomer(k) ==
    /\ calls[k].stage = "created"
    /\ \/ rows' = [rows EXCEPT ![RestaurantOf[k]].customer = calls[k].customer] /\ NoDBError
       \/ DBError /\ UNCHANGED rows
    /\ Goto(k, "named")
    /\ UNCHANGED <<subs, pending, found, reportVars, lost>>

\* The session at Stripe, or an error.
OpenSession(k) ==
    /\ calls[k].stage = "named"
    /\ Goto(k, "opened") \/ Refuse(k)
    /\ UNCHANGED <<rows, subs, pending, found, reportVars, lost, dbErrors>>

-----------------------------------------------------------------------------
(* Stripe                                                                   *)

PaySetupFee(k) ==
    /\ calls[k].stage = "opened" /\ KindOf[k] = "setup"
    /\ Goto(k, "paid")
    /\ pending' = pending \cup {Completed(k)}
    /\ UNCHANGED <<rows, subs, found, reportVars, lost, dbErrors>>

Change(k, status) ==
    LET sub == [status |-> status, version |-> subs[k].version + 1]
    IN  /\ subs' = [subs EXCEPT ![k] = sub]
        /\ pending' = pending \cup {Changed(k, sub)}
        /\ UNCHANGED <<rows, found, reportVars, lost, dbErrors>>

\* The session's own completed event is ignored by the handler; that of the
\* subscription carries the customer.
Subscribe(k) ==
    /\ calls[k].stage = "opened" /\ KindOf[k] = "subscription"
    /\ Goto(k, "paid")
    /\ Change(k, "active")

\* An invoice fails or is paid, or the subscription ends.
ChangeSubscription(k, status) ==
    /\ subs[k].status \in {"active", "past_due"} \ {status}
    /\ subs[k].version <= MaxChanges
    /\ Change(k, status)
    /\ UNCHANGED calls

-----------------------------------------------------------------------------
(* The webhook: HandleWebhook                                               *)

\* The event has been handled; Stripe sees the 200, or sends it again.
Acknowledge(e) ==
    /\ \/ pending' = pending \ {e} /\ UNCHANGED lost
       \/ lost < MaxLost /\ lost' = lost + 1 /\ UNCHANGED pending
    /\ IF e.version < latest[e.of]
       THEN overtaken' = overtaken \cup {e.of} /\ UNCHANGED latest
       ELSE latest' = [latest EXCEPT ![e.of] = e.version] /\ UNCHANGED overtaken

WithSetupPaid(x) == [rows[x] EXCEPT !.setupPaid = TRUE]

SetupFeePaid(e) ==
    /\ e \in pending /\ e.type = "checkout.session.completed"
    /\ LET x == RestaurantOf[e.of]
       IN  \/ rows' = [rows EXCEPT ![x] = WithSetupPaid(x)] /\ NoDBError
           \/ DBError /\ UNCHANGED rows
    /\ Acknowledge(e)
    /\ UNCHANGED <<calls, subs, found>>

\* Mutant: every event is looked up by the subscription's id.
MatchesById(e) == {x \in Restaurant : rows[x].sub = e.of}

\* A subscription is looked up by its customer, a deleted one by its id.
Matches(e) ==
    IF e.type = "customer.subscription.deleted"
    THEN {x \in Restaurant : rows[x].sub = e.of}
    ELSE {x \in Restaurant : rows[x].customer = calls[e.of].customer}

FindRow(e) ==
    /\ e \in pending /\ e.type # "checkout.session.completed"
    /\ ~\E x \in Restaurant : <<e, x>> \in found
    /\ \E x \in Matches(e) : found' = found \cup {<<e, x>>}
    /\ UNCHANGED <<rows, calls, subs, pending, reportVars, lost, dbErrors>>

\* No row, or an error of the read: logged, and answered 200.
IgnoreEvent(e) ==
    /\ e \in pending /\ e.type # "checkout.session.completed"
    /\ ~\E x \in Restaurant : <<e, x>> \in found
    /\ (Matches(e) = {} /\ NoDBError) \/ DBError
    /\ Acknowledge(e)
    /\ UNCHANGED <<rows, calls, subs, found>>

\* Mutant: the row is replaced instead of $set.
ReplacedRow(row, e) ==
    [customer |-> row.customer, setupPaid |-> FALSE, status |-> e.status, sub |-> e.of]

\* What the upsert leaves of the row that it finds now.
WithSubscription(row, e) ==
    IF e.type = "customer.subscription.deleted"
    THEN [row EXCEPT !.status = "canceled", !.sub = None]
    ELSE [row EXCEPT !.status = e.status, !.sub = e.of]

SaveSubscription(e, x) ==
    /\ <<e, x>> \in found
    /\ found' = found \ {<<e, x>>}
    /\ \/ rows' = [rows EXCEPT ![x] = WithSubscription(@, e)] /\ NoDBError
       \/ DBError /\ UNCHANGED rows
    /\ Acknowledge(e)
    /\ UNCHANGED <<calls, subs>>

\* The process dies between the read and the upsert: Stripe sends again.
LoseDelivery(e, x) ==
    /\ <<e, x>> \in found /\ lost < MaxLost
    /\ found' = found \ {<<e, x>>}
    /\ lost' = lost + 1
    /\ UNCHANGED <<rows, calls, subs, pending, reportVars, dbErrors>>

-----------------------------------------------------------------------------
CallStep(k) ==
    \/ CheckSetupFee(k) \/ FindCustomer(k) \/ CreateCustomer(k) \/ SaveCustomer(k)
    \/ OpenSession(k)

WebhookStep(e) ==
    SetupFeePaid(e) \/ FindRow(e) \/ IgnoreEvent(e) \/ \E x \in Restaurant : SaveSubscription(e, x)

Next ==
    \/ \E k \in Call :
         \/ CallStep(k) \/ PaySetupFee(k) \/ Subscribe(k)
         \/ \E s \in {"active", "past_due", "canceled"} : ChangeSubscription(k, s)
    \/ \E e \in pending : WebhookStep(e) \/ \E x \in Restaurant : LoseDelivery(e, x)

Spec == Init /\ [][Next]_vars

\* Stripe sends an event until it is acknowledged.
FairSpec == Spec /\ \A k \in Call : WF_vars(Completed(k) \in pending /\ WebhookStep(Completed(k)))

-----------------------------------------------------------------------------
(* Properties                                                               *)

SetupPaidBy(x) == \E k \in Call : RestaurantOf[k] = x /\ KindOf[k] = "setup" /\ calls[k].stage = "paid"

\* Nobody can subscribe before the restaurant has paid its setup fee at Stripe,
\* however its handlers and webhooks interleave.
SetupFeeFirst ==
    \A k \in Call : KindOf[k] = "subscription" /\ calls[k].stage \in {"named", "opened", "paid"}
                        => SetupPaidBy(RestaurantOf[k])

\* No restaurant gets another one's customer or subscription: webhooks find
\* rows by Stripe's ids and know no tenant.
OwnSubscription ==
    \A x \in Restaurant :
        /\ rows[x].sub # None => RestaurantOf[rows[x].sub] = x
        /\ \A k \in Call : RestaurantOf[k] = x /\ calls[k].customer # None
                              => RestaurantOf[calls[k].customer] = x

\* When its events are handled, a restaurant's only subscription shows as it is
\* at Stripe, if it was bought for the customer in the row, the database
\* answered, and no older event was handled after a newer one.
StatusShown ==
    \A k \in Call \ overtaken :
        /\ subs[k].version > 0 /\ dbErrors = 0
        /\ calls[k].customer = RowOf(k).customer
        /\ \A q \in Call \ {k} : RestaurantOf[q] = RestaurantOf[k] => subs[q].version = 0
        /\ ~\E e \in pending : e.of = k
        => RowOf(k).status = subs[k].status

\* A setup fee that was paid is recorded in the end, and no later event or
\* handler takes it back.
SetupFeeCounts ==
    <>[](\A k \in Call : KindOf[k] = "setup" /\ calls[k].stage = "paid"
                             => RowOf(k).setupPaid \/ dbErrors > 0)

-----------------------------------------------------------------------------
(* The promise to restaurants that this implements                          *)

FeePaid == {RestaurantOf[k] : k \in {q \in Call : KindOf[q] = "setup" /\ calls[q].stage = "paid"}}
FeeNoted == {x \in Restaurant : rows[x].setupPaid}
Subscribed == {RestaurantOf[k] : k \in {q \in Call : subs[q].version > 0}}
Ended == {RestaurantOf[k] : k \in {q \in Call : subs[q].status = "canceled"}}

Promise == INSTANCE BillingPromise
    WITH paid <- FeePaid, noted <- FeeNoted, subscribed <- Subscribed, ended <- Ended,
         shown <- [x \in Restaurant |-> rows[x].status]

\* Every step of handlers, of Stripe, of webhooks and of faults is one step of
\* BillingPromise or leaves the restaurant's view as it was, although events come
\* late, twice and out of order and webhooks write what they read before.
KeepsPromise == Promise!PromiseSpec
=============================================================================
