---------------------------- MODULE OrderPayment ----------------------------
(***************************************************************************)
(* Checkout, payment and per-order billing: what happens between a         *)
(* customer's POST /checkout/create-intent and the 0.99 usage increment.   *)
(*                                                                         *)
(* The actors are the checkout handlers of the API server, Stripe with its *)
(* at-least-once, unordered webhooks, the customer who confirms a payment, *)
(* the restaurant's staff, the goroutines the webhook leaves behind, and   *)
(* the process itself, which may crash.  MongoDB executes one-document     *)
(* writes atomically; nothing in this path uses a transaction.             *)
(*                                                                         *)
(* A request creates at most one order and one PaymentIntent, so the       *)
(* request names both: order r and intent r are those of request r.        *)
(* Prices, addresses and the frames pushed to WebSocket clients are left   *)
(* out: nothing below depends on them.                                     *)
(***************************************************************************)
EXTENDS Naturals, FiniteSets

CONSTANTS
    Request,        \* POSTs to /checkout/create-intent
    Restaurant,     \* tenants
    RestaurantOf,   \* [Request -> Restaurant]: the tenant in the URL
    Number,         \* ORD-NNNNN
    AdminStatus,    \* the statuses that staff choose in this instance
    SavedCard,      \* requests with a payment_method_id: Stripe confirms at once
    Deletable,      \* orders that staff may delete in this instance
    DBFaults,       \* BOOLEAN: may a database call return an error?
    Unanswered,     \* requests for which Stripe may act and the answer be lost
    MaxDeclines,    \* bound on declined attempts per intent
    MaxLostAcks,    \* bound on webhook answers that Stripe does not see
    MaxCrashes,     \* bound on process crashes
    None            \* no order, no number, no intent

Statuses == {"new", "preparing", "ready", "completed", "delivered", "cancelled"}
PaymentStatuses == {"pending", "paid", "failed"}

OrderRecord == [number : Number, status : Statuses, pay : PaymentStatuses,
                intent : Request \cup {None}]

ASSUME ConstantsAssumption ==
    /\ RestaurantOf \in [Request -> Restaurant]
    /\ AdminStatus \subseteq Statuses
    /\ SavedCard \subseteq Request
    /\ Deletable \subseteq Request
    /\ DBFaults \in BOOLEAN
    /\ Unanswered \subseteq Request
    /\ {MaxDeclines, MaxLostAcks, MaxCrashes} \subseteq Nat
    /\ None \notin Request \cup Number \cup OrderRecord

ASSUME FiniteAssumption == IsFiniteSet(Request)

VARIABLES
    pc,         \* how far the handler of a request has come
    num,        \* the order number a handler has chosen, not yet inserted
    orders,     \* collection orders: the row of request r, or None
    intents,    \* Stripe: "none", "open" or "succeeded" for each intent
    declines,   \* Stripe: failed attempts so far on each intent
    pending,    \* Stripe: events not acknowledged yet
    jobs,       \* RecordOrder goroutines that have not run, by restaurant
    usage,      \* collection billing_usage: order_count, over all periods
    lostAcks,   \* deliveries whose acknowledgement Stripe has not seen
    crashes,    \* process crashes so far
    overwritten \* history: orders whose "paid" a failed attempt has replaced

handlerVars == <<pc, num>>
stripeVars  == <<intents, declines, pending>>
billingVars == <<jobs, usage>>
faultVars   == <<lostAcks, crashes, overwritten>>
vars == <<pc, num, orders, intents, declines, pending, jobs, usage, lostAcks, crashes,
          overwritten>>

Stages == {"idle", "numbered", "saved", "created", "attached", "rollback",
           "answered", "refused", "crashed"}
InFlight == {"numbered", "saved", "created", "attached", "rollback"}

Succeeded(i) == [type |-> "payment_intent.succeeded", intent |-> i]
Failed(i)    == [type |-> "payment_intent.payment_failed", intent |-> i]
Events == {Succeeded(i) : i \in Request} \cup {Failed(i) : i \in Request}

Live(r) == orders[r] # None
NumberTaken(n) == \E r \in Request : Live(r) /\ orders[r].number = n

TypeOK ==
    /\ pc \in [Request -> Stages]
    /\ num \in [Request -> Number \cup {None}]
    /\ \A r \in Request : pc[r] = "numbered" => num[r] # None
    /\ orders \in [Request -> OrderRecord \cup {None}]
    /\ intents \in [Request -> {"none", "open", "succeeded"}]
    /\ declines \in [Request -> Nat]
    /\ pending \subseteq Events
    /\ jobs \in [Restaurant -> Nat]
    /\ usage \in [Restaurant -> Nat]
    /\ lostAcks \in Nat
    /\ crashes \in Nat
    /\ overwritten \subseteq Request

Init ==
    /\ pc = [r \in Request |-> "idle"]
    /\ num = [r \in Request |-> None]
    /\ orders = [r \in Request |-> None]
    /\ intents = [r \in Request |-> "none"]
    /\ declines = [r \in Request |-> 0]
    /\ pending = {}
    /\ jobs = [x \in Restaurant |-> 0]
    /\ usage = [x \in Restaurant |-> 0]
    /\ lostAcks = 0
    /\ crashes = 0
    /\ overwritten = {}

-----------------------------------------------------------------------------
(* The checkout handler: PaymentController.CreateIntent                     *)

Goto(r, stage) == pc' = [pc EXCEPT ![r] = stage]

\* ValidateAndBuildOrder answers 4xx/5xx before it inserts anything: bad
\* body, unknown restaurant, manually closed, item gone, zero total, below
\* the minimum, a failed read, or ten order numbers in a row that exist.
Refuse(r) ==
    /\ pc[r] = "idle"
    /\ Goto(r, "refused")
    /\ UNCHANGED <<num, orders, stripeVars, billingVars, faultVars>>

\* generateOrderNumber keeps the first random candidate no row holds now.
PickNumber(r) ==
    /\ pc[r] = "idle"
    /\ \E n \in Number : ~NumberTaken(n) /\ num' = [num EXCEPT ![r] = n]
    /\ Goto(r, "numbered")
    /\ UNCHANGED <<orders, stripeVars, billingVars, faultVars>>

NewOrder(n) == [number |-> n, status |-> "new", pay |-> "pending", intent |-> None]

\* Mutant: the index was not built at start-up, which is only logged.
IndexMissing(n) == TRUE

\* The unique index on order_number.
IndexAdmits(n) == ~NumberTaken(n)

\* repo.Create.  The index rejects a number that another handler inserted
\* in between; an error may come after the insert.
SaveOrder(r) ==
    /\ pc[r] = "numbered"
    /\ \/ /\ IndexAdmits(num[r])
          /\ orders' = [orders EXCEPT ![r] = NewOrder(num[r])]
          /\ \/ Goto(r, "saved")
             \/ DBFaults /\ Goto(r, "refused")
       \/ /\ ~IndexAdmits(num[r]) \/ DBFaults
          /\ Goto(r, "refused")
          /\ UNCHANGED orders
    /\ num' = [num EXCEPT ![r] = None]
    /\ UNCHANGED <<stripeVars, billingVars, faultVars>>

\* Mutant: the controller returns the error and leaves the draft.
StripeErrorLeavesDraft == "refused"

\* The controller deletes the order after any error of CreateIntentForOrder.
OnStripeError == "rollback"

\* CreateIntentForOrder.  With a saved card Confirm is set, so Stripe may
\* charge, ask for authentication ("open") or decline inside this call; a
\* decline is an error to the caller although the intent now exists.  Stripe
\* may also act and the caller still get an error.
CreateIntent(r) ==
    /\ pc[r] = "saved"
    /\ \/ /\ \/ intents' = [intents EXCEPT ![r] = "open"] /\ UNCHANGED pending
             \/ /\ r \in SavedCard
                /\ intents' = [intents EXCEPT ![r] = "succeeded"]
                /\ pending' = pending \cup {Succeeded(r)}
          /\ UNCHANGED declines
          /\ \/ Goto(r, "created")
             \/ r \in Unanswered /\ Goto(r, OnStripeError)
       \/ /\ r \in SavedCard
          /\ intents' = [intents EXCEPT ![r] = "open"]
          /\ declines' = [declines EXCEPT ![r] = @ + 1]
          /\ pending' = pending \cup {Failed(r)}
          /\ Goto(r, OnStripeError)
       \/ Goto(r, OnStripeError) /\ UNCHANGED stripeVars
    /\ UNCHANGED <<num, orders, billingVars, faultVars>>

\* The controller's DeleteByID after a Stripe error; its own error is dropped.
Rollback(r) ==
    /\ pc[r] = "rollback"
    /\ \/ orders' = [orders EXCEPT ![r] = None]
       \/ DBFaults /\ UNCHANGED orders
    /\ Goto(r, "refused")
    /\ UNCHANGED <<num, stripeVars, billingVars, faultVars>>

\* UpdateOne({_id: r}, {$set: {payment_intent_id: r}}): no error, and no
\* effect, when the row is gone.
LinkIntent(r) == orders' = IF Live(r) THEN [orders EXCEPT ![r].intent = r] ELSE orders

\* Mutant: an error of AttachPaymentIntent is treated like one of Stripe.
AttachErrorRollsBack == "rollback"

\* An error of AttachPaymentIntent is logged and the handler goes on.
OnAttachError == "attached"

AttachPaymentIntent(r) ==
    /\ pc[r] = "created"
    /\ \/ LinkIntent(r) /\ Goto(r, "attached")
       \/ DBFaults /\ (LinkIntent(r) \/ UNCHANGED orders) /\ Goto(r, OnAttachError)
    /\ UNCHANGED <<num, stripeVars, billingVars, faultVars>>

\* Mutant: the answer goes out before the intent is attached.
AnswerBeforeAttach(r) ==
    /\ pc[r] \in {"created", "attached"}
    /\ Goto(r, "answered")
    /\ UNCHANGED <<num, orders, stripeVars, billingVars, faultVars>>

\* 200 with the client secret: from here the customer can confirm.
Answer(r) ==
    /\ pc[r] = "attached"
    /\ Goto(r, "answered")
    /\ UNCHANGED <<num, orders, stripeVars, billingVars, faultVars>>

-----------------------------------------------------------------------------
(* The customer confirms at Stripe with the client secret                   *)

CustomerPays(r) ==
    /\ pc[r] = "answered" /\ intents[r] = "open"
    /\ intents' = [intents EXCEPT ![r] = "succeeded"]
    /\ pending' = pending \cup {Succeeded(r)}
    /\ UNCHANGED <<handlerVars, orders, declines, billingVars, faultVars>>

CardDeclined(r) ==
    /\ pc[r] = "answered" /\ intents[r] = "open" /\ declines[r] < MaxDeclines
    /\ declines' = [declines EXCEPT ![r] = @ + 1]
    /\ pending' = pending \cup {Failed(r)}
    /\ UNCHANGED <<handlerVars, orders, intents, billingVars, faultVars>>

-----------------------------------------------------------------------------
(* The Stripe webhook: PaymentService.HandleWebhook                         *)

\* Mutants: Stripe's own word is stored; every event about an intent counts as
\* a payment.
StripeStatusOf(e) == IF e = Succeeded(e.intent) THEN "succeeded" ELSE "failed"
AlwaysPaid(e) == "paid"

PaymentStatusOf(e) == IF e = Succeeded(e.intent) THEN "paid" ELSE "failed"

\* The rows FindOneAndUpdate({payment_intent_id: e.intent}) can pick.
MatchedBy(e) == {r \in Request : Live(r) /\ orders[r].intent = e.intent}

Overwrites(r, status) == orders[r].pay = "paid" /\ status = "failed"

\* Mutant: the filter also asks for payment_status pending.
SetStatusIfPending(r, status) ==
    /\ orders' = IF orders[r].pay = "pending" THEN [orders EXCEPT ![r].pay = status] ELSE orders
    /\ UNCHANGED overwritten

\* UpdatePaymentStatusByIntent: whatever status the row had is overwritten.
SetPaymentStatus(r, status) ==
    /\ orders' = [orders EXCEPT ![r].pay = status]
    /\ overwritten' = overwritten \cup {q \in {r} : Overwrites(q, status)}

\* Stripe sees the 2xx and forgets the event, or it does not and sends again.
Acknowledge(e) ==
    \/ pending' = pending \ {e} /\ UNCHANGED lostAcks
    \/ /\ lostAcks < MaxLostAcks
       /\ lostAcks' = lostAcks + 1
       /\ UNCHANGED pending

\* Mutant: a failed payment is billed too.
BillsEveryEvent(e) == TRUE

\* Only payment_intent.succeeded starts a RecordOrder goroutine.
BillsOrder(e) == e = Succeeded(e.intent)

\* A row matches: it is updated, and a succeeded payment leaves a goroutine
\* that will call RecordOrder.
DeliverToOrder(e) ==
    /\ \E r \in MatchedBy(e) :
         /\ SetPaymentStatus(r, PaymentStatusOf(e))
         /\ jobs' = IF BillsOrder(e)
                    THEN [jobs EXCEPT ![RestaurantOf[r]] = @ + 1]
                    ELSE jobs
    /\ Acknowledge(e)
    /\ UNCHANGED <<handlerVars, intents, declines, usage, crashes>>

\* No row carries the intent: the handler still answers 200.
DeliverToNobody(e) ==
    /\ MatchedBy(e) = {}
    /\ Acknowledge(e)
    /\ UNCHANGED <<handlerVars, orders, intents, declines, billingVars, crashes, overwritten>>

\* The update returns an error, before or after it took effect: it is logged
\* and the handler answers 200 all the same.
DeliverWithDBError(e) ==
    /\ DBFaults
    /\ \/ UNCHANGED <<orders, overwritten>>
       \/ \E r \in MatchedBy(e) : SetPaymentStatus(r, PaymentStatusOf(e))
    /\ Acknowledge(e)
    /\ UNCHANGED <<handlerVars, intents, declines, billingVars, crashes>>

Deliver(e) ==
    /\ e \in pending
    /\ DeliverToOrder(e) \/ DeliverToNobody(e) \/ DeliverWithDBError(e)

\* The goroutine's atomic upsert {$inc: order_count}; its error is logged.
RecordOrder(x) ==
    /\ jobs[x] > 0
    /\ jobs' = [jobs EXCEPT ![x] = @ - 1]
    /\ \/ usage' = [usage EXCEPT ![x] = @ + 1]
       \/ DBFaults /\ UNCHANGED usage
    /\ UNCHANGED <<handlerVars, orders, stripeVars, faultVars>>

-----------------------------------------------------------------------------
(* Staff of restaurant x                                                    *)

\* Mutant: the row is saved as staff had loaded it, payment status included.
UpdateStatusSavesOrder(x, r, s) ==
    /\ Live(r) /\ RestaurantOf[r] = x
    /\ orders' = [orders EXCEPT ![r].status = s, ![r].pay = "pending"]
    /\ UNCHANGED <<handlerVars, stripeVars, billingVars, faultVars>>

\* Any valid status may follow any other; the filter is {_id, restaurant_id}.
UpdateStatus(x, r, s) ==
    /\ Live(r) /\ RestaurantOf[r] = x
    /\ orders' = [orders EXCEPT ![r].status = s]
    /\ UNCHANGED <<handlerVars, stripeVars, billingVars, faultVars>>

\* GetScopedByID, then DeleteScoped.
DeleteOrder(x, r) ==
    /\ r \in Deletable /\ Live(r) /\ RestaurantOf[r] = x
    /\ orders' = [orders EXCEPT ![r] = None]
    /\ UNCHANGED <<handlerVars, stripeVars, billingVars, faultVars>>

-----------------------------------------------------------------------------
(* The process dies: handlers and goroutines are gone, the database is not. *)
(* Shutdown does not wait for goroutines, so a deploy is a crash to them.   *)

LoseProcess ==
    /\ crashes < MaxCrashes
    /\ crashes' = crashes + 1
    /\ pc' = [r \in Request |-> IF pc[r] \in InFlight THEN "crashed" ELSE pc[r]]
    /\ num' = [r \in Request |-> None]
    /\ jobs' = [x \in Restaurant |-> 0]
    /\ UNCHANGED <<stripeVars, usage, lostAcks>>

Crash == LoseProcess /\ UNCHANGED <<orders, overwritten>>

\* ... in a webhook, after its update and before its goroutine and answer.
CrashInWebhook(e) ==
    /\ e \in pending
    /\ \E r \in MatchedBy(e) : SetPaymentStatus(r, PaymentStatusOf(e))
    /\ LoseProcess

-----------------------------------------------------------------------------
HandlerStep(r) ==
    \/ Refuse(r) \/ PickNumber(r) \/ SaveOrder(r) \/ CreateIntent(r)
    \/ Rollback(r) \/ AttachPaymentIntent(r) \/ Answer(r)

Next ==
    \/ \E r \in Request : HandlerStep(r) \/ CustomerPays(r) \/ CardDeclined(r)
    \/ \E e \in Events : Deliver(e) \/ CrashInWebhook(e)
    \/ \E x \in Restaurant :
         \/ RecordOrder(x)
         \/ \E r \in Request : DeleteOrder(x, r) \/ \E s \in AdminStatus : UpdateStatus(x, r, s)
    \/ Crash

Spec == Init /\ [][Next]_vars

\* A handler that has started runs on while the process lives; Stripe sends
\* an event until it is acknowledged; a started goroutine is scheduled.
\* Nobody has to call the API, pay, or change an order.
Fairness ==
    /\ \A r \in Request : WF_vars(pc[r] # "idle" /\ HandlerStep(r))
    /\ \A e \in Events : WF_vars(Deliver(e))
    /\ \A x \in Restaurant : WF_vars(RecordOrder(x))

FairSpec == Spec /\ Fairness

-----------------------------------------------------------------------------
(* Invariants                                                               *)

\* Order numbers are globally unique (README, Notes) although they are drawn
\* with a read that another handler's insert can overtake.
OrderNumbersUnique ==
    \A r, q \in Request :
        Live(r) /\ Live(q) /\ orders[r].number = orders[q].number => r = q

\* A payment status is only ever what Stripe did to the order's own intent:
\* the webhook finds rows by payment_intent_id alone, so an order must carry
\* no intent but its own, "paid" needs a charge and "failed" a decline.
PaymentEvidence ==
    \A r \in Request : Live(r) =>
        /\ orders[r].intent \in {None, r}
        /\ orders[r].pay = "paid" => orders[r].intent = r /\ intents[r] = "succeeded"
        /\ orders[r].pay = "failed" => orders[r].intent = r /\ declines[r] > 0

Charged(x) == {r \in Request : RestaurantOf[r] = x /\ intents[r] = "succeeded"}

\* A restaurant is billed for no more than its charged orders plus the webhook
\* answers that Stripe did not see: only a redelivery counts twice.  With a
\* database that answers and a process that lives it is billed for every charge
\* that Stripe considers delivered, unless the webhook could not find the order:
\* a saved card's race with AttachPaymentIntent, or an order staff deleted.
FeesMatchCharges ==
    \A x \in Restaurant :
        LET billed == usage[x] + jobs[x]
            found == {r \in Charged(x) \ (SavedCard \cup Deletable) : Succeeded(r) \notin pending}
        IN /\ billed <= Cardinality(Charged(x)) + lostAcks
           /\ ~DBFaults /\ crashes = 0 => billed >= Cardinality(found)

ShowsCharge(r) ==
    orders[r].pay = "paid" \/ (orders[r].pay = "failed" /\ r \in overwritten)

\* A charge whose event Stripe considers delivered shows on the order, unless the
\* row is gone: the customer gets the client secret only after the intent is
\* attached.  Only one thing takes "paid" away: a failed attempt of the same
\* intent that is delivered (or delivered again) after the charge, and then the
\* charged order says "failed".  This is for payments confirmed by the customer,
\* and for a database that answers.
ChargeRecorded ==
    \A r \in Request \ SavedCard :
        /\ ~DBFaults
        /\ intents[r] = "succeeded" /\ Succeeded(r) \notin pending
        /\ Live(r)
        => ShowsCharge(r)

\* An order that was charged is still there, unless staff deleted it or
\* Stripe's answer was lost: no error after the charge rolls it back.
ChargedOrderKept ==
    \A r \in Request \ (Deletable \cup Unanswered) :
        intents[r] = "succeeded" => Live(r)

-----------------------------------------------------------------------------
(* Liveness                                                                 *)

\* A charge of a linked order is recorded while it is still to be delivered,
\* whatever failed attempts are delivered around it.
ChargeEventuallyRecorded ==
    \A r \in Request :
        Live(r) /\ orders[r].intent = r /\ Succeeded(r) \in pending
            ~> ~Live(r) \/ orders[r].pay = "paid"

\* No draft is left behind while the process lives: a row without an intent is
\* linked or removed, whatever Stripe answers.
DraftsResolve ==
    \A r \in Request :
        Live(r) /\ orders[r].intent = None
            ~> ~Live(r) \/ orders[r].intent = r \/ pc[r] = "crashed"

-----------------------------------------------------------------------------
(* The promise to customers that this implements                            *)

Shown == [r \in Request |-> IF Live(r) THEN orders[r].pay ELSE "absent"]
ChargedOrders == {r \in Request : intents[r] = "succeeded"}
DeclinedOrders == {r \in Request : declines[r] > 0}

Promise == INSTANCE PaymentPromise
    WITH Order <- Request, shown <- Shown, charged <- ChargedOrders, declined <- DeclinedOrders

\* Every step of the handlers, of Stripe, of staff and of a crash is one step
\* of PaymentPromise or leaves the customer's view as it was.
ImplementsPromise == Promise!PromiseSpec

-----------------------------------------------------------------------------
(* Statements of the documentation that the code does not keep              *)

\* README, Notes: "Stripe webhook updates orders across all tenants by
\* payment_intent_id".  With a saved card Stripe charges inside CreateIntent,
\* and its event can arrive before AttachPaymentIntent.
WebhookUpdatesOrder ==
    \A r \in Request :
        intents[r] = "succeeded" /\ Succeeded(r) \notin pending /\ Live(r)
            => orders[r].pay # "pending"
=============================================================================
