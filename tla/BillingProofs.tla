--------------------------- MODULE BillingProofs ---------------------------
(* Proofs about Billing, for any restaurants, calls and bounds.             *)
EXTENDS Billing, TLAPS

-----------------------------------------------------------------------------
(* The state is well typed                                                  *)

\* Every step keeps the types.
LEMMA TypeStep == TypeOK /\ [Next]_vars => TypeOK'
<1> SUFFICES ASSUME TypeOK, [Next]_vars PROVE TypeOK'
  OBVIOUS
<1> USE BillingAssumption DEF TypeOK, reportVars, DBError, NoDBError, Goto, Refuse, RowOf
<1>1. ASSUME NEW k \in Call, CallStep(k) PROVE TypeOK'
  <2>1. CASE CheckSetupFee(k) \/ OpenSession(k)
    BY <2>1 DEF CheckSetupFee, OpenSession, Stages
  <2>2. CASE FindCustomer(k)
    <3>1. rows[RestaurantOf[k]].customer \in Call \cup {None}
      BY DEF BillingRow
    <3>2. calls' \in [Call -> [stage : Stages, customer : Call \cup {None}]]
      BY <2>2, <3>1 DEF FindCustomer, Stages
    <3>3. QED
      BY <2>2, <3>2 DEF FindCustomer
  <2>3. CASE CreateCustomer(k)
    BY <2>3 DEF CreateCustomer, NewCustomer, Stages
  <2>4. CASE SaveCustomer(k)
    <3>1. rows' \in [Restaurant -> BillingRow]
      <4> DEFINE x == RestaurantOf[k]
                 row == [rows[x] EXCEPT !.customer = calls[k].customer]
      <4>1. x \in Restaurant /\ rows[x] \in BillingRow /\ calls[k].customer \in Call \cup {None}
        OBVIOUS
      <4>2. row \in BillingRow
        BY <4>1 DEF BillingRow
      <4>3. UNCHANGED rows \/ rows' = [rows EXCEPT ![x] = row]
        BY <2>4 DEF SaveCustomer
      <4>4. QED
        BY <4>1, <4>2, <4>3
    <3>2. calls' \in [Call -> [stage : Stages, customer : Call \cup {None}]]
      BY <2>4 DEF SaveCustomer, Stages
    <3>3. QED
      BY <2>4, <3>1, <3>2 DEF SaveCustomer
  <2>5. QED
    BY <1>1, <2>1, <2>2, <2>3, <2>4 DEF CallStep
<1>2. ASSUME NEW k \in Call, PaySetupFee(k) PROVE TypeOK'
  <2>1. Completed(k) \in Event
    BY DEF Completed, Event
  <2>2. QED
    BY <1>2, <2>1 DEF PaySetupFee, Stages
<1>3. ASSUME NEW k \in Call, NEW s \in {"active", "past_due", "canceled"},
             Change(k, s)
      PROVE  /\ subs' \in [Call -> Subscription]
             /\ pending' \subseteq Event
             /\ UNCHANGED <<rows, found, latest, overtaken, lost, dbErrors>>
  <2> DEFINE sub == [status |-> s, version |-> subs[k].version + 1]
  <2>1. sub \in Subscription
    BY DEF Subscription
  <2>2. Changed(k, sub) \in Event
    BY <2>1 DEF Changed, Event, Subscription
  <2>3. QED
    BY <1>3, <2>1, <2>2 DEF Change
<1>4. ASSUME NEW k \in Call, Subscribe(k) PROVE TypeOK'
  BY <1>3, <1>4 DEF Subscribe, Stages
<1>5. ASSUME NEW k \in Call, NEW s \in {"active", "past_due", "canceled"},
             ChangeSubscription(k, s)
      PROVE  TypeOK'
  BY <1>3, <1>5 DEF ChangeSubscription
<1>6. ASSUME NEW e \in pending, Acknowledge(e)
      PROVE  /\ pending' \subseteq Event
             /\ latest' \in [Call -> Nat]
             /\ overtaken' \subseteq Call
             /\ lost' \in Nat
  BY <1>6 DEF Acknowledge, Event
<1>7. ASSUME NEW e \in pending, WebhookStep(e) PROVE TypeOK'
  <2>1. CASE SetupFeePaid(e)
    <3>1. rows' \in [Restaurant -> BillingRow]
      <4>1. ASSUME NEW x \in Restaurant PROVE WithSetupPaid(x) \in BillingRow
        <5>1. rows[x] \in BillingRow
          OBVIOUS
        <5>2. QED
          BY <5>1 DEF WithSetupPaid, BillingRow
      <4>2. RestaurantOf[e.of] \in Restaurant
        BY DEF Event
      <4>3. QED
        BY <2>1, <4>1, <4>2 DEF SetupFeePaid
    <3>2. QED
      BY <1>6, <2>1, <3>1 DEF SetupFeePaid
  <2>2. CASE FindRow(e)
    BY <2>2 DEF FindRow, Matches
  <2>3. CASE IgnoreEvent(e)
    BY <1>6, <2>3 DEF IgnoreEvent
  <2>4. ASSUME NEW x \in Restaurant, SaveSubscription(e, x) PROVE TypeOK'
    <3>1. WithSubscription(rows[x], e) \in BillingRow
      <4>1. rows[x] \in BillingRow /\ e \in Event
        OBVIOUS
      <4>2. QED
        BY <4>1 DEF WithSubscription, BillingRow, Event
    <3>2. rows' \in [Restaurant -> BillingRow]
      BY <2>4, <3>1 DEF SaveSubscription
    <3>3. QED
      BY <1>6, <2>4, <3>2 DEF SaveSubscription
  <2>5. QED
    BY <1>7, <2>1, <2>2, <2>3, <2>4 DEF WebhookStep
<1>8. ASSUME NEW e \in pending, NEW x \in Restaurant, LoseDelivery(e, x) PROVE TypeOK'
  BY <1>8 DEF LoseDelivery
<1>9. CASE UNCHANGED vars
  BY <1>9 DEF vars
<1>10. QED
  BY <1>1, <1>2, <1>4, <1>5, <1>7, <1>8, <1>9 DEF Next

\* Rows, calls and events of the billing component are always well typed.
THEOREM BillingTypeCorrect == Spec => []TypeOK
<1>1. Init => TypeOK
  BY DEF Init, TypeOK, BillingRow, Stages, Subscription
<1>2. QED
  BY <1>1, TypeStep, PTL DEF Spec
-----------------------------------------------------------------------------
(* The setup fee comes first                                                *)

\* A call whose session is paid is at its end.
LEMMA PaidStays ==
    ASSUME TypeOK, [Next]_vars, NEW k \in Call, calls[k].stage = "paid"
    PROVE  calls'[k] = calls[k]
<1> USE DEF TypeOK
<1>1. ASSUME NEW q \in Call, CallStep(q) \/ PaySetupFee(q) \/ Subscribe(q)
      PROVE  calls'[k] = calls[k]
  <2>1. calls[q].stage # "paid"
    BY <1>1 DEF CallStep, CheckSetupFee, FindCustomer, CreateCustomer, SaveCustomer, OpenSession,
                PaySetupFee, Subscribe
  <2>2. q # k
    BY <2>1
  <2>3. QED
    BY <1>1, <2>2 DEF CallStep, CheckSetupFee, FindCustomer, CreateCustomer, SaveCustomer,
                      OpenSession, PaySetupFee, Subscribe, Goto, Refuse
<1>2. ASSUME NEW q \in Call, NEW s \in {"active", "past_due", "canceled"}, ChangeSubscription(q, s)
      PROVE  UNCHANGED calls
  BY <1>2 DEF ChangeSubscription
<1>3. ASSUME NEW e \in pending, WebhookStep(e) \/ \E x \in Restaurant : LoseDelivery(e, x)
      PROVE  UNCHANGED calls
  BY <1>3 DEF WebhookStep, SetupFeePaid, FindRow, IgnoreEvent, SaveSubscription, LoseDelivery
<1>4. QED
  BY <1>1, <1>2, <1>3 DEF Next, vars

\* Where the evidence of a paid setup fee is on its way from Stripe to a
\* subscription: the event, the row, the handler that has passed the check.
FeeEvents ==
    \A e \in pending : e.type = "checkout.session.completed"
                           => KindOf[e.of] = "setup" /\ calls[e.of].stage = "paid"
FeeRows == \A x \in Restaurant : rows[x].setupPaid => SetupPaidBy(x)
FeeCalls ==
    \A k \in Call :
        /\ KindOf[k] = "subscription"
        /\ calls[k].stage \in {"gated", "unnamed", "created", "named", "opened", "paid"}
        => SetupPaidBy(RestaurantOf[k])

FeeInv == FeeEvents /\ FeeRows /\ FeeCalls

\* A restaurant that has paid its setup fee has paid it for good.
LEMMA SetupStaysPaid ==
    ASSUME TypeOK, [Next]_vars, NEW x \in Restaurant, SetupPaidBy(x)
    PROVE  SetupPaidBy(x)'
BY PaidStays DEF SetupPaidBy

\* Completed sessions are announced by PaySetupFee alone.
LEMMA FeeEventsStep == TypeOK /\ FeeInv /\ [Next]_vars => FeeEvents'
<1> SUFFICES ASSUME TypeOK, FeeInv, [Next]_vars, NEW e \in pending',
                    e.type = "checkout.session.completed"
             PROVE  KindOf[e.of] = "setup" /\ calls'[e.of].stage = "paid"
  BY DEF FeeEvents
<1> USE DEF TypeOK
<1>1. CASE e \in pending
  <2>1. e.of \in Call
    BY <1>1 DEF Event
  <2>2. QED
    BY <1>1, <2>1, PaidStays DEF FeeInv, FeeEvents
<1>2. CASE e \notin pending
  <2>1. ASSUME NEW k \in Call, CallStep(k)
        PROVE  FALSE
    BY <1>2, <2>1 DEF CallStep, CheckSetupFee, FindCustomer, CreateCustomer, SaveCustomer,
                      OpenSession
  <2>2. ASSUME NEW k \in Call, PaySetupFee(k)
        PROVE  KindOf[e.of] = "setup" /\ calls'[e.of].stage = "paid"
    BY <1>2, <2>2 DEF PaySetupFee, Completed, Goto
  <2>3. ASSUME NEW k \in Call, NEW s \in {"active", "past_due", "canceled"}, Change(k, s)
        PROVE  FALSE
    BY <1>2, <2>3 DEF Change, Changed
  <2>4. ASSUME NEW d \in pending, WebhookStep(d) \/ \E x \in Restaurant : LoseDelivery(d, x)
        PROVE  FALSE
    BY <1>2, <2>4 DEF WebhookStep, SetupFeePaid, FindRow, IgnoreEvent, SaveSubscription,
                      LoseDelivery, Acknowledge
  <2>5. QED
    BY <1>2, <2>1, <2>2, <2>3, <2>4 DEF Next, Subscribe, ChangeSubscription, vars
<1>3. QED
  BY <1>1, <1>2

\* setup_fee_paid is set for the event of a paid session alone.
LEMMA FeeRowsStep == TypeOK /\ FeeInv /\ [Next]_vars => FeeRows'
<1> SUFFICES ASSUME TypeOK, FeeInv, [Next]_vars, NEW x \in Restaurant, rows'[x].setupPaid
             PROVE  SetupPaidBy(x)'
  BY DEF FeeRows
<1> SUFFICES SetupPaidBy(x)
  BY SetupStaysPaid
<1> USE DEF TypeOK
<1>1. CASE rows[x].setupPaid
  BY <1>1 DEF FeeInv, FeeRows
<1>2. CASE ~rows[x].setupPaid
  <2>1. ASSUME NEW k \in Call, CallStep(k)
        PROVE  FALSE
    <3>1. CASE SaveCustomer(k)
      <4>1. rows[x] \in BillingRow
        OBVIOUS
      <4>2. QED
        BY <1>2, <3>1, <4>1 DEF SaveCustomer, BillingRow
    <3>2. QED
      BY <1>2, <2>1, <3>1 DEF CallStep, CheckSetupFee, FindCustomer, CreateCustomer, OpenSession
  <2>2. ASSUME NEW k \in Call,
               PaySetupFee(k) \/ \E s \in {"active", "past_due", "canceled"} : Change(k, s)
        PROVE  FALSE
    BY <1>2, <2>2 DEF PaySetupFee, Change
  <2>3. ASSUME NEW e \in pending, SetupFeePaid(e)
        PROVE  SetupPaidBy(x)
    <3>1. e.of \in Call
      BY DEF Event
    <3>2. x = RestaurantOf[e.of]
      BY <1>2, <2>3 DEF SetupFeePaid
    <3>3. QED
      BY <2>3, <3>1, <3>2 DEF SetupFeePaid, FeeInv, FeeEvents, SetupPaidBy
  <2>4. ASSUME NEW e \in pending, NEW y \in Restaurant, SaveSubscription(e, y)
        PROVE  FALSE
    <3>1. rows[y] \in BillingRow
      OBVIOUS
    <3>2. WithSubscription(rows[y], e).setupPaid = rows[y].setupPaid
      BY <3>1 DEF WithSubscription, BillingRow
    <3>3. QED
      BY <1>2, <2>4, <3>2 DEF SaveSubscription
  <2>5. ASSUME NEW e \in pending,
               FindRow(e) \/ IgnoreEvent(e) \/ \E y \in Restaurant : LoseDelivery(e, y)
        PROVE  FALSE
    BY <1>2, <2>5 DEF FindRow, IgnoreEvent, LoseDelivery
  <2>6. QED
    BY <1>2, <2>1, <2>2, <2>3, <2>4, <2>5
       DEF Next, WebhookStep, Subscribe, ChangeSubscription, vars
<1>3. QED
  BY <1>1, <1>2
\* Only a call that read a paid setup fee gets past the check.
LEMMA FeeCallsStep == TypeOK /\ FeeInv /\ [Next]_vars => FeeCalls'
<1> DEFINE Past == {"gated", "unnamed", "created", "named", "opened", "paid"}
<1> SUFFICES ASSUME TypeOK, FeeInv, [Next]_vars, NEW k \in Call,
                    KindOf[k] = "subscription", calls'[k].stage \in Past
             PROVE  SetupPaidBy(RestaurantOf[k])'
  BY DEF FeeCalls
<1> USE BillingAssumption DEF TypeOK
<1> SUFFICES SetupPaidBy(RestaurantOf[k])
  BY SetupStaysPaid
<1>1. CASE calls[k].stage \in Past
  BY <1>1 DEF FeeInv, FeeCalls
<1>2. CASE calls[k].stage \notin Past
  <2>1. ASSUME NEW q \in Call, CallStep(q) \/ PaySetupFee(q) \/ Subscribe(q)
        PROVE  SetupPaidBy(RestaurantOf[k])
    <3>1. CASE q # k
      BY <1>2, <2>1, <3>1
         DEF CallStep, CheckSetupFee, FindCustomer, CreateCustomer, SaveCustomer, OpenSession,
             PaySetupFee, Subscribe, Goto, Refuse
    <3>2. CASE q = k /\ CheckSetupFee(k)
      BY <1>2, <3>2 DEF CheckSetupFee, Goto, RowOf, FeeInv, FeeRows
    <3>3. CASE q = k /\ ~CheckSetupFee(k)
      BY <1>2, <2>1, <3>3
         DEF CallStep, FindCustomer, CreateCustomer, SaveCustomer, OpenSession, PaySetupFee, Subscribe
    <3>4. QED
      BY <3>1, <3>2, <3>3
  <2>2. ASSUME NEW q \in Call, NEW s \in {"active", "past_due", "canceled"}, ChangeSubscription(q, s)
        PROVE  FALSE
    BY <1>2, <2>2 DEF ChangeSubscription
  <2>3. ASSUME NEW e \in pending, WebhookStep(e) \/ \E x \in Restaurant : LoseDelivery(e, x)
        PROVE  FALSE
    BY <1>2, <2>3 DEF WebhookStep, SetupFeePaid, FindRow, IgnoreEvent, SaveSubscription, LoseDelivery
  <2>4. QED
    BY <1>2, <2>1, <2>2, <2>3 DEF Next, vars
<1>3. QED
  BY <1>1, <1>2

\* A subscription's fee is paid wherever evidence of it is.
LEMMA FeeInvariant == Spec => []FeeInv
<1>1. Init => FeeInv
  BY BillingAssumption DEF Init, FeeInv, FeeEvents, FeeRows, FeeCalls
<1>2. TypeOK /\ FeeInv /\ [Next]_vars => FeeInv'
  BY FeeEventsStep, FeeRowsStep, FeeCallsStep DEF FeeInv
<1>3. QED
  BY <1>1, <1>2, BillingTypeCorrect, PTL DEF Spec

\* Nobody subscribes before the setup fee of the restaurant is paid at Stripe,
\* for any calls, errors and orders of events.
THEOREM SetupFeeFirstHolds == Spec => []SetupFeeFirst
<1>1. FeeInv => SetupFeeFirst
  BY DEF FeeInv, FeeCalls, SetupFeeFirst
<1>2. QED
  BY <1>1, FeeInvariant, PTL

-----------------------------------------------------------------------------
(* Nobody gets another restaurant's subscription                            *)

OwnRows ==
    \A x \in Restaurant :
        /\ rows[x].customer # None => RestaurantOf[rows[x].customer] = x
        /\ rows[x].sub # None => RestaurantOf[rows[x].sub] = x
OwnCalls ==
    \A k \in Call :
        /\ calls[k].customer # None => RestaurantOf[calls[k].customer] = RestaurantOf[k]
        /\ calls[k].stage \in {"created", "named", "opened", "paid"} => calls[k].customer # None
\* An event is about a session that was paid for a customer, so the row that it
\* found is its restaurant's.
OwnEvents == \A e \in pending : calls[e.of].stage = "paid"
OwnFound ==
    \A e \in Event, x \in Restaurant :
        <<e, x>> \in found => RestaurantOf[e.of] = x

\* Only a paid session has a subscription.
OwnSubs == \A k \in Call : subs[k].status # "none" => calls[k].stage = "paid"

OwnInv == OwnRows /\ OwnCalls /\ OwnEvents /\ OwnSubs /\ OwnFound

\* Events start with a payment.
LEMMA OwnEventsStep == TypeOK /\ OwnInv /\ [Next]_vars => OwnEvents'
<1> SUFFICES ASSUME TypeOK, OwnInv, [Next]_vars, NEW e \in pending'
             PROVE  calls'[e.of].stage = "paid"
  BY DEF OwnEvents
<1> USE DEF TypeOK
<1>1. CASE e \in pending
  <2>1. e.of \in Call
    BY <1>1 DEF Event
  <2>2. QED
    BY <1>1, <2>1, PaidStays DEF OwnInv, OwnEvents
<1>2. CASE e \notin pending
  <2>1. ASSUME NEW k \in Call, CallStep(k)
        PROVE  FALSE
    BY <1>2, <2>1 DEF CallStep, CheckSetupFee, FindCustomer, CreateCustomer, SaveCustomer,
                      OpenSession
  <2>2. ASSUME NEW k \in Call, PaySetupFee(k)
        PROVE  calls'[e.of].stage = "paid"
    BY <1>2, <2>2 DEF PaySetupFee, Completed, Goto
  <2>3. ASSUME NEW k \in Call, NEW s \in {"active", "past_due", "canceled"}, Change(k, s)
        PROVE  e.of = k
    BY <1>2, <2>3 DEF Change, Changed
  <2>4. ASSUME NEW k \in Call, Subscribe(k)
        PROVE  calls'[e.of].stage = "paid"
    BY <2>3, <2>4 DEF Subscribe, Goto
  <2>5. ASSUME NEW k \in Call, NEW s \in {"active", "past_due", "canceled"},
               ChangeSubscription(k, s)
        PROVE  calls'[e.of].stage = "paid"
    <3>1. e.of = k /\ UNCHANGED calls
      BY <2>3, <2>5 DEF ChangeSubscription
    <3>2. calls[k].stage = "paid"
      BY <2>5 DEF ChangeSubscription, OwnInv, OwnSubs
    <3>3. QED
      BY <3>1, <3>2
  <2>6. ASSUME NEW d \in pending, WebhookStep(d) \/ \E x \in Restaurant : LoseDelivery(d, x)
        PROVE  FALSE
    BY <1>2, <2>6 DEF WebhookStep, SetupFeePaid, FindRow, IgnoreEvent, SaveSubscription,
                      LoseDelivery, Acknowledge
  <2>7. QED
    BY <1>2, <2>1, <2>2, <2>4, <2>5, <2>6 DEF Next, vars
<1>3. QED
  BY <1>1, <1>2

\* A subscription begins with the payment of its session.
LEMMA OwnSubsStep == TypeOK /\ OwnInv /\ [Next]_vars => OwnSubs'
<1> SUFFICES ASSUME TypeOK, OwnInv, [Next]_vars, NEW k \in Call, subs'[k].status # "none"
             PROVE  calls'[k].stage = "paid"
  BY DEF OwnSubs
<1> USE DEF TypeOK
<1>1. CASE subs[k].status # "none"
  BY <1>1, PaidStays DEF OwnInv, OwnSubs
<1>2. CASE subs[k].status = "none"
  <2>1. ASSUME NEW q \in Call, CallStep(q) \/ PaySetupFee(q)
        PROVE  FALSE
    BY <1>2, <2>1 DEF CallStep, CheckSetupFee, FindCustomer, CreateCustomer, SaveCustomer,
                      OpenSession, PaySetupFee
  <2>2. ASSUME NEW q \in Call, NEW s \in {"active", "past_due", "canceled"}, Change(q, s)
        PROVE  q = k
    BY <1>2, <2>2 DEF Change, Subscription
  <2>3. ASSUME NEW q \in Call, Subscribe(q)
        PROVE  calls'[k].stage = "paid"
    BY <2>2, <2>3 DEF Subscribe, Goto
  <2>4. ASSUME NEW q \in Call, NEW s \in {"active", "past_due", "canceled"},
               ChangeSubscription(q, s)
        PROVE  FALSE
    BY <1>2, <2>2, <2>4 DEF ChangeSubscription
  <2>5. ASSUME NEW e \in pending, WebhookStep(e) \/ \E x \in Restaurant : LoseDelivery(e, x)
        PROVE  FALSE
    BY <1>2, <2>5 DEF WebhookStep, SetupFeePaid, FindRow, IgnoreEvent, SaveSubscription,
                      LoseDelivery
  <2>6. QED
    BY <1>2, <2>1, <2>3, <2>4, <2>5 DEF Next, vars
<1>3. QED
  BY <1>1, <1>2

\* A customer comes from the restaurant's own row, or is made for it.
LEMMA OwnCallsStep == TypeOK /\ OwnInv /\ [Next]_vars => OwnCalls'
<1> DEFINE Named == {"created", "named", "opened", "paid"}
<1> SUFFICES ASSUME TypeOK, OwnInv, [Next]_vars, NEW k \in Call
             PROVE  /\ calls'[k].customer # None =>
                           RestaurantOf[calls'[k].customer] = RestaurantOf[k]
                    /\ calls'[k].stage \in Named => calls'[k].customer # None
  BY DEF OwnCalls
<1> USE BillingAssumption DEF TypeOK
<1>1. /\ calls[k].customer # None => RestaurantOf[calls[k].customer] = RestaurantOf[k]
      /\ calls[k].stage \in Named => calls[k].customer # None
  BY DEF OwnInv, OwnCalls
<1>2. CASE calls'[k] = calls[k]
  BY <1>1, <1>2
<1>3. CASE calls'[k] # calls[k]
  <2>1. ASSUME NEW q \in Call, CallStep(q) \/ PaySetupFee(q) \/ Subscribe(q)
        PROVE  q = k
    BY <1>3, <2>1
       DEF CallStep, CheckSetupFee, FindCustomer, CreateCustomer, SaveCustomer, OpenSession,
           PaySetupFee, Subscribe, Goto, Refuse
  <2>2. ASSUME CheckSetupFee(k) \/ SaveCustomer(k) \/ OpenSession(k) \/ PaySetupFee(k)
               \/ Subscribe(k)
        PROVE  /\ calls'[k].customer \in {calls[k].customer, None}
               /\ calls'[k].stage \in Named =>
                      /\ calls[k].stage \in Named
                      /\ calls'[k].customer = calls[k].customer
    BY <2>2 DEF CheckSetupFee, SaveCustomer, OpenSession, PaySetupFee, Subscribe, Goto, Refuse
  <2>3. CASE FindCustomer(k)
    <3>1. RowOf(k).customer # None => RestaurantOf[RowOf(k).customer] = RestaurantOf[k]
      BY DEF RowOf, OwnInv, OwnRows
    <3>2. QED
      BY <1>1, <2>3, <3>1 DEF FindCustomer, Goto
  <2>4. CASE CreateCustomer(k)
    BY <2>4 DEF CreateCustomer, NewCustomer, Refuse
  <2>5. ASSUME NEW q \in Call, NEW s \in {"active", "past_due", "canceled"},
               ChangeSubscription(q, s)
        PROVE  FALSE
    BY <1>3, <2>5 DEF ChangeSubscription
  <2>6. ASSUME NEW e \in pending, WebhookStep(e) \/ \E x \in Restaurant : LoseDelivery(e, x)
        PROVE  FALSE
    BY <1>3, <2>6 DEF WebhookStep, SetupFeePaid, FindRow, IgnoreEvent, SaveSubscription,
                      LoseDelivery
  <2>7. ASSUME NEW q \in Call, CallStep(q) \/ PaySetupFee(q) \/ Subscribe(q)
        PROVE  /\ calls'[k].customer # None =>
                      RestaurantOf[calls'[k].customer] = RestaurantOf[k]
               /\ calls'[k].stage \in Named => calls'[k].customer # None
    BY <1>1, <2>1, <2>2, <2>3, <2>4, <2>7 DEF CallStep
  <2>8. QED
    BY <1>3, <2>5, <2>6, <2>7 DEF Next, vars
<1>4. QED
  BY <1>2, <1>3

\* A row that a webhook finds by customer or by subscription is the buyer's.
LEMMA MatchesOwn ==
    ASSUME TypeOK, OwnInv, NEW e \in pending, NEW x \in Matches(e)
    PROVE  RestaurantOf[e.of] = x
<1> USE BillingAssumption DEF TypeOK
<1>1. e.of \in Call /\ x \in Restaurant
  BY DEF Event, Matches
<1>2. CASE e.type = "customer.subscription.deleted"
  BY <1>1, <1>2 DEF Matches, OwnInv, OwnRows
<1>3. CASE e.type # "customer.subscription.deleted"
  <2>1. calls[e.of].customer # None /\ rows[x].customer = calls[e.of].customer
    BY <1>1, <1>3 DEF Matches, OwnInv, OwnEvents, OwnCalls
  <2>2. QED
    BY <1>1, <2>1 DEF OwnInv, OwnRows, OwnCalls
<1>4. QED
  BY <1>2, <1>3

\* What a webhook has read stays true: customers and buyers do not change.
LEMMA OwnFoundStep == TypeOK /\ OwnInv /\ [Next]_vars => OwnFound'
<1> SUFFICES ASSUME TypeOK, OwnInv, [Next]_vars, NEW e \in Event, NEW x \in Restaurant,
                    <<e, x>> \in found'
             PROVE  RestaurantOf[e.of] = x
  BY DEF OwnFound
<1>1. CASE <<e, x>> \in found
  BY <1>1 DEF OwnInv, OwnFound
<1>2. CASE <<e, x>> \notin found
  <2>1. ASSUME NEW k \in Call,
               CallStep(k) \/ PaySetupFee(k) \/ Subscribe(k)
                   \/ \E s \in {"active", "past_due", "canceled"} : ChangeSubscription(k, s)
        PROVE  FALSE
    BY <1>2, <2>1
       DEF CallStep, CheckSetupFee, FindCustomer, CreateCustomer, SaveCustomer, OpenSession,
           PaySetupFee, Subscribe, ChangeSubscription, Change
  <2>2. ASSUME NEW d \in pending, FindRow(d)
        PROVE  RestaurantOf[e.of] = x
    <3>1. PICK y \in Matches(d) : found' = found \cup {<<d, y>>}
      BY <2>2 DEF FindRow
    <3>2. d = e /\ y = x
      BY <1>2, <3>1
    <3>3. QED
      BY <3>2, MatchesOwn
  <2>3. ASSUME NEW d \in pending,
               \/ SetupFeePaid(d) \/ IgnoreEvent(d)
               \/ \E y \in Restaurant : SaveSubscription(d, y) \/ LoseDelivery(d, y)
        PROVE  FALSE
    BY <1>2, <2>3 DEF SetupFeePaid, IgnoreEvent, SaveSubscription, LoseDelivery
  <2>4. QED
    BY <1>2, <2>1, <2>2, <2>3 DEF Next, WebhookStep, vars
<1>3. QED
  BY <1>1, <1>2

\* Handlers save the customer that they hold; webhooks what is the row's own.
LEMMA OwnRowsStep == TypeOK /\ OwnInv /\ [Next]_vars => OwnRows'
<1> SUFFICES ASSUME TypeOK, OwnInv, [Next]_vars, NEW x \in Restaurant
             PROVE  /\ rows'[x].customer # None => RestaurantOf[rows'[x].customer] = x
                    /\ rows'[x].sub # None => RestaurantOf[rows'[x].sub] = x
  BY DEF OwnRows
<1> DEFINE Own(row) == /\ row.customer # None => RestaurantOf[row.customer] = x
                       /\ row.sub # None => RestaurantOf[row.sub] = x
<1> USE BillingAssumption DEF TypeOK
<1>1. Own(rows[x]) /\ rows[x] \in BillingRow
  BY DEF OwnInv, OwnRows
<1>2. ASSUME NEW k \in Call, CallStep(k)
      PROVE  Own(rows'[x])
  <2>1. CASE SaveCustomer(k) /\ x = RestaurantOf[k]
    <3>1. rows'[x] = rows[x] \/ rows'[x] = [rows[x] EXCEPT !.customer = calls[k].customer]
      BY <2>1 DEF SaveCustomer
    <3>2. calls[k].customer # None => RestaurantOf[calls[k].customer] = x
      BY <2>1 DEF OwnInv, OwnCalls
    <3>3. QED
      BY <1>1, <3>1, <3>2 DEF BillingRow
  <2>2. CASE ~(SaveCustomer(k) /\ x = RestaurantOf[k])
    <3>1. rows'[x] = rows[x]
      BY <1>2, <2>2 DEF CallStep, CheckSetupFee, FindCustomer, CreateCustomer, SaveCustomer,
                        OpenSession
    <3>2. QED
      BY <1>1, <3>1
  <2>3. QED
    BY <2>1, <2>2
<1>3. ASSUME NEW e \in pending, SetupFeePaid(e)
      PROVE  Own(rows'[x])
  <2>1. rows'[x] = rows[x] \/ rows'[x] = [rows[x] EXCEPT !.setupPaid = TRUE]
    BY <1>3 DEF SetupFeePaid, WithSetupPaid
  <2>2. QED
    BY <1>1, <2>1 DEF BillingRow
<1>4. ASSUME NEW e \in pending, NEW y \in Restaurant, SaveSubscription(e, y)
      PROVE  Own(rows'[x])
  <2>1. rows'[x] = rows[x] \/ (x = y /\ rows'[x] = WithSubscription(rows[x], e))
    BY <1>4 DEF SaveSubscription
  <2>2. CASE x = y /\ rows'[x] = WithSubscription(rows[x], e)
    <3>1. RestaurantOf[e.of] = x
      BY <1>4, <2>2 DEF SaveSubscription, OwnInv, OwnFound
    <3>2. QED
      BY <1>1, <2>2, <3>1 DEF WithSubscription, BillingRow
  <2>3. QED
    BY <1>1, <2>1, <2>2
<1>5. CASE UNCHANGED rows
  BY <1>1, <1>5
<1>6. QED
  BY <1>2, <1>3, <1>4, <1>5
     DEF Next, WebhookStep, PaySetupFee, Subscribe, ChangeSubscription, Change, FindRow,
         IgnoreEvent, LoseDelivery, vars

\* Customers, subscriptions and events stay with their restaurant.
LEMMA OwnInvariant == Spec => []OwnInv
<1>1. Init => OwnInv
  BY BillingAssumption
     DEF Init, OwnInv, OwnRows, OwnCalls, OwnEvents, OwnSubs, OwnFound
<1>2. TypeOK /\ OwnInv /\ [Next]_vars => OwnInv'
  BY OwnRowsStep, OwnCallsStep, OwnEventsStep, OwnSubsStep, OwnFoundStep DEF OwnInv
<1>3. QED
  BY <1>1, <1>2, BillingTypeCorrect, PTL DEF Spec

\* No restaurant gets another one's customer or subscription, for any
\* restaurants, calls, errors and orders of events.
THEOREM OwnSubscriptionHolds == Spec => []OwnSubscription
<1>1. OwnInv => OwnSubscription
  BY BillingAssumption DEF OwnInv, OwnRows, OwnCalls, OwnSubscription
<1>2. QED
  BY <1>1, OwnInvariant, PTL

-----------------------------------------------------------------------------
(* The status shown is the one at Stripe                                    *)

\* The versions of a subscription count its changes; no report is newer.
Versions ==
    \A k \in Call :
        /\ subs[k].version = 0 <=> subs[k].status = "none"
        /\ subs[k].version = 1 => subs[k].status = "active"
        /\ subs[k].version > 0 => KindOf[k] = "subscription"
        /\ latest[k] <= subs[k].version

\* An event says what the subscription is at Stripe, or was before its end.
Report(e) ==
    IF e.type = "checkout.session.completed" THEN KindOf[e.of] = "setup" /\ e.version = 0
    ELSE /\ e.version \in 1..subs[e.of].version
         /\ e.version = subs[e.of].version => e.status = subs[e.of].status
         /\ e.version < subs[e.of].version => e.status # "canceled"
         /\ e.type = "customer.subscription.deleted" <=> e.status = "canceled"
Reports ==
    /\ \A e \in pending : Report(e)
    /\ \A e \in Event, x \in Restaurant : <<e, x>> \in found => e.type # "checkout.session.completed"

\* What has not been handled is still to come.
Announced ==
    \A k \in Call \ overtaken : \A v \in 1..subs[k].version :
        v > latest[k] => \E e \in pending : e.of = k /\ e.version = v

\* A customer that a row or a session has was saved, or failed to be, for good.
Past(c) == calls[c].stage \notin {"idle", "gated", "unnamed", "created"}
Customers ==
    \A c \in Call :
        /\ calls[c].stage = "created" => calls[c].customer = c
        /\ \A x \in Restaurant : rows[x].customer = c => Past(c)
        /\ \A k \in Call : calls[k].stage \in {"named", "opened", "paid"} /\ calls[k].customer = c
                              => Past(c)

\* While the events of a restaurant's only subscription are handled in order, its
\* row shows the newest one handled, and refers to the subscription until its end.
Only(k) == \A q \in Call \ {k} : RestaurantOf[q] = RestaurantOf[k] => subs[q].version = 0
InOrder(k) == latest[k] > 0 /\ ~\E e \in pending : e.of = k /\ e.version < latest[k]
Follows(k) ==
    /\ latest[k] < subs[k].version \/ subs[k].status # "canceled" => RowOf(k).sub = k
    /\ latest[k] = subs[k].version => RowOf(k).status = subs[k].status
Followed ==
    \A k \in Call \ overtaken :
        /\ dbErrors = 0
        /\ calls[k].customer = RowOf(k).customer
        /\ Only(k)
        /\ InOrder(k)
        => Follows(k)

StatusInv == Versions /\ Reports /\ Announced /\ Customers /\ Followed

\* What a change of a subscription is, and what an acknowledged event is.
Grows(k, s) == Change(k, s) /\ ((Subscribe(k) /\ s = "active") \/ ChangeSubscription(k, s))
Handled(e) ==
    /\ Acknowledge(e)
    /\ UNCHANGED <<calls, subs>>
    /\ SetupFeePaid(e) \/ IgnoreEvent(e) \/ \E x \in Restaurant : SaveSubscription(e, x)

\* The steps, by what they do to subscriptions and events.
LEMMA StatusSteps ==
    ASSUME [Next]_vars
    PROVE  \/ \E k \in Call : CallStep(k) /\ UNCHANGED <<subs, pending, found, latest, overtaken>>
           \/ \E k \in Call : PaySetupFee(k)
           \/ \E k \in Call, s \in {"active", "past_due", "canceled"} : Grows(k, s)
           \/ \E e \in pending : Handled(e)
           \/ \E e \in pending : FindRow(e)
           \/ /\ found' \subseteq found
              /\ UNCHANGED <<rows, calls, subs, pending, latest, overtaken, dbErrors>>
<1>1. ASSUME NEW k \in Call, CallStep(k)
      PROVE  UNCHANGED <<subs, pending, found, latest, overtaken>>
  BY <1>1 DEF CallStep, CheckSetupFee, FindCustomer, CreateCustomer, SaveCustomer, OpenSession,
              reportVars
<1>2. ASSUME NEW k \in Call, Subscribe(k)
      PROVE  Grows(k, "active")
  BY <1>2 DEF Subscribe, Grows
<1>3. ASSUME NEW k \in Call, NEW s \in {"active", "past_due", "canceled"}, ChangeSubscription(k, s)
      PROVE  Grows(k, s)
  BY <1>3 DEF ChangeSubscription, Grows
<1>4. ASSUME NEW e \in pending, WebhookStep(e)
      PROVE  Handled(e) \/ FindRow(e)
  BY <1>4 DEF WebhookStep, SetupFeePaid, IgnoreEvent, SaveSubscription, Handled
<1>5. ASSUME NEW e \in pending, NEW x \in Restaurant, LoseDelivery(e, x)
      PROVE  /\ found' \subseteq found
             /\ UNCHANGED <<rows, calls, subs, pending, latest, overtaken, dbErrors>>
  BY <1>5 DEF LoseDelivery, reportVars
<1>6. CASE UNCHANGED vars
  BY <1>6 DEF vars, reportVars
<1>7. QED
  BY <1>1, <1>2, <1>3, <1>4, <1>5, <1>6 DEF Next

\* A change makes the next version, of a subscription that has not ended.
LEMMA Changing ==
    ASSUME TypeOK, OwnInv, Versions, NEW k \in Call, NEW s \in {"active", "past_due", "canceled"},
           Grows(k, s)
    PROVE  /\ subs'[k] = [status |-> s, version |-> subs[k].version + 1]
           /\ \A q \in Call \ {k} : subs'[q] = subs[q]
           /\ pending' = pending \cup {Changed(k, subs'[k])}
           /\ KindOf[k] = "subscription"
           /\ subs[k].version = 0 => s = "active"
           /\ subs[k].status # "canceled"
           /\ calls'[k].customer = calls[k].customer
           /\ \A q \in Call \ {k} : calls'[q] = calls[q]
           /\ UNCHANGED <<rows, found, latest, overtaken, dbErrors>>
<1> USE DEF TypeOK
<1>1. /\ subs'[k] = [status |-> s, version |-> subs[k].version + 1]
      /\ \A q \in Call \ {k} : subs'[q] = subs[q]
      /\ pending' = pending \cup {Changed(k, subs'[k])}
      /\ UNCHANGED <<rows, found, latest, overtaken, dbErrors>>
  BY DEF Grows, Change, reportVars
<1>2. CASE Subscribe(k) /\ s = "active"
  <2>1. calls[k].stage = "opened" /\ KindOf[k] = "subscription" /\ Goto(k, "paid")
    BY <1>2 DEF Subscribe
  <2>2. subs[k].status = "none"
    BY <2>1 DEF OwnInv, OwnSubs
  <2>3. QED
    BY <1>1, <1>2, <2>1, <2>2 DEF Goto
<1>3. CASE ChangeSubscription(k, s)
  <2>1. subs[k].status \in {"active", "past_due"} /\ UNCHANGED calls
    BY <1>3 DEF ChangeSubscription
  <2>2. subs[k].version > 0
    BY <2>1 DEF Versions, Subscription
  <2>3. QED
    BY <1>1, <2>1, <2>2 DEF Versions
<1>4. QED
  BY <1>2, <1>3 DEF Grows

\* An event is acknowledged or sent again, and is the newest or overtook.
LEMMA Acknowledging ==
    ASSUME TypeOK, NEW e \in pending, Handled(e)
    PROVE  /\ pending' \subseteq pending /\ pending \subseteq pending' \cup {e}
           /\ e.of \in Call /\ e.version \in Nat
           /\ \A q \in Call \ {e.of} : latest'[q] = latest[q] /\ (q \in overtaken' <=> q \in overtaken)
           /\ e.version < latest[e.of] => e.of \in overtaken'
           /\ e.of \notin overtaken' => e.of \notin overtaken /\ latest'[e.of] = e.version
           /\ latest'[e.of] \in {latest[e.of], e.version}
           /\ UNCHANGED <<calls, subs>>
<1> USE DEF TypeOK
<1>1. e.of \in Call /\ e.version \in Nat
  BY DEF Event
<1>2. latest[e.of] \in Nat
  BY <1>1
<1>3. QED
  BY <1>1, <1>2 DEF Handled, Acknowledge


\* Changes count on, and events report versions that there are.
LEMMA VersionsStep == TypeOK /\ OwnInv /\ StatusInv /\ [Next]_vars => Versions'
<1> SUFFICES ASSUME TypeOK, OwnInv, StatusInv, [Next]_vars, NEW k \in Call
             PROVE  /\ subs'[k].version = 0 <=> subs'[k].status = "none"
                    /\ subs'[k].version = 1 => subs'[k].status = "active"
                    /\ subs'[k].version > 0 => KindOf[k] = "subscription"
                    /\ latest'[k] <= subs'[k].version
  BY DEF Versions
<1> USE DEF TypeOK
<1>0. /\ subs[k].version = 0 <=> subs[k].status = "none"
      /\ subs[k].version = 1 => subs[k].status = "active"
      /\ subs[k].version > 0 => KindOf[k] = "subscription"
      /\ latest[k] <= subs[k].version
      /\ subs[k].version \in Nat /\ latest[k] \in Nat
  BY DEF StatusInv, Versions, Subscription
<1>1. CASE UNCHANGED <<subs, latest>>
  BY <1>0, <1>1
<1>2. ASSUME NEW q \in Call, NEW s \in {"active", "past_due", "canceled"}, Grows(q, s)
      PROVE  /\ subs'[k].version = 0 <=> subs'[k].status = "none"
             /\ subs'[k].version = 1 => subs'[k].status = "active"
             /\ subs'[k].version > 0 => KindOf[k] = "subscription"
             /\ latest'[k] <= subs'[k].version
  <2>1. CASE q = k
    <3>1. /\ subs'[k] = [status |-> s, version |-> subs[k].version + 1]
          /\ KindOf[k] = "subscription"
          /\ subs[k].version = 0 => s = "active"
          /\ latest' = latest
      BY <1>2, <2>1, Changing DEF StatusInv
    <3>2. subs'[k].status = s /\ subs'[k].version = subs[k].version + 1
      BY <3>1
    <3>3. s # "none"
      OBVIOUS
    <3>4. QED
      BY <1>0, <3>1, <3>2, <3>3
  <2>2. CASE q # k
    BY <1>0, <1>2, <2>2, Changing DEF StatusInv
  <2>3. QED
    BY <2>1, <2>2
<1>3. ASSUME NEW e \in pending, Handled(e)
      PROVE  UNCHANGED subs /\ latest'[k] <= subs[k].version
  <2>1. CASE e.of = k
    <3>1. e.version <= subs[k].version
      <4>1. CASE e.type = "checkout.session.completed"
        BY <1>0, <4>1 DEF StatusInv, Reports, Report
      <4>2. CASE e.type # "checkout.session.completed"
        BY <1>0, <2>1, <4>2 DEF StatusInv, Reports, Report
      <4>3. QED
        BY <4>1, <4>2
    <3>2. QED
      BY <1>0, <1>3, <2>1, <3>1, Acknowledging
  <2>2. CASE e.of # k
    BY <1>0, <1>3, <2>2, Acknowledging
  <2>3. QED
    BY <2>1, <2>2, <1>3, Acknowledging
<1>4. QED
  BY <1>0, <1>1, <1>2, <1>3, StatusSteps DEF PaySetupFee, FindRow, reportVars


\* Reports of old versions stay what they are when a new version comes.
LEMMA ReportsStep == TypeOK /\ OwnInv /\ StatusInv /\ [Next]_vars => Reports'
<1> SUFFICES ASSUME TypeOK, OwnInv, StatusInv, [Next]_vars
             PROVE  Reports'
  OBVIOUS
<1> USE DEF TypeOK
<1>1. ASSUME NEW e \in Event, NEW x \in Restaurant, <<e, x>> \in found'
      PROVE  e.type # "checkout.session.completed"
  <2>1. CASE <<e, x>> \in found
    BY <2>1 DEF StatusInv, Reports
  <2>2. CASE <<e, x>> \notin found
    <3>1. ASSUME NEW d \in pending, FindRow(d)
          PROVE  d = e /\ e.type # "checkout.session.completed"
      BY <1>1, <2>2, <3>1 DEF FindRow
    <3>2. ASSUME NEW d \in pending, Handled(d)
          PROVE  found' \subseteq found
      BY <3>2 DEF Handled, SetupFeePaid, IgnoreEvent, SaveSubscription
    <3>3. QED
      BY <1>1, <2>2, <3>1, <3>2, StatusSteps DEF PaySetupFee, Grows, Change
  <2>3. QED
    BY <2>1, <2>2
<1>2. ASSUME NEW e \in pending, UNCHANGED subs
      PROVE  Report(e)'
  <2>1. Report(e)
    BY DEF StatusInv, Reports
  <2>2. QED
    BY <1>2, <2>1 DEF Report
<1>3. ASSUME NEW k \in Call, PaySetupFee(k), NEW e \in pending'
      PROVE  Report(e)'
  <2>1. CASE e \in pending
    BY <1>2, <1>3, <2>1 DEF PaySetupFee
  <2>2. CASE e = Completed(k)
    BY <1>3, <2>2 DEF PaySetupFee, Completed, Report
  <2>3. QED
    BY <1>3, <2>1, <2>2 DEF PaySetupFee
<1>4. ASSUME NEW k \in Call, NEW s \in {"active", "past_due", "canceled"}, Grows(k, s),
             NEW e \in pending'
      PROVE  Report(e)'
  <2>1. /\ subs'[k] = [status |-> s, version |-> subs[k].version + 1]
        /\ \A q \in Call \ {k} : subs'[q] = subs[q]
        /\ pending' = pending \cup {Changed(k, subs'[k])}
        /\ subs[k].status # "canceled"
        /\ subs[k].version \in Nat
    BY <1>4, Changing DEF StatusInv, Subscription
  <2>2. subs'[k].status = s /\ subs'[k].version = subs[k].version + 1
    BY <2>1
  <2>3. CASE e \in pending
    <3>1. Report(e) /\ e \in Event
      BY <2>3 DEF StatusInv, Reports
    <3>2. CASE e.of = k
      BY <2>1, <2>2, <3>1, <3>2 DEF Report, Event
    <3>3. CASE e.of # k
      BY <2>1, <3>1, <3>3 DEF Report, Event
    <3>4. QED
      BY <3>2, <3>3
  <2>4. CASE e = Changed(k, subs'[k])
    <3>1. e.of = k /\ e.status = s /\ e.version = subs[k].version + 1
      BY <2>2, <2>4 DEF Changed
    <3>2. e.type = IF s = "canceled" THEN "customer.subscription.deleted"
                   ELSE "customer.subscription.updated"
      BY <2>2, <2>4 DEF Changed
    <3>3. QED
      BY <2>1, <2>2, <3>1, <3>2 DEF Report
  <2>5. QED
    BY <2>1, <2>3, <2>4
<1>5. ASSUME NEW e \in pending' PROVE Report(e)'
  <2>1. ASSUME NEW d \in pending, Handled(d)
        PROVE  UNCHANGED subs /\ e \in pending
    BY <2>1, Acknowledging DEF Handled
  <2>2. QED
    BY <1>2, <1>3, <1>4, <2>1, StatusSteps DEF FindRow
<1>6. QED
  BY <1>1, <1>5 DEF Reports

\* A new version comes with its event, and an event that is gone was handled.
LEMMA AnnouncedStep == TypeOK /\ OwnInv /\ StatusInv /\ [Next]_vars => Announced'
<1> SUFFICES ASSUME TypeOK, OwnInv, StatusInv, [Next]_vars,
                    NEW k \in Call, k \notin overtaken',
                    NEW v \in 1..subs'[k].version, v > latest'[k]
             PROVE  \E e \in pending' : e.of = k /\ e.version = v
  BY DEF Announced
<1> USE DEF TypeOK
<1>1. ASSUME k \notin overtaken, v <= subs[k].version, v > latest[k], pending \subseteq pending'
      PROVE  \E e \in pending' : e.of = k /\ e.version = v
  BY <1>1 DEF StatusInv, Announced, Subscription
<1>2. ASSUME NEW q \in Call, NEW s \in {"active", "past_due", "canceled"}, Grows(q, s)
      PROVE  \E e \in pending' : e.of = k /\ e.version = v
  <2>1. UNCHANGED <<latest, overtaken>> /\ pending \subseteq pending'
    BY <1>2, Changing DEF StatusInv
  <2>2. CASE v <= subs[k].version
    BY <1>1, <2>1, <2>2
  <2>3. CASE ~(v <= subs[k].version)
    <3>1. q = k /\ v = subs'[k].version
      <4>1. v \in Nat /\ v <= subs'[k].version /\ subs[k].version \in Nat
        BY <1>2, Changing DEF StatusInv, Subscription
      <4>2. q = k
        BY <1>2, <2>3, <4>1, Changing DEF StatusInv
      <4>3. subs'[k] = [status |-> s, version |-> subs[k].version + 1]
        BY <1>2, <4>2, Changing DEF StatusInv
      <4>4. subs'[k].version = subs[k].version + 1
        BY <4>3
      <4>5. QED
        BY <2>3, <4>1, <4>2, <4>4
    <3>2. Changed(k, subs'[k]) \in pending'
      BY <1>2, <3>1, Changing DEF StatusInv
    <3>3. Changed(k, subs'[k]).of = k /\ Changed(k, subs'[k]).version = v
      BY <3>1 DEF Changed
    <3>4. QED
      BY <3>2, <3>3
  <2>4. QED
    BY <2>2, <2>3
<1>3. ASSUME NEW d \in pending, Handled(d)
      PROVE  \E e \in pending' : e.of = k /\ e.version = v
  <2>1. subs' = subs /\ k \notin overtaken
    BY <1>3, Acknowledging
  <2>2. v > latest[k] /\ (d.of = k => v > d.version)
    BY <1>3, Acknowledging DEF Event
  <2>3. PICK e \in pending : e.of = k /\ e.version = v
    BY <2>1, <2>2 DEF StatusInv, Announced
  <2>4. e # d
    BY <1>3, <2>2, <2>3, Acknowledging
  <2>5. QED
    BY <1>3, <2>3, <2>4, Acknowledging
<1>4. QED
  BY <1>1, <1>2, <1>3, StatusSteps DEF PaySetupFee, FindRow, reportVars


\* A call does not return to a stage before the customer is saved.
LEMMA PastStays ==
    ASSUME TypeOK, [Next]_vars, NEW c \in Call, Past(c)
    PROVE  Past(c)'
<1> USE DEF TypeOK, Past
<1>1. ASSUME NEW q \in Call, CallStep(q) \/ PaySetupFee(q) \/ Subscribe(q)
      PROVE  Past(c)'
  <2>1. CASE q = c
    BY <1>1, <2>1
       DEF CallStep, CheckSetupFee, FindCustomer, CreateCustomer, SaveCustomer, OpenSession,
           PaySetupFee, Subscribe, Goto, Refuse
  <2>2. CASE q # c
    BY <1>1, <2>2
       DEF CallStep, CheckSetupFee, FindCustomer, CreateCustomer, SaveCustomer, OpenSession,
           PaySetupFee, Subscribe, Goto, Refuse
  <2>3. QED
    BY <2>1, <2>2
<1>2. ASSUME NEW q \in Call, NEW s \in {"active", "past_due", "canceled"}, ChangeSubscription(q, s)
      PROVE  UNCHANGED calls
  BY <1>2 DEF ChangeSubscription
<1>3. ASSUME NEW e \in pending, WebhookStep(e) \/ \E x \in Restaurant : LoseDelivery(e, x)
      PROVE  UNCHANGED calls
  BY <1>3 DEF WebhookStep, SetupFeePaid, FindRow, IgnoreEvent, SaveSubscription, LoseDelivery
<1>4. QED
  BY <1>1, <1>2, <1>3 DEF Next, vars

\* The customer of a row changes by SaveCustomer alone.
LEMMA CustomerSaved ==
    ASSUME TypeOK, [Next]_vars, NEW x \in Restaurant, rows'[x].customer # rows[x].customer
    PROVE  \E k \in Call : /\ SaveCustomer(k) /\ RestaurantOf[k] = x
                           /\ rows'[x].customer = calls[k].customer
<1> USE BillingAssumption DEF TypeOK
<1>1. rows[x] \in BillingRow
  OBVIOUS
<1>2. ASSUME NEW k \in Call, CallStep(k)
      PROVE  SaveCustomer(k) /\ RestaurantOf[k] = x /\ rows'[x].customer = calls[k].customer
  <2>1. SaveCustomer(k)
    BY <1>2 DEF CallStep, CheckSetupFee, FindCustomer, CreateCustomer, OpenSession
  <2>2. rows' = [rows EXCEPT ![RestaurantOf[k]].customer = calls[k].customer]
    BY <2>1 DEF SaveCustomer
  <2>3. QED
    BY <1>1, <2>1, <2>2 DEF BillingRow
<1>3. ASSUME NEW e \in pending, Handled(e)
      PROVE  FALSE
  <2>1. CASE SetupFeePaid(e)
    BY <1>1, <2>1 DEF SetupFeePaid, WithSetupPaid, BillingRow
  <2>2. ASSUME NEW y \in Restaurant, SaveSubscription(e, y)
        PROVE  FALSE
    <3>1. rows'[x] = rows[x] \/ rows'[x] = WithSubscription(rows[x], e)
      BY <2>2 DEF SaveSubscription
    <3>2. QED
      BY <1>1, <3>1 DEF WithSubscription, BillingRow
  <2>3. QED
    BY <1>3, <2>1, <2>2 DEF Handled, IgnoreEvent
<1>4. QED
  BY <1>2, <1>3, StatusSteps DEF PaySetupFee, Grows, Change, FindRow

\* Calls take customers that were saved, or their own.
LEMMA CustomersStep == TypeOK /\ OwnInv /\ StatusInv /\ [Next]_vars => Customers'
<1> SUFFICES ASSUME TypeOK, OwnInv, StatusInv, [Next]_vars
             PROVE  Customers'
  OBVIOUS
<1> USE BillingAssumption DEF TypeOK
<1>1. ASSUME NEW k \in Call, SaveCustomer(k)
      PROVE  calls[k].customer = k /\ calls'[k].customer = k /\ Past(k)'
  BY <1>1 DEF SaveCustomer, Goto, Past, StatusInv, Customers
<1>2. ASSUME NEW x \in Restaurant, NEW c \in Call, c = rows'[x].customer
      PROVE  Past(c)'
  <2>1. CASE rows[x].customer = c
    BY <2>1, PastStays DEF StatusInv, Customers
  <2>2. CASE rows[x].customer # c
    BY <1>1, <1>2, <2>2, CustomerSaved
  <2>3. QED
    BY <2>1, <2>2
<1>3. ASSUME NEW k \in Call, NEW c \in Call,
             calls[k].stage \in {"named", "opened", "paid"}, calls[k].customer = c
      PROVE  Past(c)'
  BY <1>3, PastStays DEF StatusInv, Customers
<1>4. ASSUME NEW k \in Call, NEW c \in Call,
             \/ calls'[k].stage = "created" /\ c = k
             \/ calls'[k].stage \in {"named", "opened", "paid"} /\ calls'[k].customer = c
      PROVE  IF calls'[k].stage = "created" THEN calls'[k].customer = k ELSE Past(c)'
  <2>1. CASE calls'[k] = calls[k]
    BY <1>3, <1>4, <2>1 DEF StatusInv, Customers
  <2>2. CASE calls'[k] # calls[k]
    <3>1. ~CheckSetupFee(k)
      BY <1>4 DEF CheckSetupFee, Goto
    <3>2. CASE FindCustomer(k)
      <4>1. /\ RowOf(k).customer = c
            /\ calls'[k].stage = "named"
        BY <1>4, <3>2 DEF FindCustomer, Goto
      <4>2. Past(c)
        BY <4>1 DEF RowOf, StatusInv, Customers
      <4>3. QED
        BY <4>1, <4>2, PastStays
    <3>3. CASE CreateCustomer(k)
      BY <1>4, <3>3 DEF CreateCustomer, NewCustomer, Refuse
    <3>4. CASE SaveCustomer(k)
      <4>1. calls'[k].customer = k /\ Past(k)'
        BY <1>1, <3>4
      <4>2. calls'[k].stage = "named"
        BY <3>4 DEF SaveCustomer, Goto
      <4>3. QED
        BY <1>4, <4>1, <4>2
    <3>5. CASE OpenSession(k) \/ PaySetupFee(k) \/ Subscribe(k)
      <4>1. /\ calls'[k].stage \in {"opened", "paid"}
            /\ calls[k].stage \in {"named", "opened"}
            /\ calls'[k].customer = calls[k].customer
        BY <1>4, <3>5 DEF OpenSession, PaySetupFee, Subscribe, Goto, Refuse
      <4>2. QED
        BY <1>3, <1>4, <4>1
    <3>6. ASSUME NEW q \in Call \ {k}, CallStep(q) \/ PaySetupFee(q) \/ Subscribe(q)
          PROVE  FALSE
      BY <2>2, <3>6
         DEF CallStep, CheckSetupFee, FindCustomer, CreateCustomer, SaveCustomer, OpenSession,
             PaySetupFee, Subscribe, Goto, Refuse
    <3>7. ASSUME NEW q \in Call, NEW s \in {"active", "past_due", "canceled"},
                 ChangeSubscription(q, s)
          PROVE  FALSE
      BY <2>2, <3>7 DEF ChangeSubscription
    <3>8. ASSUME NEW e \in pending, WebhookStep(e) \/ \E x \in Restaurant : LoseDelivery(e, x)
          PROVE  FALSE
      BY <2>2, <3>8 DEF WebhookStep, SetupFeePaid, FindRow, IgnoreEvent, SaveSubscription,
                        LoseDelivery
    <3>9. QED
      BY <2>2, <3>1, <3>2, <3>3, <3>4, <3>5, <3>6, <3>7, <3>8 DEF Next, CallStep, vars
  <2>3. QED
    BY <2>1, <2>2
<1>5. QED
  <2>1. ASSUME NEW c \in Call, calls'[c].stage = "created"
        PROVE  calls'[c].customer = c
    BY <1>4, <2>1
  <2>2. ASSUME NEW c \in Call, NEW k \in Call,
               calls'[k].stage \in {"named", "opened", "paid"}, calls'[k].customer = c
        PROVE  Past(c)'
    BY <1>4, <2>2
  <2>3. QED
    BY <1>2, <2>1, <2>2 DEF Customers


\* A row does not come back to a customer that it once had.
LEMMA HeldBefore ==
    ASSUME TypeOK, StatusInv, [Next]_vars, NEW k \in Call, calls[k].stage = "paid",
           calls'[k].customer = RowOf(k)'.customer
    PROVE  calls[k].customer = RowOf(k).customer
<1> USE BillingAssumption DEF TypeOK, RowOf
<1>1. calls'[k] = calls[k]
  BY PaidStays
<1>2. ASSUME rows'[RestaurantOf[k]].customer # rows[RestaurantOf[k]].customer
      PROVE  FALSE
  <2>1. PICK q \in Call : SaveCustomer(q) /\ rows'[RestaurantOf[k]].customer = calls[q].customer
    BY <1>2, CustomerSaved
  <2>2. calls[q].stage = "created"
    BY <2>1 DEF SaveCustomer
  <2>3. calls[k].customer = q
    BY <1>1, <2>1, <2>2 DEF StatusInv, Customers
  <2>4. QED
    BY <2>2, <2>3 DEF StatusInv, Customers, Past
<1>3. QED
  BY <1>1, <1>2

\* A row shows another subscription only by a webhook that found it.
LEMMA ShownKept ==
    ASSUME TypeOK, [Next]_vars, NEW x \in Restaurant,
           ~\E e \in pending : Handled(e) /\ SaveSubscription(e, x)
    PROVE  rows'[x].status = rows[x].status /\ rows'[x].sub = rows[x].sub
<1> USE BillingAssumption DEF TypeOK
<1>1. rows[x] \in BillingRow
  OBVIOUS
<1>2. ASSUME NEW k \in Call, CallStep(k)
      PROVE  rows'[x].status = rows[x].status /\ rows'[x].sub = rows[x].sub
  <2>1. CASE SaveCustomer(k)
    <3>1. \/ rows' = rows
          \/ rows' = [rows EXCEPT ![RestaurantOf[k]].customer = calls[k].customer]
      BY <2>1 DEF SaveCustomer
    <3>2. QED
      BY <1>1, <3>1 DEF BillingRow
  <2>2. QED
    BY <1>2, <2>1 DEF CallStep, CheckSetupFee, FindCustomer, CreateCustomer, OpenSession
<1>3. ASSUME NEW e \in pending, Handled(e)
      PROVE  rows'[x].status = rows[x].status /\ rows'[x].sub = rows[x].sub
  <2>1. CASE SetupFeePaid(e)
    BY <1>1, <2>1 DEF SetupFeePaid, WithSetupPaid, BillingRow
  <2>2. ASSUME NEW y \in Restaurant, SaveSubscription(e, y)
        PROVE  rows'[x] = rows[x]
    BY <1>3, <2>2 DEF SaveSubscription
  <2>3. QED
    BY <1>3, <2>1, <2>2 DEF Handled, IgnoreEvent
<1>4. QED
  BY <1>2, <1>3, StatusSteps DEF PaySetupFee, Grows, Change, FindRow

\* While the database answers, it has not failed before.
LEMMA ErrorsCount == TypeOK /\ [Next]_vars /\ dbErrors' = 0 => dbErrors = 0
<1> SUFFICES ASSUME TypeOK, [Next]_vars, dbErrors' = 0 PROVE dbErrors = 0
  OBVIOUS
<1>1. dbErrors \in Nat
  BY DEF TypeOK
<1>2. dbErrors' \in {dbErrors, dbErrors + 1}
  BY DEF Next, CallStep, CheckSetupFee, FindCustomer, CreateCustomer, SaveCustomer, OpenSession,
         PaySetupFee, Subscribe, ChangeSubscription, Change, WebhookStep, SetupFeePaid, FindRow,
         IgnoreEvent, SaveSubscription, LoseDelivery, DBError, NoDBError, vars
<1>3. QED
  BY <1>1, <1>2

\* The next event of a subscription is stored, and after the last one its end.
LEMMA FollowedHandled ==
    ASSUME TypeOK, OwnInv, StatusInv, [Next]_vars, NEW e \in pending, Handled(e),
           NEW k \in Call, k = e.of, k \notin overtaken', dbErrors' = 0,
           calls[k].customer = RowOf(k).customer, Only(k), InOrder(k)'
    PROVE  Follows(k)'
<1> USE BillingAssumption DEF TypeOK
<1> DEFINE x == RestaurantOf[k]
           v == e.version
<1>0. /\ x \in Restaurant /\ rows[x] \in BillingRow /\ e \in Event
      /\ v \in Nat /\ subs[k].version \in Nat /\ latest[k] \in Nat
      /\ UNCHANGED <<calls, subs>>
      /\ latest'[k] = v /\ k \notin overtaken /\ ~(v < latest[k])
  BY Acknowledging DEF Subscription
<1>1. e.type # "checkout.session.completed"
  <2>1. v > 0
    BY <1>0 DEF InOrder
  <2>2. QED
    BY <1>0, <2>1 DEF StatusInv, Reports, Report
<1>2. /\ v \in 1..subs[k].version
      /\ v = subs[k].version => e.status = subs[k].status
      /\ v < subs[k].version => e.status # "canceled"
      /\ e.type = "customer.subscription.deleted" <=> e.status = "canceled"
  BY <1>1 DEF StatusInv, Reports, Report
<1>3. ~\E d \in pending : d.of = k /\ d.version < v
  <2>1. ASSUME NEW d \in pending, d.of = k, d.version < v
        PROVE  FALSE
    <3>1. d # e /\ d \in pending'
      BY <1>0, <2>1, Acknowledging
    <3>2. QED
      BY <1>0, <2>1, <3>1 DEF InOrder
  <2>2. QED
    BY <2>1
<1>4. latest[k] = v \/ latest[k] + 1 = v
  <2>1. ASSUME latest[k] + 1 < v
        PROVE  FALSE
    <3>1. v - 1 \in 1..subs[k].version /\ v - 1 > latest[k] /\ v - 1 < v
      BY <1>0, <1>2, <2>1
    <3>2. \E d \in pending : d.of = k /\ d.version = v - 1
      BY <1>0, <3>1 DEF StatusInv, Announced
    <3>3. QED
      BY <1>3, <3>1, <3>2
  <2>2. QED
    BY <1>0, <2>1
<1>5. latest[k] > 0 => Follows(k)
  <2>1. ASSUME latest[k] > 0
        PROVE  InOrder(k)
    <3>1. ~\E d \in pending : d.of = k /\ d.version < latest[k]
      BY <1>0, <1>3, <1>4 DEF Event
    <3>2. QED
      BY <2>1, <3>1 DEF InOrder
  <2>2. QED
    BY <1>0, <2>1, ErrorsCount DEF StatusInv, Followed
<1>6. CASE IgnoreEvent(e)
  <2>1. Matches(e) = {} /\ UNCHANGED rows
    <3>1. ~DBError
      BY ErrorsCount DEF DBError
    <3>2. QED
      BY <1>6, <3>1 DEF IgnoreEvent
  <2>2. e.type = "customer.subscription.deleted" /\ rows[x].sub # k
    BY <1>0, <2>1 DEF Matches, RowOf
  <2>3. v = subs[k].version /\ subs[k].status = "canceled"
    BY <1>0, <1>2, <2>2
  <2>4. latest[k] > 0
    <3>1. ASSUME latest[k] = 0
          PROVE  FALSE
      <4>1. subs[k].version = 1
        BY <1>0, <1>2, <1>4, <2>3, <3>1
      <4>2. QED
        BY <2>3, <4>1 DEF StatusInv, Versions
    <3>2. QED
      BY <1>0, <3>1
  <2>5. latest[k] = v
    BY <1>0, <1>4, <1>5, <2>2, <2>3, <2>4 DEF Follows, RowOf
  <2>6. rows[x].status = "canceled"
    BY <1>5, <2>3, <2>4, <2>5 DEF Follows, RowOf
  <2>7. QED
    BY <1>0, <2>1, <2>3, <2>6 DEF Follows, RowOf
<1>7. ASSUME NEW y \in Restaurant, SaveSubscription(e, y)
      PROVE  Follows(k)'
  <2>1. y = x
    BY <1>0, <1>7 DEF SaveSubscription, OwnInv, OwnFound
  <2>2. rows'[x] = WithSubscription(rows[x], e)
    <3>1. ~DBError
      BY ErrorsCount DEF DBError
    <3>2. QED
      BY <1>0, <1>7, <2>1, <3>1 DEF SaveSubscription
  <2>3. CASE e.type = "customer.subscription.deleted"
    <3>1. v = subs[k].version /\ subs[k].status = "canceled"
      BY <1>0, <1>2, <2>3
    <3>2. rows'[x].status = "canceled"
      BY <1>0, <2>2, <2>3 DEF WithSubscription, BillingRow
    <3>3. QED
      BY <1>0, <3>1, <3>2 DEF Follows, RowOf
  <2>4. CASE e.type # "customer.subscription.deleted"
    <3>1. rows'[x].status = e.status /\ rows'[x].sub = k
      BY <1>0, <2>2, <2>4 DEF WithSubscription, BillingRow
    <3>2. QED
      BY <1>0, <1>2, <3>1 DEF Follows, RowOf
  <2>5. QED
    BY <2>3, <2>4
<1>8. ~SetupFeePaid(e)
  BY <1>1 DEF SetupFeePaid
<1>9. QED
  BY <1>6, <1>7, <1>8 DEF Handled


\* So rows follow their subscriptions, and other events leave them alone.
LEMMA FollowedStep == TypeOK /\ OwnInv /\ StatusInv /\ [Next]_vars => Followed'
<1> SUFFICES ASSUME TypeOK, OwnInv, StatusInv, [Next]_vars,
                    NEW k \in Call, k \notin overtaken', dbErrors' = 0,
                    calls'[k].customer = RowOf(k)'.customer, Only(k)', InOrder(k)'
             PROVE  Follows(k)'
  BY DEF Followed
<1> USE BillingAssumption DEF TypeOK
<1> DEFINE x == RestaurantOf[k]
<1>0. /\ x \in Restaurant /\ rows[x] \in BillingRow
      /\ subs[k].version \in Nat /\ latest[k] \in Nat /\ dbErrors = 0
  BY ErrorsCount DEF Subscription
<1>1. calls[k].stage = "paid" \/ subs[k].version = 0
  BY DEF OwnInv, OwnSubs, StatusInv, Versions
<1>2. ASSUME subs[k].version > 0
      PROVE  calls[k].customer = RowOf(k).customer
  BY <1>0, <1>1, <1>2, HeldBefore
<1>3. ASSUME UNCHANGED <<latest, overtaken>>, pending \subseteq pending'
      PROVE  InOrder(k) /\ k \notin overtaken /\ subs[k].version > 0
  <2>1. latest'[k] = latest[k] /\ k \notin overtaken
    BY <1>3
  <2>2. InOrder(k)
    BY <1>3, <2>1 DEF InOrder
  <2>3. latest[k] <= subs[k].version
    BY DEF StatusInv, Versions
  <2>4. QED
    BY <1>0, <2>1, <2>2, <2>3 DEF InOrder
<1>4. ASSUME UNCHANGED <<subs, latest, overtaken>>, pending \subseteq pending',
             ~\E e \in pending : Handled(e)
      PROVE  Follows(k)'
  <2>1. Only(k)
    BY <1>4 DEF Only
  <2>2. Follows(k)
    BY <1>0, <1>2, <1>3, <1>4, <2>1 DEF StatusInv, Followed
  <2>3. rows'[x].status = rows[x].status /\ rows'[x].sub = rows[x].sub
    BY <1>0, <1>4, ShownKept
  <2>4. QED
    BY <1>4, <2>2, <2>3 DEF Follows, RowOf
<1>5. ASSUME NEW q \in Call, NEW s \in {"active", "past_due", "canceled"}, Grows(q, s)
      PROVE  Follows(k)'
  <2>1. /\ UNCHANGED <<rows, latest, overtaken>> /\ pending \subseteq pending'
        /\ \A c \in Call \ {q} : subs'[c] = subs[c]
        /\ subs'[q].version = subs[q].version + 1
        /\ subs[q].status # "canceled" /\ subs[q].version \in Nat
    <3>1. Versions
      BY DEF StatusInv
    <3>2. /\ subs'[q] = [status |-> s, version |-> subs[q].version + 1]
          /\ UNCHANGED <<rows, latest, overtaken>>
          /\ pending' = pending \cup {Changed(q, subs'[q])}
          /\ \A c \in Call \ {q} : subs'[c] = subs[c]
          /\ subs[q].status # "canceled"
      BY ONLY TypeOK, OwnInv, <1>5, <3>1, Changing
    <3>3. subs[q].version \in Nat
      BY DEF Subscription
    <3>4. subs'[q].version = subs[q].version + 1
      BY <3>2
    <3>5. QED
      BY <3>2, <3>3, <3>4
  <2>2. Only(k)
    BY <2>1 DEF Only
  <2>3. Follows(k)
    BY <1>0, <1>2, <1>3, <2>1, <2>2 DEF StatusInv, Followed
  <2>4. CASE q = k
    <3>1. latest[k] <= subs[k].version
      BY DEF StatusInv, Versions
    <3>2. rows[x].sub = k
      BY <1>0, <2>1, <2>3, <2>4, <3>1 DEF Follows, RowOf
    <3>3. latest'[k] # subs'[k].version
      BY <1>0, <2>1, <2>4, <3>1
    <3>4. QED
      BY <2>1, <3>2, <3>3 DEF Follows, RowOf
  <2>5. CASE q # k
    BY <2>1, <2>3, <2>5 DEF Follows, RowOf
  <2>6. QED
    BY <2>4, <2>5
<1>6. ASSUME NEW e \in pending, Handled(e)
      PROVE  Follows(k)'
  <2>1. Only(k)
    BY <1>6 DEF Only, Handled
  <2>2. ASSUME NEW d \in pending, Handled(d), d.of = k
        PROVE  Follows(k)'
    <3>1. subs[k].version > 0
      <4>1. latest'[k] > 0 /\ latest'[k] <= subs'[k].version /\ subs' = subs
        BY <2>2, VersionsStep DEF InOrder, Versions, Handled
      <4>2. latest'[k] \in Nat
        BY TypeStep
      <4>3. QED
        BY <1>0, <4>1, <4>2
    <3>2. QED
      BY <1>2, <2>1, <2>2, <3>1, FollowedHandled
  <2>3. CASE ~\E d \in pending : Handled(d) /\ d.of = k
    <3>1. /\ latest'[k] = latest[k] /\ k \notin overtaken
          /\ UNCHANGED <<calls, subs>> /\ pending \subseteq pending' \cup {e}
          /\ e.of # k
      BY <1>6, <2>3, Acknowledging
    <3>2. InOrder(k) /\ subs[k].version > 0
      BY <1>0, <3>1 DEF InOrder, StatusInv, Versions
    <3>3. Follows(k)
      BY <1>0, <1>2, <2>1, <3>1, <3>2 DEF StatusInv, Followed
    <3>4. ASSUME NEW d \in pending, Handled(d), SaveSubscription(d, x)
          PROVE  FALSE
      <4>1. d.of \in Call /\ d.of # k /\ d \in Event /\ <<d, x>> \in found
        BY <2>3, <3>4, Acknowledging DEF SaveSubscription
      <4>2. RestaurantOf[d.of] = x /\ d.type # "checkout.session.completed"
        BY <1>0, <4>1 DEF OwnInv, OwnFound, StatusInv, Reports
      <4>3. subs[d.of].version # 0
        BY <4>1, <4>2 DEF StatusInv, Reports, Report, Subscription
      <4>4. QED
        BY <2>1, <4>1, <4>2, <4>3 DEF Only
    <3>5. rows'[x].status = rows[x].status /\ rows'[x].sub = rows[x].sub
      BY <1>0, <3>4, ShownKept
    <3>6. QED
      BY <3>1, <3>3, <3>5 DEF Follows, RowOf
  <2>4. QED
    BY <2>2, <2>3
<1>7. QED
  BY <1>4, <1>5, <1>6, StatusSteps DEF PaySetupFee, FindRow, reportVars

\* Events report what has been, nothing that is not handled is gone, and rows
\* follow what is handled in order.
LEMMA StatusInvariant == Spec => []StatusInv
<1>1. Init => StatusInv
  <2> SUFFICES ASSUME Init PROVE StatusInv
    OBVIOUS
  <2>1. Versions /\ Reports /\ Announced
    BY DEF Init, Versions, Reports, Announced
  <2>2. Customers
    BY BillingAssumption DEF Init, Customers
  <2>3. Followed
    BY DEF Init, Followed, InOrder
  <2>4. QED
    BY <2>1, <2>2, <2>3 DEF StatusInv
<1>2. TypeOK /\ OwnInv /\ StatusInv /\ [Next]_vars => StatusInv'
  BY VersionsStep, ReportsStep, AnnouncedStep, CustomersStep, FollowedStep DEF StatusInv
<1>3. QED
  BY <1>1, <1>2, OwnInvariant, BillingTypeCorrect, PTL DEF Spec

\* When all events of a restaurant's only subscription have been handled, in an
\* order that no event overtook, its row shows the status at Stripe, whether or
\* not deliveries were repeated (HandleWebhook): for any restaurants and calls.
THEOREM StatusShownHolds == Spec => []StatusShown
<1>1. TypeOK /\ StatusInv => StatusShown
  <2> SUFFICES ASSUME TypeOK, StatusInv, NEW k \in Call, k \notin overtaken,
                      subs[k].version > 0, dbErrors = 0,
                      calls[k].customer = RowOf(k).customer, Only(k),
                      ~\E e \in pending : e.of = k
               PROVE  RowOf(k).status = subs[k].status
    BY DEF StatusShown, Only
  <2>1. subs[k].version \in Nat /\ latest[k] \in Nat /\ latest[k] <= subs[k].version
    BY DEF TypeOK, Subscription, StatusInv, Versions
  <2>2. latest[k] = subs[k].version
    <3>1. CASE latest[k] < subs[k].version
      <4>1. subs[k].version \in 1..subs[k].version
        BY <2>1
      <4>2. QED
        BY <3>1, <4>1 DEF StatusInv, Announced
    <3>2. QED
      BY <2>1, <3>1
  <2>3. InOrder(k)
    BY <2>1, <2>2 DEF InOrder
  <2>4. QED
    BY <2>2, <2>3 DEF StatusInv, Followed, Follows
<1>2. QED
  BY <1>1, BillingTypeCorrect, StatusInvariant, PTL

-----------------------------------------------------------------------------
(* Billing implements the promise to restaurants                            *)

\* Who is past the check has its fee noted, and what is announced of a
\* subscription is a status that subscriptions have.
GatedNoted ==
    \A k \in Call :
        /\ KindOf[k] = "subscription"
        /\ calls[k].stage \in {"gated", "unnamed", "created", "named", "opened", "paid"}
        => RowOf(k).setupPaid
Announces ==
    \A e \in pending : e.type = "checkout.session.completed" \/ e.status # "none"

PromiseInv == GatedNoted /\ Announces

\* A handler writes no more of a row than its customer.
LEMMA CallKeepsRows ==
    ASSUME TypeOK, NEW k \in Call, CallStep(k), NEW x \in Restaurant
    PROVE  rows'[x].setupPaid = rows[x].setupPaid /\ rows'[x].status = rows[x].status
<1> USE BillingAssumption DEF TypeOK
<1>1. CASE SaveCustomer(k)
  BY <1>1 DEF SaveCustomer, BillingRow
<1>2. CASE ~SaveCustomer(k)
  BY <1>2 DEF CallStep, CheckSetupFee, FindCustomer, CreateCustomer, OpenSession
<1>3. QED
  BY <1>1, <1>2

\* What a step does to the fee and the status of a row.
LEMMA RowWrites ==
    ASSUME TypeOK, [Next]_vars, NEW x \in Restaurant
    PROVE  \/ rows'[x].setupPaid = rows[x].setupPaid /\ rows'[x].status = rows[x].status
           \/ \E e \in pending : /\ SetupFeePaid(e) /\ x = RestaurantOf[e.of]
                                 /\ rows' = [rows EXCEPT ![x] = WithSetupPaid(x)]
           \/ \E e \in pending : /\ SaveSubscription(e, x)
                                 /\ rows' = [rows EXCEPT ![x] = WithSubscription(@, e)]
<1> USE BillingAssumption DEF TypeOK
<1>1. ASSUME NEW k \in Call, CallStep(k)
      PROVE  rows'[x].setupPaid = rows[x].setupPaid /\ rows'[x].status = rows[x].status
  BY <1>1, CallKeepsRows
<1>2. ASSUME NEW e \in pending, SetupFeePaid(e)
      PROVE  \/ rows'[x] = rows[x]
             \/ /\ x = RestaurantOf[e.of]
                /\ rows' = [rows EXCEPT ![x] = WithSetupPaid(x)]
  BY <1>2 DEF SetupFeePaid
<1>3. ASSUME NEW e \in pending, NEW y \in Restaurant, SaveSubscription(e, y)
      PROVE  \/ rows'[x] = rows[x]
             \/ x = y /\ rows' = [rows EXCEPT ![x] = WithSubscription(@, e)]
  BY <1>3 DEF SaveSubscription
<1>4. CASE UNCHANGED rows
  BY <1>4
<1>5. QED
  BY <1>1, <1>2, <1>3, <1>4
     DEF Next, WebhookStep, PaySetupFee, Subscribe, ChangeSubscription, Change, FindRow,
         IgnoreEvent, LoseDelivery, vars

\* A fee that is noted stays noted.
LEMMA NotedStays ==
    ASSUME TypeOK, [Next]_vars, NEW x \in Restaurant, rows[x].setupPaid
    PROVE  rows'[x].setupPaid
<1> USE DEF TypeOK
<1>1. rows[x] \in BillingRow /\ WithSetupPaid(x).setupPaid
  BY DEF WithSetupPaid, BillingRow
<1>2. \A e : WithSubscription(rows[x], e).setupPaid
  BY <1>1 DEF WithSubscription, BillingRow
<1>3. QED
  BY <1>1, <1>2, RowWrites

\* A call passes the check when it reads that the fee is noted.
LEMMA GatedNotedStep == TypeOK /\ GatedNoted /\ [Next]_vars => GatedNoted'
<1> DEFINE Passed == {"gated", "unnamed", "created", "named", "opened", "paid"}
<1> SUFFICES ASSUME TypeOK, GatedNoted, [Next]_vars, NEW k \in Call,
                    KindOf[k] = "subscription", calls'[k].stage \in Passed
             PROVE  rows'[RestaurantOf[k]].setupPaid
  BY DEF GatedNoted, RowOf
<1> USE BillingAssumption DEF TypeOK
<1> SUFFICES rows[RestaurantOf[k]].setupPaid
  BY NotedStays
<1>1. CASE calls[k].stage \in Passed
  BY <1>1 DEF GatedNoted, RowOf
<1>2. CASE calls[k].stage \notin Passed
  <2>1. ASSUME NEW q \in Call, CallStep(q) \/ PaySetupFee(q) \/ Subscribe(q)
        PROVE  rows[RestaurantOf[k]].setupPaid
    <3>1. CASE q # k
      BY <1>2, <2>1, <3>1
         DEF CallStep, CheckSetupFee, FindCustomer, CreateCustomer, SaveCustomer, OpenSession,
             PaySetupFee, Subscribe, Goto, Refuse
    <3>2. CASE q = k /\ CheckSetupFee(k)
      BY <1>2, <3>2 DEF CheckSetupFee, Goto, RowOf
    <3>3. CASE q = k /\ ~CheckSetupFee(k)
      BY <1>2, <2>1, <3>3
         DEF CallStep, FindCustomer, CreateCustomer, SaveCustomer, OpenSession, PaySetupFee, Subscribe
    <3>4. QED
      BY <3>1, <3>2, <3>3
  <2>2. ASSUME NEW q \in Call, NEW s \in {"active", "past_due", "canceled"}, ChangeSubscription(q, s)
        PROVE  FALSE
    BY <1>2, <2>2 DEF ChangeSubscription
  <2>3. ASSUME NEW e \in pending, WebhookStep(e) \/ \E x \in Restaurant : LoseDelivery(e, x)
        PROVE  FALSE
    BY <1>2, <2>3 DEF WebhookStep, SetupFeePaid, FindRow, IgnoreEvent, SaveSubscription, LoseDelivery
  <2>4. QED
    BY <1>2, <2>1, <2>2, <2>3 DEF Next, vars
<1>3. QED
  BY <1>1, <1>2

\* A change announces its own status.
LEMMA AnnouncesStep == TypeOK /\ Announces /\ [Next]_vars => Announces'
<1> SUFFICES ASSUME TypeOK, Announces, [Next]_vars, NEW e \in pending', e \notin pending
             PROVE  e.type = "checkout.session.completed" \/ e.status # "none"
  BY DEF Announces
<1>1. ASSUME NEW k \in Call, PaySetupFee(k)
      PROVE  e.type = "checkout.session.completed"
  BY <1>1 DEF PaySetupFee, Completed
<1>2. ASSUME NEW k \in Call, NEW s \in {"active", "past_due", "canceled"}, Grows(k, s)
      PROVE  e.status # "none"
  BY <1>2 DEF Grows, Change, Changed
<1>3. ASSUME NEW d \in pending, Handled(d)
      PROVE  FALSE
  BY <1>3 DEF Handled, Acknowledge
<1>4. QED
  BY <1>1, <1>2, <1>3, StatusSteps DEF FindRow

\* Handlers change nothing that billing promises.
LEMMA CallStepHidden ==
    ASSUME TypeOK, NEW k \in Call, CallStep(k)
    PROVE  UNCHANGED Promise!promiseVars
<1> USE DEF TypeOK
<1>1. /\ calls[k].stage # "paid" /\ calls'[k].stage # "paid"
      /\ \A q \in Call \ {k} : calls'[q] = calls[q]
      /\ UNCHANGED subs
  BY DEF CallStep, CheckSetupFee, FindCustomer, CreateCustomer, SaveCustomer, OpenSession, Goto, Refuse
<1>2. FeePaid' = FeePaid
  BY <1>1 DEF FeePaid
<1>3. UNCHANGED <<FeeNoted, [x \in Restaurant |-> rows[x].status]>>
  BY CallKeepsRows DEF FeeNoted
<1>4. Subscribed' = Subscribed /\ Ended' = Ended
  BY <1>1 DEF Subscribed, Ended
<1>5. QED
  BY <1>2, <1>3, <1>4 DEF Promise!promiseVars

\* A session of the setup fee that is paid pays the fee.
LEMMA PaySetupFeeRefines ==
    ASSUME TypeOK, NEW k \in Call, PaySetupFee(k)
    PROVE  Promise!PayFee(RestaurantOf[k])
<1> USE BillingAssumption DEF TypeOK
<1>1. /\ KindOf[k] = "setup" /\ calls'[k].stage = "paid" /\ UNCHANGED <<rows, subs>>
      /\ \A q \in Call \ {k} : calls'[q] = calls[q]
      /\ calls[k].stage # "paid"
  BY DEF PaySetupFee, Goto
<1>2. {q \in Call : KindOf[q] = "setup" /\ calls'[q].stage = "paid"}
          = {q \in Call : KindOf[q] = "setup" /\ calls[q].stage = "paid"} \cup {k}
  BY <1>1
<1>3. FeePaid' = FeePaid \cup {RestaurantOf[k]}
  BY <1>2 DEF FeePaid
<1>4. QED
  BY <1>1, <1>3 DEF Promise!PayFee, FeeNoted, Subscribed, Ended

\* A change of a subscription is its beginning, its end, or not seen before the
\* webhook.
LEMMA GrowsRefines ==
    ASSUME TypeOK, OwnInv, Versions, GatedNoted,
           NEW k \in Call, NEW s \in {"active", "past_due", "canceled"}, Grows(k, s)
    PROVE  \/ Promise!Subscribe(RestaurantOf[k])
           \/ Promise!End(RestaurantOf[k])
           \/ UNCHANGED Promise!promiseVars
<1> USE BillingAssumption DEF TypeOK
<1> DEFINE x == RestaurantOf[k]
<1>1. /\ subs'[k] = [status |-> s, version |-> subs[k].version + 1]
      /\ \A q \in Call \ {k} : subs'[q] = subs[q]
      /\ \A q \in Call \ {k} : calls'[q] = calls[q]
      /\ KindOf[k] = "subscription"
      /\ subs[k].status # "canceled"
      /\ UNCHANGED rows
  BY ONLY TypeOK, OwnInv, Versions, Grows(k, s), Changing
<1>2. x \in Restaurant /\ subs[k].version \in Nat
  BY DEF Subscription
<1>3. FeePaid' = FeePaid
  BY <1>1 DEF FeePaid
<1>4. UNCHANGED <<FeeNoted, [y \in Restaurant |-> rows[y].status]>>
  BY <1>1 DEF FeeNoted
<1>5. Subscribed' = Subscribed \cup {x}
  BY <1>1, <1>2 DEF Subscribed
<1>6. Ended' = IF s = "canceled" THEN Ended \cup {x} ELSE Ended
  BY <1>1, <1>2 DEF Ended
<1>7. CASE Subscribe(k) /\ s = "active"
  <2>1. x \in FeeNoted
    BY <1>2, <1>7 DEF Subscribe, GatedNoted, FeeNoted, RowOf
  <2>2. QED
    BY <1>3, <1>4, <1>5, <1>6, <1>7, <2>1 DEF Promise!Subscribe
<1>8. CASE ChangeSubscription(k, s)
  <2>1. x \in Subscribed
    <3>1. subs[k].version > 0
      BY <1>2, <1>8 DEF ChangeSubscription, Versions
    <3>2. QED
      BY <1>2, <3>1 DEF Subscribed
  <2>2. UNCHANGED Subscribed
    BY <1>5, <2>1
  <2>3. QED
    BY <1>3, <1>4, <1>6, <2>1, <2>2 DEF Promise!End, Promise!promiseVars
<1>9. QED
  BY <1>7, <1>8 DEF Grows

\* A webhook notes a fee that is paid, or shows what has been of a subscription.
LEMMA HandledRefines ==
    ASSUME TypeOK, FeeInv, OwnInv, Versions, Reports, Announces, [Next]_vars,
           NEW e \in pending, Handled(e)
    PROVE  \/ \E x \in Restaurant :
                 \/ Promise!NoteFee(x)
                 \/ \E s \in {"active", "past_due", "canceled"} : Promise!Show(x, s)
           \/ UNCHANGED Promise!promiseVars
<1> USE BillingAssumption DEF TypeOK
<1> DEFINE Status == [y \in Restaurant |-> rows[y].status]
<1>1. e \in Event /\ e.of \in Call /\ UNCHANGED <<FeePaid, Subscribed, Ended>>
  <2>1. UNCHANGED <<calls, subs>>
    BY DEF Handled
  <2>2. QED
    BY <2>1 DEF FeePaid, Subscribed, Ended, Event
<1>2. CASE UNCHANGED rows
  BY <1>1, <1>2 DEF FeeNoted, Promise!promiseVars
<1>3. CASE SetupFeePaid(e) /\ ~UNCHANGED rows
  <2> DEFINE x == RestaurantOf[e.of]
  <2>1. x \in Restaurant /\ rows' = [rows EXCEPT ![x] = WithSetupPaid(x)]
    BY <1>1, <1>3 DEF SetupFeePaid
  <2>2. x \in FeePaid
    BY <1>1, <1>3, <2>1 DEF SetupFeePaid, FeeInv, FeeEvents, FeePaid
  <2>3. WithSetupPaid(x).setupPaid /\ WithSetupPaid(x).status = rows[x].status
    BY <2>1 DEF WithSetupPaid, BillingRow
  <2>4. FeeNoted' = FeeNoted \cup {x} /\ UNCHANGED Status
    BY <2>1, <2>3 DEF FeeNoted
  <2>5. QED
    BY <1>1, <2>1, <2>2, <2>4 DEF Promise!NoteFee
<1>4. ASSUME NEW x \in Restaurant, SaveSubscription(e, x), ~UNCHANGED rows
      PROVE  \E s \in {"active", "past_due", "canceled"} : Promise!Show(x, s)
  <2> DEFINE row == WithSubscription(rows[x], e)
  <2>1. rows' = [rows EXCEPT ![x] = row] /\ <<e, x>> \in found
    BY <1>4 DEF SaveSubscription
  <2>2. RestaurantOf[e.of] = x /\ e.type # "checkout.session.completed"
    BY <1>1, <2>1 DEF OwnInv, OwnFound, Reports
  <2>3. /\ e.version \in 1..subs[e.of].version
        /\ e.version = subs[e.of].version => e.status = subs[e.of].status
        /\ e.version < subs[e.of].version => e.status # "canceled"
        /\ e.type = "customer.subscription.deleted" <=> e.status = "canceled"
    BY <2>2 DEF Reports, Report
  <2>4. e.version \in Nat /\ subs[e.of].version \in Nat
    BY <1>1 DEF Event, Subscription
  <2>5. x \in Subscribed
    BY <1>1, <2>2, <2>3, <2>4 DEF Subscribed
  <2>6. e.status = "canceled" => x \in Ended
    BY <1>1, <2>2, <2>3, <2>4 DEF Ended
  <2>7. row.setupPaid = rows[x].setupPaid /\ row.status = e.status
    BY <2>3 DEF WithSubscription, BillingRow
  <2>8. FeeNoted' = FeeNoted /\ Status' = [Status EXCEPT ![x] = e.status]
    BY <2>1, <2>7 DEF FeeNoted
  <2>9. e.status \in {"active", "past_due", "canceled"}
    BY <1>1, <2>2 DEF Announces, Event
  <2>10. Promise!Show(x, e.status)
    BY <1>1, <2>5, <2>6, <2>8, <2>9 DEF Promise!Show
  <2>11. QED
    BY <2>9, <2>10
<1>5. QED
  BY <1>2, <1>3, <1>4 DEF Handled, IgnoreEvent

\* Every step of billing is a step of the promise or does not show.
LEMMA StepRefines ==
    TypeOK /\ FeeInv /\ OwnInv /\ StatusInv /\ PromiseInv /\ [Next]_vars
        => [Promise!PromiseNext]_(Promise!promiseVars)
<1> SUFFICES ASSUME TypeOK, FeeInv, OwnInv, StatusInv, PromiseInv, [Next]_vars
             PROVE  Promise!PromiseNext \/ UNCHANGED Promise!promiseVars
  OBVIOUS
<1>1. ASSUME NEW k \in Call
      PROVE  RestaurantOf[k] \in Restaurant
  BY BillingAssumption
<1>2. ASSUME NEW k \in Call, PaySetupFee(k)
      PROVE  Promise!PromiseNext
  BY <1>1, <1>2, PaySetupFeeRefines DEF Promise!PromiseNext
<1>3. ASSUME NEW k \in Call, NEW s \in {"active", "past_due", "canceled"}, Grows(k, s)
      PROVE  Promise!PromiseNext \/ UNCHANGED Promise!promiseVars
  BY <1>1, <1>3, GrowsRefines DEF Promise!PromiseNext, StatusInv, PromiseInv
<1>4. ASSUME NEW e \in pending, Handled(e)
      PROVE  Promise!PromiseNext \/ UNCHANGED Promise!promiseVars
  BY <1>4, HandledRefines DEF Promise!PromiseNext, StatusInv, PromiseInv
<1>5. CASE UNCHANGED <<rows, calls, subs>>
  BY <1>5 DEF Promise!promiseVars, FeePaid, FeeNoted, Subscribed, Ended
<1>6. QED
  BY <1>2, <1>3, <1>4, <1>5, StatusSteps, CallStepHidden DEF FindRow

\* A restaurant sees of billing what BillingPromise lets it see, for any tenants,
\* requests, faults and order of Stripe's events (HandleWebhook and the handlers).
THEOREM KeepsPromiseHolds == Spec => KeepsPromise
<1>1. Init => Promise!PromiseInit
  BY DEF Init, Promise!PromiseInit, FeePaid, FeeNoted, Subscribed, Ended
<1>2. Init => PromiseInv
  BY DEF Init, PromiseInv, GatedNoted, Announces
<1>3. TypeOK /\ PromiseInv /\ [Next]_vars => PromiseInv'
  BY GatedNotedStep, AnnouncesStep DEF PromiseInv
<1>4. QED
  BY <1>1, <1>2, <1>3, StepRefines, BillingTypeCorrect, FeeInvariant, OwnInvariant,
     StatusInvariant, PTL DEF Spec, KeepsPromise, Promise!PromiseSpec
=============================================================================
