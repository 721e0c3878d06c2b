------------------------- MODULE OrderPaymentProofs -------------------------
(***************************************************************************)
(* Theorems about OrderPayment, for every set of requests, restaurants and *)
(* order numbers, and every bound.                                         *)
(***************************************************************************)
EXTENDS OrderPayment, FiniteSetTheorems, TLAPS

-----------------------------------------------------------------------------
(* Types                                                                    *)

\* The initial state is well typed.
LEMMA TypeInit == Init => TypeOK
BY ConstantsAssumption DEF Init, TypeOK, Stages

\* What ValidateAndBuildOrder inserts is an order record.
LEMMA NewOrderType == \A n \in Number : NewOrder(n) \in OrderRecord
BY DEF NewOrder, OrderRecord, Statuses, PaymentStatuses

\* Every event about a request is an event.
LEMMA EventType == 
    \A i \in Request : Succeeded(i) \in Events /\ Failed(i) \in Events
BY DEF Events

\* Setting one field of a live row keeps the collection well typed.
LEMMA FieldWrites ==
    ASSUME TypeOK, NEW r \in Request, Live(r)
    PROVE  /\ \A s \in Statuses : [orders EXCEPT ![r].status = s] \in [Request -> OrderRecord \cup {None}]
           /\ \A s \in PaymentStatuses : [orders EXCEPT ![r].pay = s] \in [Request -> OrderRecord \cup {None}]
           /\ [orders EXCEPT ![r].intent = r] \in [Request -> OrderRecord \cup {None}]
BY DEF TypeOK, Live, OrderRecord

\* ... and leaves the row a row.
LEMMA FieldWritesLive ==
    ASSUME TypeOK, NEW r \in Request, Live(r)
    PROVE  /\ \A s \in Statuses : [orders EXCEPT ![r].status = s][r] # None
           /\ \A s \in PaymentStatuses : [orders EXCEPT ![r].pay = s][r] # None
           /\ [orders EXCEPT ![r].intent = r][r] # None
<1>1. orders[r] \in OrderRecord
  BY DEF TypeOK, Live
<1>2. /\ \A s \in Statuses : [orders[r] EXCEPT !.status = s] \in OrderRecord
      /\ \A s \in PaymentStatuses : [orders[r] EXCEPT !.pay = s] \in OrderRecord
      /\ [orders[r] EXCEPT !.intent = r] \in OrderRecord
  BY <1>1 DEF OrderRecord
<1>3. None \notin OrderRecord
  BY ConstantsAssumption
<1>4. QED
  BY <1>2, <1>3 DEF TypeOK

\* What a webhook writes keeps the collection well typed.
LEMMA WebhookWrites ==
    ASSUME TypeOK, NEW e, NEW r \in MatchedBy(e), SetPaymentStatus(r, PaymentStatusOf(e))
    PROVE  /\ orders' \in [Request -> OrderRecord \cup {None}]
           /\ overwritten' \subseteq Request
<1>1. r \in Request /\ Live(r)
  BY DEF MatchedBy
<1>2. PaymentStatusOf(e) \in PaymentStatuses
  BY DEF PaymentStatusOf, PaymentStatuses
<1>3. QED
  BY <1>1, <1>2, FieldWrites DEF SetPaymentStatus, TypeOK

\* No step of the checkout handler leaves the types, whatever faults it meets.
LEMMA HandlerType ==
    ASSUME TypeOK, NEW r \in Request, HandlerStep(r)
    PROVE  TypeOK'
<1> USE DEF TypeOK, Stages, Goto, handlerVars, stripeVars, billingVars, faultVars
<1>1. CASE Refuse(r)
  BY <1>1 DEF Refuse
<1>2. CASE PickNumber(r)
  BY <1>2, ConstantsAssumption DEF PickNumber
<1>3. CASE SaveOrder(r)
  BY <1>3, NewOrderType DEF SaveOrder
<1>4. CASE CreateIntent(r)
  BY <1>4, EventType DEF CreateIntent, OnStripeError
<1>5. CASE Rollback(r)
  BY <1>5 DEF Rollback
<1>6. CASE AttachPaymentIntent(r)
  <2>1. orders' \in [Request -> OrderRecord \cup {None}]
    BY <1>6, FieldWrites DEF AttachPaymentIntent, LinkIntent
  <2>2. QED
    BY <1>6, <2>1 DEF AttachPaymentIntent, OnAttachError
<1>7. CASE Answer(r)
  BY <1>7 DEF Answer
<1>8. QED
  BY <1>1, <1>2, <1>3, <1>4, <1>5, <1>6, <1>7 DEF HandlerStep

\* Nor does a confirmed or declined payment at Stripe.
LEMMA CustomerType ==
    ASSUME TypeOK, NEW r \in Request, CustomerPays(r) \/ CardDeclined(r)
    PROVE  TypeOK'
BY EventType DEF TypeOK, CustomerPays, CardDeclined, handlerVars, billingVars, faultVars

\* Nor does a crash, with or without a webhook's write before it.
LEMMA CrashType ==
    ASSUME TypeOK, LoseProcess, orders' \in [Request -> OrderRecord \cup {None}],
           overwritten' \subseteq Request
    PROVE  TypeOK'
BY DEF TypeOK, LoseProcess, Stages, InFlight, stripeVars

\* Nor does a webhook, whether a row matches, none does, or the database errs.
LEMMA DeliverType ==
    ASSUME TypeOK, NEW e \in Events, Deliver(e)
    PROVE  TypeOK'
<1> USE DEF TypeOK, handlerVars, billingVars
<1>1. pending' \subseteq Events /\ lostAcks' \in Nat
  BY DEF Deliver, DeliverToOrder, DeliverToNobody, DeliverWithDBError, Acknowledge
<1>2. CASE DeliverToOrder(e)
  <2>1. PICK r \in MatchedBy(e) :
           /\ SetPaymentStatus(r, PaymentStatusOf(e))
           /\ jobs' = IF BillsOrder(e) THEN [jobs EXCEPT ![RestaurantOf[r]] = @ + 1] ELSE jobs
    BY <1>2 DEF DeliverToOrder
  <2>2. orders' \in [Request -> OrderRecord \cup {None}] /\ overwritten' \subseteq Request
    BY <2>1, WebhookWrites
  <2>3. jobs' \in [Restaurant -> Nat]
    BY <2>1, ConstantsAssumption DEF MatchedBy
  <2>4. QED
    BY <1>1, <1>2, <2>2, <2>3 DEF DeliverToOrder
<1>3. CASE DeliverToNobody(e)
  BY <1>1, <1>3 DEF DeliverToNobody
<1>4. CASE DeliverWithDBError(e)
  <2>1. orders' \in [Request -> OrderRecord \cup {None}] /\ overwritten' \subseteq Request
    BY <1>4, WebhookWrites DEF DeliverWithDBError
  <2>2. QED
    BY <1>1, <1>4, <2>1 DEF DeliverWithDBError
<1>5. QED
  BY <1>2, <1>3, <1>4 DEF Deliver

\* Nor do the restaurant's staff.
LEMMA StaffType ==
    ASSUME TypeOK, NEW x \in Restaurant, NEW r \in Request,
           DeleteOrder(x, r) \/ \E s \in AdminStatus : UpdateStatus(x, r, s)
    PROVE  TypeOK'
<1> USE DEF TypeOK, handlerVars, stripeVars, billingVars, faultVars
<1>1. CASE DeleteOrder(x, r)
  BY <1>1 DEF DeleteOrder
<1>2. ASSUME NEW s \in AdminStatus, UpdateStatus(x, r, s)
      PROVE  TypeOK'
  <2>1. s \in Statuses
    BY ConstantsAssumption
  <2>2. orders' \in [Request -> OrderRecord \cup {None}]
    BY <1>2, <2>1, FieldWrites DEF UpdateStatus
  <2>3. QED
    BY <1>2, <2>2 DEF UpdateStatus
<1>3. QED
  BY <1>1, <1>2

\* Every step of the system keeps the types.
LEMMA TypeStep == TypeOK /\ [Next]_vars => TypeOK'
<1> SUFFICES ASSUME TypeOK, [Next]_vars PROVE TypeOK'
  OBVIOUS
<1>1. ASSUME NEW r \in Request, HandlerStep(r) \/ CustomerPays(r) \/ CardDeclined(r)
      PROVE  TypeOK'
  BY <1>1, HandlerType, CustomerType
<1>2. ASSUME NEW e \in Events, Deliver(e) PROVE TypeOK'
  BY <1>2, DeliverType
<1>3. ASSUME NEW e \in Events, CrashInWebhook(e) PROVE TypeOK'
  BY <1>3, WebhookWrites, CrashType DEF CrashInWebhook
<1>4. ASSUME NEW x \in Restaurant, RecordOrder(x) PROVE TypeOK'
  BY <1>4 DEF TypeOK, RecordOrder, handlerVars, stripeVars, faultVars
<1>5. ASSUME NEW x \in Restaurant, NEW r \in Request,
             DeleteOrder(x, r) \/ \E s \in AdminStatus : UpdateStatus(x, r, s)
      PROVE  TypeOK'
  BY <1>5, StaffType
<1>6. CASE Crash
  BY <1>6, CrashType DEF Crash, TypeOK
<1>7. CASE UNCHANGED vars
  BY <1>7 DEF TypeOK, vars
<1>8. QED
  BY <1>1, <1>2, <1>3, <1>4, <1>5, <1>6, <1>7 DEF Next

\* The state is well typed whatever the interleaving, the faults and the
\* crashes; in particular a handler that inserts has chosen a number.
THEOREM TypeCorrect == Spec => []TypeOK
BY TypeInit, TypeStep, PTL DEF Spec

-----------------------------------------------------------------------------
(* What a step does to the orders collection                                *)

\* A step inserts one row, removes one, sets one field of one live row, or
\* leaves the collection alone.
RowChange(r) ==
    \/ SaveOrder(r)
    \/ Rollback(r) /\ orders' = [orders EXCEPT ![r] = None]
    \/ (\E x \in Restaurant : DeleteOrder(x, r)) /\ orders' = [orders EXCEPT ![r] = None]
    \/ Live(r) /\ \E s \in Statuses : orders' = [orders EXCEPT ![r].status = s]
    \/ Live(r) /\ orders' = [orders EXCEPT ![r].intent = r]
    \/ \E e \in pending \cap Events : r \in MatchedBy(e) /\ SetPaymentStatus(r, PaymentStatusOf(e))

\* A step changes no order, or one row in one of the ways RowChange lists.
LEMMA RowSteps ==
    ASSUME [Next]_vars
    PROVE  UNCHANGED orders \/ \E r \in Request : RowChange(r)
<1> DEFINE Goal == UNCHANGED orders \/ \E r \in Request : RowChange(r)
<1> USE DEF RowChange
<1>1. ASSUME NEW r \in Request, HandlerStep(r) \/ CustomerPays(r) \/ CardDeclined(r)
      PROVE  Goal
  BY <1>1 DEF HandlerStep, Refuse, PickNumber, CreateIntent, Rollback, AttachPaymentIntent,
              LinkIntent, Answer, CustomerPays, CardDeclined
<1>2. ASSUME NEW e \in Events, Deliver(e) \/ CrashInWebhook(e)
      PROVE  Goal
  <2>1. /\ e \in pending
        /\ \/ UNCHANGED orders
           \/ \E r \in MatchedBy(e) : SetPaymentStatus(r, PaymentStatusOf(e))
    BY <1>2 DEF Deliver, DeliverToOrder, DeliverToNobody, DeliverWithDBError, CrashInWebhook
  <2>2. QED
    BY <2>1 DEF MatchedBy
<1>3. ASSUME NEW x \in Restaurant, RecordOrder(x)
      PROVE  Goal
  BY <1>3 DEF RecordOrder
<1>4. ASSUME NEW x \in Restaurant, NEW r \in Request,
             DeleteOrder(x, r) \/ \E s \in AdminStatus : UpdateStatus(x, r, s)
      PROVE  Goal
  BY <1>4, ConstantsAssumption DEF DeleteOrder, UpdateStatus
<1>5. CASE Crash \/ UNCHANGED vars
  BY <1>5 DEF Crash, vars
<1>6. QED
  BY <1>1, <1>2, <1>3, <1>4, <1>5 DEF Next

-----------------------------------------------------------------------------
(* Order numbers                                                            *)

\* Order numbers are unique whatever handlers interleave between the read
\* that chooses a number and the insert: only the unique index decides.
THEOREM NumbersAreUnique == Spec => []OrderNumbersUnique
<1> USE DEF OrderNumbersUnique, Live
<1>1. Init => OrderNumbersUnique
  BY DEF Init
<1>2. TypeOK /\ OrderNumbersUnique /\ [Next]_vars => OrderNumbersUnique'
  <2> SUFFICES ASSUME TypeOK, OrderNumbersUnique, [Next]_vars
               PROVE  OrderNumbersUnique'
    OBVIOUS
  <2>1. CASE UNCHANGED orders
    BY <2>1
  <2>2. ASSUME NEW r \in Request, SaveOrder(r), ~UNCHANGED orders
        PROVE  OrderNumbersUnique'
    <3>1. /\ orders' = [orders EXCEPT ![r] = NewOrder(num[r])]
          /\ \A q \in Request : Live(q) => orders[q].number # num[r]
      BY <2>2 DEF SaveOrder, IndexAdmits, NumberTaken
    <3>2. NewOrder(num[r]).number = num[r]
      BY DEF NewOrder
    <3>3. QED
      BY <3>1, <3>2 DEF TypeOK
  <2>3. ASSUME NEW r \in Request, orders' = [orders EXCEPT ![r] = None]
        PROVE  OrderNumbersUnique'
    BY <2>3 DEF TypeOK
  <2>4. ASSUME NEW r \in Request, Live(r),
               \/ \E s : orders' = [orders EXCEPT ![r].pay = s]
               \/ \E s \in Statuses : orders' = [orders EXCEPT ![r].status = s]
               \/ orders' = [orders EXCEPT ![r].intent = r]
        PROVE  OrderNumbersUnique'
    <3>1. /\ \A q \in Request : q # r => orders'[q] = orders[q]
          /\ orders'[r].number = orders[r].number
      BY <2>4 DEF TypeOK, OrderRecord
    <3>2. QED
      BY <2>4, <3>1
  <2>5. QED
    BY <2>1, <2>2, <2>3, <2>4, RowSteps DEF RowChange, MatchedBy, SetPaymentStatus
<1>3. QED
  BY <1>1, <1>2, TypeCorrect, PTL DEF Spec

-----------------------------------------------------------------------------
(* Payment evidence                                                         *)

\* What an event in flight says is so, and no intent exists before the call
\* that creates it.
EventEvidence ==
    \A i \in Request : /\ Succeeded(i) \in pending => intents[i] = "succeeded"
                       /\ Failed(i) \in pending => declines[i] > 0

NoIntentYet ==
    \A r \in Request : pc[r] \in {"idle", "numbered", "saved"} => intents[r] = "none"

\* An event names its type and its intent.
LEMMA EventsDiffer ==
    \A i, j \in Request : /\ Succeeded(i) = Succeeded(j) => i = j
                          /\ Failed(i) = Failed(j) => i = j
                          /\ Succeeded(i) # Failed(j)
<1> TAKE i, j \in Request
<1>1. /\ Succeeded(i).intent = i /\ Succeeded(j).intent = j
      /\ Failed(i).intent = i /\ Failed(j).intent = j
      /\ Succeeded(i).type # Failed(j).type
  BY DEF Succeeded, Failed
<1>2. QED
  BY <1>1

\* Stripe forgets neither a charge nor a decline, and emits only true events.
LEMMA StripeSteps ==
    ASSUME TypeOK, NoIntentYet, [Next]_vars, NEW i \in Request
    PROVE  /\ intents[i] = "succeeded" => intents'[i] = "succeeded"
           /\ declines[i] > 0 => declines'[i] > 0
           /\ Succeeded(i) \in pending' => Succeeded(i) \in pending \/ intents'[i] = "succeeded"
           /\ Failed(i) \in pending' => Failed(i) \in pending \/ declines'[i] > 0
<1> DEFINE Goal == /\ intents[i] = "succeeded" => intents'[i] = "succeeded"
                   /\ declines[i] > 0 => declines'[i] > 0
                   /\ Succeeded(i) \in pending' => Succeeded(i) \in pending \/ intents'[i] = "succeeded"
                   /\ Failed(i) \in pending' => Failed(i) \in pending \/ declines'[i] > 0
<1>1. ASSUME NEW r \in Request, CreateIntent(r) \/ CustomerPays(r) \/ CardDeclined(r)
      PROVE  Goal
  BY <1>1, EventsDiffer DEF CreateIntent, CustomerPays, CardDeclined, TypeOK, NoIntentYet, stripeVars
<1>2. CASE UNCHANGED <<intents, declines>> /\ pending' \subseteq pending
  BY <1>2
<1>3. ASSUME NEW r \in Request, HandlerStep(r), ~CreateIntent(r)
      PROVE  UNCHANGED stripeVars
  BY <1>3 DEF HandlerStep, Refuse, PickNumber, SaveOrder, Rollback, AttachPaymentIntent, Answer
<1>4. ASSUME NEW e \in Events, Deliver(e) \/ CrashInWebhook(e)
      PROVE  UNCHANGED <<intents, declines>> /\ pending' \subseteq pending
  BY <1>4 DEF Deliver, DeliverToOrder, DeliverToNobody, DeliverWithDBError, Acknowledge,
              CrashInWebhook, LoseProcess, stripeVars
<1>5. ASSUME NEW x \in Restaurant, NEW r \in Request,
             RecordOrder(x) \/ DeleteOrder(x, r) \/ \E s \in AdminStatus : UpdateStatus(x, r, s)
      PROVE  UNCHANGED stripeVars
  BY <1>5 DEF RecordOrder, DeleteOrder, UpdateStatus
<1>6. CASE Crash \/ UNCHANGED vars
  BY <1>2, <1>6 DEF Crash, LoseProcess, stripeVars, vars
<1>7. QED
  BY <1>1, <1>2, <1>3, <1>4, <1>5, <1>6 DEF Next, stripeVars

\* No step but a handler's CreateIntent creates an intent, and that step leaves
\* the stages before it.
LEMMA NoIntentYetStep == TypeOK /\ NoIntentYet /\ [Next]_vars => NoIntentYet'
<1> SUFFICES ASSUME TypeOK, NoIntentYet, [Next]_vars,
                    NEW r \in Request, pc'[r] \in {"idle", "numbered", "saved"}
             PROVE  intents'[r] = "none"
  BY DEF NoIntentYet
<1> USE DEF TypeOK, NoIntentYet, Goto, handlerVars, stripeVars
<1>1. ASSUME NEW q \in Request, HandlerStep(q)
      PROVE  intents'[r] = "none"
  BY <1>1 DEF HandlerStep, Refuse, PickNumber, SaveOrder, CreateIntent, OnStripeError, Rollback,
              AttachPaymentIntent, OnAttachError, Answer
<1>2. ASSUME NEW q \in Request, CustomerPays(q) \/ CardDeclined(q)
      PROVE  intents'[r] = "none"
  BY <1>2 DEF CustomerPays, CardDeclined
<1>3. ASSUME NEW e \in Events, Deliver(e) \/ CrashInWebhook(e)
      PROVE  intents'[r] = "none"
  BY <1>3 DEF Deliver, DeliverToOrder, DeliverToNobody, DeliverWithDBError, CrashInWebhook,
              LoseProcess, InFlight
<1>4. ASSUME NEW x \in Restaurant,
             \/ RecordOrder(x)
             \/ \E q \in Request : DeleteOrder(x, q) \/ \E s \in AdminStatus : UpdateStatus(x, q, s)
      PROVE  intents'[r] = "none"
  BY <1>4 DEF RecordOrder, DeleteOrder, UpdateStatus
<1>5. CASE Crash \/ UNCHANGED vars
  BY <1>5 DEF Crash, LoseProcess, InFlight, vars
<1>6. QED
  BY <1>1, <1>2, <1>3, <1>4, <1>5 DEF Next

EvidenceInv == NoIntentYet /\ EventEvidence /\ PaymentEvidence

\* Every step keeps the evidence for payment statuses.
LEMMA EvidenceStep == TypeOK /\ EvidenceInv /\ [Next]_vars => EvidenceInv'
<1> SUFFICES ASSUME TypeOK, EvidenceInv, [Next]_vars PROVE EvidenceInv'
  OBVIOUS
<1>1. NoIntentYet'
  BY NoIntentYetStep DEF EvidenceInv
<1>2. EventEvidence'
  BY StripeSteps DEF EvidenceInv, EventEvidence
<1>3. PaymentEvidence'
  <2> SUFFICES ASSUME NEW q \in Request, Live(q)'
               PROVE  /\ orders'[q].intent \in {None, q}
                      /\ orders'[q].pay = "paid" => orders'[q].intent = q /\ intents'[q] = "succeeded"
                      /\ orders'[q].pay = "failed" => orders'[q].intent = q /\ declines'[q] > 0
    BY DEF PaymentEvidence
  <2>1. /\ intents[q] = "succeeded" => intents'[q] = "succeeded"
        /\ declines[q] > 0 => declines'[q] > 0
    BY StripeSteps DEF EvidenceInv
  <2>2. CASE orders'[q] = orders[q]
    BY <2>1, <2>2 DEF EvidenceInv, PaymentEvidence, Live
  <2>3. ASSUME NEW r \in Request, RowChange(r), r # q
        PROVE  orders'[q] = orders[q]
    BY <2>3 DEF RowChange, SaveOrder, SetPaymentStatus, TypeOK
  <2>4. CASE SaveOrder(q)
    <3>1. CASE UNCHANGED orders
      BY <2>2, <3>1
    <3>2. CASE orders' = [orders EXCEPT ![q] = NewOrder(num[q])]
      BY <3>2 DEF NewOrder, TypeOK
    <3>3. QED
      BY <2>4, <3>1, <3>2 DEF SaveOrder
  <2>5. ASSUME Live(q), \/ \E s \in Statuses : orders' = [orders EXCEPT ![q].status = s]
                        \/ orders' = [orders EXCEPT ![q].intent = q]
        PROVE  /\ orders'[q].intent \in {orders[q].intent, q}
               /\ orders'[q].pay = orders[q].pay
    BY <2>5 DEF TypeOK, OrderRecord, Live
  <2>6. ASSUME NEW e \in pending \cap Events, q \in MatchedBy(e), SetPaymentStatus(q, PaymentStatusOf(e))
        PROVE  /\ orders'[q].intent = q
               /\ orders'[q].pay = "paid" => intents[q] = "succeeded"
               /\ orders'[q].pay = "failed" => declines[q] > 0
    <3>1. orders[q].intent = e.intent /\ Live(q) /\ e.intent # None
      BY <2>6, ConstantsAssumption DEF MatchedBy, Events, Succeeded, Failed
    <3>2. e.intent = q
      BY <3>1 DEF EvidenceInv, PaymentEvidence
    <3>3. e = Succeeded(q) \/ e = Failed(q)
      BY <3>2 DEF Events, Succeeded, Failed
    <3>4. /\ e = Succeeded(q) => intents[q] = "succeeded"
          /\ e = Failed(q) => declines[q] > 0
      BY <2>6 DEF EvidenceInv, EventEvidence
    <3>5. orders'[q].intent = q /\ orders'[q].pay = PaymentStatusOf(e)
      BY <2>6, <3>1, <3>2 DEF SetPaymentStatus, TypeOK, Live, OrderRecord
    <3>6. QED
      BY <3>2, <3>3, <3>4, <3>5 DEF PaymentStatusOf
  <2>7. ASSUME RowChange(q)
        PROVE  \/ SaveOrder(q)
               \/ Live(q) /\ \/ \E s \in Statuses : orders' = [orders EXCEPT ![q].status = s]
                             \/ orders' = [orders EXCEPT ![q].intent = q]
               \/ \E e \in pending \cap Events : q \in MatchedBy(e) /\ SetPaymentStatus(q, PaymentStatusOf(e))
    BY <2>7 DEF RowChange, Live, TypeOK
  <2>8. QED
    BY <2>1, <2>2, <2>3, <2>4, <2>5, <2>6, <2>7, RowSteps DEF EvidenceInv, PaymentEvidence
<1>4. QED
  BY <1>1, <1>2, <1>3 DEF EvidenceInv

\* The evidence for payment statuses is an invariant.
LEMMA EvidenceInvariant == Spec => []EvidenceInv
<1>1. Init => EvidenceInv
  BY DEF Init, EvidenceInv, NoIntentYet, EventEvidence, PaymentEvidence, Live
<1>2. QED
  BY <1>1, EvidenceStep, TypeCorrect, PTL DEF Spec

\* An order is "paid" only if Stripe charged its own intent, "failed" only if
\* an attempt on it was declined, and carries no other order's intent, for
\* every interleaving of handlers, redeliveries, crashes and database errors.
THEOREM PaymentEvidenceHolds == Spec => []PaymentEvidence
<1>1. EvidenceInv => PaymentEvidence
  BY DEF EvidenceInv
<1>2. QED
  BY <1>1, EvidenceInvariant, PTL

-----------------------------------------------------------------------------
(* Charges confirmed by the customer are recorded                           *)

\* Without a saved card, Stripe charges only after the handler has answered;
\* and when the database answers, the row is linked by then.
ConfirmStages ==
    \A r \in Request \ SavedCard :
        /\ intents[r] = "succeeded" => pc[r] = "answered"
        /\ ~DBFaults /\ pc[r] \in {"attached", "answered"} /\ Live(r) => orders[r].intent = r

\* Every step keeps a customer-confirmed charge behind the answer.
LEMMA ConfirmStagesStep ==
    TypeOK /\ EvidenceInv /\ ConfirmStages /\ [Next]_vars => ConfirmStages'
<1> SUFFICES ASSUME TypeOK, EvidenceInv, ConfirmStages, [Next]_vars, NEW r \in Request \ SavedCard
             PROVE  /\ intents'[r] = "succeeded" => pc'[r] = "answered"
                    /\ ~DBFaults /\ pc'[r] \in {"attached", "answered"} /\ orders'[r] # None
                        => orders'[r].intent = r
  BY DEF ConfirmStages, Live
<1> DEFINE Goal == /\ intents'[r] = "succeeded" => pc'[r] = "answered"
                   /\ ~DBFaults /\ pc'[r] \in {"attached", "answered"} /\ orders'[r] # None
                        => orders'[r].intent = r
<1> USE DEF TypeOK, Live, ConfirmStages, Goto, handlerVars, stripeVars
<1>1. ASSUME NEW q \in Request, HandlerStep(q), q # r
      PROVE  UNCHANGED <<pc[r], orders[r], intents[r]>>
  BY <1>1 DEF HandlerStep, Refuse, PickNumber, SaveOrder, CreateIntent, Rollback,
              AttachPaymentIntent, LinkIntent, Answer
<1>2. CASE HandlerStep(r)
  <2>1. CASE Refuse(r) \/ PickNumber(r) \/ SaveOrder(r) \/ Rollback(r)
    BY <2>1 DEF Refuse, PickNumber, SaveOrder, Rollback
  <2>2. CASE CreateIntent(r)
    BY <2>2 DEF CreateIntent, OnStripeError
  <2>3. CASE AttachPaymentIntent(r)
    <3>1. ~DBFaults => LinkIntent(r)
      BY <2>3 DEF AttachPaymentIntent
    <3>2. LinkIntent(r) /\ orders'[r] # None => orders'[r].intent = r
      BY DEF LinkIntent, OrderRecord
    <3>3. QED
      BY <2>3, <3>1, <3>2 DEF AttachPaymentIntent, OnAttachError
  <2>4. CASE Answer(r)
    BY <2>4 DEF Answer
  <2>5. QED
    BY <1>2, <2>1, <2>2, <2>3, <2>4 DEF HandlerStep
<1>3. ASSUME NEW q \in Request, CustomerPays(q) \/ CardDeclined(q)
      PROVE  Goal
  BY <1>3 DEF CustomerPays, CardDeclined
<1>4. ASSUME NEW e \in Events, Deliver(e) \/ CrashInWebhook(e)
      PROVE  Goal
  <2>1. /\ intents' = intents
        /\ pc'[r] \in {pc[r], "crashed"}
        /\ pc[r] = "answered" => pc'[r] = "answered"
        /\ \/ UNCHANGED orders
           \/ \E q \in MatchedBy(e) : SetPaymentStatus(q, PaymentStatusOf(e))
    BY <1>4 DEF Deliver, DeliverToOrder, DeliverToNobody, DeliverWithDBError, CrashInWebhook,
                LoseProcess, InFlight
  <2>2. orders'[r] # None => orders[r] # None /\ orders'[r].intent = orders[r].intent
    BY <2>1 DEF MatchedBy, SetPaymentStatus, OrderRecord
  <2>3. QED
    BY <2>1, <2>2
<1>5. ASSUME NEW x \in Restaurant, RecordOrder(x)
      PROVE  Goal
  BY <1>5 DEF RecordOrder
<1>6. ASSUME NEW x \in Restaurant, NEW q \in Request,
             DeleteOrder(x, q) \/ \E s \in AdminStatus : UpdateStatus(x, q, s)
      PROVE  Goal
  <2>1. orders'[r] # None => orders[r] # None /\ orders'[r].intent = orders[r].intent
    BY <1>6 DEF DeleteOrder, UpdateStatus, OrderRecord
  <2>2. QED
    BY <1>6, <2>1 DEF DeleteOrder, UpdateStatus
<1>7. CASE Crash \/ UNCHANGED vars
  BY <1>7 DEF Crash, LoseProcess, InFlight, vars
<1>8. QED
  BY <1>1, <1>2, <1>3, <1>4, <1>5, <1>6, <1>7 DEF Next

\* Every step keeps delivered charges recorded.
LEMMA ChargeRecordedStep ==
    TypeOK /\ EvidenceInv /\ ConfirmStages /\ ChargeRecorded /\ [Next]_vars => ChargeRecorded'
<1> SUFFICES ASSUME TypeOK, EvidenceInv, ConfirmStages, ChargeRecorded, [Next]_vars,
                    NEW r \in Request \ SavedCard, ~DBFaults,
                    intents'[r] = "succeeded", Succeeded(r) \notin pending', Live(r)'
             PROVE  ShowsCharge(r)'
  BY DEF ChargeRecorded
<1> USE DEF TypeOK, Live, ShowsCharge
<1>1. ASSUME NEW e \in Events, Deliver(e)
      PROVE  ShowsCharge(r)'
  <2>1. intents[r] = "succeeded" /\ pc[r] = "answered"
    BY <1>1 DEF Deliver, DeliverToOrder, DeliverToNobody, DeliverWithDBError, ConfirmStages
  <2>2. \A q \in MatchedBy(e) : q \in Request /\ q = e.intent /\ Live(q)
    BY ConstantsAssumption DEF MatchedBy, EvidenceInv, PaymentEvidence, Events, Succeeded, Failed
  <2>3. PICK touched \in BOOLEAN :
          IF touched THEN \E q \in MatchedBy(e) : SetPaymentStatus(q, PaymentStatusOf(e))
                     ELSE UNCHANGED <<orders, overwritten>> /\ MatchedBy(e) = {}
    BY <1>1 DEF Deliver, DeliverToOrder, DeliverToNobody, DeliverWithDBError
  <2>4. Live(r) /\ orders[r].intent = r
    <3>1. Live(r)
      BY <2>2, <2>3 DEF SetPaymentStatus
    <3>2. QED
      BY <2>1, <3>1 DEF ConfirmStages
  <2>5. CASE e.intent = r
    <3>1. SetPaymentStatus(r, PaymentStatusOf(e))
      BY <2>2, <2>3, <2>4, <2>5 DEF MatchedBy
    <3>2. CASE e = Succeeded(r)
      BY <2>4, <2>5, <3>1, <3>2 DEF SetPaymentStatus, PaymentStatusOf, OrderRecord
    <3>3. CASE e # Succeeded(r)
      <4>1. Succeeded(r) \notin pending
        BY <1>1, <3>3 DEF Deliver, DeliverToOrder, DeliverToNobody, DeliverWithDBError, Acknowledge
      <4>2. ShowsCharge(r)
        BY <2>1, <2>4, <4>1 DEF ChargeRecorded
      <4>3. orders'[r].pay = "failed" /\ (orders[r].pay = "paid" => r \in overwritten')
            /\ overwritten \subseteq overwritten'
        BY <2>4, <2>5, <3>1, <3>3 DEF SetPaymentStatus, PaymentStatusOf, OrderRecord, Overwrites
      <4>4. QED
        BY <4>2, <4>3
    <3>4. QED
      BY <3>2, <3>3
  <2>6. CASE e.intent # r
    <3>1. orders'[r] = orders[r] /\ overwritten \subseteq overwritten'
      BY <2>2, <2>3, <2>6 DEF SetPaymentStatus
    <3>2. Succeeded(r) \notin pending
      <4>1. e # Succeeded(r)
        BY <2>6 DEF Succeeded
      <4>2. QED
        BY <1>1, <4>1 DEF Deliver, DeliverToOrder, DeliverToNobody, DeliverWithDBError, Acknowledge
    <3>3. QED
      BY <2>1, <2>4, <3>1, <3>2 DEF ChargeRecorded
  <2>7. QED
    BY <2>5, <2>6
<1>2. ASSUME NEW e \in Events, CrashInWebhook(e)
      PROVE  ShowsCharge(r)'
  <2>1. PICK q \in MatchedBy(e) : SetPaymentStatus(q, PaymentStatusOf(e))
    BY <1>2 DEF CrashInWebhook
  <2>2. /\ Live(r) /\ overwritten \subseteq overwritten'
        /\ orders'[r] = orders[r] \/ orders'[r].pay = "paid"
           \/ /\ orders'[r].pay = "failed"
              /\ orders[r].pay = "paid" => r \in overwritten'
    BY <2>1 DEF MatchedBy, SetPaymentStatus, PaymentStatusOf, OrderRecord, Overwrites
  <2>3. intents[r] = "succeeded" /\ Succeeded(r) \notin pending
    BY <1>2 DEF CrashInWebhook, LoseProcess, stripeVars
  <2>4. ShowsCharge(r)
    BY <2>2, <2>3 DEF ChargeRecorded
  <2>5. QED
    BY <2>2, <2>4
<1>3. CASE /\ intents[r] = "succeeded" /\ Succeeded(r) \notin pending
           /\ Live(r) => orders'[r] = None \/ orders'[r].pay = orders[r].pay
           /\ ~Live(r) => orders'[r] = None
           /\ UNCHANGED overwritten
  BY <1>3 DEF ChargeRecorded
<1>4. ASSUME NEW q \in Request, HandlerStep(q)
      PROVE  ShowsCharge(r)'
  <2>1. CASE CreateIntent(q)
    BY <1>3, <2>1, EventsDiffer DEF CreateIntent, Goto, ConfirmStages, EvidenceInv, NoIntentYet, stripeVars,
                                        faultVars
  <2>2. CASE ~CreateIntent(q)
    <3>1. UNCHANGED stripeVars
      BY <1>4, <2>2 DEF HandlerStep, Refuse, PickNumber, SaveOrder, Rollback, AttachPaymentIntent, Answer
    <3>2. pc[r] = "answered"
      BY <3>1 DEF ConfirmStages, stripeVars
    <3>3. /\ Live(r) => orders'[r] = None \/ orders'[r].pay = orders[r].pay
          /\ ~Live(r) => orders'[r] = None
          /\ UNCHANGED overwritten
      BY <1>4, <2>2, <3>2 DEF HandlerStep, Refuse, PickNumber, SaveOrder, Rollback,
                              AttachPaymentIntent, LinkIntent, Answer, OrderRecord, faultVars
    <3>4. QED
      BY <1>3, <3>1, <3>3 DEF stripeVars
  <2>3. QED
    BY <2>1, <2>2
<1>5. ASSUME NEW q \in Request, CustomerPays(q) \/ CardDeclined(q)
      PROVE  ShowsCharge(r)'
  BY <1>3, <1>5 DEF CustomerPays, CardDeclined, faultVars
<1>6. ASSUME NEW x \in Restaurant, RecordOrder(x)
      PROVE  ShowsCharge(r)'
  BY <1>3, <1>6 DEF RecordOrder, stripeVars, faultVars
<1>7. ASSUME NEW x \in Restaurant, NEW q \in Request,
             DeleteOrder(x, q) \/ \E s \in AdminStatus : UpdateStatus(x, q, s)
      PROVE  ShowsCharge(r)'
  BY <1>3, <1>7 DEF DeleteOrder, UpdateStatus, OrderRecord, stripeVars, faultVars
<1>8. CASE Crash \/ UNCHANGED vars
  BY <1>3, <1>8 DEF Crash, LoseProcess, vars, stripeVars
<1>9. QED
  BY <1>1, <1>2, <1>4, <1>5, <1>6, <1>7, <1>8 DEF Next

\* With a database that answers, an order whose charge the customer confirmed and
\* Stripe considers delivered is "paid", through crashes, redeliveries and changes
\* by staff; or it is "failed", and then a failed attempt of its intent, delivered
\* late, has replaced "paid".
THEOREM ChargeRecordedHolds == Spec => []ChargeRecorded
<1>1. Init => ConfirmStages /\ ChargeRecorded
  BY DEF Init, ConfirmStages, ChargeRecorded
<1>2. QED
  BY <1>1, ConfirmStagesStep, ChargeRecordedStep, TypeCorrect, EvidenceInvariant, PTL DEF Spec

-----------------------------------------------------------------------------
(* Charged orders are kept                                                  *)

\* While a handler can still be charging, its row is there; the handler that
\* deletes a row has never seen a charge, if Stripe's answer arrived.
KeptStages ==
    \A r \in Request \ (Deletable \cup Unanswered) :
        /\ pc[r] \in {"saved", "created", "attached", "answered"} => Live(r)
        /\ intents[r] = "succeeded" => pc[r] \in {"created", "attached", "answered", "crashed"}

KeptInv == NoIntentYet /\ KeptStages /\ ChargedOrderKept

\* Every step keeps charged orders, given the stages in which a charge can happen.
LEMMA KeptStep == TypeOK /\ KeptInv /\ [Next]_vars => KeptInv'
<1> SUFFICES ASSUME TypeOK, KeptInv, [Next]_vars, NEW r \in Request \ (Deletable \cup Unanswered)
             PROVE  /\ pc'[r] \in {"saved", "created", "attached", "answered"} => orders'[r] # None
                    /\ intents'[r] = "succeeded" =>
                          orders'[r] # None /\ pc'[r] \in {"created", "attached", "answered", "crashed"}
  BY NoIntentYetStep DEF KeptInv, KeptStages, ChargedOrderKept, Live
<1> DEFINE Goal == /\ pc'[r] \in {"saved", "created", "attached", "answered"} => orders'[r] # None
                   /\ intents'[r] = "succeeded" =>
                          orders'[r] # None /\ pc'[r] \in {"created", "attached", "answered", "crashed"}
<1>0. /\ pc[r] \in {"saved", "created", "attached", "answered"} => orders[r] # None
      /\ intents[r] = "succeeded" =>
            orders[r] # None /\ pc[r] \in {"created", "attached", "answered", "crashed"}
      /\ pc[r] \in {"idle", "numbered", "saved"} => intents[r] = "none"
  BY DEF KeptInv, KeptStages, ChargedOrderKept, NoIntentYet, Live
<1> USE DEF TypeOK, Live, Goto, handlerVars, stripeVars
<1>1. ASSUME NEW q \in Request, HandlerStep(q), q # r
      PROVE  UNCHANGED <<pc[r], orders[r], intents[r]>>
  BY <1>1 DEF HandlerStep, Refuse, PickNumber, SaveOrder, CreateIntent, Rollback,
              AttachPaymentIntent, LinkIntent, Answer
<1>2. CASE HandlerStep(r)
  <2>1. CASE Refuse(r) \/ PickNumber(r) \/ Rollback(r) \/ Answer(r)
    BY <1>0, <2>1 DEF Refuse, PickNumber, Rollback, Answer
  <2>2. CASE SaveOrder(r)
    <3>1. NewOrder(num[r]) # None
      BY <2>2, ConstantsAssumption, NewOrderType DEF SaveOrder
    <3>2. QED
      BY <1>0, <2>2, <3>1 DEF SaveOrder
  <2>3. CASE CreateIntent(r)
    BY <1>0, <2>3 DEF CreateIntent, OnStripeError
  <2>4. CASE AttachPaymentIntent(r)
    <3>1. LinkIntent(r) => orders'[r] # None
      BY <1>0, <2>4, FieldWritesLive DEF AttachPaymentIntent, LinkIntent
    <3>2. QED
      BY <1>0, <2>4, <3>1 DEF AttachPaymentIntent, OnAttachError
  <2>5. QED
    BY <1>2, <2>1, <2>2, <2>3, <2>4 DEF HandlerStep
<1>3. ASSUME NEW q \in Request, CustomerPays(q) \/ CardDeclined(q)
      PROVE  Goal
  BY <1>0, <1>3 DEF CustomerPays, CardDeclined
<1>4. ASSUME NEW e \in Events, Deliver(e) \/ CrashInWebhook(e)
      PROVE  Goal
  <2>1. /\ intents' = intents
        /\ pc'[r] \in {pc[r], "crashed"}
        /\ \/ UNCHANGED orders
           \/ \E q \in MatchedBy(e) : SetPaymentStatus(q, PaymentStatusOf(e))
    BY <1>4 DEF Deliver, DeliverToOrder, DeliverToNobody, DeliverWithDBError, CrashInWebhook,
                LoseProcess, InFlight
  <2>2. orders[r] # None => orders'[r] # None
    BY <2>1, FieldWritesLive DEF MatchedBy, SetPaymentStatus, PaymentStatusOf, PaymentStatuses
  <2>3. QED
    BY <1>0, <2>1, <2>2
<1>5. ASSUME NEW x \in Restaurant, RecordOrder(x)
      PROVE  Goal
  BY <1>0, <1>5 DEF RecordOrder
<1>6. ASSUME NEW x \in Restaurant, NEW q \in Request, DeleteOrder(x, q)
      PROVE  Goal
  BY <1>0, <1>6 DEF DeleteOrder
<1>7. ASSUME NEW x \in Restaurant, NEW q \in Request, NEW s \in AdminStatus, UpdateStatus(x, q, s)
      PROVE  Goal
  <2>1. orders[r] # None => orders'[r] # None
    BY <1>7, FieldWritesLive, ConstantsAssumption DEF UpdateStatus
  <2>2. QED
    BY <1>0, <1>7, <2>1 DEF UpdateStatus
<1>8. CASE Crash \/ UNCHANGED vars
  BY <1>0, <1>8 DEF Crash, LoseProcess, InFlight, vars
<1>9. QED
  BY <1>0, <1>1, <1>2, <1>3, <1>4, <1>5, <1>6, <1>7, <1>8 DEF Next

\* Unless Stripe's answer is lost, no database error, crash or delayed event
\* makes a handler delete an order that was charged.
THEOREM ChargedOrderKeptHolds == Spec => []ChargedOrderKept
<1>1. Init => KeptInv
  BY DEF Init, KeptInv, NoIntentYet, KeptStages, ChargedOrderKept
<1>2. KeptInv => ChargedOrderKept
  BY DEF KeptInv
<1>3. QED
  BY <1>1, <1>2, KeptStep, TypeCorrect, PTL DEF Spec

-----------------------------------------------------------------------------
(* Fees match charges                                                       *)

\* Charges of a restaurant whose event Stripe considers delivered.
Acked(x) == {r \in Charged(x) : Succeeded(r) \notin pending}

\* A fee is recorded or on its way only for a charge that is acknowledged, or
\* for a delivery whose acknowledgement was lost.
BilledAtMost == \A x \in Restaurant : usage[x] + jobs[x] <= Cardinality(Acked(x)) + lostAcks

\* Acknowledged charges that the webhook must have found: not of a saved card,
\* not of an order that staff delete.
FoundBy(x) == {r \in Charged(x) \ (SavedCard \cup Deletable) : Succeeded(r) \notin pending}

BilledAtLeast ==
    ~DBFaults /\ crashes = 0 =>
        \A x \in Restaurant : usage[x] + jobs[x] >= Cardinality(FoundBy(x))

\* A row that staff do not delete is there from the insert to the answer.
RowStages ==
    \A r \in Request \ Deletable :
        pc[r] \in {"saved", "created", "attached", "answered"} => Live(r)

\* Sets of requests are finite.
LEMMA FiniteCharges ==
    \A S \in SUBSET Request : IsFiniteSet(S) /\ Cardinality(S) \in Nat
BY FiniteAssumption, FS_Subset, FS_CardinalityType

\* Every step keeps the rows of orders that staff do not delete.
LEMMA RowStagesStep == TypeOK /\ RowStages /\ [Next]_vars => RowStages'
<1> SUFFICES ASSUME TypeOK, RowStages, [Next]_vars, NEW r \in Request \ Deletable,
                    pc'[r] \in {"saved", "created", "attached", "answered"}
             PROVE  orders'[r] # None
  BY DEF RowStages, Live
<1>0. pc[r] \in {"saved", "created", "attached", "answered"} => orders[r] # None
  BY DEF RowStages, Live
<1> USE DEF TypeOK, Live, Goto, handlerVars
<1>1. ASSUME NEW q \in Request, HandlerStep(q), q # r
      PROVE  UNCHANGED <<pc[r], orders[r]>>
  BY <1>1 DEF HandlerStep, Refuse, PickNumber, SaveOrder, CreateIntent, Rollback,
              AttachPaymentIntent, LinkIntent, Answer
<1>2. CASE HandlerStep(r)
  <2>1. CASE Refuse(r) \/ PickNumber(r) \/ Rollback(r) \/ Answer(r)
    BY <1>0, <2>1 DEF Refuse, PickNumber, Rollback, Answer
  <2>2. CASE SaveOrder(r)
    <3>1. NewOrder(num[r]) # None
      BY <2>2, ConstantsAssumption, NewOrderType DEF SaveOrder
    <3>2. QED
      BY <1>0, <2>2, <3>1 DEF SaveOrder
  <2>3. CASE CreateIntent(r)
    BY <1>0, <2>3 DEF CreateIntent, OnStripeError
  <2>4. CASE AttachPaymentIntent(r)
    <3>1. LinkIntent(r) => orders'[r] # None
      BY <1>0, <2>4, FieldWritesLive DEF AttachPaymentIntent, LinkIntent
    <3>2. QED
      BY <1>0, <2>4, <3>1 DEF AttachPaymentIntent, OnAttachError
  <2>5. QED
    BY <1>2, <2>1, <2>2, <2>3, <2>4 DEF HandlerStep
<1>3. CASE pc'[r] = pc[r] /\ (orders[r] # None => orders'[r] # None)
  BY <1>0, <1>3
<1>4. ASSUME NEW e \in Events, Deliver(e) \/ CrashInWebhook(e)
      PROVE  orders'[r] # None
  <2>1. /\ pc'[r] = pc[r]
        /\ \/ UNCHANGED orders
           \/ \E q \in MatchedBy(e) : SetPaymentStatus(q, PaymentStatusOf(e))
    BY <1>4 DEF Deliver, DeliverToOrder, DeliverToNobody, DeliverWithDBError, CrashInWebhook,
                LoseProcess, InFlight
  <2>2. orders[r] # None => orders'[r] # None
    BY <2>1, FieldWritesLive DEF MatchedBy, SetPaymentStatus, PaymentStatusOf, PaymentStatuses
  <2>3. QED
    BY <1>3, <2>1, <2>2
<1>5. ASSUME NEW x \in Restaurant, NEW q \in Request, NEW s \in AdminStatus, UpdateStatus(x, q, s)
      PROVE  orders'[r] # None
  <2>1. orders[r] # None => orders'[r] # None
    BY <1>5, FieldWritesLive, ConstantsAssumption DEF UpdateStatus
  <2>2. QED
    BY <1>3, <1>5, <2>1 DEF UpdateStatus
<1>6. ASSUME NEW x \in Restaurant, NEW q \in Request,
             CustomerPays(q) \/ CardDeclined(q) \/ RecordOrder(x) \/ DeleteOrder(x, q)
      PROVE  orders'[r] # None
  BY <1>0, <1>6 DEF CustomerPays, CardDeclined, RecordOrder, DeleteOrder
<1>7. CASE Crash \/ UNCHANGED vars
  BY <1>0, <1>7 DEF Crash, LoseProcess, InFlight, vars
<1>8. Restaurant # {} \/ ~\E q \in Request : TRUE
  BY ConstantsAssumption
<1>9. QED
  BY <1>0, <1>1, <1>2, <1>4, <1>5, <1>6, <1>7, <1>8 DEF Next

\* A charge enters with its event pending, so only a webhook's answer makes it
\* acknowledged.
LEMMA AckedSteps ==
    ASSUME TypeOK, NoIntentYet, NEW q \in Request,
           HandlerStep(q) \/ CustomerPays(q) \/ CardDeclined(q)
    PROVE  /\ UNCHANGED <<billingVars, faultVars>>
           /\ \A r \in Request : intents'[r] = "succeeded" /\ Succeeded(r) \notin pending'
                                   <=> intents[r] = "succeeded" /\ Succeeded(r) \notin pending
<1>1. CASE CreateIntent(q)
  BY <1>1, EventsDiffer DEF CreateIntent, TypeOK, NoIntentYet, stripeVars
<1>2. CASE CustomerPays(q) \/ CardDeclined(q)
  BY <1>2, EventsDiffer DEF CustomerPays, CardDeclined, TypeOK
<1>3. ASSUME HandlerStep(q), ~CreateIntent(q)
      PROVE  UNCHANGED <<stripeVars, billingVars, faultVars>>
  BY <1>3 DEF HandlerStep, Refuse, PickNumber, SaveOrder, Rollback, AttachPaymentIntent, Answer
<1>4. QED
  BY <1>1, <1>2, <1>3 DEF stripeVars

\* A webhook starts at most one goroutine, and only for the order whose charge
\* it is about.
LEMMA WebhookBills ==
    ASSUME TypeOK, EvidenceInv, NEW e \in Events, Deliver(e)
    PROVE  \/ UNCHANGED jobs
           \/ /\ Live(e.intent) /\ e = Succeeded(e.intent) /\ intents[e.intent] = "succeeded"
              /\ e.intent \in Request
              /\ jobs' = [jobs EXCEPT ![RestaurantOf[e.intent]] = @ + 1]
<1>1. CASE DeliverToOrder(e)
  <2>1. PICK r \in MatchedBy(e) :
           jobs' = IF BillsOrder(e) THEN [jobs EXCEPT ![RestaurantOf[r]] = @ + 1] ELSE jobs
    BY <1>1 DEF DeliverToOrder
  <2>2. r \in Request /\ Live(r) /\ r = e.intent
    BY <2>1, ConstantsAssumption DEF MatchedBy, EvidenceInv, PaymentEvidence, Events, Succeeded, Failed
  <2>3. e = Succeeded(r) => intents[r] = "succeeded"
    BY <2>2 DEF Deliver, EvidenceInv, EventEvidence
  <2>4. QED
    BY <2>1, <2>2, <2>3 DEF BillsOrder
<1>2. CASE DeliverToNobody(e) \/ DeliverWithDBError(e)
  BY <1>2 DEF DeliverToNobody, DeliverWithDBError, billingVars
<1>3. QED
  BY <1>1, <1>2 DEF Deliver

\* What a delivery leaves alone, and what becomes of its event.
LEMMA DeliverFrame ==
    ASSUME NEW e \in Events, Deliver(e)
    PROVE  /\ e \in pending /\ UNCHANGED <<intents, usage, crashes, pc>>
           /\ \/ pending' = pending \ {e} /\ lostAcks' = lostAcks
              \/ pending' = pending /\ lostAcks' = lostAcks + 1
BY DEF Deliver, DeliverToOrder, DeliverToNobody, DeliverWithDBError, Acknowledge, handlerVars, billingVars

\* Every step keeps the fees at or below the charges.
LEMMA BilledAtMostStep == TypeOK /\ EvidenceInv /\ BilledAtMost /\ [Next]_vars => BilledAtMost'
<1> SUFFICES ASSUME TypeOK, EvidenceInv, BilledAtMost, [Next]_vars, NEW x \in Restaurant
             PROVE  usage'[x] + jobs'[x] <= Cardinality(Acked(x)') + lostAcks'
  BY DEF BilledAtMost
<1> DEFINE Goal == usage'[x] + jobs'[x] <= Cardinality(Acked(x)') + lostAcks'
<1>0. /\ usage[x] + jobs[x] <= Cardinality(Acked(x)) + lostAcks
      /\ usage[x] \in Nat /\ jobs[x] \in Nat /\ lostAcks \in Nat
      /\ IsFiniteSet(Acked(x)) /\ Cardinality(Acked(x)) \in Nat
      /\ IsFiniteSet(Acked(x)') /\ Cardinality(Acked(x)') \in Nat
  BY FiniteCharges DEF BilledAtMost, TypeOK, Acked, Charged
<1>1. ASSUME NEW q \in Request, HandlerStep(q) \/ CustomerPays(q) \/ CardDeclined(q)
      PROVE  Goal
  <2>1. Acked(x)' = Acked(x) /\ UNCHANGED <<billingVars, faultVars>>
    BY <1>1, AckedSteps DEF EvidenceInv, Acked, Charged
  <2>2. QED
    BY <1>0, <2>1 DEF billingVars, faultVars
<1>2. ASSUME NEW e \in Events, Deliver(e)
      PROVE  Goal
  <2>1. \/ pending' = pending \ {e} /\ lostAcks' = lostAcks
        \/ pending' = pending /\ lostAcks' = lostAcks + 1
    BY <1>2, DeliverFrame
  <2>2. Acked(x) \subseteq Acked(x)' /\ usage' = usage
    BY <1>2, DeliverFrame DEF Acked, Charged
  <2>3. Cardinality(Acked(x)) <= Cardinality(Acked(x)')
    BY <1>0, <2>2, FS_Subset
  <2>4. CASE jobs'[x] = jobs[x]
    BY <1>0, <2>1, <2>2, <2>3, <2>4
  <2>5. CASE lostAcks' = lostAcks + 1
    <3>1. jobs'[x] <= jobs[x] + 1 /\ jobs'[x] \in Nat
      BY <1>0, <1>2, WebhookBills DEF TypeOK
    <3>2. QED
      BY <1>0, <2>2, <2>3, <2>5, <3>1
  <2>6. CASE jobs'[x] # jobs[x] /\ pending' = pending \ {e} /\ lostAcks' = lostAcks
    <3>1. /\ e.intent \in Request /\ e = Succeeded(e.intent) /\ intents[e.intent] = "succeeded"
          /\ x = RestaurantOf[e.intent] /\ jobs'[x] = jobs[x] + 1
      BY <1>2, <2>6, WebhookBills, ConstantsAssumption DEF TypeOK
    <3>2. e.intent \notin Acked(x) /\ e.intent \in Acked(x)'
      BY <1>2, <2>6, <3>1, DeliverFrame DEF Acked, Charged
    <3>3. Cardinality(Acked(x) \cup {e.intent}) = Cardinality(Acked(x)) + 1
      BY <1>0, <3>2, FS_AddElement
    <3>4. Cardinality(Acked(x) \cup {e.intent}) <= Cardinality(Acked(x)')
      BY <1>0, <2>2, <3>2, FS_Subset
    <3>5. QED
      BY <1>0, <2>2, <2>6, <3>1, <3>3, <3>4
  <2>7. QED
    BY <2>1, <2>4, <2>5, <2>6
<1>3. ASSUME NEW y \in Restaurant, RecordOrder(y)
      PROVE  Goal
  <2>1. Acked(x)' = Acked(x) /\ lostAcks' = lostAcks
    BY <1>3 DEF RecordOrder, Acked, Charged, stripeVars, faultVars
  <2>2. usage'[x] + jobs'[x] <= usage[x] + jobs[x]
    BY <1>0, <1>3 DEF RecordOrder, TypeOK
  <2>3. usage'[x] \in Nat /\ jobs'[x] \in Nat
    BY <1>0, <1>3 DEF RecordOrder, TypeOK
  <2>4. QED
    BY <1>0, <2>1, <2>2, <2>3
<1>4. CASE /\ UNCHANGED <<intents, pending, usage, lostAcks>>
           /\ jobs'[x] \in {0, jobs[x]}
  <2>1. Acked(x)' = Acked(x)
    BY <1>4 DEF Acked, Charged
  <2>2. QED
    BY <1>0, <1>4, <2>1
<1>5. ASSUME NEW y \in Restaurant, NEW q \in Request,
             DeleteOrder(y, q) \/ \E s \in AdminStatus : UpdateStatus(y, q, s)
      PROVE  Goal
  BY <1>4, <1>5 DEF DeleteOrder, UpdateStatus, stripeVars, billingVars, faultVars
<1>6. ASSUME LoseProcess
      PROVE  Goal
  BY <1>4, <1>6 DEF LoseProcess, stripeVars
<1>7. CASE UNCHANGED vars
  BY <1>4, <1>7 DEF vars
<1>8. QED
  BY <1>1, <1>2, <1>3, <1>5, <1>6, <1>7 DEF Next, Crash, CrashInWebhook

\* With a database that answers, a webhook finds the order of an acknowledged
\* charge and starts its goroutine.
LEMMA FoundIsBilled ==
    ASSUME TypeOK, EvidenceInv, ConfirmStages, RowStages, ~DBFaults, NEW e \in Events, Deliver(e),
           NEW r \in Request \ (SavedCard \cup Deletable), e = Succeeded(r)
    PROVE  jobs' = [jobs EXCEPT ![RestaurantOf[r]] = @ + 1]
<1>1. intents[r] = "succeeded" /\ e.intent = r
  BY DEF Deliver, EvidenceInv, EventEvidence, Succeeded
<1>2. Live(r) /\ orders[r].intent = r
  BY <1>1 DEF ConfirmStages, RowStages
<1>3. \A q \in MatchedBy(e) : q = r
  BY <1>1, ConstantsAssumption DEF MatchedBy, EvidenceInv, PaymentEvidence
<1>4. r \in MatchedBy(e)
  BY <1>1, <1>2 DEF MatchedBy
<1>5. DeliverToOrder(e)
  BY <1>4 DEF Deliver, DeliverToNobody, DeliverWithDBError
<1>6. QED
  BY <1>1, <1>3, <1>5 DEF DeliverToOrder, BillsOrder

\* Every step keeps the fees at or above the charges that were found.
LEMMA BilledAtLeastStep ==
    TypeOK /\ EvidenceInv /\ ConfirmStages /\ RowStages /\ BilledAtLeast /\ [Next]_vars
        => BilledAtLeast'
<1> SUFFICES ASSUME TypeOK, EvidenceInv, ConfirmStages, RowStages, BilledAtLeast, [Next]_vars,
                    ~DBFaults, crashes' = 0, NEW x \in Restaurant
             PROVE  usage'[x] + jobs'[x] >= Cardinality(FoundBy(x)')
  BY DEF BilledAtLeast
<1> DEFINE Goal == usage'[x] + jobs'[x] >= Cardinality(FoundBy(x)')
<1>0. /\ usage[x] \in Nat /\ jobs[x] \in Nat
      /\ crashes = 0 => usage[x] + jobs[x] >= Cardinality(FoundBy(x))
      /\ IsFiniteSet(FoundBy(x)) /\ Cardinality(FoundBy(x)) \in Nat
      /\ IsFiniteSet(FoundBy(x)') /\ Cardinality(FoundBy(x)') \in Nat
  BY FiniteCharges DEF BilledAtLeast, TypeOK, FoundBy, Charged
<1>1. ASSUME NEW q \in Request, HandlerStep(q) \/ CustomerPays(q) \/ CardDeclined(q)
      PROVE  Goal
  <2>1. FoundBy(x)' = FoundBy(x) /\ UNCHANGED <<billingVars, faultVars>>
    BY <1>1, AckedSteps DEF EvidenceInv, FoundBy, Charged
  <2>2. QED
    BY <1>0, <2>1 DEF billingVars, faultVars
<1>2. ASSUME NEW e \in Events, Deliver(e)
      PROVE  Goal
  <2>1. usage' = usage /\ crashes = 0 /\ intents' = intents /\ pending' \in {pending, pending \ {e}}
    BY <1>2, DeliverFrame
  <2>2. jobs'[x] \in {jobs[x], jobs[x] + 1}
    BY <1>2, WebhookBills DEF TypeOK
  <2>3. CASE FoundBy(x)' \subseteq FoundBy(x)
    <3>1. Cardinality(FoundBy(x)') <= Cardinality(FoundBy(x))
      BY <1>0, <2>3, FS_Subset
    <3>2. QED
      BY <1>0, <2>1, <2>2, <3>1
  <2>4. ASSUME NEW r \in FoundBy(x)', r \notin FoundBy(x)
        PROVE  Goal
    <3>1. r \in Request \ (SavedCard \cup Deletable) /\ e = Succeeded(r) /\ RestaurantOf[r] = x
      BY <2>1, <2>4 DEF FoundBy, Charged
    <3>2. jobs'[x] = jobs[x] + 1
      BY <1>2, <3>1, FoundIsBilled DEF TypeOK
    <3>3. FoundBy(x)' \subseteq FoundBy(x) \cup {r}
      BY <2>1, <3>1, EventsDiffer DEF FoundBy, Charged
    <3>4. /\ IsFiniteSet(FoundBy(x) \cup {r})
          /\ Cardinality(FoundBy(x) \cup {r}) = Cardinality(FoundBy(x)) + 1
      BY <1>0, <2>4, FS_AddElement
    <3>5. Cardinality(FoundBy(x)') <= Cardinality(FoundBy(x)) + 1
      BY <3>3, <3>4, FS_Subset
    <3>6. QED
      BY <1>0, <2>1, <3>2, <3>5
  <2>5. QED
    BY <2>3, <2>4
<1>3. ASSUME NEW y \in Restaurant, RecordOrder(y)
      PROVE  Goal
  <2>1. FoundBy(x)' = FoundBy(x) /\ crashes' = crashes
    BY <1>3 DEF RecordOrder, FoundBy, Charged, stripeVars, faultVars
  <2>2. usage'[x] + jobs'[x] = usage[x] + jobs[x]
    BY <1>0, <1>3 DEF RecordOrder, TypeOK
  <2>3. QED
    BY <1>0, <2>1, <2>2
<1>4. CASE UNCHANGED <<intents, pending, usage, jobs, crashes>>
  <2>1. FoundBy(x)' = FoundBy(x)
    BY <1>4 DEF FoundBy, Charged
  <2>2. QED
    BY <1>0, <1>4, <2>1
<1>5. ASSUME NEW y \in Restaurant, NEW q \in Request,
             DeleteOrder(y, q) \/ \E s \in AdminStatus : UpdateStatus(y, q, s)
      PROVE  Goal
  BY <1>4, <1>5 DEF DeleteOrder, UpdateStatus, stripeVars, billingVars, faultVars
<1>6. ~LoseProcess
  BY DEF LoseProcess, TypeOK
<1>7. CASE UNCHANGED vars
  BY <1>4, <1>7 DEF vars
<1>8. QED
  BY <1>1, <1>2, <1>3, <1>5, <1>6, <1>7 DEF Next, Crash, CrashInWebhook

\* A restaurant is never billed for more than its charges and the lost
\* acknowledgements, and, while the database answers and the process lives,
\* for no fewer than the charges that the webhook could find.
THEOREM FeesMatchChargesHolds == Spec => []FeesMatchCharges
<1>1. Init => ConfirmStages /\ RowStages /\ BilledAtMost /\ BilledAtLeast
  <2> SUFFICES ASSUME Init PROVE ConfirmStages /\ RowStages /\ BilledAtMost /\ BilledAtLeast
    OBVIOUS
  <2>1. \A x \in Restaurant : Acked(x) = {} /\ FoundBy(x) = {}
    BY DEF Init, Acked, FoundBy, Charged
  <2>2. \A x \in Restaurant : /\ Cardinality(Acked(x)) = 0 /\ Cardinality(FoundBy(x)) = 0
                              /\ usage[x] = 0 /\ jobs[x] = 0
    BY <2>1, FS_EmptySet DEF Init
  <2>3. BilledAtMost /\ BilledAtLeast
    BY <2>2 DEF Init, BilledAtMost, BilledAtLeast
  <2>4. ConfirmStages /\ RowStages
    BY DEF Init, ConfirmStages, RowStages
  <2>5. QED
    BY <2>3, <2>4
<1>2. TypeOK /\ BilledAtMost /\ BilledAtLeast => FeesMatchCharges
  <2> SUFFICES ASSUME TypeOK, BilledAtMost, BilledAtLeast, NEW x \in Restaurant
               PROVE  /\ usage[x] + jobs[x] <= Cardinality(Charged(x)) + lostAcks
                      /\ ~DBFaults /\ crashes = 0 => usage[x] + jobs[x] >= Cardinality(FoundBy(x))
    BY DEF FeesMatchCharges, FoundBy
  <2>1. IsFiniteSet(Charged(x)) /\ Cardinality(Charged(x)) \in Nat
    BY FiniteCharges DEF Charged
  <2>2. Cardinality(Acked(x)) <= Cardinality(Charged(x)) /\ Cardinality(Acked(x)) \in Nat
    BY <2>1, FS_Subset, FiniteCharges DEF Acked, Charged
  <2>3. QED
    BY <2>1, <2>2 DEF TypeOK, BilledAtMost, BilledAtLeast
<1>3. QED
  BY <1>1, <1>2, TypeCorrect, EvidenceInvariant, ConfirmStagesStep, RowStagesStep,
     BilledAtMostStep, BilledAtLeastStep, PTL DEF Spec

-----------------------------------------------------------------------------
(* The implementation keeps the promise                                     *)

\* A request whose handler has not inserted anything has no row, and none whose
\* handler has not called Stripe has a declined attempt.
FreshRequests ==
    \A r \in Request : /\ pc[r] \in {"idle", "numbered"} => orders[r] = None
                       /\ pc[r] \in {"idle", "numbered", "saved"} => declines[r] = 0

\* Every step keeps requests fresh that have not come further.
LEMMA FreshStep == TypeOK /\ FreshRequests /\ [Next]_vars => FreshRequests'
<1> SUFFICES ASSUME TypeOK, FreshRequests, [Next]_vars, NEW r \in Request
             PROVE  /\ pc'[r] \in {"idle", "numbered"} => orders'[r] = None
                    /\ pc'[r] \in {"idle", "numbered", "saved"} => declines'[r] = 0
  BY DEF FreshRequests
<1> DEFINE Goal == /\ pc'[r] \in {"idle", "numbered"} => orders'[r] = None
                   /\ pc'[r] \in {"idle", "numbered", "saved"} => declines'[r] = 0
<1> USE DEF TypeOK, FreshRequests, Goto, handlerVars, stripeVars
<1>1. ASSUME NEW q \in Request, HandlerStep(q)
      PROVE  Goal
  BY <1>1 DEF HandlerStep, Refuse, PickNumber, SaveOrder, CreateIntent, OnStripeError, Rollback,
              AttachPaymentIntent, OnAttachError, LinkIntent, Live, Answer
<1>2. ASSUME NEW q \in Request, CustomerPays(q) \/ CardDeclined(q)
      PROVE  Goal
  BY <1>2 DEF CustomerPays, CardDeclined
<1>3. ASSUME NEW e \in Events, Deliver(e) \/ CrashInWebhook(e)
      PROVE  Goal
  <2>1. /\ pc'[r] \in {pc[r], "crashed"} /\ declines' = declines
        /\ \/ UNCHANGED orders
           \/ \E q \in MatchedBy(e) : SetPaymentStatus(q, PaymentStatusOf(e))
    BY <1>3 DEF Deliver, DeliverToOrder, DeliverToNobody, DeliverWithDBError, CrashInWebhook,
                LoseProcess, InFlight
  <2>2. orders[r] = None => orders'[r] = None
    BY <2>1 DEF MatchedBy, SetPaymentStatus, Live
  <2>3. QED
    BY <2>1, <2>2
<1>4. ASSUME NEW x \in Restaurant, NEW q \in Request,
             DeleteOrder(x, q) \/ \E s \in AdminStatus : UpdateStatus(x, q, s)
      PROVE  Goal
  BY <1>4 DEF DeleteOrder, UpdateStatus, Live
<1>5. ASSUME NEW x \in Restaurant, RecordOrder(x)
      PROVE  Goal
  BY <1>5 DEF RecordOrder
<1>6. CASE Crash \/ UNCHANGED vars
  BY <1>6 DEF Crash, LoseProcess, InFlight, vars
<1>7. QED
  BY <1>1, <1>2, <1>3, <1>4, <1>5, <1>6 DEF Next

\* The customer's view of a row follows from what is written to it.
LEMMA ShownSteps ==
    ASSUME TypeOK, NEW r \in Request
    PROVE  /\ UNCHANGED orders => UNCHANGED Shown
           /\ \A row \in OrderRecord : orders' = [orders EXCEPT ![r] = row]
                 => Shown' = [Shown EXCEPT ![r] = row.pay]
           /\ orders' = [orders EXCEPT ![r] = None] => Shown' = [Shown EXCEPT ![r] = "absent"]
<1>1. None \notin OrderRecord
  BY ConstantsAssumption
<1>2. QED
  BY <1>1 DEF Shown, Live, TypeOK

\* What a step does to the orders is a step of the promise, if Stripe's side
\* does not move.
LEMMA RowChangeRefines ==
    ASSUME TypeOK, EvidenceInv, FreshRequests, NEW r \in Request, RowChange(r),
           UNCHANGED <<intents, declines>>
    PROVE  UNCHANGED Shown \/ Promise!Place(r) \/ Promise!Settle(r) \/ Promise!MarkFailed(r)
               \/ Promise!Remove(r)
<1> USE DEF Promise!Show
<1>0. UNCHANGED <<ChargedOrders, DeclinedOrders>>
  BY DEF ChargedOrders, DeclinedOrders
<1>1. CASE SaveOrder(r) /\ ~UNCHANGED orders
  <2>1. num[r] \in Number /\ orders' = [orders EXCEPT ![r] = NewOrder(num[r])]
    BY <1>1, ConstantsAssumption DEF SaveOrder, TypeOK
  <2>2. NewOrder(num[r]) \in OrderRecord /\ NewOrder(num[r]).pay = "pending"
    BY <2>1, NewOrderType DEF NewOrder
  <2>3. Shown' = [Shown EXCEPT ![r] = "pending"]
    BY <2>1, <2>2, ShownSteps
  <2>4. orders[r] = None /\ declines[r] = 0 /\ intents[r] = "none"
    BY <1>1 DEF SaveOrder, FreshRequests, EvidenceInv, NoIntentYet
  <2>5. Shown[r] = "absent" /\ r \notin ChargedOrders \cup DeclinedOrders
    BY <2>4 DEF Shown, Live, ChargedOrders, DeclinedOrders
  <2>6. QED
    BY <1>0, <2>3, <2>5 DEF Promise!Place
<1>2. CASE orders' = [orders EXCEPT ![r] = None]
  <2>1. CASE Live(r)
    <3>1. Shown[r] # "absent"
      BY <2>1 DEF Shown, TypeOK, Live, OrderRecord, PaymentStatuses
    <3>2. QED
      BY <1>0, <1>2, <3>1, ShownSteps DEF Promise!Remove
  <2>2. CASE ~Live(r)
    <3>1. orders' = orders
      BY <1>2, <2>2 DEF Live, TypeOK
    <3>2. QED
      BY <3>1, ShownSteps
  <2>3. QED
    BY <2>1, <2>2
<1>3. ASSUME NEW row \in OrderRecord, Live(r), orders' = [orders EXCEPT ![r] = row], row.pay = orders[r].pay
      PROVE  UNCHANGED Shown
  <2>1. Shown' = [Shown EXCEPT ![r] = row.pay]
    BY <1>3, ShownSteps
  <2>2. Shown[r] = row.pay
    BY <1>3 DEF Shown
  <2>3. QED
    BY <2>1, <2>2 DEF Shown
<1>4. ASSUME Live(r), \/ \E s \in Statuses : orders' = [orders EXCEPT ![r].status = s]
                      \/ orders' = [orders EXCEPT ![r].intent = r]
      PROVE  UNCHANGED Shown
  <2>1. orders[r] \in OrderRecord
    BY <1>4 DEF Live, TypeOK
  <2>2. /\ \A s \in Statuses : /\ [orders[r] EXCEPT !.status = s] \in OrderRecord
                               /\ [orders[r] EXCEPT !.status = s].pay = orders[r].pay
        /\ [orders[r] EXCEPT !.intent = r] \in OrderRecord
        /\ [orders[r] EXCEPT !.intent = r].pay = orders[r].pay
    BY <2>1 DEF OrderRecord
  <2>3. QED
    BY <1>3, <1>4, <2>2
<1>5. ASSUME NEW e \in pending \cap Events, r \in MatchedBy(e), SetPaymentStatus(r, PaymentStatusOf(e))
      PROVE  Promise!Settle(r) \/ Promise!MarkFailed(r)
  <2>1. Live(r) /\ r = e.intent
    BY <1>5, ConstantsAssumption DEF MatchedBy, EvidenceInv, PaymentEvidence, Events, Succeeded, Failed
  <2>2. orders[r] \in OrderRecord /\ Shown[r] # "absent"
    BY <2>1 DEF Live, TypeOK, Shown, OrderRecord, PaymentStatuses
  <2>3. PaymentStatusOf(e) \in PaymentStatuses
    BY DEF PaymentStatusOf, PaymentStatuses
  <2>4. /\ [orders[r] EXCEPT !.pay = PaymentStatusOf(e)] \in OrderRecord
        /\ [orders[r] EXCEPT !.pay = PaymentStatusOf(e)].pay = PaymentStatusOf(e)
    BY <2>2, <2>3 DEF OrderRecord
  <2>5. Shown' = [Shown EXCEPT ![r] = PaymentStatusOf(e)]
    BY <1>5, <2>4, ShownSteps DEF SetPaymentStatus
  <2>6. /\ e = Succeeded(r) => r \in ChargedOrders
        /\ e # Succeeded(r) => r \in DeclinedOrders
    <3>1. r \in Request /\ (e = Succeeded(r) \/ e = Failed(r))
      BY <1>5, <2>1 DEF Events, Succeeded, Failed
    <3>2. QED
      BY <1>5, <3>1 DEF EvidenceInv, EventEvidence, ChargedOrders, DeclinedOrders
  <2>7. QED
    BY <1>0, <2>1, <2>2, <2>5, <2>6 DEF PaymentStatusOf, Promise!Settle, Promise!MarkFailed
<1>6. QED
  BY <1>1, <1>2, <1>4, <1>5, ShownSteps DEF RowChange

\* What a step does at Stripe is a step of the promise, if no row changes.
LEMMA StripeRefines ==
    ASSUME TypeOK, NoIntentYet, UNCHANGED orders, NEW r \in Request,
           CreateIntent(r) \/ CustomerPays(r) \/ CardDeclined(r)
    PROVE  \/ UNCHANGED <<ChargedOrders, DeclinedOrders>>
           \/ Promise!Charge(r) \/ Promise!Decline(r)
<1>1. UNCHANGED Shown /\ (intents[r] # "succeeded" => r \notin ChargedOrders)
  BY ShownSteps DEF ChargedOrders
<1>2. CASE declines' = declines /\ intents'[r] # "succeeded" /\ intents[r] # "succeeded"
           /\ \A q \in Request \ {r} : intents'[q] = intents[q]
  BY <1>2 DEF ChargedOrders, DeclinedOrders
<1>3. CASE declines' = declines /\ intents[r] # "succeeded"
           /\ intents' = [intents EXCEPT ![r] = "succeeded"]
  <2>1. ChargedOrders' = ChargedOrders \cup {r} /\ DeclinedOrders' = DeclinedOrders
    BY <1>3 DEF ChargedOrders, DeclinedOrders, TypeOK
  <2>2. QED
    BY <1>1, <1>3, <2>1 DEF Promise!Charge
<1>4. CASE declines' = [declines EXCEPT ![r] = @ + 1] /\ intents[r] # "succeeded"
           /\ intents'[r] # "succeeded"
           /\ \A q \in Request \ {r} : intents'[q] = intents[q]
  <2>1. ChargedOrders' = ChargedOrders /\ DeclinedOrders' = DeclinedOrders \cup {r}
    BY <1>4 DEF ChargedOrders, DeclinedOrders, TypeOK
  <2>2. QED
    BY <1>1, <1>4, <2>1 DEF Promise!Decline
<1>5. CASE CreateIntent(r)
  <2>1. intents[r] = "none"
    BY <1>5 DEF CreateIntent, NoIntentYet
  <2>2. \/ UNCHANGED <<intents, declines>>
        \/ intents' = [intents EXCEPT ![r] = "open"] /\ declines' = declines
        \/ intents' = [intents EXCEPT ![r] = "succeeded"] /\ declines' = declines
        \/ intents' = [intents EXCEPT ![r] = "open"] /\ declines' = [declines EXCEPT ![r] = @ + 1]
    BY <1>5 DEF CreateIntent, stripeVars
  <2>3. CASE UNCHANGED <<intents, declines>>
    BY <2>3 DEF ChargedOrders, DeclinedOrders
  <2>4. QED
    BY <1>2, <1>3, <1>4, <2>1, <2>2, <2>3 DEF TypeOK
<1>6. CASE CustomerPays(r) \/ CardDeclined(r)
  BY <1>3, <1>4, <1>6 DEF CustomerPays, CardDeclined
<1>7. QED
  BY <1>5, <1>6

\* No step moves both sides at once.
LEMMA OneSideMoves ==
    ASSUME [Next]_vars
    PROVE  \/ UNCHANGED <<intents, declines>>
           \/ UNCHANGED orders /\ \E r \in Request : CreateIntent(r) \/ CustomerPays(r) \/ CardDeclined(r)
<1> USE DEF stripeVars
<1>1. ASSUME NEW r \in Request, HandlerStep(r) \/ CustomerPays(r) \/ CardDeclined(r)
      PROVE  \/ UNCHANGED <<intents, declines>>
             \/ UNCHANGED orders /\ (CreateIntent(r) \/ CustomerPays(r) \/ CardDeclined(r))
  BY <1>1 DEF HandlerStep, Refuse, PickNumber, SaveOrder, Rollback, AttachPaymentIntent, Answer,
              CreateIntent, CustomerPays, CardDeclined
<1>2. ASSUME NEW e \in Events, Deliver(e) \/ CrashInWebhook(e)
      PROVE  UNCHANGED <<intents, declines>>
  BY <1>2 DEF Deliver, DeliverToOrder, DeliverToNobody, DeliverWithDBError, CrashInWebhook, LoseProcess
<1>3. ASSUME NEW x \in Restaurant, NEW r \in Request,
             DeleteOrder(x, r) \/ \E s \in AdminStatus : UpdateStatus(x, r, s)
      PROVE  UNCHANGED <<intents, declines>>
  BY <1>3 DEF DeleteOrder, UpdateStatus
<1>4. ASSUME NEW x \in Restaurant, RecordOrder(x)
      PROVE  UNCHANGED <<intents, declines>>
  BY <1>4 DEF RecordOrder
<1>5. CASE Crash \/ UNCHANGED vars
  BY <1>5 DEF Crash, LoseProcess, vars
<1>6. QED
  BY <1>1, <1>2, <1>3, <1>4, <1>5 DEF Next

\* Every step of the implementation is a step of the promise or does not show.
LEMMA StepRefines ==
    TypeOK /\ EvidenceInv /\ FreshRequests /\ [Next]_vars
        => [Promise!PromiseNext]_(Promise!promiseVars)
<1> SUFFICES ASSUME TypeOK, EvidenceInv, FreshRequests, [Next]_vars
             PROVE  Promise!PromiseNext \/ UNCHANGED Promise!promiseVars
  OBVIOUS
<1> USE DEF Promise!PromiseNext, Promise!promiseVars
<1>1. CASE UNCHANGED <<intents, declines>>
  <2>1. UNCHANGED <<ChargedOrders, DeclinedOrders>>
    BY <1>1 DEF ChargedOrders, DeclinedOrders
  <2>2. CASE UNCHANGED orders
    <3>1. UNCHANGED Shown
      BY <2>2 DEF Shown, Live
    <3>2. QED
      BY <2>1, <3>1
  <2>3. ASSUME NEW r \in Request, RowChange(r)
        PROVE  Promise!PromiseNext \/ UNCHANGED Promise!promiseVars
    BY <1>1, <2>1, <2>3, RowChangeRefines
  <2>4. QED
    BY <2>2, <2>3, RowSteps
<1>2. ASSUME NEW r \in Request, UNCHANGED orders, CreateIntent(r) \/ CustomerPays(r) \/ CardDeclined(r)
      PROVE  Promise!PromiseNext \/ UNCHANGED Promise!promiseVars
  <2>1. UNCHANGED Shown
    BY <1>2 DEF Shown, Live
  <2>2. QED
    BY <1>2, <2>1, StripeRefines DEF EvidenceInv
<1>3. QED
  BY <1>1, <1>2, OneSideMoves

\* Checkout, webhooks, staff and crashes together implement the promise to
\* customers, for all requests, faults and interleavings.
THEOREM RefinesPromise == Spec => ImplementsPromise
<1>1. Init => FreshRequests
  BY DEF Init, FreshRequests
<1>2. Init => Promise!PromiseInit
  BY DEF Init, Promise!PromiseInit, Shown, Live, ChargedOrders, DeclinedOrders
<1>3. QED
  BY <1>1, <1>2, FreshStep, StepRefines, TypeCorrect, EvidenceInvariant, PTL
     DEF Spec, ImplementsPromise, Promise!PromiseSpec
=============================================================================
