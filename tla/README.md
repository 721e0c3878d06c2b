# Verification of restaurant-saas-go

TLA+ models of the Go backend in this repository (Fiber, MongoDB, Redis,
Stripe), TLC runs that check them on small instances, and TLAPS proofs of the
properties that matter most. Line numbers refer to `src/`.

## 1. The system and its hard parts

The API server is a set of stateless HTTP handlers over MongoDB. State lives in
collections; almost every operation is one single-document write, and the code
strings such writes together without transactions. The one transaction is the
redemption of an invite. Stripe is called in the middle of handlers and calls
back with webhooks. Goroutines do follow-up work after the answer has gone out.
The WebSocket hub is memory of one process.

| Component | State | Operations | What is hard |
| --- | --- | --- | --- |
| Checkout and payment (`payment`, `order`) | `orders`; Stripe's intents | create-intent, webhook, status update, deletion | the order is inserted, Stripe called and the intent attached in three steps; webhooks come at least once, in any order, even before the attach; errors are logged and answered 200; crashes |
| Billing (`billing`) | `billing`, `billing_usage`; Stripe's customers and subscriptions | setup and subscription checkout, portal, webhook, usage | read-then-create of the customer, unordered subscription events, usage recorded by a goroutine |
| Onboarding and admins (`restaurant`, `invite`, `admin`, `auth`) | `restaurants`, `admin_users`, `admin_invites` | create, invite, revoke, finalize, remove, prune at boot | two inserts without a transaction; a transaction whose guard is only its snapshot; pruning while another process serves |
| Order tracking (`realtime`, `order`) | the hub's subscriber maps | subscribe, unsubscribe, broadcast | a frame leaves after the write and after the unlock, so frames overtake each other; channels are named by order number |
| Group orders (`groups`) | `groups`, `group_members` | create, join, lock, checkout | read-then-write around the lock and its expiry; codes drawn before the insert |
| Reviews and metrics (`reviews`, `restaurant`) | `reviews`, aggregates on `restaurants` | review, recompute | aggregates are read and written by overlapping goroutines |
| Accounts (`auth`, `user`) | `users`, `customer_profiles` | signup, login, Google sign-in, addresses, profile fields, Stripe customer | two inserts; linking by e-mail; a profile on demand |
| Menu and categories (`menu`, `category`) | `menu_items`, `categories` | staff's writes, public menu | every write of an item draws its sizes' and extras' ids anew; the menu is two queries |
| Settings (`restaurant`) | `restaurants` | fees, minimum, manual close | read by checkout while staff write |
| Pricing (`order`, `promos`, `money`) | `promos` | totals, delivery fee, discount, rounding | rows read one after the other; boundaries, rounding |
| Discovery (`discovery`) | none | list, search, rank | ranks by stored aggregates |
| AI search and chat (`ai`) | none; writes `cravings` | search, chat, dish lists, SSE stream | must degrade and never fail; order of frames; menus change between reads |
| Taste, cravings, favorites | `taste_profiles`, `cravings`, `favorites` | single-row writes, hydration | dishes that are gone |
| Notifications, devices, leads, uploads | one collection each | CRUD; presigned URLs | little beyond unique indexes |

Components meet in the database (the `orders` row is written by checkout, by
the webhook and by staff), in Stripe (an intent made by checkout comes back as
events), through goroutines (`RecordOrder`, `RecomputeOperationalMetrics`) and
through the hub.

What makes each correct: an order number names one order; a payment status is
only ever what Stripe did to this order; a charge is not lost; an order is
billed once; an invite admits one user, while it is active; a restaurant keeps
its owner; a subscriber sees its own order and in the end its last status; a
member joins only an open group; a rating is the mean of the reviews; an order
is what was offered at a price that was right; an answer of the assistant shows
what is offered and always ends.
`PROJECT.json` lists the hazards with their lines.

## 2. Modules

| Module | What it models |
| --- | --- |
| `OrderPayment` | checkout, payment webhook, fee goroutine, staff changes, crashes |
| `PaymentPromise` | what checkout promises about money: the abstract specification |
| `OrderPaymentProofs` | theorems about `OrderPayment` |
| `AdminAccess` | onboarding, invites, the AdminFinalize transaction, removal, pruning at boot |
| `OrderTracking` | writes to orders and their frames, the hub, connections |
| `Billing` | Stripe customers, setup fee, subscriptions and their webhooks |
| `BillingPromise` | what billing promises restaurants about the fee and the status: the abstract specification |
| `BillingProofs` | theorems about `Billing` |
| `Accounts` | signup, login, Google sign-in, profiles and what they keep |
| `Ordering` | the menu, its writes, the cart, the lines and the bill of a checkout |
| `Reputation` | reviews, the aggregates of restaurants, the score of discovery |
| `Assistant` | the AI endpoints with the discovery, menus, tastes, cravings and favourites they read and write |
| `GroupOrder` | group orders, their codes and locks over time |
| `Records` | setting some fields of a record, for several modules |
| `Calls` | what handlers are, for `Assistant` and `GroupOrder` |
| `CustomerProofs` | theorems about `Assistant` and about `GroupOrder` |
| `ReputationProofs`, `AdminAccessProofs`, `AccountsProofs`, `OrderTrackingProofs`, `OrderingProofs` | theorems about the module of that name |
| `MC...` | one instance for TLC of each of them |

`Ordering` ends where `OrderPayment` begins: its `SaveOrder` is the insert that
`OrderPayment` follows, which knows orders without their contents. `Reputation`
takes status changes as they come, in any order, as `OrderPayment` shows they
can; `Assistant` takes any order of the restaurants that discovery may return.

### OrderPayment

A request to `POST /checkout/create-intent` makes at most one order and one
PaymentIntent, so the request names both. `pc[r]` says how far its handler has
come; each action is one database or Stripe call of the handler, because other
processes act between any two of them.

| State | Code |
| --- | --- |
| `pc`, `num` | the handler's position; the number `generateOrderNumber` chose before the insert |
| `orders` | collection `orders`: `order_number`, `status`, `payment_status`, `payment_intent_id` |
| `intents`, `declines`, `pending` | Stripe: the intent, failed attempts, events not yet acknowledged |
| `jobs`, `usage` | `RecordOrder` goroutines, `billing_usage.order_count` |
| `lostAcks`, `crashes` | how often a fault has happened |
| `overwritten` | history: orders whose "paid" a failed attempt has replaced |

| Action | Code |
| --- | --- |
| `Refuse`, `PickNumber`, `SaveOrder` | `ValidateAndBuildOrder`: checks, number, insert under the unique index |
| `CreateIntent` | `CreateIntentForOrder`: a saved card is confirmed inside the call, so Stripe may charge or decline at once; for requests in `Unanswered` Stripe may act and the caller see an error |
| `Rollback` | `DeleteByID` after any error of Stripe's call |
| `AttachPaymentIntent`, `Answer` | the `$set` of the intent, whose error is only logged, and the answer with the client secret |
| `CustomerPays`, `CardDeclined` | the customer at Stripe (external) |
| `Deliver`, `CrashInWebhook` | `HandleWebhook`: row found, nobody found, database error (logged, 200), and a crash after the update |
| `RecordOrder` | the goroutine's upsert |
| `UpdateStatus`, `DeleteOrder` | staff |
| `Crash` | handlers and goroutines are lost, rows are not; shutdown does not wait for goroutines |

A database error may come before or after the write took effect. Prices,
addresses and WebSocket frames are left out. A call that panics while it
broadcasts (see `OrderTracking`) ends as in a crash, without the process.

### AdminAccess

A transaction is modelled by what MongoDB gives it: the snapshot of its first
read, write conflicts on documents that another transaction wrote or that
changed after the snapshot, and a restart of the callback by `WithTransaction`
after a conflict. Its writes show at `Commit`; until then `RowHeld` and
`InviteHeld` say what other writers wait for. `UpsertMember` uses
`$setOnInsert`, so a row the snapshot already has is not written. `MarkUsed`
filters on `_id` alone: that the invite is still active is left to the write
conflict, which is what `AdmitsWhileActive` is about: it also says that an invite
admits one user only, since it is used from then on. Rows carry an identity, since
`AdminService.Delete` reads a row and deletes it later by `_id`. Restaurant ids
and invite codes are never drawn twice. `dedupeAdminUsers` is not modelled: it
repairs rows older than the unique index.

Pruning at boot is `ListReferenced`, `CheckExisting` and `PruneOrphans`. The scan of
existing restaurants stops at an error of the database, which the code does not
ask for, and goes on without a row that does not decode: with `DBFaults`
`CheckExisting` sees any part of the restaurants, `boot.missed` is what it has not
seen, and `PruneOrphans` deletes the rows of those too. `DeleteMany` may fail after
some rows. `OwnersStay` excuses exactly what was missed.

### OrderTracking

A call is a handler that writes an order and then broadcasts: the write and the
copy of each channel's subscribers are steps, and so are the start and the end
of every `WriteJSON`, because the hub releases its lock before it writes.
`calls[k]` holds what the handler still has to send; `version` counts the writes
to the order, and a frame carries the version of the row that
`FindOneAndUpdate` returned. A connection is `off` (waiting for the hub's lock),
`added`, `open`, `closing`, `closed`. A client that has stopped reading (`stuck`)
blocks the write to it until its pumps give up: the read deadline of 30 s or a
failed ping.

| Action | Code |
| --- | --- |
| `InsertOrder`, `BroadcastCreated`, `RollBack` | the checkout handler: the frame goes out after Stripe's answer, none if the draft is deleted |
| `UpdateStatus`, `UpdatePaymentStatus` | staff and the webhook; `Events`, `EventsAndStatus` are the frames |
| `FindForDelete`, `DeleteOrder` | the read, then the delete, whose result is not looked at |
| `CopySubscribers`, `StartWrite`, `FinishWrite` | `BroadcastAdmin`, `BroadcastOrder`, `BroadcastOrderRaw` |
| `Subscribe`, `SendReady`, `EndPumps`, `Disconnect`, `Unsubscribe` | `AdminHandler`, `OrderHandler`, `runPumps` |
| `Crash` | the process ends: a deploy, or the reader goroutine of `runPumps` that a failed ping leaves behind panics on its released wrapper, where nothing recovers it |
| `StopReading` | external |

Two writers in one connection (`Clash`) are not supported by the WebSocket
library: each write goes through, fails, or panics, which ends its handler in
`middleware.Recover`.

What the hub copies are pointers to the wrappers of `gofiber/contrib/websocket`, which
takes them from a pool and puts them back, emptied, when the handler of a connection
returns. `wrapper[c]` is the one that connection `c` has or had; `Subscribe` takes a
new or a released one. `StartWrite` on a target that was released since the copy
either panics (`WriteToReleased`: the call ends, and the targets after it get
nothing) or, when another client has the wrapper by now, writes to that client
(`WriteTo`). A write to a connection whose pumps have ended goes through or is a
logged error (`FinishWrite`). `view` is the last frame sent to a client; `view`,
`audience` and `disturbed` only serve the properties, and `disturbed` holds the orders
whose calls overlapped, clashed or panicked.

### Billing

A call is a request to one of the three endpoints that open a session of
Stripe's. It makes at most one customer, session and subscription, which the
call names, so `RestaurantOf[c]` is the tenant that a customer or subscription
`c` was made for. `calls[k].stage` is the handler's position: the read of the
row, Stripe's customer, its save and the session are separate steps.

| State | Code |
| --- | --- |
| `rows` | collection `billing`: customer, `setup_fee_paid`, status and id of the subscription |
| `calls` | handlers, and after them their sessions at Stripe |
| `subs`, `pending` | Stripe: subscriptions with a version, events not yet acknowledged |
| `found` | webhooks that have read their row and not yet written it |
| `latest`, `overtaken` | serve `StatusShown` |

| Action | Code |
| --- | --- |
| `CheckSetupFee` | the 402 of `CreateSubscriptionCheckout` |
| `FindCustomer`, `CreateCustomer`, `SaveCustomer` | `getOrCreateStripeCustomer`; the error of the save is only logged. The portal's own check is in `FindCustomer` |
| `OpenSession` | the session, or Stripe's error |
| `PaySetupFee`, `Subscribe`, `ChangeSubscription` | at Stripe (external) |
| `SetupFeePaid`, `FindRow`, `IgnoreEvent`, `SaveSubscription` | `HandleWebhook`, one read and one upsert; errors are logged and answered 200 |
| `LoseDelivery` | the process dies in between |

`subscription.created` and `updated` have one handler and are one event; the
end of the period is left out. `GetStatus` shows the row, so `StatusShown` is
about the row.

`BillingPromise` is what a restaurant may rely on, per restaurant and without calls
and events: a fee is noted only if paid and stays noted, only then can one
subscribe, `active` and `past_due` are shown only to who has subscribed, `canceled`
only once a subscription has ended, and `none` never again. `KeepsPromise` maps the
rows and what Stripe holds to it. It does not say that the newest status is shown,
which the code cannot keep when Stripe's events overtake each other.

### Accounts

A call inserts at most one user, so the call that inserted a user names it.
`users` and `profiles` are the collections; the three unique indexes are in
`Duplicate` and `CreateProfile`. Every read, insert and update of a sign-in is a
step, with a database error before or after it took effect.

| Action | Code |
| --- | --- |
| `SignupRead`, `SignupUser`, `SignupProfile`, `DeleteUser` | `SignupCustomer`; the error of the deletion is ignored |
| `Login` | `Login`, with the right password |
| `FindBySub`, `FindByEmail`, `AttachGoogleSub`, `InsertGoogleUser` | `GoogleSignIn` until the user is known |
| `FindProfile`, `GoogleProfile` | the profile on demand; an error of the read is taken for no profile, one of the insert is dropped |
| `FindCustomer`, `CreateCustomer`, `SetStripeCustomerID` | `EnsureStripeCustomer` |
| `AddAddress`, `RemoveAddress` | `$push` and `$pull` on the profile; 201 and 204 also when there is none |
| `UpdateProfile` | `$set` of the fields; 404 without a profile |
| `SaveCard` | the client at Stripe (external) |
| `Crash` | handlers are lost |

`raced` only serves `ProfileKeeps`.

### Ordering

A visit reads the menu, fills a cart and calls checkout; what it read is kept in
the visit, and `history` keeps the database after every change, so that a
property can say "at some moment since". An item's row carries the number of its
writes (`rev`), which is what the ids of its sizes and extras stand for.

| Action | Code |
| --- | --- |
| `EditItem`, `EditCategory`, `EditSettings` | staff: create, update, delete; the partial update of settings; manual close |
| `OfferPromo`, `SeedFromEnv` | operators (external), and the boot, which writes the promo anew each time |
| `ReadCategories`, `ReadMenuItems` | `PublicMenu`, `PublicMenuView` |
| `Checkout`, `TryAgain` | the request, by ids (v2) or by names (legacy), with lines left over from another visit |
| `ReadItems`, `ReadRestaurant`, `LookupPromo`, `SaveOrder`, `DBError` | `ValidateAndBuildOrder`, read by read; the order of its refusals is kept |

Money is in cents. Each amount is rounded by itself as in `round2`; an exact half
goes either way (`Rounded`), since a float decides. A percentage promo is cut
down. Names within an item are distinct. Order type, addresses, contact data and
notes are left out.

### Reputation

| State | Code |
| --- | --- |
| `orders`, `reviews` | the collections, as far as aggregates read them |
| `stored` | `rating_sum` over `rating_count`, `completion_rate` as a fraction, `average_prep_minutes` |
| `calls`, `jobs` | review calls; goroutines of `UpdateStatus` |
| `lost`, `held` | serve the properties: which aggregate a fault or a slower writer left behind, and what was once true |

| Action | Code |
| --- | --- |
| `NewOrder`, `UpdateStatus`, `UpdateReadyTime`, `DeleteOrder` | only a request with a status starts the goroutine |
| `ReadCompletion`, `ReadPrep`, `WriteMetrics` | `RecomputeOperationalMetrics`: two aggregations and an update |
| `FindOrder`, `InsertReview`, `AggregateRatings`, `WriteRating` | `Create`, then `RecomputeRatingAggregates` |
| `InsertFails`, `RecomputeFails`, `JobFails`, `Crash` | errors before and after effect; an error of the recompute is logged |

`Score` is `compositeScoreField` in fractions, `Listed` is `availabilityMatch`.
All orders lie in the 90 days of the window.

### Assistant

A call is one request. Its reads are steps: taste, search, list, and for every
restaurant found its categories and then its items; `worlds` keeps what was up,
so that properties can speak of the time since the call began. A message is a
sequence of words; text search may find any restaurants.

| Action | Code |
| --- | --- |
| `StreamChat`, `ReadTaste`, `DiscoverySearch`, `DiscoveryList`, `ReadCategories`, `ReadItems`, `SkipMenu`, `RankDishes`, `ComposeAnswer`, `RecordCraving` | the SSE stream; a read that fails is skipped, the text of a failing model is replaced |
| `SearchDishes`, `Recommend` | the same list without the frames |
| `Search`, `Chat`, `RefineIntent`, `CompleteChat`, `FindRestaurants` | intent, refined by the model if there is one |
| `DishByID`, `ReadDish`, `ListFavorites`, `ReadSaved`, `HydrateDish`, `SendFavorites` | single dishes |
| `ToggleManualClosed`, `UpdateCategory`, `UpdateItem`, `DeleteItem`, `UpdateTaste`, `AddDish`, `RemoveDish`, `PinCraving`, `DeleteCraving` | staff and users meanwhile |

The model may refine the intent to any cuisine and any limit, also a negative one;
a restaurant without a preparation time is never too slow. `Parse` turns the words
of `Synonyms` ("barbecue") into their cuisine ("bbq"). The dishes come from the first
`MaxRestaurants` (15) restaurants, a search finds `MaxFound` (25). No route leads to
`Chat` and `CompleteChat`: they are the service's chat without a stream, which
`POST /ai/chat` does not use; as an operation of the service they are modelled.

Texts, distances, dietary tags and prices other than the filter's are left out.
Stars are tenths. The scores of dishes are the code's.

### GroupOrder

A group is named by the call that creates it. `clock` counts minutes; a lock is
the minute it expires. Every call with a code reads the group, then writes.
`open` serves `JoinedWhileOpen`.

| Action | Code |
| --- | --- |
| `Create`, `GenerateShareCode`, `InsertGroup`, `JoinHost` | `Create`: a code that is free now, the insert under the unique index, the host as a member, unchecked |
| `Join`, `JoinMember` | the lock is read with the group; the upsert of the member |
| `Lock`, `SetLockExpiry` | hosts only; anything but 1 to 60 minutes is 5 |
| `Checkout`, `FlattenMembers` | hosts only, while locked |

## 3. Runs

| Run | Question | Instance |
| --- | --- | --- |
| `checkout` | types, unique numbers, evidence for every payment status, no charged order rolled back, refinement of `PaymentPromise` | 2 requests of one restaurant, one with a saved card, 2 numbers; database errors, lost Stripe answers, one decline, lost acknowledgement and crash each |
| `delivery` | an order is paid once the event of its charge is delivered, or a failed attempt delivered later has overwritten it; fees match charges; the charge of a linked order is recorded in the end; a row without intent is linked or removed while the process lives | fairness, no database errors, Stripe's answer to the saved card may be lost |
| `race` | *violation*: with a saved card the webhook overtakes the attach and the charge never shows | |
| `redeem` | an invite admits only while active, so one user, and never in vain; owners stay, but for a boot that missed their restaurant; every claim that has read its invite is answered | 3 users, 1 invite, 3 claims (two of the invite, one of the legacy code), one boot, all faults, fairness |
| `owner` | *violation*: a restaurant whose creation failed half-way has no owner | |
| `tracking` | after calls that neither overlapped nor panicked on a released wrapper, whoever stayed connected was sent the order as it is; calls end and connections are admitted although a client stops reading | 1 new order, 2 calls, an admin who may stop reading, a customer, fairness |
| `billing` | nobody subscribes before the setup fee; no restaurant gets another's customer or subscription; the status shown is Stripe's once its events are handled; a paid setup fee counts for ever; refinement of `BillingPromise` | 2 restaurants, 2 setup checkouts and a subscription, a setup checkout and a portal visit; one change, database error and lost delivery; fairness |
| `accounts` | a person stays one user, has a profile and keeps what was answered as saved; a signup that fails cleans up | a signup, a login, 2 sign-ins of one Google account with 2 e-mails, 2 requests for a Stripe customer, an address, its removal and an update of the profile; one database error and crash; fairness |
| `ordering` | an order was offered and cost what it should at one moment; chosen sizes and extras cost what the menu showed; the menu is sound; bills add up | one visit, 2 items of 2 restaurants, 2 categories, a size, an extra, 2 edits by anyone, rates that are set and that default |
| `reputation` | aggregates settle; ranking is sound; reviews are earned | 2 orders of a restaurant, one review twice and another, 2 changes by staff, one fault; 2 ratings are enough to count (20 in the code) |
| `assistant` | answers are honest and best; streams end | one call of each of 14 requests, 2 restaurants with 3 dishes, 2 changes, with and without a model; lists of 1, 2 and 3 dishes (5, 12 and 25 in the code), 2 restaurants (15 and 25), one without a preparation time, a guess of -5 minutes; fairness |
| `groups` | who joined got in while open; codes are unique | 4 calls by 2 users, 2 codes, locks of 1 and 5 minutes, 3 minutes |

Why these bounds are enough to show the cases: two requests are what a race for
an order number, a retry or a mix of new and saved cards needs; events do not
depend on other intents. One lost acknowledgement shows a redelivery; one decline
shows a late `payment_failed`. Two claims of one invite are a race, and the third
claim is by the same user with the other code. Two calls are what it takes for frames
to overtake each other, to clash and to be sent to a subscriber list that is
changing. Two setup checkouts of one restaurant race for its customer, one change
after the purchase is the second event that may come first, and the other
restaurant is whom a wrong row would hit. One Google account with two e-mails,
one of which signs up, can be linked, inserted, or both at once. The numbers hold
no larger case: handlers share only the index, the rows matched by an id of
Stripe's, and the counter. Two edits are what can come between the reads of a
menu and again between those of a checkout; visits share nothing but the
database, so one is enough. Two ratings with the threshold at two reach both
sides of it; two goroutines overtake each other. Calls of the assistant share
nothing either; lists of 1, 2 and 3 out of 3 dishes are cut and uncut. Three
minutes let a lock expire between the read and the write of another call.
`MCReputation` and `MCGroupOrder` declare symmetric the calls whose constants
agree, which is sound because only safety is checked there.
`CHECK_DEADLOCK FALSE` everywhere: nobody has to call the API, and a system in
which every request was answered rests.

Fairness. A handler that has started runs on while its process lives (Go
schedules it, its calls return); Stripe repeats an event until it is
acknowledged; a started goroutine is scheduled; the driver repeats a transaction
after a conflict, but a database error is never owed; the handler of a
connection runs, and with it the pumps that give a silent client up. The calls of
a stream all return: those of the database with a result or an error, those of
the language model by its client's timeout. There is
no fairness for customers, staff, new requests,
crashes or operators.

## 4. Proofs

Each theorem holds for every value of the constants that the named assumption of
its module allows, and for every fault the model has; TLC evaluates the assumption
on the instance of each run. The proofs have one shape: the property is seldom
inductive, so a stronger invariant is named and shown for `Init` and for every
action (one lemma for an action or a group of them), and the property follows.

`OrderPaymentProofs`, under `ConstantsAssumption`:

- `TypeCorrect`, and `NumbersAreUnique`, inductive with `TypeOK` alone. `SaveOrder`
  is the only step that gives a number to a row, and the index admits it only when
  no row holds it; `RowSteps` sums up what any step may do to `orders`.
- `PaymentEvidenceHolds` needs `EvidenceInv`: besides the property itself,
  every pending or unacknowledged event has its charge or decline, and a request
  whose handler has not reached Stripe has no intent (`NoIntentYet`); so an event
  can only match the row it is about.
- `ChargeRecordedHolds` needs that a request without saved card has an open,
  unpaid intent until its handler has attached it (`ConfirmStages`), so that the
  event cannot be delivered to nobody. It does not say that the order stays paid:
  it says that only a failed attempt delivered after the charge takes that away
  (`overwritten`).
- `ChargedOrderKeptHolds` needs `KeptInv`: a request that is rolling back has no
  succeeded intent unless Stripe's answer was lost.
- `FeesMatchChargesHolds`, also under `FiniteAssumption` (finitely many requests,
  so that charges can be counted), from two bounds on what is recorded or on its
  way. `BilledAtMost`: no more than the acknowledged charges (`Acked`) and the lost
  acknowledgements. `BilledAtLeast`: while the database answers and the process
  lives, no fewer than the charges the webhook must have found (`FoundBy`), which
  needs that their rows stay (`RowStages`).
- `RefinesPromise`: `Spec => ImplementsPromise`. Every step is a step of
  `PaymentPromise` or a stutter under the mapping; `FreshRequests` says that what has
  not begun shows nothing.

`BillingProofs`, under `BillingAssumption`:

- `BillingTypeCorrect`, which no run repeats.
- `SetupFeeFirstHolds` needs `FeeInv`: a completed event, a row that says paid
  and a call past the check each have a setup session paid at Stripe. `PaidStays`
  makes the evidence last, so steps of others cannot undo it.
- `OwnSubscriptionHolds` needs `OwnInv`: rows and handlers hold customers of
  their own restaurant, events and subscriptions belong to paid sessions, which
  have a customer, and what a webhook has found is the buyer's row. With that,
  `MatchesOwn` says that a look-up by Stripe's ids finds the right tenant.
- `StatusShownHolds` needs `StatusInv` besides: events tell what their version of the
  subscription was (`Versions`, `Reports`), a version nobody has handled is still
  announced (`Announced`), a customer in a row is no longer replaced (`Customers`),
  and a row that has seen its events in order shows the newest one (`Followed`).
- `KeepsPromiseHolds`: `Spec => KeepsPromise`, one lemma for each kind of step. Besides
  these invariants it needs `PromiseInv`: who is past the check has its fee noted in
  the row (`GatedNoted`, because no upsert takes `setup_fee_paid` back: `NotedStays`),
  and events of subscriptions announce a status (`Announces`). `Reports` then makes
  what a late event writes a status that the subscription has had.

`AdminAccessProofs`, under `AccessAssumption`: `AccessTypeCorrect`,
`AdmitsWhileActiveHolds`, `UsedInviteJoinsHolds` and `OwnersStayHolds`, the last three about
steps, from `AccessInv`: what an open transaction saw and has written is still so
(`Sound`), two of them never hold the same document (`Exclusive`), an invite that
exists was drawn (`Drawn`), rows and the ids a boot holds are of restaurants that
existed, and a boot past its second read holds none that does but those it missed
(`Existed`), and a
removal holds a row's identity that is no owner's (`Removable`).

`AccountsProofs`, under `AccountsAssumption`: `AccountsTypeCorrect`, `OneAccountHolds`,
`SignInHasProfileHolds` and `ProfileKeepsHolds`, from `AccountInv`: who is named was
inserted by a call that will insert no other (`Named`, `Staged`), e-mails and Google
accounts are unique and calls know whom they name by them (`Linked`), without a race
one call at a time makes a customer (`OneMaker`), and what was answered about a
profile is in it (`Founded`). The attempt at `OneAccount` showed that an earlier
form of it, which excused only a linking by e-mail, is false: a Google sign-in
with the same e-mail may give the user another `google_sub` before the first
sign-in has answered. The property now excuses exactly that (`Relinked`).

`OrderTrackingProofs`, under `TrackingAssumption`: `TrackingTypeCorrect` and
`LatestShownHolds`, from `TrackInv`: only a call that broadcasts has frames left
(`Shaped`), an audience is of subscribed connections (`Subscribed`), an order without
overlap has one writer at a time, who has its last version (`Alone`), whoever
was not sent that version is still owed a frame by that writer (`Told`), and no two
connections hold one wrapper (`Pooled`), so a frame owed reaches its own client.

`OrderingProofs`, under `OrderingAssumption`: `OrderingTypeCorrect`, `MenuSoundHolds`,
`OrderedAsOfferedHolds`, `PriceAsShownHolds` and `BillAddsUpHolds`, from `OrderInv`: the last
entry of `history` is the database (`Remembered`), a revision names one write
(`Versioned`), and every stage of a visit holds what was there together at a
moment since its menu or its call began (`Seen`). Ids and revisions carry the price
from the menu to the bill.

`ReputationProofs`, under `ReputationAssumption`: `ReviewEarnedHolds` from `EarnedInv`
(what a call found out stays true: the order was finished and is the caller's);
`InputsSettleHolds` from `SettleInv` (a stored value is right, is known to be
overtaken, or somebody is under way who will set it right); `RankingSoundHolds`
from `RankInv` (every number of ratings that is stored or about to be is one the
restaurant had, rates are fractions), so that `ScoreBounds` can bound the score.

`CustomerProofs`, under `AssistantAssumption`: `AnswerHonestHolds` and `BestShownHolds`,
from `AssistInv`. What a call has seen, the worlds since it began, only grows; all
that the invariant says of a call (`Good`) is said of the worlds it has seen so that it
stays true (`GoodGrows`), whatever staff and users do and whoever dies.

- Of a listing (`ListingHonest`): the restaurants found, the categories opened and the
  dishes scored were each offered in one of those worlds, the match of a dish is its
  score, and until the menus are read there are no dishes.
- Of one in which no read failed (`ListingBest`): a dish that is `Due`, because it,
  its category and its restaurant were offered throughout, is listed or its
  restaurant is still to be read; between the two reads of a menu its category is
  among those opened. After the ranking it is listed, or the list is full of dishes
  that match as well.
- Of a search (`SearchHonest`), a dish by id (`ThereHonest`) and favourites
  (`FavoritesBest`): the same for their stages.

The operators on lists are proved for any length: `Kept` has what passes
(`KeptElements`), `FlattenSeq` joins (`FlattenedElements`), a finite set of rows can be
sorted (`Sortable`), so `Ranked` is a permutation in order (`RankedElements`) and what
`TopDishes` cuts off is no better than what it leaves (`TopDishesElements`). A
recursive function on `0..N` has its value at each step by `RowOfSteps`.

The same module proves `JoinedWhileOpenHolds` of `GroupOrder`, for which it uses
`GroupAssumption` only; the two specifications share `Calls` and are not composed.
By `GroupInv` a joining call that is between its read and its write has seen its
group open since it began, and whoever locks a group or makes it is its host
(`OwnHost`, `Sound`).

Sums over carts, extras and reviews are folds of the community modules.
`OrderingProofs` and `ReputationProofs` prove what they need of them: every set of
naturals closed under successor is all of them (`CountingUp`, from the well-founded
order of the naturals), so the fold has a value for every finite set (`AddsExists`), and a
relation between how many things there are and their sum that every further
thing keeps holds of them all (`SumsIn`). `BillAddsUp` and `RankingSound` rest
on these lemmas.

Every safety invariant and action property of the runs is a theorem. Only
model-checked is what holds under fairness, which TLAPS does not reach:
`ChargeEventuallyRecorded`, `DraftsResolve`, `ClaimsEnd`, `CallsEnd`,
`ClientsAreAdmitted`, `SetupFeeCounts`, `SignupSettles`, `StreamsEnd`.

## 5. Findings and known divergences

The violation runs show the saved-card race (`race`) and the restaurant without
owner (`owner`), described with their quotes in `PROJECT.json`. The models also
contain these differences from what the documentation says, which no run is
spent on because the code does them by itself or on the first occasion:

- A redelivered `payment_intent.succeeded` starts `RecordOrder` again
  (`payment/service/service.go:107`), so a paid order may be billed twice
  (README.md:176: "a $0.99 per-paid-order increment"). `FeesMatchCharges` bounds it.
- No handler reads an `Idempotency-Key` (BACKEND_REQUIREMENTS.md:713): a retried
  create-intent is another order and another intent.
- A `payment_failed` of an earlier attempt that is delivered after the charge, or
  again, overwrites "paid" with "failed" (`payment/service/service.go:122`); the update
  does not look at the old status. The `delivery` run reaches it, `ChargeRecorded`
  shows that nothing else takes "paid" from an order.
- A boot whose scan of restaurants is cut short, or meets a row that does not decode,
  deletes the admins of restaurants that exist (`database/database.go:301`), while its
  comment says "deletes admin_users rows whose restaurant_id no longer exists in the
  restaurants collection" (`database/database.go:266`).
- A broadcast to a connection that closed after the subscribers were copied panics,
  so the clients after it get no frame and the request a 500, or it reaches the client
  that has the pooled wrapper by then (`realtime/hub.go:88`). `LatestShown` excuses the
  orders of calls that panicked.
- A reader goroutine left behind by a failed ping panics on its released wrapper and
  ends the process (`realtime/controller/controller.go:68`).
- Two broadcasts may write to one WebSocket connection at a time
  (`realtime/hub.go:88`), and a frame may be lost. `LatestShown` excuses such orders.
- The number of a deleted order may be drawn again while its channel has
  subscribers, who then get the other order's frames (README.md:140: "updates for
  that one order").
- Every write of an item draws the ids of its sizes and extras anew
  (`menu/service/service.go:280`), so a v2 cart filled before is refused with
  "Size no longer exists" although the size is there.
- No operation writes a group member's lines, so a group's checkout always answers
  "no items in group order" (BACKEND_REQUIREMENTS.md:689: "settles the entire group
  as a single order").
- The stream's `clarify` frame goes out only when the taste profile cannot be
  read: a user without one gets the default profile (`taste/service`).
- A taste given to `recommend` without some fields has 0 there, not 5
  (`ai/service/service.go:30`).
- A restaurant without hours for a day is shown as closed, not open
  (`restaurant/controller/controller.go:84`), and checkout looks at the manual
  close only.
- A delivery order whose `delivery_address_id` names no saved address is placed
  with the address fields of the request, which may be empty
  (`order/service/service.go:531`).
- The `price_modifier` of a size is not checked (`menu/service/service.go:56`), so
  an item may cost less than nothing. `BillAddsUp` bounds the discount only by a
  subtotal that is not negative.
- `RedisRateLimit` is used by no route.

## 6. Plan

What is left to do: one home for `CountingUp` and the lemmas about sums, which `OrderingProofs`,
`ReputationProofs` and `CustomerProofs` each prove.

## 7. Not modelled, and why

Notifications, devices and leads are single-row CRUD that no other component
reads: nothing in the program writes a notification or sends a push. Uploads are
presigned URLs and calls of S3. The rate limiter is not wired. Opening hours only
decide what a page shows. Favourite restaurants are the same writes as favourite
dishes. Distance, text relevance and paging of discovery are MongoDB's arithmetic
and indexes. `dedupeAdminUsers` repairs rows older than an index. Tokens, password
hashes and upgrades are taken as given. MongoDB, Stripe, S3, the language model
and the drivers are modelled by what the code relies on.
