----------------------------- MODULE Reputation -----------------------------
(***************************************************************************)
(* What a restaurant's rank is made of: reviews of finished orders, the    *)
(* completion rate and preparation time of its orders, and the score that  *)
(* discovery computes from what is stored of them.                         *)
(*                                                                         *)
(* The stored numbers are written by read-then-write: a review call        *)
(* aggregates all reviews after its insert and writes the result, and a    *)
(* goroutine started by every change of a status does so for the orders.   *)
(* Nothing orders two of them, errors are logged, and a goroutine dies     *)
(* with its process.                                                       *)
(*                                                                         *)
(* An average is kept as a sum and a count, a rate as a fraction.  All     *)
(* orders are of the last 90 days.  "completed" stands for "delivered" too *)
(* and "new" for every status before "ready".  MinRatings is 20 in the     *)
(* code.  Closed restaurants, distance and text relevance are left out.    *)
(***************************************************************************)
EXTENDS Integers, FiniteSetsExt, Functions, Records

CONSTANTS
    Order, RestaurantOf, CustomerOf,
    FirstStatus,        \* [Order -> status or None]: orders made before
    Call, CallerOf, AboutOf,    \* calls that post a review, who makes them, the order
    RatingsOf,          \* the stars a call may give
    ReadyTimes,         \* estimated_ready_time, in minutes after the order was made
    MinRatings,         \* ratings below which quality does not count
    MaxUpdates,         \* bound on changes of orders by staff
    MaxFaults,          \* bound on failing queries and processes that die
    None                \* no order, no review, no time

Statuses == {"new", "ready", "completed", "cancelled"}

ASSUME ReputationAssumption ==
    /\ IsFiniteSet(Order) /\ DOMAIN RestaurantOf = Order /\ DOMAIN CustomerOf = Order
    /\ DOMAIN CallerOf = Call /\ AboutOf \in [Call -> Order]
    /\ FirstStatus \in [Order -> Statuses \cup {None}]
    /\ RatingsOf \in [Call -> SUBSET (1..5)] /\ ReadyTimes \subseteq Int /\ MinRatings \in Nat \ {0}
    /\ {MaxUpdates, MaxFaults} \subseteq Nat
    /\ None \notin [status : Statuses, ready : ReadyTimes \cup {None}]
    /\ None \notin [rating : 1..5, by : Call]

VARIABLES
    orders,     \* collection orders
    reviews,    \* collection reviews, by order: the index on order_id is unique
    stored,     \* the ranking fields of collection restaurants
    calls,      \* how far a review call has come
    jobs,       \* the goroutines RecomputeOperationalMetrics, by change of status
    updates, faults,
    lost,       \* what of which restaurant was lost or overtaken: no part of the program
    held        \* facts that were true once: no part of the program

env == <<updates, faults>>
vars == <<orders, reviews, stored, calls, jobs, env, lost, held>>

Restaurant == {RestaurantOf[o] : o \in Order}

-----------------------------------------------------------------------------
(* The aggregates                                                           *)

Reviewed(r) == {o \in Order : RestaurantOf[o] = r /\ reviews[o] # None}
RatingOf(r) == [sum |-> SumFunction([o \in Reviewed(r) |-> reviews[o].rating]),
                count |-> Cardinality(Reviewed(r))]

Kept(r, statuses) ==
    {o \in Order : RestaurantOf[o] = r /\ orders[o] # None /\ orders[o].status \in statuses}

\* Orders in progress count as not completed; a restaurant without orders has 1.
CompletionOf(r) ==
    LET total == Kept(r, Statuses \ {"cancelled"})
    IN IF total = {} THEN [of |-> 1, done |-> 1]
       ELSE [of |-> Cardinality(total), done |-> Cardinality(Kept(r, {"completed"}))]

\* The mean, rounded, when it is above zero.
PrepOf(r) ==
    LET timed == {o \in Kept(r, {"ready", "completed"}) : orders[o].ready # None}
        sum == SumFunction([o \in timed |-> orders[o].ready])
        n == Cardinality(timed)
    IN IF sum > 0 THEN (2 * sum + n) \div (2 * n) ELSE None

-----------------------------------------------------------------------------
(* The rank                                                                 *)

\* availabilityMatch: 3 stars on average once there are enough ratings.
Listed(r) == stored[r].count < MinRatings \/ stored[r].sum >= 3 * stored[r].count

\* rankFields and compositeScoreField: fractions <<n, d>>.  Without a time, half.
Quality(s) == IF s.count < MinRatings THEN <<1, 2>> ELSE <<s.sum, 5 * s.count>>

\* Mutant: no floor under a slow kitchen.
Unfloored(s) == IF s.prep > 0 THEN <<60 - s.prep, 60>> ELSE <<1, 2>>

Speed(s) == IF s.prep > 0 THEN <<Max({0, 60 - s.prep}), 60>> ELSE <<1, 2>>
Reliability(s) == <<s.completion.done, s.completion.of>>

\* (0.4 + 0.3 quality + 0.2 speed + 0.1 reliability), times 0.7 below 80 %.
Score(s) ==
    LET q == Quality(s)
        v == Speed(s)
        c == Reliability(s)
        n == 4 * q[2] * v[2] * c[2] + 3 * q[1] * v[2] * c[2]
             + 2 * v[1] * q[2] * c[2] + c[1] * q[2] * v[2]
        penalty == IF 10 * c[1] < 8 * c[2] THEN 7 ELSE 10
    IN <<penalty * n, 100 * q[2] * v[2] * c[2]>>

-----------------------------------------------------------------------------

Init ==
    /\ orders = [o \in Order |-> IF FirstStatus[o] = None THEN None
                                 ELSE [status |-> FirstStatus[o], ready |-> None]]
    /\ reviews = [o \in Order |-> None]
    /\ stored = [r \in Restaurant |->
         [sum |-> 0, count |-> 0, completion |-> [of |-> 1, done |-> 1], prep |-> 20]]
    /\ calls = [k \in Call |-> [stage |-> "idle", rating |-> None]]
    /\ jobs = [k \in 1..MaxUpdates |-> [stage |-> "none"]]
    /\ updates = 0 /\ faults = 0
    /\ lost = {<<r, "completion">> : r \in Restaurant}
    /\ held = [finished |-> {o \in Order : FirstStatus[o] = "completed"},
               ratings |-> {}, made |-> {o \in Order : FirstStatus[o] # None}]

-----------------------------------------------------------------------------
(* Orders                                                                   *)

\* Checkout, and deleting an order, refresh nothing.
NewOrder(o) ==
    /\ o \notin held.made
    /\ orders' = [orders EXCEPT ![o] = [status |-> "new", ready |-> None]]
    /\ held' = [held EXCEPT !.made = @ \cup {o}]
    /\ lost' = lost \cup {<<RestaurantOf[o], "completion">>}
    /\ UNCHANGED <<reviews, stored, calls, jobs, env>>

Update(o, row) ==
    /\ orders[o] # None
    /\ updates < MaxUpdates /\ updates' = updates + 1
    /\ orders' = [orders EXCEPT ![o] = row]
    /\ UNCHANGED <<reviews, stored, calls, faults>>

\* Any status may follow any other.
UpdateStatus(o) ==
    /\ orders[o] # None
    /\ \E status \in Statuses, ready \in ReadyTimes \cup {orders[o].ready} :
            /\ Update(o, [status |-> status, ready |-> ready])
            /\ jobs' = [jobs EXCEPT ![updates'] = [stage |-> "completion", of |-> RestaurantOf[o]]]
            /\ held' = IF status = "completed" THEN [held EXCEPT !.finished = @ \cup {o}] ELSE held
            /\ UNCHANGED lost

\* Without a status in the request no goroutine is started.
UpdateReadyTime(o) ==
    /\ orders[o] # None
    /\ \E ready \in ReadyTimes : Update(o, [orders[o] EXCEPT !.ready = ready])
    /\ UNCHANGED <<jobs, held, lost>>

DeleteOrder(o) ==
    /\ Update(o, None)
    /\ lost' = lost \cup {<<RestaurantOf[o], "completion">>}
    /\ UNCHANGED <<jobs, held>>

-----------------------------------------------------------------------------
(* RecomputeOperationalMetrics                                              *)

JobAt(k, stage) == jobs[k].stage = stage
JobStep(k, change) ==
    /\ jobs' = [jobs EXCEPT ![k] = With(@, change)]
    /\ UNCHANGED <<orders, reviews, calls, env, held>>

ReadCompletion(k) ==
    /\ JobAt(k, "completion")
    /\ JobStep(k, [stage |-> "prep", completion |-> CompletionOf(jobs[k].of)])
    /\ UNCHANGED <<stored, lost>>

ReadPrep(k) ==
    /\ JobAt(k, "prep")
    /\ JobStep(k, [stage |-> "write", prep |-> PrepOf(jobs[k].of)])
    /\ UNCHANGED <<stored, lost>>

\* A slower writer is one that replaces what was right.
Settles(r, what, right, was) ==
    lost' = IF right THEN lost \ {<<r, what>>}
            ELSE IF was THEN lost \cup {<<r, what>>} ELSE lost

SameRate(a, b) == a.done * b.of = b.done * a.of

\* Preparation time is kept when there is none to write.
WriteMetrics(k) ==
    /\ JobAt(k, "write")
    /\ LET r == jobs[k].of
           job == jobs[k]
       IN /\ stored' = [stored EXCEPT ![r].completion = job.completion,
                                      ![r].prep = IF job.prep = None THEN @ ELSE job.prep]
          /\ jobs' = [jobs EXCEPT ![k] = [stage |-> "ended"]]
          /\ UNCHANGED <<orders, reviews, calls, env, held>>
          /\ Settles(r, "completion", SameRate(job.completion, CompletionOf(r)),
                     SameRate(stored[r].completion, CompletionOf(r)))

-----------------------------------------------------------------------------
(* Posting a review                                                         *)

At(k, stage) == calls[k].stage = stage
Step(k, change) ==
    /\ calls' = [calls EXCEPT ![k] = With(@, change)]
    /\ UNCHANGED <<orders, jobs, env>>

End(k, stage) ==
    /\ calls' = [calls EXCEPT ![k] = [stage |-> stage, rating |-> None]]
    /\ UNCHANGED <<orders, jobs, env>>

ReviewedAt(k) == RestaurantOf[AboutOf[k]]

\* The order must be the caller's and finished; both are read once.
FindOrder(k) ==
    /\ At(k, "idle")
    /\ LET o == AboutOf[k]
           eligible == /\ orders[o] # None
                       /\ CustomerOf[o] = CallerOf[k]
                       /\ orders[o].status = "completed"
       IN IF ~eligible THEN End(k, "ended")
          ELSE \E rating \in RatingsOf[k] : Step(k, [stage |-> "insert", rating |-> rating])
    /\ UNCHANGED <<reviews, stored, lost, held>>

\* An insert that returns an error may have taken effect; then the reviewer sees
\* a 500 and nothing is refreshed.
AddReview(k) ==
    /\ reviews' = [reviews EXCEPT ![AboutOf[k]] = [rating |-> calls[k].rating, by |-> k]]
    /\ held' = [held EXCEPT !.ratings = @ \cup {<<ReviewedAt(k), RatingOf(ReviewedAt(k))'>>}]

\* Mutants: no unique index; the aggregate is taken before the insert.
NoIndex(k) == FALSE
AggregatedFirst(k) ==
    /\ At(k, "insert")
    /\ reviews[AboutOf[k]] = None
    /\ Step(k, [stage |-> "write", result |-> RatingOf(ReviewedAt(k))])
    /\ AddReview(k)
    /\ UNCHANGED <<stored, lost>>

Duplicate(k) == reviews[AboutOf[k]] # None

InsertReview(k) ==
    /\ At(k, "insert")
    /\ IF Duplicate(k) THEN End(k, "ended") /\ UNCHANGED <<reviews, held>>
       ELSE Step(k, [stage |-> "aggregate"]) /\ AddReview(k)
    /\ UNCHANGED <<stored, lost>>

AggregateRatings(k) ==
    /\ At(k, "aggregate")
    /\ Step(k, [stage |-> "write", result |-> RatingOf(ReviewedAt(k))])
    /\ UNCHANGED <<reviews, stored, lost, held>>

StoredRating(r) == [sum |-> stored[r].sum, count |-> stored[r].count]

WriteRating(k) ==
    /\ At(k, "write")
    /\ LET r == ReviewedAt(k)
           result == calls[k].result
       IN /\ stored' = [stored EXCEPT ![r].sum = result.sum, ![r].count = result.count]
          /\ End(k, "created")
          /\ Settles(r, "rating", result = RatingOf(r), StoredRating(r) = RatingOf(r))
    /\ UNCHANGED <<reviews, held>>

-----------------------------------------------------------------------------
(* Failures                                                                 *)

Fault == faults < MaxFaults /\ faults' = faults + 1 /\ UNCHANGED updates

InsertFails(k) ==
    /\ At(k, "insert") /\ Fault
    /\ calls' = [calls EXCEPT ![k] = [stage |-> "ended", rating |-> None]]
    /\ \/ UNCHANGED <<reviews, held, lost>>
       \/ ~Duplicate(k) /\ AddReview(k) /\ lost' = lost \cup {<<ReviewedAt(k), "rating">>}
    /\ UNCHANGED <<orders, stored, jobs>>

\* The review is there and the caller is told so.
RecomputeFails(k) ==
    /\ calls[k].stage \in {"aggregate", "write"} /\ Fault
    /\ calls' = [calls EXCEPT ![k] = [stage |-> "created", rating |-> None]]
    /\ lost' = lost \cup {<<ReviewedAt(k), "rating">>}
    /\ UNCHANGED <<orders, reviews, stored, jobs, held>>

Running == {k \in 1..MaxUpdates : jobs[k].stage \in {"completion", "prep", "write"}}
Posting == {k \in Call : calls[k].stage \in {"insert", "aggregate", "write"}}
Recomputing == {k \in Posting : ~At(k, "insert")}

JobFails(k) ==
    /\ k \in Running /\ Fault
    /\ jobs' = [jobs EXCEPT ![k] = [stage |-> "ended"]]
    /\ lost' = lost \cup {<<jobs[k].of, "completion">>}
    /\ UNCHANGED <<orders, reviews, stored, calls, held>>

Crash ==
    /\ Fault
    /\ calls' = [k \in Call |-> IF k \in Posting THEN [stage |-> "ended", rating |-> None] ELSE calls[k]]
    /\ jobs' = [k \in 1..MaxUpdates |->
                  IF k \in Running THEN [stage |-> "ended"] ELSE jobs[k]]
    /\ lost' = lost \cup {<<jobs[k].of, "completion">> : k \in Running}
                    \cup {<<ReviewedAt(k), "rating">> : k \in Recomputing}
    /\ UNCHANGED <<orders, reviews, stored, held>>

Next ==
    \/ \E o \in Order : NewOrder(o) \/ UpdateStatus(o) \/ UpdateReadyTime(o) \/ DeleteOrder(o)
    \/ \E k \in 1..MaxUpdates : ReadCompletion(k) \/ ReadPrep(k) \/ WriteMetrics(k) \/ JobFails(k)
    \/ \E k \in Call : \/ FindOrder(k) \/ InsertReview(k) \/ AggregateRatings(k) \/ WriteRating(k)
                       \/ InsertFails(k) \/ RecomputeFails(k)
    \/ Crash

Spec == Init /\ [][Next]_vars

-----------------------------------------------------------------------------
(* Properties                                                               *)

\* When no call and no goroutine of a restaurant is under way, its stored rating
\* and completion rate are those of its reviews and orders, unless a failure, a
\* crash or a slower writer left an older one behind, or an order was placed or
\* deleted since, which refreshes nothing (order/service/service.go, UpdateStatus).
InputsSettle ==
    \A r \in Restaurant :
        /\ (\A k \in Posting : ReviewedAt(k) # r) /\ <<r, "rating">> \notin lost =>
               StoredRating(r) = RatingOf(r)
        /\ (\A k \in Running : jobs[k].of # r) /\ <<r, "completion">> \notin lost =>
               SameRate(stored[r].completion, CompletionOf(r))

\* A restaurant that discovery leaves out had enough ratings and fewer than 3
\* stars, both at one moment, however calls overlapped and failed; and a score
\* lies between 0.28 and 1, whatever ready times staff enter.
RankingSound ==
    \A r \in Restaurant :
        /\ ~Listed(r) => \E fact \in held.ratings :
                             /\ fact[1] = r /\ fact[2].count >= MinRatings
                             /\ fact[2].sum < 3 * fact[2].count
        /\ LET score == Score(stored[r])
           IN 28 * score[2] <= 100 * score[1] /\ score[1] <= score[2]

\* At most one review of an order is accepted, from its customer and once the
\* order had been finished, also when it is submitted twice at a time or the
\* order changes between the check and the insert (the unique order_id of reviews).
ReviewEarned ==
    /\ \A o \in Order : reviews[o] # None =>
           o \in held.finished /\ CallerOf[reviews[o].by] = CustomerOf[o]
    /\ \A k \in Call : calls[k].stage = "created" => reviews[AboutOf[k]].by = k
=============================================================================
