--------------------------- MODULE ReputationProofs ---------------------------
(* Reviews are earned, and what is stored of them and of the orders settles:*)
(* the proofs.                                                              *)
EXTENDS Reputation, FiniteSetTheorems, WellFoundedInduction, TLAPS

-----------------------------------------------------------------------------
(* The inductive invariant                                                  *)

OrderRows == [status : Statuses, ready : ReadyTimes \cup {None}]
ReviewRows == [rating : 1..5, by : Call]

TypeOK ==
    /\ orders \in [Order -> OrderRows \cup {None}]
    /\ reviews \in [Order -> ReviewRows \cup {None}]
    /\ DOMAIN stored = Restaurant
    /\ \A r \in Restaurant : DOMAIN stored[r] = {"sum", "count", "completion", "prep"}
    /\ DOMAIN calls = Call
    /\ DOMAIN jobs = 1..MaxUpdates
    /\ updates \in Nat
    /\ DOMAIN held = {"finished", "ratings", "made"}

\* The k-th change of a status starts the k-th goroutine, which remembers the
\* restaurant, and the completion rate once it has read it.
Job(k) ==
    /\ k > updates => JobAt(k, "none")
    /\ k \in Running =>
         /\ {"stage", "of"} \subseteq DOMAIN jobs[k] /\ jobs[k].of \in Restaurant
         /\ ~JobAt(k, "completion") => "completion" \in DOMAIN jobs[k]

\* What a call has found out when it comes to a stage stays true: the order is
\* the caller's and had been finished, and after the insert the review is the call's.
Earned(k) ==
    LET o == AboutOf[k]
    IN /\ At(k, "insert") => calls[k].rating \in 1..5
       /\ calls[k].stage \in {"insert", "aggregate", "write", "created"} =>
            o \in held.finished /\ CallerOf[k] = CustomerOf[o]
       /\ calls[k].stage \in {"aggregate", "write", "created"} =>
            reviews[o] # None /\ reviews[o].by = k

FinishedNoted ==
    \A o \in Order : orders[o] # None /\ orders[o].status = "completed" => o \in held.finished

EarnedInv == TypeOK /\ FinishedNoted /\ (\A k \in Call : Earned(k)) /\ ReviewEarned

\* The stored rating is right, is known to be overtaken, or a call is under way
\* that will set it right: it has yet to aggregate, or has the right result.
RatingSettles(r) ==
    \/ <<r, "rating">> \in lost
    \/ StoredRating(r) = RatingOf(r)
    \/ \E k \in Call : /\ ReviewedAt(k) = r
                       /\ \/ At(k, "aggregate")
                          \/ At(k, "write") /\ calls[k].result = RatingOf(r)

\* The same for the completion rate.
CompletionSettles(r) ==
    \/ <<r, "completion">> \in lost
    \/ SameRate(stored[r].completion, CompletionOf(r))
    \/ \E k \in Running :
          /\ jobs[k].of = r
          /\ JobAt(k, "completion") \/ SameRate(jobs[k].completion, CompletionOf(r))

SettleInv ==
    /\ \A k \in 1..MaxUpdates : Job(k)
    /\ \A r \in Restaurant : RatingSettles(r) /\ CompletionSettles(r)

-----------------------------------------------------------------------------
(* Steps of a review call                                                   *)

\* Step and End move one call: on with the fields named, or to an end.
LEMMA CallSteps ==
    ASSUME TypeOK, NEW k \in Call
    PROVE  /\ \A change : Step(k, change) =>
                /\ DOMAIN calls' = Call /\ calls'[k] = With(calls[k], change)
                /\ \A j \in Call \ {k} : calls'[j] = calls[j]
                /\ UNCHANGED <<orders, jobs, env>>
           /\ \A stage : End(k, stage) =>
                /\ DOMAIN calls' = Call /\ calls'[k].stage = stage
                /\ \A j \in Call \ {k} : calls'[j] = calls[j]
                /\ UNCHANGED <<orders, jobs, env>>
  BY DEF TypeOK, Step, End

\* What holds of other calls goes on to hold while facts only grow.
LEMMA CallMoves ==
    ASSUME EarnedInv, NEW k \in Call, TypeOK', UNCHANGED <<orders, held, reviews>>,
           \A j \in Call \ {k} : calls'[j] = calls[j], Earned(k)'
    PROVE  EarnedInv'
<1>1. FinishedNoted' BY DEF EarnedInv, FinishedNoted
<1>2. \A j \in Call \ {k} : Earned(j)' BY DEF EarnedInv, Earned, At
<1>3. ReviewEarned' BY <1>2 DEF EarnedInv, Earned, ReviewEarned
<1> QED BY <1>1, <1>2, <1>3 DEF EarnedInv

-----------------------------------------------------------------------------
(* Reviews are earned                                                       *)

LEMMA InitEarned == Init => EarnedInv
<1> SUFFICES ASSUME Init PROVE EarnedInv OBVIOUS
<1>1. orders \in [Order -> OrderRows \cup {None}]
  BY ReputationAssumption DEF Init, OrderRows
<1>2. \A o \in Order : orders[o] # None => orders[o].status = FirstStatus[o]
  BY DEF Init
<1>3. TypeOK BY <1>1, ReputationAssumption DEF Init, TypeOK
<1>4. FinishedNoted BY <1>2 DEF Init, FinishedNoted
<1> QED BY <1>3, <1>4 DEF Init, EarnedInv, Earned, At, ReviewEarned

\* Staff and customers change orders; what was finished is noted.
LEMMA OrdersEarned ==
    ASSUME EarnedInv, NEW o \in Order,
           NewOrder(o) \/ UpdateStatus(o) \/ UpdateReadyTime(o) \/ DeleteOrder(o)
    PROVE  EarnedInv'
<1>1. UNCHANGED <<reviews, calls>>
  BY DEF NewOrder, UpdateStatus, UpdateReadyTime, DeleteOrder, Update
<1>2. orders' \in [Order -> OrderRows \cup {None}]
  <2>1. CASE NewOrder(o)
    <3>1. [status |-> "new", ready |-> None] \in OrderRows BY DEF OrderRows, Statuses
    <3> QED BY <2>1, <3>1 DEF NewOrder, EarnedInv, TypeOK
  <2>2. CASE UpdateStatus(o)
    <3> PICK status \in Statuses, ready \in ReadyTimes \cup {orders[o].ready} :
            orders' = [orders EXCEPT ![o] = [status |-> status, ready |-> ready]]
      BY <2>2 DEF UpdateStatus, Update
    <3>1. orders[o] \in OrderRows BY <2>2 DEF UpdateStatus, EarnedInv, TypeOK
    <3>2. [status |-> status, ready |-> ready] \in OrderRows BY <3>1 DEF OrderRows
    <3> QED BY <3>2 DEF EarnedInv, TypeOK
  <2>3. CASE UpdateReadyTime(o)
    <3> PICK ready \in ReadyTimes :
            orders' = [orders EXCEPT ![o] = [orders[o] EXCEPT !.ready = ready]]
      BY <2>3 DEF UpdateReadyTime, Update
    <3>1. orders[o] \in OrderRows BY <2>3 DEF UpdateReadyTime, EarnedInv, TypeOK
    <3>2. [orders[o] EXCEPT !.ready = ready] \in OrderRows BY <3>1 DEF OrderRows
    <3> QED BY <3>2 DEF EarnedInv, TypeOK
  <2>4. CASE DeleteOrder(o) BY <2>4 DEF DeleteOrder, Update, EarnedInv, TypeOK
  <2> QED BY <2>1, <2>2, <2>3, <2>4
<1>3. /\ DOMAIN held' = {"finished", "ratings", "made"}
      /\ held.finished \subseteq held'.finished
      /\ orders'[o] # None /\ orders'[o].status = "completed" => o \in held'.finished
  <2>1. CASE NewOrder(o) BY <2>1 DEF NewOrder, EarnedInv, TypeOK
  <2>2. CASE UpdateStatus(o) BY <2>2 DEF UpdateStatus, Update, EarnedInv, TypeOK
  <2>3. CASE UpdateReadyTime(o)
    <3> PICK ready \in ReadyTimes :
            orders' = [orders EXCEPT ![o] = [orders[o] EXCEPT !.ready = ready]]
      BY <2>3 DEF UpdateReadyTime, Update
    <3>1. orders[o] # None /\ orders[o] \in OrderRows /\ UNCHANGED held
      BY <2>3 DEF UpdateReadyTime, EarnedInv, TypeOK
    <3>2. orders'[o].status = orders[o].status BY <3>1 DEF OrderRows, EarnedInv, TypeOK
    <3> QED BY <3>1, <3>2 DEF EarnedInv, TypeOK, FinishedNoted
  <2>4. CASE DeleteOrder(o) BY <2>4 DEF DeleteOrder, Update, EarnedInv, TypeOK
  <2> QED BY <2>1, <2>2, <2>3, <2>4
<1>4. \A p \in Order \ {o} : orders'[p] = orders[p]
  BY DEF NewOrder, UpdateStatus, UpdateReadyTime, DeleteOrder, Update, EarnedInv, TypeOK
<1>5. DOMAIN stored' = Restaurant /\ UNCHANGED stored /\ DOMAIN jobs' = 1..MaxUpdates
      /\ updates' \in Nat
  BY DEF NewOrder, UpdateStatus, UpdateReadyTime, DeleteOrder, Update, env, EarnedInv, TypeOK
<1>6. TypeOK' BY <1>1, <1>2, <1>3, <1>5 DEF EarnedInv, TypeOK
<1>7. FinishedNoted' BY <1>3, <1>4 DEF EarnedInv, FinishedNoted
<1>8. \A k \in Call : Earned(k)' BY <1>1, <1>3 DEF EarnedInv, Earned, At
<1>9. ReviewEarned' BY <1>1, <1>3 DEF EarnedInv, ReviewEarned
<1> QED BY <1>6, <1>7, <1>8, <1>9 DEF EarnedInv

\* Goroutines write neither orders nor reviews.
LEMMA JobsEarned ==
    ASSUME EarnedInv, NEW k \in 1..MaxUpdates,
           ReadCompletion(k) \/ ReadPrep(k) \/ WriteMetrics(k) \/ JobFails(k)
    PROVE  EarnedInv'
<1>1. UNCHANGED <<orders, reviews, calls, updates, held>> /\ DOMAIN jobs' = 1..MaxUpdates
  BY DEF ReadCompletion, ReadPrep, WriteMetrics, JobFails, JobStep, Fault, env, EarnedInv, TypeOK
<1>2. /\ DOMAIN stored' = Restaurant
      /\ \A r \in Restaurant : DOMAIN stored'[r] = {"sum", "count", "completion", "prep"}
  BY DEF ReadCompletion, ReadPrep, WriteMetrics, JobFails, EarnedInv, TypeOK
<1>3. TypeOK' BY <1>1, <1>2 DEF EarnedInv, TypeOK
<1> QED BY <1>1, <1>3 DEF EarnedInv, FinishedNoted, Earned, At, ReviewEarned

\* The order is looked at once, and was finished then.
LEMMA FindOrderEarned == ASSUME EarnedInv, NEW k \in Call, FindOrder(k) PROVE EarnedInv'
<1> DEFINE o == AboutOf[k]
<1>1. o \in Order BY ReputationAssumption
<1>2. CASE End(k, "ended")
  <2>1. TypeOK' BY <1>2, CallSteps DEF FindOrder, EarnedInv, TypeOK, env
  <2>2. Earned(k)' BY <1>2, CallSteps DEF EarnedInv, Earned, At
  <2> QED BY <1>2, <2>1, <2>2, CallSteps, CallMoves DEF FindOrder, EarnedInv
<1>3. ASSUME NEW rating \in RatingsOf[k], Step(k, [stage |-> "insert", rating |-> rating]),
             orders[o] # None, CustomerOf[o] = CallerOf[k], orders[o].status = "completed"
      PROVE  EarnedInv'
  <2>1. /\ DOMAIN calls' = Call /\ calls'[k] = With(calls[k], [stage |-> "insert", rating |-> rating])
        /\ \A j \in Call \ {k} : calls'[j] = calls[j]
        /\ UNCHANGED <<orders, jobs, env>>
    BY <1>3, CallSteps DEF EarnedInv
  <2>2. calls'[k].stage = "insert" /\ calls'[k].rating = rating BY <2>1 DEF With
  <2>3. rating \in 1..5 BY ReputationAssumption
  <2>4. UNCHANGED <<reviews, stored, held>> BY DEF FindOrder
  <2>5. TypeOK' BY <2>1, <2>4 DEF EarnedInv, TypeOK, env
  <2>6. o \in held.finished BY <1>1, <1>3 DEF EarnedInv, FinishedNoted
  <2>7. Earned(k)' BY <1>3, <2>2, <2>3, <2>4, <2>6 DEF Earned, At
  <2> QED BY <2>1, <2>4, <2>5, <2>7, CallMoves
<1> QED BY <1>2, <1>3 DEF FindOrder

\* A review is inserted where there was none, by a call that found the order.
LEMMA AddReviewEarned ==
    ASSUME EarnedInv, NEW k \in Call, At(k, "insert"), ~Duplicate(k), AddReview(k),
           UNCHANGED <<orders, stored, updates>>, DOMAIN jobs' = 1..MaxUpdates,
           DOMAIN calls' = Call,
           \A j \in Call \ {k} : calls'[j] = calls[j],
           calls'[k].stage \in {"aggregate", "ended"}
    PROVE  EarnedInv'
<1> DEFINE o == AboutOf[k]
           row == [rating |-> calls[k].rating, by |-> k]
<1>1. o \in Order BY ReputationAssumption
<1>2. /\ row \in ReviewRows /\ row # None /\ row.by = k
      /\ o \in held.finished /\ CallerOf[k] = CustomerOf[o]
  BY ReputationAssumption DEF EarnedInv, Earned, At, ReviewRows
<1>3. reviews[o] = None BY DEF Duplicate
<1>4. reviews' = [reviews EXCEPT ![o] = row] BY DEF AddReview
<1>5. held'.finished = held.finished /\ DOMAIN held' = {"finished", "ratings", "made"}
  BY DEF AddReview, EarnedInv, TypeOK
<1> HIDE DEF row
<1>6. reviews'[o] = row /\ \A p \in Order \ {o} : reviews'[p] = reviews[p]
  BY <1>1, <1>4 DEF EarnedInv, TypeOK
<1>7. reviews' \in [Order -> ReviewRows \cup {None}] BY <1>2, <1>4 DEF EarnedInv, TypeOK
<1>8. TypeOK' BY <1>5, <1>7 DEF EarnedInv, TypeOK
<1>9. FinishedNoted' BY <1>5 DEF EarnedInv, FinishedNoted
<1>10. Earned(k)' BY <1>2, <1>5, <1>6 DEF Earned, At
<1>11. ASSUME NEW j \in Call \ {k} PROVE Earned(j)'
  <2>1. AboutOf[j] \in Order BY ReputationAssumption
  <2>2. Earned(j) BY DEF EarnedInv
  <2>3. calls[j].stage \in {"aggregate", "write", "created"} => AboutOf[j] # o
    BY <1>3, <2>2 DEF Earned
  <2> QED BY <1>5, <1>6, <2>1, <2>2, <2>3 DEF Earned, At
<1>12. ReviewEarned'
  <2>1. \A p \in Order : reviews'[p] # None =>
            p \in held'.finished /\ CallerOf[reviews'[p].by] = CustomerOf[p]
    BY <1>2, <1>5, <1>6 DEF EarnedInv, ReviewEarned
  <2>2. \A j \in Call : calls'[j].stage = "created" => reviews'[AboutOf[j]].by = j
    BY <1>10, <1>11 DEF Earned
  <2> QED BY <2>1, <2>2 DEF ReviewEarned
<1> QED BY <1>8, <1>9, <1>10, <1>11, <1>12 DEF EarnedInv

LEMMA InsertEarned ==
    ASSUME EarnedInv, NEW k \in Call, InsertReview(k) \/ InsertFails(k)
    PROVE  EarnedInv'
<1>1. CASE InsertReview(k)
  <2>1. CASE Duplicate(k)
    <3>1. /\ DOMAIN calls' = Call /\ calls'[k].stage = "ended"
          /\ \A j \in Call \ {k} : calls'[j] = calls[j]
          /\ UNCHANGED <<orders, jobs, env, reviews, held, stored>>
      BY <1>1, <2>1, CallSteps DEF InsertReview, EarnedInv
    <3>2. TypeOK' BY <3>1 DEF EarnedInv, TypeOK, env
    <3>3. Earned(k)' BY <3>1 DEF Earned, At
    <3> QED BY <3>1, <3>2, <3>3, CallMoves
  <2>2. CASE ~Duplicate(k)
    <3>1. /\ DOMAIN calls' = Call /\ calls'[k] = With(calls[k], [stage |-> "aggregate"])
          /\ \A j \in Call \ {k} : calls'[j] = calls[j]
          /\ UNCHANGED <<orders, jobs, env, stored>>
          /\ At(k, "insert") /\ AddReview(k)
      BY <1>1, <2>2, CallSteps DEF InsertReview, EarnedInv
    <3>2. calls'[k].stage = "aggregate" BY <3>1 DEF With
    <3>3. UNCHANGED updates /\ DOMAIN jobs' = 1..MaxUpdates
      BY <3>1 DEF env, EarnedInv, TypeOK
    <3> QED BY <2>2, <3>1, <3>2, <3>3, AddReviewEarned
  <2> QED BY <2>1, <2>2
<1>2. CASE InsertFails(k)
  <2>1. /\ DOMAIN calls' = Call /\ calls'[k].stage = "ended"
        /\ \A j \in Call \ {k} : calls'[j] = calls[j]
        /\ UNCHANGED <<orders, jobs, updates, stored>> /\ At(k, "insert")
        /\ DOMAIN jobs' = 1..MaxUpdates
    BY <1>2 DEF InsertFails, Fault, EarnedInv, TypeOK
  <2>2. CASE UNCHANGED <<reviews, held>>
    <3>1. TypeOK' BY <2>1, <2>2 DEF EarnedInv, TypeOK
    <3>2. Earned(k)' BY <2>1 DEF Earned, At
    <3> QED BY <2>1, <2>2, <3>1, <3>2, CallMoves
  <2>3. CASE ~Duplicate(k) /\ AddReview(k) BY <2>1, <2>3, AddReviewEarned
  <2> QED BY <1>2, <2>2, <2>3 DEF InsertFails
<1> QED BY <1>1, <1>2

\* After its insert a call keeps its review, whether the numbers are refreshed or not.
LEMMA RefreshEarned ==
    ASSUME EarnedInv, NEW k \in Call,
           AggregateRatings(k) \/ WriteRating(k) \/ RecomputeFails(k)
    PROVE  EarnedInv'
<1>1. calls[k].stage \in {"aggregate", "write"}
  BY DEF AggregateRatings, WriteRating, RecomputeFails, At
<1>2. UNCHANGED <<reviews, held, orders, jobs, updates>>
  BY CallSteps DEF AggregateRatings, WriteRating, RecomputeFails, Fault, env, EarnedInv
<1>3. /\ DOMAIN calls' = Call
      /\ \A j \in Call \ {k} : calls'[j] = calls[j]
      /\ calls'[k].stage \in {"write", "created"}
  <2>1. CASE AggregateRatings(k)
    <3>1. calls'[k] = With(calls[k], [stage |-> "write", result |-> RatingOf(ReviewedAt(k))])
      BY <2>1, CallSteps DEF AggregateRatings, EarnedInv
    <3>2. calls'[k].stage = "write" BY <3>1 DEF With
    <3> QED BY <2>1, <3>2, CallSteps DEF AggregateRatings, EarnedInv
  <2>2. CASE WriteRating(k) BY <2>2, CallSteps DEF WriteRating, EarnedInv
  <2>3. CASE RecomputeFails(k) BY <2>3 DEF RecomputeFails, EarnedInv, TypeOK
  <2> QED BY <2>1, <2>2, <2>3
<1>4. /\ DOMAIN stored' = Restaurant
      /\ \A r \in Restaurant : DOMAIN stored'[r] = {"sum", "count", "completion", "prep"}
  BY DEF AggregateRatings, WriteRating, RecomputeFails, EarnedInv, TypeOK
<1>5. TypeOK' BY <1>2, <1>3, <1>4 DEF EarnedInv, TypeOK
<1>6. Earned(k)' BY <1>1, <1>2, <1>3 DEF EarnedInv, Earned, At
<1> QED BY <1>2, <1>3, <1>5, <1>6, CallMoves

\* A crash ends calls.
LEMMA CrashEarned == ASSUME EarnedInv, Crash PROVE EarnedInv'
<1>1. /\ UNCHANGED <<orders, reviews, stored, updates, held>>
      /\ DOMAIN calls' = Call /\ DOMAIN jobs' = 1..MaxUpdates
      /\ \A j \in Call : calls'[j] = calls[j] \/ calls'[j].stage = "ended"
  BY DEF Crash, Fault
<1>2. TypeOK' BY <1>1 DEF EarnedInv, TypeOK
<1>3. \A j \in Call : Earned(j)' BY <1>1 DEF EarnedInv, Earned, At
<1>4. ReviewEarned' BY <1>1 DEF EarnedInv, ReviewEarned
<1> QED BY <1>1, <1>2, <1>3, <1>4 DEF EarnedInv, FinishedNoted

LEMMA NextEarned == ASSUME EarnedInv, [Next]_vars PROVE EarnedInv'
<1>1. CASE UNCHANGED vars
  BY <1>1 DEF vars, env, EarnedInv, TypeOK, FinishedNoted, Earned, At, ReviewEarned
<1>2. CASE Next
  BY <1>2, OrdersEarned, JobsEarned, FindOrderEarned, InsertEarned, RefreshEarned, CrashEarned
     DEF Next
<1> QED BY <1>1, <1>2

\* At most one review of an order is accepted, from its customer and once the
\* order had been finished: for any orders, customers, calls, failures and crashes
\* (reviews/service/service.go, Create, and the unique order_id of reviews).
THEOREM ReviewEarnedHolds == Spec => []ReviewEarned
<1>1. Init => EarnedInv BY InitEarned
<1>2. EarnedInv /\ [Next]_vars => EarnedInv' BY NextEarned
<1>3. EarnedInv => ReviewEarned BY DEF EarnedInv
<1> QED BY <1>1, <1>2, <1>3, PTL DEF Spec

-----------------------------------------------------------------------------
(* Sums                                                                     *)

\* A set of naturals that has 0, and with every number the next one, has all.
LEMMA CountingUp ==
    ASSUME NEW T \in SUBSET Nat, 0 \in T, \A n \in T : n + 1 \in T
    PROVE  T = Nat
<1>1. SUFFICES ASSUME Nat \ T # {} PROVE FALSE
  OBVIOUS
<1>2. PICK m \in Nat \ T : \A k \in Nat \ T : <<k, m>> \notin OpToRel(<, Nat)
  BY <1>1, WFMin, NatLessThanWellFounded, Zenon
<1>3. \A k \in Nat \ T : ~(k < m)
  BY <1>2, Zenon DEF OpToRel
<1>4. QED
  BY ONLY <1>3, m \in Nat \ T, 0 \in T, \A n \in T : n + 1 \in T, T \subseteq Nat

\* g adds up f over the sets of B, as the fold of the community modules does.
Chosen(s) == CHOOSE x \in s : TRUE
Adds(g, f, B) == g = [s \in B |-> IF s = {} THEN 0 ELSE f[Chosen(s)] + g[s \ {Chosen(s)}]]
UpTo(S, n) == {s \in SUBSET S : Cardinality(s) <= n}

LEMMA Smaller ==
    ASSUME NEW S, IsFiniteSet(S), NEW n \in Nat, NEW s \in UpTo(S, n + 1), s # {}
    PROVE  /\ s \ {Chosen(s)} \in UpTo(S, n) /\ Chosen(s) \in S
           /\ Cardinality(s) \in Nat \ {0} /\ Cardinality(s \ {Chosen(s)}) = Cardinality(s) - 1
<1>1. Chosen(s) \in s
  BY DEF Chosen
<1>2. s \subseteq S /\ Cardinality(s) <= n + 1
  BY DEF UpTo
<1>3. IsFiniteSet(s) /\ Cardinality(s) \in Nat
  BY <1>2, FS_Subset, FS_CardinalityType
<1>4. Cardinality(s \ {Chosen(s)}) = Cardinality(s) - 1 /\ Cardinality(s) # 0
  BY <1>1, <1>3, FS_RemoveElement, FS_EmptySet
<1>5. QED
  BY <1>1, <1>2, <1>3, <1>4 DEF UpTo

LEMMA EmptyOnly ==
    ASSUME NEW S, IsFiniteSet(S)
    PROVE  /\ \A s \in UpTo(S, 0) : s = {}
           /\ UpTo(S, Cardinality(S)) = SUBSET S /\ Cardinality(S) \in Nat
  BY FS_Subset, FS_CardinalityType, FS_EmptySet DEF UpTo

\* The fold is well defined: a function that adds up larger and larger sets.
LEMMA AddsExists ==
    ASSUME NEW S, IsFiniteSet(S), NEW f
    PROVE  \E g : Adds(g, f, SUBSET S)
<1> DEFINE T == {n \in Nat : \E g : Adds(g, f, UpTo(S, n))}
<1>1. 0 \in T
  <2>1. Adds([s \in UpTo(S, 0) |-> 0], f, UpTo(S, 0))
    BY EmptyOnly DEF Adds
  <2>2. QED
    BY <2>1
<1>2. ASSUME NEW n \in T
      PROVE  n + 1 \in T
  <2>1. PICK g : Adds(g, f, UpTo(S, n))
    OBVIOUS
  <2> DEFINE B == UpTo(S, n)
             C == UpTo(S, n + 1)
             v(s, k) == IF s = {} THEN 0 ELSE f[Chosen(s)] + k[s \ {Chosen(s)}]
             h == [s \in C |-> v(s, g)]
  <2>2. B \subseteq C
    BY FS_Subset, FS_CardinalityType DEF UpTo
  <2>3. \A s \in B : h[s] = g[s]
    BY <2>1, <2>2 DEF Adds
  <2>4. \A s \in C : s # {} => s \ {Chosen(s)} \in B
    BY Smaller
  <2>5. \A s \in C : v(s, g) = v(s, h)
    BY <2>3, <2>4
  <2>6. h = [s \in C |-> v(s, h)]
    BY <2>5
  <2>7. Adds(h, f, C)
    BY <2>6 DEF Adds
  <2>8. QED
    BY <2>7
<1> HIDE DEF T
<1>3. T = Nat
  BY <1>1, <1>2, CountingUp DEF T
<1>4. Cardinality(S) \in T /\ UpTo(S, Cardinality(S)) = SUBSET S
  BY <1>3, EmptyOnly
<1>5. \E g : Adds(g, f, UpTo(S, Cardinality(S)))
  BY <1>4 DEF T
<1>6. QED
  BY <1>4, <1>5

\* What holds of 0 things that add up to 0, and goes on to hold with one more,
\* holds of all: R relates how many there are to their sum.
LEMMA SumsIn ==
    ASSUME NEW S, IsFiniteSet(S), NEW f, NEW R, <<0, 0>> \in R,
           \A n \in Nat, x \in S : \A t : <<n, t>> \in R => <<n + 1, f[x] + t>> \in R
    PROVE  <<Cardinality(S), SumFunctionOnSet(f, S)>> \in R
<1> DEFINE iter == CHOOSE g : Adds(g, f, SUBSET S)
<1>1. Adds(iter, f, SUBSET S)
  BY AddsExists
<1>2. SumFunctionOnSet(f, S) = iter[S]
  BY DEF SumFunctionOnSet, FoldFunctionOnSet, MapThenFoldSet, Adds, Chosen
<1> HIDE DEF iter
<1> DEFINE T == {n \in Nat : \A s \in UpTo(S, n) : <<Cardinality(s), iter[s]>> \in R}
<1>3. iter[{}] = 0 /\ Cardinality({}) = 0
  BY <1>1, FS_EmptySet DEF Adds
<1>4. 0 \in T
  BY <1>3, EmptyOnly
<1>5. ASSUME NEW n \in T
      PROVE  n + 1 \in T
  <2>1. ASSUME NEW s \in UpTo(S, n + 1), s # {}
        PROVE  <<Cardinality(s), iter[s]>> \in R
    <3> DEFINE rest == s \ {Chosen(s)}
               m == Cardinality(s) - 1
    <3>1. /\ rest \in UpTo(S, n) /\ Chosen(s) \in S
          /\ m \in Nat /\ Cardinality(rest) = m /\ Cardinality(s) = m + 1
      <4>1. n \in Nat
        OBVIOUS
      <4>2. /\ s \ {Chosen(s)} \in UpTo(S, n) /\ Chosen(s) \in S
            /\ Cardinality(s) \in Nat \ {0} /\ Cardinality(s \ {Chosen(s)}) = Cardinality(s) - 1
        BY ONLY <2>1, <4>1, IsFiniteSet(S), Smaller
      <4>3. QED
        BY <4>2
    <3>2. iter[s] = f[Chosen(s)] + iter[rest]
      BY <1>1, <2>1 DEF Adds, UpTo
    <3>3. <<m, iter[rest]>> \in R
      BY <3>1
    <3> HIDE DEF rest, m
    <3>4. <<m + 1, f[Chosen(s)] + iter[rest]>> \in R
      BY <3>1, <3>3
    <3>5. QED
      BY <3>1, <3>2, <3>4
  <2>2. \A s \in UpTo(S, n + 1) : <<Cardinality(s), iter[s]>> \in R
    BY <1>3, <2>1
  <2>3. QED
    BY <2>2
<1> HIDE DEF T
<1>6. T = Nat
  BY <1>4, <1>5, CountingUp DEF T
<1>7. Cardinality(S) \in T /\ S \in UpTo(S, Cardinality(S))
  BY <1>6, EmptyOnly
<1>8. QED
  BY <1>2, <1>7 DEF T

-----------------------------------------------------------------------------
(* Aggregates                                                               *)

\* Ratings of 1 to 5 stars add up to no more than 5 times their number.
LEMMA RatingBounds ==
    ASSUME NEW rows, NEW S \in SUBSET Order, \A o \in S : rows[o].rating \in 1..5
    PROVE  /\ Cardinality(S) \in Nat
           /\ SumFunction([o \in S |-> rows[o].rating]) \in 0..5 * Cardinality(S)
<1> DEFINE f == [o \in S |-> rows[o].rating]
           R == {p \in Nat \X Nat : p[2] <= 5 * p[1]}
<1>1. IsFiniteSet(S) BY ReputationAssumption, FS_Subset
<1>2. Cardinality(S) \in Nat BY <1>1, FS_CardinalityType
<1>3. <<0, 0>> \in R OBVIOUS
<1>4. ASSUME NEW n \in Nat, NEW o \in S, NEW t, <<n, t>> \in R PROVE <<n + 1, f[o] + t>> \in R
  <2>1. f[o] \in 1..5 /\ t \in Nat /\ t <= 5 * n BY <1>4
  <2> HIDE DEF f
  <2>2. f[o] + t \in Nat /\ f[o] + t <= 5 * (n + 1) BY <2>1
  <2> QED BY <2>2
<1>5. DOMAIN f = S OBVIOUS
<1> HIDE DEF f, R
<1>6. <<Cardinality(S), SumFunctionOnSet(f, S)>> \in R BY <1>1, <1>3, <1>4, SumsIn
<1>7. SumFunction(f) \in Nat /\ SumFunction(f) <= 5 * Cardinality(S)
  BY <1>5, <1>6 DEF SumFunction, R
<1> QED BY <1>2, <1>7 DEF f

\* The rating of a restaurant depends on the reviews of its orders alone, its
\* completion rate on which of its orders there are and their statuses.
LEMMA RatingFrame ==
    ASSUME NEW r, \A o \in Order : RestaurantOf[o] = r => reviews'[o] = reviews[o]
    PROVE  RatingOf(r)' = RatingOf(r)
<1>1. Reviewed(r)' = Reviewed(r) BY DEF Reviewed
<1>2. [o \in Reviewed(r) |-> reviews'[o].rating] = [o \in Reviewed(r) |-> reviews[o].rating]
  BY DEF Reviewed
<1> QED BY <1>1, <1>2 DEF RatingOf

LEMMA CompletionFrame ==
    ASSUME NEW r,
           \A o \in Order : RestaurantOf[o] = r =>
               /\ orders'[o] = None <=> orders[o] = None
               /\ orders[o] # None => orders'[o].status = orders[o].status
    PROVE  CompletionOf(r)' = CompletionOf(r)
<1>1. \A statuses : Kept(r, statuses)' = Kept(r, statuses) BY DEF Kept
<1>2. Kept(r, Statuses \ {"cancelled"})' = Kept(r, Statuses \ {"cancelled"}) BY <1>1
<1>3. Kept(r, {"completed"})' = Kept(r, {"completed"}) BY <1>1
<1> QED BY <1>2, <1>3 DEF CompletionOf

-----------------------------------------------------------------------------
(* What is stored settles                                                   *)

\* A step that changes neither the reviews nor what is stored of them, and drops
\* no call that would set it right, unless that is noted.
LEMMA RatingKeeps ==
    ASSUME NEW r, RatingSettles(r), RatingOf(r)' = RatingOf(r),
           StoredRating(r)' = StoredRating(r),
           <<r, "rating">> \in lost => <<r, "rating">> \in lost',
           \A k \in Call : ReviewedAt(k) = r /\ calls[k].stage \in {"aggregate", "write"} =>
               calls'[k] = calls[k] \/ <<r, "rating">> \in lost'
    PROVE  RatingSettles(r)'
<1>1. CASE <<r, "rating">> \in lost BY <1>1 DEF RatingSettles
<1>2. CASE StoredRating(r) = RatingOf(r) BY <1>2 DEF RatingSettles
<1>3. ASSUME NEW k \in Call, ReviewedAt(k) = r,
             At(k, "aggregate") \/ (At(k, "write") /\ calls[k].result = RatingOf(r))
      PROVE  RatingSettles(r)'
  <2>1. ReviewedAt(k)' = r BY <1>3 DEF ReviewedAt
  <2>2. CASE <<r, "rating">> \in lost' BY <2>2 DEF RatingSettles
  <2>3. CASE calls'[k] = calls[k] BY <1>3, <2>1, <2>3 DEF RatingSettles, At
  <2> QED BY <1>3, <2>2, <2>3 DEF At
<1> QED BY <1>1, <1>2, <1>3 DEF RatingSettles

\* The same for the completion rate and its goroutines.
LEMMA CompletionKeeps ==
    ASSUME NEW r, CompletionSettles(r), CompletionOf(r)' = CompletionOf(r),
           stored'[r].completion = stored[r].completion,
           <<r, "completion">> \in lost => <<r, "completion">> \in lost',
           \A k \in Running : jobs[k].of = r =>
               jobs'[k] = jobs[k] \/ <<r, "completion">> \in lost'
    PROVE  CompletionSettles(r)'
<1>1. CASE <<r, "completion">> \in lost BY <1>1 DEF CompletionSettles
<1>2. CASE SameRate(stored[r].completion, CompletionOf(r))
  BY <1>2 DEF CompletionSettles, SameRate
<1>3. ASSUME NEW k \in Running, jobs[k].of = r,
             JobAt(k, "completion") \/ SameRate(jobs[k].completion, CompletionOf(r))
      PROVE  CompletionSettles(r)'
  <2>1. CASE <<r, "completion">> \in lost' BY <2>1 DEF CompletionSettles
  <2>2. CASE jobs'[k] = jobs[k]
    <3>1. k \in Running' BY <2>2 DEF Running
    <3>2. JobAt(k, "completion")' \/ SameRate(jobs'[k].completion, CompletionOf(r)')
      BY <1>3, <2>2 DEF JobAt, SameRate
    <3> QED BY <1>3, <2>2, <3>1, <3>2 DEF CompletionSettles, SameRate, JobAt
  <2> QED BY <1>3, <2>1, <2>2
<1> QED BY <1>1, <1>2, <1>3 DEF CompletionSettles

LEMMA InitSettle == Init => SettleInv
<1> SUFFICES ASSUME Init PROVE SettleInv OBVIOUS
<1>1. \A k \in 1..MaxUpdates : Job(k) BY DEF Init, Job, JobAt, Running
<1>2. ASSUME NEW r \in Restaurant PROVE RatingSettles(r)
  <2>1. Reviewed(r) = {} BY DEF Init, Reviewed
  <2>2. SumFunction([o \in {} |-> reviews[o].rating]) \in 0..5 * Cardinality({})
    BY RatingBounds
  <2>3. RatingOf(r) = [sum |-> 0, count |-> 0]
    BY <2>1, <2>2, FS_EmptySet DEF RatingOf
  <2>4. StoredRating(r) = [sum |-> 0, count |-> 0] BY DEF Init, StoredRating
  <2> QED BY <2>3, <2>4 DEF RatingSettles
<1>3. ASSUME NEW r \in Restaurant PROVE CompletionSettles(r)
  BY DEF Init, CompletionSettles
<1> QED BY <1>1, <1>2, <1>3 DEF SettleInv

\* Steps of orders and goroutines leave the rating alone, ...
LEMMA RatingApart ==
    ASSUME SettleInv, NEW r \in Restaurant, UNCHANGED <<reviews, calls>>,
           StoredRating(r)' = StoredRating(r),
           <<r, "rating">> \in lost => <<r, "rating">> \in lost'
    PROVE  RatingSettles(r)'
<1>1. RatingOf(r)' = RatingOf(r) BY RatingFrame
<1>2. RatingSettles(r) BY DEF SettleInv
<1> QED BY <1>1, <1>2, RatingKeeps

\* ... and steps of review calls leave the orders and the completion rate alone.
LEMMA CompletionApart ==
    ASSUME SettleInv, NEW r \in Restaurant, UNCHANGED <<orders, jobs>>,
           stored'[r].completion = stored[r].completion,
           <<r, "completion">> \in lost => <<r, "completion">> \in lost'
    PROVE  CompletionSettles(r)'
<1>1. CompletionOf(r)' = CompletionOf(r) BY CompletionFrame
<1>2. CompletionSettles(r) BY DEF SettleInv
<1> QED BY <1>1, <1>2, CompletionKeeps

\* Orders that are placed or deleted are noted, and a change of status starts a
\* goroutine that has everything still to read.
LEMMA OrdersSettle ==
    ASSUME TypeOK, SettleInv, NEW o \in Order,
           NewOrder(o) \/ UpdateStatus(o) \/ UpdateReadyTime(o) \/ DeleteOrder(o)
    PROVE  SettleInv'
<1> DEFINE r == RestaurantOf[o]
<1>1. r \in Restaurant BY DEF Restaurant
<1>2. /\ UNCHANGED <<reviews, calls, stored>>
      /\ lost' = lost \/ lost' = lost \cup {<<r, "completion">>}
      /\ \A p \in Order \ {o} : orders'[p] = orders[p]
  BY DEF NewOrder, UpdateStatus, UpdateReadyTime, DeleteOrder, Update, TypeOK
<1>3. \A s \in Restaurant : RatingSettles(s)'
  BY <1>2, RatingApart DEF StoredRating
<1>4. \A s \in Restaurant \ {r} : CompletionOf(s)' = CompletionOf(s)
  BY <1>2, CompletionFrame
<1>5. CASE UpdateStatus(o)
  <2>1. /\ updates < MaxUpdates /\ updates' = updates + 1
        /\ jobs' = [jobs EXCEPT ![updates'] = [stage |-> "completion", of |-> r]]
    BY <1>5 DEF UpdateStatus, Update
  <2>2. updates' \in 1..MaxUpdates /\ updates' > updates
    BY <2>1, ReputationAssumption DEF TypeOK
  <2> PICK n \in 1..MaxUpdates : n = updates' BY <2>2
  <2>3. /\ jobs'[n] = [stage |-> "completion", of |-> r]
        /\ \A k \in 1..MaxUpdates : k # n => jobs'[k] = jobs[k]
    BY <2>1, <2>2 DEF TypeOK
  <2>4. \A k \in 1..MaxUpdates : Job(k)'
    <3>1. Job(n)' BY <1>1, <2>2, <2>3 DEF Job, JobAt, Running
    <3>2. ASSUME NEW k \in 1..MaxUpdates, k # n PROVE Job(k)'
      <4>1. k > updates' => k > updates BY <2>1 DEF TypeOK
      <4>2. jobs'[k] = jobs[k] BY <2>3, <3>2
      <4> QED BY <4>1, <4>2 DEF SettleInv, Job, JobAt, Running
    <3> QED BY <3>1, <3>2
  <2>5. CompletionSettles(r)'
    <3>1. n \in Running' BY <2>2, <2>3 DEF Running
    <3> QED BY <2>3, <3>1 DEF CompletionSettles, JobAt
  <2>6. ASSUME NEW s \in Restaurant \ {r} PROVE CompletionSettles(s)'
    <3>1. n \notin Running BY <2>2 DEF SettleInv, Job, JobAt, Running
    <3>2. \A k \in Running : jobs'[k] = jobs[k] BY <2>3, <3>1 DEF Running
    <3>3. CompletionSettles(s) /\ stored'[s].completion = stored[s].completion
      BY <1>2 DEF SettleInv
    <3>4. CompletionOf(s)' = CompletionOf(s) BY <1>4
    <3>5. <<s, "completion">> \in lost => <<s, "completion">> \in lost' BY <1>2
    <3> QED BY <3>2, <3>3, <3>4, <3>5, CompletionKeeps
  <2> QED BY <1>3, <2>4, <2>5, <2>6 DEF SettleInv
<1>6. CASE NewOrder(o) \/ DeleteOrder(o) \/ UpdateReadyTime(o)
  <2>1. UNCHANGED jobs /\ (updates' = updates \/ updates' = updates + 1)
    BY <1>6 DEF NewOrder, DeleteOrder, UpdateReadyTime, Update, env
  <2>2. \A k \in 1..MaxUpdates : k > updates' => k > updates BY <2>1 DEF TypeOK
  <2>3. \A k \in 1..MaxUpdates : Job(k)'
    BY <2>1, <2>2 DEF SettleInv, Job, JobAt, Running
  <2>4. ASSUME NEW s \in Restaurant, CompletionOf(s)' = CompletionOf(s)
        PROVE  CompletionSettles(s)'
    <3>1. CompletionSettles(s) /\ stored'[s].completion = stored[s].completion
      BY <1>2 DEF SettleInv
    <3>2. <<s, "completion">> \in lost => <<s, "completion">> \in lost' BY <1>2
    <3> QED BY <2>1, <2>4, <3>1, <3>2, CompletionKeeps
  <2>5. CompletionSettles(r)'
    <3>1. CASE NewOrder(o) \/ DeleteOrder(o)
      BY <3>1 DEF NewOrder, DeleteOrder, CompletionSettles
    <3>2. CASE UpdateReadyTime(o)
      <4> PICK ready \in ReadyTimes :
              orders' = [orders EXCEPT ![o] = [orders[o] EXCEPT !.ready = ready]]
        BY <3>2 DEF UpdateReadyTime, Update
      <4>1. orders[o] # None /\ orders[o] \in OrderRows
        BY <3>2 DEF UpdateReadyTime, TypeOK
      <4>2. [orders[o] EXCEPT !.ready = ready] \in OrderRows BY <4>1 DEF OrderRows
      <4>3. orders'[o] = [orders[o] EXCEPT !.ready = ready] BY DEF TypeOK
      <4>4. orders'[o] # None BY <4>2, <4>3, ReputationAssumption DEF OrderRows
      <4>5. orders'[o].status = orders[o].status BY <4>1, <4>3 DEF OrderRows
      <4>6. CompletionOf(r)' = CompletionOf(r)
        BY <1>2, <4>1, <4>4, <4>5, CompletionFrame
      <4> QED BY <1>1, <2>4, <4>6
    <3> QED BY <1>6, <3>1, <3>2
  <2>6. \A s \in Restaurant \ {r} : CompletionSettles(s)' BY <1>4, <2>4
  <2> QED BY <1>3, <2>3, <2>5, <2>6 DEF SettleInv
<1> QED BY <1>5, <1>6

\* A goroutine reads a rate that is right when it is read; a write of a rate that
\* is not right leaves another goroutine to come, or is noted.
LEMMA JobsSettle ==
    ASSUME TypeOK, SettleInv, NEW k \in 1..MaxUpdates,
           ReadCompletion(k) \/ ReadPrep(k) \/ WriteMetrics(k) \/ JobFails(k)
    PROVE  SettleInv'
<1>0. k \in Running /\ jobs[k].of \in Restaurant
  BY DEF ReadCompletion, ReadPrep, WriteMetrics, JobFails, JobAt, Running, SettleInv, Job
<1> PICK r \in Restaurant : r = jobs[k].of BY <1>0
<1>1. k \in Running /\ r \in Restaurant BY <1>0
<1>2. /\ UNCHANGED <<orders, reviews, calls, updates>>
      /\ \A j \in (1..MaxUpdates) \ {k} : jobs'[j] = jobs[j]
  BY DEF ReadCompletion, ReadPrep, WriteMetrics, JobFails, JobStep, Fault, env, TypeOK
<1>3. \A s \in Restaurant : CompletionOf(s)' = CompletionOf(s) BY <1>2, CompletionFrame
<1>4. \A j \in (1..MaxUpdates) \ {k} : Job(j)'
  BY <1>2 DEF SettleInv, Job, JobAt, Running
<1>5. k <= updates BY <1>1 DEF SettleInv, Job, JobAt, Running, TypeOK
<1>6. \A s \in Restaurant : RatingSettles(s)'
  <2> TAKE s \in Restaurant
  <2>1. <<s, "rating">> \in lost => <<s, "rating">> \in lost'
    BY DEF ReadCompletion, ReadPrep, WriteMetrics, JobFails, Settles
  <2>2. StoredRating(s)' = StoredRating(s)
    BY DEF ReadCompletion, ReadPrep, WriteMetrics, JobFails, TypeOK, StoredRating
  <2> QED BY <1>2, <2>1, <2>2, RatingApart
\* a step of k that keeps what is stored and what other restaurants wait for
<1>7. ASSUME UNCHANGED stored, NEW s \in Restaurant, s # r,
             <<s, "completion">> \in lost => <<s, "completion">> \in lost'
      PROVE  CompletionSettles(s)'
  <2>1. \A j \in Running : jobs[j].of = s => jobs'[j] = jobs[j]
    BY <1>2, <1>7 DEF Running
  <2> QED BY <1>3, <1>7, <2>1, CompletionKeeps DEF SettleInv
<1>8. CASE ReadCompletion(k)
  <2>1. jobs'[k] = With(jobs[k], [stage |-> "prep", completion |-> CompletionOf(r)])
    BY <1>8 DEF ReadCompletion, JobStep, TypeOK
  <2>2. {"stage", "of"} \subseteq DOMAIN jobs[k] BY <1>1 DEF SettleInv, Job
  <2>3. /\ jobs'[k].stage = "prep" /\ jobs'[k].of = r
        /\ jobs'[k].completion = CompletionOf(r)
        /\ {"stage", "of", "completion"} \subseteq DOMAIN jobs'[k]
    BY <2>1, <2>2 DEF With
  <2>4. Job(k)' BY <1>1, <1>2, <1>5, <2>3 DEF Job, JobAt, TypeOK
  <2>5. k \in Running' BY <2>3 DEF Running
  <2>6. SameRate(CompletionOf(r), CompletionOf(r)) BY DEF SameRate
  <2>7. SameRate(jobs'[k].completion, CompletionOf(r)') BY <1>1, <1>3, <2>3, <2>6
  <2>8. CompletionSettles(r)'
    BY <2>3, <2>5, <2>7 DEF CompletionSettles, SameRate
  <2> QED BY <1>4, <1>6, <1>7, <1>8, <2>4, <2>8 DEF ReadCompletion, SettleInv
<1>9. CASE ReadPrep(k)
  <2>1. jobs'[k] = With(jobs[k], [stage |-> "write", prep |-> PrepOf(r)])
    BY <1>9 DEF ReadPrep, JobStep, TypeOK
  <2>2. {"stage", "of", "completion"} \subseteq DOMAIN jobs[k] /\ jobs[k].stage = "prep"
    BY <1>1, <1>9 DEF ReadPrep, SettleInv, Job, JobAt
  <2>3. /\ jobs'[k].stage = "write" /\ jobs'[k].of = r
        /\ jobs'[k].completion = jobs[k].completion
        /\ {"stage", "of", "completion"} \subseteq DOMAIN jobs'[k]
    BY <2>1, <2>2 DEF With
  <2>4. Job(k)' BY <1>1, <1>2, <1>5, <2>3 DEF Job, JobAt, TypeOK
  <2>5. k \in Running' BY <2>3 DEF Running
  <2>6. UNCHANGED <<stored, lost>> BY <1>9 DEF ReadPrep
  <2>7. CompletionSettles(r)'
    <3>1. CompletionSettles(r) BY <1>1 DEF SettleInv
    <3>2. CASE <<r, "completion">> \in lost BY <2>6, <3>2 DEF CompletionSettles
    <3>3. CASE SameRate(stored[r].completion, CompletionOf(r))
      BY <1>1, <1>3, <2>6, <3>3 DEF CompletionSettles, SameRate
    <3>4. ASSUME NEW j \in Running, jobs[j].of = r,
                 JobAt(j, "completion") \/ SameRate(jobs[j].completion, CompletionOf(r))
          PROVE  CompletionSettles(r)'
      <4>1. CASE j = k
        <5>1. SameRate(jobs'[k].completion, CompletionOf(r)')
          BY <1>1, <1>3, <2>2, <2>3, <3>4, <4>1 DEF JobAt
        <5> QED BY <2>3, <2>5, <5>1 DEF CompletionSettles, SameRate
      <4>2. CASE j # k
        <5>1. jobs'[j] = jobs[j] /\ j \in Running' BY <1>2, <4>2 DEF Running
        <5>2. JobAt(j, "completion")' \/ SameRate(jobs'[j].completion, CompletionOf(r)')
          BY <1>1, <1>3, <3>4, <5>1 DEF JobAt
        <5> QED BY <3>4, <5>1, <5>2 DEF CompletionSettles, JobAt, SameRate
      <4> QED BY <4>1, <4>2
    <3> QED BY <3>1, <3>2, <3>3, <3>4 DEF CompletionSettles
  <2> QED BY <1>4, <1>6, <1>7, <2>4, <2>6, <2>7 DEF SettleInv
<1>10. CASE JobFails(k)
  <2>1. /\ jobs'[k].stage = "ended" /\ UNCHANGED stored
        /\ lost' = lost \cup {<<r, "completion">>}
    BY <1>10 DEF JobFails, TypeOK
  <2>2. Job(k)' BY <1>2, <1>5, <2>1 DEF Job, JobAt, Running, TypeOK
  <2>3. CompletionSettles(r)' BY <2>1 DEF CompletionSettles
  <2> QED BY <1>4, <1>6, <1>7, <2>1, <2>2, <2>3 DEF SettleInv
<1>11. CASE WriteMetrics(k)
  <2> DEFINE right == SameRate(jobs[k].completion, CompletionOf(r))
             was == SameRate(stored[r].completion, CompletionOf(r))
  <2>1. /\ jobs'[k].stage = "ended" /\ jobs[k].stage = "write"
        /\ stored'[r].completion = jobs[k].completion
        /\ \A s \in Restaurant \ {r} : stored'[s] = stored[s]
        /\ lost' = IF right THEN lost \ {<<r, "completion">>}
                   ELSE IF was THEN lost \cup {<<r, "completion">>} ELSE lost
    BY <1>1, <1>11 DEF WriteMetrics, Settles, JobAt, TypeOK
  <2>2. Job(k)' BY <1>2, <1>5, <2>1 DEF Job, JobAt, Running, TypeOK
  <2>3. CompletionSettles(r)'
    <3>1. CASE right
      <4>1. SameRate(stored'[r].completion, CompletionOf(r)') BY <1>1, <1>3, <2>1, <3>1
      <4> QED BY <4>1 DEF CompletionSettles, SameRate
    <3>2. CASE was /\ ~right BY <2>1, <3>2 DEF CompletionSettles
    <3>3. CASE ~was /\ ~right
      <4>1. CompletionSettles(r) /\ lost' = lost BY <1>1, <2>1, <3>3 DEF SettleInv
      <4>2. CASE <<r, "completion">> \in lost BY <4>1, <4>2 DEF CompletionSettles
      <4>3. ASSUME NEW j \in Running, jobs[j].of = r,
                   JobAt(j, "completion") \/ SameRate(jobs[j].completion, CompletionOf(r))
            PROVE  CompletionSettles(r)'
        <5>1. j # k BY <2>1, <3>3, <4>3 DEF JobAt
        <5>2. jobs'[j] = jobs[j] /\ j \in Running' BY <1>2, <5>1 DEF Running
        <5>3. JobAt(j, "completion")' \/ SameRate(jobs'[j].completion, CompletionOf(r)')
          BY <1>1, <1>3, <4>3, <5>2 DEF JobAt
        <5> QED BY <4>3, <5>2, <5>3 DEF CompletionSettles, JobAt, SameRate
      <4> QED BY <3>3, <4>1, <4>2, <4>3 DEF CompletionSettles
    <3> QED BY <3>1, <3>2, <3>3
  <2>4. ASSUME NEW s \in Restaurant \ {r} PROVE CompletionSettles(s)'
    <3>1. \A j \in Running : jobs[j].of = s => jobs'[j] = jobs[j]
      BY <1>2, <2>4 DEF Running
    <3>2. stored'[s].completion = stored[s].completion BY <2>1
    <3>3. <<s, "completion">> \in lost => <<s, "completion">> \in lost' BY <2>1
    <3> QED BY <1>3, <3>1, <3>2, <3>3, CompletionKeeps DEF SettleInv
  <2> QED BY <1>4, <1>6, <2>2, <2>3, <2>4 DEF SettleInv
<1> QED BY <1>8, <1>9, <1>10, <1>11

\* What the steps of a review call have in common.
LEMMA PostingApart ==
    ASSUME TypeOK, SettleInv, NEW k \in Call,
           \/ FindOrder(k) \/ InsertReview(k) \/ InsertFails(k)
           \/ AggregateRatings(k) \/ WriteRating(k) \/ RecomputeFails(k)
    PROVE  /\ UNCHANGED <<orders, jobs, updates>>
           /\ DOMAIN calls' = Call /\ \A j \in Call \ {k} : calls'[j] = calls[j]
           /\ \A j \in 1..MaxUpdates : Job(j)'
           /\ \A s \in Restaurant : CompletionSettles(s)'
<1>1. /\ UNCHANGED <<orders, jobs, updates>>
      /\ DOMAIN calls' = Call /\ \A j \in Call \ {k} : calls'[j] = calls[j]
  <2>1. CASE FindOrder(k) BY <2>1, CallSteps DEF FindOrder, env
  <2>2. CASE InsertReview(k) BY <2>2, CallSteps DEF InsertReview, env
  <2>3. CASE InsertFails(k) BY <2>3 DEF InsertFails, Fault, TypeOK
  <2>4. CASE AggregateRatings(k) BY <2>4, CallSteps DEF AggregateRatings, env
  <2>5. CASE WriteRating(k) BY <2>5, CallSteps DEF WriteRating, env
  <2>6. CASE RecomputeFails(k) BY <2>6 DEF RecomputeFails, Fault, TypeOK
  <2> QED BY <2>1, <2>2, <2>3, <2>4, <2>5, <2>6
<1>2. \A j \in 1..MaxUpdates : Job(j)' BY <1>1 DEF SettleInv, Job, JobAt, Running
<1>3. ASSUME NEW s \in Restaurant PROVE CompletionSettles(s)'
  <2>1. stored'[s].completion = stored[s].completion
    BY DEF FindOrder, InsertReview, InsertFails, AggregateRatings, WriteRating,
           RecomputeFails, TypeOK
  <2>2. <<s, "completion">> \in lost => <<s, "completion">> \in lost'
    BY DEF FindOrder, InsertReview, InsertFails, AggregateRatings, WriteRating,
           RecomputeFails, Settles
  <2> QED BY <1>1, <2>1, <2>2, CompletionApart
<1> QED BY <1>1, <1>2, <1>3

\* An insert leaves the aggregate to come, an aggregate is right when it is taken,
\* and a write of a result that is not right leaves another, or is noted.
LEMMA PostingSettles ==
    ASSUME TypeOK, SettleInv, NEW k \in Call,
           \/ FindOrder(k) \/ InsertReview(k) \/ InsertFails(k)
           \/ AggregateRatings(k) \/ WriteRating(k) \/ RecomputeFails(k)
    PROVE  SettleInv'
<1> DEFINE r == ReviewedAt(k)
<1>1. r \in Restaurant BY ReputationAssumption DEF ReviewedAt, Restaurant
<1>2. /\ DOMAIN calls' = Call /\ \A j \in Call \ {k} : calls'[j] = calls[j]
      /\ \A j \in 1..MaxUpdates : Job(j)'
      /\ \A s \in Restaurant : CompletionSettles(s)'
  BY PostingApart
<1>3. ASSUME NEW s \in Restaurant, s # r PROVE RatingSettles(s)'
  <2>1. \A o \in Order : RestaurantOf[o] = s => reviews'[o] = reviews[o]
    BY <1>3, ReputationAssumption
    DEF FindOrder, InsertReview, InsertFails, AggregateRatings, WriteRating,
        RecomputeFails, AddReview, ReviewedAt, TypeOK
  <2>2. RatingOf(s)' = RatingOf(s) BY <2>1, RatingFrame
  <2>3. StoredRating(s)' = StoredRating(s)
    BY <1>3 DEF FindOrder, InsertReview, InsertFails, AggregateRatings, WriteRating,
        RecomputeFails, StoredRating, TypeOK
  <2>4. <<s, "rating">> \in lost => <<s, "rating">> \in lost'
    BY <1>3 DEF FindOrder, InsertReview, InsertFails, AggregateRatings, WriteRating,
        RecomputeFails, Settles
  <2>5. \A j \in Call : ReviewedAt(j) = s => calls'[j] = calls[j] BY <1>2, <1>3
  <2> QED BY <2>2, <2>3, <2>4, <2>5, RatingKeeps DEF SettleInv
<1>4. ReviewedAt(k)' = r BY DEF ReviewedAt
<1>5. CASE UNCHANGED <<reviews, stored>> /\ calls[k].stage \notin {"aggregate", "write"}
           /\ (<<r, "rating">> \in lost => <<r, "rating">> \in lost')
  <2>1. RatingOf(r)' = RatingOf(r) BY <1>5, RatingFrame
  <2>2. StoredRating(r)' = StoredRating(r) BY <1>5 DEF StoredRating
  <2>3. RatingSettles(r)' BY <1>1, <1>2, <1>5, <2>1, <2>2, RatingKeeps DEF SettleInv
  <2> QED BY <1>2, <1>3, <2>3 DEF SettleInv
<1>6. CASE FindOrder(k) BY <1>5, <1>6 DEF FindOrder, At
<1>7. CASE InsertReview(k)
  <2>1. CASE Duplicate(k) BY <1>5, <1>7, <2>1 DEF InsertReview, At
  <2>2. CASE ~Duplicate(k)
    <3>1. calls'[k] = With(calls[k], [stage |-> "aggregate"])
      BY <1>7, <2>2, CallSteps DEF InsertReview
    <3>2. calls'[k].stage = "aggregate" BY <3>1 DEF With
    <3>3. RatingSettles(r)' BY <1>4, <3>2 DEF RatingSettles, At
    <3> QED BY <1>2, <1>3, <3>3 DEF SettleInv
  <2> QED BY <2>1, <2>2
<1>8. CASE InsertFails(k)
  <2>1. CASE UNCHANGED <<reviews, held, lost>> BY <1>5, <1>8, <2>1 DEF InsertFails, At
  <2>2. CASE lost' = lost \cup {<<r, "rating">>}
    <3>1. RatingSettles(r)' BY <2>2 DEF RatingSettles
    <3> QED BY <1>2, <1>3, <3>1 DEF SettleInv
  <2> QED BY <1>8, <2>1, <2>2 DEF InsertFails
<1>9. CASE AggregateRatings(k)
  <2>1. calls'[k] = With(calls[k], [stage |-> "write", result |-> RatingOf(r)])
    BY <1>9, CallSteps DEF AggregateRatings
  <2>2. calls'[k].stage = "write" /\ calls'[k].result = RatingOf(r) BY <2>1 DEF With
  <2>3. RatingOf(r)' = RatingOf(r) BY <1>9, RatingFrame DEF AggregateRatings
  <2>4. RatingSettles(r)' BY <1>4, <2>2, <2>3 DEF RatingSettles, At
  <2> QED BY <1>2, <1>3, <2>4 DEF SettleInv
<1>10. CASE RecomputeFails(k)
  <2>1. RatingSettles(r)' BY <1>10 DEF RecomputeFails, RatingSettles
  <2> QED BY <1>2, <1>3, <2>1 DEF SettleInv
<1>11. CASE WriteRating(k)
  <2> DEFINE result == calls[k].result
  <2>1. /\ stored'[r].sum = result.sum /\ stored'[r].count = result.count
        /\ UNCHANGED reviews /\ calls[k].stage = "write"
        /\ lost' = IF result = RatingOf(r) THEN lost \ {<<r, "rating">>}
                   ELSE IF StoredRating(r) = RatingOf(r) THEN lost \cup {<<r, "rating">>}
                   ELSE lost
    BY <1>1, <1>11 DEF WriteRating, Settles, At, TypeOK
  <2>2. RatingOf(r)' = RatingOf(r) BY <2>1, RatingFrame
  <2>3. RatingSettles(r)'
    <3>1. CASE result = RatingOf(r)
      <4>1. /\ RatingOf(r) = [sum |-> RatingOf(r).sum, count |-> RatingOf(r).count]
        BY DEF RatingOf
      <4>2. StoredRating(r)' = RatingOf(r) BY <2>1, <3>1, <4>1 DEF StoredRating
      <4> QED BY <2>2, <4>2 DEF RatingSettles
    <3>2. CASE result # RatingOf(r) /\ StoredRating(r) = RatingOf(r)
      BY <2>1, <3>2 DEF RatingSettles
    <3>3. CASE result # RatingOf(r) /\ StoredRating(r) # RatingOf(r)
      <4>1. RatingSettles(r) /\ lost' = lost BY <1>1, <2>1, <3>3 DEF SettleInv
      <4>2. CASE <<r, "rating">> \in lost BY <4>1, <4>2 DEF RatingSettles
      <4>3. ASSUME NEW j \in Call, ReviewedAt(j) = r,
                   At(j, "aggregate") \/ (At(j, "write") /\ calls[j].result = RatingOf(r))
            PROVE  RatingSettles(r)'
        <5>1. j # k BY <2>1, <3>3, <4>3 DEF At
        <5>2. calls'[j] = calls[j] /\ ReviewedAt(j)' = r
          BY <1>2, <4>3, <5>1 DEF ReviewedAt
        <5> QED BY <2>2, <4>3, <5>2 DEF RatingSettles, At
      <4> QED BY <3>3, <4>1, <4>2, <4>3 DEF RatingSettles
    <3> QED BY <3>1, <3>2, <3>3
  <2> QED BY <1>2, <1>3, <2>3 DEF SettleInv
<1> QED BY <1>6, <1>7, <1>8, <1>9, <1>10, <1>11

\* What a crash takes along is noted.
LEMMA CrashSettles == ASSUME TypeOK, SettleInv, Crash PROVE SettleInv'
<1>1. /\ UNCHANGED <<orders, reviews, stored, updates>>
      /\ \A k \in 1..MaxUpdates \ Running : jobs'[k] = jobs[k]
      /\ \A k \in Running : jobs'[k].stage = "ended"
      /\ \A k \in Call \ Posting : calls'[k] = calls[k]
      /\ \A p \in lost : p \in lost'
      /\ \A k \in Running : <<jobs[k].of, "completion">> \in lost'
      /\ \A k \in Recomputing : <<ReviewedAt(k), "rating">> \in lost'
  BY DEF Crash, Fault, Running
<1>2. ASSUME NEW k \in 1..MaxUpdates PROVE Job(k)'
  <2>1. CASE k \in Running BY <1>1, <2>1 DEF SettleInv, Job, JobAt, Running
  <2>2. CASE k \notin Running
    <3>1. jobs'[k] = jobs[k] BY <1>1, <2>2
    <3> QED BY <1>1, <3>1 DEF SettleInv, Job, JobAt, Running
  <2> QED BY <2>1, <2>2
<1>3. ASSUME NEW r \in Restaurant PROVE RatingSettles(r)' /\ CompletionSettles(r)'
  <2>1. RatingOf(r)' = RatingOf(r) /\ StoredRating(r)' = StoredRating(r)
    BY <1>1, RatingFrame DEF StoredRating
  <2>2. CompletionOf(r)' = CompletionOf(r) BY <1>1, CompletionFrame
  <2>3. \A k \in Call : calls[k].stage \in {"aggregate", "write"} => k \in Recomputing
    BY DEF Recomputing, Posting, At
  <2>4. RatingSettles(r)' BY <1>1, <2>1, <2>3, RatingKeeps DEF SettleInv
  <2>5. CompletionSettles(r)' BY <1>1, <2>2, CompletionKeeps DEF SettleInv
  <2> QED BY <2>4, <2>5
<1> QED BY <1>2, <1>3 DEF SettleInv

LEMMA NextSettles == ASSUME TypeOK, SettleInv, [Next]_vars PROVE SettleInv'
<1>1. CASE UNCHANGED vars
  <2>1. UNCHANGED <<orders, reviews, stored, calls, jobs, updates, lost>>
    BY <1>1 DEF vars, env
  <2>2. \A k \in 1..MaxUpdates : Job(k)' BY <2>1 DEF SettleInv, Job, JobAt, Running
  <2>3. \A r \in Restaurant : RatingSettles(r)' BY <2>1, RatingApart DEF StoredRating
  <2>4. \A r \in Restaurant : CompletionSettles(r)' BY <2>1, CompletionApart
  <2> QED BY <2>2, <2>3, <2>4 DEF SettleInv
<1>2. CASE Next BY <1>2, OrdersSettle, JobsSettle, PostingSettles, CrashSettles DEF Next
<1> QED BY <1>1, <1>2

\* When nothing of a restaurant is under way and nothing is noted, what is stored
\* is right.
LEMMA Settled == SettleInv => InputsSettle
<1> SUFFICES ASSUME SettleInv, NEW r \in Restaurant
             PROVE  /\ (\A k \in Posting : ReviewedAt(k) # r) /\ <<r, "rating">> \notin lost =>
                           StoredRating(r) = RatingOf(r)
                    /\ (\A k \in Running : jobs[k].of # r) /\ <<r, "completion">> \notin lost =>
                           SameRate(stored[r].completion, CompletionOf(r))
  BY DEF InputsSettle
<1>1. RatingSettles(r) /\ CompletionSettles(r) BY DEF SettleInv
<1> QED BY <1>1 DEF RatingSettles, CompletionSettles, Posting, At

\* What is stored of reviews and orders settles on what they say, unless a failure,
\* a crash or a slower writer got in between and nothing came after it: for any
\* number of orders, calls and goroutines and any order of their steps
\* (restaurant/service/service.go, RecomputeRatingAggregates; order/service/service.go,
\* UpdateStatus).
THEOREM InputsSettleHolds == Spec => []InputsSettle
<1>1. Init => EarnedInv /\ SettleInv BY InitEarned, InitSettle
<1>2. EarnedInv /\ SettleInv /\ [Next]_vars => EarnedInv' /\ SettleInv'
  BY NextEarned, NextSettles DEF EarnedInv
<1>3. SettleInv => InputsSettle BY Settled
<1> QED BY <1>1, <1>2, <1>3, PTL DEF Spec


-----------------------------------------------------------------------------
(* The rank                                                                 *)

\* Numbers of ratings that restaurant r has had, by the facts of H.
Known(H, r, x) ==
    /\ x.count \in Nat /\ x.sum \in 0..5 * x.count
    /\ x.count = 0 \/ <<r, [sum |-> x.sum, count |-> x.count]>> \in H

\* A rate is a fraction between 0 and 1.
Rate(c) == c.of \in Nat \ {0} /\ c.done \in 0..c.of

\* What a goroutine carries can be written.
Carries(job) ==
    /\ job.stage \in {"prep", "write"} => Rate(job.completion)
    /\ job.stage = "write" => job.prep \in Int \cup {None}

\* What is stored, and what calls and goroutines are about to store, once was right.
RankInv ==
    /\ \A r \in Restaurant :
         /\ Known(held.ratings, r, RatingOf(r)) /\ Known(held.ratings, r, stored[r])
         /\ Rate(stored[r].completion) /\ stored[r].prep \in Int
    /\ \A k \in Call : At(k, "write") => Known(held.ratings, ReviewedAt(k), calls[k].result)
    /\ \A k \in 1..MaxUpdates : Carries(jobs[k])

\* What was known stays known.
LEMMA KnownKept ==
    ASSUME NEW H, NEW G, H \subseteq G, NEW r, NEW x, Known(H, r, x)
    PROVE  Known(G, r, x)
  BY DEF Known

\* The completion rate and the preparation time of a restaurant can be written.
LEMMA RateSound == ASSUME NEW r PROVE Rate(CompletionOf(r))
<1> DEFINE total == Kept(r, Statuses \ {"cancelled"})
           done == Kept(r, {"completed"})
<1>1. done \subseteq total /\ total \subseteq Order BY DEF Kept, Statuses
<1>2. IsFiniteSet(total) BY <1>1, ReputationAssumption, FS_Subset
<1>3. Cardinality(total) \in Nat /\ Cardinality(done) \in Nat
      /\ Cardinality(done) <= Cardinality(total)
  BY <1>1, <1>2, FS_Subset, FS_CardinalityType
<1>4. total # {} => Cardinality(total) # 0 BY <1>2, FS_EmptySet
<1> HIDE DEF total, done
<1>5. CASE total = {}
  <2>1. CompletionOf(r) = [of |-> 1, done |-> 1] BY <1>5 DEF CompletionOf, total
  <2> QED BY <2>1 DEF Rate
<1>6. CASE total # {}
  <2>1. CompletionOf(r) = [of |-> Cardinality(total), done |-> Cardinality(done)]
    BY <1>6 DEF CompletionOf, total, done
  <2> QED BY <1>3, <1>4, <1>6, <2>1 DEF Rate
<1> QED BY <1>5, <1>6

LEMMA PrepSound == ASSUME TypeOK, NEW r PROVE PrepOf(r) \in Int \cup {None}
<1> DEFINE timed == {o \in Kept(r, {"ready", "completed"}) : orders[o].ready # None}
           f == [o \in timed |-> orders[o].ready]
           n == Cardinality(timed)
           R == {p \in Nat \X Int : p[1] = 0 => p[2] = 0}
<1>1. timed \subseteq Order BY DEF Kept
<1>2. IsFiniteSet(timed) BY <1>1, ReputationAssumption, FS_Subset
<1>3. n \in Nat BY <1>2, FS_CardinalityType
<1>4. ASSUME NEW o \in timed PROVE orders[o].ready \in Int
  <2>1. orders[o] \in OrderRows BY DEF Kept, TypeOK
  <2> QED BY <2>1, ReputationAssumption DEF OrderRows
<1>5. DOMAIN f = timed /\ \A o \in timed : f[o] \in Int BY <1>4
<1> HIDE DEF timed, f
<1>6. <<0, 0>> \in R OBVIOUS
<1>7. \A m \in Nat, o \in timed : \A t : <<m, t>> \in R => <<m + 1, f[o] + t>> \in R BY <1>5
<1> HIDE DEF R
<1>8. <<n, SumFunctionOnSet(f, timed)>> \in R BY <1>2, <1>6, <1>7, SumsIn
<1> DEFINE sum == SumFunction(f)
<1>9. sum \in Int /\ (n = 0 => sum = 0) BY <1>5, <1>8 DEF SumFunction, R
<1>10. PrepOf(r) = IF sum > 0 THEN (2 * sum + n) \div (2 * n) ELSE None
  BY DEF PrepOf, timed, f
<1> HIDE DEF sum, n
<1>11. CASE sum > 0
  <2>1. n > 0 BY <1>3, <1>9, <1>11
  <2> PICK a \in Int, d \in Nat \ {0} : a = 2 * sum + n /\ d = 2 * n BY <1>3, <1>9, <2>1
  <2>2. a \div d \in Int OBVIOUS
  <2> QED BY <1>10, <1>11, <2>2
<1> QED BY <1>9, <1>10, <1>11

\* The ratings of a restaurant are within bounds after every step.
LEMMA RatingNow ==
    ASSUME TypeOK', NEW r
    PROVE  RatingOf(r)'.count \in Nat /\ RatingOf(r)'.sum \in 0..5 * RatingOf(r)'.count
<1> DEFINE S == {o \in Order : RestaurantOf[o] = r /\ reviews'[o] # None}
<1>1. \A o \in S : reviews'[o].rating \in 1..5 BY DEF TypeOK, ReviewRows
<1>2. /\ Cardinality(S) \in Nat
      /\ SumFunction([o \in S |-> reviews'[o].rating]) \in 0..5 * Cardinality(S)
  BY <1>1, RatingBounds
<1>3. Reviewed(r)' = S BY DEF Reviewed
<1> HIDE DEF S
<1> QED BY <1>2, <1>3 DEF RatingOf

LEMMA InitRank == ASSUME Init, EarnedInv, SettleInv PROVE RankInv
<1>1. ASSUME NEW r \in Restaurant
      PROVE  /\ Known(held.ratings, r, RatingOf(r)) /\ Known(held.ratings, r, stored[r])
             /\ Rate(stored[r].completion) /\ stored[r].prep \in Int
  <2>1. stored[r] = [sum |-> 0, count |-> 0, completion |-> [of |-> 1, done |-> 1], prep |-> 20]
    BY DEF Init
  <2>2. stored[r].completion = [of |-> 1, done |-> 1] BY <2>1
  <2>3. Rate(stored[r].completion) BY <2>2 DEF Rate
  <2>4. <<r, "rating">> \notin lost /\ \A k \in Call : ~At(k, "aggregate") /\ ~At(k, "write")
    BY DEF Init, At
  <2>5. RatingOf(r) = StoredRating(r) BY <2>4 DEF SettleInv, RatingSettles
  <2>6. RatingOf(r).sum = 0 /\ RatingOf(r).count = 0 BY <2>1, <2>5 DEF StoredRating
  <2> QED BY <2>1, <2>3, <2>6 DEF Known
<1>2. \A k \in Call : ~At(k, "write") BY DEF Init, At
<1>3. \A k \in 1..MaxUpdates : Carries(jobs[k]) BY DEF Init, Carries
<1> QED BY <1>1, <1>2, <1>3 DEF RankInv

\* A step that adds no review: ratings stay as they are, and are known.
LEMMA RatingsStay ==
    ASSUME RankInv, UNCHANGED reviews, held.ratings \subseteq held'.ratings, NEW r \in Restaurant
    PROVE  Known(held'.ratings, r, RatingOf(r)')
<1>1. RatingOf(r)' = RatingOf(r) BY RatingFrame
<1>2. Known(held.ratings, r, RatingOf(r)) BY DEF RankInv
<1> QED BY <1>1, <1>2, KnownKept

\* Changes of orders start goroutines that carry nothing yet.
LEMMA OrdersRank ==
    ASSUME TypeOK, RankInv, NEW o \in Order,
           NewOrder(o) \/ UpdateStatus(o) \/ UpdateReadyTime(o) \/ DeleteOrder(o)
    PROVE  RankInv'
<1>1. UNCHANGED <<reviews, calls, stored>> /\ held'.ratings = held.ratings
  BY DEF NewOrder, UpdateStatus, UpdateReadyTime, DeleteOrder, Update, TypeOK
<1>2. \A k \in 1..MaxUpdates : jobs'[k] = jobs[k] \/ jobs'[k].stage = "completion"
  <2>1. CASE UpdateStatus(o)
    BY <2>1 DEF UpdateStatus, Update, TypeOK
  <2>2. CASE NewOrder(o) \/ UpdateReadyTime(o) \/ DeleteOrder(o)
    BY <2>2 DEF NewOrder, UpdateReadyTime, DeleteOrder
  <2> QED BY <2>1, <2>2
<1>3. \A k \in 1..MaxUpdates : Carries(jobs'[k]) BY <1>2 DEF RankInv, Carries
<1>4. \A r \in Restaurant : Known(held'.ratings, r, RatingOf(r)') BY <1>1, RatingsStay
<1>5. \A k \in Call : At(k, "write")' =>
          Known(held'.ratings, ReviewedAt(k), calls'[k].result)
  BY <1>1 DEF RankInv, At
<1> QED BY <1>1, <1>3, <1>4, <1>5 DEF RankInv, Known, ReviewedAt

\* Goroutines read and write rates and times that can be.
LEMMA JobsRank ==
    ASSUME TypeOK, SettleInv, RankInv, NEW k \in 1..MaxUpdates,
           ReadCompletion(k) \/ ReadPrep(k) \/ WriteMetrics(k) \/ JobFails(k)
    PROVE  RankInv'
<1>1. /\ UNCHANGED <<orders, reviews, calls, held>>
      /\ \A j \in (1..MaxUpdates) \ {k} : jobs'[j] = jobs[j]
  BY DEF ReadCompletion, ReadPrep, WriteMetrics, JobFails, JobStep, Fault, env, TypeOK
<1>2. k \in Running /\ jobs[k].of \in Restaurant
  BY DEF ReadCompletion, ReadPrep, WriteMetrics, JobFails, JobAt, Running, SettleInv, Job
<1> PICK r \in Restaurant : r = jobs[k].of BY <1>2
<1>3. Carries(jobs'[k])
  <2>1. CASE ReadCompletion(k)
    <3>1. jobs'[k] = With(jobs[k], [stage |-> "prep", completion |-> CompletionOf(r)])
      BY <2>1 DEF ReadCompletion, JobStep, TypeOK
    <3>2. jobs'[k].stage = "prep" /\ jobs'[k].completion = CompletionOf(r) BY <3>1 DEF With
    <3> QED BY <3>2, RateSound DEF Carries
  <2>2. CASE ReadPrep(k)
    <3>1. jobs'[k] = With(jobs[k], [stage |-> "write", prep |-> PrepOf(r)])
      BY <2>2 DEF ReadPrep, JobStep, TypeOK
    <3>2. "completion" \in DOMAIN jobs[k] /\ jobs[k].stage = "prep"
      BY <1>2, <2>2 DEF ReadPrep, SettleInv, Job, JobAt
    <3>3. /\ jobs'[k].stage = "write" /\ jobs'[k].prep = PrepOf(r)
          /\ jobs'[k].completion = jobs[k].completion
      BY <3>1, <3>2 DEF With
    <3>4. Rate(jobs[k].completion) BY <3>2 DEF RankInv, Carries
    <3> QED BY <3>3, <3>4, PrepSound DEF Carries
  <2>3. CASE WriteMetrics(k) \/ JobFails(k)
    <3>1. jobs' = [jobs EXCEPT ![k] = [stage |-> "ended"]]
      BY <2>3 DEF WriteMetrics, JobFails
    <3>2. jobs'[k].stage = "ended" BY <3>1 DEF TypeOK
    <3> QED BY <3>2 DEF Carries
  <2> QED BY <2>1, <2>2, <2>3
<1>4. ASSUME NEW s \in Restaurant
      PROVE  /\ stored'[s].sum = stored[s].sum /\ stored'[s].count = stored[s].count
             /\ Rate(stored'[s].completion) /\ stored'[s].prep \in Int
  <2>1. Rate(stored[s].completion) /\ stored[s].prep \in Int BY DEF RankInv
  <2>2. CASE UNCHANGED stored BY <2>1, <2>2
  <2>3. CASE WriteMetrics(k)
    <3>1. /\ jobs[k].stage = "write"
          /\ stored' = [stored EXCEPT ![r].completion = jobs[k].completion,
                                      ![r].prep = IF jobs[k].prep = None THEN @ ELSE jobs[k].prep]
      BY <2>3 DEF WriteMetrics, JobAt
    <3>2. Rate(jobs[k].completion) /\ jobs[k].prep \in Int \cup {None}
      BY <3>1 DEF RankInv, Carries
    <3>3. stored[r].prep \in Int BY DEF RankInv
    <3>4. /\ stored'[s].sum = stored[s].sum /\ stored'[s].count = stored[s].count
          /\ stored'[s].completion \in {stored[s].completion, jobs[k].completion}
          /\ stored'[s].prep \in Int
      BY <2>1, <3>1, <3>2, <3>3 DEF TypeOK
    <3> QED BY <2>1, <3>2, <3>4
  <2> QED BY <2>2, <2>3 DEF ReadCompletion, ReadPrep, JobFails
<1>5. \A s \in Restaurant : Known(held'.ratings, s, RatingOf(s)') BY <1>1, RatingsStay
<1>6. \A s \in Restaurant : Known(held'.ratings, s, stored'[s])
  BY <1>1, <1>4 DEF RankInv, Known
<1>7. \A j \in Call : At(j, "write")' =>
          Known(held'.ratings, ReviewedAt(j), calls'[j].result)
  BY <1>1 DEF RankInv, At
<1>8. \A j \in 1..MaxUpdates : Carries(jobs'[j]) BY <1>1, <1>3 DEF RankInv
<1> QED BY <1>4, <1>5, <1>6, <1>7, <1>8 DEF RankInv, ReviewedAt

\* A call writes what it aggregated, and a review that is added is known at once.
LEMMA PostingRank ==
    ASSUME TypeOK, TypeOK', SettleInv, RankInv, NEW k \in Call,
           \/ FindOrder(k) \/ InsertReview(k) \/ InsertFails(k)
           \/ AggregateRatings(k) \/ WriteRating(k) \/ RecomputeFails(k)
    PROVE  RankInv'
<1> DEFINE r == ReviewedAt(k)
<1>1. r \in Restaurant BY ReputationAssumption DEF ReviewedAt, Restaurant
<1>2. /\ UNCHANGED <<orders, jobs>>
      /\ \A j \in Call \ {k} : calls'[j] = calls[j]
  BY PostingApart
<1>3. /\ held.ratings \subseteq held'.ratings
      /\ \A s \in Restaurant : Known(held'.ratings, s, RatingOf(s)')
  <2>1. CASE UNCHANGED <<reviews, held>> BY <2>1, RatingsStay
  <2>2. CASE AddReview(k)
    <3>1. /\ held'.ratings = held.ratings \cup {<<r, RatingOf(r)'>>}
          /\ reviews' = [reviews EXCEPT ![AboutOf[k]] = [rating |-> calls[k].rating, by |-> k]]
      BY <2>2 DEF AddReview, TypeOK
    <3>2. RatingOf(r)' = [sum |-> RatingOf(r)'.sum, count |-> RatingOf(r)'.count]
      BY DEF RatingOf
    <3>3. Known(held'.ratings, r, RatingOf(r)') BY <3>1, <3>2, RatingNow DEF Known
    <3>4. ASSUME NEW s \in Restaurant, s # r PROVE Known(held'.ratings, s, RatingOf(s)')
      <4>1. \A o \in Order : RestaurantOf[o] = s => reviews'[o] = reviews[o]
        BY <3>1, <3>4 DEF ReviewedAt, TypeOK
      <4>2. RatingOf(s)' = RatingOf(s) BY <4>1, RatingFrame
      <4>3. Known(held.ratings, s, RatingOf(s)) BY DEF RankInv
      <4> QED BY <3>1, <4>2, <4>3, KnownKept
    <3> QED BY <3>1, <3>3, <3>4
  <2> QED BY <2>1, <2>2 DEF FindOrder, InsertReview, InsertFails, AggregateRatings,
                            WriteRating, RecomputeFails
<1>4. At(k, "write")' => Known(held'.ratings, r, calls'[k].result)
  <2>1. CASE AggregateRatings(k)
    <3>1. calls'[k] = With(calls[k], [stage |-> "write", result |-> RatingOf(r)])
      BY <2>1, CallSteps DEF AggregateRatings
    <3>2. calls'[k].result = RatingOf(r) BY <3>1 DEF With
    <3>3. Known(held.ratings, r, RatingOf(r)) BY <1>1 DEF RankInv
    <3> QED BY <1>3, <3>2, <3>3, KnownKept
  <2>2. ASSUME NEW stage \in {"insert", "aggregate"}, NEW change, change.stage = stage,
               "stage" \in DOMAIN change, Step(k, change)
        PROVE  ~At(k, "write")'
    <3>1. calls'[k] = With(calls[k], change) BY <2>2, CallSteps
    <3>2. calls'[k].stage = stage BY <2>2, <3>1 DEF With
    <3> QED BY <3>2 DEF At
  <2>3. ASSUME NEW stage \in {"ended", "created"}, End(k, stage) PROVE ~At(k, "write")'
    BY <2>3, CallSteps DEF At
  <2>4. CASE FindOrder(k) BY <2>2, <2>3, <2>4 DEF FindOrder
  <2>5. CASE InsertReview(k) BY <2>2, <2>3, <2>5 DEF InsertReview
  <2>6. CASE WriteRating(k) BY <2>3, <2>6 DEF WriteRating
  <2>7. CASE InsertFails(k) \/ RecomputeFails(k)
    BY <2>7 DEF InsertFails, RecomputeFails, At, TypeOK
  <2> QED BY <2>1, <2>4, <2>5, <2>6, <2>7
<1>5. ASSUME NEW s \in Restaurant
      PROVE  /\ Known(held'.ratings, s, stored'[s])
             /\ stored'[s].completion = stored[s].completion /\ stored'[s].prep = stored[s].prep
  <2>1. Known(held.ratings, s, stored[s]) BY DEF RankInv
  <2>2. CASE UNCHANGED stored BY <1>3, <2>1, <2>2, KnownKept
  <2>3. CASE WriteRating(k)
    <3>1. /\ At(k, "write") /\ UNCHANGED held
          /\ stored' = [stored EXCEPT ![r].sum = calls[k].result.sum,
                                      ![r].count = calls[k].result.count]
      BY <2>3 DEF WriteRating
    <3>2. Known(held.ratings, r, calls[k].result) BY <3>1 DEF RankInv
    <3>3. /\ stored'[s].completion = stored[s].completion /\ stored'[s].prep = stored[s].prep
          /\ s # r => stored'[s] = stored[s]
          /\ s = r => /\ stored'[s].sum = calls[k].result.sum
                      /\ stored'[s].count = calls[k].result.count
      BY <1>1, <3>1 DEF TypeOK
    <3> QED BY <2>1, <3>1, <3>2, <3>3 DEF Known
  <2> QED BY <2>2, <2>3 DEF FindOrder, InsertReview, InsertFails, AggregateRatings,
                            RecomputeFails
<1>6. \A j \in Call : At(j, "write")' =>
          Known(held'.ratings, ReviewedAt(j), calls'[j].result)
  BY <1>2, <1>3, <1>4, KnownKept DEF RankInv, At
<1> QED BY <1>2, <1>3, <1>5, <1>6 DEF RankInv, ReviewedAt

\* A crash stores nothing.
LEMMA CrashRank == ASSUME RankInv, Crash PROVE RankInv'
<1>1. /\ UNCHANGED <<reviews, stored, held>>
      /\ \A k \in 1..MaxUpdates : jobs'[k] = jobs[k] \/ jobs'[k].stage = "ended"
      /\ \A k \in Call : calls'[k] = calls[k] \/ calls'[k].stage = "ended"
  BY DEF Crash
<1>2. \A r \in Restaurant : Known(held'.ratings, r, RatingOf(r)') BY <1>1, RatingsStay
<1>3. \A k \in 1..MaxUpdates : Carries(jobs'[k]) BY <1>1 DEF RankInv, Carries
<1>4. \A k \in Call : At(k, "write")' =>
          Known(held'.ratings, ReviewedAt(k), calls'[k].result)
  BY <1>1 DEF RankInv, At
<1> QED BY <1>1, <1>2, <1>3, <1>4 DEF RankInv, ReviewedAt

LEMMA NextRank == ASSUME EarnedInv, SettleInv, RankInv, [Next]_vars PROVE RankInv'
<1>1. TypeOK /\ TypeOK' BY NextEarned DEF EarnedInv
<1>2. CASE UNCHANGED vars
  <2>1. UNCHANGED <<reviews, stored, calls, jobs, held>> BY <1>2 DEF vars
  <2>2. \A r \in Restaurant : Known(held'.ratings, r, RatingOf(r)') BY <2>1, RatingsStay
  <2>3. \A k \in Call : At(k, "write")' =>
            Known(held'.ratings, ReviewedAt(k), calls'[k].result)
    BY <2>1 DEF RankInv, At
  <2> QED BY <2>1, <2>2, <2>3 DEF RankInv, ReviewedAt
<1>3. CASE Next BY <1>1, <1>3, OrdersRank, JobsRank, PostingRank, CrashRank DEF Next
<1> QED BY <1>2, <1>3

\* Fractions between 0 and 1 score between 0.28 and 1.
LEMMA ScoreBounds ==
    ASSUME NEW s, s.count \in Nat, s.sum \in 0..5 * s.count, Rate(s.completion), s.prep \in Int
    PROVE  28 * Score(s)[2] <= 100 * Score(s)[1] /\ Score(s)[1] <= Score(s)[2]
<1> DEFINE Part(x) == x[1] \in Nat /\ x[2] \in Nat /\ x[2] > 0 /\ x[1] <= x[2]
<1>1. Part(Quality(s)) BY ReputationAssumption DEF Quality
<1>2. Part(Speed(s))
  <2>1. s.prep > 0 => Max({0, 60 - s.prep}) \in 0..60 BY DEF Max
  <2> QED BY <2>1 DEF Speed
<1>3. Part(Reliability(s)) BY DEF Reliability, Rate
<1> PICK q1 \in Nat, q2 \in Nat : q1 = Quality(s)[1] /\ q2 = Quality(s)[2] BY <1>1
<1> PICK v1 \in Nat, v2 \in Nat : v1 = Speed(s)[1] /\ v2 = Speed(s)[2] BY <1>2
<1> PICK c1 \in Nat, c2 \in Nat : c1 = Reliability(s)[1] /\ c2 = Reliability(s)[2] BY <1>3
<1>4. q1 <= q2 /\ v1 <= v2 /\ c1 <= c2 BY <1>1, <1>2, <1>3
<1>5. ASSUME NEW a \in Nat, NEW b \in Nat, a <= b, NEW c \in Nat, NEW d \in Nat
      PROVE  a * c * d \in Nat /\ b * c * d \in Nat /\ a * c * d <= b * c * d
  <2> PICK e \in Nat : b = a + e BY <1>5
  <2>1. b * c * d = a * c * d + e * c * d OBVIOUS
  <2>2. a * c * d \in Nat /\ e * c * d \in Nat OBVIOUS
  <2> QED BY <2>1, <2>2
<1> DEFINE D == q2 * v2 * c2
           X == q1 * v2 * c2
           Y == v1 * q2 * c2
           Z == c1 * q2 * v2
           n == 4 * D + 3 * X + 2 * Y + Z
           penalty == IF 10 * c1 < 8 * c2 THEN 7 ELSE 10
<1>6. X \in Nat /\ D \in Nat /\ X <= D BY <1>4, <1>5
<1>7. Y \in Nat /\ Y <= D
  <2>1. v1 * q2 * c2 \in Nat /\ v1 * q2 * c2 <= v2 * q2 * c2 BY <1>4, <1>5
  <2>2. v2 * q2 * c2 = D OBVIOUS
  <2> QED BY <2>1, <2>2
<1>8. Z \in Nat /\ Z <= D
  <2>1. c1 * q2 * v2 \in Nat /\ c1 * q2 * v2 <= c2 * q2 * v2 BY <1>4, <1>5
  <2>2. c2 * q2 * v2 = D OBVIOUS
  <2> QED BY <2>1, <2>2
<1>9. Score(s) = <<penalty * n, 100 * D>> BY DEF Score
<1> HIDE DEF D, X, Y, Z
<1>10. penalty \in {7, 10} /\ n \in Nat /\ 4 * D <= n /\ n <= 10 * D BY <1>6, <1>7, <1>8
<1> HIDE DEF n, penalty
<1>11. 28 * (100 * D) <= 100 * (penalty * n) /\ penalty * n <= 100 * D BY <1>6, <1>10
<1> QED BY <1>9, <1>11

\* Discovery leaves a restaurant out for ratings it once had, and scores every one
\* between 0.28 and 1, for any number of orders, calls and goroutines, any stars and
\* times, and any order and failure of their steps (restaurant/service/service.go,
\* RecomputeRatingAggregates and RecomputeOperationalMetrics;
\* discovery/repository/repository.go, availabilityMatch and compositeScoreField).
THEOREM RankingSoundHolds == Spec => []RankingSound
<1>1. Init => EarnedInv /\ SettleInv /\ RankInv BY InitEarned, InitSettle, InitRank
<1>2. EarnedInv /\ SettleInv /\ RankInv /\ [Next]_vars => EarnedInv' /\ SettleInv' /\ RankInv'
  BY NextEarned, NextSettles, NextRank DEF EarnedInv
<1>3. ASSUME RankInv PROVE RankingSound
  <2> SUFFICES ASSUME NEW r \in Restaurant
               PROVE  /\ ~Listed(r) => \E fact \in held.ratings :
                             /\ fact[1] = r /\ fact[2].count >= MinRatings
                             /\ fact[2].sum < 3 * fact[2].count
                      /\ 28 * Score(stored[r])[2] <= 100 * Score(stored[r])[1]
                      /\ Score(stored[r])[1] <= Score(stored[r])[2]
    BY DEF RankingSound
  <2>1. /\ Known(held.ratings, r, stored[r])
        /\ Rate(stored[r].completion) /\ stored[r].prep \in Int
    BY <1>3 DEF RankInv
  <2>2. ASSUME ~Listed(r)
        PROVE  \E fact \in held.ratings : /\ fact[1] = r /\ fact[2].count >= MinRatings
                                          /\ fact[2].sum < 3 * fact[2].count
    <3> DEFINE x == [sum |-> stored[r].sum, count |-> stored[r].count]
    <3>1. stored[r].count >= MinRatings /\ stored[r].sum < 3 * stored[r].count
      BY <2>1, <2>2, ReputationAssumption DEF Listed, Known
    <3>2. <<r, x>> \in held.ratings BY <2>1, <3>1, ReputationAssumption DEF Known
    <3>3. x.count >= MinRatings /\ x.sum < 3 * x.count BY <3>1
    <3> QED BY <3>2, <3>3
  <2>3. stored[r].count \in Nat /\ stored[r].sum \in 0..5 * stored[r].count
    BY <2>1 DEF Known
  <2> QED BY <2>1, <2>2, <2>3, ScoreBounds
<1> QED BY <1>1, <1>2, <1>3, PTL DEF Spec
=============================================================================
