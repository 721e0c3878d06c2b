--------------------------- MODULE OrderingProofs ---------------------------
(* What is ordered is what was offered, and what was shown: the proofs.     *)
EXTENDS Ordering, FiniteSetTheorems, WellFoundedInduction, TLAPS

-----------------------------------------------------------------------------
(* The inductive invariant                                                  *)

Fields == {"stage", "since", "called", "shown", "view", "request", "rows", "bill", "reason"}
Databases ==
    [items : [Item -> Rows \cup {None}], category : [Category -> {"active", "inactive", "none"}],
     settings : [Restaurants -> [fee : Nat, min : Nat, closed : BOOLEAN]],
     promo : Promos \cup {SeedPromo, None}]
Now == [items |-> items, category |-> category, settings |-> settings, promo |-> promo]

Remembered ==
    /\ history \in Seq(Databases) /\ Len(history) \in 1..MaxEdits + 1
    /\ Now \in Databases /\ history[Len(history)] = Now
    /\ DOMAIN visit = Visit

\* The revision of a row names one write of the item.
Versioned ==
    \A k \in 1..Len(history), i \in Item :
        history[k].items[i] # None =>
            /\ history[k].items[i].rev < k
            /\ \A l \in 1..Len(history) :
                 /\ history[l].items[i] # None
                 /\ history[l].items[i].rev = history[k].items[i].rev
                 => history[l].items[i] = history[k].items[i]

\* The rows that a call read were there together, at the restaurant.
RowsRead(v) ==
    \E h \in Since(visit[v].called) : \A i \in DOMAIN visit[v].rows :
        Home[i] = RestaurantOf[v] /\ h.items[i] # None /\ visit[v].rows[i] = h.items[i]

\* What a visit has seen so far.
Seen(v) ==
    /\ DOMAIN visit[v] = Fields /\ visit[v].stage \in Stages
    /\ visit[v].since \in 1..Len(history) /\ visit[v].called \in 1..Len(history)
    /\ At(v, "categories") =>
         visit[v].shown = {c \in Category : /\ Owner[c] = RestaurantOf[v]
                                            /\ history[visit[v].since].category[c] = "active"}
    /\ visit[v].stage \in {"idle", "categories"} => visit[v].view = <<>>
    /\ visit[v].stage \notin {"idle", "categories"} =>
         ShowsMenu(v) /\ DOMAIN visit[v].view \subseteq Item
    /\ visit[v].stage \in {"items", "restaurant", "promo", "save", "ordered"} =>
         visit[v].request \in Requests(visit[v].view)
    /\ At(v, "restaurant") => RowsRead(v)
    /\ At(v, "promo") => {"lines", "min", "fee"} \subseteq DOMAIN visit[v].bill
    /\ visit[v].stage \in {"promo", "save", "ordered"} =>
         /\ LinesOffered(v) /\ FeeOffered(v)
         /\ DOMAIN visit[v].bill.lines = DOMAIN visit[v].request.cart
    /\ visit[v].stage \in {"save", "ordered"} => DiscountOffered(v) /\ AddsUp(visit[v].bill)

OrderInv == Remembered /\ Versioned /\ \A v \in Visit : Seen(v)

-----------------------------------------------------------------------------
(* Records and history                                                      *)

\* With sets the fields of change and keeps the others.
LEMMA WithFields ==
    ASSUME NEW row, NEW change
    PROVE  /\ DOMAIN With(row, change) = (DOMAIN row) \cup (DOMAIN change)
           /\ \A f \in DOMAIN change : With(row, change)[f] = change[f]
           /\ \A f \in DOMAIN row \ DOMAIN change : With(row, change)[f] = row[f]
  BY DEF With

\* A row has the fields of its contents and a revision.
LEMMA RowFields ==
    ASSUME NEW row \in Rows
    PROVE  /\ row.rev \in 0..MaxEdits
           /\ DOMAIN row = {"category", "available", "base", "sizes", "extras", "rev"}
           /\ row = [f \in DOMAIN row |-> row[f]]
<1>1. PICK c \in Contents, n \in 0..MaxEdits : row = With(c, [rev |-> n])
  BY DEF Rows
<1>2. DOMAIN c = {"category", "available", "base", "sizes", "extras"}
  BY OrderingAssumption
<1>3. DOMAIN [rev |-> n] = {"rev"} /\ [rev |-> n]["rev"] = n
  OBVIOUS
<1>4. row["rev"] = n
  BY <1>1, <1>3 DEF With
<1>5. DOMAIN row = {"category", "available", "base", "sizes", "extras", "rev"}
  BY <1>1, <1>2, <1>3 DEF With
<1>6. row = [f \in DOMAIN row |-> row[f]]
  BY <1>1 DEF With
<1>7. QED
  BY <1>4, <1>5, <1>6

\* What was at some moment since n is so for good.
Grown ==
    /\ Len(history) <= Len(history')
    /\ \A k \in 1..Len(history) : history'[k] = history[k]
    /\ \A n \in 1..Len(history) : Since(n) \subseteq Since(n)'

LEMMA StaffGrows ==
    ASSUME Remembered, Changed
    PROVE  /\ Grown /\ Len(history) <= MaxEdits
           /\ Len(history') = Len(history) + 1
           /\ history'[Len(history) + 1] = Now'
           /\ UNCHANGED visit
<1> USE DEF Remembered
<1>1. /\ history' = Append(history, Now') /\ Len(history) <= MaxEdits
      /\ UNCHANGED visit
  BY DEF Changed, Now
<1>2. Len(history') = Len(history) + 1 /\ history'[Len(history) + 1] = Now'
  BY <1>1
<1>3. \A k \in 1..Len(history) : history'[k] = history[k]
  BY <1>1
<1>4. ASSUME NEW n \in 1..Len(history)
      PROVE  Since(n) \subseteq Since(n)'
  BY <1>2, <1>3 DEF Since
<1>5. QED
  BY <1>1, <1>2, <1>3, <1>4 DEF Grown

LEMMA CustomersKeep ==
    ASSUME Remembered, UNCHANGED history
    PROVE  Grown
  BY DEF Grown, Since, Remembered

\* The database is as it is at one of the moments.
LEMMA NowIsSeen ==
    ASSUME Remembered, NEW n \in 1..Len(history)
    PROVE  Now \in Since(n)
  BY DEF Since, Remembered


\* As history grows, what was shown, read and offered goes on to have been so.
LEMMA ShowsKept ==
    ASSUME Remembered, Grown, NEW v \in Visit, visit[v].since \in 1..Len(history), ShowsMenu(v),
           visit'[v].since = visit[v].since, visit'[v].view = visit[v].view
    PROVE  ShowsMenu(v)'
<1>1. PICK n \in 1..Len(history) : n = visit[v].since
  OBVIOUS
<1> DEFINE past == Since(n)
           view == visit[v].view
<1>2. past \subseteq past'
  BY DEF Grown
<1>3. Since(visit[v].since) = past /\ Since(visit[v].since)' = past'
  BY <1>1 DEF Since
<1> HIDE DEF past
<1>4. ASSUME NEW i \in Item, Home[i] = RestaurantOf[v], Stayed(i, past')
      PROVE  i \in DOMAIN view
  <2>1. Stayed(i, past)
    BY <1>2, <1>4 DEF Stayed
  <2>2. QED
    BY <1>3, <1>4, <2>1 DEF ShowsMenu
<1>5. ASSUME NEW i \in DOMAIN view
      PROVE  Shows(v, i, view[i], past')
  <2>1. Shows(v, i, view[i], past)
    BY <1>3 DEF ShowsMenu
  <2>2. QED
    BY <1>2, <2>1 DEF Shows
<1>6. (\A i \in Item : Home[i] = RestaurantOf[v] /\ Stayed(i, past') => i \in DOMAIN view)
      /\ (\A i \in DOMAIN view : Shows(v, i, view[i], past'))
  BY <1>4, <1>5
<1>7. QED
  BY <1>3, <1>6 DEF ShowsMenu, Stayed, Shows

LEMMA RowsKept ==
    ASSUME Remembered, Grown, NEW v \in Visit, visit[v].called \in 1..Len(history), RowsRead(v),
           visit'[v].called = visit[v].called, visit'[v].rows = visit[v].rows
    PROVE  RowsRead(v)'
<1>1. PICK n \in 1..Len(history) : n = visit[v].called
  OBVIOUS
<1>2. Since(n) \subseteq Since(n)'
  BY DEF Grown
<1>3. Since(visit[v].called) = Since(n) /\ Since(visit[v].called)' = Since(n)'
  BY <1>1 DEF Since
<1>4. QED
  BY <1>2, <1>3 DEF RowsRead

LEMMA LinesKept ==
    ASSUME Remembered, Grown, NEW v \in Visit, visit[v].called \in 1..Len(history), LinesOffered(v),
           visit'[v].called = visit[v].called, visit'[v].request = visit[v].request,
           visit'[v].bill.lines = visit[v].bill.lines
    PROVE  LinesOffered(v)'
<1>1. PICK n \in 1..Len(history) : n = visit[v].called
  OBVIOUS
<1>2. Since(n) \subseteq Since(n)'
  BY DEF Grown
<1>3. Since(visit[v].called) = Since(n) /\ Since(visit[v].called)' = Since(n)'
  BY <1>1 DEF Since
<1>4. ASSUME NEW h, NEW k, Offers(h, v, k)
      PROVE  Offers(h, v, k)'
  BY <1>4 DEF Offers
<1>5. QED
  BY <1>2, <1>3, <1>4 DEF LinesOffered

LEMMA FeeKept ==
    ASSUME Remembered, Grown, NEW v \in Visit, visit[v].called \in 1..Len(history), FeeOffered(v),
           visit'[v].called = visit[v].called, visit'[v].request = visit[v].request,
           visit'[v].bill.fee = visit[v].bill.fee, visit'[v].bill.min = visit[v].bill.min
    PROVE  FeeOffered(v)'
<1>1. PICK n \in 1..Len(history) : n = visit[v].called
  OBVIOUS
<1>2. Since(n) \subseteq Since(n)'
  BY DEF Grown
<1>3. Since(visit[v].called) = Since(n) /\ Since(visit[v].called)' = Since(n)'
  BY <1>1 DEF Since
<1>4. QED
  BY <1>2, <1>3 DEF FeeOffered

LEMMA DiscountKept ==
    ASSUME Remembered, Grown, NEW v \in Visit, visit[v].called \in 1..Len(history),
           DiscountOffered(v), visit'[v].called = visit[v].called,
           visit'[v].bill.discount = visit[v].bill.discount,
           visit'[v].bill.subtotal = visit[v].bill.subtotal
    PROVE  DiscountOffered(v)'
<1>1. PICK n \in 1..Len(history) : n = visit[v].called
  OBVIOUS
<1>2. Since(n) \subseteq Since(n)'
  BY DEF Grown
<1>3. Since(visit[v].called) = Since(n) /\ Since(visit[v].called)' = Since(n)'
  BY <1>1 DEF Since
<1>4. QED
  BY <1>2, <1>3 DEF DiscountOffered

\* So whoever does not move keeps what he has seen.
LEMMA SeenKept ==
    ASSUME Remembered, Grown, NEW v \in Visit, Seen(v), visit'[v] = visit[v]
    PROVE  Seen(v)'
<1>1. /\ visit[v].since \in 1..Len(history) /\ visit[v].called \in 1..Len(history)
      /\ Len(history) \in Nat /\ Len(history') >= Len(history)
  BY DEF Seen, Remembered, Grown
<1>2. history'[visit'[v].since] = history[visit[v].since]
  BY <1>1 DEF Grown
<1>3. visit'[v].since \in 1..Len(history') /\ visit'[v].called \in 1..Len(history')
  BY <1>1 DEF Grown
<1>4. visit[v].stage \notin {"idle", "categories"} => ShowsMenu(v)'
  BY <1>1, ShowsKept DEF Seen
<1>5. At(v, "restaurant") => RowsRead(v)'
  BY <1>1, RowsKept DEF Seen
<1>6. visit[v].stage \in {"promo", "save", "ordered"} => LinesOffered(v)' /\ FeeOffered(v)'
  BY <1>1, LinesKept, FeeKept DEF Seen
<1>7. visit[v].stage \in {"save", "ordered"} => DiscountOffered(v)'
  BY <1>1, DiscountKept DEF Seen
<1>8. QED
  BY <1>2, <1>3, <1>4, <1>5, <1>6, <1>7 DEF Seen, At

-----------------------------------------------------------------------------
(* Sums                                                                     *)

\* A set of naturals that has 0, and with every number the next one, has all.
LEMMA CountingUp ==
    ASSUME NEW T \in SUBSET Nat, 0 \in T, \A n \in T : n + 1 \in T
    PROVE  T = Nat
<1>1. SUFFICES ASSUME Nat \ T # {} PROVE FALSE
  OBVIOUS
<1>2. PICK m \in Nat \ T : \A k \in Nat \ T : <<k, m>> \notin OpToRel(<, Nat)
  BY <1>1, WFMin, NatLessThanWellFounded, Zenon
<1>3. \A k \in Nat \ T : ~(k < m)
  BY <1>2, Zenon DEF OpToRel
<1>4. QED
  BY ONLY <1>3, m \in Nat \ T, 0 \in T, \A n \in T : n + 1 \in T, T \subseteq Nat

\* g adds up f over the sets of B, as the fold of the community modules does.
Chosen(s) == CHOOSE x \in s : TRUE
Adds(g, f, B) == g = [s \in B |-> IF s = {} THEN 0 ELSE f[Chosen(s)] + g[s \ {Chosen(s)}]]
UpTo(S, n) == {s \in SUBSET S : Cardinality(s) <= n}

LEMMA Smaller ==
    ASSUME NEW S, IsFiniteSet(S), NEW n \in Nat, NEW s \in UpTo(S, n + 1), s # {}
    PROVE  /\ s \ {Chosen(s)} \in UpTo(S, n) /\ Chosen(s) \in S
           /\ Cardinality(s) \in Nat \ {0} /\ Cardinality(s \ {Chosen(s)}) = Cardinality(s) - 1
<1>1. Chosen(s) \in s
  BY DEF Chosen
<1>2. s \subseteq S /\ Cardinality(s) <= n + 1
  BY DEF UpTo
<1>3. IsFiniteSet(s) /\ Cardinality(s) \in Nat
  BY <1>2, FS_Subset, FS_CardinalityType
<1>4. Cardinality(s \ {Chosen(s)}) = Cardinality(s) - 1 /\ Cardinality(s) # 0
  BY <1>1, <1>3, FS_RemoveElement, FS_EmptySet
<1>5. QED
  BY <1>1, <1>2, <1>3, <1>4 DEF UpTo

LEMMA EmptyOnly ==
    ASSUME NEW S, IsFiniteSet(S)
    PROVE  /\ \A s \in UpTo(S, 0) : s = {}
           /\ UpTo(S, Cardinality(S)) = SUBSET S /\ Cardinality(S) \in Nat
  BY FS_Subset, FS_CardinalityType, FS_EmptySet DEF UpTo

\* The fold is well defined: a function that adds up larger and larger sets.
LEMMA AddsExists ==
    ASSUME NEW S, IsFiniteSet(S), NEW f
    PROVE  \E g : Adds(g, f, SUBSET S)
<1> DEFINE T == {n \in Nat : \E g : Adds(g, f, UpTo(S, n))}
<1>1. 0 \in T
  <2>1. Adds([s \in UpTo(S, 0) |-> 0], f, UpTo(S, 0))
    BY EmptyOnly DEF Adds
  <2>2. QED
    BY <2>1
<1>2. ASSUME NEW n \in T
      PROVE  n + 1 \in T
  <2>1. PICK g : Adds(g, f, UpTo(S, n))
    OBVIOUS
  <2> DEFINE B == UpTo(S, n)
             C == UpTo(S, n + 1)
             v(s, k) == IF s = {} THEN 0 ELSE f[Chosen(s)] + k[s \ {Chosen(s)}]
             h == [s \in C |-> v(s, g)]
  <2>2. B \subseteq C
    BY FS_Subset, FS_CardinalityType DEF UpTo
  <2>3. \A s \in B : h[s] = g[s]
    BY <2>1, <2>2 DEF Adds
  <2>4. \A s \in C : s # {} => s \ {Chosen(s)} \in B
    BY Smaller
  <2>5. \A s \in C : v(s, g) = v(s, h)
    BY <2>3, <2>4
  <2>6. h = [s \in C |-> v(s, h)]
    BY <2>5
  <2>7. Adds(h, f, C)
    BY <2>6 DEF Adds
  <2>8. QED
    BY <2>7
<1> HIDE DEF T
<1>3. T = Nat
  BY <1>1, <1>2, CountingUp DEF T
<1>4. Cardinality(S) \in T /\ UpTo(S, Cardinality(S)) = SUBSET S
  BY <1>3, EmptyOnly
<1>5. \E g : Adds(g, f, UpTo(S, Cardinality(S)))
  BY <1>4 DEF T
<1>6. QED
  BY <1>4, <1>5

\* What holds of 0 things that add up to 0, and goes on to hold with one more,
\* holds of all: R relates how many there are to their sum.
LEMMA SumsIn ==
    ASSUME NEW S, IsFiniteSet(S), NEW f, NEW R, <<0, 0>> \in R,
           \A n \in Nat, x \in S : \A t : <<n, t>> \in R => <<n + 1, f[x] + t>> \in R
    PROVE  <<Cardinality(S), SumFunctionOnSet(f, S)>> \in R
<1> DEFINE iter == CHOOSE g : Adds(g, f, SUBSET S)
<1>1. Adds(iter, f, SUBSET S)
  BY AddsExists
<1>2. SumFunctionOnSet(f, S) = iter[S]
  BY DEF SumFunctionOnSet, FoldFunctionOnSet, MapThenFoldSet, Adds, Chosen
<1> HIDE DEF iter
<1> DEFINE T == {n \in Nat : \A s \in UpTo(S, n) : <<Cardinality(s), iter[s]>> \in R}
<1>3. iter[{}] = 0 /\ Cardinality({}) = 0
  BY <1>1, FS_EmptySet DEF Adds
<1>4. 0 \in T
  BY <1>3, EmptyOnly
<1>5. ASSUME NEW n \in T
      PROVE  n + 1 \in T
  <2>1. ASSUME NEW s \in UpTo(S, n + 1), s # {}
        PROVE  <<Cardinality(s), iter[s]>> \in R
    <3> DEFINE rest == s \ {Chosen(s)}
               m == Cardinality(s) - 1
    <3>1. /\ rest \in UpTo(S, n) /\ Chosen(s) \in S
          /\ m \in Nat /\ Cardinality(rest) = m /\ Cardinality(s) = m + 1
      <4>1. n \in Nat
        OBVIOUS
      <4>2. /\ s \ {Chosen(s)} \in UpTo(S, n) /\ Chosen(s) \in S
            /\ Cardinality(s) \in Nat \ {0} /\ Cardinality(s \ {Chosen(s)}) = Cardinality(s) - 1
        BY ONLY <2>1, <4>1, IsFiniteSet(S), Smaller
      <4>3. QED
        BY <4>2
    <3>2. iter[s] = f[Chosen(s)] + iter[rest]
      BY <1>1, <2>1 DEF Adds, UpTo
    <3>3. <<m, iter[rest]>> \in R
      BY <3>1
    <3> HIDE DEF rest, m
    <3>4. <<m + 1, f[Chosen(s)] + iter[rest]>> \in R
      BY <3>1, <3>3
    <3>5. QED
      BY <3>1, <3>2, <3>4
  <2>2. \A s \in UpTo(S, n + 1) : <<Cardinality(s), iter[s]>> \in R
    BY <1>3, <2>1
  <2>3. QED
    BY <2>2
<1> HIDE DEF T
<1>6. T = Nat
  BY <1>4, <1>5, CountingUp DEF T
<1>7. Cardinality(S) \in T /\ S \in UpTo(S, Cardinality(S))
  BY <1>6, EmptyOnly
<1>8. QED
  BY <1>2, <1>7 DEF T

\* Sums of integers are integers, and of naturals naturals.
LEMMA IntegerSums ==
    ASSUME NEW f, IsFiniteSet(DOMAIN f)
    PROVE  /\ (\A x \in DOMAIN f : f[x] \in Int) => SumFunction(f) \in Int
           /\ (\A x \in DOMAIN f : f[x] \in Nat) => SumFunction(f) \in Nat
<1>1. ASSUME NEW N, N = Int \/ N = Nat, \A x \in DOMAIN f : f[x] \in N
      PROVE  SumFunction(f) \in N
  <2>1. \A n \in Nat, x \in DOMAIN f : \A t :
           <<n, t>> \in Nat \X N => <<n + 1, f[x] + t>> \in Nat \X N
    BY <1>1
  <2>2. <<0, 0>> \in Nat \X N
    BY <1>1
  <2>3. <<Cardinality(DOMAIN f), SumFunctionOnSet(f, DOMAIN f)>> \in Nat \X N
    BY <2>1, <2>2, SumsIn
  <2>4. QED
    BY <2>3 DEF SumFunction
<1>2. QED
  BY <1>1

-----------------------------------------------------------------------------
(* Prices                                                                   *)

\* A row has prices of its base, its sizes and its extras, of which it has finitely many.
LEMMA RowPrices ==
    ASSUME NEW row \in Rows
    PROVE  /\ row.base \in Int /\ \A z \in DOMAIN row.sizes : row.sizes[z] \in Int
           /\ IsFiniteSet(DOMAIN row.extras)
           /\ \A e \in DOMAIN row.extras : row.extras[e].price \in Int
<1>1. PICK c \in Contents, n \in 0..MaxEdits : row = With(c, [rev |-> n])
  BY DEF Rows
<1>2. /\ DOMAIN c = {"category", "available", "base", "sizes", "extras"}
      /\ c.base \in Nat \ {0} /\ \A z \in DOMAIN c.sizes : c.sizes[z] \in Int
      /\ IsFiniteSet(DOMAIN c.extras) /\ \A e \in DOMAIN c.extras : c.extras[e].price \in Nat
  BY OrderingAssumption
<1>3. row.base = c.base /\ row.sizes = c.sizes /\ row.extras = c.extras
  BY <1>1, <1>2 DEF With
<1>4. QED
  BY <1>2, <1>3

\* A line costs whole cents of a row that has its size and its extras.
LEMMA LinesCost ==
    ASSUME NEW row \in Rows, NEW line, NEW legacy, line.quantity \in Int,
           HasSize(line, row, legacy), HasExtras(line, row, legacy)
    PROVE  LineTotal(line, row) \in Int
<1> DEFINE prices == [e \in line.extras |-> row.extras[e].price]
<1>1. line.extras \subseteq DOMAIN row.extras
  BY DEF HasExtras
<1>2. IsFiniteSet(line.extras) /\ \A e \in line.extras : row.extras[e].price \in Int
  BY <1>1, RowPrices, FS_Subset
<1>3. SumFunction(prices) \in Int
  <2>1. DOMAIN prices = line.extras /\ \A e \in DOMAIN prices : prices[e] \in Int
    BY <1>2
  <2> HIDE DEF prices
  <2>2. QED
    BY <1>2, <2>1, IntegerSums
<1>4. (IF line.size = None THEN 0 ELSE row.sizes[line.size]) \in Int /\ row.base \in Int
  BY RowPrices DEF HasSize
<1>5. UnitPrice(line, row) \in Int
  BY <1>3, <1>4 DEF UnitPrice
<1>6. Quantity(line) \in Int
  BY DEF Quantity
<1>7. QED
  BY <1>5, <1>6 DEF LineTotal

\* A cart has one line or two, of items, and its request a tip within the limit.
LEMMA CartLines ==
    ASSUME NEW view, DOMAIN view \subseteq Item, NEW request \in Requests(view)
    PROVE  /\ IsFiniteSet(DOMAIN request.cart) /\ 1 \in DOMAIN request.cart
           /\ \A k \in DOMAIN request.cart :
                request.cart[k].item \in Item /\ request.cart[k].quantity \in Int
           /\ request.tip \in 0..100 /\ request.delivery \in BOOLEAN
<1>1. PICK ask \in Asks, cart \in Carts(view) : request = With(ask, [cart |-> cart])
  BY DEF Requests
<1>2. /\ ask \in [legacy : BOOLEAN, delivery : BOOLEAN, tip : 0..100, code : BOOLEAN]
      /\ Quantities \subseteq Int
  BY OrderingAssumption
<1>3. request.cart = cart /\ request.tip = ask.tip /\ request.delivery = ask.delivery
  <2>1. DOMAIN ask = {"legacy", "delivery", "tip", "code"}
    BY <1>2
  <2>2. QED
    BY <1>1, <2>1 DEF With
<1> DEFINE picks == UNION {LinesOf(i, view[i]) : i \in DOMAIN view}
<1>4. PICK line \in picks : cart = <<line>> \/ \E j \in Item : cart = <<line, Leftover(j)>>
  BY <1>1 DEF Carts
<1>5. line.item \in Item /\ line.quantity \in Int
  <2>1. PICK i \in DOMAIN view : line \in LinesOf(i, view[i])
    OBVIOUS
  <2>2. QED
    BY <1>2, <2>1 DEF LinesOf
<1>6. \A j \in Item : Leftover(j).item \in Item /\ Leftover(j).quantity \in Int
  BY DEF Leftover
<1> HIDE DEF picks
<1>7. PICK n \in {1, 2} : DOMAIN cart = 1..n
  BY <1>4
<1>8. \A k \in DOMAIN cart : cart[k].item \in Item /\ cart[k].quantity \in Int
  BY <1>4, <1>5, <1>6
<1>9. IsFiniteSet(1..n)
  BY FS_Interval
<1>10. QED
  BY <1>2, <1>3, <1>7, <1>8, <1>9

\* So its lines cost whole cents, and the fee and the minimum are the restaurant's.
LEMMA BillOfLines ==
    ASSUME Remembered, NEW v \in Visit, visit[v].called \in 1..Len(history),
           DOMAIN visit[v].view \subseteq Item, visit[v].request \in Requests(visit[v].view),
           LinesOffered(v), FeeOffered(v),
           DOMAIN visit[v].bill.lines = DOMAIN visit[v].request.cart
    PROVE  /\ Sum(visit[v].bill.lines) \in Int
           /\ visit[v].bill.fee \in Nat /\ visit[v].bill.min \in Nat
<1> DEFINE cart == visit[v].request.cart
           lines == visit[v].bill.lines
<1>1. /\ IsFiniteSet(DOMAIN cart) /\ 1 \in DOMAIN cart /\ visit[v].request.delivery \in BOOLEAN
      /\ \A k \in DOMAIN cart : cart[k].item \in Item /\ cart[k].quantity \in Int
  BY CartLines
<1>2. Since(visit[v].called) \subseteq Databases
  BY DEF Since, Remembered
<1>3. PICK h \in Since(visit[v].called) : \A k \in DOMAIN cart : Offers(h, v, k)
  BY DEF LinesOffered
<1>4. ASSUME NEW k \in DOMAIN cart
      PROVE  lines[k] \in Int /\ Home[cart[k].item] = RestaurantOf[v]
  <2> DEFINE row == h.items[cart[k].item]
             legacy == visit[v].request.legacy
  <2>1. /\ Home[cart[k].item] = RestaurantOf[v] /\ row # None
        /\ HasSize(cart[k], row, legacy) /\ HasExtras(cart[k], row, legacy)
        /\ lines[k] = LineTotal(cart[k], row)
    BY <1>3 DEF Offers
  <2>2. row \in Rows
    BY <1>1, <1>2, <1>3, <2>1 DEF Databases
  <2> HIDE DEF row, legacy
  <2>3. LineTotal(cart[k], row) \in Int
    BY <1>1, <2>1, <2>2, LinesCost
  <2>4. QED
    BY <2>1, <2>3
<1>5. Sum(lines) \in Int
  <2>1. IsFiniteSet(DOMAIN lines) /\ \A k \in DOMAIN lines : lines[k] \in Int
    BY <1>1, <1>4
  <2>2. QED
    BY <2>1, IntegerSums DEF Sum
<1>6. RestaurantOf[v] \in Restaurants
  BY <1>1, <1>4 DEF Restaurants
<1>7. visit[v].bill.fee \in Nat /\ visit[v].bill.min \in Nat
  <2>1. PICK g \in Since(visit[v].called) :
            /\ visit[v].bill.min = g.settings[RestaurantOf[v]].min
            /\ visit[v].bill.fee
                 = IF visit[v].request.delivery THEN g.settings[RestaurantOf[v]].fee ELSE 0
    BY DEF FeeOffered
  <2>2. g.settings[RestaurantOf[v]] \in [fee : Nat, min : Nat, closed : BOOLEAN]
    BY <1>2, <1>6, <2>1 DEF Databases
  <2>3. QED
    BY <1>1, <2>1, <2>2
<1>8. QED
  BY <1>5, <1>7

\* A promo takes off whole cents, and no more than a subtotal that is not negative.
LEMMA Discounts ==
    ASSUME NEW row \in Promos \cup {SeedPromo, None}, NEW subtotal \in Int
    PROVE  /\ Discount(row, subtotal) \in Int
           /\ subtotal >= 0 => Discount(row, subtotal) \in 0..subtotal
<1>1. ASSUME NEW a \in Int, NEW b \in Int
      PROVE  Min({a, b}) \in {a, b} /\ Min({a, b}) <= a /\ Min({a, b}) <= b
  BY DEF Min
<1>2. CASE row = None
  BY <1>2 DEF Discount
<1>3. CASE row # None
  <2>1. row \in [percent : Int, amount : Int, min : Int, expired : BOOLEAN, active : BOOLEAN]
    BY <1>3, OrderingAssumption
  <2>2. row.percent \in Int /\ row.amount \in Int
    BY <2>1
  <2> DEFINE part == (subtotal * row.percent) \div 100
  <2>3. part \in Int /\ (subtotal >= 0 /\ row.percent > 0 => part >= 0)
    <3>1. PICK product \in Int : product = subtotal * row.percent
      BY <2>2
    <3>2. subtotal >= 0 /\ row.percent > 0 => product >= 0
      BY <2>2, <3>1
    <3>3. product \div 100 \in Int /\ (product >= 0 => product \div 100 >= 0)
      OBVIOUS
    <3>4. QED
      BY <3>1, <3>2, <3>3
  <2> HIDE DEF part
  <2> DEFINE byAmount == Min({row.amount, subtotal})
             byPart == Min({part, subtotal})
  <2>4. byAmount \in {row.amount, subtotal} /\ byAmount <= subtotal
    BY <1>1, <2>2
  <2>5. byPart \in {part, subtotal} /\ byPart <= subtotal
    BY <1>1, <2>3
  <2> HIDE DEF byAmount, byPart
  <2>6. \/ Discount(row, subtotal) = 0
        \/ Discount(row, subtotal) = byAmount /\ row.amount > 0
        \/ Discount(row, subtotal) = byPart /\ row.percent > 0
    BY DEF Discount, byAmount, byPart, part
  <2>7. QED
    BY <2>2, <2>3, <2>4, <2>5, <2>6
<1>4. QED
  BY <1>2, <1>3

\* A part of an amount that is not negative is rounded to one that is not.
LEMMA RoundedParts ==
    ASSUME NEW a \in Int, NEW rate \in Nat, NEW d \in {100, 10000}, NEW k \in Rounded(a * rate, d)
    PROVE  k \in Int /\ (a >= 0 => k >= 0)
<1>1. PICK n \in Int : n = a * rate
  OBVIOUS
<1>2. a >= 0 => n >= 0
  BY <1>1
<1>3. k \in {n \div d, n \div d + 1}
  BY <1>1 DEF Rounded
<1>4. n \div d \in Int /\ (n >= 0 => n \div d >= 0)
  OBVIOUS
<1>5. QED
  BY <1>2, <1>3, <1>4

-----------------------------------------------------------------------------
(* Staff, operators and boots                                               *)

\* A row that is written has the contents of the request and a new revision.
LEMMA WrittenRows ==
    ASSUME Remembered, NEW c \in Contents, Len(history) <= MaxEdits
    PROVE  Written(c) \in Rows /\ Written(c).rev = Len(history)
<1>1. Len(history) \in 0..MaxEdits
  BY DEF Remembered
<1>2. Written(c) = With(c, [rev |-> Len(history)])
  BY DEF Written
<1>3. With(c, [rev |-> Len(history)])["rev"] = Len(history)
  BY WithFields
<1>4. QED
  BY <1>1, <1>2, <1>3 DEF Rows

\* Settings keep the fields that an update does not name.
LEMMA UpdatedSettings ==
    ASSUME NEW s \in [fee : Nat, min : Nat, closed : BOOLEAN], NEW u,
           DOMAIN u \subseteq {"fee", "min", "closed"},
           "fee" \in DOMAIN u => u.fee \in Nat,
           "min" \in DOMAIN u => u.min \in Nat,
           "closed" \in DOMAIN u => u.closed \in BOOLEAN
    PROVE  With(s, u) \in [fee : Nat, min : Nat, closed : BOOLEAN]
<1> DEFINE w == With(s, u)
<1>1. DOMAIN w = {"fee", "min", "closed"} /\ w = [f \in DOMAIN w |-> w[f]]
  BY DEF With
<1>2. w.fee \in Nat /\ w.min \in Nat /\ w.closed \in BOOLEAN
  BY DEF With
<1> HIDE DEF w
<1>3. w = [fee |-> w.fee, min |-> w.min, closed |-> w.closed]
  BY <1>1
<1>4. w \in [fee : Nat, min : Nat, closed : BOOLEAN]
  BY <1>2, <1>3
<1>5. QED
  BY <1>4 DEF w

\* An edit leaves a well-formed database, and revisions that the old rows had not.
LEMMA EditsKeep ==
    ASSUME Remembered, Staff
    PROVE  /\ Changed /\ Now' \in Databases
           /\ \A i \in Item : items'[i] \in {items[i], None} \/ items'[i].rev = Len(history)
<1> USE OrderingAssumption
<1>0. /\ items \in [Item -> Rows \cup {None}]
      /\ category \in [Category -> {"active", "inactive", "none"}]
      /\ settings \in [Restaurants -> [fee : Nat, min : Nat, closed : BOOLEAN]]
      /\ promo \in Promos \cup {SeedPromo, None}
  BY DEF Remembered, Now, Databases
<1>1. ASSUME NEW i \in Item, CreateItem(i) \/ UpdateItem(i) \/ DeleteItem(i)
      PROVE  /\ Changed /\ UNCHANGED <<category, settings, promo>>
             /\ items' \in [Item -> Rows \cup {None}]
             /\ \A j \in Item : items'[j] \in {items[j], None} \/ items'[j].rev = Len(history)
  <2>1. ASSUME NEW row \in Rows \cup {None}, row = None \/ row.rev = Len(history), EditItem(i, row)
        PROVE  /\ UNCHANGED <<category, settings, promo>>
               /\ items' \in [Item -> Rows \cup {None}]
               /\ \A j \in Item : items'[j] \in {items[j], None} \/ items'[j].rev = Len(history)
    BY <1>0, <2>1 DEF EditItem
  <2>2. ASSUME NEW row, EditItem(i, row)
        PROVE  Changed /\ Len(history) <= MaxEdits
    BY <2>2 DEF EditItem, Changed
  <2>3. PICK row : EditItem(i, row) /\ (row = None \/ \E c \in Contents : row = Written(c))
    BY <1>1 DEF CreateItem, UpdateItem, DeleteItem
  <2>4. row \in Rows \cup {None} /\ (row = None \/ row.rev = Len(history))
    BY <2>2, <2>3, WrittenRows
  <2>5. QED
    BY <2>1, <2>2, <2>3, <2>4
<1>2. ASSUME NEW c \in Category, CreateCategory(c) \/ UpdateCategory(c) \/ DeleteCategory(c)
      PROVE  /\ Changed /\ UNCHANGED <<items, settings, promo>>
             /\ category' \in [Category -> {"active", "inactive", "none"}]
  BY <1>0, <1>2 DEF CreateCategory, UpdateCategory, DeleteCategory, EditCategory
<1>3. ASSUME NEW r \in Restaurants, UpdateSettings(r) \/ ToggleManualClosed(r)
      PROVE  /\ Changed /\ UNCHANGED <<items, category, promo>>
             /\ settings' \in [Restaurants -> [fee : Nat, min : Nat, closed : BOOLEAN]]
  <2>1. PICK u : /\ EditSettings(r, u)
                 /\ u \in Fees \/ \E closed \in BOOLEAN : u = [closed |-> closed]
    BY <1>3 DEF UpdateSettings, ToggleManualClosed
  <2>2. /\ DOMAIN u \subseteq {"fee", "min", "closed"}
        /\ "fee" \in DOMAIN u => u.fee \in Nat
        /\ "min" \in DOMAIN u => u.min \in Nat
        /\ "closed" \in DOMAIN u => u.closed \in BOOLEAN
    BY <2>1
  <2>3. With(settings[r], u) \in [fee : Nat, min : Nat, closed : BOOLEAN]
    BY <1>0, <2>2, UpdatedSettings
  <2>4. QED
    BY <1>0, <2>1, <2>3 DEF EditSettings
<1>4. ASSUME SeedFromEnv \/ OfferPromo
      PROVE  /\ Changed /\ UNCHANGED <<items, category, settings>>
             /\ promo' \in Promos \cup {SeedPromo, None}
  BY <1>4 DEF SeedFromEnv, OfferPromo, EditPromo
<1>5. QED
  BY <1>0, <1>1, <1>2, <1>3, <1>4 DEF Staff, Now, Databases

\* So a revision goes on to name one write.
LEMMA StaffStep ==
    ASSUME Remembered, Versioned, Staff
    PROVE  Remembered' /\ Versioned' /\ Grown /\ UNCHANGED visit
<1> DEFINE n == Len(history)
<1>1. Changed /\ Now' \in Databases
  BY EditsKeep
<1>2. /\ Grown /\ UNCHANGED visit /\ n <= MaxEdits
      /\ Len(history') = n + 1 /\ history'[n + 1] = Now'
  BY <1>1, StaffGrows
<1>3. n \in Nat \ {0} /\ history[n] = Now /\ MaxEdits \in Nat
  BY OrderingAssumption DEF Remembered
<1>4. Remembered'
  <2>1. history' \in Seq(Databases)
    BY <1>1 DEF Remembered, Changed, Now
  <2>2. QED
    BY <1>1, <1>2, <1>3, <2>1 DEF Remembered
<1>5. \A k \in 1..n : history'[k] = history[k]
  BY <1>2 DEF Grown
<1>6. ASSUME NEW i \in Item, items'[i] # None
      PROVE  /\ items'[i].rev < n + 1
             /\ items'[i] = items[i] \/ items'[i].rev = n
             /\ items[i] # None => items[i].rev < n
  <2>1. items[i] # None => items[i].rev < n
    BY <1>3 DEF Versioned, Now
  <2>2. items[i] # None => items[i].rev \in 0..MaxEdits
    <3>1. items[i] \in Rows \cup {None}
      BY DEF Remembered, Now, Databases
    <3>2. QED
      BY <3>1, RowFields
  <2>3. items'[i] = items[i] \/ items'[i].rev = n
    BY <1>6, EditsKeep
  <2>4. QED
    BY <1>3, <1>6, <2>1, <2>2, <2>3
<1>7. ASSUME NEW k \in 1..n, NEW i \in Item, history[k].items[i] # None
      PROVE  /\ history[k].items[i].rev < k
             /\ items'[i] # None /\ items'[i].rev = history[k].items[i].rev
                  => items'[i] = history[k].items[i]
  <2>1. history[k].items[i].rev < k
    BY <1>7 DEF Versioned
  <2>2. history[k].items[i].rev \in 0..MaxEdits
    <3>1. history[k] \in Databases
      BY DEF Remembered
    <3>2. history[k].items[i] \in Rows
      BY <1>7, <3>1 DEF Databases
    <3>3. QED
      BY <3>2, RowFields
  <2>3. ASSUME items'[i] # None, items'[i].rev = history[k].items[i].rev
        PROVE  items'[i] = history[k].items[i]
    <3>1. items'[i].rev # n
      BY <1>3, <2>1, <2>2, <2>3
    <3>2. items'[i] = items[i] /\ history[n].items[i] = items[i]
      BY <1>3, <1>6, <2>3, <3>1 DEF Now
    <3>3. QED
      BY <1>3, <1>7, <2>3, <3>2 DEF Versioned
  <2>4. QED
    BY <2>1, <2>3
<1>8. \A i \in Item : history'[n + 1].items[i] = items'[i]
  BY <1>2 DEF Now
<1>9. ASSUME NEW k \in 1..n + 1, NEW i \in Item, history'[k].items[i] # None
      PROVE  /\ history'[k].items[i].rev < k
             /\ \A l \in 1..n + 1 :
                  /\ history'[l].items[i] # None
                  /\ history'[l].items[i].rev = history'[k].items[i].rev
                  => history'[l].items[i] = history'[k].items[i]
  <2>1. history'[k].items[i].rev < k
    BY <1>3, <1>5, <1>6, <1>7, <1>8, <1>9
  <2>2. ASSUME NEW l \in 1..n + 1, history'[l].items[i] # None,
               history'[l].items[i].rev = history'[k].items[i].rev
        PROVE  history'[l].items[i] = history'[k].items[i]
    <3>1. CASE k \in 1..n /\ l \in 1..n
      BY <1>5, <1>9, <2>2, <3>1 DEF Versioned
    <3>2. CASE k = n + 1 /\ l \in 1..n
      BY <1>5, <1>7, <1>8, <1>9, <2>2, <3>2
    <3>3. CASE k \in 1..n /\ l = n + 1
      BY <1>5, <1>7, <1>8, <1>9, <2>2, <3>3
    <3>4. QED
      BY <1>3, <3>1, <3>2, <3>3
  <2>3. QED
    BY <2>1, <2>2
<1>10. QED
  BY <1>2, <1>4, <1>9 DEF Versioned


-----------------------------------------------------------------------------
(* The menu                                                                 *)

\* A step of a visit sets the fields it names.
LEMMA VisitSteps ==
    ASSUME Remembered, NEW v \in Visit, Seen(v), NEW change, DOMAIN change \subseteq Fields,
           Step(v, change)
    PROVE  /\ \A f \in DOMAIN change : visit'[v][f] = change[f]
           /\ \A f \in Fields \ DOMAIN change : visit'[v][f] = visit[v][f]
           /\ DOMAIN visit'[v] = Fields
           /\ \A w \in Visit \ {v} : visit'[w] = visit[w]
           /\ DOMAIN visit' = Visit
           /\ UNCHANGED <<items, category, settings, promo, history>>
           /\ Grown
<1>1. /\ visit'[v] = With(visit[v], change)
      /\ \A w \in Visit \ {v} : visit'[w] = visit[w]
      /\ DOMAIN visit' = Visit
      /\ UNCHANGED <<items, category, settings, promo, history>>
  BY DEF Step, Remembered
<1>2. DOMAIN visit[v] = Fields
  BY DEF Seen
<1>3. QED
  BY <1>1, <1>2, CustomersKeep DEF With

\* The public view of a row is the row without the extras that are not available.
LEMMA ViewOfRow ==
    ASSUME NEW row \in Rows
    PROVE  /\ PublicView(row).category = row.category /\ PublicView(row).rev = row.rev
           /\ PublicView(row).base = row.base /\ PublicView(row).sizes = row.sizes
           /\ \A e \in DOMAIN PublicView(row).extras :
                PublicView(row).extras[e] = row.extras[e]
  BY RowFields DEF PublicView

\* Who reads the categories has those that are active now.
LEMMA CategoriesStep ==
    ASSUME OrderInv, NEW v \in Visit, ReadCategories(v)
    PROVE  Seen(v)'
<1> DEFINE change == [stage |-> "categories", shown |-> ListActive(RestaurantOf[v]),
                      since |-> Len(history)]
<1>1. Remembered /\ Seen(v) /\ Step(v, change)
  BY DEF OrderInv, ReadCategories
<1>2. DOMAIN change = {"stage", "shown", "since"} /\ DOMAIN change \subseteq Fields
  BY DEF Fields
<1>3. /\ visit'[v].stage = "categories" /\ visit'[v].since = Len(history)
      /\ visit'[v].shown = ListActive(RestaurantOf[v])
      /\ visit'[v].called = visit[v].called /\ visit'[v].view = visit[v].view
      /\ DOMAIN visit'[v] = Fields /\ UNCHANGED history
  BY <1>1, <1>2, VisitSteps DEF Fields
<1>4. Len(history) \in 1..Len(history) /\ history[Len(history)].category = category
  BY <1>1 DEF Remembered, Now
<1>5. visit[v].called \in 1..Len(history) /\ visit[v].view = <<>>
  BY <1>1 DEF Seen, ReadCategories, At
<1>6. QED
  BY <1>3, <1>4, <1>5 DEF Seen, At, ListActive, Stages

\* The menu has what stayed listed, and what was there at some moment.
LEMMA MenuStep ==
    ASSUME OrderInv, NEW v \in Visit, ReadMenuItems(v)
    PROVE  Seen(v)'
<1> DEFINE r == RestaurantOf[v]
           listed == {i \in OfRestaurant(r) : items[i].category \in visit[v].shown}
           view == [i \in listed |-> PublicView(items[i])]
           change == [stage |-> "browsing", view |-> view]
<1>1. Remembered /\ Seen(v) /\ Step(v, change) /\ At(v, "categories")
  BY DEF OrderInv, ReadMenuItems
<1>2. DOMAIN change = {"stage", "view"} /\ DOMAIN change \subseteq Fields
  BY DEF Fields
<1>3. /\ visit'[v].stage = "browsing" /\ visit'[v].view = view
      /\ visit'[v].since = visit[v].since /\ visit'[v].called = visit[v].called
      /\ DOMAIN visit'[v] = Fields /\ UNCHANGED history
  BY <1>1, <1>2, VisitSteps DEF Fields
<1>4. /\ visit[v].since \in 1..Len(history) /\ visit[v].called \in 1..Len(history)
      /\ visit[v].shown = {c \in Category : /\ Owner[c] = r
                                            /\ history[visit[v].since].category[c] = "active"}
  BY <1>1 DEF Seen
<1> DEFINE past == Since(visit[v].since)
           first == history[visit[v].since]
<1>5. Now \in past /\ first \in past /\ Now.items = items
  BY <1>1, <1>4, NowIsSeen DEF Since, Now
<1>6. ASSUME NEW i \in Item, Home[i] = r, Stayed(i, past)
      PROVE  i \in DOMAIN view
  <2>1. PICK c \in Category : Owner[c] = r /\ \A h \in past :
            h.items[i] # None /\ h.items[i].category = c /\ h.category[c] = "active"
    BY <1>6 DEF Stayed
  <2>2. items[i] # None /\ items[i].category = c /\ first.category[c] = "active"
    BY <1>5, <2>1
  <2>3. QED
    BY <1>4, <1>6, <2>1, <2>2 DEF OfRestaurant
<1>7. ASSUME NEW i \in DOMAIN view
      PROVE  i \in Item /\ Shows(v, i, view[i], past)
  <2>1. i \in Item /\ Home[i] = r /\ items[i] # None /\ items[i].category \in visit[v].shown
        /\ view[i] = PublicView(items[i])
    BY DEF OfRestaurant
  <2>2. items[i] \in Rows
    BY <1>1, <2>1 DEF Remembered, Now, Databases
  <2>3. view[i].category = items[i].category
    BY <2>1, <2>2, ViewOfRow
  <2>4. first.category[view[i].category] = "active"
    BY <1>4, <2>1, <2>3
  <2>5. QED
    BY <1>5, <2>1, <2>4 DEF Shows
<1> HIDE DEF view
<1>8. Since(visit[v].since)' = past
  BY <1>3 DEF Since
<1>9. ShowsMenu(v)'
  BY <1>3, <1>6, <1>7, <1>8 DEF ShowsMenu, Stayed, Shows
<1>10. DOMAIN view \subseteq Item
  BY <1>7
<1>11. QED
  BY <1>3, <1>4, <1>9, <1>10 DEF Seen, At, Stages

\* A visit that ends, or goes back to its menu, keeps what it was shown.
LEMMA MenuStays ==
    ASSUME OrderInv, NEW v \in Visit, visit[v].stage \notin {"idle", "categories"},
           visit'[v].stage \in {"browsing", "refused"},
           visit'[v].view = visit[v].view, visit'[v].since = visit[v].since,
           visit'[v].called = visit[v].called, DOMAIN visit'[v] = Fields, UNCHANGED history
    PROVE  Seen(v)'
<1>1. Remembered /\ Seen(v) /\ Grown
  BY CustomersKeep DEF OrderInv
<1>2. ShowsMenu(v)' /\ DOMAIN visit[v].view \subseteq Item
  BY <1>1, ShowsKept DEF Seen
<1>3. visit[v].since \in 1..Len(history) /\ visit[v].called \in 1..Len(history)
  BY <1>1 DEF Seen
<1>4. QED
  BY <1>2, <1>3 DEF Seen, At, Stages


-----------------------------------------------------------------------------
(* The call of checkout                                                     *)

LEMMA RefuseStep ==
    ASSUME OrderInv, NEW v \in Visit, visit[v].stage \notin {"idle", "categories"},
           NEW reason, Refuse(v, reason)
    PROVE  Seen(v)'
<1> DEFINE change == [stage |-> "refused", reason |-> reason, rows |-> <<>>, bill |-> None]
<1>1. Remembered /\ Seen(v) /\ Step(v, change)
  BY DEF OrderInv, Refuse
<1>2. DOMAIN change = {"stage", "reason", "rows", "bill"} /\ DOMAIN change \subseteq Fields
  BY DEF Fields
<1>3. /\ visit'[v].stage = "refused" /\ visit'[v].view = visit[v].view
      /\ visit'[v].since = visit[v].since /\ visit'[v].called = visit[v].called
      /\ DOMAIN visit'[v] = Fields /\ UNCHANGED history
  BY <1>1, <1>2, VisitSteps DEF Fields
<1>4. QED
  BY <1>3, MenuStays

LEMMA TryAgainStep ==
    ASSUME OrderInv, NEW v \in Visit, TryAgain(v)
    PROVE  Seen(v)'
<1> DEFINE change == [stage |-> "browsing", request |-> None, reason |-> "none"]
<1>1. Remembered /\ Seen(v) /\ Step(v, change) /\ At(v, "refused")
  BY DEF OrderInv, TryAgain
<1>2. DOMAIN change = {"stage", "request", "reason"} /\ DOMAIN change \subseteq Fields
  BY DEF Fields
<1>3. /\ visit'[v].stage = "browsing" /\ visit'[v].view = visit[v].view
      /\ visit'[v].since = visit[v].since /\ visit'[v].called = visit[v].called
      /\ DOMAIN visit'[v] = Fields /\ UNCHANGED history
  BY <1>1, <1>2, VisitSteps DEF Fields
<1>4. QED
  BY <1>1, <1>3, MenuStays DEF At

\* Between the call and the order a visit keeps its menu and its request.
LEMMA CallGoesOn ==
    ASSUME OrderInv, NEW v \in Visit, visit[v].stage \in {"items", "restaurant", "promo", "save"},
           NEW change, Step(v, change), DOMAIN change \subseteq {"stage", "rows", "bill"}
    PROVE  /\ visit'[v].view = visit[v].view /\ visit'[v].since = visit[v].since
           /\ visit'[v].called = visit[v].called /\ visit'[v].request = visit[v].request
           /\ visit[v].called \in 1..Len(history) /\ visit[v].since \in 1..Len(history)
           /\ DOMAIN visit'[v] = Fields /\ UNCHANGED history
           /\ visit[v].request \in Requests(visit[v].view)
           /\ ShowsMenu(v)' /\ DOMAIN visit[v].view \subseteq Item
           /\ \A f \in DOMAIN change : visit'[v][f] = change[f]
           /\ \A f \in {"rows", "bill"} \ DOMAIN change : visit'[v][f] = visit[v][f]
           /\ Remembered /\ Grown
<1>1. Remembered /\ Seen(v) /\ Grown /\ DOMAIN change \subseteq Fields
  BY VisitSteps DEF OrderInv, Fields
<1>2. /\ visit'[v].view = visit[v].view /\ visit'[v].since = visit[v].since
      /\ visit'[v].called = visit[v].called /\ visit'[v].request = visit[v].request
      /\ DOMAIN visit'[v] = Fields /\ UNCHANGED history
      /\ \A f \in DOMAIN change : visit'[v][f] = change[f]
      /\ \A f \in {"rows", "bill"} \ DOMAIN change : visit'[v][f] = visit[v][f]
  BY <1>1, VisitSteps DEF Fields
<1>3. /\ visit[v].called \in 1..Len(history) /\ visit[v].since \in 1..Len(history)
      /\ visit[v].request \in Requests(visit[v].view)
      /\ ShowsMenu(v) /\ DOMAIN visit[v].view \subseteq Item
  BY <1>1 DEF Seen
<1>4. ShowsMenu(v)'
  BY <1>1, <1>2, <1>3, ShowsKept
<1>5. QED
  BY <1>1, <1>2, <1>3, <1>4

LEMMA CheckoutStep ==
    ASSUME OrderInv, NEW v \in Visit, Checkout(v)
    PROVE  Seen(v)'
<1>1. PICK request \in Requests(visit[v].view) :
          Step(v, [stage |-> "items", request |-> request, called |-> Len(history)])
  BY DEF Checkout
<1> DEFINE change == [stage |-> "items", request |-> request, called |-> Len(history)]
<1>2. Remembered /\ Seen(v) /\ Step(v, change) /\ At(v, "browsing")
  BY <1>1 DEF OrderInv, Checkout
<1>3. DOMAIN change = {"stage", "request", "called"} /\ DOMAIN change \subseteq Fields
  BY DEF Fields
<1>4. /\ visit'[v].stage = "items" /\ visit'[v].view = visit[v].view
      /\ visit'[v].since = visit[v].since /\ visit'[v].called = Len(history)
      /\ visit'[v].request = request
      /\ DOMAIN visit'[v] = Fields /\ UNCHANGED history /\ Grown
  BY <1>2, <1>3, VisitSteps DEF Fields
<1>5. ShowsMenu(v)' /\ DOMAIN visit[v].view \subseteq Item /\ visit[v].since \in 1..Len(history)
  BY <1>2, <1>4, ShowsKept DEF Seen, At
<1>6. Len(history) \in 1..Len(history)
  BY <1>2 DEF Remembered
<1>7. request \in Requests(visit'[v].view)
  BY <1>4
<1>8. QED
  BY <1>4, <1>5, <1>6, <1>7 DEF Seen, At, Stages

\* The rows are read at one moment of the call.
LEMMA ItemsStep ==
    ASSUME OrderInv, NEW v \in Visit, ReadItems(v)
    PROVE  Seen(v)'
<1> DEFINE found == Ordered(v) \cap OfRestaurant(RestaurantOf[v])
           rows == [i \in found |-> items[i]]
           change == [stage |-> "restaurant", rows |-> rows]
<1>1. visit[v].stage = "items" /\ Step(v, change) /\ DOMAIN change = {"stage", "rows"}
  BY DEF ReadItems, At
<1>2. visit'[v].stage = "restaurant" /\ visit'[v].rows = rows
  BY <1>1, CallGoesOn
<1>3. \A i \in DOMAIN rows :
          Home[i] = RestaurantOf[v] /\ items[i] # None /\ rows[i] = items[i]
  BY DEF OfRestaurant
<1> HIDE DEF rows
<1>4. Now \in Since(visit[v].called) /\ Now.items = items
  BY <1>1, CallGoesOn, NowIsSeen DEF Now
<1>5. Since(visit[v].called)' = Since(visit[v].called)
  BY <1>1, CallGoesOn DEF Since
<1>6. RowsRead(v)'
  BY <1>2, <1>3, <1>4, <1>5 DEF RowsRead
<1>7. QED
  BY <1>1, <1>2, <1>6, CallGoesOn DEF Seen, At, Stages


\* A cart without an error costs what the rows that were read say.
LEMMA RestaurantStep ==
    ASSUME OrderInv, NEW v \in Visit, ReadRestaurant(v)
    PROVE  Seen(v)'
<1> DEFINE r == settings[RestaurantOf[v]]
           request == visit[v].request
           cart == request.cart
           rows == visit[v].rows
           error(k) == LineError(cart[k], rows, request.legacy)
           bill == [lines |-> Totals(cart, rows), min |-> r.min,
                    fee |-> IF request.delivery THEN r.fee ELSE 0]
           change == [stage |-> "promo", rows |-> <<>>, bill |-> bill]
<1>1. /\ visit[v].stage = "restaurant"
      /\ \/ \E reason : Refuse(v, reason)
         \/ /\ ~r.closed /\ \A k \in DOMAIN cart : error(k) = "none"
            /\ Step(v, change)
  BY DEF ReadRestaurant, At
<1>2. CASE \E reason : Refuse(v, reason)
  BY <1>1, <1>2, RefuseStep
<1>3. CASE ~r.closed /\ (\A k \in DOMAIN cart : error(k) = "none") /\ Step(v, change)
  <2>1. DOMAIN change = {"stage", "rows", "bill"}
    OBVIOUS
  <2>2. /\ visit'[v].stage = "promo" /\ visit'[v].bill = bill
        /\ visit'[v].request = request /\ visit'[v].called = visit[v].called
    BY <1>1, <1>3, <2>1, CallGoesOn
  <2>3. Remembered /\ Seen(v) /\ visit[v].called \in 1..Len(history) /\ UNCHANGED history
    BY <1>1, <1>3, <2>1, CallGoesOn DEF OrderInv
  <2> DEFINE past == Since(visit[v].called)
  <2>4. Since(visit[v].called)' = past
    BY <2>2, <2>3 DEF Since
  <2>5. PICK h \in past : \A i \in DOMAIN rows :
            Home[i] = RestaurantOf[v] /\ h.items[i] # None /\ rows[i] = h.items[i]
    BY <1>1, <2>3 DEF Seen, At, RowsRead
  <2>6. ASSUME NEW k \in DOMAIN cart
        PROVE  Offers(h, v, k)'
    <3>1. error(k) = "none"
      BY <1>3
    <3>2. /\ cart[k].item \in DOMAIN rows /\ rows[cart[k].item].available
          /\ HasSize(cart[k], rows[cart[k].item], request.legacy)
          /\ HasExtras(cart[k], rows[cart[k].item], request.legacy)
      BY <3>1 DEF LineError
    <3>3. /\ Home[cart[k].item] = RestaurantOf[v] /\ h.items[cart[k].item] # None
          /\ rows[cart[k].item] = h.items[cart[k].item]
      BY <2>5, <3>2
    <3>4. bill.lines[k] = LineTotal(cart[k], rows[cart[k].item])
      BY DEF Totals
    <3>5. QED
      BY <2>2, <3>2, <3>3, <3>4 DEF Offers
  <2>7. LinesOffered(v)'
    BY <2>2, <2>4, <2>6 DEF LinesOffered
  <2>8. FeeOffered(v)'
    <3>1. Now \in past /\ Now.settings = settings
      BY <2>3, NowIsSeen DEF Now
    <3>2. bill.min = r.min /\ bill.fee = IF request.delivery THEN r.fee ELSE 0
      OBVIOUS
    <3>3. QED
      BY <1>3, <2>2, <2>4, <3>1, <3>2 DEF FeeOffered
  <2>9. DOMAIN bill = {"lines", "min", "fee"} /\ DOMAIN bill.lines = DOMAIN cart
    BY DEF Totals
  <2> HIDE DEF bill
  <2>10. DOMAIN visit'[v].bill.lines = DOMAIN visit'[v].request.cart
    BY <2>2, <2>9
  <2>11. QED
    BY <1>1, <1>3, <2>1, <2>2, <2>7, <2>8, <2>9, <2>10, CallGoesOn DEF Seen, At, Stages
<1>4. QED
  BY <1>1, <1>2, <1>3

\* The parts that LookupPromo computes, and the bill with them.
Fits(v, read, service, tip, tax) ==
    LET b == visit[v].bill
        subtotal == Sum(b.lines)
        rates == RatesOf(RestaurantOf[v])
        base == AtLeast0(subtotal + b.fee + service - Discount(read, subtotal))
    IN /\ service \in Rounded(subtotal * rates.service, 10000)
       /\ tip \in Rounded(subtotal * visit[v].request.tip, 100)
       /\ tax \in Rounded(base * rates.tax, 10000)
Billed(v, read, service, tip, tax) ==
    With(visit[v].bill, Sums(v, read, service, tip, tax))

\* They add up.
LEMMA SumsAddUp ==
    ASSUME NEW v \in Visit, NEW read \in Promos \cup {SeedPromo, None},
           NEW service, NEW tip, NEW tax, Fits(v, read, service, tip, tax),
           visit[v].request.tip \in Nat, RestaurantOf[v] \in DOMAIN Rates,
           visit[v].bill.fee \in Nat, visit[v].bill.min \in Nat, Sum(visit[v].bill.lines) \in Int,
           {"lines", "min", "fee"} \subseteq DOMAIN visit[v].bill,
           ~(Sums(v, read, service, tip, tax).total <= 0),
           ~(visit[v].bill.min > 0 /\ Sums(v, read, service, tip, tax).subtotal < visit[v].bill.min)
    PROVE  AddsUp(Billed(v, read, service, tip, tax))
<1> DEFINE b == visit[v].bill
           s == Sum(b.lines)
           d == Discount(read, s)
           bill == Billed(v, read, service, tip, tax)
<1>0. /\ s \in Int /\ service \in Rounded(s * RatesOf(RestaurantOf[v]).service, 10000)
      /\ tip \in Rounded(s * visit[v].request.tip, 100)
      /\ tax \in Rounded(AtLeast0(s + b.fee + service - d) * RatesOf(RestaurantOf[v]).tax, 10000)
  BY DEF Fits
<1>1. /\ bill.subtotal = Sum(bill.lines) /\ bill.fee = b.fee
      /\ bill.min = b.min /\ bill.subtotal = s /\ bill.service = service /\ bill.tip = tip /\ bill.tax = tax
      /\ bill.discount = d /\ bill.total = s + b.fee + service + tip + tax - d
      /\ ~(bill.total <= 0) /\ ~(bill.min > 0 /\ bill.subtotal < bill.min)
  BY DEF With, Sums, Billed
<1> HIDE DEF s, bill
<1>2. d \in Int /\ (s >= 0 => d \in 0..s)
  BY ONLY read \in Promos \cup {SeedPromo, None}, <1>0, Discounts
<1>3. RatesOf(RestaurantOf[v]).service \in Nat /\ RatesOf(RestaurantOf[v]).tax \in Nat
  <2>1. /\ Rates[RestaurantOf[v]] \in [service : Nat, tax : Nat]
        /\ DefaultRates \in [service : Nat, tax : Nat]
    BY OrderingAssumption
  <2>2. QED
    BY <2>1 DEF RatesOf
<1>4. service \in Int /\ (s >= 0 => service >= 0)
  <2>1. PICK rate \in Nat : rate = RatesOf(RestaurantOf[v]).service
    BY <1>3
  <2>2. service \in Rounded(s * rate, 10000)
    BY <1>0, <2>1
  <2>3. QED
    BY <1>0, <2>2, RoundedParts
<1>5. tip \in Int
  <2>1. PICK rate \in Nat : rate = visit[v].request.tip
    OBVIOUS
  <2>2. tip \in Rounded(s * rate, 100)
    BY <1>0, <2>1
  <2>3. QED
    BY <1>0, <2>2, RoundedParts
<1>6. tax \in Int /\ tax >= 0
  <2> DEFINE base == AtLeast0(s + b.fee + service - d)
  <2>1. base \in Int /\ base >= 0
    BY <1>0, <1>2, <1>4 DEF AtLeast0
  <2> HIDE DEF base
  <2>2. tax \in Rounded(base * RatesOf(RestaurantOf[v]).tax, 10000)
    BY <1>0 DEF base
  <2>3. QED
    BY <1>3, <2>1, <2>2, RoundedParts
<1> HIDE DEF d
<1>7. /\ s >= 0 => s + b.fee + service + tip + tax - d >= b.fee + tip
      /\ s + b.fee + service + tip + tax - d \in Int
  BY <1>0, <1>2, <1>4, <1>5, <1>6
<1>8. AddsUp(bill)
  BY <1>0, <1>1, <1>2, <1>7 DEF AddsUp, Total
<1>9. QED
  BY <1>8 DEF bill

\* The discount is that of a promo the database had, or none, and the bill adds up.
LEMMA PromoStep ==
    ASSUME OrderInv, NEW v \in Visit, LookupPromo(v)
    PROVE  Seen(v)'
<1> DEFINE b == visit[v].bill
           s == Sum(b.lines)
<1>1. /\ visit[v].stage = "promo"
      /\ \E read \in {promo, None} : \E service, tip, tax :
           Fits(v, read, service, tip, tax) /\ Charge(v, Sums(v, read, service, tip, tax))
  BY DEF LookupPromo, At, Fits
<1>2. CASE \E reason : Refuse(v, reason)
  BY <1>1, <1>2, RefuseStep
<1>3. ASSUME NEW read \in {promo, None}, NEW service, NEW tip, NEW tax,
             Fits(v, read, service, tip, tax),
             ~(Sums(v, read, service, tip, tax).total <= 0),
             ~(b.min > 0 /\ Sums(v, read, service, tip, tax).subtotal < b.min),
             Step(v, [stage |-> "save", bill |-> Billed(v, read, service, tip, tax)])
      PROVE  Seen(v)'
  <2> DEFINE sums == Sums(v, read, service, tip, tax)
             bill == Billed(v, read, service, tip, tax)
             change == [stage |-> "save", bill |-> bill]
  <2>1. DOMAIN change = {"stage", "bill"} /\ Step(v, change)
    BY <1>3
  <2>2. visit'[v].stage = "save" /\ visit'[v].bill = bill
    BY <1>1, <2>1, CallGoesOn
  <2>3. /\ {"lines", "min", "fee"} \subseteq DOMAIN b /\ LinesOffered(v) /\ FeeOffered(v)
        /\ DOMAIN b.lines = DOMAIN visit[v].request.cart
    BY <1>1 DEF OrderInv, Seen, At
  <2>4. /\ bill.lines = b.lines /\ bill.min = b.min
        /\ bill.fee = b.fee /\ bill.subtotal = s
        /\ bill.discount = Discount(read, s) /\ bill.total = sums.total
    BY <2>3 DEF With, Sums, Billed
  <2> HIDE DEF bill
  <2>5. LinesOffered(v)' /\ FeeOffered(v)'
    BY <1>1, <2>1, <2>2, <2>3, <2>4, CallGoesOn, LinesKept, FeeKept
  <2>6. DiscountOffered(v)'
    <3>1. Now \in Since(visit[v].called) /\ Now.promo = promo
      BY <1>1, <2>1, CallGoesOn, NowIsSeen DEF Now
    <3>2. Since(visit[v].called)' = Since(visit[v].called)
      BY <1>1, <2>1, CallGoesOn DEF Since
    <3>3. Discount(None, s) = 0
      BY DEF Discount
    <3>4. Discount(read, s) \in {Discount(h.promo, s) : h \in Since(visit[v].called)} \cup {0}
      BY <3>1, <3>3
    <3>5. QED
      BY <2>2, <2>4, <3>2, <3>4 DEF DiscountOffered
  <2>7. AddsUp(bill)
    <3>1. /\ Remembered /\ visit[v].called \in 1..Len(history)
          /\ DOMAIN visit[v].view \subseteq Item
          /\ visit[v].request \in Requests(visit[v].view)
      BY <1>1, <2>1, CallGoesOn
    <3>2. s \in Int /\ b.fee \in Nat /\ b.min \in Nat
      BY <2>3, <3>1, BillOfLines
    <3>3. visit[v].request.tip \in Nat
      <4>1. visit[v].request.tip \in 0..100
        BY ONLY <3>1, CartLines
      <4>2. QED
        BY <4>1
    <3>4. RestaurantOf[v] \in DOMAIN Rates
      BY OrderingAssumption
    <3>5. read \in Promos \cup {SeedPromo, None}
      BY <3>1 DEF Remembered, Now, Databases
    <3>6. QED
      BY <1>3, <2>3, <3>2, <3>3, <3>4, <3>5, SumsAddUp DEF bill
  <2>8. AddsUp(visit'[v].bill) /\ DOMAIN visit'[v].bill.lines = DOMAIN visit'[v].request.cart
    <3>1. visit'[v].request = visit[v].request
      BY <1>1, <2>1, CallGoesOn
    <3>2. QED
      BY <2>2, <2>3, <2>4, <2>7, <3>1
  <2>9. AddsUp(visit[v].bill)'
    BY <2>8 DEF AddsUp, Total, Sum
  <2>10. QED
    BY <1>1, <2>1, <2>2, <2>5, <2>6, <2>8, <2>9, CallGoesOn DEF Seen, At, Stages
<1>4. QED
  <2>1. PICK read \in {promo, None} : \E service, tip, tax :
            Fits(v, read, service, tip, tax) /\ Charge(v, Sums(v, read, service, tip, tax))
    BY <1>1
  <2>2. PICK service, tip, tax :
            Fits(v, read, service, tip, tax) /\ Charge(v, Sums(v, read, service, tip, tax))
    BY <2>1
  <2> DEFINE sums == Sums(v, read, service, tip, tax)
  <2>3. CASE sums.total <= 0
    BY <1>2, <2>2, <2>3 DEF Charge
  <2>4. CASE ~(sums.total <= 0) /\ b.min > 0 /\ sums.subtotal < b.min
    BY <1>2, <2>2, <2>4 DEF Charge
  <2>5. CASE ~(sums.total <= 0) /\ ~(b.min > 0 /\ sums.subtotal < b.min)
    <3>1. Step(v, [stage |-> "save", bill |-> Billed(v, read, service, tip, tax)])
      BY <2>2, <2>5 DEF Charge, Billed
    <3>2. QED
      BY <1>3, <2>2, <2>5, <3>1
  <2>6. QED
    BY <2>3, <2>4, <2>5

\* The order is what the bill says.
LEMMA SaveStep ==
    ASSUME OrderInv, NEW v \in Visit, SaveOrder(v)
    PROVE  Seen(v)'
<1> DEFINE change == [stage |-> "ordered"]
<1>1. visit[v].stage = "save" /\ Step(v, change) /\ DOMAIN change = {"stage"}
  BY DEF SaveOrder, At
<1>2. visit'[v].stage = "ordered" /\ visit'[v].bill = visit[v].bill
  BY <1>1, CallGoesOn
<1>3. /\ LinesOffered(v) /\ FeeOffered(v) /\ DiscountOffered(v) /\ AddsUp(visit[v].bill)
      /\ DOMAIN visit[v].bill.lines = DOMAIN visit[v].request.cart
  BY <1>1 DEF OrderInv, Seen
<1>4. LinesOffered(v)' /\ FeeOffered(v)' /\ DiscountOffered(v)'
  BY <1>1, <1>2, <1>3, CallGoesOn, LinesKept, FeeKept, DiscountKept
<1>5. AddsUp(visit[v].bill)' /\ DOMAIN visit'[v].bill.lines = DOMAIN visit'[v].request.cart
  BY <1>1, <1>2, <1>3, CallGoesOn DEF AddsUp, Total, Sum
<1>6. QED
  BY <1>1, <1>2, <1>4, <1>5, CallGoesOn DEF Seen, At, Stages


-----------------------------------------------------------------------------
(* The invariant is inductive                                               *)

LEMMA InitOrder == Init => OrderInv
<1> SUFFICES ASSUME Init PROVE OrderInv
  OBVIOUS
<1> USE OrderingAssumption
<1>1. /\ history = <<Now>> /\ category \in [Category -> {"active", "none"}]
      /\ items \in [Item -> {With(c, [rev |-> 0]) : c \in FirstContents} \cup {None}]
      /\ settings = [r \in Restaurants |-> [fee |-> 0, min |-> 0, closed |-> FALSE]]
      /\ promo = None
  BY DEF Init, Now
<1>2. {With(c, [rev |-> 0]) : c \in FirstContents} \subseteq Rows
  BY DEF Rows
<1>3. Now \in Databases
  <2>1. items \in [Item -> Rows \cup {None}]
    BY <1>1, <1>2
  <2>2. settings \in [Restaurants -> [fee : Nat, min : Nat, closed : BOOLEAN]]
    BY <1>1
  <2>3. category \in [Category -> {"active", "inactive", "none"}]
    BY <1>1
  <2>4. QED
    BY <1>1, <2>1, <2>2, <2>3 DEF Now, Databases
<1>4. Len(history) = 1 /\ history[1] = Now /\ history \in Seq(Databases)
  BY <1>1, <1>3
<1>5. Remembered
  BY <1>3, <1>4 DEF Init, Remembered
<1>6. ASSUME NEW i \in Item, items[i] # None
      PROVE  items[i].rev = 0
  <2>1. PICK c \in FirstContents : items[i] = With(c, [rev |-> 0])
    BY <1>1, <1>6
  <2>2. QED
    BY <2>1 DEF With
<1>7. Versioned
  BY <1>4, <1>6 DEF Versioned, Now
<1>8. ASSUME NEW v \in Visit
      PROVE  Seen(v)
  <2>1. visit[v] = [stage |-> "idle", since |-> 1, called |-> 1, shown |-> {}, view |-> <<>>,
                    request |-> None, rows |-> <<>>, bill |-> None, reason |-> "none"]
    BY <1>8 DEF Init
  <2>2. /\ visit[v].stage = "idle" /\ visit[v].since = 1 /\ visit[v].called = 1
        /\ DOMAIN visit[v] = Fields /\ visit[v].view = <<>>
    BY <2>1 DEF Fields
  <2>3. QED
    BY <1>4, <2>2 DEF Seen, At, Stages
<1>9. QED
  BY <1>5, <1>7, <1>8 DEF OrderInv

\* A customer's step is one of a visit and leaves the database alone.
LEMMA CustomerStep ==
    ASSUME OrderInv, NEW v \in Visit, Customer(v)
    PROVE  /\ Seen(v)' /\ UNCHANGED <<items, category, settings, promo, history>>
           /\ DOMAIN visit' = Visit /\ \A w \in Visit \ {v} : visit'[w] = visit[w]
<1>1. Seen(v)'
  <2>1. CASE DBError(v)
    BY <2>1, RefuseStep DEF DBError
  <2>2. QED
    BY <2>1, CategoriesStep, MenuStep, CheckoutStep, TryAgainStep, ItemsStep, RestaurantStep,
       PromoStep, SaveStep DEF Customer
<1>2. ASSUME NEW change, Step(v, change)
      PROVE  /\ UNCHANGED <<items, category, settings, promo, history>>
             /\ DOMAIN visit' = Visit /\ \A w \in Visit \ {v} : visit'[w] = visit[w]
  BY <1>2 DEF Step, OrderInv, Remembered
<1>3. ASSUME NEW reason, Refuse(v, reason)
      PROVE  /\ UNCHANGED <<items, category, settings, promo, history>>
             /\ DOMAIN visit' = Visit /\ \A w \in Visit \ {v} : visit'[w] = visit[w]
  BY <1>2, <1>3 DEF Refuse
<1>4. CASE ReadCategories(v) \/ ReadMenuItems(v) \/ ReadItems(v) \/ TryAgain(v) \/ SaveOrder(v)
  BY <1>1, <1>2, <1>4 DEF ReadCategories, ReadMenuItems, ReadItems, TryAgain, SaveOrder
<1>5. CASE Checkout(v)
  BY <1>1, <1>2, <1>5 DEF Checkout
<1>6. CASE ReadRestaurant(v)
  BY <1>1, <1>2, <1>3, <1>6 DEF ReadRestaurant
<1>7. CASE LookupPromo(v)
  BY <1>1, <1>2, <1>3, <1>7 DEF LookupPromo, Charge
<1>8. CASE DBError(v)
  BY <1>1, <1>3, <1>8 DEF DBError
<1>9. QED
  BY <1>4, <1>5, <1>6, <1>7, <1>8 DEF Customer

LEMMA OrderStep == OrderInv /\ [Next]_vars => OrderInv'
<1> SUFFICES ASSUME OrderInv, [Next]_vars PROVE OrderInv'
  OBVIOUS
<1>1. ASSUME NEW v \in Visit, Customer(v)
      PROVE  OrderInv'
  <2>1. /\ Seen(v)' /\ UNCHANGED <<items, category, settings, promo, history>>
        /\ DOMAIN visit' = Visit /\ \A w \in Visit \ {v} : visit'[w] = visit[w]
    BY <1>1, CustomerStep
  <2>2. Remembered' /\ Versioned'
    BY <2>1 DEF OrderInv, Remembered, Versioned, Now
  <2>3. \A w \in Visit \ {v} : Seen(w)'
    BY <2>1, SeenKept, CustomersKeep DEF OrderInv
  <2>4. QED
    BY <2>1, <2>2, <2>3 DEF OrderInv
<1>2. CASE Staff
  <2>1. Remembered' /\ Versioned' /\ Grown /\ UNCHANGED visit
    BY <1>2, StaffStep DEF OrderInv
  <2>2. \A v \in Visit : Seen(v)'
    BY <2>1, SeenKept DEF OrderInv
  <2>3. QED
    BY <2>1, <2>2 DEF OrderInv
<1>3. CASE UNCHANGED vars
  <2>1. UNCHANGED <<items, category, settings, promo, history, visit>>
    BY <1>3 DEF vars
  <2>2. Remembered' /\ Versioned'
    BY <2>1 DEF OrderInv, Remembered, Versioned, Now
  <2>3. \A v \in Visit : Seen(v)'
    BY <2>1, SeenKept, CustomersKeep DEF OrderInv
  <2>4. QED
    BY <2>2, <2>3 DEF OrderInv
<1>4. QED
  BY <1>1, <1>2, <1>3 DEF Next

LEMMA OrderInvHolds == Spec => []OrderInv
  BY InitOrder, OrderStep, PTL DEF Spec

\* The rows on a menu are views of rows that the database had.
LEMMA ShownRows ==
    ASSUME OrderInv, NEW v \in Visit, NEW i \in DOMAIN visit[v].view
    PROVE  /\ i \in Item
           /\ \E k \in 1..Len(history) :
                /\ history[k].items[i] # None /\ history[k].items[i] \in Rows
                /\ visit[v].view[i] = PublicView(history[k].items[i])
<1>1. Seen(v) /\ Remembered
  BY DEF OrderInv
<1>2. visit[v].stage \notin {"idle", "categories"}
  BY <1>1 DEF Seen
<1>3. ShowsMenu(v) /\ i \in Item
  BY <1>1, <1>2 DEF Seen
<1>4. Shows(v, i, visit[v].view[i], Since(visit[v].since))
  BY <1>3 DEF ShowsMenu
<1>5. PICK h \in Since(visit[v].since) :
          h.items[i] # None /\ PublicView(h.items[i]) = visit[v].view[i]
  BY <1>4 DEF Shows
<1>6. visit[v].since \in 1..Len(history) /\ Len(history) \in Nat
  BY <1>1 DEF Seen, Remembered
<1>7. PICK k \in 1..Len(history) : h = history[k]
  BY <1>5, <1>6 DEF Since
<1>8. history[k] \in Databases
  BY <1>1, <1>7 DEF Remembered
<1>9. history[k].items[i] \in Rows
  BY <1>3, <1>5, <1>7, <1>8 DEF Databases
<1>10. QED
  BY <1>3, <1>5, <1>7, <1>9

-----------------------------------------------------------------------------
(* The theorems                                                             *)

\* The menu, the settings and the promo stay well formed whatever staff write, and
\* the menus that customers hold are of writes there have been.
THEOREM OrderingTypeCorrect == Spec => []TypeOK
<1>1. ASSUME OrderInv PROVE TypeOK
  <2>1. /\ items \in [Item -> Rows \cup {None}]
        /\ category \in [Category -> {"active", "inactive", "none"}]
        /\ settings \in [Restaurants -> [fee : Nat, min : Nat, closed : BOOLEAN]]
        /\ promo \in Promos \cup {SeedPromo, None}
    BY <1>1 DEF OrderInv, Remembered, Now, Databases
  <2>2. Len(history) \in 1..MaxEdits + 1 /\ Last(history) = Now
    BY <1>1 DEF OrderInv, Remembered, Last
  <2>3. ASSUME NEW v \in Visit
        PROVE  /\ visit[v].stage \in Stages
               /\ \A i \in DOMAIN visit[v].view : visit[v].view[i].rev \in 0..MaxEdits
    <3>1. visit[v].stage \in Stages
      BY <1>1 DEF OrderInv, Seen
    <3>2. ASSUME NEW i \in DOMAIN visit[v].view
          PROVE  visit[v].view[i].rev \in 0..MaxEdits
      <4>1. PICK row \in Rows : visit[v].view[i] = PublicView(row)
        BY <1>1, ShownRows
      <4>2. QED
        BY <4>1, ViewOfRow, RowFields
    <3>3. QED
      BY <3>1, <3>2
  <2>4. QED
    BY <2>1, <2>2, <2>3 DEF TypeOK, Now
<1>2. QED
  BY <1>1, OrderInvHolds, PTL

\* A menu on the screen has what stayed in an active category between its two
\* reads, and shows rows and categories that were there in between (PublicMenu).
THEOREM MenuSoundHolds == Spec => []MenuSound
<1>1. OrderInv => MenuSound
  BY DEF OrderInv, Seen, MenuSound, At
<1>2. QED
  BY <1>1, OrderInvHolds, PTL

\* An order is made of an offer that was there during its call: rows available
\* together, the fee and minimum of an open restaurant, the discount of the promo
\* as it then was (ValidateAndBuildOrder), whatever staff change between the reads.
THEOREM OrderedAsOfferedHolds == Spec => []OrderedAsOffered
<1>1. OrderInv => OrderedAsOffered
  BY DEF OrderInv, Seen, OrderedAsOffered, Placed
<1>2. QED
  BY <1>1, OrderInvHolds, PTL

\* The parts of a bill add up to a total that is to be paid, whatever the prices,
\* the fees, the rates and the promo: the promo takes off no more than the items
\* cost and the minimum is met before it does (ValidateAndBuildOrder).
THEOREM BillAddsUpHolds == Spec => []BillAddsUp
<1>1. OrderInv => BillAddsUp
  BY DEF OrderInv, Seen, BillAddsUp, Placed
<1>2. QED
  BY <1>1, OrderInvHolds, PTL

\* A line with a size or an extra is of an item that was on the menu, as it was.
LEMMA LineOfMenu ==
    ASSUME NEW view, NEW request \in Requests(view), NEW k \in DOMAIN request.cart,
           request.cart[k].size # None \/ request.cart[k].extras # {}
    PROVE  \E i \in DOMAIN view : request.cart[k] \in LinesOf(i, view[i])
<1>1. PICK ask \in Asks, cart \in Carts(view) : request = With(ask, [cart |-> cart])
  BY DEF Requests
<1>2. request.cart = cart
  <2>1. With(ask, [cart |-> cart]).cart = cart
    BY DEF With
  <2>2. QED
    BY <1>1, <2>1
<1> DEFINE picks == UNION {LinesOf(i, view[i]) : i \in DOMAIN view}
<1>3. PICK line \in picks : cart = <<line>> \/ \E j \in Item : cart = <<line, Leftover(j)>>
  <2>1. cart \in {<<line>> : line \in picks}
                  \cup {<<line, Leftover(j)>> : line \in picks, j \in Item}
    BY DEF Carts
  <2>2. QED
    BY <2>1
<1>4. PICK i \in DOMAIN view : line \in LinesOf(i, view[i])
  OBVIOUS
<1>5. cart[k] = line \/ \E j \in Item : cart[k] = Leftover(j)
  BY <1>2, <1>3
<1>6. \A j \in Item : Leftover(j).size = None /\ Leftover(j).extras = {}
  BY DEF Leftover
<1>7. cart[k] = line
  BY <1>2, <1>5, <1>6
<1>8. QED
  BY <1>2, <1>4, <1>7

\* Such a line costs of a row what it costs of the row's public view.
LEMMA ViewPrices ==
    ASSUME NEW row \in Rows, NEW i, NEW line \in LinesOf(i, PublicView(row))
    PROVE  LineTotal(line, row) = LineTotal(line, PublicView(row))
<1> DEFINE shown == PublicView(row)
<1>1. /\ shown.base = row.base /\ shown.sizes = row.sizes
      /\ \A e \in DOMAIN shown.extras : shown.extras[e] = row.extras[e]
  BY ViewOfRow
<1> HIDE DEF shown
<1>2. line.extras \subseteq DOMAIN shown.extras
  BY DEF LinesOf, shown
<1>3. [e \in line.extras |-> row.extras[e].price] = [e \in line.extras |-> shown.extras[e].price]
  BY <1>1, <1>2
<1>4. UnitPrice(line, row) = UnitPrice(line, shown)
  BY <1>1, <1>3 DEF UnitPrice
<1>5. QED
  BY <1>4 DEF LineTotal, shown

\* A v2 line with a size or an extra is priced as the menu showed it: its ids are
\* of one write of the item (mapSizes, mapExtras), so a row that has them is the
\* row that was shown, however often staff wrote the item since.
THEOREM PriceAsShownHolds == Spec => []PriceAsShown
<1>1. ASSUME OrderInv PROVE PriceAsShown
  <2>1. SUFFICES ASSUME NEW v \in Placed, ~visit[v].request.legacy,
                        NEW k \in DOMAIN visit[v].request.cart,
                        \/ visit[v].request.cart[k].size # None
                        \/ visit[v].request.cart[k].extras # {}
                 PROVE  visit[v].bill.lines[k]
                          = LineTotal(visit[v].request.cart[k],
                                      visit[v].view[visit[v].request.cart[k].item])
    BY DEF PriceAsShown
  <2> DEFINE line == visit[v].request.cart[k]
             view == visit[v].view
  <2>2. /\ v \in Visit /\ Seen(v) /\ Remembered /\ Versioned
        /\ visit[v].stage \in {"save", "ordered"}
    BY <1>1 DEF OrderInv, Placed
  <2>3. visit[v].request \in Requests(view) /\ LinesOffered(v)
    BY <2>2 DEF Seen
  <2>4. PICK i \in DOMAIN view : line \in LinesOf(i, view[i])
    BY <2>1, <2>3, LineOfMenu
  <2>5. line.item = i /\ line.rev = view[i].rev
    BY <2>4 DEF LinesOf
  <2>6. PICK m \in 1..Len(history) :
            /\ history[m].items[i] # None /\ history[m].items[i] \in Rows
            /\ view[i] = PublicView(history[m].items[i])
    BY <1>1, <2>2, ShownRows
  <2>7. i \in Item
    BY <1>1, <2>2, ShownRows
  <2>8. PICK h \in Since(visit[v].called) : Offers(h, v, k)
    BY <2>3 DEF LinesOffered
  <2>9. visit[v].called \in 1..Len(history) /\ Len(history) \in Nat
    BY <2>2 DEF Seen, Remembered
  <2>10. PICK l \in 1..Len(history) : h = history[l]
    BY <2>8, <2>9 DEF Since
  <2> DEFINE row == history[l].items[i]
  <2>11. /\ row # None /\ HasSize(line, row, visit[v].request.legacy)
         /\ HasExtras(line, row, visit[v].request.legacy)
         /\ visit[v].bill.lines[k] = LineTotal(line, row)
    BY <2>5, <2>8, <2>10 DEF Offers
  <2>12. line.rev = row.rev
    BY <2>1, <2>11 DEF HasSize, HasExtras, Matches
  <2>13. history[m].items[i].rev = row.rev
    BY <2>5, <2>6, <2>12, ViewOfRow
  <2>14. row = history[m].items[i]
    BY <2>2, <2>6, <2>7, <2>11, <2>13 DEF Versioned
  <2>15. LineTotal(line, history[m].items[i]) = LineTotal(line, view[i])
    BY <2>4, <2>6, ViewPrices
  <2>16. QED
    BY <2>5, <2>11, <2>14, <2>15
<1>2. QED
  BY <1>1, OrderInvHolds, PTL
=============================================================================
