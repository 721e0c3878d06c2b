------------------------------ MODULE Ordering ------------------------------
(***************************************************************************)
(* From the menu to the bill: what a customer is shown, what staff change  *)
(* meanwhile, and what the order says and costs.                           *)
(*                                                                         *)
(* The menu is two reads (categories, items) and checkout three more       *)
(* (items, restaurant, promo) before the insert; no transaction holds them *)
(* together, so an edit can fall between any two.  The cart carries ids    *)
(* and names, never prices: sizes and extras have ids of the item's last   *)
(* write, since every write of an item draws new ones.                     *)
(*                                                                         *)
(* Money is in whole cents.  What a float leaves open, the side an exact   *)
(* half cent is rounded to, is a choice.  Names of sizes and extras differ *)
(* within an item, and the id of one is <<rev, name>>.  What happens to an *)
(* order after its insert is OrderPayment's.                               *)
(***************************************************************************)
EXTENDS Integers, FiniteSets, SequencesExt, Records

CONSTANTS
    Visit,              \* customers, each with one menu and one cart
    RestaurantOf,       \* the restaurant a visit orders from
    Item, Home,         \* menu items and the restaurant of each
    Category, Owner,    \* categories and the restaurant of each
    Contents,           \* what staff may write into an item
    FirstContents,      \* ... and what they may have written before
    Fees,               \* what staff may write into settings: records of some fields
    Rates,              \* [restaurant -> [service, tax]] in basis points, 0 = unset
    DefaultRates,       \* DEFAULT_SERVICE_FEE_BPS and DEFAULT_TAX_BPS
    Promos, SeedPromo,  \* rows operators may give the promo, and the one seeded at boot
    Asks, Quantities,   \* what a request may ask for, and how many of an item
    MaxEdits,           \* bound on changes by staff, operators and boots
    None                \* no row, no size, no request, no order

ASSUME OrderingAssumption ==
    /\ DOMAIN RestaurantOf = Visit /\ DOMAIN Home = Item /\ DOMAIN Owner = Category
    /\ \A c \in Contents :
         /\ DOMAIN c = {"category", "available", "base", "sizes", "extras"}
         /\ c.base \in Nat \ {0} /\ \A z \in DOMAIN c.sizes : c.sizes[z] \in Int
         /\ IsFiniteSet(DOMAIN c.extras) /\ \A e \in DOMAIN c.extras : c.extras[e].price \in Nat
    /\ \A u \in Fees :
         /\ DOMAIN u \subseteq {"fee", "min", "closed"}
         /\ "fee" \in DOMAIN u => u.fee \in Nat
         /\ "min" \in DOMAIN u => u.min \in Nat
         /\ "closed" \in DOMAIN u => u.closed \in BOOLEAN
    /\ \A v \in Visit : RestaurantOf[v] \in DOMAIN Rates
    /\ {Rates[r] : r \in DOMAIN Rates} \cup {DefaultRates} \subseteq [service : Nat, tax : Nat]
    /\ Promos \cup {SeedPromo}
         \subseteq [percent : Int, amount : Int, min : Int, expired : BOOLEAN, active : BOOLEAN]
    /\ FirstContents \subseteq Contents /\ Quantities \subseteq Int /\ MaxEdits \in Nat
    /\ Asks \subseteq [legacy : BOOLEAN, delivery : BOOLEAN, tip : 0..100, code : BOOLEAN]

VARIABLES
    items,      \* collection menu_items: [Item -> row or None]
    category,   \* collection categories
    settings,   \* the fields of restaurants that checkout reads
    promo,      \* the row of one promo code, or None
    visit,      \* how far each customer has come
    history     \* the database after each change: no part of the program

vars == <<items, category, settings, promo, visit, history>>

Restaurants == {Home[i] : i \in Item}
Rows == {With(c, [rev |-> n]) : c \in Contents, n \in 0..MaxEdits}
Stages == {"idle", "categories", "browsing", "items", "restaurant", "promo", "save",
           "ordered", "refused"}

TypeOK ==
    /\ items \in [Item -> Rows \cup {None}]
    /\ category \in [Category -> {"active", "inactive", "none"}]
    /\ settings \in [Restaurants -> [fee : Nat, min : Nat, closed : BOOLEAN]]
    /\ promo \in Promos \cup {SeedPromo, None}
    /\ \A v \in Visit :
         /\ visit[v].stage \in Stages
         /\ \A i \in DOMAIN visit[v].view : visit[v].view[i].rev \in 0..MaxEdits
    /\ Len(history) \in 1..MaxEdits + 1
    /\ Last(history) = [items |-> items, category |-> category,
                        settings |-> settings, promo |-> promo]

Init ==
    /\ items \in [Item -> {With(c, [rev |-> 0]) : c \in FirstContents} \cup {None}]
    /\ category \in [Category -> {"active", "none"}]
    /\ settings = [r \in Restaurants |-> [fee |-> 0, min |-> 0, closed |-> FALSE]]
    /\ promo = None
    /\ visit = [v \in Visit |->
         [stage |-> "idle", since |-> 1, called |-> 1, shown |-> {}, view |-> <<>>,
          request |-> None, rows |-> <<>>, bill |-> None, reason |-> "none"]]
    /\ history = <<[items |-> items, category |-> category,
                    settings |-> settings, promo |-> promo]>>

-----------------------------------------------------------------------------
(* Staff, operators and boots                                               *)

Changed ==
    /\ Len(history) <= MaxEdits
    /\ history' = Append(history, [items |-> items', category |-> category',
                                   settings |-> settings', promo |-> promo'])
    /\ UNCHANGED visit

\* mapSizes and mapExtras draw an id for every size and extra of the request.
Written(c) == With(c, [rev |-> Len(history)])

EditItem(i, row) ==
    /\ items' = [items EXCEPT ![i] = row]
    /\ UNCHANGED <<category, settings, promo>>
    /\ Changed

\* An id is drawn once: what was deleted does not come back.
CreateItem(i) ==
    /\ \A k \in DOMAIN history : history[k].items[i] = None
    /\ \E c \in Contents : EditItem(i, Written(c))
UpdateItem(i) == items[i] # None /\ \E c \in Contents : EditItem(i, Written(c))
DeleteItem(i) == items[i] # None /\ EditItem(i, None)

EditCategory(c, state) ==
    /\ category' = [category EXCEPT ![c] = state]
    /\ UNCHANGED <<items, settings, promo>>
    /\ Changed

CreateCategory(c) ==
    /\ \A k \in DOMAIN history : history[k].category[c] = "none"
    /\ \E state \in {"active", "inactive"} : EditCategory(c, state)
UpdateCategory(c) ==
    /\ category[c] # "none"
    /\ \E state \in {"active", "inactive"} \ {category[c]} : EditCategory(c, state)
\* Its items stay, and so does their category_id.
DeleteCategory(c) == category[c] # "none" /\ EditCategory(c, "none")

EditSettings(r, update) ==
    /\ settings' = [settings EXCEPT ![r] = With(@, update)]
    /\ UNCHANGED <<items, category, promo>>
    /\ Changed

UpdateSettings(r) == \E update \in Fees : EditSettings(r, update)
ToggleManualClosed(r) ==
    \E closed \in BOOLEAN : settings[r].closed # closed /\ EditSettings(r, [closed |-> closed])

EditPromo(row) ==
    /\ promo # row
    /\ promo' = row
    /\ UNCHANGED <<items, category, settings>>
    /\ Changed

\* Mutant: the percentage of the environment is not checked.
SeedUnchecked == EditPromo([SeedPromo EXCEPT !.percent = @ + 100])

\* A boot of any instance writes the row again, whatever it says by now.
SeedFromEnv == EditPromo(SeedPromo)
\* No endpoint writes promos: an operator does, in the database.
OfferPromo == \E row \in Promos : EditPromo(row)

-----------------------------------------------------------------------------
(* The menu                                                                 *)

At(v, stage) == visit[v].stage = stage
Step(v, change) ==
    /\ visit' = [visit EXCEPT ![v] = With(@, change)]
    /\ UNCHANGED <<items, category, settings, promo, history>>
Refuse(v, reason) ==
    Step(v, [stage |-> "refused", reason |-> reason, rows |-> <<>>, bill |-> None])

\* Mutant: categories that are not active, too.
ListAll(r) == {c \in Category : Owner[c] = r /\ category[c] # "none"}

ListActive(r) == {c \in Category : Owner[c] = r /\ category[c] = "active"}
OfRestaurant(r) == {i \in Item : Home[i] = r /\ items[i] # None}

ReadCategories(v) ==
    /\ At(v, "idle")
    /\ Step(v, [stage |-> "categories", shown |-> ListActive(RestaurantOf[v]),
                since |-> Len(history)])

\* An extra that is not available is left out; an item that is not, is shown.
PublicView(row) ==
    [row EXCEPT !.extras = [e \in {x \in DOMAIN @ : @[x].available} |-> @[e]]]

ReadMenuItems(v) ==
    /\ At(v, "categories")
    /\ LET listed == {i \in OfRestaurant(RestaurantOf[v]) :
                        items[i].category \in visit[v].shown}
       IN Step(v, [stage |-> "browsing", view |-> [i \in listed |-> PublicView(items[i])]])

-----------------------------------------------------------------------------
(* The cart and the call of checkout                                        *)

\* What a customer may choose of the item shown, at that revision.
LinesOf(i, row) ==
    [item : {i}, rev : {row.rev}, size : DOMAIN row.sizes \cup {None},
     extras : SUBSET DOMAIN row.extras, quantity : Quantities]
\* A line left in the cart by an earlier visit, of any restaurant, without a quantity.
Leftover(i) == [item |-> i, rev |-> 0, size |-> None, extras |-> {}, quantity |-> 0]
Carts(view) ==
    LET picks == UNION {LinesOf(i, view[i]) : i \in DOMAIN view}
    IN {<<line>> : line \in picks} \cup {<<line, Leftover(i)>> : line \in picks, i \in Item}

\* A legacy request names sizes and extras; a v2 request has their ids.
Requests(view) == {With(ask, [cart |-> cart]) : ask \in Asks, cart \in Carts(view)}

Checkout(v) ==
    /\ At(v, "browsing")
    /\ \E request \in Requests(visit[v].view) :
         Step(v, [stage |-> "items", request |-> request, called |-> Len(history)])

\* The customer goes back to the menu that is still on the screen.
TryAgain(v) ==
    /\ At(v, "refused")
    /\ Step(v, [stage |-> "browsing", request |-> None, reason |-> "none"])

Ordered(v) == {visit[v].request.cart[k].item : k \in DOMAIN visit[v].request.cart}

\* Mutant: the rows of the menu the client holds.
ShownItems(v) ==
    /\ At(v, "items")
    /\ LET found == Ordered(v) \cap DOMAIN visit[v].view
       IN Step(v, [stage |-> "restaurant", rows |-> [i \in found |-> visit[v].view[i]]])

ReadItems(v) ==
    /\ At(v, "items")
    /\ LET found == Ordered(v) \cap OfRestaurant(RestaurantOf[v])
       IN Step(v, [stage |-> "restaurant", rows |-> [i \in found |-> items[i]]])

\* Mutant: sizes and extras keep their ids when an item is written.
KeptIds(line, row, legacy) == TRUE

\* An id belongs to one write of the item, a name to any.
Matches(line, row, legacy) == legacy \/ line.rev = row.rev
HasSize(line, row, legacy) ==
    line.size = None \/ (line.size \in DOMAIN row.sizes /\ Matches(line, row, legacy))
HasExtras(line, row, legacy) ==
    \A e \in line.extras :
        e \in DOMAIN row.extras /\ row.extras[e].available /\ Matches(line, row, legacy)

LineError(line, rows, legacy) ==
    IF line.item \notin DOMAIN rows THEN "gone"
    ELSE IF ~rows[line.item].available THEN "unavailable"
    ELSE IF ~HasSize(line, rows[line.item], legacy) THEN "size"
    ELSE IF ~HasExtras(line, rows[line.item], legacy) THEN "extra" ELSE "none"

UnitPrice(line, row) ==
    row.base + (IF line.size = None THEN 0 ELSE row.sizes[line.size])
             + SumFunction([e \in line.extras |-> row.extras[e].price])
Quantity(line) == IF line.quantity < 1 THEN 1 ELSE line.quantity
LineTotal(line, row) == UnitPrice(line, row) * Quantity(line)

Totals(cart, rows) == [k \in DOMAIN cart |-> LineTotal(cart[k], rows[cart[k].item])]
Sum(totals) == SumFunction(totals)

\* The error is that of the first line that has one; the restaurant's is first.
ReadRestaurant(v) ==
    /\ At(v, "restaurant")
    /\ LET r == settings[RestaurantOf[v]]
           request == visit[v].request
           cart == request.cart
           error(k) == LineError(cart[k], visit[v].rows, request.legacy)
           faulty == {k \in DOMAIN cart : error(k) # "none"}
       IN IF r.closed THEN Refuse(v, "closed")
          ELSE IF faulty # {} THEN Refuse(v, error(Min(faulty)))
          ELSE Step(v, [stage |-> "promo", rows |-> <<>>,
                        bill |-> [lines |-> Totals(cart, visit[v].rows), min |-> r.min,
                                  fee |-> IF request.delivery THEN r.fee ELSE 0]])

-----------------------------------------------------------------------------
(* The bill                                                                 *)

\* round2 of n/d cents: at a half, float decides.
Rounded(n, d) == {k \in {n \div d, n \div d + 1} : -d <= 2 * (k * d - n) /\ 2 * (k * d - n) <= d}

\* Mutant: an amount larger than the subtotal is not cut to it.
Uncapped(row, subtotal) ==
    IF row = None \/ ~row.active \/ row.expired \/ (row.min > 0 /\ subtotal < row.min) THEN 0
    ELSE IF row.amount > 0 THEN row.amount ELSE (subtotal * row.percent) \div 100

\* LookupDiscountCents; a percentage is cut to whole cents.
Discount(row, subtotal) ==
    IF row = None \/ ~row.active \/ row.expired \/ (row.min > 0 /\ subtotal < row.min) THEN 0
    ELSE IF row.amount > 0 THEN Min({row.amount, subtotal})
    ELSE IF row.percent > 0 THEN Min({(subtotal * row.percent) \div 100, subtotal}) ELSE 0

RatesOf(r) == [k \in {"service", "tax"} |-> IF Rates[r][k] = 0 THEN DefaultRates[k] ELSE Rates[r][k]]

AtLeast0(n) == IF n < 0 THEN 0 ELSE n

\* Nothing to pay, or too little ordered.
Charge(v, sums) ==
    LET b == visit[v].bill
    IN IF sums.total <= 0 THEN Refuse(v, "zero")
       ELSE IF b.min > 0 /\ sums.subtotal < b.min THEN Refuse(v, "minimum")
       ELSE Step(v, [stage |-> "save", bill |-> With(b, sums)])

Sums(v, read, service, tip, tax) ==
    LET b == visit[v].bill
        subtotal == Sum(b.lines)
        discount == Discount(read, subtotal)
    IN [subtotal |-> subtotal, service |-> service, tip |-> tip, tax |-> tax,
        discount |-> discount, promo |-> read,
        total |-> subtotal + b.fee + service + tip + tax - discount]

\* A promo whose read fails gives no discount, as an unknown code.
LookupPromo(v) ==
    /\ At(v, "promo")
    /\ LET subtotal == Sum(visit[v].bill.lines)
           rates == RatesOf(RestaurantOf[v])
           base(read, service) ==
               AtLeast0(subtotal + visit[v].bill.fee + service - Discount(read, subtotal))
       IN \E read \in {promo, None}, service \in Rounded(subtotal * rates.service, 10000),
             tip \in Rounded(subtotal * visit[v].request.tip, 100) :
          \E tax \in Rounded(base(read, service) * rates.tax, 10000) :
             /\ visit[v].request.code \/ read = None
             /\ Charge(v, Sums(v, read, service, tip, tax))

SaveOrder(v) == At(v, "save") /\ Step(v, [stage |-> "ordered"])

\* A query that fails ends the call with a 500; so does an insert that does.
DBError(v) ==
    /\ visit[v].stage \in {"items", "restaurant", "save"}
    /\ Refuse(v, "error")

Customer(v) ==
    \/ ReadCategories(v) \/ ReadMenuItems(v) \/ Checkout(v) \/ TryAgain(v)
    \/ ReadItems(v) \/ ReadRestaurant(v) \/ LookupPromo(v) \/ SaveOrder(v) \/ DBError(v)

Staff ==
    \/ \E i \in Item : CreateItem(i) \/ UpdateItem(i) \/ DeleteItem(i)
    \/ \E c \in Category : CreateCategory(c) \/ UpdateCategory(c) \/ DeleteCategory(c)
    \/ \E r \in Restaurants : UpdateSettings(r) \/ ToggleManualClosed(r)
    \/ SeedFromEnv \/ OfferPromo

Next == (\E v \in Visit : Customer(v)) \/ Staff

Spec == Init /\ [][Next]_vars

-----------------------------------------------------------------------------
(* Properties                                                               *)

Since(n) == {history[k] : k \in n..Len(history)}
Placed == {v \in Visit : visit[v].stage \in {"save", "ordered"}}

Offers(h, v, k) ==
    LET line == visit[v].request.cart[k]
        row == h.items[line.item]
        legacy == visit[v].request.legacy
    IN /\ Home[line.item] = RestaurantOf[v] /\ row # None
       /\ row.available
       /\ HasSize(line, row, legacy) /\ HasExtras(line, row, legacy)
       /\ visit[v].bill.lines[k] = LineTotal(line, row)
LinesOffered(v) ==
    \E h \in Since(visit[v].called) : \A k \in DOMAIN visit[v].request.cart : Offers(h, v, k)
FeeOffered(v) ==
    \E h \in Since(visit[v].called) :
        LET r == h.settings[RestaurantOf[v]]
        IN /\ ~r.closed /\ visit[v].bill.min = r.min
           /\ visit[v].bill.fee = IF visit[v].request.delivery THEN r.fee ELSE 0
DiscountOffered(v) ==
    LET bill == visit[v].bill
    IN bill.discount \in {Discount(h.promo, bill.subtotal) : h \in Since(visit[v].called)} \cup {0}

\* The offer an order is made of was all there at some moment of the call: its
\* lines at the prices of rows that were available at the restaurant together,
\* the fee and the minimum of a restaurant that was taking orders, and the
\* discount of the promo as it then was (or none, when its read failed).
\* service.go reads the three one after another while staff edit them.
OrderedAsOffered == \A v \in Placed : LinesOffered(v) /\ FeeOffered(v) /\ DiscountOffered(v)

\* A v2 line with a size or an extra costs what the menu showed, however often
\* the item was written since; a plain line or a legacy one may not.  Only the
\* ids drawn anew by every write (mapSizes, mapExtras) make it so.
PriceAsShown ==
    \A v \in Placed :
        ~visit[v].request.legacy =>
            \A k \in DOMAIN visit[v].request.cart :
                LET line == visit[v].request.cart[k]
                IN line.size # None \/ line.extras # {} =>
                       visit[v].bill.lines[k] = LineTotal(line, visit[v].view[line.item])

\* The item stayed in one active category of its restaurant.
Stayed(i, past) ==
    \E c \in Category : Owner[c] = Home[i] /\ \A h \in past :
        h.items[i] # None /\ h.items[i].category = c /\ h.category[c] = "active"
Shows(v, i, row, past) ==
    /\ Home[i] = RestaurantOf[v]
    /\ \E h \in past : h.items[i] # None /\ PublicView(h.items[i]) = row
    /\ \E h \in past : h.category[row.category] = "active"
ShowsMenu(v) ==
    LET past == Since(visit[v].since)
        view == visit[v].view
    IN /\ \A i \in Item : Home[i] = RestaurantOf[v] /\ Stayed(i, past) => i \in DOMAIN view
       /\ \A i \in DOMAIN view : Shows(v, i, view[i], past)

\* The menu is read in two queries.  An item that stayed in one active category
\* of the restaurant meanwhile is on it; what is on it was the item's row, and
\* its category was active, at moments in between (PublicMenu).
MenuSound == \A v \in Visit : At(v, "browsing") => ShowsMenu(v)

Total(bill) == bill.subtotal + bill.fee + bill.service + bill.tip + bill.tax - bill.discount
AddsUp(bill) ==
    /\ bill.subtotal = Sum(bill.lines)
    /\ bill.total = Total(bill) /\ bill.total > 0
    /\ bill.subtotal >= 0 =>
         bill.discount \in 0..bill.subtotal /\ bill.total >= bill.fee + bill.tip
    /\ bill.subtotal >= bill.min \/ bill.min = 0

\* The parts of a bill add up to a total that is to be paid; the promo takes off
\* no more than the items cost, and the minimum is met before it does.  Only sizes
\* can make items cost less than nothing: nobody checks their price_modifier.
BillAddsUp == \A v \in Placed : AddsUp(visit[v].bill)
=============================================================================
