----------------------------- MODULE MCOrdering -----------------------------
(* One restaurant's burger and another's soup, a size and an extra.         *)
EXTENDS Ordering
CONSTANTS v1, burger, soup, large, nuts, grill, bar, east, west

OrdersFrom == v1 :> east
ItemHome == (burger :> east) @@ (soup :> west)
CategoryOwner == (grill :> east) @@ (bar :> east)

Nuts(available) == nuts :> [price |-> 125, available |-> available]
Burger ==
    [category |-> grill, available |-> TRUE, base |-> 1000,
     sizes |-> (large :> 333), extras |-> Nuts(TRUE)]
Writes ==
    {Burger,
     [category |-> grill, available |-> TRUE, base |-> 850,
      sizes |-> (large :> 250), extras |-> Nuts(FALSE)],
     [category |-> bar, available |-> FALSE, base |-> 1000,
      sizes |-> <<>>, extras |-> Nuts(TRUE)]}
Written0 == {Burger}
Settings == {[fee |-> 299, min |-> 1750], [min |-> 0, closed |-> TRUE]}

Ask(legacy, delivery, tip, code) ==
    [legacy |-> legacy, delivery |-> delivery, tip |-> tip, code |-> code]
Wishes == {Ask(FALSE, TRUE, 15, TRUE), Ask(TRUE, FALSE, 0, TRUE), Ask(FALSE, FALSE, 0, FALSE)}

Bps == (east :> [service |-> 250, tax |-> 0]) @@ (west :> [service |-> 0, tax |-> 0])
EnvBps == [service |-> 0, tax |-> 825]

Promo(percent, amount, min, expired, active) ==
    [percent |-> percent, amount |-> amount, min |-> min, expired |-> expired, active |-> active]
Welcome10 == Promo(10, 0, 0, FALSE, TRUE)
OtherPromos == {Promo(0, 2500, 1800, FALSE, TRUE), Promo(10, 0, 0, TRUE, TRUE)}
=============================================================================
