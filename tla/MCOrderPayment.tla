--------------------------- MODULE MCOrderPayment ---------------------------
(* Two requests to one restaurant, or to two restaurants.                   *)
EXTENDS OrderPayment, TLC
CONSTANTS r1, r2, x1, x2

SameRestaurant == (r1 :> x1) @@ (r2 :> x1)
TwoRestaurants == (r1 :> x1) @@ (r2 :> x2)
=============================================================================
