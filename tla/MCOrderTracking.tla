-------------------------- MODULE MCOrderTracking --------------------------
(* An order of a restaurant, two calls, an admin and a customer.            *)
EXTENDS OrderTracking, TLC
CONSTANTS o1, x1, n1, a1, c1, k1, k2

InOne == o1 :> x1
ItsNumber == o1 :> n1
AdminAndCustomer == (a1 :> Admins(x1)) @@ (c1 :> Public(n1))
=============================================================================
