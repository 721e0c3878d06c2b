----------------------------- MODULE MCBilling -----------------------------
(* A restaurant with two setup checkouts and a subscription, and another one *)
(* with a setup checkout and a visit to the portal.                          *)
EXTENDS Billing, TLC
CONSTANTS x1, x2, s1, s2, b1, p1, t1

Tenants == (s1 :> x1) @@ (s2 :> x1) @@ (b1 :> x1) @@ (p1 :> x2) @@ (t1 :> x2)
Kinds == (s1 :> "setup") @@ (s2 :> "setup") @@ (b1 :> "subscription")
         @@ (p1 :> "portal") @@ (t1 :> "setup")
=============================================================================
