---------------------------- MODULE MCReputation ----------------------------
(* Two orders of a restaurant, one of them finished; a customer who submits *)
(* a review twice.                                                          *)
EXTENDS Reputation, TLC
CONSTANTS o1, o2, k1, k2, k3, east, ann, bob

PlacedAt == (o1 :> east) @@ (o2 :> east)
PlacedBy == (o1 :> ann) @@ (o2 :> bob)
PostedBy == (k1 :> ann) @@ (k2 :> ann) @@ (k3 :> bob)
Earlier == (o1 :> "completed") @@ (o2 :> None)
About == (k1 :> o1) @@ (k2 :> o1) @@ (k3 :> o2)
Stars == (k1 :> {2}) @@ (k2 :> {2}) @@ (k3 :> {1, 5})
Times == {400}
Twins == Permutations({k1, k2})
=============================================================================
