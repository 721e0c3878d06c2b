---------------------------- MODULE MCGroupOrder ----------------------------
(* Two groups at most that may draw the same code, and a guest.             *)
EXTENDS GroupOrder, TLC
CONSTANTS k1, k2, k3, k4, ann, bob
CalledBy == (k1 :> ann) @@ (k2 :> bob) @@ (k3 :> ann) @@ (k4 :> ann)
Same == Permutations({k1, k3, k4})
=============================================================================
