--------------------------- MODULE MCAdminAccess ---------------------------
(* An owner and two users: both claim one invite, one also the legacy code. *)
EXTENDS AdminAccess, TLC
CONSTANTS u1, u2, x1, i1, c1, c2, c3

ForTheRestaurant == i1 :> x1
AsStaff == i1 :> "staff"
TwoUsers == (c1 :> u1) @@ (c2 :> u2) @@ (c3 :> u2)
WithLegacy == (c1 :> i1) @@ (c2 :> i1) @@ (c3 :> LegacyCode)
=============================================================================
