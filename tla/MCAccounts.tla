----------------------------- MODULE MCAccounts -----------------------------
(* A person who signs up, logs in and comes from one Google account under   *)
(* two e-mails, and what two tokens save.                                   *)
EXTENDS Accounts, TLC
CONSTANTS su, g1, g2, lo, c1, c2, ad, rm, up, e1, e2, s1

Kinds == (su :> "signup") @@ (g1 :> "google") @@ (g2 :> "google")
         @@ (c1 :> "setup") @@ (c2 :> "setup") @@ (lo :> "login")
         @@ (ad :> "address") @@ (rm :> "remove") @@ (up :> "profile")
Mails == [k \in DOMAIN Kinds |-> IF k = g2 THEN e2 ELSE e1]
Subs == [k \in DOMAIN Kinds |-> s1]
Tokens == [k \in DOMAIN Kinds |-> IF k \in {c1, c2, up} THEN su ELSE g1]
TheAddress == [k \in DOMAIN Kinds |-> ad]
=============================================================================
