--------------------------- MODULE BillingPromise ---------------------------
(***************************************************************************)
(* What billing promises a restaurant, however its requests and Stripe's   *)
(* events overlap: the setup fee and the status that its billing page      *)
(* shows.                                                                  *)
(*                                                                         *)
(*   - a setup fee is noted only for who paid it, and noted for good;      *)
(*   - only who has it noted gets a subscription;                          *)
(*   - a status is shown only to who subscribed, "canceled" only once a    *)
(*     subscription has ended, and "none" never again.                     *)
(***************************************************************************)
CONSTANT Restaurant
VARIABLES paid, noted, subscribed, ended, shown

promiseVars == <<paid, noted, subscribed, ended, shown>>

PromiseInit ==
    /\ paid = {} /\ noted = {} /\ subscribed = {} /\ ended = {}
    /\ shown = [x \in Restaurant |-> "none"]

PayFee(x) ==
    /\ paid' = paid \cup {x}
    /\ UNCHANGED <<noted, subscribed, ended, shown>>

NoteFee(x) ==
    /\ x \in paid
    /\ noted' = noted \cup {x}
    /\ UNCHANGED <<paid, subscribed, ended, shown>>

Subscribe(x) ==
    /\ x \in noted
    /\ subscribed' = subscribed \cup {x}
    /\ UNCHANGED <<paid, noted, ended, shown>>

End(x) ==
    /\ x \in subscribed
    /\ ended' = ended \cup {x}
    /\ UNCHANGED <<paid, noted, subscribed, shown>>

Show(x, status) ==
    /\ \/ status \in {"active", "past_due"} /\ x \in subscribed
       \/ status = "canceled" /\ x \in ended
    /\ shown' = [shown EXCEPT ![x] = status]
    /\ UNCHANGED <<paid, noted, subscribed, ended>>

PromiseNext ==
    \E x \in Restaurant :
        \/ PayFee(x) \/ NoteFee(x) \/ Subscribe(x) \/ End(x)
        \/ \E status \in {"active", "past_due", "canceled"} : Show(x, status)

PromiseSpec == PromiseInit /\ [][PromiseNext]_promiseVars
=============================================================================
