--------------------------- MODULE PaymentPromise ---------------------------
(***************************************************************************)
(* What checkout promises about money, whatever the handlers, webhooks,    *)
(* crashes and retries underneath do.  An order is seen as absent or with  *)
(* a payment status; Stripe's side is the set of charged orders and the    *)
(* set of orders with a declined attempt.                                  *)
(*                                                                         *)
(*   - an order is charged at most once, and a charge is never forgotten;  *)
(*   - a charged order is not attempted again;                             *)
(*   - "paid" is written only after a charge, "failed" only after a        *)
(*     declined attempt, and nothing turns back into "pending";            *)
(*   - an order that money touched and that was removed never comes back.  *)
(***************************************************************************)
CONSTANT Order
VARIABLES shown, charged, declined

promiseVars == <<shown, charged, declined>>

PromiseInit ==
    /\ shown = [o \in Order |-> "absent"]
    /\ charged = {}
    /\ declined = {}

Show(o, status) == shown' = [shown EXCEPT ![o] = status]

Place(o) ==
    /\ shown[o] = "absent" /\ o \notin charged \cup declined
    /\ Show(o, "pending")
    /\ UNCHANGED <<charged, declined>>

Charge(o) ==
    /\ o \notin charged
    /\ charged' = charged \cup {o}
    /\ UNCHANGED <<shown, declined>>

Decline(o) ==
    /\ o \notin charged
    /\ declined' = declined \cup {o}
    /\ UNCHANGED <<shown, charged>>

Settle(o) ==
    /\ shown[o] # "absent" /\ o \in charged
    /\ Show(o, "paid")
    /\ UNCHANGED <<charged, declined>>

MarkFailed(o) ==
    /\ shown[o] # "absent" /\ o \in declined
    /\ Show(o, "failed")
    /\ UNCHANGED <<charged, declined>>

Remove(o) ==
    /\ shown[o] # "absent"
    /\ Show(o, "absent")
    /\ UNCHANGED <<charged, declined>>

PromiseNext ==
    \E o \in Order : \/ Place(o) \/ Charge(o) \/ Decline(o)
                     \/ Settle(o) \/ MarkFailed(o) \/ Remove(o)

PromiseSpec == PromiseInit /\ [][PromiseNext]_promiseVars
=============================================================================
