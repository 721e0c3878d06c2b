-------------------------------- MODULE Calls --------------------------------
(* Handlers of requests: what models of several parts of the API share.     *)

CONSTANTS
    User,
    Call,       \* each is made once
    None

VARIABLE calls  \* how far each has come

At(k, stage) == calls[k].stage = stage
=============================================================================
