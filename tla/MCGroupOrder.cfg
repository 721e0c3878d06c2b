CONSTANTS
    k1 = k1
    k2 = k2
    k3 = k3
    k4 = k4
    ann = ann
    bob = bob
    None = None
    User = {ann, bob}
    Code = {ABCD, EFGH}
    Call = {k1, k2, k3, k4}
    CallerOf <- CalledBy
    LockMinutes = {0, 1}
    MaxTries = 2
    MaxTime = 3
SPECIFICATION GroupSpec
SYMMETRY Same
INVARIANT JoinedWhileOpen
CHECK_DEADLOCK FALSE
