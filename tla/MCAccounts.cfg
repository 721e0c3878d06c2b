CONSTANTS
    su = su
    g1 = g1
    g2 = g2
    lo = lo
    c1 = c1
    c2 = c2
    ad = ad
    rm = rm
    up = up
    e1 = e1
    e2 = e2
    s1 = s1
    None = None
    Call = {su, g1, g2, lo, c1, c2, ad, rm, up}
    KindOf <- Kinds
    EmailOf <- Mails
    SubOf <- Subs
    TokenOf <- Tokens
    RemovedBy <- TheAddress
    MaxDBErrors = 1
    MaxCrashes = 1
SPECIFICATION FairSpec
INVARIANTS
    TypeOK
    OneAccount
    SignInHasProfile
    ProfileKeeps
PROPERTY
    SignupSettles
CHECK_DEADLOCK FALSE
