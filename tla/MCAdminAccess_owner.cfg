CONSTANTS
    u1 = u1
    u2 = u2
    x1 = x1
    i1 = i1
    c1 = c1
    c2 = c2
    c3 = c3
    None = None
    LegacyCode = LegacyCode
    User = {owner, u1, u2}
    Restaurant = {x1}
    Invite = {i1}
    InviteFor <- ForTheRestaurant
    InviteRole <- AsStaff
    Claim = {c1, c2, c3}
    ClaimUser <- TwoUsers
    ClaimInvite <- WithLegacy
    Mismatch = {}
    LegacyFor = x1
    DBFaults = TRUE
    MaxBoots = 0
SPECIFICATION Spec
INVARIANT
    CreatorBecomesOwner
CHECK_DEADLOCK FALSE
