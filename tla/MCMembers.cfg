SPECIFICATION MCSpec
CONSTANTS
    Founder = Founder
    Mod = Mod
    Guest = Guest
    Users = {Founder, Mod, Guest}
    Admins = {Mod}
    Conns = {c1}
    Viewer <- GuestWatches
    MaxUses = 1
    MaxRequests = 2
    Nobody = Nobody
INVARIANTS
    OwnerHolds
    LinkWithinLimit
PROPERTIES
    InviteAnswered
    BannedOut
    KickedOut
CHECK_DEADLOCK FALSE
