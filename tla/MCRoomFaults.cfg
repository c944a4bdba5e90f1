SPECIFICATION Spec
CONSTANTS
    i1 = i1
    i2 = i2
    i3 = i3
    m1 = m1
    m2 = m2
    v1 = v1
    v2 = v2
    Items = {i1, i2}
    Media = {m1}
    Link <- SameLink
    Viewers = {}
    Guests = {}
    Settings <- VoteSettings
    PlayedKept = 1
    QueueLimit = 2
    None = None
    Faults = {"store", "crash", "delete"}
INVARIANTS
    ItemOnce
SYMMETRY ItemSymmetry
