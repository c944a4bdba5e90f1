SPECIFICATION FairSpec
CONSTANTS
    i1 = i1
    i2 = i2
    i3 = i3
    m1 = m1
    m2 = m2
    v1 = v1
    v2 = v2
    Items = {i1}
    Media = {m1}
    Link <- SameLink
    Viewers = {v1, v2}
    Guests = {v2}
    Settings <- PresenceSettings
    PlayedKept = 1
    QueueLimit = 1
    None = None
    Faults = {}
INVARIANTS
    EmptyPauseArmed
PROPERTIES
    WaitEnds
    WaitsForSomeone
    StuckNoticed
    StartsWhenReady
