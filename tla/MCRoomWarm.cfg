SPECIFICATION WarmSpec
CONSTANTS
    i1 = i1
    i2 = i2
    i3 = i3
    m1 = m1
    m2 = m2
    v1 = v1
    v2 = v2
    Items = {i1, i2, i3}
    Media = {m1, m2}
    Link <- OwnLink
    Viewers = {}
    Guests = {}
    Settings <- WarmSettings
    PlayedKept = 2
    QueueLimit = 3
    None = None
    Faults = {"delete"}
PROPERTIES
    ComesToRest
CHECK_DEADLOCK FALSE
