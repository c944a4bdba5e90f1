SPECIFICATION Spec
CONSTANTS
    None = None
    Guest = Guest
    tab = tab
    other = other
    Users = {Guest}
    Tabs = {tab, other}
    Conns = {tab}
    UserOf <- MCUserOf
    Cap = 2
    Recent = 1
    MaxMsgs = 2
    MaxEdits = 1
INVARIANTS
    CatchesUp
    KickedLearns
    MuteHolds
PROPERTIES
    PinSaved
    ClosedEnds
