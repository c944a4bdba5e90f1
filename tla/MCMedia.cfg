SPECIFICATION Spec
CONSTANTS
    Rooms = {A}
    Calls = {one}
    MaxId = 2
    MaxPackages = 2
    MaxBusy = 2
    Casts = {{"listener", "ticker"}, {"ticker", "admin"}, {"admin", "evictor"}}
INVARIANTS NoGhosts ReadyHasObjects
PROPERTIES HearsOfIt BlockedStays
