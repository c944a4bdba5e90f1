CONSTANTS
  m1 = m1
  j1 = j1
  j2 = j2
  l1 = l1
  l2 = l2
  r1 = r1
  Media = {m1}
  Jobs = {j1, j2}
  Leases = {l1, l2}
  Rooms = {r1}
  MaxAttempts = 2
  NoLease = NoLease
  NoJob = NoJob
  NoMedia = NoMedia
SPECIFICATION Spec
SYMMETRY Symmetry
PROPERTIES
  StaleAttemptSilent
  ServesLibrary
CHECK_DEADLOCK FALSE
