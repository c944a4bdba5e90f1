CONSTANTS
  m1 = m1
  j1 = j1
  l1 = l1
  l2 = l2
  Media = {m1}
  Jobs = {j1}
  Leases = {l1, l2}
  Rooms = {}
  MaxAttempts = 2
  NoLease = NoLease
  NoJob = NoJob
  NoMedia = NoMedia
SPECIFICATION Spec
INVARIANT
  IngestSettles
CHECK_DEADLOCK FALSE
