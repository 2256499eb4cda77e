SPECIFICATION MCSpec
CONSTANTS
  Prepares = {p1, p2}
  Sessions = {s1, s2}
  TTL = 2
  MaxTime = 4
  Keys = {k1, k2, k3, k4}
  Fingerprints = {f1, f2}
  Results = {"applied", "unknown"}
  Maximum = 2
  Callers = {c1, c2, c3}
  Insertions = {0, 1, 2, 3, 4}
  Tasks = {t1, t2, t3}
  MaxEntries = 2
  MaxRecords = 5
  MaxRestarts = 2
  Buckets = {"read", "apply"}
  Limit <- Limits2
  Window = 5
  Second = 2
  MaxClock = 7
CHECK_DEADLOCK FALSE
INVARIANTS
  SingleUse
  StatusHonest
  WithinMaximum
  ChainIntact
  SavedStays
  WindowKept
  HintEnough
PROPERTIES
  ImplementsOneShot
  ForgetsOldestFirst
  ReplayStable
  FileNeverRewinds
  AppendsEnd
