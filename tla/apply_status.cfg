SPECIFICATION Spec
CONSTANTS
  p1 = p1
  p2 = p2
  s1 = s1
  k1 = k1
  k2 = k2
  Requests = {r1, r2}
  Keys = {k1, k2}
  Prepares = {p1}
  Sessions = {s1}
  TTL = 1
  MaxTime = 1
  Maximum = 2
  Applies <- Retries
  MaxRestarts = 0
INVARIANTS
  StatusTellsOutcome
