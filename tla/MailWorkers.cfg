CONSTANTS
  Posts = {p1}
  Members = {m1, m2}
  Workers = {w1, w2}
  Admins = {a1, a2}
  BatchSize = 1
  MaxAttempts = 2
  Backoff <- Doubling
  RetryAfters <- NoRetryAfter
  Recheck = 1
  StaleAfter = 1
  MaxCrashes = 1
  None = None
SPECIFICATION Spec
SYMMETRY Symmetry
INVARIANTS
  TypeOK
  StatusIsTruthful
PROPERTIES
  PromiseKept
