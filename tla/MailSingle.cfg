CONSTANTS
  Posts = {p1}
  Members = {m1, m2}
  Workers = {w1}
  Admins = {a1}
  BatchSize = 2
  MaxAttempts = 3
  Backoff <- Doubling
  RetryAfters <- LongRetryAfter
  Recheck = 1
  StaleAfter = 1
  MaxCrashes = 1
  None = None
SPECIFICATION LiveSpec
PROPERTIES
  QueueDrains
