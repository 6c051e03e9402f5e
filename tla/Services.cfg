SPECIFICATION ServicesSpec
CONSTANTS
  t1 = t1
  d1 = d1
  k1 = k1
  m1 = m1
  m2 = m2
  f1 = f1
  f2 = f2
  f3 = f3
  h1 = h1
  h2 = h2
  Requesters = {d1, t1}
  Trainers = {t1}
  Tickets = {k1}
  Messages = {m1, m2}
  Files = {f1, f2, f3}
  Helpers = {h1, h2}
  Cleaners = {w1, w2}
  SupportPlans <- HelpPlans
  MaxFiles = 2
  BatchSize = 1
  Desk = Desk
  Nobody = Nobody
  u1 = u1
  u2 = u2
  c1 = c1
  s1 = s1
  s2 = s2
  s3 = s3
  n1 = n1
  n2 = n2
  g1 = g1
  g2 = g2
  Students = {u1, u2}
  Coaches = {c1}
  Pair = {u1, c1}
  Sockets = {s1, s2, s3}
  OwnerOf <- Owner
  Texts = {n1, n2}
  Talkers = {g1, g2}
  Limits = {1, 2}
  NoLimit = NoLimit
  ChatPlans <- TalkPlans
  NoUser = NoUser
CHECK_DEADLOCK FALSE
INVARIANTS
  ServicesTypeOK
  FilesOutliveRows
  MissedNeedsOverlap
  PushedToReaders
  OverfullNeedsCause
PROPERTIES
  ClosedNeedsReopen
  CleanupFinishes
