SPECIFICATION AccountsSpec
CONSTANTS
  u1 = u1
  u2 = u2
  u3 = u3
  s1 = s1
  s2 = s2
  s3 = s3
  r1 = r1
  r2 = r2
  Users = {u1, u2, u3}
  Sessions = {s1, s2, s3}
  Challenges = {c1, c2}
  c1 = c1
  c2 = c2
  Tickets = {t1}
  Subs = {g1}
  Codes = {k1}
  Requests = {r1, r2}
  Plans <- SignInPlans
  MaxFails = 2
  MaxTries = 2
  MaxStep = 3
  MaxSecrets = 2
  None = None
  Emails = {e1}
  Mobiles = {m1}
  Registrants = {p1, p2}
  MaxSends = 2
  MaxOtpTries = 2
  MaxCodes = 2
  a1 = a1
  a2 = a2
  e1 = e1
  e2 = e2
  p1 = p1
  p2 = p2
  o1 = o1
  o2 = o2
  l1 = l1
  Pupils = {a1, a2}
  Logins = {e1, e2}
  Programs = {p1, p2}
  Desks = {o1, o2}
  Entrances = {l1}
  RollPlans <- TheRollPlans
  MaxResets = 1
  MaxCode = 3
  Keep = Keep
  j1 = j1
  b1 = b1
  x1 = x1
  x2 = x2
  Vacancies = {j1}
  Learners = {u1}
  Groups = {b1}
  Clickers = {x1, x2}
  JobPlans <- TheJobPlans
  Reactions = {"interested", "not_interested"}
  q1 = q1
  q2 = q2
  q3 = q3
  k1 = k1
  y1 = y1
  y2 = y2
  y3 = y3
  z1 = z1
  z2 = z2
  Keys = {Manage, k1}
  Manage = Manage
  RoleIds = {y1, y2, y3}
  Super = Super
  SystemRoles = {y1, y2}
  RestrictedRoles = {y2}
  DefaultGrants <- SystemGrants
  Officers = {q1, q2, q3}
  Clerks = {z1, z2}
  NoRole = NoRole
  RolePlans <- DutyPlans
SYMMETRY Alike
CHECK_DEADLOCK FALSE
INVARIANTS
  AccountsTypeOK
  ProofsAreSingleUse
  SecondFactorCurrent
  StartsMailOnce
  DeletionKeepsRecords
  SessionsNeedOverlap
PROPERTIES
  LastSuperNeedsStale
  VerifiedStays
  ReactionsNeedAccess
  DelegationStaysInScope
