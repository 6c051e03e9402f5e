SPECIFICATION Spec
CONSTANTS
  admin = admin
  trainer = trainer
  s1 = s1
  s2 = s2
  r1 = r1
  r2 = r2
  None = None
  Admins = {admin}
  Staff = {admin}
  Trainer = admin
  Users = {admin, s1}
  Enrolled = {s1}
  Requests = {r1}
  Callers <- Anybody
  Ids = {1}
  ClassIds = {1}
  MaxMeetings = 1
  Copies = {1}
  Recordings = {}
  Settings <- NoPlans
  Edits = {}
CHECK_DEADLOCK FALSE
PROPERTIES RemovedNeverRejoins
