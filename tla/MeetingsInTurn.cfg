SPECIFICATION Spec
CONSTANTS
  admin = admin
  trainer = trainer
  s1 = s1
  s2 = s2
  r1 = r1
  r2 = r2
  None = None
  Admins = {admin}
  Staff = {admin}
  Trainer = admin
  Users = {admin, s1, s2}
  Enrolled = {s1}
  Requests = {r1}
  Callers <- Anybody
  Ids = {1, 2}
  ClassIds = {2}
  MaxMeetings = 1
  Copies = {1, 2}
  Recordings = {1}
  Settings <- LectureAndSeminar
  Edits = {"limit", "waiting"}
CHECK_DEADLOCK FALSE
SYMMETRY Students
INVARIANTS TypeOK
