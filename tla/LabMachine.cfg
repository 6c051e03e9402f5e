SPECIFICATION FairSpec
CONSTANTS
  s1 = s1
  s2 = s2
  None = None
  Students = {s1, s2}
  Grace = 2
  MaxRestarts = 1
  MaxErrors = 1
CHECK_DEADLOCK FALSE
INVARIANTS TypeOK AccessEndsInTime
PROPERTIES LockedOut PasswordDies
