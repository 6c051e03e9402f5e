CONSTANTS
  b1 = b1
  b2 = b2
  Batches = {b1, b2}
  Trainers = {1, 2}
  Slots <- TwoSlots
  Sessions = {1, 2}
  Keys = {k1, k2}
  Requests = {r1, r2, r3}
  Kinds = {"assign"}
  Window <- FullWindow
  Databases <- Workflow
  MaxLoad = 2
  None = None
  Keep = Keep
  v1 = v1
  v2 = v2
  y1 = y1
  y2 = y2
  NoTeacher = NoTeacher
  Programs = {p1, p2}
  NoProgram = NoProgram
  p1 = p1
  p2 = p2
  DayLength = 4
  WeekLength = 2
  HorizonDays = 2
  MaxDays = 4
  SearchDays = 3
  PerTeacher = 1
  OfferLimit = 2
  MaxWeekly = 2
  MaxRules = 3
  LastDay = 2
  Never = 99
  Same = Same
  CalPlans <- TheCalPlans
SPECIFICATION SchedulingSpec
SYMMETRY Symmetry
INVARIANTS
  NoDoubleBooking
  HistoryIsChain
  RetriesAreIdempotent
  NoDeadlock
  ClassesFit
  CalendarIsRight
PROPERTIES
  PastHoursKept
