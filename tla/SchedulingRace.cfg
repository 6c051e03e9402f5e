CONSTANTS
  b1 = b1
  b2 = b2
  Batches = {b1, b2}
  Trainers = {1, 2}
  Slots <- TwoSlots
  Sessions = {1, 2}
  Keys = {k1}
  Requests = {r1, r2}
  Kinds = {"assign", "session"}
  Window <- FullWindow
  Databases <- Meeting
  MaxLoad = 2
  None = None
  Keep = Keep
SPECIFICATION Spec
INVARIANTS
  NoDoubleBooking
