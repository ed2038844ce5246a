CONSTANTS
  u1 = u1 u2 = u2 d1 = d1 t1 = t1 t2 = t2 e1 = e1 e2 = e2 h1 = h1 h2 = h2
  User = {u1, u2}
  Device = {d1}
  TaskId = {t1, t2}
  EventId = {e1, e2}
  HabitId = {h1, h2}
  MaxCalls = 3
SPECIFICATION Spec
INVARIANT LostOnlyByOverlap
PROPERTIES RevivedOnlyByStaleCopy
CHECK_DEADLOCK FALSE
