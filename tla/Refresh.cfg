CONSTANTS
  t1 = t1  e1 = e1  h1 = h1  h2 = h2
  Task = {t1}
  Event = {e1}
  Habit = {h1, h2}
  Namesakes = {h1, h2}
  MaxEdits = 1
  MaxWeb = 2
  MaxFaults = 1
SPECIFICATION FairSpec
INVARIANTS GoodSyncMirrors EditStays
PROPERTIES Converges
CHECK_DEADLOCK FALSE
