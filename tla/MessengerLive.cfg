SPECIFICATION FairSpec
CONSTANTS
  Task = {t1}
  HabitEntry = {}
  Event = {e1, e2}
  MaxEntries = 1
  MaxRetries = 2
  MaxEdits = 3
  MaxInbox = 2
  MaxReboots = 0
  MaxRuns = 2
  BootAck = {0, 1}
  LossyLink = FALSE
  WebSets = {"mfd"}
  Timely = TRUE
INVARIANTS
  ServerHoldsLastEdit
PROPERTIES
  EventuallyUploaded
  ImplementsStrictly
