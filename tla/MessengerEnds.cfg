SPECIFICATION FairSpec
CONSTANTS
  Task = {t1}
  HabitEntry = {}
  Event = {e1}
  MaxEntries = 1
  MaxRetries = 2
  MaxEdits = 1
  MaxInbox = 2
  MaxReboots = 1
  MaxRuns = 2
  BootAck = {0, 1}
  LossyLink = TRUE
  WebSets = {"mfd"}
  Timely = FALSE
PROPERTIES
  SyncTerminates
