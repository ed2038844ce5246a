SPECIFICATION Spec
CONSTANTS
  Task = {}
  HabitEntry = {h1}
  Event = {e1, e2}
  MaxEntries = 2
  MaxRetries = 2
  MaxEdits = 2
  MaxInbox = 1
  MaxReboots = 1
  MaxRuns = 2
  BootAck = {0, 1}
  LossyLink = TRUE
  WebSets = {"mfd"}
  Timely = FALSE
SYMMETRY EntrySymmetry
INVARIANTS
  TypeOK
  LossExplained
  NoDuplicateCompletion
PROPERTIES
  RemovesOnlyWhatItSent
  ImplementsAtLeastOnce
