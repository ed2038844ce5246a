SPECIFICATION Spec
CONSTANTS
  DayLength = 3
  Offset = 1
  Shown = 2
  MaxTime = 10
  MaxPresses = 4
  MaxWeb = 1
  MaxFaults = 1
INVARIANTS
  NoCompletionLost
  NothingInvented
  ButtonsShowDatabase
  WebShowsWhatWasPressed
CHECK_DEADLOCK FALSE
