CONSTANTS
  N = 5
  Goalless = {3, 4}
  PageSize = 2
  MaxFailures = 1
SPECIFICATION FairSpec
INVARIANTS TypeOK ListIsPage RightStopsAtTheEnd ActsOnShown
PROPERTIES PopupCloses
