SPECIFICATION WindowSpec
CONSTANTS
  Modulus = 32
  Timeout = 6
  MaxPass = 3
  Starts = {0, 1, 7, 15, 20, 21, 22, 23, 24, 25, 26, 27, 31}
  Horizon = 40
INVARIANT
  WindowKept
CHECK_DEADLOCK FALSE
