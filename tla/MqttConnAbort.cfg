SPECIFICATION Spec
CONSTANTS
  MaxSlots = 2
  MaxAttempts = 2
  MaxId = 5
  MaxPublishes = 3
INVARIANT ConnectAssert
