SPECIFICATION FairSpec
CONSTANTS
  MaxSlots = 2
  MaxAttempts = 2
  MaxId = 5
  MaxPublishes = 3
INVARIANTS
  SlotsAccounted
  AckAsserts
  CallAsserts
  SubscribedAtBroker
  IdleIsClosed
PROPERTIES
  CallsReturn
