CONSTANTS MaxRetry = 5 MaxRound = 2 MaxReboots = 1
SPECIFICATION FairSpec
INVARIANTS OneServer PortalReachable AnswerIsOwn ConnectedIsFresh
PROPERTIES LoginAnswered PortalCloses PortalReturns
CHECK_DEADLOCK FALSE
