SPECIFICATION FairSpec
CONSTANTS
  Inputs = {"start", "stop", "prohibit", "connect", "disconnect", "disconnect_lru", "shutdown"}
  MaxInputs = 5
  MaxRadio = 1
  MaxLinks = 1
  MaxTimeouts = 1
  Backlog = 1
INVARIANTS TypeOK QueueIsReleased OnlyConcurrentGoalsRun StopIsUnderWay
PROPERTIES ConfirmedStopIsClean StartCompletes
CHECK_DEADLOCK FALSE
