SPECIFICATION FairSpec
CONSTANTS
  Inputs = {"start", "stop", "disconnect_lru"}
  MaxInputs = 3
  MaxRadio = 2
  MaxLinks = 2
  MaxTimeouts = 1
  Backlog = 1
PROPERTY ConfirmedStopIsClean
CHECK_DEADLOCK FALSE
