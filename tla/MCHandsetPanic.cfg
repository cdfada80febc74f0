\* A connection that is stopped and then disconnected.
SPECIFICATION Spec
CONSTANTS
  AttemptLimit = 1
  Backlog = 2
  LeLinks = FALSE
  MaxUsers = 1
INVARIANT NoPanic
CHECK_DEADLOCK FALSE
