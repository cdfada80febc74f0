\* A phone with both transports, two attempts, two messages under way.
SPECIFICATION FairSpec
CONSTANTS
  AttemptLimit = 2
  Backlog = 2
  LeLinks = TRUE
  MaxUsers = 2
INVARIANT TypeOK
INVARIANT MarkFollowsProfile
INVARIANT ProfileRequestsEnd
INVARIANT DisconnectionRemembered
INVARIANT ConnectedHasLink
PROPERTY ConnectIsAnsweredWithoutLe
CHECK_DEADLOCK FALSE
