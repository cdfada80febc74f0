\* The same phone: an LE link that drops while the other one is being opened.
SPECIFICATION FairSpec
CONSTANTS
  AttemptLimit = 2
  Backlog = 2
  LeLinks = TRUE
  MaxUsers = 1
PROPERTY ConnectIsAnswered
CHECK_DEADLOCK FALSE
