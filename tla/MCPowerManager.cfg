SPECIFICATION FairSpec
CONSTANTS
  Clients = {c1, c2}
  MaxEvents = 2
  MaxRequests = 5
CHECK_DEADLOCK FALSE
INVARIANTS TypeOK WaitsOnlyForTheAsked RequestEndsWithRound CancelReachesEveryone
PROPERTIES OffOnlyWhenPrepared OffOnlyWhenAllowed ShutdownRoundEnds
