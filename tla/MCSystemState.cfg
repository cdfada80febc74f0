SPECIFICATION FairSpec
CONSTANTS
  Sync = "SYNC"
  Halt = "HALT"
  Messages <- MCMessages
  Tables <- MCTables
  LimboRemoved = FALSE
  MaxCalls = 7
  MaxInFlight = 2
CHECK_DEADLOCK FALSE
INVARIANTS TypeOK PositionMatchesState EveryStepCalled AwaitedIsOwed
PROPERTIES PastEndIsHarmless ListenerFollowsStateGraph TransitionsEnd
