SPECIFICATION FairSpec
CONSTANTS
  Registered <- MCCallsAndMusic
  Others = {"ESCO", "A2DP_LL"}
  Backlog = 2
INVARIANTS TypeOK ThrottledByHigher SettledAgree UnthrottledScansAsAsked DisableHolds
PROPERTIES ScanFollowsClients DisableIsAnswered
