SPECIFICATION FairSpec
CONSTANTS
  PowerPrompts = FALSE
  AutoPowerOn = TRUE
  Buttons = {"UI_POWER_ON", "UI_POWER_OFF", "UI_DELETE_HANDSETS", "UI_FACTORY_RESET"}
  Cables = {"none", "wall"}
  MaxInputs = 2
  MaxCableMoves = 1
  MaxBatteryMoves = 1
  MaxRadioMoves = 2
  Backlog = 1
CHECK_DEADLOCK FALSE
INVARIANTS TypeOK HeadsetFollowsSystem
PROPERTIES ShutdownAgreed LimboEndsWhileSafe
