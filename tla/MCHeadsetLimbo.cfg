SPECIFICATION FairSpec
CONSTANTS
  PowerPrompts = FALSE
  AutoPowerOn = TRUE
  Buttons = {"UI_POWER_ON", "UI_POWER_OFF"}
  Cables = {"none", "host"}
  MaxInputs = 1
  MaxCableMoves = 1
  MaxBatteryMoves = 0
  MaxRadioMoves = 0
  Backlog = 1
CHECK_DEADLOCK FALSE
PROPERTIES LimboEnds
