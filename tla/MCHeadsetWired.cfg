SPECIFICATION Spec
CONSTANTS
  PowerPrompts = TRUE
  AutoPowerOn = TRUE
  Buttons = {"UI_POWER_ON", "UI_POWER_OFF", "UI_PAIR_HANDSET", "UI_DELETE_HANDSETS", "UI_FACTORY_RESET"}
  Cables = {"none", "host"}
  MaxInputs = 2
  MaxCableMoves = 1
  MaxBatteryMoves = 0
  MaxRadioMoves = 2
  Backlog = 1
CHECK_DEADLOCK FALSE
INVARIANTS TimersBelongToState NoPanic PairingHasNoUsb
