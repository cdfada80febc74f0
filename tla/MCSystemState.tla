--------------------------- MODULE MCSystemState ---------------------------
(* The tables of headset_init.c (with power prompts, as on QCC5141): the   *)
(* long init table cut down to two of its waits, the startup and the sleep *)
(* table unregistered, and an emergency step that returns, as              *)
(* appPowerDoPowerOff does while charger detection is pending.             *)
EXTENDS SystemState

MCTables == [t \in TransitionNames |->
  CASE t = "init"      -> <<"SYNC", "INIT_CFM", "SYNC", "ADDR_CFM">>
    [] t = "startup"   -> << >>
    [] t = "power_on"  -> <<"PROMPT_COMPLETED", "SYNC", "SYNC">>
    [] t = "power_off" -> <<"STOP_CFM", "SYNC">>
    [] t = "sleep"     -> << >>
    [] t = "shutdown"  -> <<"HALT">>
    [] t = "emergency" -> <<"SYNC">>]
MCMessages == {"INIT_CFM", "ADDR_CFM", "PROMPT_COMPLETED", "STOP_CFM"}
=============================================================================
