---------------------------- MODULE PowerStates ----------------------------
(***************************************************************************)
(* What system_state.h promises of the power state: it walks one fixed     *)
(* graph.  Each public function leads from its starting states through a   *)
(* transitional state to a stable one; a transitional state can be left    *)
(* early only by the opposite power request or by an emergency shutdown;   *)
(* and a reset of the chip starts again at powered_off.                    *)
(***************************************************************************)
CONSTANT LimboRemoved   \* SystemState_RemoveLimboState was called

VARIABLE state

Initialise == \/ state = "powered_off" /\ state' = "initialisation"
              \/ state = "initialisation" /\ state' = "initialised"

StartUp == \/ state = "initialised" /\ state' = "starting_up"
           \/ /\ state = "starting_up"
              /\ state' = IF LimboRemoved THEN "active" ELSE "limbo"

PowerOn == /\ ~LimboRemoved
           /\ \/ state \in {"limbo", "powering_off"} /\ state' = "powering_on"
              \/ state = "powering_on" /\ state' = "active"

PowerOff == /\ ~LimboRemoved
            /\ \/ state \in {"active", "powering_on"} /\ state' = "powering_off"
               \/ state = "powering_off" /\ state' = "limbo"

Sleep == \/ /\ state = IF LimboRemoved THEN "active" ELSE "limbo"
            /\ state' = "going_to_sleep"
         \/ state = "going_to_sleep" /\ state' = "sleeping"

Shutdown == \/ /\ state = IF LimboRemoved THEN "active" ELSE "limbo"
               /\ state' = "shutting_down"
            \/ state = "shutting_down" /\ state' = "powered_off"

EmergencyShutdown == \/ state' = "shutting_down_promptly"
                     \/ state = "shutting_down_promptly" /\ state' = "powered_off"

\* A reset, from wherever the product was.
Restart == state' = "powered_off"

Init == state = "powered_off"
Next == \/ Initialise \/ StartUp \/ PowerOn \/ PowerOff
        \/ Sleep \/ Shutdown \/ EmergencyShutdown \/ Restart

Spec == Init /\ [][Next]_state
=============================================================================
