----------------------------- MODULE PowerFlow -----------------------------
(***************************************************************************)
(* The state machine of domains/power/power_manager as functions on the    *)
(* value of app_power: each takes the context p and the readings e that    *)
(* the conditions consult, and returns the new context with the effects,   *)
(* in order, on the clients and on system_state.  PowerManager runs these  *)
(* functions as actions; HeadsetControl calls them from its handlers.      *)
(***************************************************************************)
EXTENDS Sequences

CONSTANT Clients   \* every task that may register

PowerStateNames ==
  {"INIT", "OK", "TERMINATING_NOTIFIED", "TERMINATING_RESPONDED",
   "SOPORIFIC_NOTIFIED", "SOPORIFIC_RESPONDED"}

(***************************************************************************)
(* app_power.  The client list and the three flags kept per client are     *)
(* sets of clients.                                                        *)
(***************************************************************************)
PowerContext ==
  [state : PowerStateNames,
   user_initiated_shutdown : BOOLEAN,
   init_complete : BOOLEAN,
   clients : SUBSET Clients,
   allow_sleep : SUBSET Clients,       \* APP_POWER_ALLOW_SLEEP
   shutdown_pending : SUBSET Clients,  \* ..._SHUTDOWN_PREPARE_RESPONSE_PENDING
   sleep_pending : SUBSET Clients]     \* ..._SLEEP_PREPARE_RESPONSE_PENDING

\* Mutant: the state is not set before the first message arrives.
PowerInitUnset ==
  [state |-> "UNSET", user_initiated_shutdown |-> FALSE, init_complete |-> FALSE,
   clients |-> {}, allow_sleep |-> {}, shutdown_pending |-> {}, sleep_pending |-> {}]

\* appPowerInit
PowerInit ==
  [state |-> "INIT", user_initiated_shutdown |-> FALSE, init_complete |-> FALSE,
   clients |-> {}, allow_sleep |-> {}, shutdown_pending |-> {}, sleep_pending |-> {}]

\* What the conditions read: Charger_CanPowerOff, Charger_CanEnterDormant, and
\* whether the battery is unsafe or the temperature out of its limits.
Readings == [can_power_off : BOOLEAN, can_enter_dormant : BOOLEAN, unsafe : BOOLEAN]

Messages4Clients ==
  {"SHUTDOWN_PREPARE_IND", "SHUTDOWN_CANCELLED_IND", "POWER_OFF",
   "SLEEP_PREPARE_IND", "SLEEP_CANCELLED_IND"}

Tell(cs, msg) == [kind |-> "tell", to |-> cs, msg |-> msg]
Ask(what)     == [kind |-> "ask", what |-> what]   \* SystemState_Shutdown, ...
InitCfm       == [kind |-> "init_cfm"]             \* APP_POWER_INIT_CFM

Then(result, f(_)) ==
  LET next == f(result.p) IN [p |-> next.p, effects |-> result.effects \o next.effects]
Only(p) == [p |-> p, effects |-> << >>]
---------------------------------------------------------------------------
(* Conditions (power_manager_conditions.c).                                *)

\* Mutant: the charger is not asked whether the product may power off.
NeedsToPowerOffUncharged(p, e) == e.unsafe \/ p.user_initiated_shutdown

NeedsToPowerOff(p, e) ==
  e.can_power_off /\ (e.unsafe \/ p.user_initiated_shutdown)

CanSleep(p, e) == e.can_enter_dormant /\ p.init_complete

AllAllowSleep(p) == p.clients \subseteq p.allow_sleep

\* appPowerAllClientsHaveFlagCleared is FALSE when there is no client.
AllCleared(p, pending) == p.clients # {} /\ pending = {}
---------------------------------------------------------------------------
(* appPowerSetState, by the state entered.  Leaving a RESPONDED state tells *)
(* the clients that the shutdown or the sleep was cancelled.               *)

\* Mutant: entering OK leaves the user's request set.
EnterOkKeepingRequest(p) == [p EXCEPT !.state = "OK"]

EnterOk(p) == [p EXCEPT !.state = "OK", !.user_initiated_shutdown = FALSE]

\* Mutant: the clients are not told that the shutdown was cancelled.
EnterTerminatingRespondedQuietly(p, e) ==
  [p |-> EnterOk(p),
   effects |-> IF NeedsToPowerOff(p, e)
               THEN <<Ask(IF p.user_initiated_shutdown THEN "shutdown" ELSE "emergency")>>
               ELSE << >>]

\* SystemState_Shutdown and _EmergencyShutdown usually do not return.  When
\* they do, or were not called, the power manager goes back to OK.
EnterTerminatingResponded(p, e) ==
  [p |-> EnterOk(p),
   effects |->
     (IF NeedsToPowerOff(p, e)
      THEN <<Ask(IF p.user_initiated_shutdown THEN "shutdown" ELSE "emergency")>>
      ELSE << >>)
     \o <<Tell(p.clients, "SHUTDOWN_CANCELLED_IND")>>]

EnterTerminatingNotified(p, e) ==
  IF p.clients = {}
  THEN EnterTerminatingResponded(p, e)
  ELSE [p |-> [p EXCEPT !.state = "TERMINATING_NOTIFIED", !.shutdown_pending = p.clients],
        effects |-> <<Tell(p.clients, "SHUTDOWN_PREPARE_IND"), Tell(p.clients, "POWER_OFF")>>]

\* The result of SystemState_Sleep is not looked at.
EnterSoporificResponded(p, e) ==
  IF CanSleep(p, e)
  THEN [p |-> [p EXCEPT !.state = "SOPORIFIC_RESPONDED"], effects |-> <<Ask("sleep")>>]
  ELSE [p |-> EnterOk(p), effects |-> <<Tell(p.clients, "SLEEP_CANCELLED_IND")>>]

EnterSoporificNotified(p, e) ==
  IF p.clients = {}
  THEN EnterSoporificResponded(p, e)
  ELSE [p |-> [p EXCEPT !.state = "SOPORIFIC_NOTIFIED", !.sleep_pending = p.clients],
        effects |-> <<Tell(p.clients, "SLEEP_PREPARE_IND")>>]

---------------------------------------------------------------------------
(* The entry points.                                                       *)

\* appPowerHandlePowerEvent
PowerEvent(p, e) ==
  CASE p.state = "INIT" ->
         [p |-> EnterOk(p),
          effects |-> (IF NeedsToPowerOff(p, e) THEN <<Ask("shutdown")>> ELSE << >>)
                      \o <<InitCfm>>]
    [] p.state = "OK" /\ NeedsToPowerOff(p, e) -> EnterTerminatingNotified(p, e)
    [] p.state = "OK" /\ ~NeedsToPowerOff(p, e) /\ AllAllowSleep(p) /\ CanSleep(p, e) ->
         EnterSoporificNotified(p, e)
    [] OTHER -> Only(p)

\* appPowerInitComplete
InitComplete(p, e) == PowerEvent([p EXCEPT !.init_complete = TRUE], e)

\* appPowerOffRequest; its result says whether a shutdown is now under way.
OffRequest(p, e) ==
  IF e.can_power_off /\ p.state = "OK"
  THEN EnterTerminatingNotified([p EXCEPT !.user_initiated_shutdown = TRUE], e)
  ELSE Only(p)

\* Mutant: a client that registers during a shutdown is asked to prepare but
\* its answer is not waited for.
ClientRegisterUnflagged(p, c) ==
  IF c \in p.clients THEN Only(p)
  ELSE [p |-> [p EXCEPT !.clients = @ \cup {c}],
        effects |-> IF p.state = "TERMINATING_NOTIFIED"
                    THEN <<Tell({c}, "SHUTDOWN_PREPARE_IND")>> ELSE << >>]

\* appPowerClientRegister; a registration during INIT panics.
ClientRegister(p, c) ==
  LET added == [p EXCEPT !.clients = @ \cup {c}]
  IN  CASE c \in p.clients -> Only(p)
        [] c \notin p.clients /\ p.state = "TERMINATING_NOTIFIED" ->
             [p |-> [added EXCEPT !.shutdown_pending = @ \cup {c}],
              effects |-> <<Tell({c}, "SHUTDOWN_PREPARE_IND")>>]
        [] c \notin p.clients /\ p.state = "SOPORIFIC_NOTIFIED" ->
             [p |-> [added EXCEPT !.sleep_pending = @ \cup {c}],
              effects |-> <<Tell({c}, "SLEEP_PREPARE_IND")>>]
        [] OTHER -> Only(added)

\* appPowerClientAllowSleep and appPowerClientProhibitSleep
ClientAllowSleep(p, e, c) ==
  LET allowed == [p EXCEPT !.allow_sleep = @ \cup ({c} \cap p.clients)]
  IN  IF allowed.state = "OK" /\ AllAllowSleep(allowed) /\ CanSleep(allowed, e)
      THEN EnterSoporificNotified(allowed, e)
      ELSE Only(allowed)

ClientProhibitSleep(p, c) == [p EXCEPT !.allow_sleep = @ \ {c}]

\* appPowerShutdownPrepareResponse
ShutdownPrepareResponse(p, e, c) ==
  LET answered == [p EXCEPT !.shutdown_pending = @ \ {c}]
  IN  CASE p.state # "TERMINATING_NOTIFIED" \/ c \notin p.clients -> Only(p)
        [] OTHER -> IF AllCleared(p, answered.shutdown_pending)
                    THEN EnterTerminatingResponded(answered, e)
                    ELSE Only(answered)

\* appPowerSleepPrepareResponse
SleepPrepareResponse(p, e, c) ==
  LET answered == [p EXCEPT !.sleep_pending = @ \ {c}]
  IN  CASE p.state # "SOPORIFIC_NOTIFIED" \/ c \notin p.clients -> Only(p)
        [] OTHER -> IF AllCleared(p, answered.sleep_pending)
                    THEN EnterSoporificResponded(answered, e)
                    ELSE Only(answered)

Forget(p, c) ==
  [p EXCEPT !.clients = @ \ {c}, !.allow_sleep = @ \ {c},
            !.shutdown_pending = @ \ {c}, !.sleep_pending = @ \ {c}]

\* Mutant: a client leaves without answering what it was asked.
ClientUnregisterSilently(p, e, c) == Only(Forget(p, c))

\* appPowerClientUnregister answers for the client before it removes it.
ClientUnregister(p, e, c) ==
  LET allowed  == ClientAllowSleep(p, e, c)
      shutdown == Then(allowed, LAMBDA q : ShutdownPrepareResponse(q, e, c))
      sleep    == Then(shutdown, LAMBDA q : SleepPrepareResponse(q, e, c))
  IN  Then(sleep, LAMBDA q : Only(Forget(q, c)))
=============================================================================
