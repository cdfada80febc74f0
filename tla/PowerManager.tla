---------------------------- MODULE PowerManager ----------------------------
(***************************************************************************)
(* domains/power/power_manager with its clients and its surroundings.      *)
(* Before the product powers off or sleeps, every client is asked to       *)
(* prepare and must answer; meanwhile the charger, the battery and the     *)
(* temperature move, clients register, leave and change their mind, and    *)
(* every message between the parties is queued.                            *)
(***************************************************************************)
EXTENDS PowerFlow, Keeping

CONSTANTS MaxEvents,    \* bound on the power events (monitor messages) ever posted
          MaxRequests   \* bound on calls of clients and on power off requests

VARIABLES
  p,         \* app_power
  readings,  \* what charger, battery and temperature say at this moment
  events,    \* monitor messages queued for the power task
  mbox,      \* messages queued for each client
  owes,      \* what each client was asked to prepare for and has not answered
  believes,  \* what each client was last told is going on (history)
  prepared,  \* clients that answered in the present shutdown round (history)
  power,     \* the chip: "on", "off" or "dormant"
  posted,    \* monitor messages ever posted (bound only)
  requests   \* calls ever made (bound only)

vars == <<p, readings, events, mbox, owes, believes, prepared, power, posted, requests>>

Init ==
  /\ p = PowerInit
  /\ readings \in Readings
  /\ events = 0
  /\ mbox = [c \in Clients |-> << >>]
  /\ owes = [c \in Clients |-> "nothing"]
  /\ believes = [c \in Clients |-> "normal"]
  /\ prepared = {}
  /\ power = "on"
  /\ posted = 0
  /\ requests = 0

---------------------------------------------------------------------------
(* system_state, from here: a call of SystemState_Shutdown, _Sleep or      *)
(* _EmergencyShutdown takes the power away, or returns because it was      *)
(* refused or because its last step came back.                             *)

Asked(effects) == {effects[n].what : n \in {k \in DOMAIN effects : effects[k].kind = "ask"}}

SystemStateAnswers(effects) ==
  \/ power' = power
  \/ Asked(effects) \cap {"shutdown", "emergency"} # {} /\ power' = "off"
  \/ "sleep" \in Asked(effects) /\ power' = "dormant"

\* Messages told to client c, in the order they were sent.
TellsOf(c) == [kind : {"tell"}, to : {cs \in SUBSET Clients : c \in cs}, msg : Messages4Clients]
ToldTo(effects, c) ==
  LET mine == Keep(effects, TellsOf(c)) IN [n \in DOMAIN mine |-> mine[n].msg]

\* One call into the power manager, with what it does to the others.
Effect(result) ==
  /\ p' = result.p
  /\ mbox' = [c \in Clients |-> mbox[c] \o ToldTo(result.effects, c)]
  /\ SystemStateAnswers(result.effects)

NewRound == prepared' = IF p.state = "OK" THEN {} ELSE prepared
Count == requests < MaxRequests /\ requests' = requests + 1
Environment == <<readings, events, posted>>
ClientSide == <<owes, believes>>
---------------------------------------------------------------------------
\* A monitor's reading changes and the monitor posts its message.
ReadingChanges ==
  /\ power = "on" /\ posted < MaxEvents
  /\ readings' \in Readings \ {readings}
  /\ events' = events + 1
  /\ posted' = posted + 1
  /\ UNCHANGED <<p, mbox, ClientSide, prepared, power, requests>>

\* appPowerHandleMessage, for the five monitor messages
HandlePowerEvent ==
  /\ power = "on" /\ events > 0
  /\ Effect(PowerEvent(p, readings))
  /\ NewRound
  /\ events' = events - 1
  /\ UNCHANGED <<readings, posted, ClientSide, requests>>

\* appPowerInitComplete, called once at the end of the initialisation, after
\* the clients have registered.
CompleteInit ==
  /\ power = "on" /\ p.state # "INIT" /\ ~p.init_complete
  /\ Effect(InitComplete(p, readings))
  /\ NewRound
  /\ UNCHANGED <<Environment, ClientSide, requests>>

\* appPowerOffRequest
PowerOffRequest ==
  /\ power = "on" /\ Count
  /\ Effect(OffRequest(p, readings))
  /\ NewRound
  /\ UNCHANGED <<Environment, ClientSide>>

\* appPowerClientRegister
Register(c) ==
  /\ power = "on" /\ Count
  /\ p.state # "INIT"
  /\ Effect(ClientRegister(p, c))
  /\ UNCHANGED <<Environment, ClientSide, prepared>>

\* appPowerClientUnregister also cancels the messages queued for the client.
Unregister(c) ==
  /\ power = "on" /\ Count
  /\ c \in p.clients
  /\ LET result == ClientUnregister(p, readings, c)
     IN  /\ p' = result.p
         /\ mbox' = [[d \in Clients |-> mbox[d] \o ToldTo(result.effects, d)]
                       EXCEPT ![c] = Keep(@, {"POWER_OFF"})]
         /\ SystemStateAnswers(result.effects)
  /\ prepared' = prepared \cup {c}
  /\ owes' = [owes EXCEPT ![c] = "nothing"]
  /\ believes' = [believes EXCEPT ![c] = "normal"]
  /\ UNCHANGED Environment

\* appPowerClientAllowSleep
AllowSleep(c) ==
  /\ power = "on" /\ Count
  /\ c \in p.clients
  /\ Effect(ClientAllowSleep(p, readings, c))
  /\ UNCHANGED <<Environment, ClientSide, prepared>>

\* appPowerClientProhibitSleep
ProhibitSleep(c) ==
  /\ power = "on" /\ Count
  /\ c \in p.clients
  /\ p' = ClientProhibitSleep(p, c)
  /\ UNCHANGED <<Environment, mbox, ClientSide, prepared, power>>

---------------------------------------------------------------------------
(* The clients, external to the power manager: each handles its messages   *)
(* in order and answers a request to prepare when it is ready.             *)

Request(msg, otherwise) ==
  CASE msg = "SHUTDOWN_PREPARE_IND" -> "shutdown"
    [] msg = "SLEEP_PREPARE_IND"    -> "sleep"
    [] OTHER                        -> otherwise

Cancelled == {"SHUTDOWN_CANCELLED_IND", "SLEEP_CANCELLED_IND"}
Belief(before, msg) == IF msg \in Cancelled THEN "normal" ELSE Request(msg, before)

ClientReads(c) ==
  /\ power = "on"
  /\ mbox[c] # << >>
  /\ owes' = [owes EXCEPT ![c] = Request(Head(mbox[c]), @)]
  /\ believes' = [believes EXCEPT ![c] = Belief(@, Head(mbox[c]))]
  /\ mbox' = [mbox EXCEPT ![c] = Tail(@)]
  /\ UNCHANGED <<p, Environment, prepared, power, requests>>

\* appPowerShutdownPrepareResponse
ShutdownAnswer(c) ==
  /\ power = "on" /\ owes[c] = "shutdown"
  /\ Effect(ShutdownPrepareResponse(p, readings, c))
  /\ prepared' = prepared \cup {c}
  /\ owes' = [owes EXCEPT ![c] = "nothing"]
  /\ UNCHANGED <<Environment, believes, requests>>

\* appPowerSleepPrepareResponse
SleepAnswer(c) ==
  /\ power = "on" /\ owes[c] = "sleep"
  /\ Effect(SleepPrepareResponse(p, readings, c))
  /\ owes' = [owes EXCEPT ![c] = "nothing"]
  /\ UNCHANGED <<Environment, believes, prepared, requests>>

Next ==
  \/ ReadingChanges \/ HandlePowerEvent \/ CompleteInit \/ PowerOffRequest
  \/ \E c \in Clients :
       \/ Register(c) \/ Unregister(c) \/ AllowSleep(c) \/ ProhibitSleep(c)
       \/ ClientReads(c) \/ ShutdownAnswer(c) \/ SleepAnswer(c)

Spec == Init /\ [][Next]_vars

\* The scheduler delivers every queued message, and a client that was asked
\* answers (power_manager.h:13: "Clients must respond").
Fairness ==
  /\ WF_vars(HandlePowerEvent)
  /\ \A c \in Clients :
       WF_vars(ClientReads(c)) /\ WF_vars(ShutdownAnswer(c)) /\ WF_vars(SleepAnswer(c))

FairSpec == Spec /\ Fairness

---------------------------------------------------------------------------
\* The types of the variables.
TypeOK ==
  /\ p \in PowerContext
  /\ readings \in Readings
  /\ events \in Nat /\ posted \in Nat /\ requests \in Nat
  /\ mbox \in [Clients -> Seq(Messages4Clients)]
  /\ owes \in [Clients -> {"nothing", "shutdown", "sleep"}]
  /\ believes \in [Clients -> {"normal", "shutdown", "sleep"}]
  /\ prepared \in SUBSET Clients
  /\ power \in {"on", "off", "dormant"}

Holds(msg, c) == \E n \in DOMAIN mbox[c] : mbox[c][n] = msg
WillAnswerShutdown(c) == Holds("SHUTDOWN_PREPARE_IND", c) \/ owes[c] = "shutdown"
WillAnswerSleep(c)    == Holds("SLEEP_PREPARE_IND", c) \/ owes[c] = "sleep"

\* The power manager never waits for nobody, nor for a client that has not
\* been asked: a NOTIFIED state has a client with its pending flag, and each
\* of those has the request in its queue or has read it and not answered.
\* Flags of a round never survive it, for they would hold up the next one.
WaitsOnlyForTheAsked ==
  /\ p.shutdown_pending \cup p.sleep_pending \subseteq p.clients
  /\ p.state = "TERMINATING_NOTIFIED" <=> p.shutdown_pending # {}
  /\ p.state = "SOPORIFIC_NOTIFIED" <=> p.sleep_pending # {}
  /\ \A c \in p.shutdown_pending : WillAnswerShutdown(c)
  /\ \A c \in p.sleep_pending : WillAnswerSleep(c)

\* The power goes off only when every client registered at that moment has
\* answered in the same round, whoever registered or left during it.
OffOnlyWhenPrepared ==
  [][power' = "off" /\ power = "on" => p.clients \subseteq prepared']_vars

\* The power goes off only if, when the last answer comes in, the charger
\* lets it: what the readings were at the request does not count.
OffOnlyWhenAllowed ==
  [][power' = "off" /\ power = "on" => readings.can_power_off]_vars

\* A request of the user is never left over: it would turn the next low
\* battery into a normal shutdown, or power the product off on its own.
RequestEndsWithRound ==
  p.user_initiated_shutdown => p.state = "TERMINATING_NOTIFIED"

\* A client that was told of a shutdown or of a sleep is told when it is
\* over: what it believes once it has read its queue is what the power manager
\* is doing.  (One that registers in SOPORIFIC_RESPONDED is told nothing.)
Activity ==
  CASE p.state = "TERMINATING_NOTIFIED" -> "shutdown"
    [] p.state \in {"SOPORIFIC_NOTIFIED", "SOPORIFIC_RESPONDED"} -> "sleep"
    [] OTHER -> "normal"
CancelReachesEveryone ==
  \A c \in p.clients :
    LET news == Keep(mbox[c], Messages4Clients \ {"POWER_OFF"})
        view == IF news = << >> THEN believes[c] ELSE Belief("normal", news[Len(news)])
    IN  view \in {Activity, "normal"}

\* A shutdown that the clients were asked to prepare for comes to its end:
\* the power goes off or the power manager is back in OK.
ShutdownRoundEnds ==
  (p.state = "TERMINATING_NOTIFIED") ~> (power # "on" \/ p.state = "OK")
=============================================================================
