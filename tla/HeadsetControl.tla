--------------------------- MODULE HeadsetControl ---------------------------
(***************************************************************************)
(* The headset application from the end of its start up: headset_sm with   *)
(* the wired audio controller, the stereo topology, the system state and   *)
(* the power manager around it.  One scheduler delivers the messages of    *)
(* all of them, one at a time and in the order they were sent; each        *)
(* delivery is an action.  Around them the user presses buttons, the cable *)
(* and the battery move, timers come due, and the radio works.             *)
(***************************************************************************)
EXTENDS HeadsetFlow, FiniteSets

CONSTANTS Buttons,         \* the user's inputs that are tried, by button
          Cables,          \* what the cable may end in: "none", "wall" or "host"
          MaxInputs,       \* bound on the inputs
          MaxCableMoves,   \* bound on plugging in and out
          MaxBatteryMoves, \* bound on the changes of the battery reading
          MaxRadioMoves,   \* bound on links, link losses and audio changes
          Backlog,         \* bound on the queue when anything is added from outside
          AutoPowerOn      \* ENABLE_HEADSET_AUTO_POWER_ON, or a reset that asked for it

\* The inputs of headset_ui_config, the ends of a cable, a flag of the build.
ASSUME InputsAssumption ==
  /\ Buttons \subseteq {"UI_POWER_ON", "UI_POWER_OFF", "UI_PAIR_HANDSET",
                        "UI_DELETE_HANDSETS", "UI_FACTORY_RESET"}
  /\ Cables \subseteq {"none", "wall", "host"}
  /\ AutoPowerOn \in BOOLEAN

VARIABLES sm, wired, topo, usb, ss, p, queue, timers, env, power,
          moves   \* what was used of the four bounds

vars == <<sm, wired, topo, usb, ss, p, queue, timers, env, power, moves>>

TimerIds == {"TIMEOUT_LIMBO", "TIMEOUT_IDLE", "TIMEOUT_LINK", "TIMEOUT_STOP"}

World == [sm |-> sm, wired |-> wired, topo |-> topo, usb |-> usb, ss |-> ss, p |-> p,
          queue |-> queue, timers |-> timers, env |-> env, power |-> power]

Become(w) ==
  /\ sm' = w.sm /\ wired' = w.wired /\ topo' = w.topo /\ usb' = w.usb
  /\ ss' = w.ss /\ p' = w.p /\ queue' = w.queue /\ timers' = w.timers
  /\ env' = w.env /\ power' = w.power

\* As HeadsetInit_CompleteInitialisation leaves the program: every module is
\* initialised and SystemState_StartUp has run its empty table.
Init ==
  /\ sm = [state |-> "NULL", user_pairing |-> FALSE, auto_poweron |-> AutoPowerOn,
           disconnect_lock |-> FALSE]
  /\ wired = [paused |-> FALSE, connected |-> FALSE]
  /\ topo = [state |-> "STOPPED", app_task |-> "none", shutdown |-> FALSE,
             stopping |-> FALSE, disconnecting |-> FALSE]
  /\ usb = [enabled |-> FALSE, attached |-> TRUE, enumerated |-> FALSE]
  /\ ss = [state |-> "limbo", transition |-> "startup", index |-> 1]
  /\ p = [P!PowerInit EXCEPT !.state = "OK", !.init_complete = TRUE,
            !.clients = {TopologyTask, HeadsetTask}, !.allow_sleep = {TopologyTask}]
  /\ queue = <<[to |-> HeadsetTask, id |-> "STATE_CHANGE",
                old |-> "starting_up", new |-> "limbo"]>>
  /\ timers = [id \in TimerIds |-> 0]
  /\ \E paired \in BOOLEAN, cable \in Cables :
       env = [cable |-> cable, unsafe |-> FALSE, linked |-> FALSE, paired |-> paired,
              audio |-> FALSE, pairing |-> FALSE, prompting |-> FALSE]
  /\ power = "on"
  /\ moves = [inputs |-> 0, cable |-> 0, battery |-> 0, radio |-> 0]

---------------------------------------------------------------------------
(* Delivery: the first message that is not held back.  A conditional       *)
(* message waits for the lock, a goal for the script that stops everything. *)

Blocked(m) ==
  \/ m.id = "LINK_DISCONNECTION_COMPLETE" /\ sm.disconnect_lock
  \/ m.id \in {"ALLOW_HANDSET_CONNECT", "DISCONNECT_HANDSET"} /\ topo.stopping

Deliverable == {n \in DOMAIN queue : ~Blocked(queue[n])}
First == CHOOSE n \in Deliverable : \A k \in Deliverable : n <= k

\* The message being handled, and the world without it.
Message == queue[First]
Rest == [World EXCEPT !.queue = RemoveAt(@, First)]

Receives(task, id) ==
  /\ power = "on"
  /\ Deliverable # {}
  /\ Message.to = task /\ Message.id = id

\* The handler has run to its end.
Handled(w) == Become(w) /\ UNCHANGED moves

---------------------------------------------------------------------------
(* headsetSmHandleMessage                                                  *)

\* headsetSmHandleUiInput
UiPowerOn ==
  /\ Receives(HeadsetTask, "UI_POWER_ON")
  /\ Handled(IF sm.state = "LIMBO" THEN SystemCall(Rest, "power_on") ELSE Rest)
UiPowerOff ==
  /\ Receives(HeadsetTask, "UI_POWER_OFF")
  /\ Handled(Post(Rest, Msg(HeadsetTask, "POWER_OFF")))
UiPairHandset ==
  /\ Receives(HeadsetTask, "UI_PAIR_HANDSET")
  /\ Handled(Post(Rest, Msg(HeadsetTask, "PAIR_HANDSET")))
UiDeleteHandsets ==
  /\ Receives(HeadsetTask, "UI_DELETE_HANDSETS")
  /\ Handled(Post(Rest, Msg(HeadsetTask, "DELETE_HANDSETS")))
UiFactoryReset ==
  /\ Receives(HeadsetTask, "UI_FACTORY_RESET")
  /\ Handled(Post(Rest, Msg(HeadsetTask, "FACTORY_RESET")))

\* The states behind LIMBO and behind POWERING_ON in the enumeration
AfterPoweringOn == {"PAIRING", "IDLE", "BUSY", "TERMINATING", "POWERING_OFF"}
AfterLimbo      == AfterPoweringOn \cup {"POWERING_ON"}

InternalPowerOff ==
  /\ Receives(HeadsetTask, "POWER_OFF")
  /\ Handled(IF sm.state \in AfterLimbo THEN SystemCall(Rest, "power_off") ELSE Rest)
InternalFactoryReset ==
  /\ Receives(HeadsetTask, "FACTORY_RESET")
  /\ Handled(IF sm.state \in AfterPoweringOn THEN SetState(Rest, "FACTORY_RESET") ELSE Rest)
InternalPairHandset(paused) ==
  /\ Receives(HeadsetTask, "PAIR_HANDSET")
  /\ Handled(HandlePairHandset(Rest, paused))
InternalDeleteHandsets ==
  /\ Receives(HeadsetTask, "DELETE_HANDSETS")
  /\ Handled(IF Active(Rest) THEN InitiateLinkDisconnection(Rest) ELSE Rest)

SystemStateChange ==
  /\ Receives(HeadsetTask, "STATE_CHANGE")
  /\ Handled(HandleStateChange(Rest, Message.old, Message.new))
HeadsetStopCfm ==
  /\ Receives(HeadsetTask, "STOP_CFM")
  /\ Handled(HandleStopCfm(Rest))
HeadsetShutdownPrepare ==
  /\ Receives(HeadsetTask, "SHUTDOWN_PREPARE_IND")
  /\ Handled(HandleShutdownPrepare(Rest))

\* Mutant: the limbo timer is not started again when the charger goes.
ChargerDetachedIgnored ==
  /\ Receives(HeadsetTask, "CHARGER_DETACHED")
  /\ Handled(Rest)

\* headsetSmHandleChargerDetached
ChargerDetached ==
  /\ Receives(HeadsetTask, "CHARGER_DETACHED")
  /\ Handled(IF sm.state = "LIMBO" THEN StartLimboTimer(Rest) ELSE Rest)

TimeoutLimbo ==
  /\ Receives(HeadsetTask, "TIMEOUT_LIMBO")
  /\ Handled(IF sm.state = "LIMBO" THEN PowerOffRequest(Rest) ELSE Rest)
TimeoutIdle ==
  /\ Receives(HeadsetTask, "TIMEOUT_IDLE")
  /\ Handled(IF sm.state = "IDLE" /\ ~env.linked
            THEN Post(Rest, Msg(HeadsetTask, "POWER_OFF")) ELSE Rest)
LinkDisconnectionComplete ==
  /\ Receives(HeadsetTask, "LINK_DISCONNECTION_COMPLETE")
  /\ Handled(HandleLinkDisconnectionComplete(Rest))
LinkDisconnectionTimeout ==
  /\ Receives(HeadsetTask, "TIMEOUT_LINK")
  /\ Handled(HandleLinkDisconnectionTimeout(Rest))

PairConfirm ==
  /\ Receives(HeadsetTask, "PAIR_CFM")
  /\ Handled(HandlePairCfm(Rest))
TopologyHandsetDisconnected ==
  /\ Receives(HeadsetTask, "TOPOLOGY_DISCONNECTED_IND")
  /\ Handled(HandleTopologyDisconnected(Rest, Message.status))
HandsetConnected ==
  /\ Receives(HeadsetTask, "CONNECTED_IND")
  /\ Handled(IF sm.state = "IDLE" THEN CancelAll(Rest, "TIMEOUT_IDLE") ELSE Rest)
HandsetDisconnected ==
  /\ Receives(HeadsetTask, "DISCONNECTED_IND")
  /\ Handled(HandleHandsetDisconnected(Rest))
AudioChanged ==
  /\ Receives(HeadsetTask, "AUDIO_IND")
  /\ Handled(IF Active(Rest) THEN SetState(Rest, CoreState(Rest)) ELSE Rest)

---------------------------------------------------------------------------
(* The tasks of the other modules.                                         *)

\* headsetWiredAudioController_HandleMessage
WiredEnumerated ==
  /\ Receives("wired", "ENUMERATED")
  /\ Handled(IF ~wired.paused /\ usb.enabled THEN WiredConnected(Rest) ELSE Rest)
WiredDeconfigured ==
  /\ Receives("wired", "DECONFIGURED")
  /\ Handled(IF ~wired.paused /\ usb.enabled /\ ~WiredActive(Rest)
            THEN WiredDisconnected(Rest) ELSE Rest)

\* stereoTopology_HandleMessage
TopologyShutdownPrepare ==
  /\ Receives(TopologyTask, "SHUTDOWN_PREPARE_IND")
  /\ Handled(ShutdownReady([Rest EXCEPT !.topo.shutdown = TRUE], TopologyTask))
TopologyStopTimeout ==
  /\ Receives(TopologyTask, "TIMEOUT_STOP")
  /\ Handled(TopologyStopped(SendStopCfm(Rest)))
TopologyStopFinished ==
  /\ Receives(TopologyTask, "STOP_FINISHED")
  /\ Handled(IF topo.state = "STOPPING" THEN TopologyStopped(SendStopCfm(Rest)) ELSE Rest)

\* StereoTopology_HandleGoalDecision.  SYSTEM_STOP cancels the active goals,
\* unless it is active itself; ALLOW_HANDSET_CONNECT completes at once.
GoalSystemStop ==
  /\ Receives("goals", "SYSTEM_STOP")
  /\ Handled([Rest EXCEPT !.topo.stopping = TRUE, !.topo.disconnecting = FALSE])
GoalAllowHandsetConnect ==
  /\ Receives("goals", "ALLOW_HANDSET_CONNECT")
  /\ Handled(IF topo.state = "STARTING" THEN [Rest EXCEPT !.topo.state = "STARTED"] ELSE Rest)
GoalDisconnectHandset ==
  /\ Receives("goals", "DISCONNECT_HANDSET")
  /\ Handled(IF topo.state = "STARTED" THEN [Rest EXCEPT !.topo.disconnecting = TRUE] ELSE Rest)

\* systemState_MessageHandler runs the step's handler, then the transition.
TransitionMessage(id) ==
  /\ Receives("transition", id)
  /\ LET handled == IF id = "STOP_CFM" THEN HandleStopCfm(Rest) ELSE Rest
     IN  Handled(IF S!Expects(ss, id)
                 THEN RunSystem(handled, S!DoTransition(handled.ss, ss.transition))
                 ELSE Rest)

\* appPowerHandleMessage, for what the charger and the battery report
PowerMessage ==
  /\ Receives("power", "EVENT")
  /\ Handled(PowerEvent(Rest))
---------------------------------------------------------------------------
(* What moves on its own.                                                  *)

Outside(w) ==
  /\ power = "on"
  /\ Cardinality(Deliverable) <= Backlog
  /\ Become(w)

Move(kind, max, w) ==
  /\ Outside(w)
  /\ moves[kind] < max
  /\ moves' = [moves EXCEPT ![kind] = @ + 1]

Happens(w) == Outside(w) /\ UNCHANGED moves

\* The inputs that the buttons give in the present context (headset_ui_config)
Offered == IF sm.state \in {"PAIRING", "IDLE", "BUSY"} THEN Buttons \ {"UI_POWER_ON"}
                                                     ELSE Buttons \cap {"UI_POWER_ON"}

Press(input) ==
  /\ input \in Offered
  /\ Move("inputs", MaxInputs, Post(World, Msg(HeadsetTask, input)))

TimerExpires(id) ==
  /\ timers[id] > 0
  /\ Happens(Post([World EXCEPT !.timers[id] = @ - 1],
                  Msg(IF id = "TIMEOUT_STOP" THEN TopologyTask ELSE HeadsetTask, id)))

\* The charger's messages to the power manager and to the headset
CablePlugged(end) ==
  /\ env.cable = "none"
  /\ Move("cable", MaxCableMoves,
          Post([World EXCEPT !.env.cable = end], Msg("power", "EVENT")))
CablePulled ==
  /\ env.cable # "none"
  /\ LET off == [World EXCEPT !.env.cable = "none"]
     IN  Move("cable", MaxCableMoves,
              LeaveBus(Post(Post(off, Msg("power", "EVENT")), Msg(HeadsetTask, "CHARGER_DETACHED"))))
BatteryMoves ==
  /\ power = "on"
  /\ Move("battery", MaxBatteryMoves,
          Post([World EXCEPT !.env.unsafe = ~@], Msg("power", "EVENT")))

\* The USB driver attaches the application that was opened; the host enumerates it.
UsbAttaches ==
  /\ ~usb.attached
  /\ Happens([World EXCEPT !.usb.attached = TRUE])
HostEnumerates ==
  /\ usb.attached /\ env.cable = "host" /\ ~usb.enumerated
  /\ Happens(Post([World EXCEPT !.usb.enumerated = TRUE], Msg("wired", "ENUMERATED")))

\* The link to the handset is gone, and its audio with it.
LinkGone(w) ==
  IF ~w.env.linked THEN w
  ELSE LET gone == [w EXCEPT !.env.linked = FALSE, !.env.audio = FALSE]
           told == Post(gone, Msg(HeadsetTask, "DISCONNECTED_IND"))
       IN  IF w.env.audio THEN Post(told, Msg(HeadsetTask, "AUDIO_IND")) ELSE told

TopologyDisconnected(status) ==
  [to |-> HeadsetTask, id |-> "TOPOLOGY_DISCONNECTED_IND", status |-> status]

LinkComesUp ==
  /\ ~env.linked /\ env.paired /\ topo.state = "STARTED"
  /\ Move("radio", MaxRadioMoves,
          Post([World EXCEPT !.env.linked = TRUE], Msg(HeadsetTask, "CONNECTED_IND")))
LinkIsLost ==
  /\ env.linked
  /\ Move("radio", MaxRadioMoves, LinkGone(World))
AudioMoves ==
  /\ env.linked
  /\ Move("radio", MaxRadioMoves,
          Post([World EXCEPT !.env.audio = ~@], Msg(HeadsetTask, "AUDIO_IND")))
PairingEnds(success) ==
  /\ env.pairing
  /\ Happens(Post([World EXCEPT !.env.pairing = FALSE, !.env.paired = @ \/ success],
                  Msg(HeadsetTask, "PAIR_CFM")))

PromptEnds ==
  /\ env.prompting
  /\ Happens(Post([World EXCEPT !.env.prompting = FALSE], Msg("transition", "PROMPT_COMPLETED")))

\* The two procedures of the topology that take time end in disconnecting.
DisconnectEnds(status) ==
  /\ topo.disconnecting
  /\ LET gone == IF status = "success" THEN LinkGone(World) ELSE World
     IN  Happens(Post([gone EXCEPT !.topo.disconnecting = FALSE], TopologyDisconnected(status)))
StopScriptEnds ==
  /\ topo.stopping
  /\ Happens(Post(Post([LinkGone(World) EXCEPT !.topo.stopping = FALSE],
                       TopologyDisconnected("success")),
                  Msg(TopologyTask, "STOP_FINISHED")))

Deliver ==
  \/ UiPowerOn \/ UiPowerOff \/ UiPairHandset \/ UiDeleteHandsets \/ UiFactoryReset
  \/ InternalPowerOff \/ InternalFactoryReset \/ InternalDeleteHandsets
  \/ \E paused \in BOOLEAN : InternalPairHandset(paused)
  \/ SystemStateChange \/ HeadsetStopCfm \/ HeadsetShutdownPrepare \/ ChargerDetached
  \/ TimeoutLimbo \/ TimeoutIdle \/ LinkDisconnectionComplete \/ LinkDisconnectionTimeout
  \/ PairConfirm \/ TopologyHandsetDisconnected
  \/ HandsetConnected \/ HandsetDisconnected \/ AudioChanged
  \/ WiredEnumerated \/ WiredDeconfigured
  \/ TopologyShutdownPrepare \/ TopologyStopTimeout \/ TopologyStopFinished
  \/ GoalSystemStop \/ GoalAllowHandsetConnect \/ GoalDisconnectHandset
  \/ \E id \in {"STOP_CFM", "PROMPT_COMPLETED"} : TransitionMessage(id)
  \/ PowerMessage

Progress ==
  \/ \E id \in TimerIds : TimerExpires(id)
  \/ UsbAttaches \/ HostEnumerates \/ PromptEnds \/ StopScriptEnds
  \/ \E success \in BOOLEAN : PairingEnds(success)
  \/ \E status \in {"success", "failed"} : DisconnectEnds(status)

Next ==
  \/ Deliver \/ Progress
  \/ \E input \in Buttons : Press(input)
  \/ \E end \in Cables \ {"none"} : CablePlugged(end)
  \/ CablePulled \/ BatteryMoves
  \/ LinkComesUp \/ LinkIsLost \/ AudioMoves

Spec == Init /\ [][Next]_vars

\* Every message has its action: this is ENABLED <<Deliver>>_vars.
CanDeliver == power = "on" /\ Deliverable # {}

\* The scheduler delivers, timers come due, and what another module or the
\* hardware has begun ends.  Nothing is assumed of the user, cable, battery
\* and radio.
Fairness ==
  /\ <>[]CanDeliver => []<><<Deliver>>_vars
  /\ \A id \in TimerIds : WF_vars(TimerExpires(id))
  /\ WF_vars(UsbAttaches) /\ WF_vars(HostEnumerates) /\ WF_vars(PromptEnds)
  /\ WF_vars(StopScriptEnds)
  /\ WF_vars(\E success \in BOOLEAN : PairingEnds(success))
  /\ WF_vars(\E status \in {"success", "failed"} : DisconnectEnds(status))

FairSpec == Spec /\ Fairness

---------------------------------------------------------------------------
\* The types of the variables.  Of each timer that is cancelled before it is
\* started, and of the one of the stop, there is never more than one.
TypeOK ==
  /\ sm.state \in {"NULL", "FACTORY_RESET", "LIMBO", "POWERING_ON", "PAIRING", "IDLE",
                   "BUSY", "TERMINATING", "POWERING_OFF"}
  /\ ss \in S!Context
  /\ p \in P!PowerContext
  /\ topo.state \in {"STOPPED", "STARTING", "STARTED", "STOPPING"}
  /\ topo.app_task \in {"none", "transition", HeadsetTask}
  /\ timers \in [TimerIds -> Nat]
  /\ \A id \in TimerIds \ {"TIMEOUT_LINK"} : timers[id] \in {0, 1}
  /\ power \in {"on", "off", "reboot", "panic"}

\* Once the headset has heard of every change of the system state, its own
\* state is the one that goes with it (headset_sm.h:23-44), whatever was
\* pressed, plugged or timed out in between.
HeadsetFollowsSystem ==
  power = "on" /\ ~Queued(World, "STATE_CHANGE") =>
    CASE sm.state = "LIMBO"        -> ss.state = "limbo"
      [] sm.state = "POWERING_ON"  -> ss.state = "powering_on"
      [] sm.state \in {"PAIRING", "IDLE", "BUSY"} -> ss.state = "active"
      [] sm.state = "POWERING_OFF" -> ss.state = "powering_off"
      [] OTHER -> TRUE

Pending(id) == timers[id] > 0 \/ Queued(World, id)

\* A timer never outlives what it was started for, even when it has come due
\* and waits behind other messages: the ones of limbo and of idle their state
\* (headsetExitLimbo, headsetExitIdle), the one of the topology the stopping.
TimersBelongToState ==
  /\ Pending("TIMEOUT_LIMBO") => sm.state = "LIMBO"
  /\ Pending("TIMEOUT_IDLE") => sm.state = "IDLE"
  /\ Pending("TIMEOUT_STOP") => topo.state = "STOPPING"

\* No order of events leads to a confirmation without a task to send it to
\* (StereoTopology_SendStopCfm when app_task is NULL), or to a second change
\* to limbo (the PanicNotZero of headsetSmHandleStateStartedUpToLimbo).
NoPanic == power # "panic"

\* While the headset pairs, USB audio is off and cannot make it busy
\* (headsetSmPrepareForBt).  The last step of a power on and the confirmation
\* of any pairing, also of one that has been left, turn it on: never in the
\* middle of a pairing.
PairingHasNoUsb == power = "on" /\ sm.state = "PAIRING" => ~usb.enabled

\* An ordinary shutdown (SystemState_Shutdown) takes the power only when no
\* cable is in, the system is in limbo, the headset has nothing to do and the
\* topology has stopped: for every order of the two clients' answers, the
\* charger's and the battery's messages and the user's power on.
ShutdownAgreed ==
  [][power' = "off" /\ ss'.transition = "shutdown" =>
       /\ env.cable = "none"
       /\ ss.state = "limbo"
       /\ sm.state \in {"LIMBO", "TERMINATING"}
       /\ topo.state = "STOPPED" /\ topo.shutdown]_vars

\* headset_sm.h:45, "LIMBO -left-> PowerdOff: No ChargerConnected/Limbo Timer
\* Expires": a headset left in limbo without a cable powers off.
LimboEnds ==
  (sm.state = "LIMBO" /\ env.cable = "none") ~>
  (sm.state # "LIMBO" \/ env.cable # "none" \/ power # "on")

\* The same, as long as the battery never gets unsafe: a limbo timeout that
\* falls into a shutdown for the battery is lost (appPowerOffRequest), and
\* when the battery recovers the shutdown is cancelled.
LimboEndsWhileSafe == []~env.unsafe => LimboEnds
=============================================================================
