---------------------------- MODULE HeadsetFlow ----------------------------
(***************************************************************************)
(* The handlers of headset_sm.c and of what it calls without waiting:      *)
(* headset_wired_audio_controller.c, stereo_topology.c, headset_usb.c, the *)
(* system state and the power manager.  One handler runs to its end and    *)
(* calls its way through several of these modules before the scheduler     *)
(* delivers the next message, so each is a function on a world w, the      *)
(* record of every module's state:                                         *)
(*   sm     smTaskData of headset_sm.c                                     *)
(*   wired  whether the wired audio controller is paused, and the state of *)
(*          the wire it recorded when it was                               *)
(*   topo   the state, the app_task and shutdown_in_progress of the        *)
(*          topology, and which of its stop and disconnect goals runs      *)
(*   usb    usb_audio_enable, is_attached_to_hub, enumerated by the host   *)
(*   ss, p  system_state_ctx and app_power                                 *)
(*   queue  the messages of all tasks, in the order they will be delivered *)
(*   timers how many timed messages with each id are still to come due     *)
(*   env    cable, battery, handset and pairing, which move on their own   *)
(*   power  "on", or how the program ended: "off", "reboot" or "panic"     *)
(***************************************************************************)
EXTENDS Keeping, SequencesExt

CONSTANT PowerPrompts   \* the power on table waits for a prompt

TopologyTask == "topology"
HeadsetTask  == "headset"

\* The tables of headset_init.c that run after the start up.
HeadsetTables == [t \in {"init", "startup", "power_on", "power_off",
                         "sleep", "shutdown", "emergency"} |->
  CASE t = "power_on"  -> <<IF PowerPrompts THEN "PROMPT_COMPLETED" ELSE "SYNC",
                            "SYNC", "SYNC">>
    [] t = "power_off" -> <<"STOP_CFM", "SYNC">>
    [] t \in {"shutdown", "emergency"} -> <<"HALT">>
    [] OTHER -> << >>]

S == INSTANCE TransitionTables
       WITH Sync <- "SYNC", Halt <- "HALT", LimboRemoved <- FALSE,
            Messages <- {"PROMPT_COMPLETED", "STOP_CFM"}, Tables <- HeadsetTables

\* The other clients of the power manager answer what they are asked at once
\* and do not take part here.
P == INSTANCE PowerFlow WITH Clients <- {TopologyTask, HeadsetTask}

---------------------------------------------------------------------------
(* Messages (message.h, external).                                         *)

Msg(to, id) == [to |-> to, id |-> id]

\* MessageSend to no task panics.
Post(w, m) ==
  IF m.to = "none" THEN [w EXCEPT !.power = "panic"]
                   ELSE [w EXCEPT !.queue = Append(@, m)]

SendLater(w, id) == [w EXCEPT !.timers[id] = @ + 1]

\* MessageCancelAll drops what is due and what is to come.
CancelAll(w, id) ==
  [w EXCEPT !.timers = [t \in DOMAIN @ |-> IF t = id THEN 0 ELSE @[t]],
            !.queue = Without(@, {id})]

Queued(w, id) == \E n \in DOMAIN w.queue : w.queue[n].id = id

\* MessageCancelFirst
CancelFirst(w, id) ==
  IF ~Queued(w, id) THEN [w EXCEPT !.timers[id] = IF @ = 0 THEN 0 ELSE @ - 1]
  ELSE LET first == CHOOSE n \in DOMAIN w.queue :
                      w.queue[n].id = id /\ \A k \in 1 .. n - 1 : w.queue[k].id # id
       IN  [w EXCEPT !.queue = RemoveAt(@, first)]

---------------------------------------------------------------------------
(* USB and the wired audio controller.                                     *)

\* HeadsetUsb_IsAudioConnected, which in this build is IsWiredAudioActive
WiredActive(w) == w.usb.enabled /\ w.usb.attached /\ w.env.cable = "host"

\* The device leaves the bus: USB_DEVICE_DECONFIGURED, if it was enumerated.
LeaveBus(w) ==
  IF w.usb.enumerated
  THEN Post([w EXCEPT !.usb.enumerated = FALSE], Msg("wired", "DECONFIGURED"))
  ELSE w

\* HeadsetUsb_AudioEnable and HeadsetUsb_AudioDisable open another USB
\* application: detached now, attached again when the first one is released.
UsbAudioEnable(w) ==
  IF w.usb.enabled THEN w
  ELSE LeaveBus([w EXCEPT !.usb.enabled = TRUE, !.usb.attached = FALSE])
UsbAudioDisable(w) ==
  IF ~w.usb.enabled THEN w
  ELSE LeaveBus([w EXCEPT !.usb.enabled = FALSE, !.usb.attached = FALSE])

\* HeadsetWiredAudioController_Disable
WiredDisable(w) ==
  [w EXCEPT !.wired = [paused |-> TRUE, connected |-> WiredActive(w)]]

---------------------------------------------------------------------------
(* Stereo topology (its rules and goals are reduced to the goals it sends). *)

\* Mutant: the timeout is not cancelled when the topology has stopped.
SendStopCfmUncancelled(w) == Post(w, Msg(w.topo.app_task, "STOP_CFM"))

\* StereoTopology_SendStopCfm
SendStopCfm(w) == Post(CancelAll(w, "TIMEOUT_STOP"), Msg(w.topo.app_task, "STOP_CFM"))

\* StereoTopology_SetState(STOPPED) clears app_task.
TopologyStopped(w) == [w EXCEPT !.topo.state = "STOPPED", !.topo.app_task = "none"]

\* StereoTopology_Start
TopologyStart(w) ==
  IF w.topo.state # "STOPPED" THEN w
  ELSE Post([w EXCEPT !.topo.state = "STARTING", !.topo.shutdown = FALSE],
            Msg("goals", "ALLOW_HANDSET_CONNECT"))

\* StereoTopology_Stop; the requester is noted whatever the state.
TopologyStop(w, task) ==
  LET asked == [w EXCEPT !.topo.app_task = task]
  IN  CASE w.topo.state = "STARTED" ->
             Post(SendLater([asked EXCEPT !.topo.state = "STOPPING"], "TIMEOUT_STOP"),
                  Msg("goals", "SYSTEM_STOP"))
        [] w.topo.state = "STOPPED" -> SendStopCfm(asked)
        [] OTHER -> asked

---------------------------------------------------------------------------
(* System state and power manager, with what they do to the others.        *)

\* The two power down steps end the program.
Halt(w) == [w EXCEPT !.power = "off"]

\* The functions in the tables; each gets the transition task.
RunStep(w, t, k) ==
  CASE t = "power_on" /\ k = 1 /\ PowerPrompts -> [w EXCEPT !.env.prompting = TRUE]
    [] t = "power_on" /\ k = 2 -> TopologyStart(w)
    [] t = "power_on" /\ k = 3 -> UsbAudioEnable(w)
    [] t = "power_off" /\ k = 1 -> TopologyStop(w, "transition")
    [] t = "power_off" /\ k = 2 -> UsbAudioDisable(w)
    [] t \in {"shutdown", "emergency"} -> Halt(w)
    [] OTHER -> w

\* The changes that headsetSmHandleSystemStateChange has a branch for.
Heeded == {<<"starting_up", "limbo">>, <<"limbo", "powering_on">>,
           <<"powering_on", "active">>, <<"active", "powering_off">>}

\* The system state broadcasts at most one change before and one after the steps.
Announce(w, changes) ==
  IF changes # << >> /\ <<Head(changes).old, Head(changes).new>> \in Heeded
  THEN Post(w, [to |-> HeadsetTask, id |-> "STATE_CHANGE",
                old |-> Head(changes).old, new |-> Head(changes).new])
  ELSE w

\* One run of the transition engine (the call returns only if the power stays).
RunSystem(w, run) ==
  LET begun == Announce([w EXCEPT !.ss = run.ctx], run.begins)
      after[k \in run.first - 1 .. run.last] ==
        IF k = run.first - 1 THEN begun ELSE RunStep(after[k - 1], run.ctx.transition, k)
  IN  Announce(after[run.last], run.ends)

\* SystemState_PowerOn, _PowerOff, _Shutdown and _EmergencyShutdown
SystemCall(w, t) ==
  IF S!MayInitiate(w.ss, t) THEN RunSystem(w, S!InitiateTransition(w.ss, t)) ELSE w

\* What the conditions of the power manager read.  With a cable the charger
\* is attached, and neither Charger_CanPowerOff nor _CanEnterDormant holds.
Readings(w) == [can_power_off     |-> w.env.cable = "none",
                can_enter_dormant |-> w.env.cable = "none",
                unsafe            |-> w.env.unsafe]

\* SHUTDOWN_CANCELLED_IND and POWER_OFF have no handler in the two clients.
Prepare(w, clients) ==
  LET ind(v, c) == IF c \in clients THEN Post(v, Msg(c, "SHUTDOWN_PREPARE_IND")) ELSE v
  IN  ind(ind(w, TopologyTask), HeadsetTask)

PowerEffect(w, e) ==
  CASE e.kind = "tell" /\ e.msg = "SHUTDOWN_PREPARE_IND" -> Prepare(w, e.to)
    [] e.kind = "ask" -> SystemCall(w, e.what)
    [] OTHER -> w

RunPower(w, result) ==
  LET step[n \in 0 .. Len(result.effects)] ==
        IF n = 0 THEN [w EXCEPT !.p = result.p]
                 ELSE PowerEffect(step[n - 1], result.effects[n])
  IN  step[Len(result.effects)]

PowerOffRequest(w)  == RunPower(w, P!OffRequest(w.p, Readings(w)))
PowerEvent(w)       == RunPower(w, P!PowerEvent(w.p, Readings(w)))
ShutdownReady(w, c) == RunPower(w, P!ShutdownPrepareResponse(w.p, Readings(w), c))

---------------------------------------------------------------------------
(* headset_sm.c                                                            *)

\* headsetSmIsIdleTimerNeedToStart (ANC and leakthrough are off)
NeedsIdleTimer(w) == w.sm.state = "IDLE" /\ ~w.env.linked /\ ~WiredActive(w)

\* headsetSmStartIdleTimer
StartIdleTimer(w) ==
  IF NeedsIdleTimer(w) THEN SendLater(CancelAll(w, "TIMEOUT_IDLE"), "TIMEOUT_IDLE") ELSE w

\* Mutant: the timer is started beside the one that is running.
StartLimboTimerAgain(w) == SendLater(w, "TIMEOUT_LIMBO")

\* headsetSmStartLimboTimer
StartLimboTimer(w) == SendLater(CancelAll(w, "TIMEOUT_LIMBO"), "TIMEOUT_LIMBO")

\* Pairing_PairStop: a pairing under way ends, and says so.
PairStop(w) ==
  IF w.env.pairing THEN Post([w EXCEPT !.env.pairing = FALSE], Msg(HeadsetTask, "PAIR_CFM"))
                   ELSE w

\* Mutant: the limbo timer runs on after limbo was left.
ExitStateKeepingLimboTimer(w) ==
  CASE w.sm.state = "PAIRING" -> PairStop([w EXCEPT !.sm.user_pairing = FALSE])
    [] w.sm.state = "IDLE"    -> CancelAll(w, "TIMEOUT_IDLE")
    [] w.sm.state = "BUSY" /\ ~WiredActive(w) -> TopologyStart(w)
    [] OTHER -> w

\* The exit functions of headsetSetState
ExitState(w) ==
  CASE w.sm.state = "LIMBO"   -> CancelAll(w, "TIMEOUT_LIMBO")
    [] w.sm.state = "PAIRING" -> PairStop([w EXCEPT !.sm.user_pairing = FALSE])
    [] w.sm.state = "IDLE"    -> CancelAll(w, "TIMEOUT_IDLE")
    [] w.sm.state = "BUSY" /\ ~WiredActive(w) -> TopologyStart(w)
    [] OTHER -> w

\* headsetEnterLimbo (no upgrade is waiting to be committed)
EnterLimbo(w) ==
  LET timed == StartLimboTimer(w)
  IN  IF timed.sm.auto_poweron
      THEN Post([timed EXCEPT !.sm.auto_poweron = FALSE], Msg(HeadsetTask, "UI_POWER_ON"))
      ELSE timed

\* headsetEnterPairing; the prohibition makes the topology disconnect.
EnterPairing(w) ==
  IF w.sm.user_pairing THEN Post(w, Msg("goals", "DISCONNECT_HANDSET"))
                       ELSE [w EXCEPT !.env.pairing = TRUE]

\* The entry functions of headsetSetState
EnterState(w) ==
  CASE w.sm.state = "LIMBO"         -> EnterLimbo(w)
    [] w.sm.state = "FACTORY_RESET" -> [w EXCEPT !.power = "reboot"]
    [] w.sm.state = "PAIRING"       -> EnterPairing(w)
    [] w.sm.state = "IDLE"          -> StartIdleTimer(w)
    [] w.sm.state = "BUSY" /\ WiredActive(w) -> TopologyStop(WiredDisable(w), HeadsetTask)
    [] w.sm.state = "TERMINATING"   -> ShutdownReady(w, HeadsetTask)
    [] OTHER -> w

\* headsetSetState
SetState(w, new) == EnterState([ExitState(w) EXCEPT !.sm.state = new])

Active(w) == w.sm.state \in {"IDLE", "BUSY"}

\* headsetSmDetermineCoreState, as the handlers call it from IDLE and BUSY
CoreState(w) == IF w.env.audio \/ WiredActive(w) THEN "BUSY" ELSE "IDLE"

\* headsetSmWiredAudioConnected and headsetSmWiredAudioDisconnected
WiredConnected(w) ==
  IF w.sm.state \in {"POWERING_ON", "IDLE", "BUSY"} THEN SetState(w, "BUSY") ELSE w
WiredDisconnected(w) == IF w.sm.state = "BUSY" THEN SetState(w, "IDLE") ELSE w

\* HeadsetWiredAudioController_Enable
WiredEnable(w) ==
  IF ~w.wired.paused THEN w
  ELSE LET told == IF WiredActive(w) = w.wired.connected THEN w
                   ELSE IF WiredActive(w) THEN WiredConnected(w) ELSE WiredDisconnected(w)
       IN  [told EXCEPT !.wired.paused = FALSE]

\* headetSmHandleTopologyStopCfm
HandleStopCfm(w) ==
  IF w.sm.state = "POWERING_OFF" THEN PowerOffRequest(SetState(w, "LIMBO")) ELSE WiredEnable(w)

\* headsetSmHandlePoweredOn
HandlePoweredOn(w) ==
  CASE ~WiredActive(w) /\ w.env.paired -> SetState(w, "IDLE")
    [] ~WiredActive(w) /\ ~w.env.paired ->
         SetState([UsbAudioDisable(w) EXCEPT !.sm.user_pairing = FALSE], "PAIRING")
    [] WiredActive(w) /\ w.sm.state = "POWERING_ON" -> SetState(w, "IDLE")
    [] OTHER -> w

\* Mutant: a power off is followed from IDLE and BUSY only.
HandleStateChangeWhenActive(w, old, new) ==
  CASE <<old, new>> = <<"starting_up", "limbo">>   -> SetState(w, "LIMBO")
    [] <<old, new>> = <<"limbo", "powering_on">>   -> SetState(w, "POWERING_ON")
    [] <<old, new>> = <<"powering_on", "active">>  -> HandlePoweredOn(w)
    [] <<old, new>> = <<"active", "powering_off">> ->
         IF Active(w) THEN SetState(w, "POWERING_OFF") ELSE w

\* headsetSmHandleSystemStateChange
HandleStateChange(w, old, new) ==
  CASE <<old, new>> = <<"starting_up", "limbo">> ->
         IF w.sm.state = "NULL" THEN SetState(w, "LIMBO") ELSE [w EXCEPT !.power = "panic"]
    [] <<old, new>> = <<"limbo", "powering_on">>   -> SetState(w, "POWERING_ON")
    [] <<old, new>> = <<"powering_on", "active">>  -> HandlePoweredOn(w)
    [] <<old, new>> = <<"active", "powering_off">> -> SetState(w, "POWERING_OFF")

\* headsetSmHandlePowerShutdownPrepareInd (no silent commit)
HandleShutdownPrepare(w) ==
  IF w.sm.state = "LIMBO" THEN ShutdownReady(w, HeadsetTask) ELSE SetState(w, "TERMINATING")

\* Mutant: USB audio stays enabled when the user asks for pairing.
HandlePairHandsetKeepingUsb(w, paused) ==
  IF w.sm.state = "IDLE" \/ (w.env.audio /\ paused)
  THEN SetState([w EXCEPT !.sm.user_pairing = TRUE], "PAIRING")
  ELSE w

\* headsetSmHandleInternalPairHandset; a paused stream is allowed for.
HandlePairHandset(w, paused) ==
  IF w.sm.state = "IDLE" \/ (w.env.audio /\ paused)
  THEN SetState([UsbAudioDisable(w) EXCEPT !.sm.user_pairing = TRUE], "PAIRING")
  ELSE w

\* headsetSmHandlePairingPairConfirm
HandlePairCfm(w) ==
  IF w.sm.state = "PAIRING" THEN SetState(UsbAudioEnable(w), "IDLE") ELSE w

\* headsetSmHandleStereoTopologyHandsetDisInd
HandleTopologyDisconnected(w, status) ==
  CASE ~(w.sm.user_pairing /\ w.sm.state = "PAIRING") -> w
    [] status = "success" -> [w EXCEPT !.env.pairing = TRUE]
    [] status = "failed"  -> SetState(w, "IDLE")
    [] OTHER -> w

\* headsetSmHandleHandsetServiceDisconnectedInd
HandleHandsetDisconnected(w) ==
  StartIdleTimer(IF w.env.linked THEN w ELSE [w EXCEPT !.sm.disconnect_lock = FALSE])

\* headsetSmInitiateLinkDisconnection: the COMPLETE message waits for the lock.
InitiateLinkDisconnection(w) ==
  LET known  == w.env.linked /\ w.env.paired
      asked  == IF known THEN Post(w, Msg("goals", "DISCONNECT_HANDSET")) ELSE w
      locked == [asked EXCEPT !.sm.disconnect_lock = known]
  IN  SendLater(Post(locked, Msg(HeadsetTask, "LINK_DISCONNECTION_COMPLETE")), "TIMEOUT_LINK")

\* headsetSmHandleInternalLinkDisconnectionComplete
HandleLinkDisconnectionComplete(w) ==
  [CancelFirst(w, "TIMEOUT_LINK") EXCEPT !.env.paired = FALSE]

\* headsetSmLinkDisconnectionTimeout
HandleLinkDisconnectionTimeout(w) ==
  IF w.sm.disconnect_lock
  THEN [CancelAll(w, "LINK_DISCONNECTION_COMPLETE") EXCEPT !.sm.disconnect_lock = FALSE]
  ELSE w
=============================================================================
