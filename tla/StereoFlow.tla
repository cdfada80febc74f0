----------------------------- MODULE StereoFlow -----------------------------
(***************************************************************************)
(* The handlers of the stereo topology as functions on a world w: its      *)
(* rules, its goals, the procedures that reach the goals and the script    *)
(* that stops everything.  Beside the fields of RulesEngine and            *)
(* GoalsEngine the world has                                               *)
(*   topo   the topology: state, app_task, prohibit and shutdown flags     *)
(*   proc   the procedures that wait for somebody: whose complete_fn the   *)
(*          LE and the disconnecting task hold, how far connecting is, and *)
(*          the step of the script                                         *)
(*   env    the handset service: its links and requests, and what may connect *)
(*   timer  the stop timeout is running                                    *)
(***************************************************************************)
EXTENDS Keeping, Integers, SequencesExt

Post(w, m) == [w EXCEPT !.mail = Append(@, m)]
Drop(w, m) == [w EXCEPT !.mail = Dropping(@, {m})]
About(kind, goal) == [kind |-> kind, goal |-> goal]
Plain(kind) == [kind |-> kind]

---------------------------------------------------------------------------
(* The tables.                                                             *)

Goals == <<"connect_handset", "disconnect_handset", "connectable_handset",
           "allow_handset_connect", "allow_le_connection", "system_stop", "disconnect_lru_handset">>
GoalIds == ToSet(Goals)

StartGoals == {"connectable_handset", "allow_handset_connect", "allow_le_connection"}

Contention(goal) == CASE goal = "system_stop" -> "cancel"
                      [] goal \in StartGoals -> "concurrent"
                      [] OTHER -> "wait"
Exclusive(goal) == CASE goal = "connect_handset" -> "disconnect_handset"
                     [] goal \in {"disconnect_handset", "disconnect_lru_handset"} -> "connect_handset"
                     [] OTHER -> "none"
ConcurrentWith(goal) == IF goal \in StartGoals THEN StartGoals \ {goal} ELSE {}

On(event, fn, goal) == [event |-> event, fn |-> fn, goal |-> goal]
RuleTable ==
  << On("STOP",         "Always",      "system_stop"),
     On("LINKLOSS",     "Connect",     "connect_handset"),
     On("START",        "Always",      "allow_le_connection"),
     On("START",        "Connectable", "connectable_handset"),
     On("START",        "Allow",       "allow_handset_connect"),
     On("START",        "Connect",     "connect_handset"),
     On("PROHIBIT",     "Always",      "disconnect_handset"),
     On("USER_CONNECT", "Connect",     "connect_handset"),
     On("DISC_ALL",     "Always",      "disconnect_handset"),
     On("DISC_LRU",     "Lru",         "disconnect_lru_handset") >>

\* The rule functions
Runs(w, n) ==
  CASE RuleTable[n].fn = "Always" -> TRUE
    [] RuleTable[n].fn = "Connect" -> w.env.paired /\ ~w.topo.prohibit
    [] RuleTable[n].fn = "Connectable" -> w.env.paired /\ w.env.links = 0 /\ ~w.topo.shutdown
    [] RuleTable[n].fn = "Allow" -> ~w.topo.shutdown
    [] RuleTable[n].fn = "Lru" ->
         w.active \cap {"disconnect_handset", "connect_handset"} = {} /\ w.env.links > 0

R == INSTANCE RulesEngine

---------------------------------------------------------------------------
(* The handset service, as far as the procedures see it.                   *)

\* Mutant: nothing to disconnect is not noticed.
DisconnectAllBlindly(w) == [w EXCEPT !.env.all = TRUE]

\* HandsetService_DisconnectAll: there is one client, and it joins a request
\* that is in progress.
DisconnectAll(w) ==
  IF w.env.all THEN w
  ELSE IF w.env.links > 0 THEN [w EXCEPT !.env.all = TRUE] ELSE Post(w, Plain("ALL_CFM"))

\* HandsetService_DisconnectLruHandsetRequest: no handset, no confirmation.
DisconnectLru(w) == IF w.env.links > 0 THEN [w EXCEPT !.env.one = TRUE] ELSE w

\* A link ends; lru: it is the one that was asked for.
LinkDown(w, lru) ==
  LET ended == [w EXCEPT !.env.links = @ - 1, !.env.one = @ /\ ~lru]
      one   == IF w.env.one /\ lru THEN Post(ended, Plain("DISCONNECT_CFM")) ELSE ended
  IN  IF w.env.all /\ ended.env.links = 0
      THEN Post([one EXCEPT !.env.all = FALSE], Plain("ALL_CFM")) ELSE one

---------------------------------------------------------------------------
(* Procedures, begun and cancelled by the goals engine.                    *)

\* Procedures_DelayedCompleteCfmCallback
CompleteLater(w, goal) == Post(w, About("complete", goal))
\* Procedures_DelayedCancelCfmCallback
CancelLater(w, goal) == Drop(Post(w, About("cancelled", goal)), About("complete", goal))

\* Mutant: the links are taken down before connections are refused.
ScriptDisconnectFirst ==
  <<"begin", "disconnect", "refuse_handset", "not_connectable", "refuse_le", "disconnect_le", "finished">>

\* STEREO_SYSTEM_STOP_SCRIPT
Script ==
  <<"begin", "refuse_handset", "not_connectable", "refuse_le", "disconnect", "disconnect_le", "finished">>

\* scriptEngine_StartCurrentStep before the end; three steps complete at once,
\* the others wait for an answer.
StartStep(w, n) ==
  LET at   == [w EXCEPT !.proc.step = n]
      what == Script[n]
  IN  CASE what = "begin" -> Post(at, Plain("step"))
        [] what = "refuse_handset" -> Post([at EXCEPT !.env.allowed = FALSE], Plain("step"))
        [] what = "not_connectable" -> Post([at EXCEPT !.env.connectable = FALSE], Plain("step"))
        [] what = "refuse_le" -> [at EXCEPT !.proc.le = "script"]
        [] what = "disconnect" -> [DisconnectAll(at) EXCEPT !.proc.disconnect = "script"]
        [] what = "disconnect_le" -> at
        [] what = "finished" -> Post(Post(at, Plain("STOP_FINISHED")), Plain("step"))

\* StereoTopology_Proc...Start and ...Cancel of each procedure
ConnectableStart(w, goal)  == CompleteLater([w EXCEPT !.env.connectable = TRUE], goal)
ConnectableCancel(w, goal) == CancelLater([w EXCEPT !.env.connectable = FALSE], goal)
AllowHandsetStart(w, goal) == CompleteLater([w EXCEPT !.env.allowed = TRUE], goal)
AllowHandsetCancel(w, goal) == CancelLater(w, goal)
AllowLeStart(w)         == [w EXCEPT !.proc.le = "goal"]
AllowLeCancel(w, goal)  == CancelLater([w EXCEPT !.proc.le = "none"], goal)
ConnectStart(w)         == [w EXCEPT !.proc.connect = "running"]
ConnectCancel(w)        == [w EXCEPT !.proc.connect = "cancelling"]
DisconnectStart(w)      == [DisconnectAll(w) EXCEPT !.proc.disconnect = "goal"]
DisconnectLruStart(w)   == [DisconnectLru(w) EXCEPT !.proc.disconnect = "goal"]
DisconnectCancel(w, goal) == CancelLater([w EXCEPT !.proc.disconnect = "none"], goal)

\* The functions that the table of the goals names
BeginProcedure(w, goal) ==
  CASE goal = "connectable_handset"    -> ConnectableStart(w, goal)
    [] goal = "allow_handset_connect"  -> AllowHandsetStart(w, goal)
    [] goal = "allow_le_connection"    -> AllowLeStart(w)
    [] goal = "connect_handset"        -> ConnectStart(w)
    [] goal = "disconnect_handset"     -> DisconnectStart(w)
    [] goal = "disconnect_lru_handset" -> DisconnectLruStart(w)
    [] goal = "system_stop"            -> StartStep(w, 1)

\* The script is cancelled by no goal but its own, which runs already.
CancelProcedure(w, goal) ==
  CASE goal = "connectable_handset"    -> ConnectableCancel(w, goal)
    [] goal = "allow_handset_connect"  -> AllowHandsetCancel(w, goal)
    [] goal = "allow_le_connection"    -> AllowLeCancel(w, goal)
    [] goal = "connect_handset"        -> ConnectCancel(w)
    [] goal \in {"disconnect_handset", "disconnect_lru_handset"} -> DisconnectCancel(w, goal)

G == INSTANCE GoalsEngine

---------------------------------------------------------------------------
(* The topology.                                                           *)

InState(w, state) == w.topo.state = state

\* StereoTopology_SendStopCfm
SendStopCfm(w) == [w EXCEPT !.timer = FALSE]

\* StereoTopology_SetState, by the state that is entered
EnterStopped(w) == [w EXCEPT !.topo.state = "STOPPED", !.topo.app_task = "none"]
EnterStopping(w) == R!SetEvent([w EXCEPT !.topo.state = "STOPPING", !.timer = TRUE], "STOP")
EnterStarted(w) == [w EXCEPT !.topo.state = "STARTED"]
EnterStarting(w) ==
  R!SetEvent([w EXCEPT !.topo.state = "STARTING", !.topo.prohibit = FALSE,
                       !.topo.shutdown = FALSE, !.rules = R!ResetEvent(@, R!RuleEvents)],
             "START")

Start(w) == IF InState(w, "STOPPED") THEN EnterStarting(w) ELSE w

Stop(w) ==
  LET asked == [w EXCEPT !.topo.app_task = "app"]
  IN  CASE InState(w, "STARTED") -> EnterStopping(asked)
        [] InState(w, "STOPPED") -> SendStopCfm(asked)
        [] OTHER -> asked

ProhibitHandsetConnection(w, prohibit) ==
  LET set == [w EXCEPT !.topo.prohibit = prohibit]
  IN  IF prohibit THEN R!SetEvent(set, "PROHIBIT") ELSE set

HandleStopTimeout(w) == EnterStopped(SendStopCfm(w))

HandleStopCompletion(w) ==
  IF InState(w, "STOPPING") THEN EnterStopped(SendStopCfm(w)) ELSE w

\* stereoTopology_GoalProcComplete; no goal has a completion event.
GoalProcComplete(w, goal) ==
  G!ClearGoal(IF InState(w, "STARTING") /\ goal = "allow_handset_connect"
              THEN EnterStarted(w) ELSE w, goal)

\* scriptEngine_ProcCompleteCfm
StepCompletes(w) ==
  CASE w.proc.step = 0 -> w
    [] w.proc.step = Len(Script) -> GoalProcComplete([w EXCEPT !.proc.step = 0], "system_stop")
    [] OTHER -> StartStep(w, w.proc.step + 1)

\* StereoTopology_HandleGoalDecision
Accepts(w, goal) ==
  CASE goal = "system_stop" -> TRUE
    [] goal \in StartGoals -> InState(w, "STARTING")
    [] OTHER -> InState(w, "STARTED")

HandleGoalDecision(w, new, goal) ==
  R!SetRuleComplete(IF Accepts(w, goal) THEN G!ActivateGoal(w, new, goal) ELSE w, goal)

\* stereoTopology_ProcAllowLEConnectionCompleteCancel
LeConfirmed(w) ==
  LET done == [w EXCEPT !.proc.le = "none"]
  IN  IF w.proc.le = "goal" THEN GoalProcComplete(done, "allow_le_connection")
                            ELSE StepCompletes(done)

\* stereoTopology_ProcDisconnectHandsetHandleMessage: one task and one
\* complete_fn for two procedures and a step of the script.
DisconnectConfirmed(w, goal) ==
  LET done == [w EXCEPT !.proc.disconnect = "none"]
  IN  CASE w.proc.disconnect = "none" -> w
        [] w.proc.disconnect = "goal" -> GoalProcComplete(done, goal)
        [] w.proc.disconnect = "script" -> StepCompletes(done)

\* stereoTopology_ProcConnectHandsetHandleHandsetMpConnectCfm; links: those
\* that came up.  A success does not clear the cancel_fn it calls.
ConnectCfm(w, success, links) ==
  LET up == [w EXCEPT !.env.links = @ + links]
  IN  IF w.proc.connect = "running"
      THEN GoalProcComplete([up EXCEPT !.proc.connect = "idle"], "connect_handset")
      ELSE G!ClearGoal([up EXCEPT !.proc.connect = IF success THEN "cancelled" ELSE "idle"],
                       "connect_handset")

\* stereoTopology_ProcConnectHandsetHandleHandsetMpConnectStopCfm
ConnectStopCfm(w) == G!ClearGoal([w EXCEPT !.proc.connect = "idle"], "connect_handset")
=============================================================================
