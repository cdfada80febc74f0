--------------------------- MODULE StereoTopology ---------------------------
(***************************************************************************)
(* The stereo topology in detail: its clients call it, its rules and goals *)
(* engines exchange messages, its procedures work with the handset service *)
(* and are answered in their own time.  Messages are delivered one at a    *)
(* time and in order, but a goal in the queue waits for its lock.          *)
(***************************************************************************)
EXTENDS StereoFlow, FiniteSets

CONSTANTS Inputs,      \* the calls that are tried
          MaxInputs,   \* bound on the calls
          MaxRadio,    \* bound on links that come and go by themselves
          MaxLinks,    \* handsets connected at once: 2 with multipoint
          MaxTimeouts, \* bound on the stop timeouts
          Backlog      \* bound on the messages when anything is added from outside

\* The queue entries suffice for the goals of the table.
ASSUME GoalsAssumption == G!GoalsFit
ASSUME LinksAssumption == MaxLinks \in Nat

VARIABLES topo, rules, active, count, slots, mail, proc, env, timer,
          moves   \* what was used of the bounds

vars == <<topo, rules, active, count, slots, mail, proc, env, timer, moves>>

World == [topo |-> topo, rules |-> rules, active |-> active, count |-> count,
          slots |-> slots, mail |-> mail, proc |-> proc, env |-> env,
          timer |-> timer]

Become(w) ==
  /\ topo' = w.topo /\ rules' = w.rules /\ active' = w.active /\ count' = w.count
  /\ slots' = w.slots /\ mail' = w.mail /\ proc' = w.proc /\ env' = w.env
  /\ timer' = w.timer

\* As StereoTopology_Init leaves it
Init ==
  /\ topo = [state |-> "STOPPED", app_task |-> "none", prohibit |-> FALSE, shutdown |-> FALSE]
  /\ rules = R!NoRulesRun
  /\ active = {} /\ count = 0 /\ slots = << >> /\ mail = << >>
  /\ proc = [le |-> "none", connect |-> "idle", disconnect |-> "none", step |-> 0]
  /\ \E paired \in BOOLEAN :
       env = [links |-> 0, all |-> FALSE, one |-> FALSE, allowed |-> FALSE,
              connectable |-> FALSE, paired |-> paired]
  /\ timer = FALSE
  /\ moves = [inputs |-> 0, radio |-> 0, timeouts |-> 0]

---------------------------------------------------------------------------
(* Delivery of the first message that is not held back.                    *)

Deliverable == {n \in DOMAIN mail : ~G!Locked(World, mail[n])}
First == CHOOSE n \in Deliverable : \A k \in Deliverable : n <= k

Message == mail[First]
Rest == [World EXCEPT !.mail = RemoveAt(@, First)]

CanDeliver == Deliverable # {}
Receives(kind) == CanDeliver /\ Message.kind = kind
Handled(w) == Become(w) /\ UNCHANGED moves

GoalDecision ==
  /\ Receives("decision")
  /\ Handled(HandleGoalDecision(Rest, TRUE, Message.goal))
QueuedGoal ==
  /\ Receives("queued")
  /\ Handled(HandleGoalDecision(Rest, FALSE, Message.goal))
DelayedComplete ==
  /\ Receives("complete")
  /\ Handled(GoalProcComplete(Rest, Message.goal))
DelayedCancel ==
  /\ Receives("cancelled")
  /\ Handled(G!ClearGoal(Rest, Message.goal))
ScriptStepComplete ==
  /\ Receives("step")
  /\ Handled(StepCompletes(Rest))
DisconnectAllCfm ==
  /\ Receives("ALL_CFM")
  /\ Handled(DisconnectConfirmed(Rest, "disconnect_handset"))
DisconnectCfm ==
  /\ Receives("DISCONNECT_CFM")
  /\ Handled(DisconnectConfirmed(Rest, "disconnect_lru_handset"))
StopFinished ==
  /\ Receives("STOP_FINISHED")
  /\ Handled(HandleStopCompletion(Rest))
LinkLoss ==
  /\ Receives("LINK_LOSS")
  /\ Handled(R!SetEvent(Rest, "LINKLOSS"))

Deliver ==
  \/ GoalDecision \/ QueuedGoal \/ DelayedComplete \/ DelayedCancel \/ ScriptStepComplete
  \/ DisconnectAllCfm \/ DisconnectCfm \/ StopFinished \/ LinkLoss

---------------------------------------------------------------------------
(* The calls of the clients.                                               *)

Calls(input, w) ==
  /\ input \in Inputs
  /\ Cardinality(Deliverable) <= Backlog
  /\ moves.inputs < MaxInputs
  /\ moves' = [moves EXCEPT !.inputs = @ + 1]
  /\ Become(w)

CallStart == Calls("start", Start(World))
CallStop == Calls("stop", Stop(World))
CallProhibit(prohibit) == Calls("prohibit", ProhibitHandsetConnection(World, prohibit))
CallConnectMru == Calls("connect", R!SetEvent(World, "USER_CONNECT"))
CallDisconnectAll == Calls("disconnect", R!SetEvent(World, "DISC_ALL"))
CallDisconnectLru == Calls("disconnect_lru", R!SetEvent(World, "DISC_LRU"))
ShutdownPrepare == Calls("shutdown", [World EXCEPT !.topo.shutdown = TRUE])

---------------------------------------------------------------------------
(* Answers of other modules, in their time.                                *)

Happens(w) ==
  /\ Cardinality(Deliverable) <= Backlog
  /\ Become(w) /\ UNCHANGED moves

LeAnswers == proc.le # "none" /\ Happens(LeConfirmed(World))
LeDisconnected ==
  /\ proc.step > 0 /\ Script[proc.step] = "disconnect_le"
  /\ Happens(StepCompletes(World))

ConnectAnswers(success, links) ==
  /\ proc.connect \in {"running", "cancelling"}
  /\ env.links + links <= MaxLinks
  /\ links > 0 => success
  /\ Happens(ConnectCfm(World, success, links))
ConnectStops ==
  /\ proc.connect \in {"cancelling", "cancelled"}
  /\ Happens(ConnectStopCfm(World))

\* A link ends that DisconnectAll or DisconnectLru has asked for.
LinkDisconnects(lru) ==
  /\ env.links > 0
  /\ env.all \/ (env.one /\ lru)
  /\ lru => env.one
  /\ env.one /\ env.links = 1 => lru
  /\ Happens(LinkDown(World, lru))

Radio(w) ==
  /\ Cardinality(Deliverable) <= Backlog
  /\ moves.radio < MaxRadio
  /\ moves' = [moves EXCEPT !.radio = @ + 1]
  /\ Become(w)

HandsetConnects ==
  /\ env.allowed /\ env.links < MaxLinks
  /\ Radio([World EXCEPT !.env.links = @ + 1, !.env.paired = TRUE])
LinkIsLost(lru) ==
  /\ env.links > 0
  /\ lru => env.one
  /\ env.one /\ env.links = 1 => lru
  /\ Radio(Post(LinkDown(World, lru), Plain("LINK_LOSS")))

\* Ten seconds are long against a message: it comes when none is due.
StopTimeout ==
  /\ timer /\ ~CanDeliver
  /\ moves.timeouts < MaxTimeouts
  /\ moves' = [moves EXCEPT !.timeouts = @ + 1]
  /\ Become(HandleStopTimeout(World))

ConnectIsAnswered ==
  \/ \E success \in BOOLEAN, links \in 0 .. 1 : ConnectAnswers(success, links)
  \/ ConnectStops
LinkDisconnectsAsAsked == \E lru \in BOOLEAN : LinkDisconnects(lru)

Next ==
  \/ Deliver
  \/ CallStart \/ CallStop \/ (\E prohibit \in BOOLEAN : CallProhibit(prohibit))
  \/ CallConnectMru \/ CallDisconnectAll \/ CallDisconnectLru \/ ShutdownPrepare
  \/ LeAnswers \/ LeDisconnected \/ ConnectIsAnswered \/ LinkDisconnectsAsAsked
  \/ HandsetConnects \/ (\E lru \in BOOLEAN : LinkIsLost(lru)) \/ StopTimeout

Spec == Init /\ [][Next]_vars

\* The scheduler delivers and what was asked of another module is answered;
\* clients, handsets and a timeout that the bound leaves out owe nothing.
Fairness ==
  /\ <>[]CanDeliver => []<><<Deliver>>_vars
  /\ WF_vars(LeAnswers) /\ WF_vars(LeDisconnected)
  /\ WF_vars(ConnectIsAnswered) /\ WF_vars(LinkDisconnectsAsAsked)

FairSpec == Spec /\ Fairness

---------------------------------------------------------------------------
\* The types of the variables; no goal is counted, held back or answered for
\* that does not exist.
TypeOK ==
  /\ topo \in [state : {"STOPPED", "STARTING", "STARTED", "STOPPING"},
               app_task : {"none", "app"}, prohibit : BOOLEAN, shutdown : BOOLEAN]
  /\ rules \in R!RuleSet
  /\ active \subseteq GoalIds
  /\ count \in 0 .. G!CountLimit - 1
  /\ DOMAIN slots \subseteq GoalIds /\ \A g \in DOMAIN slots : slots[g] \subseteq GoalIds
  /\ proc \in [le : {"none", "goal", "script"},
               connect : {"idle", "running", "cancelling", "cancelled"},
               disconnect : {"none", "goal", "script"}, step : 0 .. Len(Script)]
  /\ env.links \in 0 .. MaxLinks /\ env.all => env.links > 0
  /\ timer \in BOOLEAN

\* A goal in the queue has an entry whose lock names only goals that are
\* active, so that it is let go; the count covers at least the messages, so
\* that the entries are not wiped while one of them is needed
\* (goalsEngine_QueueGoal, ClearGoal, UpdateQueueMasks, ResetPendingQueueIfEmpty).
QueueIsReleased ==
  /\ \A n \in DOMAIN mail : G!IsQueued(mail[n]) => mail[n].goal \in DOMAIN slots
  /\ \A g \in DOMAIN slots : slots[g] \subseteq active
  /\ Len(Keep(mail, G!QueuedMessages)) <= count

\* Goals run together only if both allow it: the exclusive one is really gone,
\* and the script that stops everything runs alone (GoalsEngine_ActivateGoal).
OnlyConcurrentGoalsRun ==
  \A g, h \in active : g # h => h \in ConcurrentWith(g)

\* While the topology is STOPPING somebody waits for the answer, the timeout
\* runs, and the goal that stops everything is decided, queued, active or done:
\* no later decision pushes it out of the queue (StereoTopology_Stop,
\* goalsEngine_ClearPendingGoalsQueue).
StopIsUnderWay ==
  topo.state = "STOPPING" =>
    /\ topo.app_task = "app" /\ timer
    /\ \/ "system_stop" \in active
       \/ \E n \in DOMAIN mail :
            \/ mail[n].kind \in {"decision", "queued"} /\ mail[n].goal = "system_stop"
            \/ mail[n].kind = "STOP_FINISHED"

\* When the topology says that it has stopped, and not that it gave up, no
\* handset is connected and none may connect: the "known clean state" of
\* StereoTopology_Stop.
ConfirmedStopIsClean ==
  [][topo.state = "STOPPING" /\ topo.state' = "STOPPED" /\ ~StopTimeout
       => env.links = 0 /\ ~env.allowed /\ ~env.connectable /\ ~env.all]_vars

\* A topology that starts gets to STARTED, whatever is left over from a stop
\* that timed out, unless the shutdown forbids connections meanwhile
\* (stereoTopologyEnterStartingState, the rules of START).
StartCompletes == topo.state = "STARTING" ~> (topo.state # "STARTING" \/ topo.shutdown)
=============================================================================
