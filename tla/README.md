# A TLA+ model of the headset's control

This directory specifies and checks the control flow of the headset
application in `src/headset` and of the ADK modules below it in `src/adk`:
powering on and off, the agreement of all parties before the power goes, the
application's state machine with its timers, wired audio, pairing, the
topology that starts and stops everything that talks to a handset, the
connection to one handset from the handset service down to the profile and the
link, and the sharing of the radio between scans, calls and music.

Everything runs on one processor under a scheduler that delivers messages one
at a time and runs each handler to its end. There is no preemption, but nearly
every operation is split over several messages. What is hard is the order in
which they meet: the user, the cable, the battery, the radio and the timers
post messages at any time, and a handler acts on what was true when its message
was sent.

## 1. Inventory

| Component | Source | State | Operations |
|---|---|---|---|
| system state | `adk/src/domains/power/system_state` | power state, current transition and its position, listeners | power on/off, shutdown, emergency shutdown, sleep, start up; answers to steps |
| power manager | `adk/src/domains/power/power_manager` | round state, flags per client, user request | power off request, register/unregister, allow/prohibit sleep, answers, charger/battery/temperature events |
| headset application | `headset/src/headset_sm.c` | application state, timers, link lock, flags | UI inputs, state changes, shutdown, charger, timers, pairing, links, audio |
| wired audio controller | `headset/src/headset_wired_audio_controller.c` | paused, recorded wire | pause, resume, USB messages |
| USB applications | `headset/src/headset_usb.c`, `adk/.../usb` | attached, audio enabled, enumerated | enable, disable, detach/attach |
| rules engine | `adk/src/common/rules_engine` | events, status per rule | set/reset event, rule complete |
| goals engine | `adk/src/topologies/common/goals_engine` | active goals, queue, locks, counter | activate, cancel, clear |
| stereo topology | `adk/src/topologies/stereo_topology` | state, `app_task`, prohibit and shutdown flags | start, stop, prohibit, connect, disconnect, shutdown, stop timeout |
| procedures and stop script | `.../stereo_topology/procedures`, `.../script_engine` | who waits for which answer, script step | start, cancel, complete |
| handset service | `adk/src/services/handset` | per phone: state, wanted profiles, attempts, LE state, who waits for a connection, a stop, a disconnection | connect, stop, disconnect one or all; links and profiles that come and go; retries |
| connection manager | `adk/src/domains/bt/connection_manager` | per link: state, users, who opened it, lock | open, give up, link opened and closed |
| profile manager | `adk/src/domains/bt/profile_manager` | per phone: connected profiles, request orders and index with its cancelled bit, who waits | connect, disconnect, stop, indications and confirmations of profiles |
| HFP profile | `adk/src/domains/bt/profiles/hfp_profile` | state, who is to be told | connect, disconnect, the library's indications |
| BR/EDR scan manager | `adk/src/domains/bt/bredr_scan_manager` | per scan: clients with types, state, parameters; who paused all | request, release, pause, resume, confirmations, throttling |
| bandwidth manager | `adk/src/domains/bt/bandwidth_manager` | table of features, running, throttled | start, stop, posted actions |
| other profiles, pairing | `adk/src/domains/bt` | links, keys | connect, disconnect, pair |
| the rest | charger, battery, temperature, UI, prompts, LEDs, audio, ANC, GAIA, DFU, voice assistants, Fast Pair, bring-up, TWS, vendored code | | |

Interaction. The user's input reaches the headset, which calls
`SystemState_PowerOn` or `SystemState_PowerOff`. The system state runs a table
of steps; a step may start the topology, stop it or play a prompt, and the
transition then waits for the answer. Every change of the system state is
broadcast by message, and the headset changes its own state when it hears of
it. In limbo a timer asks the power manager to switch off; the power manager
asks every client (the headset and the topology are two) to prepare, collects
the answers, and calls `SystemState_Shutdown`. The topology turns each call
into an event of its rules, the rules into decisions, the decisions into goals,
and the goals into procedures that work on the handset service and the Bluetooth
stack and are answered later. The handset service opens a link through the
connection manager, then asks the profile manager for the phone's profiles; the
profile manager asks one profile after the other, each profile takes a hold of
the link of its own and drives its library, and every answer comes back up as a
message; the phone itself may open or end each of these layers at any time.
Below, the scan manager and the bandwidth manager share the radio among whoever
wants to be found, calls, music, voice and upgrades. USB and charger messages reach the wired audio controller and the
headset, which stop the topology and start it again around wired audio.

What makes each component correct:

* **system state**: state and table position agree; no step is skipped or run
  twice, whatever supersedes what; late answers do nothing; every transition ends.
* **power manager**: power goes only when all clients have agreed in this round
  and the charger allows it; a round ends; a cancellation reaches all; nothing
  of a round is left for the next.
* **headset**: follows the system state; leaves limbo, POWERING_ON and
  TERMINATING; timers belong to their states; wired audio and pairing do not
  disturb each other; no order of events panics.
* **rules and goals engines**: no event, decision or queued goal is lost or
  blocked; goals that exclude one another never run together.
* **topology**: a stop is confirmed to whoever asked, with everything
  disconnected; a start completes.
* **handset service, profile manager, HFP, connection manager**: whoever asks is
  answered, also when requests, stops, failures and losses come across each other;
  when nothing is under way all layers agree on what is connected.
* **scan and bandwidth managers**: the controller scans for what the clients ask;
  a pause holds and is answered; who runs below a more important feature, and
  nobody else, is throttled.

`PROJECT.json` lists the hazards line by line, with the properties that guard
each, or the reason why none does yet.

## 2. Modules

| Module | Contents |
|---|---|
| `TransitionTables` | `system_state.c` as functions on its context and its tables: which transition may begin, running steps, completing, handling an answer |
| `PowerStates` | abstract specification: one power state that moves along the documented graph |
| `SystemState` | the context with listeners and answers in flight, one action per call and message; `Seen` instantiates `PowerStates` |
| `MCSystemState` | the headset's tables (`headset_init.c`), the long bring-up one cut down to two of its waits |
| `SystemState_proofs` | the theorems about `SystemState` |
| `Keeping` | what is left of a message queue when messages are cancelled |
| `PowerFlow` | `power_manager` as functions on its context; each returns the context and the effects (messages, calls of `SystemState_*`) |
| `PowerManager` | the power manager with its clients, monitors and message queues |
| `HeadsetFlow` | handlers of `headset_sm`, wired audio, USB, and the coarse topology as functions on one world; instantiates `PowerFlow` and `TransitionTables` |
| `HeadsetControl` | the composition: one scheduler queue, one action per message, the user, cable, battery, radio and timers around it |
| `RulesEngine`, `GoalsEngine` | the engines as functions, parameterised by tables and by the procedures |
| `StereoFlow` | the topology: its tables, procedures, script, handlers; instantiates both engines |
| `StereoTopology` | the topology as a state machine, with its clients and the handset service around it |
| `ConnectionFlow` | the connection manager's records of one phone's links, and Bluestack's side of them |
| `ProfileFlow` | the profile manager's requests and the HFP profile's state machine; extends `ConnectionFlow` |
| `HandsetFlow` | the handset service's instance of one phone: entries and exits of its states, requests, what the layers below tell it; extends `ProfileFlow` |
| `Handset` | the composition: the task loop, the users, the phone, Bluestack and the HFP library |
| `BandwidthFlow` | the bandwidth manager's table and its posted actions |
| `ScanFlow` | the scan manager over the connection library; extends `BandwidthFlow` |
| `RadioSharing` | the composition: the users of both managers, the queue, the controller |
| `MCRadioSharing` | the registrations of the features, in the order of `headset_init.c` |
| `Keeping_proofs` | lemmas about sequences that every other proof module uses |
| `PowerManager_proofs`, `RadioSharing_proofs`, `HeadsetControl_proofs`, `Handset_proofs`, `StereoTopology_proofs` | the theorems about these compositions |
| `StopScript_proofs` | that a stop of the topology stays under way; extends `StereoTopology_proofs` |

A handler that calls into several modules is one step of the program, so it is
one action here. To keep such an action readable, handlers are written as
functions from a *world* (a record of the state of all modules) to a world, in
the modules called `...Flow`, `...Engine` and `TransitionTables`, and the state machine modules hold
the variables, compose the world from them, apply the function and put the
result back (`Become`). A nested call in C is a nested application here, in the
same order. The message queue is a sequence in the world; `MessageCancelAll`
filters it, a conditional message is skipped while its lock is held. A
`MessageSendLater` is a count of running timers; when it comes due it is
appended to the queue, from where it can still be cancelled, as in the firmware.

How state corresponds to the code:

* `SystemState`: `ctx` is `system_state_ctx` (state, transition, index; the
  state on completion follows from the transition and the source state);
  `called`, `late` and `heard` are what the environment and the properties need.
* `PowerManager`: `p` is `app_power` (state, `user_initiated_shutdown`,
  `init_complete`, the task list and three flags per client as sets).
* `HeadsetControl`: `sm` is `headset_taskdata`, `wired` the controller's task
  data, `topo` the topology's, `usb` the application's; `ss` and `p` as above;
  `env` is cable, battery, links, audio, prompt.
* `StereoTopology`: `rules` is the rule set, `active`, `count`, `slots` the goal
  set, `proc` the task data of the procedures and the script, `topo` the
  topology's, `env` the handset service's.
* `Handset`: `hs` is `handset_service_state_machine_t` with its `ble_sm` (the
  three lists of clients are one bit each), `conn` and `le` are `cm_connection_t`
  of the two links, `pm` the request properties of the device and the clients'
  lists, `connected` the HFP bit of `device_property_connected_profiles`, `hfp`
  the instance with its membership of the notify lists. `air`, `leAir` and `slc`
  are Bluestack's and the library's, `waiting` the users' own view.
* `RadioSharing`: `slots`, `running`, `throttled` are `bandwidth_manager_info`;
  `ctx` the scan contexts, `disabler` the `disable_task`; `outstanding` is the
  connection library's counter, `commands` and `scanning` the controller's.

## 3. Runs

| Run | Bounds | Properties |
|---|---|---|
| SystemState | 7 calls, 2 answers in flight | TypeOK, PositionMatchesState, EveryStepCalled, AwaitedIsOwed, PastEndIsHarmless, ListenerFollowsStateGraph, TransitionsEnd |
| PowerManager | 2 clients, 2 monitor messages, 5 requests | TypeOK, WaitsOnlyForTheAsked, RequestEndsWithRound, CancelReachesEveryone, OffOnlyWhenPrepared, OffOnlyWhenAllowed, ShutdownRoundEnds |
| HeadsetPower | wall charger, every button but pairing, 2 presses, one move each of cable and battery, two of the radio | TypeOK, HeadsetFollowsSystem, ShutdownAgreed, LimboEndsWhileSafe |
| HeadsetWired | USB host, prompts, every button, 2 presses, one cable move, two of the radio, a steady battery | TimersBelongToState, NoPanic, PairingHasNoUsb |
| StereoTopology | all calls, 5 calls, one radio move, one link, one timeout | TypeOK, QueueIsReleased, OnlyConcurrentGoalsRun, StopIsUnderWay, ConfirmedStopIsClean, StartCompletes |
| RadioSharing | `Others`: a call and low latency music; users act while fewer than 2 messages and commands are under way | TypeOK, ThrottledByHigher, SettledAgree, UnthrottledScansAsAsked, DisableHolds, ScanFollowsClients, DisableIsAnswered |
| Handset | both transports, 2 attempts, 2 messages under way, 2 users of a link before a further connection | TypeOK, MarkFollowsProfile, ProfileRequestsEnd, DisconnectionRemembered, ConnectedHasLink, ConnectIsAnsweredWithoutLe |
| HeadsetLimbo, TopologyClean, BandwidthSlots, HandsetConnect, HandsetPanic | small instances | one property each, violated: see section 6 |

Why the bounds are enough. Seven system calls supersede every transition by
every other that may, from both stable states, and begin another one
afterwards; two answers in flight let a late answer of a superseded transition
arrive before and after the awaited one. Two clients are the smallest number
for which one has answered and the other has not; two monitor messages let a
condition change and change back within a round. In the headset two presses and
one or two moves of each kind (two of the radio: a link and then its audio or
its loss) allow any two of them to race any timer (timers are not
bounded) and any message in the queue; `Backlog = 1` means that something may
be added from outside behind one deliverable message, so that any two handlers
can be reordered against an external event. Five calls of the topology cover start, two
others, stop and a second start or stop.

In `Handset` and `RadioSharing` nothing is counted but what is in flight: the
users, the phone and the radio act again and again, and the state space is finite
because they wait while `Backlog` messages are under way. Two messages are enough
for any event to come between a request and its answer and for two indications
to meet (an opened link and its loss, a profile's answer and the loss of its
link); messages that wait for a lock do not hold up what the firmware finishes
(`Soon`). The invariants of `Handset` were also tried with three and four messages. Two attempts are the smallest number with a first, a last and a
retry between them. `MaxUsers` caps `conn.users`, which the code lets grow: a
user that is never given back (see HandsetConnect) would otherwise make it
unbounded. `RadioSharing` has a feature of each relation to page scan that the
product starts by itself, calls and music being of one priority; three priorities
in one table are `BandwidthSlots`.

`CHECK_DEADLOCK FALSE` is used where the product really comes to rest (powered
off, dormant, rebooted, stopped by an assertion, or with nothing left to do within
the bounds). `RadioSharing` never does, and deadlock is checked there.

Each passing run's properties were also tried against a changed definition: the
operators whose comment begins with "Mutant" are plausible mistakes (a dropped
guard, a missing reset, another order), and each breaks the property that
`PROJECT.json` pairs it with.

## 4. Fairness

* `<>[]CanDeliver => []<><<Deliver>>_vars`, weak fairness of message delivery:
  the scheduler never stops while a message can be delivered. `CanDeliver`
  stands for `ENABLED Deliver`, which it equals because every message has a
  handler; writing it out spares TLC the evaluation.
* Weak fairness of each timer, of a prompt's end, of pairing's end, of a USB
  attach, and of the answers of the handset service, because the hardware and the
  stack complete what they have begun. In `PowerManager`, weak fairness of each
  client's answer: `power_manager.h:13` says that clients must respond.
* `Handset`: weak fairness of taking a message, of timers, and of each thing
  Bluestack or the HFP library has begun (a page, a closing, an opening or ending
  service level connection). It is stated on the cause, `<>[]PageUnderWay =>
  []<><<PageOver>>_vars`, not on `ENABLED`: that the model makes these steps wait
  while `Backlog` messages are queued is a bound, and the stack does not give up
  for it. `RadioSharing`: delivery and the controller's commands.
* Nothing is assumed of the user, cable, battery and radio, of a phone, or of
  the users of the handset service and the scan manager.

## 5. What is proved

Every theorem is about the specification of a run, for every value of its
constants that the named assumptions allow. Each composition has one inductive
invariant `IInv`, which TLC has checked on the bounds of section 3 before it was
proved; safety properties follow from it, action properties from it and one step.
No theorem assumes a bound: `MaxInputs`, `Backlog` and the like are arbitrary.

### System state

`SystemState_proofs`, for all tables and with or without limbo (assumption
`TablesAssumption`: the tables are sequences of known kinds of steps):

| Theorem | Shows |
|---|---|
| `TypeCorrect` | `Spec => []TypeOK` |
| `PositionCorrect` | a transitional state stands at a step that waits, a stable one past the end of its table |
| `StepsCorrect` | a transition that ended has called all its steps, one that waits exactly those up to where it waits |
| `AnswerCorrect` | the awaited answer is still to come: late answers of superseded transitions never use it up |
| `PastEndCorrect` | whatever the handler reads behind the table's end, the state stays |
| `ListenerCorrect` | `Spec => Seen!Spec`: what a listener hears, with any delay, is a behaviour of `PowerStates` |

The inductive invariant is `TypeOK`, the three position properties together, and
`ChainInv`. The three positions need one another: that the transition can only move
when its answer comes depends on that answer being owed; that the answer is owed
depends on the steps called; that the index lies inside the table depends on
both. `ChainInv` says that the undelivered changes form a chain of edges of the
documented graph from what was heard to the present state; it is needed because
a delivery shows one change while later ones are already queued. The only
argument beyond case analysis is that the loop of `systemState_DoTransition`
stops: `LoopStops` takes the least index at which the table waits or ends (from
well-foundedness of the naturals). `TransitionFacts` and `RunOutcome` say what
a begun or continued transition looks like, and each action's step follows from
them.

### Sequences of messages

Queues are filtered (`MessageCancelAll`), read in order and taken from in the
middle (a message may wait for a lock). `Keeping_proofs` proves for `Keep`,
`Without` and `Dropping` what every later proof needs: the type of the result,
how it grows with an `Append`, what it does over `\o`, that every kept element is
one of the sequence and the other way round, what an element taken out of the
middle leaves, that two disjoint filters add up, and that the first kept element,
taken out, leaves the other kept ones in their order. The library's induction
theorems take an operator as a parameter; `SetInduction` and
`SequenceSetInduction` state the same for a *set* and so can be used.

### Power manager

`PowerManager_proofs`, for any set of clients, registered or not, and no
assumption at all. `IInv` is `TypeOK`; `RoundOK` (the flags belong to the round
and to registered clients); `ClientsOK`: *if a client read all its messages*, it
would owe an answer exactly if its flag is set, and would believe what the
manager does or nothing; and `Answered(p) \subseteq prepared`. The third part is
what makes the rest inductive, since the messages of several rounds can be
in one queue.

| Theorem | Shows |
|---|---|
| `PowerManagerInvariant`, `PowerManagerTypes` | `[]IInv`, `[]TypeOK` |
| `NobodyWaitsForTheUnasked` | a round waits only for registered clients that were asked and have not answered |
| `RequestIsNeverLeftOver` | the user's request ends with its round |
| `EveryClientLearnsTheEnd` | a client that has read its queue believes what the manager does |
| `PowerGoesOffPrepared`, `PowerGoesOffAllowed` | action properties: off only when every client has answered in this round, and only while the charger lets it |

### Radio sharing

`RadioSharing_proofs`, for any registrations and priorities (assumptions
`RegisteredAssumption`, `PageScanAssumption`, `OthersAssumption`: no feature is
registered twice, page scan is one of them, and the others exist). `IInv` is a conjunction over the world: the
library's counter is the number of requests on their way, what the controller will
scan for when they are done is what the contexts are enabled for (`LibraryOK`);
a context that moves waits for one of them (`Moving`); page scan is counted while
it is enabled (`PageOK`); the parameters are the type's unless the scan throttles
(`ParamsOK`); who was told that scanning is disabled can rely on it (`AnswerOK`);
and a context is as its clients want it but for the controller's answer
(`Wanting`). `Moving` and `Wanting` do not hold between the calls that one handler
makes, so that the lemmas about calls carry `Base` only.

| Theorem | Shows |
|---|---|
| `RadioInvariant`, `RadioTypes` | `[]IInv`, `[]TypeOK` |
| `ControllerAndContextsAgree` | nothing on its way: controller, contexts and bandwidth manager agree |
| `ScansAreAsAsked` | a scan that need not throttle has its clients' highest type |
| `DisablingIsRelied` | a pause that was confirmed holds |
| `ThrottlingFollowsFeatures` | throttled exactly below a more important feature, if the others are of the highest priority (`OthersAreHigh`, as in `headset_init.c`); the run BandwidthSlots shows that the hypothesis is needed |

### Headset

`HeadsetControl_proofs`, for any inputs, cables, moves, prompts and backlog
(`InputsAssumption`: buttons and cables are those of the product). `IInv` is the types
of all the modules of the composition; a timer of limbo, idle or stop, running or
come due, exists only in its state, and once (`TimersOK`); whoever stopped the
topology is known (`AskerKnown`); the system state does not go back to starting up,
and its message is the first of all (`StartsOnce`). The proof of `NoPanic` needs the
last two: a second change to limbo would be one that the first message repeats.

| Theorem | Shows |
|---|---|
| `HeadsetInvariant`, `HeadsetTypes` | `[]IInv`, `[]TypeOK` |
| `TimersEndWithTheirState` | no timer outlives what it was started for |
| `NothingPanics` | no stop is confirmed to nobody, and no state is entered twice |

### Handset

`Handset_proofs`, for any bounds, with or without LE, and no assumption. `IInv` is
the types of every layer and of every message, and that whoever waits for the
disconnection is remembered. The handlers nest deeply, so the proof has one lemma
per function of the three flow modules, each of which says what the function keeps
of a world.

The requests to the profiles need the profile, its queue and the library together.
`FInv` is `IInv` and `Fit`:

* `Follows`: the library is where the profile will be once it has heard the
  library's messages (`Heard`, which pass no lock and stay in order): an incoming
  indication, a confirmation and an end may all be on their way, in that order only;
* `Listed`: a profile that disconnects does so for somebody, and only one that is
  or was connected is marked;
* `Waits`: whoever is on the connect list has something under way that ends it;
* `Requested`: there is one request at most, for one client, a stopped one is a
  connection, and what it asks for is on the lists of the profile. The one exception
  is a world in which the assertion on a stopped request has failed
  (`profileManager_checkForAndCancelPendingProfileRequest`, run HandsetPanic).

`Beside` says that a function leaves all that alone, which holds of everything
outside the profile and its manager; each handler of these has a lemma of its own.
`CallOff` is the hard one: a request cancelled by the opposite one, whose profile
tells the manager in the middle of the call.

| Theorem | Shows |
|---|---|
| `HandsetInvariant`, `HandsetTypes` | `[]IInv`, `[]TypeOK` |
| `ProfileInvariant` | `[]FInv` |
| `RequestsEnd` | nothing of a request, and nobody on a list, is left once nothing is under way |
| `ProfileFollowsLibrary` | then the profile is connected exactly with the library, and only a connected one is marked |
| `DisconnectionsAreRemembered` | who waits for the disconnection is on the list or being told |

### Stereo topology

`StereoTopology_proofs`, for any inputs, links, timeouts and backlog
(`LinksAssumption`: `MaxLinks` is a number). `IInv` is the types of the topology and
both engines, that whoever waits for all links to end has one left, and that
active goals are concurrent. `Held` adds the queue: every queued goal has an
entry, whose lock names active goals, and the counter covers the messages. While a
queued goal is handled the counter exceeds the messages by one (`HeldFor`), which
is why `GoalsEngine_ActivateGoal` may decrement it first. The loops over rules and
goals are recursive functions over tables of known length; `RunRulesInduction` and
`CancelActiveInduction` go along them.

`StopScript_proofs` is about the stop. `SInv` is `IInv` and `UnderWay`:

* `ScriptRuns`: the script is at a step exactly while `system_stop` is active;
* `StepIsAnswered`: one thing, and only one, will complete that step: its own
  message, or the answer of the LE procedure or of the disconnection;
* `ToldFirst`: at the last step the topology's `STOP_FINISHED` is delivered before
  the script's own message, or has been, and then a topology that is STOPPING
  once more has decided anew to stop;
* `Asked`: in STOPPING the client is known and the timeout runs;
* `RuleListens`, `RuleDecides`: the rule that stops is never left complete, and
  while it is in progress its decision is on the way;
* `Pending`, in STOPPING: the goal is active, decided, queued, or has reported.

The marks of a stop (the script's message, `STOP_FINISHED`, the decision) pass no
lock, so that among themselves they are delivered in order, although other
messages wait: `Marked` is the queue reduced to them. `Still` and `Calm` say of a
function that it leaves the stop alone, but for new decisions at the end of
`Marked`; nearly every function of the engines and procedures has a lemma that it is
calm. The rest is the delivery of a mark (`Shifted`: what taking the first one
leaves), the goal itself, and the cancelling of a queue, which drops the stop only
on behalf of a stop. `ToldFirst` is what a test would hardly find: between the
topology's message and the end of the script a client may start and stop it again.

| Theorem | Shows |
|---|---|
| `TopologyInvariant`, `TopologyTypes` | `[]IInv`, `[]TypeOK` |
| `OnlyConcurrentGoals` | active goals may run together; the stop script runs alone |
| `QueueLetsGo` | the queue is let go, as long as its counter, a byte, is below its limit. The hypothesis is needed: a goal asked for again while it runs is queued each time |
| `StopUnderWay` | in STOPPING the client waits, the timeout runs, and the goal that stops is decided, queued, active or done |

### What is model-checked only

* Every liveness property (`TransitionsEnd`, `ShutdownRoundEnds`,
  `LimboEndsWhileSafe`, `StartCompletes`, `DisableIsAnswered`, `ScanFollowsClients`,
  `ConnectIsAnsweredWithoutLe`): fairness and `ENABLED` are out of the prover's reach.
* `HeadsetFollowsSystem` and `ShutdownAgreed` hold in the surroundings of
  HeadsetPower, not with a USB host (the race of HeadsetLimbo), so that they are
  theorems of no specification without that restriction; `PairingHasNoUsb` depends on
  the order of the messages of two modules.
* `MarkFollowsProfile` in its last third, that a connected profile is marked, and
  `ConnectedHasLink`: the mark and the state of the service are also cleared by what
  the connection manager says of the link, so that an inductive invariant would have
  to order its messages against those of the library.
* `ConfirmedStopIsClean` holds with one handset; with two the run TopologyClean
  violates it, so that it is a theorem of no specification for any `MaxLinks`.

## 6. Where the code and its texts differ

Each is a run expected to fail; the counterexample is a behaviour of the code.

* **HeadsetLimbo**: `StereoTopology_Stop` overwrites `app_task`. A host
  enumerates while power off waits for the topology; the wired audio's own stop
  takes the confirmation, and powering off never ends.
* **TopologyClean**: with two handsets, a late confirmation of another
  disconnection completes a step of the stop script.
* **BandwidthSlots**: the bandwidth manager's posted actions point to a slot,
  which may hold another feature by the time they are handled. A call ends and an
  upgrade starts at once: the voice assistant stays throttled.
* **HandsetConnect**: the loss of the LE link destroys the instance of the phone
  while its BR/EDR link is being opened; the client who asked is never answered.
  Without an LE link, and unless the device resets (HandsetPanic), every request is
  answered (`ConnectIsAnsweredWithoutLe`).
* **HandsetPanic**: a connection that is stopped and then disconnected before the
  profile has answered runs into an assertion of the profile manager.

Others are visible in the models without a run of their own:

* The guard of pairing (`headset_sm.c:949`) allows a paused stream in any state,
  so a pair request that was pressed while the headset was on makes it pair
  while it powers off. With it the application no longer follows the system
  state, which is why HeadsetPower leaves the pair button out; pairing a headset
  that knows no handset is in it.
* A shutdown for the battery that is cancelled leaves the headset in TERMINATING:
  `headset_sm.h:41` shows no way back, and nobody handles the cancellation.
* A client that prohibits sleep during the round is not heard
  (`power_manager.h:201`: "If any of power's client prohibit sleep, power will
  not sleep.").
* A `StereoTopology_Stop` during STARTING is neither done nor confirmed
  (`stereo_topology.h:109`).
* `bredrScanManager_RemovePendingReleaseClients` removes while it iterates over
  the list, and so removes one client at a time; the next time the scan is
  disabled removes another.
* A client that asks for a scan while page scan is throttled overwrites the
  throttled parameters.

## 7. Abstractions, and what is not modelled

* `SystemState`: a step is synchronous, waits, or does not return. What the
  steps of the headset's tables call is in `HeadsetFlow`; the bring-up table's
  sixty steps are not told apart.
* `PowerManager`: charger, battery and temperature are two predicates (power
  off needed, allowed) over small readings. The performance profile counter, the
  UI context, testing flags and the chip's sleep itself are left out.
* `HeadsetControl`: a button gives what the context at that moment offers
  (`Offered`), and the input is then a message that may be handled in another
  state. The topology appears with its rules and goals reduced to
  those the headset can notice (`StereoTopology` has all of them); the power manager's other
  clients answer at once; temperature is part of the unsafe battery; ANC,
  leakthrough, DFU, GAIA and the multipoint inputs are off;
  `HandsetService_ConnectableRequest` and the ACL close on TERMINATING appear
  only as links that come up or are lost at any time.
* `StereoTopology`: the handset service is the requests that the procedures make.
  Requested disconnections succeed; an answer to a connection may or may not
  bring a link; the LE confirmation may come at any time while one is awaited,
  which includes a late one; the stop timeout fires only when nothing is left to
  deliver, because ten seconds are far longer than any message waits; pairings
  are not deleted. One link in the passing run: with two, `TopologyClean` fails.
* `Handset`: one paired phone on which HFP is the only profile, so that the list of
  profiles of a request has one entry. A loss of the link is not followed by the
  reconnection without limit, connections are never refused, and the client is a
  single one per kind of request. The users ask when `handset_service_multipoint_sm`
  and the topology do: connecting when no connection is under way, stopping when one
  is, disconnecting what is connected. The library answers a service level
  connection it was asked for, or that the phone opened, either way; the link's end
  is known to Bluestack at once and to the manager by message. The library's own
  messages run in the same task loop, so it does not take up the phone's request
  before its message of the new link is handled, nor end an attempt before its
  message of the begun one is (`Posted`).
* `RadioSharing`: parameters are the type they belong to, with one registered set
  that has throttled ones (`stereo_topology_config.c`). Truncated page scan,
  the extended inquiry response and the notifications of clients are left out.
* Not modelled: the other profiles, a second phone and the multipoint state
  machine, LE scanning and advertising, the feature manager, audio, UI tables,
  upgrade and voice assistant protocols, bring-up. `PROJECT.json` gives the
  reason for each.

## 8. Plan

Done: `TransitionTables`/`SystemState`; `PowerFlow`/`PowerManager`;
`HeadsetFlow`/`HeadsetControl`; the engines and `StereoFlow`/`StereoTopology`;
`BandwidthFlow`/`ScanFlow`/`RadioSharing`;
`ConnectionFlow`/`ProfileFlow`/`HandsetFlow`/`Handset`; each with its proofs. Next,
in this order:

1. The rest of `MarkFollowsProfile`, and `ConnectedHasLink`, as theorems: `Fit`
   with the messages of the connection manager beside the library's.
2. A second phone in `Handset`, with the multipoint state machine above it; then
   `StereoTopology` with two phones over it.
3. The abstract topology (stopped, starting, started, stopping, with one
   confirmation per stop) that both `StereoTopology` and the coarse one of
   `HeadsetFlow` implement.
4. The performance profile counter, the feature manager, pairing and the
   charger's filtering of its readings.
