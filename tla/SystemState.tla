---------------------------- MODULE SystemState ----------------------------
(***************************************************************************)
(* domains/power/system_state: which power transition the product is in,   *)
(* driven by calls (SystemState_PowerOn, ...) and by the messages that     *)
(* report the end of the asynchronous steps.  The calls may arrive in the  *)
(* middle of a transition: PowerOn supersedes PowerOff and the other way   *)
(* round, EmergencyShutdown supersedes everything.  The work a superseded  *)
(* transition started is not cancelled and its message still arrives.      *)
(***************************************************************************)
EXTENDS TransitionTables, FiniteSets

CONSTANTS MaxCalls,      \* bound on the accepted calls
          MaxInFlight    \* bound on the answers outstanding for one id

VARIABLES
  ctx,       \* system_state_ctx
  inflight,  \* answers that running steps still owe the transition task, by id
  mail,      \* SYSTEM_STATE_STATE_CHANGE messages not yet handled by the listener
  heard,     \* the state the listener was last told of
  ran,       \* the entries the current transition has called (history)
  calls      \* accepted calls (bound only)

vars == <<ctx, inflight, mail, heard, ran, calls>>

Init ==
  /\ ctx = PoweredOff
  /\ inflight = [m \in Messages |-> 0]
  /\ mail = << >>
  /\ heard = "powered_off"
  /\ ran = {}
  /\ calls = 0

\* Calling an asynchronous step makes somebody owe its message.
Owed(t, run) ==
  [m \in Messages |->
     inflight[m] + IF \E k \in run.first .. run.last : Tables[t][k] = m THEN 1 ELSE 0]

CurrentTable == Tables[ctx.transition]
Waiting == ctx.transition # NoTransition /\ ctx.index \in 1 .. Len(CurrentTable)

\* A step that takes the power away does not return: nothing runs after it.
Halted == Waiting /\ CurrentTable[ctx.index] = Halt

---------------------------------------------------------------------------
\* Mutant: the messages of a superseded transition are cancelled, but only
\* after the first steps of the new one have been called.
CallFlushingLate(t) ==
  /\ ~Halted
  /\ calls < MaxCalls
  /\ MayInitiate(ctx, t)
  /\ LET run == InitiateTransition(ctx, t)
     IN  /\ ctx' = run.ctx
         /\ mail' = mail \o (run.begins \o run.ends)
         /\ ran' = run.first .. run.last
  /\ inflight' = [m \in Messages |-> 0]
  /\ calls' = calls + 1
  /\ UNCHANGED heard

\* SystemState_Initialise, _StartUp, _PowerOn, _PowerOff, _Sleep, _Shutdown
\* and _EmergencyShutdown: refused outside the transition's start states.
Call(t) ==
  /\ ~Halted
  /\ calls < MaxCalls
  /\ MayInitiate(ctx, t)
  /\ LET run == InitiateTransition(ctx, t)
     IN  /\ ctx' = run.ctx
         /\ mail' = mail \o (run.begins \o run.ends)
         /\ inflight' = Owed(t, run)
         /\ ran' = run.first .. run.last
  /\ \A m \in Messages : inflight'[m] <= MaxInFlight
  /\ calls' = calls + 1
  /\ UNCHANGED heard

\* systemState_DoTransition, called from the message handler for message m.
Continue(m) ==
  LET run == DoTransition(ctx, ctx.transition)
  IN  /\ ctx' = run.ctx
      /\ mail' = mail \o run.ends
      /\ inflight' = [Owed(ctx.transition, run) EXCEPT ![m] = @ - 1]
      /\ ran' = ran \cup (run.first .. run.last)

\* systemState_MessageHandler receives the message the current entry waits for.
StepDone(m) ==
  /\ ~Halted
  /\ inflight[m] > 0
  /\ Expects(ctx, m)
  /\ Continue(m)
  /\ UNCHANGED <<heard, calls>>

\* systemState_MessageHandler receives a message of a superseded transition
\* and drops it.
StaleDropped(m) ==
  /\ ~Halted
  /\ inflight[m] > 0
  /\ ~Expects(ctx, m)
  /\ inflight' = [inflight EXCEPT ![m] = @ - 1]
  /\ UNCHANGED <<ctx, mail, heard, ran, calls>>

\* The same message after the current transition has finished.  The entry it
\* is compared with lies behind the table; what the linker placed there may
\* happen to hold this id, and then systemState_DoTransition runs once more.
ReadPastTable(m) ==
  /\ ~Halted
  /\ inflight[m] > 0
  /\ ReadsPastEnd(ctx)
  /\ Continue(m)
  /\ UNCHANGED <<heard, calls>>

\* The registered listener handles one SYSTEM_STATE_STATE_CHANGE.
Listen ==
  /\ ~Halted
  /\ mail # << >>
  /\ heard' = Head(mail).new
  /\ mail' = Tail(mail)
  /\ UNCHANGED <<ctx, inflight, ran, calls>>

\* A panic, a watchdog or waking from dormant restarts the chip; every
\* pending message is lost and SystemState_Init runs again.
Reset ==
  /\ ctx.state # "powered_off"
  /\ ctx' = PoweredOff
  /\ inflight' = [m \in Messages |-> 0]
  /\ mail' = << >>
  /\ heard' = "powered_off"
  /\ ran' = {}
  /\ UNCHANGED calls

Next ==
  \/ \E t \in TransitionNames : Call(t)
  \/ \E m \in Messages : StepDone(m) \/ StaleDropped(m) \/ ReadPastTable(m)
  \/ Listen
  \/ Reset

Spec == Init /\ [][Next]_vars

\* The scheduler serves its queue for ever, and a step that was started ends.
Fairness ==
  /\ \A m \in Messages : WF_vars(StepDone(m))
  /\ WF_vars(Listen)

FairSpec == Spec /\ Fairness

---------------------------------------------------------------------------
\* The types of the variables.
TypeOK ==
  /\ ctx \in Context
  /\ inflight \in [Messages -> Nat]
  /\ mail \in Seq([old : States, new : States])
  /\ heard \in States
  /\ ran \in SUBSET Nat
  /\ calls \in Nat

\* The state and the position in the table never disagree, whatever calls
\* superseded one another: in a transitional state the table is stopped at an
\* entry that is not synchronous, in a stable one it is past its end
\* (system_state.h:24-29 distinguishes the two kinds of state).
PositionMatchesState ==
  IF ctx.transition = NoTransition
  THEN ctx = PoweredOff
  ELSE IF Waiting
       THEN ctx.state = Via[ctx.transition] /\ CurrentTable[ctx.index] # Sync
       ELSE ctx.state = To[ctx.transition] /\ ctx.index > Len(CurrentTable)

\* A transition that has reached its stable state has called every entry of
\* its table, and one that waits has called exactly those up to the entry it
\* waits at: no message of a superseded transition makes it skip one.
EveryStepCalled ==
  ctx.transition # NoTransition =>
    ran = 1 .. (IF Waiting THEN ctx.index ELSE Len(CurrentTable))

\* The answer the current entry waits for is always still to come: a late
\* answer of a superseded transition never uses it up.
AwaitedIsOwed ==
  \A m \in Messages : Waiting /\ CurrentTable[ctx.index] = m => inflight[m] > 0

\* A message that makes the handler read behind the end of a table leaves the
\* power state as it was, whatever it finds there.
PastEndIsHarmless ==
  [][(\E m \in Messages : ReadPastTable(m)) => ctx'.state = ctx.state]_vars

\* Seen through the queue, with any lag, the states the listener is told of
\* walk the graph that system_state.h documents.
Listener == INSTANCE PowerStates WITH state <- heard
ListenerFollowsStateGraph == Listener!Spec

\* A started transition ends unless it stands at a step that powers the chip
\* down (the calls that could supersede it for ever are bounded by MaxCalls).
TransitionsEnd ==
  (ctx.state \in TransitionalStates) ~> (ctx.state \in StableStates \/ Halted)
=============================================================================
