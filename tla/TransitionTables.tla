------------------------- MODULE TransitionTables -------------------------
(***************************************************************************)
(* The transition engine of domains/power/system_state/system_state.c as   *)
(* functions on the value of system_state_ctx.  Nothing here is a state    *)
(* machine: SystemState runs these functions as the actions of one, and    *)
(* HeadsetControl calls them from the handlers of headset_sm.c.            *)
(*                                                                         *)
(* The work of a transition is a table of steps.  A step is synchronous,   *)
(* or names the message (async_message_id) the table waits for after       *)
(* calling it.  Here a table is the sequence of those ids: Sync stands     *)
(* for async_message_id 0, Halt for a step that powers the chip down and   *)
(* so never returns, and the empty sequence for a table nobody registered. *)
(***************************************************************************)
EXTENDS Integers, Sequences

CONSTANTS Sync, Halt,   \* markers of a step that does not wait
          Messages,     \* the asynchronous message ids that steps wait for
          Tables,       \* [TransitionNames -> Seq(Messages \cup {Sync, Halt})]
          LimboRemoved  \* is_limbo_removed

TransitionNames ==
  {"init", "startup", "power_on", "power_off", "sleep", "shutdown", "emergency"}

\* The tables are finite sequences and the markers are not message ids.
ASSUME TablesAssumption ==
  /\ Sync \notin Messages /\ Halt \notin Messages /\ Sync # Halt
  /\ Tables \in [TransitionNames -> Seq(Messages \cup {Sync, Halt})]
  /\ LimboRemoved \in BOOLEAN

StableStates == {"powered_off", "initialised", "limbo", "active", "sleeping"}
TransitionalStates ==
  {"initialisation", "starting_up", "powering_on", "powering_off",
   "going_to_sleep", "shutting_down", "shutting_down_promptly"}
States == StableStates \cup TransitionalStates

---------------------------------------------------------------------------
(* The four arguments each public function hands systemState_InitiateTransiton. *)

HomeState == IF LimboRemoved THEN "active" ELSE "limbo"

From == [t \in TransitionNames |->
  CASE t = "init"      -> {"powered_off"}
    [] t = "startup"   -> {"initialised"}
    [] t = "power_on"  -> IF LimboRemoved THEN {} ELSE {"powering_off", "limbo"}
    [] t = "power_off" -> IF LimboRemoved THEN {} ELSE {"powering_on", "active"}
    [] t = "sleep"     -> {HomeState}
    [] t = "shutdown"  -> {HomeState}
    [] t = "emergency" -> States]

Via == [t \in TransitionNames |->
  CASE t = "init"      -> "initialisation"
    [] t = "startup"   -> "starting_up"
    [] t = "power_on"  -> "powering_on"
    [] t = "power_off" -> "powering_off"
    [] t = "sleep"     -> "going_to_sleep"
    [] t = "shutdown"  -> "shutting_down"
    [] t = "emergency" -> "shutting_down_promptly"]

To == [t \in TransitionNames |->
  CASE t = "init"      -> "initialised"
    [] t = "startup"   -> HomeState
    [] t = "power_on"  -> "active"
    [] t = "power_off" -> "limbo"
    [] t = "sleep"     -> "sleeping"
    [] t = "shutdown"  -> "powered_off"
    [] t = "emergency" -> "powered_off"]

---------------------------------------------------------------------------
(* index counts the entries from 1: the code's index plus one.  So the 0   *)
(* of SystemState_Init is 1, and the (unsigned)-1 that a transition is set *)
(* up with is 0.                                                           *)

NoTransition == "none"

\* Mutant: the index set to (unsigned)-1 before there is a transition.
PoweredOffUnset == [state |-> "powered_off", transition |-> NoTransition, index |-> -1]

\* system_state_ctx after SystemState_Init.
PoweredOff == [state |-> "powered_off", transition |-> NoTransition, index |-> 1]

Context == [state : States, transition : TransitionNames \cup {NoTransition}, index : Nat]

\* Mutant: the loop returns after every step, waiting or not.
StopsAtEveryStep(table, i) == i

\* The loop leaves the table at k when it is entered with index i: at the
\* first entry that does not return synchronously, else past the end.
LeavesAt(table, i, k) ==
  /\ k <= Len(table) => table[k] # Sync
  /\ \A j \in i .. k - 1 : table[j] = Sync

\* Where the loop of systemState_DoTransition stops.
StopsAt(table, i) ==
  IF i > Len(table) THEN i
                    ELSE CHOOSE k \in i .. Len(table) + 1 : LeavesAt(table, i, k)

(***************************************************************************)
(* A run of the engine: the context it leaves, and what it does to the     *)
(* rest of the system, in order.  It broadcasts the SYSTEM_STATE_STATE_    *)
(* CHANGE messages in begins, calls the steps first .. last of the table,  *)
(* and broadcasts those in ends.                                           *)
(***************************************************************************)
Change(old, new) == [old |-> old, new |-> new]

\* Mutant: the loop ends without systemState_CompleteTransition.
DoTransitionNoCompletion(ctx, t) ==
  LET stop == StopsAt(Tables[t], ctx.index + 1)
  IN  [ctx |-> [ctx EXCEPT !.index = stop], begins |-> << >>, first |-> ctx.index + 1,
       last |-> IF stop > Len(Tables[t]) THEN stop - 1 ELSE stop, ends |-> << >>]

\* systemState_DoTransition on a context whose transition is t, including the
\* systemState_SetState of systemState_CompleteTransition.
DoTransition(ctx, t) ==
  LET stop == StopsAt(Tables[t], ctx.index + 1)
      done == stop > Len(Tables[t])
  IN  [ctx    |-> [ctx EXCEPT !.index = stop, !.state = IF done THEN To[t] ELSE @],
       begins |-> << >>,
       first  |-> ctx.index + 1,
       last   |-> IF done THEN stop - 1 ELSE stop,
       ends   |-> IF done THEN <<Change(ctx.state, To[t])>> ELSE << >>]

\* Mutant: systemState_SetupCurrentTransition forgets to reset the index.
InitiateTransitionKeepingIndex(ctx, t) ==
  LET run == DoTransition([state |-> Via[t], transition |-> t, index |-> ctx.index], t)
  IN  [run EXCEPT !.begins = <<Change(ctx.state, Via[t])>>]

\* Mutant: an unregistered table is completed without being set up.
InitiateTransitionSkippingSetup(ctx, t) ==
  LET run == DoTransition([state |-> Via[t], transition |-> t, index |-> 0], t)
  IN  [run EXCEPT !.begins = <<Change(ctx.state, Via[t])>>,
                  !.ctx = IF Tables[t] = << >> THEN [ctx EXCEPT !.state = To[t]] ELSE @]

\* systemState_InitiateTransiton past its guard: set the transitional state,
\* set up the transition with its index reset, and run it.
InitiateTransition(ctx, t) ==
  LET run == DoTransition([state |-> Via[t], transition |-> t, index |-> 0], t)
  IN  [run EXCEPT !.begins = <<Change(ctx.state, Via[t])>>]

\* Mutant: a transition may start from any stable state.
MayInitiateWhenStable(ctx, t) == ctx.state \in StableStates

\* The guard of systemState_InitiateTransiton.
MayInitiate(ctx, t) == ctx.state \in From[t]

\* What systemState_MessageHandler compares an incoming id with.
Expects(ctx, id) ==
  /\ ctx.transition # NoTransition
  /\ ctx.index \in 1 .. Len(Tables[ctx.transition])
  /\ Tables[ctx.transition][ctx.index] = id

\* After a completed transition index equals the table's count, and the
\* handler reads the entry after the last one of a registered table.
ReadsPastEnd(ctx) ==
  /\ ctx.transition # NoTransition
  /\ Tables[ctx.transition] # << >>
  /\ ctx.index > Len(Tables[ctx.transition])
=============================================================================
