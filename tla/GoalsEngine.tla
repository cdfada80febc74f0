---------------------------- MODULE GoalsEngine ----------------------------
(***************************************************************************)
(* topologies/common/goals_engine/goals_engine.c as functions on a world w *)
(* that has a goal set:                                                    *)
(*   active  active_goals_mask                                             *)
(*   count   queue_msg_count, a uint8                                      *)
(*   slots   pending_goals: for each goal that has an entry, its lock_mask *)
(*   mail    the undelivered messages; those of kind "queued" belong to    *)
(*           queue_task and are held back while their lock is not zero     *)
(* Finding an entry is by goal id, so that entries are modelled by a       *)
(* function on goals; there are never more goals than entries.             *)
(***************************************************************************)
EXTENDS Keeping, Integers

CONSTANTS Goals,            \* goal ids, in their order
          Contention(_),    \* "wait", "cancel" or "concurrent"
          Exclusive(_),     \* the goal it cancels before it starts, or "none"
          ConcurrentWith(_), \* the goals it can run beside
          BeginProcedure(_, _), CancelProcedure(_, _)   \* on (w, goal)

GoalSet == {Goals[n] : n \in DOMAIN Goals}
SlotCount == 8      \* INITIAL_GOAL_QUEUE_COUNT
CountLimit == 256   \* of a uint8

\* GOAL_ID_NONE is no goal, and the entries suffice for all goals.
GoalsFit == Len(Goals) <= SlotCount /\ "none" \notin GoalSet

QueuedMessage(goal) == [kind |-> "queued", goal |-> goal]
QueuedMessages == {QueuedMessage(g) : g \in GoalSet}
IsQueued(m) == m.kind = "queued"
Waiting(w, goal) == \E n \in DOMAIN w.mail : w.mail[n] = QueuedMessage(goal)
Locked(w, m) == IsQueued(m) /\ m.goal \in DOMAIN w.slots /\ w.slots[m.goal] # {}

Cancels(goal) == Contention(goal) = "cancel"

\* goalsEngine_HandleConcurrentGoals, and the masks of UpdateQueueMasks
MustWaitFor(w, goal) ==
  IF Contention(goal) = "concurrent" THEN w.active \ ConcurrentWith(goal) ELSE w.active

\* goalsEngine_ResetPendingQueueIfEmpty
ResetIfEmpty(w) == IF w.count = 0 THEN [w EXCEPT !.slots = << >>] ELSE w

\* goalsEngine_QueueGoal
QueueGoal(w, goal, wait) ==
  [w EXCEPT !.slots = [g \in DOMAIN @ \cup {goal} |-> IF g = goal THEN wait ELSE @[g]],
            !.mail  = Append(@, QueuedMessage(goal)),
            !.count = (@ + 1) % CountLimit]

\* goalsEngine_DequeGoal
DequeGoal(w, goal) ==
  IF goal \notin DOMAIN w.slots THEN w
  ELSE LET kept == Dropping(w.mail, {QueuedMessage(goal)})
       IN  [w EXCEPT !.mail  = kept,
                     !.count = (@ - (Len(w.mail) - Len(kept))) % CountLimit,
                     !.slots = [g \in DOMAIN @ \ {goal} |-> @[g]]]

\* goalsEngine_ClearPendingGoalsQueue
ClearPendingGoals(w) ==
  ResetIfEmpty([w EXCEPT !.mail = Dropping(@, QueuedMessages), !.count = 0])

\* goalsEngine_GoalCanRunNow
CanRunNow(w, new) == w.active = {} /\ (w.count = 0 \/ ~new)

\* goalsEngine_UpdateQueueMasks; entries without a message are given up.
UpdateQueueMasks(w) ==
  IF w.count = 0 THEN w
  ELSE [w EXCEPT !.slots = [g \in {h \in DOMAIN @ : Waiting(w, h)} |-> MustWaitFor(w, g)]]

\* goalsEngine_StartGoal
StartGoal(w, goal) ==
  UpdateQueueMasks(BeginProcedure([w EXCEPT !.active = @ \cup {goal}], goal))

\* The cancellations of goalsEngine_CheckIfNewGoalCancelsActiveGoals
CancelActiveGoals(w) ==
  LET after[n \in 0 .. Len(Goals)] ==
        IF n = 0 THEN w
        ELSE IF Goals[n] \in w.active THEN CancelProcedure(after[n - 1], Goals[n])
                                      ELSE after[n - 1]
  IN  after[Len(Goals)]

\* goalsEngine_HandleExclusiveGoals
HandleExclusive(w, goal) ==
  IF Exclusive(goal) \in w.active
  THEN CancelProcedure(DequeGoal(w, Exclusive(goal)), Exclusive(goal))
  ELSE w

\* Mutant: the queue is cleared when the goal is in it already.
AddCancellingThenClear(w, new, goal) ==
  LET cancelled == CancelActiveGoals(w)
  IN  IF CanRunNow(cancelled, new) THEN StartGoal(cancelled, goal)
      ELSE ClearPendingGoals(QueueGoal(cancelled, goal, cancelled.active))

\* A cancelling goal that cannot run at once
AddCancelling(w, new, goal) ==
  LET cleared == CancelActiveGoals(ClearPendingGoals(w))
  IN  IF CanRunNow(cleared, new) THEN StartGoal(cleared, goal)
                                 ELSE QueueGoal(cleared, goal, cleared.active)

\* Mutant: a goal starts as soon as its exclusive goal has been told to stop.
AddOrdinaryAtOnce(w, new, goal) ==
  LET freed == HandleExclusive(w, goal)
      wait  == MustWaitFor(w, goal) \ {Exclusive(goal)}
  IN  IF wait = {} THEN StartGoal(freed, goal) ELSE QueueGoal(freed, goal, wait)

\* Any other goal that cannot run at once.  An exclusive goal that is gone
\* when its cancellation returns is not waited for.
AddOrdinary(w, new, goal) ==
  LET freed == HandleExclusive(w, goal)
      wait  == MustWaitFor(w, goal) \ (w.active \ freed.active)
  IN  IF (Contention(goal) = "concurrent" /\ wait = {}) \/ CanRunNow(freed, new)
      THEN StartGoal(freed, goal)
      ELSE QueueGoal(freed, goal, wait)

\* GoalsEngine_ActivateGoal; new tells a decision of the rules from a goal
\* that comes back from the queue.
ActivateGoal(w, new, goal) ==
  LET taken == IF new THEN w ELSE [w EXCEPT !.count = (@ - 1) % CountLimit]
  IN  CASE Cancels(goal) /\ goal \in taken.active -> ClearPendingGoals(taken)
        [] ~(Cancels(goal) /\ goal \in taken.active) /\ CanRunNow(taken, new) ->
             ResetIfEmpty(StartGoal(taken, goal))
        [] Cancels(goal) /\ goal \notin taken.active /\ ~CanRunNow(taken, new) ->
             ResetIfEmpty(AddCancelling(taken, new, goal))
        [] OTHER -> ResetIfEmpty(AddOrdinary(taken, new, goal))

\* Mutant: the goals that wait are not told.
ClearGoalSilently(w, goal) == [w EXCEPT !.active = @ \ {goal}]

\* GoalsEngine_ClearGoal
ClearGoal(w, goal) ==
  [w EXCEPT !.active = @ \ {goal}, !.slots = [g \in DOMAIN @ |-> @[g] \ {goal}]]
=============================================================================
