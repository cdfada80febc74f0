---------------------------- MODULE BandwidthFlow ----------------------------
(***************************************************************************)
(* domains/bt/bandwidth_manager: the features that use Bluetooth           *)
(* bandwidth.  While one of them runs, the running ones of a lower         *)
(* priority are to throttle.  Features that run are kept in the first      *)
(* slots of the table; starting and stopping move the entries, and post a  *)
(* message that carries a pointer to a slot.                               *)
(*                                                                         *)
(* A function gets the world and returns the world it leaves: w.slots is   *)
(* the table, w.running and w.throttled are the flags of its entries, and  *)
(* w.queue is the scheduler's queue.                                       *)
(***************************************************************************)
EXTENDS Integers, FiniteSets, SequencesExt

CONSTANT Registered   \* the features, in the order of their registration

Features == ToSet(Registered)

ASSUME RegisteredAssumption ==
  Registered \in Seq({"PAGE_SCAN", "DFU", "VA", "ESCO", "A2DP_LL", "A2DP_HIGH_BW"})
    /\ IsInjective(Registered)

\* bandwidth_manager_priority_t: the smaller number is the higher priority.
High   == 0
Medium == 1
Low    == 2

\* The priority with which each user registers its feature
Priority(f) == CASE f \in {"PAGE_SCAN", "DFU"} -> Low
                 [] f = "VA" -> Medium
                 [] OTHER -> High

SlotOf(w, f) == CHOOSE n \in DOMAIN w.slots : w.slots[n] = f

Act(w, kind, slot) == [w EXCEPT !.queue = Append(@, [id |-> kind, slot |-> slot])]

\* BandwidthManager_FeatureStart: the feature changes places with the first
\* one that does not run, if that one has an earlier slot.
FeatureStart(w, f) ==
  IF f \in w.running THEN w
  ELSE LET here == SlotOf(w, f)
           idle == {n \in 1 .. here - 1 : w.slots[n] \notin w.running}
           slot == IF idle = {} THEN here ELSE Min(idle)
       IN  Act([w EXCEPT !.running = @ \cup {f}, !.throttled = @ \ {f},
                         !.slots = [@ EXCEPT ![here] = w.slots[slot], ![slot] = f]],
               "BANDWIDTH_START", slot)

\* BandwidthManager_FeatureStop: the feature goes to the last slot, if the
\* one behind it runs.
FeatureStop(w, f) ==
  IF f \notin w.running THEN w
  ELSE LET here  == SlotOf(w, f)
           last  == Len(w.slots)
           moves == here < last /\ w.slots[here + 1] \in w.running
       IN  Act([w EXCEPT !.running = @ \ {f}, !.throttled = @ \ {f},
                         !.slots = IF moves THEN Append(RemoveAt(@, here), f) ELSE @],
               "BANDWIDTH_STOP", IF moves THEN last ELSE here)

\* bandwidthManager_getHighestRunningFeaturePrio
HighestRunning(w, default) == Min({Priority(f) : f \in w.running} \cup {default})

\* Mutant: a start throttles the features of its own priority as well.
ThrottledAfterStartOfEqual(w, acting) ==
  IF Cardinality(w.running) <= 1 THEN w.throttled
  ELSE w.throttled \cup {f \in w.running : Priority(f) >= HighestRunning(w, acting)}

\* bandwidthManager_handleAction, START: throttle what runs below the highest.
ThrottledAfterStart(w, acting) ==
  IF Cardinality(w.running) <= 1 THEN w.throttled
  ELSE w.throttled \cup {f \in w.running : Priority(f) > HighestRunning(w, acting)}

\* bandwidthManager_handleAction, STOP: release the highest that runs, if it is
\* below the feature that stopped.
ThrottledAfterStop(w, acting) ==
  LET highest == HighestRunning(w, Low)
  IN  IF highest > acting THEN {f \in w.throttled : Priority(f) # highest} ELSE w.throttled

\* The callbacks are made for the features whose flag changes.  The priority
\* that acts is that of the feature which has the slot by now.
HandleAction(w, action) ==
  LET acting == Priority(w.slots[action.slot])
  IN  [w EXCEPT !.throttled = IF action.id = "BANDWIDTH_START"
                              THEN ThrottledAfterStart(w, acting)
                              ELSE ThrottledAfterStop(w, acting)]
=============================================================================
