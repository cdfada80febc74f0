---------------------------- MODULE RulesEngine ----------------------------
(***************************************************************************)
(* common/rules_engine/rules_engine.c as functions on a world w that has   *)
(* the rule set in w.rules and the undelivered messages in w.mail.  Events *)
(* wake the rules that are tied to them.  A rule that decides to run sends *)
(* a decision, and the other rules of its event wait until the receiver    *)
(* marks it complete; when all are complete the event is cleared.  (Rules  *)
(* that defer, or are always evaluated, are not used by this product.)     *)
(***************************************************************************)
EXTENDS Integers, Sequences

CONSTANTS RuleTable,   \* sequence of [event, goal], in the order of the table
          Runs(_, _)   \* Runs(w, n): the function of rule n answers run, not ignore

Statuses == {"not_done", "in_progress", "complete"}
RuleIds == DOMAIN RuleTable
RuleEvents == {RuleTable[n].event : n \in RuleIds}
Of(n) == RuleTable[n].event

RuleSet == [events : SUBSET RuleEvents, status : [RuleIds -> Statuses]]

\* RulesEngine_CreateRuleSet
NoRulesRun == [events |-> {}, status |-> [n \in RuleIds |-> "not_done"]]

\* RulesEngine_ResetEvent
ResetEvent(r, es) ==
  [events |-> r.events \ es,
   status |-> [n \in RuleIds |-> IF Of(n) \in es THEN "not_done" ELSE r.status[n]]]

\* RulesEngine_UpdateRuleStatus(..., rule_status_complete, es)
UpdateRuleStatus(r, goal, from, es) ==
  LET hit    == {n \in RuleIds : RuleTable[n].goal = goal /\ r.status[n] = from /\ Of(n) \in es}
      marked == [r EXCEPT !.status = [n \in RuleIds |-> IF n \in hit THEN "complete" ELSE @[n]]]
      open   == {n \in RuleIds : Of(n) \in es /\ marked.status[n] # "complete"}
  IN  ResetEvent(marked, {Of(n) : n \in hit} \ {Of(n) : n \in open})

Decision(goal) == [kind |-> "decision", goal |-> goal]

\* One turn of the loop of RulesEngine_RunRules; at.events are the events
\* for which no rule has been found in progress yet.
RunRule(at, n) ==
  LET status == at.w.rules.status[n]
  IN  CASE Of(n) \notin at.events \/ status = "complete" -> at
        [] Of(n) \in at.events /\ status = "in_progress" ->
             [at EXCEPT !.events = @ \ {Of(n)}]
        [] Of(n) \in at.events /\ status = "not_done" /\ Runs(at.w, n) ->
             [w      |-> [at.w EXCEPT !.rules.status[n] = "in_progress",
                                      !.mail = Append(@, Decision(RuleTable[n].goal))],
              events |-> at.events \ {Of(n)}]
        [] OTHER ->
             [at EXCEPT !.w.rules = UpdateRuleStatus(@, RuleTable[n].goal, status, {Of(n)})]

\* RulesEngine_RunRules
RunRules(w) ==
  LET at[n \in 0 .. Len(RuleTable)] ==
        IF n = 0 THEN [w |-> w, events |-> w.rules.events] ELSE RunRule(at[n - 1], n)
  IN  at[Len(RuleTable)].w

\* RulesEngine_SetEvent
SetEvent(w, e) == RunRules([w EXCEPT !.rules.events = @ \cup {e}])

\* Mutant: the rules behind the completed one are not looked at again.
SetRuleCompleteOnly(w, goal) ==
  [w EXCEPT !.rules = UpdateRuleStatus(@, goal, "in_progress", RuleEvents)]

\* RulesEngine_SetRuleComplete
SetRuleComplete(w, goal) ==
  RunRules([w EXCEPT !.rules = UpdateRuleStatus(@, goal, "in_progress", RuleEvents)])
=============================================================================
