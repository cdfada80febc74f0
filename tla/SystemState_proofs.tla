------------------------- MODULE SystemState_proofs -------------------------
(***************************************************************************)
(* The safety properties of SystemState, proved for every set of tables,   *)
(* any number of calls and any number of outstanding answers.              *)
(***************************************************************************)
EXTENDS SystemState, WellFoundedInduction, SequenceTheorems, TLAPS

Entries == Messages \cup {Sync, Halt}

---------------------------------------------------------------------------
(* The loop of systemState_DoTransition and one run of it.                 *)

\* The loop of systemState_DoTransition stops at the first entry from index i
\* on that is not synchronous, or one behind the end of the table.
LEMMA LoopStops ==
  ASSUME NEW table \in Seq(Entries), NEW i \in Nat \ {0}
  PROVE  LET k == StopsAt(table, i)
         IN  /\ k \in Nat
             /\ i <= k
             /\ i <= Len(table) => k <= Len(table) + 1
             /\ i > Len(table) => k = i
             /\ k <= Len(table) => table[k] # Sync
             /\ \A j \in i .. k - 1 : j <= Len(table) => table[j] = Sync
<1>0. Len(table) \in Nat
  BY LenProperties
<1>1. CASE i > Len(table)
  BY <1>0, <1>1 DEF StopsAt
<1>2. CASE i <= Len(table)
  <2> DEFINE Stop(k) == k \in i .. Len(table) + 1 /\ (k <= Len(table) => table[k] # Sync)
             Stops == {k \in Nat : Stop(k)}
  <2>1. Len(table) + 1 \in Stops
    BY <1>0, <1>2
  <2>2. PICK k \in Stops : \A n \in Stops : k <= n
    <3> HIDE DEF Stops
    <3>1. Stops \subseteq Nat /\ Stops # {}
      BY <2>1 DEF Stops
    <3>2. PICK k \in Stops : \A n \in Stops : <<n, k>> \notin OpToRel(<, Nat)
      BY <3>1, NatLessThanWellFounded, WFMin
    <3>3. \A n \in Stops : ~(n < k)
      BY <3>1, <3>2 DEF OpToRel
    <3> QED
      BY <3>1, <3>3
  <2>3. \A j \in i .. k - 1 : table[j] = Sync
    <3> SUFFICES ASSUME NEW j \in i .. k - 1 PROVE table[j] = Sync
      OBVIOUS
    <3>1. j \in Nat /\ j < k /\ j <= Len(table) /\ j \in i .. Len(table) + 1
      BY <1>0, <2>2
    <3>2. j \notin Stops
      BY <2>2, <3>1
    <3> QED
      BY <3>1, <3>2
  <2> DEFINE stop == StopsAt(table, i)
  <2>4. k \in i .. Len(table) + 1 /\ LeavesAt(table, i, k)
    BY <2>2, <2>3 DEF LeavesAt
  <2>5. stop = CHOOSE n \in i .. Len(table) + 1 : LeavesAt(table, i, n)
    BY <1>0, <1>2 DEF StopsAt
  <2>6. stop \in i .. Len(table) + 1 /\ LeavesAt(table, i, stop)
    <3> HIDE DEF stop
    <3> QED
      BY <2>4, <2>5
  <2> QED
    BY <1>0, <1>2, <2>6 DEF LeavesAt
<1> QED
  BY <1>0, <1>1, <1>2

\* A run of systemState_DoTransition either stops at an entry that is not
\* synchronous and stays in its state, or completes the transition.
Stopped(c, t, run) ==
  /\ run.ctx.index <= Len(Tables[t])
  /\ Tables[t][run.ctx.index] # Sync
  /\ run.ctx.state = c.state
  /\ run.last = run.ctx.index
  /\ run.ends = << >>

Finished(c, t, run) ==
  /\ run.ctx.index > Len(Tables[t])
  /\ run.ctx.state = To[t]
  /\ run.last = run.ctx.index - 1
  /\ run.last = IF c.index <= Len(Tables[t]) THEN Len(Tables[t]) ELSE c.index
  /\ run.ends = <<Change(c.state, To[t])>>

\* Every named transition has a table and a transitional and a final state.
LEMMA TransitionFacts ==
  ASSUME NEW t \in TransitionNames
  PROVE  /\ Tables[t] \in Seq(Entries)
         /\ Len(Tables[t]) \in Nat
         /\ Via[t] \in TransitionalStates
         /\ To[t] \in StableStates
         /\ t # NoTransition
<1>1. Tables[t] \in Seq(Entries)
  BY TablesAssumption DEF Entries
<1>2. Len(Tables[t]) \in Nat
  BY <1>1, LenProperties
<1>3. Via[t] \in TransitionalStates
  BY DEF TransitionNames, Via, TransitionalStates
<1>4. To[t] \in StableStates
  BY DEF TransitionNames, To, StableStates, HomeState
<1>5. t # NoTransition
  BY DEF TransitionNames, NoTransition
<1> QED
  BY <1>1, <1>2, <1>3, <1>4, <1>5

\* One call of systemState_DoTransition has one of the two outcomes.
LEMMA RunOutcome ==
  ASSUME NEW t \in TransitionNames, NEW c \in Context, c.transition = t
  PROVE  LET run == DoTransition(c, t)
         IN  /\ run.ctx \in Context
             /\ run.ctx.transition = t
             /\ run.ctx.index > c.index
             /\ run.first = c.index + 1
             /\ run.begins = << >>
             /\ run.last \in Nat
             /\ Stopped(c, t, run) \/ Finished(c, t, run)
<1> DEFINE run  == DoTransition(c, t)
           stop == StopsAt(Tables[t], c.index + 1)
<1>1. /\ Tables[t] \in Seq(Entries)
      /\ Len(Tables[t]) \in Nat
      /\ To[t] \in States
  BY TransitionFacts DEF States
<1>2. c.index \in Nat /\ c.state \in States
  BY DEF Context
<1>3. /\ stop \in Nat
      /\ c.index + 1 <= stop
      /\ c.index + 1 <= Len(Tables[t]) => stop <= Len(Tables[t]) + 1
      /\ c.index + 1 > Len(Tables[t]) => stop = c.index + 1
      /\ stop <= Len(Tables[t]) => Tables[t][stop] # Sync
  <2> DEFINE table == Tables[t]
             i     == c.index + 1
  <2>1. table \in Seq(Entries) /\ i \in Nat \ {0}
    BY <1>1, <1>2
  <2> HIDE DEF table, i
  <2>2. LET k == StopsAt(table, i)
        IN  /\ k \in Nat
            /\ i <= k
            /\ i <= Len(table) => k <= Len(table) + 1
            /\ i > Len(table) => k = i
            /\ k <= Len(table) => table[k] # Sync
    BY <2>1, LoopStops
  <2> QED
    BY <2>2 DEF table, i
<1> DEFINE after == IF stop > Len(Tables[t]) THEN To[t] ELSE c.state
<1> HIDE DEF stop
<1>4. run = [ctx    |-> [c EXCEPT !.index = stop, !.state = after],
             begins |-> << >>,
             first  |-> c.index + 1,
             last   |-> IF stop > Len(Tables[t]) THEN stop - 1 ELSE stop,
             ends   |-> IF stop > Len(Tables[t]) THEN <<Change(c.state, To[t])>> ELSE << >>]
  BY DEF DoTransition, stop
<1>5. /\ run.ctx.index = stop /\ run.ctx.transition = t
      /\ run.ctx.state = after
      /\ run.ctx \in Context
  <2>1. after \in States
    BY <1>1, <1>2
  <2> HIDE DEF after, run
  <2> QED
    BY <1>3, <1>4, <2>1 DEF Context
<1>6. /\ run.first = c.index + 1
      /\ run.begins = << >>
      /\ run.last = IF stop > Len(Tables[t]) THEN stop - 1 ELSE stop
      /\ run.ends = IF stop > Len(Tables[t]) THEN <<Change(c.state, To[t])>> ELSE << >>
  BY <1>4
<1>7. run.last \in Nat
  BY <1>2, <1>3, <1>6
<1>8. Stopped(c, t, run) \/ Finished(c, t, run)
  <2> HIDE DEF run
  <2>1. CASE stop <= Len(Tables[t])
    BY <1>1, <1>3, <1>5, <1>6, <2>1 DEF Stopped
  <2>2. CASE stop > Len(Tables[t])
    BY <1>1, <1>2, <1>3, <1>5, <1>6, <2>2 DEF Finished
  <2> QED
    BY <1>1, <1>3, <2>1, <2>2
<1> QED
  BY <1>2, <1>3, <1>5, <1>6, <1>7, <1>8

\* The context systemState_SetupCurrentTransition leaves.
SetUp(t) == [state |-> Via[t], transition |-> t, index |-> 0]

\* systemState_InitiateTransiton runs the new table from its first entry,
\* whatever transition it supersedes.
LEMMA InitiateOutcome ==
  ASSUME NEW t \in TransitionNames, NEW c \in Context
  PROVE  LET run == InitiateTransition(c, t)
         IN  /\ run.ctx \in Context
             /\ run.ctx.transition = t
             /\ run.ctx.index > 0
             /\ run.first = 1
             /\ run.begins = <<Change(c.state, Via[t])>>
             /\ run.last \in Nat
             /\ Stopped(SetUp(t), t, run) \/ Finished(SetUp(t), t, run)
<1> DEFINE run  == DoTransition(SetUp(t), t)
           all  == InitiateTransition(c, t)
           said == <<Change(c.state, Via[t])>>
<1>1. SetUp(t) \in Context /\ SetUp(t).transition = t /\ SetUp(t).index = 0
  BY TransitionFacts DEF SetUp, Context, States
<1>2. /\ run.ctx \in Context
      /\ run.ctx.transition = t
      /\ run.ctx.index > 0
      /\ run.first = 1
      /\ run.last \in Nat
      /\ Stopped(SetUp(t), t, run) \/ Finished(SetUp(t), t, run)
  BY <1>1, RunOutcome
<1>3. all = [run EXCEPT !.begins = said]
  BY DEF InitiateTransition, SetUp
<1>4. \E x, b, f, l, e : run = [ctx |-> x, begins |-> b, first |-> f, last |-> l, ends |-> e]
  BY DEF DoTransition
<1>5. /\ all.ctx = run.ctx /\ all.first = run.first /\ all.last = run.last
      /\ all.ends = run.ends /\ all.begins = said
  <2> HIDE DEF run, all, said
  <2> QED
    BY <1>3, <1>4
<1>6. Stopped(SetUp(t), t, all) \/ Finished(SetUp(t), t, all)
  <2> HIDE DEF run, all
  <2> QED
    BY <1>2, <1>5 DEF Stopped, Finished
<1> QED
  BY <1>2, <1>5, <1>6

---------------------------------------------------------------------------
(* Type correctness.                                                       *)

ChangeRecords == [old : States, new : States]

\* What one call broadcasts is a sequence of changes between power states.
LEMMA BroadcastType ==
  ASSUME NEW s \in States, NEW c \in Context, NEW t \in TransitionNames, NEW run,
         run.begins \in {<< >>, <<Change(s, Via[t])>>},
         Stopped(c, t, run) \/ Finished(c, t, run)
  PROVE  /\ run.begins \in Seq(ChangeRecords)
         /\ run.ends \in Seq(ChangeRecords)
<1>1. Via[t] \in States /\ To[t] \in States /\ c.state \in States
  BY TransitionFacts DEF States, Context
<1>2. Change(s, Via[t]) \in ChangeRecords /\ Change(c.state, To[t]) \in ChangeRecords
  BY <1>1 DEF Change, ChangeRecords
<1>3. run.ends \in {<< >>, <<Change(c.state, To[t])>>}
  BY DEF Stopped, Finished
<1>4. << >> \in Seq(ChangeRecords) /\ \A x \in ChangeRecords : <<x>> \in Seq(ChangeRecords)
  OBVIOUS
<1> QED
  BY <1>2, <1>3, <1>4

\* The variables start within their types.
LEMMA TypeInit == Init => TypeOK
<1> SUFFICES ASSUME Init PROVE TypeOK
  OBVIOUS
<1>1. PoweredOff \in Context
  BY DEF PoweredOff, Context, States, StableStates
<1> QED
  BY <1>1 DEF Init, TypeOK, States, StableStates

\* The effect of a run of the engine on the answers that are owed.
LEMMA OwedType ==
  ASSUME NEW t, NEW run, TypeOK
  PROVE  /\ Owed(t, run) \in [Messages -> Nat]
         /\ \A m \in Messages : inflight[m] <= Owed(t, run)[m]
  BY DEF TypeOK, Owed

\* Every action keeps the variables within their types.
LEMMA TypeStep == TypeOK /\ [Next]_vars => TypeOK'
<1> SUFFICES ASSUME TypeOK, [Next]_vars PROVE TypeOK'
  OBVIOUS
<1>0. /\ ctx \in Context /\ ctx.state \in States /\ mail \in Seq(ChangeRecords)
      /\ inflight \in [Messages -> Nat] /\ heard \in States
      /\ ran \in SUBSET Nat /\ calls \in Nat
  BY DEF TypeOK, Context, ChangeRecords
<1>1. ASSUME NEW t \in TransitionNames, Call(t) PROVE TypeOK'
  <2> DEFINE run == InitiateTransition(ctx, t)
  <2>1. /\ run.ctx \in Context /\ run.first = 1 /\ run.last \in Nat
        /\ run.begins = <<Change(ctx.state, Via[t])>>
        /\ Stopped(SetUp(t), t, run) \/ Finished(SetUp(t), t, run)
    BY <1>0, InitiateOutcome
  <2>2. SetUp(t) \in Context
    BY TransitionFacts DEF SetUp, Context, States
  <2>3. /\ ctx' = run.ctx /\ mail' = mail \o (run.begins \o run.ends)
        /\ inflight' = Owed(t, run) /\ ran' = run.first .. run.last
        /\ calls' = calls + 1 /\ heard' = heard
    BY <1>1 DEF Call
  <2> HIDE DEF run
  <2>4. run.begins \in Seq(ChangeRecords) /\ run.ends \in Seq(ChangeRecords)
    <3>1. run.begins \in {<< >>, <<Change(ctx.state, Via[t])>>}
      BY <2>1
    <3>2. Stopped(SetUp(t), t, run) \/ Finished(SetUp(t), t, run)
      BY <2>1
    <3>3. ctx.state \in States
      BY <1>0
    <3> QED
      BY ONLY <1>1, <2>2, <3>1, <3>2, <3>3, BroadcastType
  <2>5. mail' \in Seq(ChangeRecords)
    BY <1>0, <2>3, <2>4, ConcatProperties
  <2>6. inflight' \in [Messages -> Nat]
    BY <2>3, OwedType
  <2> QED
    BY <1>0, <2>1, <2>3, <2>5, <2>6 DEF TypeOK, ChangeRecords
<1>2. ASSUME NEW m \in Messages, ctx.transition \in TransitionNames, Continue(m),
             inflight[m] > 0, UNCHANGED <<heard, calls>>
      PROVE  TypeOK'
  <2> DEFINE t   == ctx.transition
             run == DoTransition(ctx, t)
  <2>1. /\ run.ctx \in Context /\ run.first = ctx.index + 1 /\ run.last \in Nat
        /\ run.begins = << >>
        /\ Stopped(ctx, t, run) \/ Finished(ctx, t, run)
    BY <1>0, <1>2, RunOutcome
  <2>2. /\ ctx' = run.ctx /\ mail' = mail \o run.ends
        /\ inflight' = [Owed(t, run) EXCEPT ![m] = @ - 1]
        /\ ran' = ran \cup (run.first .. run.last)
    BY <1>2 DEF Continue
  <2> HIDE DEF run
  <2>3. run.ends \in Seq(ChangeRecords)
    BY <1>0, <1>2, <2>1, BroadcastType
  <2>4. mail' \in Seq(ChangeRecords)
    BY <1>0, <2>2, <2>3, ConcatProperties
  <2>5. inflight' \in [Messages -> Nat]
    <3>1. Owed(t, run)[m] \in Nat \ {0}
      BY <1>0, <1>2, OwedType
    <3> QED
      BY <2>2, <3>1, OwedType
  <2>6. ran' \in SUBSET Nat
    <3>1. ctx.index \in Nat
      BY <1>0 DEF Context
    <3>2. run.first .. run.last \subseteq Nat
      BY <2>1, <3>1
    <3> QED
      BY <1>0, <2>2, <3>2
  <2> QED
    BY <1>0, <1>2, <2>1, <2>2, <2>4, <2>5, <2>6 DEF TypeOK, ChangeRecords
<1>3. ASSUME NEW m \in Messages, StepDone(m) PROVE TypeOK'
  BY <1>0, <1>2, <1>3 DEF StepDone, Expects, Context
<1>4. ASSUME NEW m \in Messages, StaleDropped(m) PROVE TypeOK'
  BY <1>0, <1>4 DEF StaleDropped, TypeOK
<1>5. ASSUME NEW m \in Messages, ReadPastTable(m) PROVE TypeOK'
  BY <1>0, <1>2, <1>5 DEF ReadPastTable, ReadsPastEnd, Context
<1>6. ASSUME Listen PROVE TypeOK'
  <2>1. Head(mail) \in ChangeRecords /\ Tail(mail) \in Seq(ChangeRecords)
    BY <1>0, <1>6, HeadTailProperties DEF Listen
  <2> QED
    BY <1>0, <1>6, <2>1 DEF Listen, TypeOK, ChangeRecords
<1>7. ASSUME Reset PROVE TypeOK'
  <2>1. PoweredOff \in Context /\ "powered_off" \in States
    BY DEF PoweredOff, Context, States, StableStates
  <2> QED
    BY <1>0, <1>7, <2>1 DEF Reset, TypeOK
<1>8. CASE UNCHANGED vars
  BY <1>8 DEF vars, TypeOK
<1> QED
  BY <1>1, <1>3, <1>4, <1>5, <1>6, <1>7, <1>8 DEF Next

\* Whatever is called and in whatever order the answers arrive, the variables
\* keep their types (system_state_ctx of system_state.c among them).
THEOREM TypeCorrect == Spec => []TypeOK
  BY TypeInit, TypeStep, PTL DEF Spec

---------------------------------------------------------------------------
(* The position in the table.  The three properties are inductive together *)
(* with the types: what a message may do depends on the entry the table    *)
(* stands at, and which entries were called depends on the state.          *)

PositionInv == PositionMatchesState /\ EveryStepCalled /\ AwaitedIsOwed

\* A run on the table of t that began with the state source, after which the
\* entries 1 .. last have been called and the answer of the last is owed,
\* establishes the three properties.
LEMMA RunEstablishes ==
  ASSUME NEW t \in TransitionNames, NEW c \in Context, NEW run,
         c.state \in {Via[t], To[t]},
         c.index <= Len(Tables[t]) => c.state = Via[t],
         run.ctx.index > c.index, run.ctx.index \in Nat,
         Stopped(c, t, run) \/ Finished(c, t, run),
         ctx' = run.ctx, run.ctx.transition = t,
         ran' = 1 .. (IF run.ctx.index <= Len(Tables[t]) THEN run.ctx.index ELSE Len(Tables[t])),
         run.ctx.index <= Len(Tables[t]) =>
           \A m \in Messages : Tables[t][run.ctx.index] = m => inflight'[m] > 0
  PROVE  PositionInv'
<1>1. /\ Len(Tables[t]) \in Nat /\ t # NoTransition
      /\ c.index \in Nat
  BY TransitionFacts DEF Context
<1>2. ctx'.transition = t /\ ctx'.index = run.ctx.index /\ ctx'.state = run.ctx.state
  OBVIOUS
<1>3. Waiting' <=> run.ctx.index <= Len(Tables[t])
  BY <1>1, <1>2 DEF Waiting, CurrentTable
<1>4. CurrentTable' = Tables[t]
  BY <1>2 DEF CurrentTable
<1>5. PositionMatchesState'
  BY <1>1, <1>2, <1>3, <1>4 DEF PositionMatchesState, Stopped, Finished
<1>6. EveryStepCalled'
  BY <1>1, <1>2, <1>3, <1>4 DEF EveryStepCalled
<1>7. AwaitedIsOwed'
  BY <1>2, <1>3, <1>4 DEF AwaitedIsOwed
<1> QED
  BY <1>5, <1>6, <1>7 DEF PositionInv

\* SystemState_Init establishes the three properties: nothing is under way.
LEMMA PositionInit == Init => PositionInv
<1> SUFFICES ASSUME Init PROVE PositionInv
  OBVIOUS
<1>1. ctx.transition = NoTransition /\ ctx = PoweredOff
  BY DEF Init, PoweredOff
<1> QED
  BY <1>1 DEF PositionInv, PositionMatchesState, EveryStepCalled, AwaitedIsOwed, Waiting

\* A call, accepted in whatever state, sets the table up from its beginning.
LEMMA PositionCall ==
  ASSUME TypeOK, NEW t \in TransitionNames, Call(t)
  PROVE  PositionInv'
<1> DEFINE run == InitiateTransition(ctx, t)
<1>1. ctx \in Context
  BY DEF TypeOK
<1>2. /\ run.ctx \in Context /\ run.first = 1 /\ run.last \in Nat
      /\ run.ctx.transition = t /\ run.ctx.index > 0
      /\ Stopped(SetUp(t), t, run) \/ Finished(SetUp(t), t, run)
  BY <1>1, InitiateOutcome
<1>3. ctx' = run.ctx /\ inflight' = Owed(t, run) /\ ran' = run.first .. run.last
  BY DEF Call
<1>4. /\ SetUp(t) \in Context /\ SetUp(t).state = Via[t] /\ SetUp(t).index = 0
      /\ Len(Tables[t]) \in Nat
  BY TransitionFacts DEF SetUp, Context, States
<1> HIDE DEF run
<1>5. run.ctx.index \in Nat
  BY <1>2 DEF Context
<1>6. ran' = 1 .. (IF run.ctx.index <= Len(Tables[t]) THEN run.ctx.index ELSE Len(Tables[t]))
  BY <1>2, <1>3, <1>4, <1>5 DEF Stopped, Finished
<1>7. ASSUME run.ctx.index <= Len(Tables[t]), NEW m \in Messages,
             Tables[t][run.ctx.index] = m
      PROVE  inflight'[m] > 0
  <2>1. run.ctx.index \in run.first .. run.last
    BY <1>2, <1>4, <1>5, <1>7 DEF Stopped, Finished
  <2> QED
    BY <1>3, <1>7, <2>1 DEF Owed, TypeOK
<1> QED
  BY <1>2, <1>3, <1>4, <1>5, <1>6, <1>7, RunEstablishes

\* A message that goes on with the table it was delivered to: the entries it
\* calls follow those called before, and the one it stops at owes its answer.
LEMMA PositionContinue ==
  ASSUME TypeOK, PositionInv, NEW m \in Messages, Continue(m), inflight[m] > 0,
         ctx.transition \in TransitionNames, ctx.index > 0
  PROVE  PositionInv'
<1> DEFINE t   == ctx.transition
           run == DoTransition(ctx, t)
<1>1. ctx \in Context /\ ctx.index \in Nat
  BY DEF TypeOK, Context
<1>2. /\ run.ctx \in Context /\ run.first = ctx.index + 1 /\ run.last \in Nat
      /\ run.ctx.transition = t /\ run.ctx.index > ctx.index
      /\ Stopped(ctx, t, run) \/ Finished(ctx, t, run)
  BY <1>1, RunOutcome
<1>3. /\ ctx' = run.ctx /\ inflight' = [Owed(t, run) EXCEPT ![m] = @ - 1]
      /\ ran' = ran \cup (run.first .. run.last)
  BY DEF Continue
<1>4. Len(Tables[t]) \in Nat /\ t # NoTransition
  BY TransitionFacts
<1>5. Waiting <=> ctx.index <= Len(Tables[t])
  BY <1>1, <1>4 DEF Waiting, CurrentTable
<1>6. /\ ctx.state = IF ctx.index <= Len(Tables[t]) THEN Via[t] ELSE To[t]
      /\ ran = 1 .. (IF ctx.index <= Len(Tables[t]) THEN ctx.index ELSE Len(Tables[t]))
  BY <1>4, <1>5 DEF PositionInv, PositionMatchesState, EveryStepCalled, CurrentTable
<1> HIDE DEF run
<1>7. run.ctx.index \in Nat
  BY <1>2 DEF Context
<1>8. ran' = 1 .. (IF run.ctx.index <= Len(Tables[t]) THEN run.ctx.index ELSE Len(Tables[t]))
  <2> DEFINE last == run.ctx.index
  <2>1. CASE ctx.index <= Len(Tables[t])
    <3>1. /\ ran = 1 .. ctx.index
          /\ run.last = IF last <= Len(Tables[t]) THEN last ELSE Len(Tables[t])
          /\ run.last >= ctx.index
      BY <1>1, <1>2, <1>4, <1>6, <1>7, <2>1 DEF Stopped, Finished
    <3>2. ran' = (1 .. ctx.index) \cup (ctx.index + 1 .. run.last)
      BY <1>2, <1>3, <3>1
    <3> QED
      BY <1>1, <1>2, <3>1, <3>2
  <2>2. CASE ctx.index > Len(Tables[t])
    <3>1. ran = 1 .. Len(Tables[t]) /\ last > Len(Tables[t]) /\ run.last = ctx.index
      BY <1>1, <1>2, <1>4, <1>6, <1>7, <2>2 DEF Stopped, Finished
    <3>2. run.first .. run.last = {}
      BY <1>1, <1>2, <3>1
    <3> QED
      BY <1>3, <1>4, <1>7, <3>1, <3>2
  <2> QED
    BY <1>1, <1>4, <2>1, <2>2
<1>9. ASSUME run.ctx.index <= Len(Tables[t]), NEW n \in Messages,
             Tables[t][run.ctx.index] = n
      PROVE  inflight'[n] > 0
  <2>1. run.ctx.index \in run.first .. run.last
    BY <1>1, <1>2, <1>4, <1>7, <1>9 DEF Stopped, Finished
  <2>2. Owed(t, run)[n] = inflight[n] + 1 /\ inflight[n] \in Nat
    BY <1>9, <2>1 DEF Owed, TypeOK
  <2>3. Owed(t, run) \in [Messages -> Nat]
    BY OwedType
  <2> QED
    BY <1>3, <1>9, <2>2, <2>3
<1> QED
  BY <1>1, <1>2, <1>3, <1>4, <1>6, <1>7, <1>8, <1>9, RunEstablishes

\* Every action preserves the three properties.
LEMMA PositionStep == TypeOK /\ PositionInv /\ [Next]_vars => PositionInv'
<1> SUFFICES ASSUME TypeOK, PositionInv, [Next]_vars PROVE PositionInv'
  OBVIOUS
<1>0. ctx \in Context /\ inflight \in [Messages -> Nat]
  BY DEF TypeOK
<1>1. ASSUME NEW t \in TransitionNames, Call(t) PROVE PositionInv'
  BY <1>1, PositionCall
<1>2. ASSUME NEW m \in Messages, StepDone(m) PROVE PositionInv'
  BY <1>0, <1>2, PositionContinue DEF StepDone, Expects, Context
<1>3. ASSUME NEW m \in Messages, StaleDropped(m) PROVE PositionInv'
  <2>1. ctx' = ctx /\ ran' = ran /\ inflight' = [inflight EXCEPT ![m] = @ - 1]
    BY <1>3 DEF StaleDropped
  <2>2. PositionMatchesState' /\ EveryStepCalled'
    BY <2>1 DEF PositionInv, PositionMatchesState, EveryStepCalled, Waiting, CurrentTable
  <2>3. ASSUME NEW n \in Messages, Waiting, CurrentTable[ctx.index] = n
        PROVE  inflight'[n] > 0
    <3>1. n # m
      BY <1>3, <2>3 DEF StaleDropped, Expects, Waiting, CurrentTable
    <3> QED
      BY <1>0, <2>1, <2>3, <3>1 DEF PositionInv, AwaitedIsOwed
  <2>4. AwaitedIsOwed'
    BY <2>1, <2>3 DEF AwaitedIsOwed, Waiting, CurrentTable
  <2> QED
    BY <2>2, <2>4 DEF PositionInv
<1>4. ASSUME NEW m \in Messages, ReadPastTable(m) PROVE PositionInv'
  <2>1. ctx.transition \in TransitionNames
    BY <1>0, <1>4 DEF ReadPastTable, ReadsPastEnd, Context
  <2>2. ctx.index > 0
    BY <1>0, <1>4, <2>1, TransitionFacts DEF ReadPastTable, ReadsPastEnd, Context
  <2> QED
    BY <1>4, <2>1, <2>2, PositionContinue DEF ReadPastTable
<1>5. ASSUME Listen PROVE PositionInv'
  BY <1>5 DEF Listen, PositionInv, PositionMatchesState, EveryStepCalled, AwaitedIsOwed,
              Waiting, CurrentTable
<1>6. ASSUME Reset PROVE PositionInv'
  <2>1. ctx' = PoweredOff /\ ctx'.transition = NoTransition
    BY <1>6 DEF Reset, PoweredOff
  <2> QED
    BY <2>1 DEF PositionInv, PositionMatchesState, EveryStepCalled, AwaitedIsOwed, Waiting
<1>7. CASE UNCHANGED vars
  BY <1>7 DEF vars, PositionInv, PositionMatchesState, EveryStepCalled, AwaitedIsOwed,
              Waiting, CurrentTable
<1> QED
  BY <1>1, <1>2, <1>3, <1>4, <1>5, <1>6, <1>7 DEF Next

\* The state and the position in the table agree in every reachable state
\* (systemState_InitiateTransiton, systemState_CompleteTransition).
THEOREM PositionCorrect == Spec => []PositionMatchesState
  BY TypeInit, TypeStep, PositionInit, PositionStep, PTL DEF Spec, PositionInv

\* A stable state is reached only when every entry of the table was called:
\* no answer of a superseded transition makes systemState_MessageHandler skip one.
THEOREM StepsCorrect == Spec => []EveryStepCalled
  BY TypeInit, TypeStep, PositionInit, PositionStep, PTL DEF Spec, PositionInv

\* The answer systemState_MessageHandler waits for is always still to come.
THEOREM AnswerCorrect == Spec => []AwaitedIsOwed
  BY TypeInit, TypeStep, PositionInit, PositionStep, PTL DEF Spec, PositionInv

\* Reading behind the end of a table never changes the power state, whatever
\* systemState_MessageHandler finds there.
THEOREM PastEndCorrect == Spec => PastEndIsHarmless
<1>1. ASSUME TypeOK, PositionInv, NEW m \in Messages, ReadPastTable(m)
      PROVE  ctx'.state = ctx.state
  <2> DEFINE t   == ctx.transition
             run == DoTransition(ctx, t)
  <2>1. ctx \in Context /\ t \in TransitionNames /\ ctx.index > Len(Tables[t])
    BY <1>1 DEF TypeOK, ReadPastTable, ReadsPastEnd, Context
  <2>2. Len(Tables[t]) \in Nat /\ t # NoTransition /\ ctx.index \in Nat
    BY <2>1, TransitionFacts DEF Context
  <2>3. ctx.state = To[t]
    BY <1>1, <2>1, <2>2 DEF PositionInv, PositionMatchesState, Waiting, CurrentTable
  <2>4. /\ run.ctx \in Context /\ run.ctx.index > ctx.index
        /\ Stopped(ctx, t, run) \/ Finished(ctx, t, run)
    BY <2>1, RunOutcome
  <2>5. ctx' = run.ctx
    BY <1>1 DEF ReadPastTable, Continue
  <2> HIDE DEF run
  <2> QED
    BY <2>1, <2>2, <2>3, <2>4, <2>5 DEF Stopped, Finished, Context
<1>2. TypeOK /\ PositionInv /\ [Next]_vars =>
        [(\E m \in Messages : ReadPastTable(m)) => ctx'.state = ctx.state]_vars
  BY <1>1
<1> QED
  BY <1>2, TypeInit, TypeStep, PositionInit, PositionStep, PTL DEF Spec, PastEndIsHarmless

---------------------------------------------------------------------------
(* SystemState implements PowerStates as seen by the listener.  The        *)
(* messages on their way to it form a chain of edges of the documented     *)
(* graph from the state it was last told of to the present one.            *)

\* One edge of the graph: a transition begins or ends, or the chip starts again.
Edge(a, b) ==
  \/ a = b
  \/ b = "powered_off"
  \/ \E t \in TransitionNames : a \in From[t] /\ b = Via[t]
  \/ \E t \in TransitionNames : From[t] # {} /\ a = Via[t] /\ b = To[t]

Chain(q, told, present) ==
  /\ \A n \in 1 .. Len(q) : /\ q[n].old = IF n = 1 THEN told ELSE q[n - 1].new
                            /\ Edge(q[n].old, q[n].new)
  /\ present = IF q = << >> THEN told ELSE q[Len(q)].new

\* With the transition under way or ended last being one that can begin.
ChainInv ==
  /\ Chain(mail, heard, ctx.state)
  /\ ctx.transition # NoTransition => From[ctx.transition] # {}

\* The edges are the steps of PowerStates.
LEMMA EdgeIsStep ==
  ASSUME Edge(heard, heard')
  PROVE  [Listener!Next]_heard
<1> USE DEF Listener!Next, Listener!Initialise, Listener!StartUp, Listener!PowerOn,
            Listener!PowerOff, Listener!Sleep, Listener!Shutdown, Listener!EmergencyShutdown,
            Listener!Restart
<1>1. CASE heard = heard' \/ heard' = "powered_off"
  BY <1>1
<1>2. ASSUME NEW t \in TransitionNames, heard \in From[t], heard' = Via[t]
      PROVE  Listener!Next
  BY <1>2 DEF TransitionNames, From, Via, HomeState
<1>3. ASSUME NEW t \in TransitionNames, From[t] # {}, heard = Via[t], heard' = To[t]
      PROVE  Listener!Next
  <2>1. t \in {"power_on", "power_off"} => ~LimboRemoved
    BY <1>3 DEF From, TransitionNames
  <2> QED
    BY <1>3, <2>1 DEF TransitionNames, Via, To, HomeState
<1> QED
  BY <1>1, <1>2, <1>3 DEF Edge

\* systemState_SetState adds an edge from the present state to the chain.
LEMMA ChainAppend ==
  ASSUME NEW q \in Seq(ChangeRecords), NEW told \in States, NEW present \in States,
         NEW next \in States, Chain(q, told, present), Edge(present, next)
  PROVE  /\ Append(q, Change(present, next)) \in Seq(ChangeRecords)
         /\ Chain(Append(q, Change(present, next)), told, next)
<1> DEFINE c == Change(present, next)
           r == Append(q, c)
<1>1. c \in ChangeRecords /\ c.old = present /\ c.new = next
  BY DEF Change, ChangeRecords
<1> HIDE DEF c
<1>2. /\ r \in Seq(ChangeRecords) /\ r # << >> /\ Len(r) = Len(q) + 1
      /\ \A n \in 1 .. Len(q) : r[n] = q[n]
      /\ r[Len(q) + 1] = c
  BY <1>1, AppendProperties
<1>3. Len(q) \in Nat /\ (q = << >> <=> Len(q) = 0)
  BY LenProperties, EmptySeq
<1> HIDE DEF r
<1>4. ASSUME NEW n \in 1 .. Len(r)
      PROVE  /\ r[n].old = IF n = 1 THEN told ELSE r[n - 1].new
             /\ Edge(r[n].old, r[n].new)
  <2>1. CASE n \in 1 .. Len(q)
    <3>1. r[n] = q[n] /\ (n # 1 => n - 1 \in 1 .. Len(q) /\ r[n - 1] = q[n - 1])
      BY <1>2, <1>3, <2>1
    <3> QED
      BY <2>1, <3>1 DEF Chain
  <2>2. CASE n = Len(q) + 1
    <3>1. r[n] = c /\ (n # 1 => r[n - 1] = q[Len(q)])
      BY <1>2, <1>3, <2>2
    <3>2. present = IF n = 1 THEN told ELSE r[n - 1].new
      BY <1>3, <2>2, <3>1 DEF Chain
    <3> QED
      BY <1>1, <3>1, <3>2
  <2> QED
    BY <1>2, <1>3, <2>1, <2>2
<1>5. Chain(r, told, next)
  BY <1>1, <1>2, <1>3, <1>4 DEF Chain
<1> QED
  BY <1>2, <1>5 DEF r, c

\* The listener's next message is an edge from the state it knows.
LEMMA ChainTail ==
  ASSUME NEW q \in Seq(ChangeRecords), q # << >>, NEW told, NEW present,
         Chain(q, told, present)
  PROVE  Edge(told, Head(q).new) /\ Chain(Tail(q), Head(q).new, present)
<1> DEFINE r == Tail(q)
<1>1. /\ Head(q) = q[1] /\ r \in Seq(ChangeRecords)
      /\ Len(r) = Len(q) - 1 /\ \A n \in 1 .. Len(r) : r[n] = q[n + 1]
      /\ Len(q) \in Nat \ {0}
  BY HeadTailProperties, EmptySeq
<1>2. Edge(told, Head(q).new)
  BY <1>1 DEF Chain
<1>3. r = << >> <=> Len(r) = 0
  BY <1>1, EmptySeq
<1> HIDE DEF r
<1>4. ASSUME NEW n \in 1 .. Len(r)
      PROVE  /\ r[n].old = IF n = 1 THEN Head(q).new ELSE r[n - 1].new
             /\ Edge(r[n].old, r[n].new)
  <2>1. n + 1 \in 1 .. Len(q) /\ r[n] = q[n + 1] /\ (n # 1 => r[n - 1] = q[n])
    BY <1>1
  <2> QED
    BY <1>1, <2>1 DEF Chain
<1>5. present = IF r = << >> THEN Head(q).new ELSE r[Len(r)].new
  BY <1>1, <1>3 DEF Chain
<1> QED
  BY <1>2, <1>4, <1>5 DEF Chain, r

\* After SystemState_Init the listener knows the state and nothing is on its way.
LEMMA ChainInit == Init => Listener!Init /\ ChainInv
  BY DEF Init, Listener!Init, ChainInv, Chain, PoweredOff

\* What a run of the engine broadcasts continues the chain.
LEMMA ChainRun ==
  ASSUME NEW q \in Seq(ChangeRecords), NEW told \in States, NEW t \in TransitionNames,
         NEW c \in Context, NEW run, From[t] # {}, c.state \in {Via[t], To[t]},
         Chain(q, told, c.state), Stopped(c, t, run) \/ Finished(c, t, run)
  PROVE  Chain(q \o run.ends, told, run.ctx.state)
<1>1. CASE Stopped(c, t, run)
  BY <1>1, ConcatEmptySeq DEF Stopped
<1>2. CASE Finished(c, t, run)
  <2>1. To[t] \in States /\ c.state \in States /\ Edge(c.state, To[t])
    BY TransitionFacts DEF Edge, Context, States
  <2>2. Chain(Append(q, Change(c.state, To[t])), told, To[t])
    BY <2>1, ChainAppend
  <2>3. Change(c.state, To[t]) \in ChangeRecords
    BY <2>1 DEF Change, ChangeRecords
  <2>4. q \o run.ends = Append(q, Change(c.state, To[t]))
    BY <1>2, <2>3, AppendIsConcat DEF Finished
  <2> QED
    BY <1>2, <2>2, <2>4 DEF Finished
<1> QED
  BY <1>1, <1>2

\* Every step keeps the chain, and moves the listener along an edge or not at all.
LEMMA ChainStep ==
  TypeOK /\ PositionInv /\ ChainInv /\ [Next]_vars => ChainInv' /\ Edge(heard, heard')
<1> SUFFICES ASSUME TypeOK, PositionInv, ChainInv, [Next]_vars
             PROVE  ChainInv' /\ Edge(heard, heard')
  OBVIOUS
<1>0. /\ ctx \in Context /\ ctx.state \in States /\ mail \in Seq(ChangeRecords)
      /\ heard \in States
  BY DEF TypeOK, Context, ChangeRecords
<1>1. ASSUME NEW t \in TransitionNames, Call(t) PROVE ChainInv' /\ heard' = heard
  <2> DEFINE run == InitiateTransition(ctx, t)
             q   == Append(mail, Change(ctx.state, Via[t]))
  <2>1. /\ run.ctx \in Context /\ run.ctx.transition = t
        /\ run.begins = <<Change(ctx.state, Via[t])>>
        /\ Stopped(SetUp(t), t, run) \/ Finished(SetUp(t), t, run)
    BY <1>0, InitiateOutcome
  <2>2. /\ ctx' = run.ctx /\ mail' = mail \o (run.begins \o run.ends) /\ heard' = heard
        /\ ctx.state \in From[t]
    BY <1>1 DEF Call, MayInitiate
  <2>3. SetUp(t) \in Context /\ SetUp(t).state = Via[t] /\ Via[t] \in States
    BY TransitionFacts DEF SetUp, Context, States
  <2> HIDE DEF run
  <2>4. Edge(ctx.state, Via[t])
    BY <2>2 DEF Edge
  <2>5. q \in Seq(ChangeRecords) /\ Chain(q, heard, Via[t])
    BY <1>0, <2>3, <2>4, ChainAppend DEF ChainInv
  <2> HIDE DEF q
  <2>6. Chain(q \o run.ends, heard, run.ctx.state)
    BY <1>0, <2>1, <2>2, <2>3, <2>5, ChainRun
  <2>7. mail' = q \o run.ends
    <3>1. run.begins \in Seq(ChangeRecords) /\ run.ends \in Seq(ChangeRecords)
      <4>1. run.begins \in {<< >>, <<Change(ctx.state, Via[t])>>}
        BY <2>1
      <4>2. Stopped(SetUp(t), t, run) \/ Finished(SetUp(t), t, run)
        BY <2>1
      <4>3. ctx.state \in States /\ SetUp(t) \in Context
        BY <1>0, <2>3
      <4> QED
        BY ONLY <1>1, <4>1, <4>2, <4>3, BroadcastType
    <3>2. Change(ctx.state, Via[t]) \in ChangeRecords
      BY <1>0, <2>3 DEF Change, ChangeRecords
    <3>3. q = mail \o run.begins
      BY <1>0, <2>1, <3>2, AppendIsConcat DEF q
    <3>4. \A a, b, c \in Seq(ChangeRecords) : (a \o b) \o c = a \o (b \o c)
      BY ConcatAssociative
    <3>5. (mail \o run.begins) \o run.ends = mail \o (run.begins \o run.ends)
      BY ONLY <1>0, <3>1, <3>4, Zenon
    <3> QED
      BY <2>2, <3>3, <3>5
  <2> QED
    BY <2>1, <2>2, <2>6, <2>7 DEF ChainInv
<1>2. ASSUME NEW m \in Messages, ctx.transition \in TransitionNames, Continue(m),
             heard' = heard
      PROVE  ChainInv'
  <2> DEFINE t   == ctx.transition
             run == DoTransition(ctx, t)
  <2>1. run.ctx.transition = t /\ (Stopped(ctx, t, run) \/ Finished(ctx, t, run))
    BY <1>0, <1>2, RunOutcome
  <2>2. ctx' = run.ctx /\ mail' = mail \o run.ends
    BY <1>2 DEF Continue
  <2>3. t # NoTransition
    BY <1>2, TransitionFacts
  <2>4. ctx.state \in {Via[t], To[t]}
    BY <2>3 DEF PositionInv, PositionMatchesState
  <2> HIDE DEF run
  <2>5. Chain(mail \o run.ends, heard, run.ctx.state)
    BY <1>0, <1>2, <2>1, <2>3, <2>4, ChainRun DEF ChainInv
  <2> QED
    BY <1>2, <2>1, <2>2, <2>3, <2>5 DEF ChainInv
<1>3. ASSUME NEW m \in Messages, StepDone(m) PROVE ChainInv' /\ heard' = heard
  BY <1>0, <1>2, <1>3 DEF StepDone, Expects, Context
<1>4. ASSUME NEW m \in Messages, StaleDropped(m) PROVE ChainInv' /\ heard' = heard
  BY <1>4 DEF StaleDropped, ChainInv
<1>5. ASSUME NEW m \in Messages, ReadPastTable(m) PROVE ChainInv' /\ heard' = heard
  BY <1>0, <1>2, <1>5 DEF ReadPastTable, ReadsPastEnd, Context
<1>6. ASSUME Listen PROVE ChainInv' /\ Edge(heard, heard')
  BY <1>0, <1>6, ChainTail DEF Listen, ChainInv
<1>7. ASSUME Reset PROVE ChainInv' /\ heard' = "powered_off"
  BY <1>7 DEF Reset, ChainInv, Chain, PoweredOff
<1>8. CASE UNCHANGED vars
  BY <1>8 DEF vars, ChainInv, Edge
<1> QED
  BY <1>1, <1>3, <1>4, <1>5, <1>6, <1>7, <1>8 DEF Next, Edge

\* Whatever messages are still on their way, the states a listener is told of
\* walk the graph of system_state.h: SystemState implements PowerStates.
THEOREM ListenerCorrect == Spec => ListenerFollowsStateGraph
<1>1. Edge(heard, heard') => [Listener!Next]_heard
  BY EdgeIsStep
<1> QED
  BY <1>1, TypeInit, TypeStep, PositionInit, PositionStep, ChainInit, ChainStep, PTL
     DEF Spec, ListenerFollowsStateGraph, Listener!Spec
=============================================================================
