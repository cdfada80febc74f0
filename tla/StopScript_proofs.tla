-------------------------- MODULE StopScript_proofs --------------------------
(***************************************************************************)
(* A stop that was asked for is under way: proved for any inputs, any      *)
(* number of handsets and any backlog of messages.  The messages of the    *)
(* stop are never held back, so that they are delivered in their order     *)
(* among themselves, and the proof follows that order.                     *)
(***************************************************************************)
EXTENDS StereoTopology_proofs

---------------------------------------------------------------------------
(* The messages of the stop.                                               *)

SystemStop == "system_stop"

\* A step of the script is complete; the last step has been reached; the rules
\* have decided to stop; and that goal as it waits in the queue.
StepMsg  == Plain("step")
Finished == Plain("STOP_FINISHED")
Decided  == R!Decision(SystemStop)
Queued   == G!QueuedMessage(SystemStop)

Marks == {StepMsg, Finished, Decided}

\* Those that are under way, in their order
Marked(w) == Keep(w.mail, Marks)
Has(w, m) == \E i \in 1 .. Len(Marked(w)) : Marked(w)[i] = m

---------------------------------------------------------------------------
(* The inductive invariant.                                                *)

Stopping(w) == w.topo.state = "STOPPING"

\* The script has a step while its goal is active.
ScriptRuns(w) == w.proc.step = 0 <=> SystemStop \notin w.active

\* A step that completes by itself has its message, one only; the two that ask
\* another module hold its answer.
StepIsAnswered(w) ==
  /\ Has(w, StepMsg) <=> w.proc.step \in {1, 2, 3, 7}
  /\ \A i, j \in 1 .. Len(Marked(w)) :
       Marked(w)[i] = StepMsg /\ Marked(w)[j] = StepMsg => i = j
  /\ w.proc.le = "script" <=> w.proc.step = 4
  /\ w.proc.disconnect = "script" <=> w.proc.step = 5

\* The topology is told that the script has come to its end before the script
\* ends.  If it has been told and is stopping again, that has been decided anew.
ToldFirst(w) ==
  LET m == Marked(w)
  IN  w.proc.step = 7 =>
        \/ \E k \in 2 .. Len(m) : m[k] = StepMsg /\ m[k - 1] = Finished
        \/ m[1] = StepMsg /\ (Stopping(w) => Has(w, Decided))

\* Somebody waits, and not for ever.
Asked(w) == Stopping(w) => w.topo.app_task = "app" /\ w.timer

\* The rule that stops is never left complete, which would silence it.
RuleListens(w) == w.rules.status[1] # "complete"

Scripted(w) ==
  ScriptRuns(w) /\ StepIsAnswered(w) /\ ToldFirst(w) /\ Asked(w) /\ RuleListens(w)

Pending(w) ==
  SystemStop \in w.active \/ Has(w, Decided) \/ Has(w, Finished) \/ G!Waiting(w, SystemStop)

RuleDecides(w) == w.rules.status[1] = "in_progress" => Has(w, Decided)

UnderWay(w) == Scripted(w) /\ RuleDecides(w) /\ (Stopping(w) => Pending(w))

SInv == IInv /\ UnderWay(World)

---------------------------------------------------------------------------
(* Sequences.                                                              *)

\* Of the messages of the stop only decisions are added.
Grows(s, t) ==
  /\ Len(s) <= Len(t)
  /\ \A i \in 1 .. Len(s) : t[i] = s[i]
  /\ \A i \in Len(s) + 1 .. Len(t) : t[i] = Decided

\* The messages are different ones, and none is held back.
LEMMA MarksAre ==
  /\ StepMsg # Finished /\ StepMsg # Decided /\ Finished # Decided
  /\ Marks \subseteq Messages /\ Marks \cap G!QueuedMessages = {}
  /\ Queued \in Messages /\ Queued \in G!QueuedMessages /\ Queued \notin Marks
  /\ SystemStop \in GoalIds
<1>1. SystemStop \in GoalIds
  BY GoalsAre DEF SystemStop
<1>2. StepMsg # Finished /\ StepMsg # Decided /\ Finished # Decided
  BY DEF StepMsg, Finished, Decided, Plain, R!Decision
<1>3. Marks \subseteq Messages /\ Marks \cap G!QueuedMessages = {}
  BY <1>1, MessagesAre DEF Marks, StepMsg, Finished, Decided
<1>4. Queued \in G!QueuedMessages
  BY <1>1, MessagesAre DEF Queued
<1> QED
  BY <1>1, <1>2, <1>3, <1>4, QueuedAre

\* Their sequence is one.
LEMMA MarkedIs ==
  ASSUME NEW w \in Worlds
  PROVE  /\ w.mail \in Seq(Messages) /\ Marked(w) \in Seq(Messages) /\ Len(Marked(w)) \in Nat
         /\ DOMAIN w.mail = 1 .. Len(w.mail) /\ Len(w.mail) \in Nat
         /\ \A i \in 1 .. Len(Marked(w)) : Marked(w)[i] \in Marks
<1>1. w.mail \in Seq(Messages)
  BY DEF Worlds
<1>2. Marked(w) \in Seq(Messages)
  BY <1>1, KeepPart DEF Marked
<1>3. Len(Marked(w)) \in Nat /\ DOMAIN Marked(w) = 1 .. Len(Marked(w))
  BY <1>2, LenProperties
<1>4. ASSUME NEW i \in 1 .. Len(Marked(w)) PROVE Marked(w)[i] \in Marks
  BY <1>1, <1>3, KeepFrom DEF Marked
<1> QED
  BY <1>1, <1>2, <1>3, <1>4, LenProperties

\* What is a decision more, or none, and then again
LEMMA GrowsAgain ==
  ASSUME NEW s, NEW t, NEW u, Len(s) \in Nat, Len(t) \in Nat, Len(u) \in Nat
  PROVE  Grows(s, s) /\ (Grows(s, t) /\ Grows(t, u) => Grows(s, u))
<1>1. Grows(s, s)
  BY DEF Grows
<1>2. ASSUME Grows(s, t), Grows(t, u) PROVE Grows(s, u)
  <2> DEFINE a == Len(s)
             b == Len(t)
             c == Len(u)
  <2>1. a <= b /\ b <= c /\ a \in Nat /\ b \in Nat /\ c \in Nat
    BY <1>2 DEF Grows
  <2>2. ASSUME NEW i \in 1 .. a PROVE u[i] = s[i]
    <3>1. i \in 1 .. b
      <4> HIDE DEF a, b, c
      <4> QED
        BY <2>1
    <3> QED
      BY <1>2, <3>1 DEF Grows
  <2>3. ASSUME NEW i \in a + 1 .. c PROVE u[i] = Decided
    <3>1. (i \in a + 1 .. b /\ i \in 1 .. b) \/ i \in b + 1 .. c
      <4> HIDE DEF a, b, c
      <4> QED
        BY <2>1
    <3> QED
      BY <1>2, <3>1 DEF Grows
  <2>4. a <= c
    <3> HIDE DEF a, b, c
    <3> QED
      BY <2>1
  <2> QED
    BY <2>2, <2>3, <2>4 DEF Grows
<1> QED
  BY <1>1, <1>2

---------------------------------------------------------------------------
(* What leaves a stop alone.                                               *)

\* A world is made of another without touching the script and its goal, its
\* messages or its rule, but that the rules may decide to stop.
Still(r, w) ==
  /\ Stopping(r) => Stopping(w)
  /\ w.topo.app_task = "app" /\ w.timer /\ Stopping(r) => r.topo.app_task = "app" /\ r.timer
  /\ r.proc.step = w.proc.step
  /\ r.proc.le = "script" <=> w.proc.le = "script"
  /\ r.proc.disconnect = "script" <=> w.proc.disconnect = "script"
  /\ SystemStop \in r.active <=> SystemStop \in w.active
  /\ Grows(Marked(w), Marked(r))
  /\ \/ r.rules.status[1] = w.rules.status[1]
     \/ r.rules.status[1] = "not_done"
     \/ r.rules.status[1] = "in_progress" /\ Has(r, Decided)

\* Nor is the goal taken out of the queue.
Calm(r, w) == Still(r, w) /\ (G!Waiting(w, SystemStop) => G!Waiting(r, SystemStop))

\* What is under way stays so.
LEMMA HasGrows ==
  ASSUME NEW w \in Worlds, NEW r \in Worlds, Grows(Marked(w), Marked(r))
  PROVE  /\ \A m : Has(w, m) => Has(r, m)
         /\ \A m : Has(r, m) => Has(w, m) \/ m = Decided
<1>1. Len(Marked(w)) \in Nat /\ Len(Marked(r)) \in Nat
  BY MarkedIs
<1>2. ASSUME NEW m, Has(w, m) PROVE Has(r, m)
  BY <1>1, <1>2 DEF Has, Grows
<1>3. ASSUME NEW m, Has(r, m) PROVE Has(w, m) \/ m = Decided
  <2>1. PICK i \in 1 .. Len(Marked(r)) : Marked(r)[i] = m
    BY <1>3 DEF Has
  <2>2. i \in 1 .. Len(Marked(w)) \/ i \in Len(Marked(w)) + 1 .. Len(Marked(r))
    BY <1>1
  <2> QED
    BY <2>1, <2>2 DEF Has, Grows
<1> QED
  BY <1>2, <1>3

LEMMA StillAgain ==
  ASSUME NEW w \in Worlds, NEW v \in Worlds, NEW r \in Worlds, Still(v, w), Still(r, v)
  PROVE  Still(r, w)
<1>1. Grows(Marked(w), Marked(r))
  BY MarkedIs, GrowsAgain DEF Still
<1>2. \A m : Has(v, m) => Has(r, m)
  BY HasGrows DEF Still
<1>3. /\ Stopping(r) => Stopping(w)
      /\ w.topo.app_task = "app" /\ w.timer /\ Stopping(r) => r.topo.app_task = "app" /\ r.timer
  BY DEF Still
<1>4. \/ r.rules.status[1] = w.rules.status[1]
      \/ r.rules.status[1] = "not_done"
      \/ r.rules.status[1] = "in_progress" /\ Has(r, Decided)
  BY <1>2 DEF Still
<1> QED
  BY <1>1, <1>3, <1>4 DEF Still

LEMMA CalmAgain ==
  ASSUME NEW w \in Worlds, NEW v \in Worlds, NEW r \in Worlds, Calm(v, w), Calm(r, v)
  PROVE  Calm(r, w)
BY StillAgain DEF Calm

\* What leaves the stop alone keeps the invariant.
LEMMA CalmKeeps ==
  ASSUME NEW w \in Worlds, NEW r \in Worlds, Still(r, w)
  PROVE  /\ Scripted(w) => Scripted(r)
         /\ RuleDecides(w) => RuleDecides(r)
         /\ Calm(r, w) /\ Pending(w) => Pending(r)
         /\ Calm(r, w) /\ UnderWay(w) => UnderWay(r)
<1> DEFINE a == Marked(w)
           b == Marked(r)
<1>1. Len(a) \in Nat /\ Len(b) \in Nat /\ Grows(a, b)
  BY MarkedIs DEF Calm, Still
<1>2. \A m : Has(w, m) => Has(r, m)
  BY HasGrows DEF Calm, Still
<1>3. Has(r, StepMsg) => Has(w, StepMsg)
  BY HasGrows, MarksAre DEF Calm, Still
<1>4. ASSUME Scripted(w) PROVE Scripted(r)
  <2>1. ScriptRuns(r)
    BY <1>4 DEF Scripted, ScriptRuns, Calm, Still
  <2>2. StepIsAnswered(r)
    <3>1. ASSUME NEW i \in 1 .. Len(b), NEW j \in 1 .. Len(b), b[i] = StepMsg, b[j] = StepMsg
          PROVE  i = j
      <4> HIDE DEF a, b
      <4>1. i \in 1 .. Len(a) /\ j \in 1 .. Len(a)
        <5>1. i \in Len(a) + 1 .. Len(b) => b[i] = Decided
          BY <1>1 DEF Grows
        <5>2. j \in Len(a) + 1 .. Len(b) => b[j] = Decided
          BY <1>1 DEF Grows
        <5>3. i \notin Len(a) + 1 .. Len(b) /\ j \notin Len(a) + 1 .. Len(b)
          BY <3>1, <5>1, <5>2, MarksAre
        <5> QED
          BY <1>1, <5>3
      <4>2. a[i] = StepMsg /\ a[j] = StepMsg
        BY <1>1, <3>1, <4>1 DEF Grows
      <4>3. \A k, l \in 1 .. Len(a) : a[k] = StepMsg /\ a[l] = StepMsg => k = l
        BY <1>4 DEF Scripted, StepIsAnswered, a
      <4> QED
        BY <4>1, <4>2, <4>3
    <3>2. Has(r, StepMsg) <=> r.proc.step \in {1, 2, 3, 7}
      BY <1>2, <1>3, <1>4 DEF Scripted, StepIsAnswered, Calm, Still
    <3>3. /\ r.proc.le = "script" <=> r.proc.step = 4
          /\ r.proc.disconnect = "script" <=> r.proc.step = 5
      BY <1>4 DEF Scripted, StepIsAnswered, Calm, Still
    <3> QED
      BY <3>1, <3>2, <3>3 DEF StepIsAnswered
  <2>3. ToldFirst(r)
    <3> SUFFICES ASSUME r.proc.step = 7
                 PROVE  \/ \E k \in 2 .. Len(b) : b[k] = StepMsg /\ b[k - 1] = Finished
                        \/ b[1] = StepMsg /\ (Stopping(r) => Has(r, Decided))
      BY DEF ToldFirst
    <3>1. \/ \E k \in 2 .. Len(a) : a[k] = StepMsg /\ a[k - 1] = Finished
          \/ a[1] = StepMsg /\ (Stopping(w) => Has(w, Decided))
      BY <1>4 DEF Scripted, ToldFirst, Calm, Still
    <3>2. CASE \E k \in 2 .. Len(a) : a[k] = StepMsg /\ a[k - 1] = Finished
      <4> HIDE DEF a, b
      <4>1. PICK k \in 2 .. Len(a) : a[k] = StepMsg /\ a[k - 1] = Finished
        BY <3>2
      <4>2. k \in 1 .. Len(a) /\ k - 1 \in 1 .. Len(a) /\ k \in 2 .. Len(b)
        BY <1>1 DEF Grows
      <4>3. b[k] = StepMsg /\ b[k - 1] = Finished
        BY <1>1, <4>1, <4>2 DEF Grows
      <4> QED
        BY <4>2, <4>3
    <3>3. CASE a[1] = StepMsg /\ (Stopping(w) => Has(w, Decided))
      <4>1. Has(w, StepMsg)
        BY <1>4 DEF Scripted, StepIsAnswered, Calm, Still
      <4>2. 1 \in 1 .. Len(a)
        BY <1>1, <4>1 DEF Has
      <4>3. b[1] = StepMsg
        BY <1>1, <3>3, <4>2 DEF Grows
      <4> QED
        BY <1>2, <3>3, <4>3 DEF Calm, Still
    <3> QED
      BY <3>1, <3>2, <3>3
  <2>4. Asked(r)
    BY <1>4 DEF Scripted, Asked, Calm, Still
  <2>5. RuleListens(r)
    BY <1>4 DEF Scripted, RuleListens, Calm, Still
  <2> QED
    BY <2>1, <2>2, <2>3, <2>4, <2>5 DEF Scripted
<1>5. RuleDecides(w) => RuleDecides(r)
  BY <1>2 DEF RuleDecides, Calm, Still
<1>6. Calm(r, w) /\ Pending(w) => Pending(r)
  BY <1>2 DEF Pending, Calm, Still
<1> QED
  BY <1>4, <1>5, <1>6 DEF UnderWay, Calm, Still

\* What the messages are not concerned in
SameStop(r, w) ==
  /\ r.topo = w.topo /\ r.timer = w.timer /\ r.proc.step = w.proc.step
  /\ r.proc.le = "script" <=> w.proc.le = "script"
  /\ r.proc.disconnect = "script" <=> w.proc.disconnect = "script"
  /\ SystemStop \in r.active <=> SystemStop \in w.active
  /\ r.rules.status[1] = w.rules.status[1]

LEMMA SameIsCalm ==
  ASSUME NEW w \in Worlds, NEW r \in Worlds, SameStop(r, w),
         r.mail = w.mail \/ Grows(Marked(w), Marked(r))
  PROVE  /\ Still(r, w)
         /\ r.mail = w.mail \/ (G!Waiting(w, SystemStop) => G!Waiting(r, SystemStop)) => Calm(r, w)
<1>1. r.mail = w.mail => /\ Grows(Marked(w), Marked(r))
                         /\ G!Waiting(w, SystemStop) => G!Waiting(r, SystemStop)
  <2>1. r.mail = w.mail => Marked(r) = Marked(w)
    BY DEF Marked
  <2> QED
    BY <2>1, MarkedIs, GrowsAgain DEF G!Waiting
<1>2. Still(r, w)
  BY <1>1 DEF SameStop, Still, Stopping
<1> QED
  BY <1>1, <1>2 DEF Calm

\* A message is sent that is none of the stop, or a decision.
LEMMA PostMarks ==
  ASSUME NEW w \in Worlds, NEW m \in Messages
  PROVE  /\ Marked(Post(w, m)) = IF m \in Marks THEN Append(Marked(w), m) ELSE Marked(w)
         /\ G!Waiting(w, SystemStop) => G!Waiting(Post(w, m), SystemStop)
         /\ m = Queued => G!Waiting(Post(w, m), SystemStop)
<1> DEFINE r == Post(w, m)
           q == Append(w.mail, m)
<1>1. w.mail \in Seq(Messages) /\ Len(w.mail) \in Nat /\ DOMAIN w.mail = 1 .. Len(w.mail)
  BY MarkedIs
<1>2. r.mail = q
  BY DEF Post, Worlds
<1>3. Keep(q, Marks) = IF m \in Marks THEN Append(Marked(w), m) ELSE Marked(w)
  BY <1>1, KeepAppend DEF Marked
<1>4. /\ DOMAIN q = 1 .. Len(w.mail) + 1 /\ q[Len(w.mail) + 1] = m
      /\ \A n \in 1 .. Len(w.mail) : q[n] = w.mail[n]
  BY <1>1, AppendProperties, LenProperties
<1> HIDE DEF q, r
<1>5. G!Waiting(w, SystemStop) => G!Waiting(r, SystemStop)
  <2> SUFFICES ASSUME G!Waiting(w, SystemStop) PROVE G!Waiting(r, SystemStop)
    OBVIOUS
  <2>1. PICK n \in 1 .. Len(w.mail) : w.mail[n] = G!QueuedMessage(SystemStop)
    BY <1>1 DEF G!Waiting
  <2>2. n \in 1 .. Len(w.mail) + 1
    BY <1>1
  <2> QED
    BY <1>2, <1>4, <2>1, <2>2 DEF G!Waiting
<1>6. m = Queued => G!Waiting(r, SystemStop)
  <2>1. Len(w.mail) + 1 \in 1 .. Len(w.mail) + 1
    BY <1>1
  <2> QED
    BY <1>2, <1>4, <2>1 DEF G!Waiting, Queued
<1> QED
  BY <1>2, <1>3, <1>5, <1>6 DEF Marked, r

\* How a sequence of messages grows with one more
LEMMA AppendIs ==
  ASSUME NEW s \in Seq(Messages), NEW m \in Messages
  PROVE  /\ Append(s, m) \in Seq(Messages) /\ Len(s) \in Nat /\ Len(Append(s, m)) = Len(s) + 1
         /\ \A i \in 1 .. Len(s) : Append(s, m)[i] = s[i]
         /\ Append(s, m)[Len(s) + 1] = m
BY AppendProperties, LenProperties

LEMMA PostIsCalm ==
  ASSUME NEW w \in Worlds, NEW m \in Messages, m = Decided \/ m \notin Marks
  PROVE  Calm(Post(w, m), w)
<1> DEFINE r == Post(w, m)
<1>1. r = [w EXCEPT !.mail = Append(w.mail, m)] /\ r \in Worlds
  BY PostIs
<1>2. SameStop(r, w)
  BY <1>1 DEF SameStop, Worlds
<1> HIDE DEF r
<1>3. Grows(Marked(w), Marked(r))
  <2> DEFINE s == Marked(w)
  <2>1. s \in Seq(Messages) /\ Len(s) \in Nat
    BY MarkedIs
  <2>2. Marked(r) = s \/ (Marked(r) = Append(s, m) /\ m = Decided)
    BY PostMarks DEF r
  <2> HIDE DEF s
  <2>3. m = Decided => Grows(s, Append(s, m))
    BY <2>1, AppendIs DEF Grows
  <2>4. Grows(s, s)
    BY <2>1, GrowsAgain
  <2> QED
    BY <2>2, <2>3, <2>4 DEF s
<1> QED
  BY <1>1, <1>2, <1>3, PostMarks, SameIsCalm DEF r

\* Messages are cancelled that are none of the stop.
LEMMA CancelledIsCalm ==
  ASSUME NEW w \in Worlds, NEW T, T \cap Marks = {},
         NEW r \in Worlds, SameStop(r, w), r.mail = Dropping(w.mail, T)
  PROVE  Still(r, w) /\ (Queued \notin T => Calm(r, w))
<1> DEFINE q == Keep(w.mail, Messages \ T)
<1>1. w.mail \in Seq(Messages) /\ DOMAIN w.mail = 1 .. Len(w.mail)
  BY MarkedIs
<1>2. r.mail = q
  BY <1>1, DroppingIs
<1>3. Marked(r) = Marked(w)
  <2>1. Keep(q, Marks) = Keep(w.mail, (Messages \ T) \cap Marks)
    BY <1>1, KeepTwice
  <2>2. (Messages \ T) \cap Marks = Marks
    BY MarksAre
  <2> QED
    BY <1>2, <2>1, <2>2 DEF Marked
<1>4. ASSUME Queued \notin T, G!Waiting(w, SystemStop) PROVE G!Waiting(r, SystemStop)
  <2>1. PICK n \in DOMAIN w.mail : w.mail[n] = Queued
    BY <1>4 DEF G!Waiting, Queued
  <2>2. w.mail[n] \in Messages \ T
    BY <1>4, <2>1, MarksAre
  <2> DEFINE U == Messages \ T
  <2>3. n \in DOMAIN w.mail /\ w.mail[n] \in U /\ r.mail = Keep(w.mail, U)
    BY <1>2, <2>1, <2>2
  <2> HIDE DEF U, q
  <2>4. PICK k \in DOMAIN Keep(w.mail, U) : Keep(w.mail, U)[k] = w.mail[n]
    BY <1>1, <2>3, KeepAll
  <2> QED
    BY <2>1, <2>3, <2>4 DEF G!Waiting, Queued
<1> QED
  BY <1>3, <1>4, MarkedIs, GrowsAgain, SameIsCalm

---------------------------------------------------------------------------
(* Rules.                                                                  *)

\* The rule that stops is the first, and the only one of its event and goal.
LEMMA StopRuleIs ==
  /\ 1 \in R!RuleIds /\ R!RuleIds = 1 .. 10 /\ R!Of(1) = "STOP"
  /\ RuleTable[1].goal = SystemStop /\ RuleTable[1].fn = "Always"
  /\ \A n \in R!RuleIds \ {1} : R!Of(n) # "STOP" /\ RuleTable[n].goal # SystemStop
  /\ \A w : Runs(w, 1)
<1>1. RuleTable[1] = [event |-> "STOP", fn |-> "Always", goal |-> "system_stop"]
  BY RulesAre DEF On
<1>2. RuleTable[1].event = "STOP" /\ RuleTable[1].goal = SystemStop /\ RuleTable[1].fn = "Always"
  BY <1>1 DEF SystemStop
<1>3. \A n \in 1 .. 10 : n # 1 => n \in 2 .. 10
  OBVIOUS
<1>4. \A w : Runs(w, 1)
  BY <1>2 DEF Runs
<1> QED
  BY <1>2, <1>3, <1>4, RulesAre DEF R!Of, SystemStop

\* No other goal's rules change its status.
LEMMA OtherUpdates ==
  ASSUME NEW rs \in R!RuleSet, NEW goal, goal # SystemStop, NEW from, NEW es
  PROVE  R!UpdateRuleStatus(rs, goal, from, es).status[1] = rs.status[1]
<1> DEFINE hit    == {n \in R!RuleIds : RuleTable[n].goal = goal /\ rs.status[n] = from /\ R!Of(n) \in es}
           marked == [rs EXCEPT !.status = [n \in R!RuleIds |-> IF n \in hit THEN "complete" ELSE rs.status[n]]]
           open   == {n \in R!RuleIds : R!Of(n) \in es /\ marked.status[n] # "complete"}
           E      == {R!Of(n) : n \in hit} \ {R!Of(n) : n \in open}
<1>1. R!UpdateRuleStatus(rs, goal, from, es) = R!ResetEvent(marked, E)
  BY DEF R!UpdateRuleStatus
<1>2. 1 \notin hit /\ "STOP" \notin E
  BY StopRuleIs
<1>3. marked.status[1] = rs.status[1]
  BY <1>2, StopRuleIs DEF R!RuleSet
<1> HIDE DEF marked, E
<1>4. R!ResetEvent(marked, E).status[1] = marked.status[1]
  BY <1>2, StopRuleIs DEF R!ResetEvent
<1> QED
  BY <1>1, <1>3, <1>4

\* When the goal is marked complete its rule listens again.
LEMMA StopUpdates ==
  ASSUME NEW rs \in R!RuleSet, rs.status[1] # "complete"
  PROVE  R!UpdateRuleStatus(rs, SystemStop, "in_progress", R!RuleEvents).status[1] = "not_done"
<1> DEFINE es     == R!RuleEvents
           hit    == {n \in R!RuleIds : RuleTable[n].goal = SystemStop /\ rs.status[n] = "in_progress"
                                          /\ R!Of(n) \in es}
           marked == [rs EXCEPT !.status = [n \in R!RuleIds |-> IF n \in hit THEN "complete" ELSE rs.status[n]]]
           open   == {n \in R!RuleIds : R!Of(n) \in es /\ marked.status[n] # "complete"}
           E      == {R!Of(n) : n \in hit} \ {R!Of(n) : n \in open}
<1>1. R!UpdateRuleStatus(rs, SystemStop, "in_progress", R!RuleEvents) = R!ResetEvent(marked, E)
  BY DEF R!UpdateRuleStatus
<1>2. rs.status[1] \in {"not_done", "in_progress", "complete"} /\ "STOP" \in es
  BY StopRuleIs, RulesAre DEF R!RuleSet, R!Statuses
<1>3. marked.status[1] = IF 1 \in hit THEN "complete" ELSE rs.status[1]
  BY StopRuleIs DEF R!RuleSet
<1>4. CASE rs.status[1] = "in_progress"
  <2>1. 1 \in hit
    BY <1>2, <1>4, StopRuleIs
  <2>2. 1 \notin open
    BY <1>3, <2>1
  <2>3. "STOP" \in E
    BY <2>1, <2>2, StopRuleIs
  <2> HIDE DEF marked, E
  <2> QED
    BY <1>1, <2>3, StopRuleIs DEF R!ResetEvent
<1>5. CASE rs.status[1] = "not_done"
  <2>1. 1 \notin hit /\ marked.status[1] = "not_done"
    BY <1>3, <1>5
  <2> HIDE DEF marked, E
  <2> QED
    BY <1>1, <2>1, StopRuleIs DEF R!ResetEvent
<1> QED
  BY <1>2, <1>4, <1>5

\* Rules are looked at, one after the other.
LEMMA RuleIsCalm ==
  ASSUME NEW at \in Looks, NEW n \in 1 .. 10
  PROVE  /\ Calm(R!RunRule(at, n).w, at.w)
         /\ n = 1 /\ "STOP" \in at.events /\ RuleListens(at.w) /\ RuleDecides(at.w)
              => Has(R!RunRule(at, n).w, Decided)
<1> DEFINE v == at.w
           status == v.rules.status[n]
           goal == RuleTable[n].goal
           r == R!RunRule(at, n)
<1>1. /\ v \in Worlds /\ v.rules \in R!RuleSet /\ n \in R!RuleIds
      /\ goal \in GoalIds /\ R!Of(n) \in R!RuleEvents
      /\ status \in {"not_done", "in_progress", "complete"}
  BY RulesAre DEF Looks, Worlds, R!RuleSet, R!Statuses
<1>0. Calm(v, v)
  BY <1>1, SameIsCalm DEF SameStop
<1>2. CASE R!Of(n) \notin at.events \/ status = "complete"
  <2>1. r = at
    BY <1>2 DEF R!RunRule
  <2> QED
    BY <1>0, <1>2, <2>1, StopRuleIs DEF RuleListens
<1>3. CASE R!Of(n) \in at.events /\ status = "in_progress"
  <2>1. r = [at EXCEPT !.events = at.events \ {R!Of(n)}]
    BY <1>3 DEF R!RunRule
  <2>2. r.w = at.w
    BY <2>1 DEF Looks
  <2> QED
    BY <1>0, <1>3, <2>2 DEF RuleDecides
<1>4. CASE R!Of(n) \in at.events /\ status = "not_done" /\ Runs(v, n)
  <2> DEFINE m == R!Decision(goal)
             set == [v.rules EXCEPT !.status[n] = "in_progress"]
             u == [v EXCEPT !.rules = set]
             p == Post(v, m)
  <2>1. r = [w |-> [v EXCEPT !.rules.status[n] = "in_progress",
                             !.mail = Append(v.mail, m)],
             events |-> at.events \ {R!Of(n)}]
    BY <1>4 DEF R!RunRule
  <2>2. r.w = [v EXCEPT !.rules = set, !.mail = Append(v.mail, m)]
    BY <2>1
  <2>3. m \in Messages /\ (m = Decided \/ m \notin Marks) /\ (n = 1 => m = Decided)
    <3>1. m \in Messages
      BY <1>1, MessagesAre
    <3>2. goal = SystemStop <=> n = 1
      BY <1>1, StopRuleIs
    <3>3. m = Decided \/ m \notin Marks
      BY DEF Marks, StepMsg, Finished, Decided, Plain, R!Decision
    <3> QED
      BY <3>1, <3>2, <3>3 DEF Decided
  <2>4. set \in R!RuleSet /\ set.status[1] = IF n = 1 THEN "in_progress" ELSE v.rules.status[1]
    BY <1>1, StopRuleIs DEF R!RuleSet, R!Statuses
  <2> HIDE DEF set, m, v, r
  <2>5. p \in Worlds /\ p = [v EXCEPT !.mail = Append(v.mail, m)] /\ Calm(p, v)
    BY <1>1, <2>3, PostIs, PostIsCalm
  <2>6. n = 1 => Has(p, Decided)
    <3> DEFINE s == Marked(v)
    <3>1. n = 1 => Marked(p) = Append(s, Decided)
      BY <1>1, <2>3, PostMarks, MarksAre DEF Marks
    <3>2. s \in Seq(Messages)
      BY <1>1, MarkedIs
    <3> HIDE DEF s, p
    <3>3. Len(Append(s, Decided)) = Len(s) + 1 /\ Append(s, Decided)[Len(s) + 1] = Decided /\ Len(s) \in Nat
      BY <3>2, AppendIs, MarksAre DEF Marks
    <3>4. Len(s) + 1 \in 1 .. Len(s) + 1
      BY <3>3
    <3> QED
      BY <3>1, <3>3, <3>4 DEF Has
  <2>7. /\ r.w \in Worlds /\ r.w.mail = p.mail /\ r.w.rules = set /\ r.w.topo = p.topo
        /\ r.w.proc = p.proc /\ r.w.timer = p.timer /\ r.w.active = p.active
        /\ p.rules = v.rules
    <3>1. p.rules = v.rules
      BY <1>1, <2>5 DEF Worlds
    <3>2. r.w = [p EXCEPT !.rules = set]
      BY <1>1, <2>2, <2>5 DEF Worlds
    <3> HIDE DEF p
    <3> QED
      BY <2>4, <2>5, <3>1, <3>2 DEF Worlds
  <2> HIDE DEF p
  <2>8. Marked(r.w) = Marked(p) /\ (Has(p, Decided) => Has(r.w, Decided))
        /\ (G!Waiting(p, SystemStop) <=> G!Waiting(r.w, SystemStop))
    BY <2>7 DEF Marked, Has, G!Waiting
  <2>9. Calm(r.w, p)
    BY <2>4, <2>5, <2>6, <2>7, <2>8, MarkedIs, GrowsAgain DEF Calm, Still, Stopping
  <2>10. Calm(r.w, v)
    BY <1>1, <2>5, <2>7, <2>9, CalmAgain
  <2> QED
    BY <2>6, <2>8, <2>10 DEF r, v
<1>5. CASE /\ R!Of(n) \in at.events /\ status # "complete" /\ status # "in_progress"
           /\ ~(status = "not_done" /\ Runs(v, n))
  <2> DEFINE rs == R!UpdateRuleStatus(v.rules, goal, status, {R!Of(n)})
  <2>1. r = [at EXCEPT !.w.rules = rs]
    BY <1>5 DEF R!RunRule
  <2>2. n # 1 /\ goal # SystemStop
    BY <1>1, <1>5, StopRuleIs
  <2>3. rs \in R!RuleSet /\ rs.status[1] = v.rules.status[1]
    BY <1>1, <2>2, UpdateIs, OtherUpdates
  <2> HIDE DEF rs, r
  <2>4. r.w = [v EXCEPT !.rules = rs]
    BY <1>1, <2>1 DEF Looks, Worlds
  <2>5. r.w \in Worlds /\ SameStop(r.w, v) /\ r.w.mail = v.mail
    BY <1>1, <2>3, <2>4 DEF Worlds, SameStop
  <2> QED
    BY <1>1, <2>2, <2>5, SameIsCalm DEF r
<1> QED
  BY <1>1, <1>2, <1>3, <1>4, <1>5

\* The rules are run; if the stop is asked for it is decided.
LEMMA RunRulesIsCalm ==
  ASSUME NEW w \in Worlds
  PROVE  /\ Calm(R!RunRules(w), w) /\ R!RunRules(w) \in Worlds
         /\ "STOP" \in w.rules.events /\ RuleListens(w) /\ RuleDecides(w)
              => Has(R!RunRules(w), Decided)
<1> DEFINE asks == "STOP" \in w.rules.events /\ RuleListens(w) /\ RuleDecides(w)
           start == [w |-> w, events |-> w.rules.events]
           Good(n, at) == /\ at \in Looks /\ RulesOnly(at.w, w) /\ Calm(at.w, w)
                          /\ n = 0 => at = start
                          /\ n > 0 /\ asks => Has(at.w, Decided)
           A == {na \in Nat \X Looks : Good(na[1], na[2])}
<1>1. start \in Looks /\ start.w = w /\ start.events = w.rules.events
  BY DEF Looks, Worlds, R!RuleSet
<1>2. RulesOnly(w, w) /\ Calm(w, w)
  BY SameIsCalm DEF RulesOnly, Beside, SameStop
<1> HIDE DEF start, asks
<1>3. <<0, start>> \in A
  <2>1. Good(0, start)
    BY <1>1, <1>2
  <2> QED
    BY <1>1, <2>1
<1>4. ASSUME NEW n \in 1 .. 10, NEW at, <<n - 1, at>> \in A PROVE <<n, R!RunRule(at, n)>> \in A
  <2>1. at \in Looks /\ Good(n - 1, at) /\ n \in Nat
    BY <1>4
  <2> DEFINE r == R!RunRule(at, n)
             v == at.w
  <2>2. r \in Looks /\ RulesOnly(r.w, w)
    BY <2>1, RuleKeeps
  <2>3. /\ Calm(r.w, v)
        /\ n = 1 /\ "STOP" \in at.events /\ RuleListens(v) /\ RuleDecides(v) => Has(r.w, Decided)
    BY <2>1, RuleIsCalm
  <2>4. v \in Worlds /\ r.w \in Worlds /\ Calm(v, w)
    BY <2>1, <2>2 DEF RulesOnly
  <2> HIDE DEF r
  <2>5. Calm(r.w, w)
    BY <2>3, <2>4, CalmAgain
  <2>6. asks => Has(r.w, Decided)
    <3>1. CASE n = 1
      <4>1. at = start
        BY <2>1, <3>1
      <4> QED
        BY <1>1, <2>3, <3>1, <4>1 DEF asks
    <3>2. CASE n # 1
      <4>1. n - 1 > 0
        BY <3>2
      <4>2. asks => Has(v, Decided)
        BY <2>1, <4>1
      <4> QED
        BY <2>3, <2>4, <4>2, HasGrows DEF Calm, Still
    <3> QED
      BY <3>1, <3>2
  <2>7. Good(n, r)
    BY <2>2, <2>5, <2>6
  <2> HIDE DEF Good
  <2>8. <<n, r>> \in Nat \X Looks
    BY <2>1, <2>2
  <2> QED
    BY <2>7, <2>8 DEF r
<1>5. \E at : <<10, at>> \in A /\ at.w = R!RunRules(w)
  <2> HIDE DEF A
  <2> QED
    BY <1>3, <1>4, RunRulesInduction DEF start
<1>6. PICK at : <<10, at>> \in A /\ at.w = R!RunRules(w)
  BY <1>5
<1>7. Good(10, at)
  BY <1>6
<1> QED
  BY <1>6, <1>7 DEF RulesOnly, asks

\* An event is set.
LEMMA SetEventIsCalm ==
  ASSUME NEW w \in Worlds, NEW e \in R!RuleEvents
  PROVE  /\ Calm(R!SetEvent(w, e), w) /\ R!SetEvent(w, e) \in Worlds
         /\ e = "STOP" /\ RuleListens(w) /\ RuleDecides(w) => Has(R!SetEvent(w, e), Decided)
<1> DEFINE rs == [w.rules EXCEPT !.events = w.rules.events \cup {e}]
           v == [w EXCEPT !.rules = rs]
<1>1. rs \in R!RuleSet /\ rs.status = w.rules.status /\ e \in rs.events
  BY DEF Worlds, R!RuleSet
<1>2. R!SetEvent(w, e) = R!RunRules(v)
  BY DEF R!SetEvent
<1> HIDE DEF rs
<1>3. v \in Worlds /\ SameStop(v, w) /\ v.mail = w.mail /\ v.rules = rs
  BY <1>1 DEF Worlds, SameStop
<1> HIDE DEF v
<1>4. Calm(v, w)
  BY <1>3, SameIsCalm
<1>5. (RuleListens(w) <=> RuleListens(v)) /\ (RuleDecides(w) <=> RuleDecides(v))
  BY <1>1, <1>3 DEF RuleListens, RuleDecides, Has, Marked
<1>6. /\ Calm(R!RunRules(v), v) /\ R!RunRules(v) \in Worlds
      /\ "STOP" \in v.rules.events /\ RuleListens(v) /\ RuleDecides(v) => Has(R!RunRules(v), Decided)
  BY <1>3, RunRulesIsCalm
<1> QED
  BY <1>1, <1>2, <1>3, <1>4, <1>5, <1>6, CalmAgain

\* A goal is marked complete.
LEMMA CompleteIsCalm ==
  ASSUME NEW w \in Worlds, NEW goal
  PROVE  LET r == R!SetRuleComplete(w, goal)
         IN  /\ r \in Worlds
             /\ goal # SystemStop => Calm(r, w)
             /\ goal = SystemStop /\ RuleListens(w) => Calm(r, w) /\ RuleDecides(r)
<1> DEFINE rs == R!UpdateRuleStatus(w.rules, goal, "in_progress", R!RuleEvents)
           v == [w EXCEPT !.rules = rs]
           r == R!SetRuleComplete(w, goal)
<1>1. w.rules \in R!RuleSet /\ rs \in R!RuleSet
  BY UpdateIs DEF Worlds
<1>2. goal # SystemStop => rs.status[1] = w.rules.status[1]
  BY <1>1, OtherUpdates
<1>3. goal = SystemStop /\ RuleListens(w) => rs.status[1] = "not_done"
  BY <1>1, StopUpdates DEF RuleListens
<1>4. r = R!RunRules(v)
  BY DEF R!SetRuleComplete
<1> HIDE DEF rs, r
<1>5. /\ v \in Worlds /\ v.mail = w.mail /\ v.rules = rs /\ v.topo = w.topo /\ v.timer = w.timer
      /\ v.proc = w.proc /\ v.active = w.active
  BY <1>1 DEF Worlds
<1> HIDE DEF v
<1>6. Calm(r, v) /\ r \in Worlds
  BY <1>4, <1>5, RunRulesIsCalm
<1>7. CASE goal # SystemStop
  <2>1. Calm(v, w)
    BY <1>2, <1>5, <1>7, SameIsCalm DEF SameStop
  <2> QED
    BY <1>5, <1>6, <1>7, <2>1, CalmAgain DEF r
<1>8. CASE goal = SystemStop /\ RuleListens(w)
  <2>1. Marked(v) = Marked(w) /\ (G!Waiting(w, SystemStop) <=> G!Waiting(v, SystemStop))
    BY <1>5 DEF Marked, G!Waiting
  <2>2. Calm(v, w)
    BY <1>3, <1>5, <1>8, <2>1, MarkedIs, GrowsAgain DEF Calm, Still, Stopping
  <2>3. RuleDecides(v)
    BY <1>3, <1>5, <1>8 DEF RuleDecides
  <2>4. RuleDecides(r)
    BY <1>5, <1>6, <2>3, CalmKeeps DEF Calm
  <2> QED
    BY <1>5, <1>6, <1>8, <2>2, <2>4, CalmAgain DEF r
<1> QED
  BY <1>6, <1>7, <1>8 DEF r

---------------------------------------------------------------------------
(* Procedures of other goals.                                              *)

\* Neither of the answers that the script may wait for is its own.
Unscripted(w) == w.proc.le # "script" /\ w.proc.disconnect # "script"

\* The messages of other goals and of other modules are none of the stop.
LEMMA OthersAre ==
  /\ \A kind \in {"complete", "cancelled"}, g \in GoalIds \ {SystemStop} :
       About(kind, g) \in Messages /\ About(kind, g) \notin Marks /\ About(kind, g) # Queued
  /\ \A kind \in {"ALL_CFM", "DISCONNECT_CFM", "LINK_LOSS"} :
       Plain(kind) \in Messages /\ Plain(kind) \notin Marks
<1>1. ASSUME NEW kind \in {"complete", "cancelled"}, NEW g \in GoalIds \ {SystemStop}
      PROVE  About(kind, g) \in Messages /\ About(kind, g) \notin Marks /\ About(kind, g) # Queued
  <2>1. About(kind, g) \in Messages
    BY MessagesAre DEF SystemStop
  <2> QED
    BY <2>1 DEF About, Marks, StepMsg, Finished, Decided, Queued, Plain, R!Decision, G!QueuedMessage
<1>2. ASSUME NEW kind \in {"ALL_CFM", "DISCONNECT_CFM", "LINK_LOSS"}
      PROVE  Plain(kind) \in Messages /\ Plain(kind) \notin Marks
  <2>1. Plain(kind) \in Messages
    BY MessagesAre
  <2> QED
    BY <2>1 DEF Marks, StepMsg, Finished, Decided, Plain, R!Decision
<1> QED
  BY <1>1, <1>2

\* Records of procedures and of the handset service change.
LEMMA ProcSetIsCalm ==
  ASSUME NEW w \in Worlds, NEW p \in Procs, p.step = w.proc.step,
         p.le = "script" <=> w.proc.le = "script",
         p.disconnect = "script" <=> w.proc.disconnect = "script"
  PROVE  [w EXCEPT !.proc = p] \in Worlds /\ Calm([w EXCEPT !.proc = p], w)
<1> DEFINE r == [w EXCEPT !.proc = p]
<1>1. r \in Worlds /\ SameStop(r, w) /\ r.mail = w.mail
  BY DEF Worlds, SameStop
<1> HIDE DEF r
<1>2. Calm(r, w)
  BY <1>1, SameIsCalm
<1> QED
  BY <1>1, <1>2 DEF r

LEMMA EnvSetIsCalm ==
  ASSUME NEW w \in Worlds, NEW e \in Envs
  PROVE  [w EXCEPT !.env = e] \in Worlds /\ Calm([w EXCEPT !.env = e], w)
<1> DEFINE r == [w EXCEPT !.env = e]
<1>1. r \in Worlds /\ SameStop(r, w) /\ r.mail = w.mail
  BY DEF Worlds, SameStop
<1> HIDE DEF r
<1>2. Calm(r, w)
  BY <1>1, SameIsCalm
<1> QED
  BY <1>1, <1>2 DEF r

\* A world is calm to itself, and messages of others are.
LEMMA NothingIsCalm ==
  ASSUME NEW w \in Worlds
  PROVE  Calm(w, w)
BY SameIsCalm DEF SameStop

LEMMA LaterIsCalm ==
  ASSUME NEW w \in Worlds, LinksOK(w), NEW goal \in GoalIds \ {SystemStop}
  PROVE  Calm(CompleteLater(w, goal), w) /\ Calm(CancelLater(w, goal), w)
<1> DEFINE c == About("complete", goal)
           v == Post(w, About("cancelled", goal))
           r == Drop(v, c)
<1>1. /\ c \in Messages /\ c \notin Marks /\ c # Queued
      /\ About("cancelled", goal) \in Messages /\ About("cancelled", goal) \notin Marks
  BY OthersAre
<1>2. Calm(CompleteLater(w, goal), w)
  BY <1>1, PostIsCalm DEF CompleteLater
<1>3. CancelLater(w, goal) = r
  BY DEF CancelLater
<1>4. v \in Worlds /\ Calm(v, w)
  BY <1>1, PostIs, PostIsCalm
<1>5. c \notin G!QueuedMessages
  BY MessagesAre DEF SystemStop
<1> HIDE DEF c, v
<1>6. r \in Worlds /\ r = [v EXCEPT !.mail = Dropping(v.mail, {c})]
  BY <1>1, <1>4, <1>5, DropIs
<1> HIDE DEF r
<1>7. SameStop(r, v) /\ r.mail = Dropping(v.mail, {c})
  BY <1>4, <1>6 DEF SameStop, Worlds
<1>8. Calm(r, v)
  <2> DEFINE T == {c}
  <2>1. T \cap Marks = {} /\ Queued \notin T /\ r.mail = Dropping(v.mail, T)
    BY <1>1, <1>7
  <2> HIDE DEF T
  <2> QED
    BY <1>4, <1>6, <1>7, <2>1, CancelledIsCalm
<1> QED
  BY <1>2, <1>3, <1>4, <1>6, <1>8, CalmAgain

LEMMA DisconnectAllIsCalm ==
  ASSUME NEW w \in Worlds, LinksOK(w)
  PROVE  Calm(DisconnectAll(w), w)
<1>1. CASE w.env.all
  BY <1>1, NothingIsCalm DEF DisconnectAll
<1>2. CASE ~w.env.all /\ w.env.links > 0
  <2> DEFINE e == [w.env EXCEPT !.all = TRUE]
  <2>1. DisconnectAll(w) = [w EXCEPT !.env = e]
    BY <1>2 DEF DisconnectAll, Worlds
  <2>2. e \in Envs
    BY DEF Worlds, Envs
  <2> HIDE DEF e
  <2> QED
    BY <2>1, <2>2, EnvSetIsCalm
<1>3. CASE ~w.env.all /\ ~(w.env.links > 0)
  BY <1>3, OthersAre, PostIsCalm DEF DisconnectAll
<1> QED
  BY <1>1, <1>2, <1>3

\* A procedure begins that is not the script.
LEMMA BeginIsCalm ==
  ASSUME NEW w \in Worlds, LinksOK(w), Unscripted(w), NEW goal \in GoalIds \ {SystemStop}
  PROVE  Calm(BeginProcedure(w, goal), w)
<1>0. w.proc \in Procs /\ w.env \in Envs
  BY DEF Worlds
<1>1. ASSUME NEW e \in Envs, e.all => e.links > 0
      PROVE  Calm(CompleteLater([w EXCEPT !.env = e], goal), w)
  <2> DEFINE v == [w EXCEPT !.env = e]
  <2>1. ProcOnly(v, w) /\ Calm(v, w)
    BY <1>1, EnvSet, EnvSetIsCalm
  <2> HIDE DEF v
  <2>2. ProcOnly(CompleteLater(v, goal), v) /\ Calm(CompleteLater(v, goal), v)
    BY <2>1, LaterKeeps, LaterIsCalm DEF ProcOnly, SystemStop
  <2>3. Calm(CompleteLater(v, goal), w)
    BY <2>1, <2>2, CalmAgain DEF ProcOnly
  <2> QED
    BY <2>3 DEF v
<1>2. ASSUME NEW d, ProcOnly(d, w), Calm(d, w), d.proc = w.proc
      PROVE  Calm([d EXCEPT !.proc.disconnect = "goal"], w)
  <2> DEFINE p == [d.proc EXCEPT !.disconnect = "goal"]
             r == [d EXCEPT !.proc = p]
  <2>1. p \in Procs /\ p.step = d.proc.step /\ p.le = d.proc.le /\ p.disconnect # "script"
    BY <1>0, <1>2 DEF Procs
  <2>2. d \in Worlds /\ d.proc.disconnect # "script"
    BY <1>2 DEF ProcOnly, Unscripted
  <2> HIDE DEF p
  <2>3. r \in Worlds /\ Calm(r, d)
    BY <2>1, <2>2, ProcSetIsCalm
  <2>4. Calm(r, w)
    BY <1>2, <2>2, <2>3, CalmAgain
  <2> QED
    BY <2>4 DEF p
<1>3. CASE goal = "connectable_handset"
  <2> DEFINE e == [w.env EXCEPT !.connectable = TRUE]
  <2>1. BeginProcedure(w, goal) = CompleteLater([w EXCEPT !.env = e], goal)
    BY <1>3 DEF BeginProcedure, ConnectableStart
  <2>2. e \in Envs /\ (e.all => e.links > 0)
    BY <1>0 DEF Envs, LinksOK
  <2> HIDE DEF e
  <2> QED
    BY <1>1, <2>1, <2>2
<1>4. CASE goal = "allow_handset_connect"
  <2> DEFINE e == [w.env EXCEPT !.allowed = TRUE]
  <2>1. BeginProcedure(w, goal) = CompleteLater([w EXCEPT !.env = e], goal)
    BY <1>4 DEF BeginProcedure, AllowHandsetStart
  <2>2. e \in Envs /\ (e.all => e.links > 0)
    BY <1>0 DEF Envs, LinksOK
  <2> HIDE DEF e
  <2> QED
    BY <1>1, <2>1, <2>2
<1>5. CASE goal = "allow_le_connection"
  <2> DEFINE p == [w.proc EXCEPT !.le = "goal"]
  <2>1. BeginProcedure(w, goal) = [w EXCEPT !.proc = p]
    BY <1>5 DEF BeginProcedure, AllowLeStart
  <2>2. p \in Procs /\ p.step = w.proc.step /\ p.le = "goal" /\ p.disconnect = w.proc.disconnect
    BY <1>0 DEF Procs
  <2> HIDE DEF p
  <2> QED
    BY <2>1, <2>2, ProcSetIsCalm DEF Unscripted
<1>6. CASE goal = "connect_handset"
  <2> DEFINE p == [w.proc EXCEPT !.connect = "running"]
  <2>1. BeginProcedure(w, goal) = [w EXCEPT !.proc = p]
    BY <1>6 DEF BeginProcedure, ConnectStart
  <2>2. /\ p \in Procs /\ p.step = w.proc.step /\ p.le = w.proc.le
        /\ p.disconnect = w.proc.disconnect
    BY <1>0 DEF Procs
  <2> HIDE DEF p
  <2> QED
    BY <2>1, <2>2, ProcSetIsCalm
<1>7. CASE goal = "disconnect_handset"
  <2> DEFINE d == DisconnectAll(w)
  <2>1. BeginProcedure(w, goal) = [d EXCEPT !.proc.disconnect = "goal"]
    BY <1>7 DEF BeginProcedure, DisconnectStart
  <2>2. ProcOnly(d, w) /\ d.proc = w.proc /\ Calm(d, w)
    BY DisconnectAllKeeps, DisconnectAllIsCalm
  <2> HIDE DEF d
  <2> QED
    BY <1>2, <2>1, <2>2
<1>8. CASE goal = "disconnect_lru_handset"
  <2> DEFINE d == DisconnectLru(w)
  <2>1. BeginProcedure(w, goal) = [d EXCEPT !.proc.disconnect = "goal"]
    BY <1>8 DEF BeginProcedure, DisconnectLruStart
  <2>2. ProcOnly(d, w) /\ d.proc = w.proc /\ Calm(d, w)
    <3> DEFINE e == [w.env EXCEPT !.one = TRUE]
    <3>1. d = IF w.env.links > 0 THEN [w EXCEPT !.env = e] ELSE w
      BY DEF DisconnectLru
    <3>2. e \in Envs /\ (e.all => e.links > 0)
      BY <1>0 DEF Envs, LinksOK
    <3> HIDE DEF d, e
    <3>3. ProcOnly([w EXCEPT !.env = e], w) /\ ProcOnly(w, w)
      BY <3>2, EnvSet DEF ProcOnly, Beside
    <3>4. Calm([w EXCEPT !.env = e], w) /\ Calm(w, w) /\ [w EXCEPT !.env = e].proc = w.proc
      BY <3>2, EnvSetIsCalm, NothingIsCalm DEF Worlds
    <3> QED
      BY <3>1, <3>3, <3>4
  <2> HIDE DEF d
  <2> QED
    BY <1>2, <2>1, <2>2
<1> QED
  BY <1>3, <1>4, <1>5, <1>6, <1>7, <1>8, GoalsAre DEF SystemStop

\* So is one that is cancelled.
LEMMA CancelIsCalm ==
  ASSUME NEW w \in Worlds, LinksOK(w), Unscripted(w), NEW goal \in GoalIds \ {SystemStop}
  PROVE  Calm(CancelProcedure(w, goal), w)
<1>0. w.proc \in Procs /\ w.env \in Envs
  BY DEF Worlds
<1>1. ASSUME NEW v, ProcOnly(v, w), Calm(v, w) PROVE Calm(CancelLater(v, goal), w)
  <2>1. ProcOnly(CancelLater(v, goal), v) /\ Calm(CancelLater(v, goal), v)
    BY <1>1, LaterKeeps, LaterIsCalm DEF ProcOnly, SystemStop
  <2> QED
    BY <1>1, <2>1, CalmAgain DEF ProcOnly
<1>2. ASSUME NEW p \in Procs, p.step = w.proc.step, p.le # "script", p.disconnect # "script"
      PROVE  ProcOnly([w EXCEPT !.proc = p], w) /\ Calm([w EXCEPT !.proc = p], w)
  BY <1>2, ProcSet, ProcSetIsCalm DEF Unscripted
<1>3. CASE goal = "connectable_handset"
  <2> DEFINE e == [w.env EXCEPT !.connectable = FALSE]
             v == [w EXCEPT !.env = e]
  <2>1. CancelProcedure(w, goal) = CancelLater(v, goal)
    BY <1>3 DEF CancelProcedure, ConnectableCancel
  <2>2. e \in Envs /\ (e.all => e.links > 0)
    BY <1>0 DEF Envs, LinksOK
  <2> HIDE DEF e
  <2>3. ProcOnly(v, w) /\ Calm(v, w)
    BY <2>2, EnvSet, EnvSetIsCalm
  <2> HIDE DEF v
  <2> QED
    BY <1>1, <2>1, <2>3
<1>4. CASE goal = "allow_handset_connect"
  <2>1. CancelProcedure(w, goal) = CancelLater(w, goal)
    BY <1>4 DEF CancelProcedure, AllowHandsetCancel
  <2> QED
    BY <2>1, LaterIsCalm
<1>5. CASE goal = "allow_le_connection"
  <2> DEFINE p == [w.proc EXCEPT !.le = "none"]
             v == [w EXCEPT !.proc = p]
  <2>1. CancelProcedure(w, goal) = CancelLater(v, goal)
    BY <1>5 DEF CancelProcedure, AllowLeCancel
  <2>2. p \in Procs /\ p.step = w.proc.step /\ p.le # "script" /\ p.disconnect # "script"
    BY <1>0 DEF Procs, Unscripted
  <2> HIDE DEF p
  <2>3. ProcOnly(v, w) /\ Calm(v, w)
    BY <1>2, <2>2
  <2> HIDE DEF v
  <2> QED
    BY <1>1, <2>1, <2>3
<1>6. CASE goal = "connect_handset"
  <2> DEFINE p == [w.proc EXCEPT !.connect = "cancelling"]
  <2>1. CancelProcedure(w, goal) = [w EXCEPT !.proc = p]
    BY <1>6 DEF CancelProcedure, ConnectCancel
  <2>2. p \in Procs /\ p.step = w.proc.step /\ p.le # "script" /\ p.disconnect # "script"
    BY <1>0 DEF Procs, Unscripted
  <2> HIDE DEF p
  <2> QED
    BY <1>2, <2>1, <2>2
<1>7. CASE goal \in {"disconnect_handset", "disconnect_lru_handset"}
  <2> DEFINE p == [w.proc EXCEPT !.disconnect = "none"]
             v == [w EXCEPT !.proc = p]
  <2>1. CancelProcedure(w, goal) = CancelLater(v, goal)
    BY <1>7 DEF CancelProcedure, DisconnectCancel
  <2>2. p \in Procs /\ p.step = w.proc.step /\ p.le # "script" /\ p.disconnect # "script"
    BY <1>0 DEF Procs, Unscripted
  <2> HIDE DEF p
  <2>3. ProcOnly(v, w) /\ Calm(v, w)
    BY <1>2, <2>2
  <2> HIDE DEF v
  <2> QED
    BY <1>1, <2>1, <2>3
<1> QED
  BY <1>3, <1>4, <1>5, <1>6, <1>7, GoalsAre DEF SystemStop


---------------------------------------------------------------------------
(* The script.                                                             *)

\* The script may go on: nobody else's answer is expected.
Ready(w) ==
  /\ SystemStop \in w.active /\ ~Has(w, StepMsg) /\ Unscripted(w)
  /\ Asked(w) /\ RuleListens(w)

\* It has gone on.
GoesOn(r, w) ==
  Scripted(r) /\ SystemStop \in r.active /\ (RuleDecides(w) => RuleDecides(r))

\* What leaves the stop alone leaves it ready.
LEMMA CalmIsReady ==
  ASSUME NEW w \in Worlds, NEW r \in Worlds, Still(r, w), Ready(w)
  PROVE  Ready(r)
<1>1. ~Has(r, StepMsg)
  BY HasGrows, MarksAre DEF Still, Ready
<1>2. Unscripted(r) /\ Asked(r) /\ RuleListens(r) /\ SystemStop \in r.active
  BY DEF Still, Ready, Unscripted, Asked, RuleListens
<1> QED
  BY <1>1, <1>2 DEF Ready

\* A message is sent behind the others of the stop.
LEMMA SentIs ==
  ASSUME NEW w \in Worlds, NEW m \in Marks
  PROVE  LET r == Post(w, m)
             s == Marked(w)
         IN  /\ r \in Worlds /\ r.topo = w.topo /\ r.timer = w.timer /\ r.proc = w.proc
             /\ r.active = w.active /\ r.rules = w.rules
             /\ Len(Marked(r)) = Len(s) + 1 /\ Marked(r)[Len(s) + 1] = m
             /\ \A i \in 1 .. Len(s) : Marked(r)[i] = s[i]
             /\ \A k : Has(r, k) <=> Has(w, k) \/ k = m
<1> DEFINE r == Post(w, m)
           s == Marked(w)
<1>1. m \in Messages
  BY MarksAre
<1>2. r \in Worlds /\ r = [w EXCEPT !.mail = Append(w.mail, m)]
  BY <1>1, PostIs
<1>3. /\ r.topo = w.topo /\ r.timer = w.timer /\ r.proc = w.proc
      /\ r.active = w.active /\ r.rules = w.rules
  BY <1>2 DEF Worlds
<1>4. Marked(r) = Append(s, m)
  BY <1>1, PostMarks
<1>5. s \in Seq(Messages)
  BY MarkedIs
<1> HIDE DEF r, s
<1>6. /\ Len(Marked(r)) = Len(s) + 1 /\ Marked(r)[Len(s) + 1] = m /\ Len(s) \in Nat
      /\ \A i \in 1 .. Len(s) : Marked(r)[i] = s[i]
  BY <1>1, <1>4, <1>5, AppendIs
<1>7. ASSUME NEW k PROVE Has(r, k) <=> Has(w, k) \/ k = m
  <2>1. 1 .. Len(s) + 1 = 1 .. Len(s) \cup {Len(s) + 1}
    BY <1>6
  <2> QED
    BY <1>6, <2>1 DEF Has, s
<1> QED
  BY <1>2, <1>3, <1>6, <1>7 DEF r, s

\* A step that completes by itself sends its message.
LEMMA StepIsSent ==
  ASSUME NEW w \in Worlds, Ready(w), w.proc.step \in {1, 2, 3, 7},
         w.proc.step = 7 => Len(Marked(w)) >= 1 /\ Marked(w)[Len(Marked(w))] = Finished
  PROVE  GoesOn(Post(w, StepMsg), w)
<1> DEFINE r == Post(w, StepMsg)
           a == Len(Marked(w))
<1>1. /\ r \in Worlds /\ r.topo = w.topo /\ r.timer = w.timer /\ r.proc = w.proc
      /\ r.active = w.active /\ r.rules = w.rules
      /\ Len(Marked(r)) = a + 1 /\ Marked(r)[a + 1] = StepMsg
      /\ \A i \in 1 .. a : Marked(r)[i] = Marked(w)[i]
      /\ \A k : Has(r, k) <=> Has(w, k) \/ k = StepMsg
  BY SentIs DEF Marks
<1>2. a \in Nat
  BY MarkedIs
<1>3. ASSUME NEW i \in 1 .. Len(Marked(r)), Marked(r)[i] = StepMsg PROVE i = a + 1
  <2>1. i \in 1 .. a => Marked(w)[i] = StepMsg
    BY <1>1, <1>3
  <2>2. i \notin 1 .. a
    BY <2>1 DEF Ready, Has
  <2>3. i \in 1 .. a + 1
    BY <1>1, <1>3
  <2> HIDE DEF a
  <2> QED
    BY <1>2, <2>2, <2>3
<1> HIDE DEF r
<1>4. ScriptRuns(r)
  BY <1>1 DEF ScriptRuns, Ready
<1>5. StepIsAnswered(r)
  <2>1. Has(r, StepMsg)
    BY <1>1
  <2>2. \A i, j \in 1 .. Len(Marked(r)) :
          Marked(r)[i] = StepMsg /\ Marked(r)[j] = StepMsg => i = j
    BY <1>3
  <2> QED
    BY <1>1, <2>1, <2>2 DEF StepIsAnswered, Ready, Unscripted
<1>6. ToldFirst(r)
  <2>1. ASSUME r.proc.step = 7
        PROVE  \E k \in 2 .. Len(Marked(r)) : Marked(r)[k] = StepMsg /\ Marked(r)[k - 1] = Finished
    <3>1. a >= 1 /\ Marked(w)[a] = Finished
      BY <1>1, <2>1
    <3> HIDE DEF a
    <3>2. a \in 1 .. a /\ a + 1 \in 2 .. a + 1 /\ (a + 1) - 1 = a
      BY <1>2, <3>1
    <3>3. Marked(r)[(a + 1) - 1] = Finished
      BY <1>1, <3>1, <3>2
    <3> QED
      BY <1>1, <3>2, <3>3
  <2> QED
    BY <2>1 DEF ToldFirst
<1>7. Asked(r) /\ RuleListens(r)
  BY <1>1 DEF Ready, Asked, RuleListens, Stopping
<1>8. RuleDecides(w) => RuleDecides(r)
  BY <1>1 DEF RuleDecides
<1> QED
  BY <1>1, <1>4, <1>5, <1>6, <1>7, <1>8 DEF Scripted, GoesOn, Ready, r

\* A step that waits for an answer has none of its own.
LEMMA StepWaits ==
  ASSUME NEW w \in Worlds, NEW r \in Worlds, Ready(w), w.proc.step \in {4, 5, 6},
         r.topo = w.topo, r.timer = w.timer, r.active = w.active, r.rules = w.rules,
         r.mail = w.mail, r.proc.step = w.proc.step,
         r.proc.le = "script" <=> w.proc.step = 4,
         r.proc.disconnect = "script" <=> w.proc.step = 5
  PROVE  GoesOn(r, w)
<1>1. Marked(r) = Marked(w) /\ \A m : Has(r, m) <=> Has(w, m)
  BY DEF Marked, Has
<1>2. \A i \in 1 .. Len(Marked(r)) : Marked(r)[i] # StepMsg
  BY <1>1 DEF Ready, Has
<1>3. StepIsAnswered(r)
  BY <1>1, <1>2 DEF StepIsAnswered, Ready
<1>4. ScriptRuns(r) /\ ToldFirst(r) /\ Asked(r) /\ RuleListens(r)
  BY DEF ScriptRuns, ToldFirst, Asked, RuleListens, Ready, Stopping
<1>5. RuleDecides(w) => RuleDecides(r)
  BY <1>1 DEF RuleDecides
<1> QED
  BY <1>3, <1>4, <1>5 DEF Scripted, GoesOn, Ready

\* A step of the script begins.
LEMMA StartStepIs ==
  ASSUME NEW w \in Worlds, LinksOK(w), Ready(w), NEW n \in 1 .. 7
  PROVE  GoesOn(StartStep(w, n), w)
<1> DEFINE p1 == [w.proc EXCEPT !.step = n]
           at == [w EXCEPT !.proc = p1]
<1>1. /\ p1 \in Procs /\ p1.step = n /\ p1.le = w.proc.le /\ p1.disconnect = w.proc.disconnect
  BY DEF Worlds, Procs
<1>1a. at = [w EXCEPT !.proc.step = n]
  OBVIOUS
<1> HIDE DEF p1
<1>2. /\ at \in Worlds /\ LinksOK(at) /\ at.proc = p1 /\ at.topo = w.topo /\ at.timer = w.timer
      /\ at.active = w.active /\ at.rules = w.rules /\ at.mail = w.mail /\ at.env = w.env
  BY <1>1 DEF Worlds, LinksOK
<1> HIDE DEF at
<1>3. Marked(at) = Marked(w) /\ \A m : Has(at, m) <=> Has(w, m)
  BY <1>2 DEF Marked, Has
<1>4. Ready(at) /\ at.proc.step = n /\ (RuleDecides(w) => RuleDecides(at))
  BY <1>1, <1>2, <1>3 DEF Ready, Unscripted, Asked, RuleListens, RuleDecides, Stopping
<1>5. ASSUME NEW r, GoesOn(r, at) PROVE GoesOn(r, w)
  BY <1>4, <1>5 DEF GoesOn
<1>6. ASSUME NEW e \in Envs, n \in {1, 2, 3}
      PROVE  GoesOn(Post([at EXCEPT !.env = e], StepMsg), at)
  <2> DEFINE v == [at EXCEPT !.env = e]
  <2>1. v \in Worlds /\ Calm(v, at)
    BY <1>2, EnvSetIsCalm
  <2> HIDE DEF v
  <2>2. Ready(v) /\ v.proc.step = n /\ (RuleDecides(at) => RuleDecides(v))
    BY <1>2, <1>4, <2>1, CalmIsReady, CalmKeeps DEF Calm, Still
  <2>3. GoesOn(Post(v, StepMsg), v)
    BY <1>6, <2>1, <2>2, StepIsSent
  <2> QED
    BY <2>2, <2>3 DEF GoesOn, v
<1>7. n = 1 \/ n = 2 \/ n = 3 \/ n = 4 \/ n = 5 \/ n = 6 \/ n = 7
  OBVIOUS
<1>8. CASE n = 1
  <2>1. StartStep(w, n) = Post(at, StepMsg)
    BY <1>1a, <1>8, ScriptIs DEF StartStep, StepMsg
  <2>2. GoesOn(Post(at, StepMsg), at)
    BY <1>2, <1>4, <1>8, StepIsSent
  <2> QED
    BY <1>5, <2>1, <2>2
<1>9. CASE n = 2
  <2> DEFINE e == [at.env EXCEPT !.allowed = FALSE]
  <2>1. StartStep(w, n) = Post([at EXCEPT !.env.allowed = FALSE], StepMsg)
    BY <1>1a, <1>9, ScriptIs DEF StartStep, StepMsg
  <2>2. e \in Envs
    BY <1>2 DEF Worlds, Envs
  <2>3. StartStep(w, n) = Post([at EXCEPT !.env = e], StepMsg)
    BY <2>1
  <2> HIDE DEF e
  <2> QED
    BY <1>5, <1>6, <1>9, <2>2, <2>3
<1>10. CASE n = 3
  <2> DEFINE e == [at.env EXCEPT !.connectable = FALSE]
  <2>1. StartStep(w, n) = Post([at EXCEPT !.env.connectable = FALSE], StepMsg)
    BY <1>1a, <1>10, ScriptIs DEF StartStep, StepMsg
  <2>2. e \in Envs
    BY <1>2 DEF Worlds, Envs
  <2>3. StartStep(w, n) = Post([at EXCEPT !.env = e], StepMsg)
    BY <2>1
  <2> HIDE DEF e
  <2> QED
    BY <1>5, <1>6, <1>10, <2>2, <2>3
<1>11. CASE n = 4
  <2> DEFINE p == [at.proc EXCEPT !.le = "script"]
             v == [at EXCEPT !.proc = p]
  <2>1. StartStep(w, n) = v
    BY <1>1a, <1>11, ScriptIs DEF StartStep
  <2>2. p \in Procs /\ p.step = 4 /\ p.le = "script" /\ p.disconnect = w.proc.disconnect
    BY <1>1, <1>2, <1>11 DEF Procs
  <2> HIDE DEF p
  <2>3. /\ v \in Worlds /\ v.proc = p /\ v.topo = at.topo /\ v.timer = at.timer
        /\ v.active = at.active /\ v.rules = at.rules /\ v.mail = at.mail
    BY <1>2, <2>2 DEF Worlds
  <2> HIDE DEF v
  <2>4. GoesOn(v, at)
    BY <1>2, <1>4, <1>11, <2>2, <2>3, StepWaits DEF Ready, Unscripted
  <2> QED
    BY <1>5, <2>1, <2>4
<1>12. CASE n = 5
  <2> DEFINE d == DisconnectAll(at)
             p == [d.proc EXCEPT !.disconnect = "script"]
             v == [d EXCEPT !.proc = p]
  <2>1. StartStep(w, n) = v
    BY <1>1a, <1>12, ScriptIs DEF StartStep
  <2>2. d \in Worlds /\ Calm(d, at) /\ d.proc = at.proc
    BY <1>2, DisconnectAllKeeps, DisconnectAllIsCalm DEF ProcOnly
  <2> HIDE DEF d
  <2>3. Ready(d) /\ (RuleDecides(at) => RuleDecides(d))
    BY <1>2, <1>4, <2>2, CalmIsReady, CalmKeeps DEF Calm
  <2>4. p \in Procs /\ p.step = 5 /\ p.le = w.proc.le /\ p.disconnect = "script"
    BY <1>1, <1>2, <1>12, <2>2 DEF Procs
  <2> HIDE DEF p
  <2>5. /\ v \in Worlds /\ v.proc = p /\ v.topo = d.topo /\ v.timer = d.timer
        /\ v.active = d.active /\ v.rules = d.rules /\ v.mail = d.mail
    BY <2>2, <2>4 DEF Worlds
  <2> HIDE DEF v
  <2>6. GoesOn(v, d)
    BY <1>4, <1>12, <2>2, <2>3, <2>4, <2>5, StepWaits DEF Ready, Unscripted
  <2>7. GoesOn(v, at)
    BY <2>3, <2>6 DEF GoesOn
  <2> QED
    BY <1>5, <2>1, <2>7
<1>13. CASE n = 6
  <2>1. StartStep(w, n) = at
    BY <1>1a, <1>13, ScriptIs DEF StartStep
  <2>2. GoesOn(at, at)
    BY <1>2, <1>4, <1>13, StepWaits DEF Ready, Unscripted
  <2> QED
    BY <1>5, <2>1, <2>2
<1>14. CASE n = 7
  <2> DEFINE v == Post(at, Finished)
             a == Len(Marked(at))
  <2>1. StartStep(w, n) = Post(v, StepMsg)
    BY <1>1a, <1>14, ScriptIs DEF StartStep, StepMsg, Finished
  <2>2. /\ v \in Worlds /\ v.topo = at.topo /\ v.timer = at.timer /\ v.proc = at.proc
        /\ v.active = at.active /\ v.rules = at.rules
        /\ Len(Marked(v)) = a + 1 /\ Marked(v)[a + 1] = Finished
        /\ \A k : Has(v, k) <=> Has(at, k) \/ k = Finished
    BY <1>2, SentIs DEF Marks
  <2>3. a \in Nat
    BY <1>2, MarkedIs
  <2> HIDE DEF v
  <2>4. Ready(v) /\ (RuleDecides(at) => RuleDecides(v)) /\ v.proc.step = 7
    BY <1>4, <1>14, <2>2, MarksAre
       DEF Ready, Unscripted, Asked, RuleListens, RuleDecides, Stopping
  <2>5. Len(Marked(v)) >= 1 /\ Marked(v)[Len(Marked(v))] = Finished
    BY <2>2, <2>3
  <2>6. GoesOn(Post(v, StepMsg), v)
    BY <2>2, <2>4, <2>5, StepIsSent
  <2>7. GoesOn(Post(v, StepMsg), at)
    BY <2>4, <2>6 DEF GoesOn
  <2> QED
    BY <1>5, <2>1, <2>7
<1> QED
  BY <1>7, <1>8, <1>9, <1>10, <1>11, <1>12, <1>13, <1>14

---------------------------------------------------------------------------
(* Goals.                                                                  *)

\* A change of the queue that leaves the messages alone.
LEMMA QueueSameIsCalm ==
  ASSUME NEW w \in Worlds, NEW r, QueueOnly(r, w), r.mail = w.mail
  PROVE  Calm(r, w)
<1>1. r \in Worlds /\ SameStop(r, w)
  BY DEF QueueOnly, SameStop
<1> QED
  BY <1>1, SameIsCalm

LEMMA ResetIsCalm ==
  ASSUME NEW w \in Worlds
  PROVE  Calm(G!ResetIfEmpty(w), w)
<1>1. G!ResetIfEmpty(w).mail = w.mail
  BY DEF G!ResetIfEmpty, Worlds
<1> QED
  BY <1>1, ResetIfEmptyKeeps, QueueSameIsCalm

LEMMA MasksAreCalm ==
  ASSUME NEW w \in Worlds
  PROVE  Calm(G!UpdateQueueMasks(w), w)
<1>1. G!UpdateQueueMasks(w).mail = w.mail
  BY DEF G!UpdateQueueMasks, Worlds
<1> QED
  BY <1>1, UpdateQueueMasksKeeps, QueueSameIsCalm

\* A goal joins the queue.
LEMMA QueueGoalIsCalm ==
  ASSUME NEW w \in Worlds, NEW goal \in GoalIds, NEW wait \in SUBSET GoalIds
  PROVE  /\ Calm(G!QueueGoal(w, goal, wait), w)
         /\ goal = SystemStop => G!Waiting(G!QueueGoal(w, goal, wait), SystemStop)
<1> DEFINE m == G!QueuedMessage(goal)
           r == G!QueueGoal(w, goal, wait)
           p == Post(w, m)
<1>1. m \in Messages /\ m \notin Marks /\ (goal = SystemStop => m = Queued)
  <2>1. m \in G!QueuedMessages
    BY MessagesAre
  <2>2. goal = SystemStop => m = Queued
    BY DEF Queued
  <2> HIDE DEF m
  <2> QED
    BY <2>1, <2>2, QueuedAre, MarksAre
<1>2. p.mail = Append(w.mail, m) /\ r.mail = Append(w.mail, m)
  BY DEF Post, G!QueueGoal, Worlds
<1>3. QueueOnly(r, w)
  BY QueueGoalKeeps
<1>4. /\ Marked(p) = Marked(w)
      /\ G!Waiting(w, SystemStop) => G!Waiting(p, SystemStop)
      /\ m = Queued => G!Waiting(p, SystemStop)
  BY <1>1, PostMarks
<1> HIDE DEF r, p, m
<1>5. Marked(r) = Marked(p) /\ (G!Waiting(p, SystemStop) <=> G!Waiting(r, SystemStop))
  BY <1>2 DEF Marked, G!Waiting
<1>6. r \in Worlds /\ SameStop(r, w)
  BY <1>3 DEF QueueOnly, SameStop
<1>7. Grows(Marked(w), Marked(r))
  BY <1>4, <1>5, MarkedIs, GrowsAgain
<1> QED
  BY <1>1, <1>4, <1>5, <1>6, <1>7, SameIsCalm DEF r

\* Another goal leaves it.
LEMMA DequeIsCalm ==
  ASSUME NEW w \in Worlds, NEW goal \in GoalIds \ {SystemStop}
  PROVE  Calm(G!DequeGoal(w, goal), w)
<1> DEFINE r == G!DequeGoal(w, goal)
           T == {G!QueuedMessage(goal)}
<1>1. QueueOnly(r, w)
  BY DequeGoalKeeps
<1>2. CASE goal \notin DOMAIN w.slots
  BY <1>2, NothingIsCalm DEF G!DequeGoal
<1>3. CASE goal \in DOMAIN w.slots
  <2>1. r.mail = Dropping(w.mail, T)
    BY <1>3, SameDropping DEF G!DequeGoal, Worlds
  <2>2. T \cap Marks = {} /\ Queued \notin T
    <3>1. G!QueuedMessage(goal) \in G!QueuedMessages
      BY MessagesAre
    <3>2. G!QueuedMessage(goal) # Queued
      BY DEF Queued, G!QueuedMessage, SystemStop
    <3> QED
      BY <3>1, <3>2, MarksAre
  <2>3. r \in Worlds /\ SameStop(r, w)
    BY <1>1 DEF QueueOnly, SameStop
  <2> HIDE DEF r, T
  <2> QED
    BY <2>1, <2>2, <2>3, CancelledIsCalm DEF r
<1> QED
  BY <1>2, <1>3

\* All leave it.
LEMMA ClearPendingIsStill ==
  ASSUME NEW w \in Worlds
  PROVE  Still(G!ClearPendingGoals(w), w)
<1> DEFINE r == G!ClearPendingGoals(w)
           T == G!QueuedMessages
           kept == G!Dropping(w.mail, T)
           v == [w EXCEPT !.mail = kept, !.count = 0]
<1>1. QueueOnly(r, w)
  BY ClearPendingKeeps
<1>2. r.mail = Dropping(w.mail, T)
  <2>1. kept = Dropping(w.mail, T)
    BY SameDropping
  <2>2. r = G!ResetIfEmpty(v)
    BY DEF G!ClearPendingGoals
  <2> HIDE DEF kept
  <2>3. v.mail = kept /\ [v EXCEPT !.slots = << >>].mail = kept
    BY DEF Worlds
  <2> HIDE DEF v, r
  <2>4. r.mail = kept
    BY <2>2, <2>3 DEF G!ResetIfEmpty
  <2> QED
    BY <2>1, <2>4
<1>3. r \in Worlds /\ SameStop(r, w)
  BY <1>1 DEF QueueOnly, SameStop
<1>4. T \cap Marks = {}
  BY MarksAre
<1> HIDE DEF r, T
<1> QED
  BY <1>2, <1>3, <1>4, CancelledIsCalm DEF r

\* The script is not expected to be answered while its goal is not active.
LEMMA IdleIsUnscripted ==
  ASSUME NEW w, Scripted(w), SystemStop \notin w.active
  PROVE  Unscripted(w) /\ w.proc.step = 0 /\ ~Has(w, StepMsg)
BY DEF Scripted, ScriptRuns, StepIsAnswered, Unscripted

\* The goals that run are told to stop.
LEMMA CancelActiveIsCalm ==
  ASSUME NEW w \in Worlds, LinksOK(w), Scripted(w), SystemStop \notin w.active
  PROVE  Calm(G!CancelActiveGoals(w), w)
<1> DEFINE A == {v \in Worlds : ProcOnly(v, w) /\ Calm(v, w) /\ Unscripted(v)}
<1>1. w \in A
  BY IdleIsUnscripted, NothingIsCalm DEF ProcOnly, Beside
<1>2. ASSUME NEW v \in A, NEW goal \in w.active \cap GoalIds PROVE CancelProcedure(v, goal) \in A
  <2>1. /\ ProcOnly(v, w) /\ v \in Worlds /\ LinksOK(v) /\ goal \in GoalIds \ {SystemStop}
        /\ Calm(v, w) /\ Unscripted(v)
    BY <1>2 DEF ProcOnly
  <2> DEFINE r == CancelProcedure(v, goal)
  <2> HIDE DEF r
  <2>2. ProcOnly(r, v) /\ Calm(r, v)
    BY <2>1, CancelKeeps, CancelIsCalm DEF r, SystemStop
  <2>3. ProcOnly(r, w) /\ r \in Worlds
    BY <2>1, <2>2, ProcAgain DEF ProcOnly
  <2>4. Calm(r, w)
    BY <2>1, <2>2, <2>3, CalmAgain
  <2>5. Unscripted(r)
    BY <2>1, <2>2 DEF Calm, Still, Unscripted
  <2> QED
    BY <2>3, <2>4, <2>5 DEF r
<1> HIDE DEF A
<1>3. G!CancelActiveGoals(w) \in A
  BY <1>1, <1>2, CancelActiveInduction
<1> QED
  BY <1>3 DEF A

\* The script runs alone.
LEMMA StopRunsAlone ==
  ASSUME NEW w, Base(w), NEW g \in w.active, g # SystemStop
  PROVE  SystemStop \notin w.active
BY GoalsAre DEF Base, Concurrent, ConcurrentWith, SystemStop, StartGoals

\* The exclusive goal of one that is wanted is told to stop.
LEMMA HandleExclusiveIsCalm ==
  ASSUME NEW w, Base(w), Scripted(w), NEW goal \in GoalIds
  PROVE  Calm(G!HandleExclusive(w, goal), w)
<1> DEFINE e == Exclusive(goal)
           d == G!DequeGoal(w, e)
           r == CancelProcedure(d, e)
<1>0. w \in Worlds /\ LinksOK(w)
  BY DEF Base
<1>1. CASE e \in w.active
  <2>1. G!HandleExclusive(w, goal) = r
    BY <1>1 DEF G!HandleExclusive
  <2>2. e \in GoalIds \ {SystemStop} /\ SystemStop \notin w.active
    <3>1. w.active \subseteq GoalIds /\ e # SystemStop
      BY <1>0, ContentionIs DEF Worlds, SystemStop
    <3> HIDE DEF e
    <3> QED
      BY <1>1, <3>1, StopRunsAlone
  <2> HIDE DEF e
  <2>3. QueueOnly(d, w) /\ Calm(d, w)
    BY <1>0, <2>2, DequeGoalKeeps, DequeIsCalm
  <2> HIDE DEF d
  <2>4. d \in Worlds /\ LinksOK(d) /\ Unscripted(d)
    <3>1. Unscripted(w)
      BY <2>2, IdleIsUnscripted
    <3> QED
      BY <1>0, <2>3, <3>1 DEF QueueOnly, LinksOK, Unscripted
  <2>5. ProcOnly(r, d) /\ Calm(r, d)
    BY <2>2, <2>4, CancelKeeps, CancelIsCalm DEF SystemStop
  <2> HIDE DEF r
  <2> QED
    BY <1>0, <2>1, <2>3, <2>4, <2>5, CalmAgain DEF ProcOnly
<1>2. CASE e \notin w.active
  BY <1>0, <1>2, NothingIsCalm DEF G!HandleExclusive
<1> QED
  BY <1>1, <1>2

\* A goal starts that is not the stop.
LEMMA StartOtherIsCalm ==
  ASSUME NEW w \in Worlds, LinksOK(w), Scripted(w), SystemStop \notin w.active,
         NEW goal \in GoalIds \ {SystemStop}
  PROVE  Calm(G!StartGoal(w, goal), w)
<1> DEFINE more == w.active \cup {goal}
           v == [w EXCEPT !.active = more]
           b == BeginProcedure(v, goal)
           r == G!UpdateQueueMasks(b)
<1>1. G!StartGoal(w, goal) = r
  BY DEF G!StartGoal
<1>2. more \in SUBSET GoalIds /\ SystemStop \notin more
  BY DEF Worlds
<1> HIDE DEF more
<1>3. /\ v \in Worlds /\ LinksOK(v) /\ v.active = more /\ v.mail = w.mail /\ v.proc = w.proc
      /\ SameStop(v, w)
  BY <1>2 DEF Worlds, LinksOK, SameStop
<1> HIDE DEF v
<1>4. Unscripted(v) /\ Calm(v, w)
  BY <1>3, IdleIsUnscripted, SameIsCalm DEF Unscripted
<1>5. ProcOnly(b, v) /\ Calm(b, v)
  BY <1>3, <1>4, BeginKeeps, BeginIsCalm
<1> HIDE DEF b
<1>6. QueueOnly(r, b) /\ Calm(r, b)
  BY <1>5, UpdateQueueMasksKeeps, MasksAreCalm DEF ProcOnly
<1> HIDE DEF r
<1>7. Calm(b, w)
  BY <1>3, <1>4, <1>5, CalmAgain DEF ProcOnly
<1> QED
  BY <1>1, <1>5, <1>6, <1>7, CalmAgain DEF ProcOnly, QueueOnly

\* The stop starts: its script is at the first step.
LEMMA StopStarts ==
  ASSUME NEW w \in Worlds, LinksOK(w), Scripted(w), SystemStop \notin w.active
  PROVE  GoesOn(G!StartGoal(w, SystemStop), w)
<1> DEFINE more == w.active \cup {SystemStop}
           v == [w EXCEPT !.active = more]
           b == StartStep(v, 1)
           r == G!UpdateQueueMasks(b)
<1>1. G!StartGoal(w, SystemStop) = r
  BY DEF G!StartGoal, BeginProcedure, SystemStop
<1>2. more \in SUBSET GoalIds /\ SystemStop \in more
  BY MarksAre DEF Worlds
<1> HIDE DEF more
<1>3. /\ v \in Worlds /\ LinksOK(v) /\ v.active = more /\ v.mail = w.mail /\ v.proc = w.proc
      /\ v.topo = w.topo /\ v.timer = w.timer /\ v.rules = w.rules
  BY <1>2 DEF Worlds, LinksOK
<1> HIDE DEF v
<1>4. Marked(v) = Marked(w) /\ \A m : Has(v, m) <=> Has(w, m)
  BY <1>3 DEF Marked, Has
<1>5. Ready(v) /\ (RuleDecides(w) => RuleDecides(v))
  <2>1. Unscripted(w) /\ ~Has(w, StepMsg)
    BY IdleIsUnscripted
  <2> QED
    BY <1>2, <1>3, <1>4, <2>1
       DEF Ready, Unscripted, Scripted, Asked, RuleListens, RuleDecides, Stopping
<1>6. ProcOnly(b, v) /\ GoesOn(b, v)
  BY <1>3, <1>5, StartStepKeeps, StartStepIs
<1> HIDE DEF b
<1>7. QueueOnly(r, b) /\ Calm(r, b)
  BY <1>6, UpdateQueueMasksKeeps, MasksAreCalm DEF ProcOnly
<1> HIDE DEF r
<1>8. b \in Worlds /\ r \in Worlds /\ Still(r, b)
  BY <1>6, <1>7 DEF ProcOnly, QueueOnly, Calm
<1>9. /\ Scripted(b) => Scripted(r)
      /\ RuleDecides(b) => RuleDecides(r)
  BY <1>8, CalmKeeps
<1> QED
  BY <1>1, <1>5, <1>6, <1>8, <1>9 DEF GoesOn, Still

\* A goal that is not the stop is added.
LEMMA AddOrdinaryIsCalm ==
  ASSUME NEW w, Base(w), Scripted(w), NEW new \in BOOLEAN, NEW goal \in GoalIds \ {SystemStop}
  PROVE  Calm(G!AddOrdinary(w, new, goal), w)
<1> DEFINE f == G!HandleExclusive(w, goal)
           wait == G!MustWaitFor(w, goal) \ (w.active \ f.active)
           runs == (Contention(goal) = "concurrent" /\ wait = {}) \/ G!CanRunNow(f, new)
           r == G!AddOrdinary(w, new, goal)
<1>1. r = IF runs THEN G!StartGoal(f, goal) ELSE G!QueueGoal(f, goal, wait)
  BY DEF G!AddOrdinary
<1>2. GoalsOnly(f, w) /\ f.active = w.active /\ Calm(f, w)
  BY HandleExclusiveKeeps, HandleExclusiveIsCalm DEF Base
<1>3. f \in Worlds /\ LinksOK(f) /\ w \in Worlds
  BY <1>2 DEF GoalsOnly, Base
<1> HIDE DEF f
<1>4. Scripted(f)
  BY <1>2, <1>3, CalmKeeps DEF Calm
<1>5. wait = G!MustWaitFor(w, goal) /\ wait \in SUBSET GoalIds
  BY <1>2, <1>3 DEF G!MustWaitFor, Worlds
<1> HIDE DEF wait, runs, r
<1>6. CASE runs
  <2>1. SystemStop \notin f.active
    <3>1. CASE G!CanRunNow(f, new)
      BY <3>1 DEF G!CanRunNow
    <3>2. CASE Contention(goal) = "concurrent" /\ wait = {}
      <4>1. w.active \ ConcurrentWith(goal) = {}
        BY <1>5, <3>2 DEF G!MustWaitFor
      <4>2. SystemStop \notin ConcurrentWith(goal)
        BY DEF ConcurrentWith, StartGoals, SystemStop
      <4> QED
        BY <1>2, <4>1, <4>2
    <3> QED
      BY <1>6, <3>1, <3>2 DEF runs
  <2> DEFINE u == G!StartGoal(f, goal)
  <2>2. GoalsOnly(u, f) /\ Calm(u, f)
    BY <1>3, <1>4, <2>1, StartGoalKeeps, StartOtherIsCalm
  <2> HIDE DEF u
  <2>3. Calm(u, w)
    BY <1>2, <1>3, <2>2, CalmAgain DEF GoalsOnly
  <2> QED
    BY <1>1, <1>6, <2>3 DEF u, r
<1>7. CASE ~runs
  <2> DEFINE u == G!QueueGoal(f, goal, wait)
  <2>1. QueueOnly(u, f) /\ Calm(u, f)
    BY <1>3, <1>5, QueueGoalKeeps, QueueGoalIsCalm
  <2> HIDE DEF u
  <2>2. Calm(u, w)
    BY <1>2, <1>3, <2>1, CalmAgain DEF QueueOnly
  <2> QED
    BY <1>1, <1>7, <2>2 DEF u, r
<1> QED
  BY <1>6, <1>7

\* The stop is added: it starts, or waits for the goals that it cancels.
LEMMA AddStop ==
  ASSUME NEW w, Base(w), Scripted(w), SystemStop \notin w.active, NEW new \in BOOLEAN
  PROVE  LET r == G!AddCancelling(w, new, SystemStop)
         IN  Scripted(r) /\ (SystemStop \in r.active \/ G!Waiting(r, SystemStop))
<1> DEFINE v == G!ClearPendingGoals(w)
           c == G!CancelActiveGoals(v)
           r == G!AddCancelling(w, new, SystemStop)
<1>0. w \in Worlds /\ LinksOK(w)
  BY DEF Base
<1>1. r = IF G!CanRunNow(c, new) THEN G!StartGoal(c, SystemStop)
                                 ELSE G!QueueGoal(c, SystemStop, c.active)
  BY DEF G!AddCancelling
<1>2. QueueOnly(v, w) /\ Still(v, w)
  BY <1>0, ClearPendingKeeps, ClearPendingIsStill
<1> HIDE DEF v
<1>3. v \in Worlds /\ LinksOK(v) /\ SystemStop \notin v.active
  BY <1>0, <1>2 DEF QueueOnly, LinksOK
<1>4. Scripted(v)
  BY <1>0, <1>2, <1>3, CalmKeeps
<1>5. ProcOnly(c, v) /\ Calm(c, v)
  BY <1>3, <1>4, CancelActiveKeeps, CancelActiveIsCalm DEF SystemStop
<1> HIDE DEF c
<1>6. c \in Worlds /\ LinksOK(c) /\ SystemStop \notin c.active
  BY <1>3, <1>5 DEF ProcOnly, Beside
<1>7. Scripted(c)
  BY <1>3, <1>4, <1>5, <1>6, CalmKeeps DEF Calm
<1> HIDE DEF r
<1>8. CASE G!CanRunNow(c, new)
  BY <1>1, <1>6, <1>7, <1>8, StopStarts DEF GoesOn, r
<1>9. CASE ~G!CanRunNow(c, new)
  <2> DEFINE wait == c.active
             u == G!QueueGoal(c, SystemStop, wait)
  <2>1. wait \in SUBSET GoalIds
    BY <1>6 DEF Worlds
  <2>2. r = u
    BY <1>1, <1>9
  <2> HIDE DEF wait
  <2>3. QueueOnly(u, c) /\ Calm(u, c) /\ G!Waiting(u, SystemStop)
    BY <1>6, <2>1, MarksAre, QueueGoalKeeps, QueueGoalIsCalm
  <2> HIDE DEF u
  <2>4. Scripted(u)
    BY <1>6, <1>7, <2>3, CalmKeeps DEF Calm, QueueOnly
  <2> QED
    BY <2>2, <2>3, <2>4 DEF r
<1> QED
  BY <1>8, <1>9

\* The count is taken back when a goal comes from the queue.
LEMMA TakenBack ==
  ASSUME NEW w, Base(w), Scripted(w), NEW new \in BOOLEAN
  PROVE  LET t == IF new THEN w ELSE [w EXCEPT !.count = (w.count - 1) % 256]
         IN  Base(t) /\ Scripted(t) /\ Calm(t, w) /\ t.active = w.active
<1> DEFINE a == w.count
           less == (a - 1) % 256
           back == [w EXCEPT !.count = less]
<1>1. w \in Worlds /\ LinksOK(w) /\ Concurrent(w)
  BY DEF Base
<1>2. less \in 0 .. 255
  <2>1. a \in Nat
    BY <1>1, CountIs
  <2> HIDE DEF a
  <2>2. a - 1 \in Int
    BY <2>1
  <2> QED
    BY <2>2, ByteIs
<1> HIDE DEF less
<1>3. QueueOnly(back, w) /\ back.mail = w.mail
  BY <1>1, <1>2 DEF Worlds, QueueOnly
<1> HIDE DEF back
<1>4. Calm(back, w)
  BY <1>1, <1>3, QueueSameIsCalm
<1>5. Base(back)
  BY <1>1, <1>3 DEF Base, QueueOnly, LinksOK, Concurrent
<1>6. Scripted(back)
  BY <1>1, <1>4, <1>5, CalmKeeps DEF Calm, Base
<1> QED
  BY <1>1, <1>3, <1>4, <1>5, <1>6, NothingIsCalm DEF QueueOnly, back, less

\* A goal is activated: another leaves the stop alone, and the stop is then
\* active or waits.
LEMMA ActivateIs ==
  ASSUME NEW w, Base(w), Scripted(w), NEW new \in BOOLEAN, NEW goal \in GoalIds
  PROVE  LET r == G!ActivateGoal(w, new, goal)
         IN  /\ goal # SystemStop => Calm(r, w)
             /\ goal = SystemStop =>
                  Scripted(r) /\ (SystemStop \in r.active \/ G!Waiting(r, SystemStop))
<1> DEFINE t == IF new THEN w ELSE [w EXCEPT !.count = (w.count - 1) % 256]
           c1 == G!Cancels(goal) /\ goal \in t.active
           c2 == G!CanRunNow(t, new)
           r == G!ActivateGoal(w, new, goal)
<1>1. Base(t) /\ Scripted(t) /\ Calm(t, w) /\ t.active = w.active
  BY TakenBack
<1>2. /\ c1 => r = G!ClearPendingGoals(t)
      /\ ~c1 /\ c2 => r = G!ResetIfEmpty(G!StartGoal(t, goal))
      /\ G!Cancels(goal) /\ ~c1 /\ ~c2 => r = G!ResetIfEmpty(G!AddCancelling(t, new, goal))
      /\ ~G!Cancels(goal) /\ ~c2 => r = G!ResetIfEmpty(G!AddOrdinary(t, new, goal))
  <2>1. r = CASE c1 -> G!ClearPendingGoals(t)
              [] ~c1 /\ c2 -> G!ResetIfEmpty(G!StartGoal(t, goal))
              [] G!Cancels(goal) /\ goal \notin t.active /\ ~c2 ->
                   G!ResetIfEmpty(G!AddCancelling(t, new, goal))
              [] OTHER -> G!ResetIfEmpty(G!AddOrdinary(t, new, goal))
    BY DEF G!ActivateGoal, G!CountLimit
  <2>2. c1 <=> G!Cancels(goal) /\ goal \in t.active
    OBVIOUS
  <2> HIDE DEF c1, c2, t, r
  <2> QED
    BY <2>1, <2>2
<1>3. /\ G!Cancels(goal) <=> goal = SystemStop
      /\ w \in Worlds /\ t \in Worlds /\ LinksOK(t)
  BY <1>1, ContentionIs DEF Base, SystemStop
<1>4. c2 => t.active = {}
  BY DEF G!CanRunNow
<1>5. c1 <=> G!Cancels(goal) /\ goal \in t.active
  OBVIOUS
<1> HIDE DEF t, c1, c2, r
<1>6. ASSUME goal # SystemStop PROVE Calm(r, w)
  <2>1. ASSUME NEW v, GoalsOnly(v, t), Calm(v, t), r = G!ResetIfEmpty(v) PROVE Calm(r, w)
    <3>1. v \in Worlds
      BY <2>1 DEF GoalsOnly
    <3>2. Calm(r, v) /\ QueueOnly(r, v)
      BY <2>1, <3>1, ResetIsCalm, ResetIfEmptyKeeps
    <3>3. r \in Worlds
      BY <3>2 DEF QueueOnly
    <3>4. Calm(v, w)
      BY <1>1, <1>3, <2>1, <3>1, CalmAgain
    <3> QED
      BY <1>3, <3>1, <3>2, <3>3, <3>4, CalmAgain
  <2>2. CASE c2
    <3> DEFINE v == G!StartGoal(t, goal)
    <3>1. SystemStop \notin t.active
      BY <1>4, <2>2
    <3>2. GoalsOnly(v, t) /\ Calm(v, t)
      BY <1>1, <1>3, <1>6, <3>1, StartGoalKeeps, StartOtherIsCalm
    <3>3. r = G!ResetIfEmpty(v)
      BY <1>2, <1>3, <1>5, <1>6, <2>2
    <3> HIDE DEF v
    <3> QED
      BY <2>1, <3>2, <3>3
  <2>3. CASE ~c2
    <3> DEFINE v == G!AddOrdinary(t, new, goal)
    <3>1. GoalsOnly(v, t) /\ Calm(v, t)
      BY <1>1, <1>6, AddOrdinaryKeeps, AddOrdinaryIsCalm
    <3>2. r = G!ResetIfEmpty(v)
      BY <1>2, <1>3, <1>6, <2>3
    <3> HIDE DEF v
    <3> QED
      BY <2>1, <3>1, <3>2
  <2> QED
    BY <2>2, <2>3
<1>7. ASSUME goal = SystemStop
      PROVE  Scripted(r) /\ (SystemStop \in r.active \/ G!Waiting(r, SystemStop))
  <2>1. ASSUME NEW v \in Worlds, Scripted(v), SystemStop \in v.active \/ G!Waiting(v, SystemStop),
               r = G!ResetIfEmpty(v)
        PROVE  Scripted(r) /\ (SystemStop \in r.active \/ G!Waiting(r, SystemStop))
    <3>1. Calm(r, v) /\ r \in Worlds
      BY <2>1, ResetIsCalm, ResetIfEmptyKeeps DEF QueueOnly
    <3>2. Scripted(r)
      BY <2>1, <3>1, CalmKeeps DEF Calm
    <3> QED
      BY <2>1, <3>1, <3>2 DEF Calm, Still
  <2>2. CASE c1
    <3>1. r = G!ClearPendingGoals(t) /\ SystemStop \in t.active
      BY <1>2, <1>5, <1>7, <2>2
    <3>2. Still(r, t) /\ r \in Worlds
      BY <1>3, <3>1, ClearPendingKeeps, ClearPendingIsStill DEF QueueOnly
    <3>3. Scripted(r)
      BY <1>1, <1>3, <3>2, CalmKeeps
    <3> QED
      BY <3>1, <3>2, <3>3 DEF Still
  <2>3. CASE ~c1 /\ c2
    <3> DEFINE v == G!StartGoal(t, SystemStop)
    <3>1. SystemStop \notin t.active
      BY <1>4, <2>3
    <3>2. v \in Worlds /\ GoesOn(v, t)
      BY <1>1, <1>3, <3>1, MarksAre, StartGoalKeeps, StopStarts DEF GoalsOnly
    <3>3. r = G!ResetIfEmpty(v)
      BY <1>2, <1>7, <2>3
    <3> HIDE DEF v
    <3> QED
      BY <2>1, <3>2, <3>3 DEF GoesOn
  <2>4. CASE ~c1 /\ ~c2
    <3> DEFINE v == G!AddCancelling(t, new, SystemStop)
    <3>1. SystemStop \notin t.active
      BY <1>3, <1>5, <1>7, <2>4
    <3>2. v \in Worlds
      BY <1>1, <3>1, AddCancellingKeeps DEF GoalsOnly, SystemStop
    <3>3. Scripted(v) /\ (SystemStop \in v.active \/ G!Waiting(v, SystemStop))
      BY <1>1, <3>1, AddStop
    <3>4. r = G!ResetIfEmpty(v)
      BY <1>2, <1>3, <1>7, <2>4
    <3> HIDE DEF v
    <3> QED
      BY <2>1, <3>2, <3>3, <3>4
  <2> QED
    BY <2>2, <2>3, <2>4
<1> QED
  BY <1>6, <1>7 DEF r

\* A decision is handled, or a goal of the queue.
LEMMA DecisionIs ==
  ASSUME NEW w, Base(w), Scripted(w), NEW new \in BOOLEAN, NEW goal \in GoalIds
  PROVE  LET r == HandleGoalDecision(w, new, goal)
         IN  /\ goal # SystemStop => Calm(r, w)
             /\ goal = SystemStop => UnderWay(r)
<1> DEFINE v == IF Accepts(w, goal) THEN G!ActivateGoal(w, new, goal) ELSE w
           r == R!SetRuleComplete(v, goal)
<1>1. HandleGoalDecision(w, new, goal) = r
  BY DEF HandleGoalDecision
<1>2. goal = SystemStop => Accepts(w, goal)
  BY DEF Accepts, SystemStop, StartGoals
<1>3. w \in Worlds /\ v \in Worlds
  BY ActivateGoalKeeps DEF GoalsOnly, Base
<1>4. /\ goal # SystemStop => Calm(v, w)
      /\ goal = SystemStop =>
           Scripted(v) /\ (SystemStop \in v.active \/ G!Waiting(v, SystemStop))
  BY <1>2, <1>3, ActivateIs, NothingIsCalm
<1> HIDE DEF v
<1>5. /\ r \in Worlds
      /\ goal # SystemStop => Calm(r, v)
      /\ goal = SystemStop /\ RuleListens(v) => Calm(r, v) /\ RuleDecides(r)
  BY <1>3, CompleteIsCalm
<1> HIDE DEF r
<1>6. CASE goal # SystemStop
  BY <1>1, <1>3, <1>4, <1>5, <1>6, CalmAgain
<1>7. CASE goal = SystemStop
  <2>1. Scripted(v) /\ Pending(v)
    BY <1>4, <1>7 DEF Pending
  <2>2. Calm(r, v) /\ RuleDecides(r)
    BY <1>5, <1>7, <2>1 DEF Scripted
  <2>3. Scripted(r) /\ Pending(r)
    BY <1>3, <1>5, <2>1, <2>2, CalmKeeps DEF Calm
  <2> QED
    BY <1>1, <1>7, <2>2, <2>3 DEF UnderWay
<1> QED
  BY <1>6, <1>7

\* Another goal is done.
LEMMA ClearIsCalm ==
  ASSUME NEW w \in Worlds, NEW goal, goal # SystemStop
  PROVE  Calm(G!ClearGoal(w, goal), w) /\ G!ClearGoal(w, goal) \in Worlds
<1> DEFINE r == G!ClearGoal(w, goal)
<1>1. /\ r \in Worlds /\ r.active = w.active \ {goal} /\ r.topo = w.topo
      /\ r.rules = w.rules /\ r.timer = w.timer /\ r.env = w.env /\ r.proc = w.proc
      /\ r.mail = w.mail
  BY ClearGoalKeeps
<1> HIDE DEF r
<1>2. SameStop(r, w)
  BY <1>1 DEF SameStop
<1> QED
  BY <1>1, <1>2, SameIsCalm DEF r

---------------------------------------------------------------------------
(* The topology.                                                           *)

\* The records of the topology and its rules change, and no stop begins.
LEMMA RecordsAreCalm ==
  ASSUME NEW w \in Worlds, NEW topo2 \in Topos, NEW rules2 \in R!RuleSet, NEW timer2 \in BOOLEAN,
         rules2.status[1] \in {w.rules.status[1], "not_done"},
         topo2.state = "STOPPING" =>
           Stopping(w) /\ (w.topo.app_task = "app" /\ w.timer => topo2.app_task = "app" /\ timer2)
  PROVE  LET r == [w EXCEPT !.topo = topo2, !.rules = rules2, !.timer = timer2]
         IN  Calm(r, w) /\ r \in Worlds
<1> DEFINE r == [w EXCEPT !.topo = topo2, !.rules = rules2, !.timer = timer2]
<1>1. /\ r \in Worlds /\ r.topo = topo2 /\ r.rules = rules2 /\ r.timer = timer2
      /\ r.proc = w.proc /\ r.active = w.active /\ r.mail = w.mail
  BY DEF Worlds
<1> HIDE DEF r
<1>2. Marked(r) = Marked(w) /\ Grows(Marked(w), Marked(r))
  <2>1. Marked(r) = Marked(w)
    BY <1>1 DEF Marked
  <2> QED
    BY <2>1, MarkedIs, GrowsAgain
<1>3. Still(r, w)
  BY <1>1, <1>2 DEF Still, Stopping
<1>4. Calm(r, w)
  BY <1>1, <1>3 DEF Calm, G!Waiting
<1> QED
  BY <1>1, <1>4 DEF r

\* The states that are entered without more
LEMMA EnterIsCalm ==
  ASSUME NEW w \in Worlds
  PROVE  /\ Calm(HandleStopTimeout(w), w) /\ HandleStopTimeout(w) \in Worlds
         /\ ~Stopping(HandleStopTimeout(w))
         /\ Calm(EnterStarted(w), w) /\ EnterStarted(w) \in Worlds
         /\ InState(w, "STOPPED") => Calm(SendStopCfm(w), w) /\ SendStopCfm(w) \in Worlds
<1>0. w.topo \in Topos /\ w.rules \in R!RuleSet /\ w.timer \in BOOLEAN
  BY DEF Worlds
<1>1. Calm(HandleStopTimeout(w), w) /\ HandleStopTimeout(w) \in Worlds
      /\ ~Stopping(HandleStopTimeout(w))
  <2> DEFINE t == [w.topo EXCEPT !.state = "STOPPED", !.app_task = "none"]
             r == [w EXCEPT !.topo = t, !.rules = w.rules, !.timer = FALSE]
  <2>1. HandleStopTimeout(w) = r
    BY <1>0 DEF HandleStopTimeout, EnterStopped, SendStopCfm, Worlds, Topos
  <2>2. t \in Topos /\ t.state = "STOPPED"
    BY <1>0 DEF Topos
  <2>3. r.topo = t
    BY DEF Worlds
  <2> HIDE DEF t
  <2>4. Calm(r, w) /\ r \in Worlds
    BY <1>0, <2>2, RecordsAreCalm
  <2> HIDE DEF r
  <2> QED
    BY <2>1, <2>2, <2>3, <2>4 DEF Stopping
<1>2. Calm(EnterStarted(w), w) /\ EnterStarted(w) \in Worlds
  <2> DEFINE t == [w.topo EXCEPT !.state = "STARTED"]
  <2>1. EnterStarted(w) = [w EXCEPT !.topo = t, !.rules = w.rules, !.timer = w.timer]
    BY <1>0 DEF EnterStarted, Worlds, Topos
  <2>2. t \in Topos /\ t.state = "STARTED"
    BY <1>0 DEF Topos
  <2> HIDE DEF t
  <2> DEFINE r == [w EXCEPT !.topo = t, !.rules = w.rules, !.timer = w.timer]
  <2>3. Calm(r, w) /\ r \in Worlds
    BY <1>0, <2>2, RecordsAreCalm
  <2> HIDE DEF r
  <2> QED
    BY <2>1, <2>3 DEF r
<1>3. ASSUME InState(w, "STOPPED") PROVE Calm(SendStopCfm(w), w) /\ SendStopCfm(w) \in Worlds
  <2>1. SendStopCfm(w) = [w EXCEPT !.topo = w.topo, !.rules = w.rules, !.timer = FALSE]
    BY <1>0 DEF SendStopCfm, Worlds
  <2>2. w.topo.state # "STOPPING"
    BY <1>3 DEF InState
  <2> DEFINE r == [w EXCEPT !.topo = w.topo, !.rules = w.rules, !.timer = FALSE]
  <2>3. Calm(r, w) /\ r \in Worlds
    BY <1>0, <2>2, RecordsAreCalm
  <2> HIDE DEF r
  <2> QED
    BY <2>1, <2>3 DEF r
<1> QED
  BY <1>1, <1>2, <1>3

\* Starting makes the rules listen.
LEMMA StartIsCalm ==
  ASSUME NEW w \in Worlds
  PROVE  Calm(Start(w), w) /\ Start(w) \in Worlds
<1>1. CASE ~InState(w, "STOPPED")
  BY <1>1, NothingIsCalm DEF Start
<1>2. CASE InState(w, "STOPPED")
  <2> DEFINE t == [w.topo EXCEPT !.state = "STARTING", !.prohibit = FALSE, !.shutdown = FALSE]
             rs == R!ResetEvent(w.rules, R!RuleEvents)
             v == [w EXCEPT !.topo = t, !.rules = rs, !.timer = w.timer]
  <2>0. w.topo \in Topos /\ w.rules \in R!RuleSet /\ w.timer \in BOOLEAN
    BY DEF Worlds
  <2>1. t \in Topos /\ t.state = "STARTING"
    BY <2>0 DEF Topos
  <2>2. rs \in R!RuleSet /\ rs.status[1] = "not_done"
    <3>1. rs \in R!RuleSet
      BY <2>0, ResetIs
    <3>2. 1 \in R!RuleIds /\ R!Of(1) \in R!RuleEvents
      BY RulesAre
    <3> QED
      BY <3>1, <3>2 DEF R!ResetEvent
  <2>3. Start(w) = R!SetEvent(v, "START")
    <3>1. v = [w EXCEPT !.topo.state = "STARTING", !.topo.prohibit = FALSE,
                        !.topo.shutdown = FALSE, !.rules = rs]
      <4> HIDE DEF rs
      <4> QED
        BY <2>0 DEF Worlds, Topos
    <3> HIDE DEF v
    <3> QED
      BY <1>2, <3>1 DEF Start, EnterStarting
  <2> HIDE DEF t, rs
  <2>4. Calm(v, w) /\ v \in Worlds
    BY <2>0, <2>1, <2>2, RecordsAreCalm
  <2> HIDE DEF v
  <2>5. Calm(R!SetEvent(v, "START"), v) /\ R!SetEvent(v, "START") \in Worlds
    BY <2>4, RulesAre, SetEventIsCalm
  <2> QED
    BY <2>3, <2>4, <2>5, CalmAgain
<1> QED
  BY <1>1, <1>2

LEMMA ProhibitIsCalm ==
  ASSUME NEW w \in Worlds, NEW prohibit \in BOOLEAN
  PROVE  /\ Calm(ProhibitHandsetConnection(w, prohibit), w)
         /\ ProhibitHandsetConnection(w, prohibit) \in Worlds
         /\ Calm([w EXCEPT !.topo.shutdown = TRUE], w)
         /\ [w EXCEPT !.topo.shutdown = TRUE] \in Worlds
<1>0. w.topo \in Topos /\ w.rules \in R!RuleSet /\ w.timer \in BOOLEAN
  BY DEF Worlds
<1>1. ASSUME NEW t \in Topos, t.state = w.topo.state, t.app_task = w.topo.app_task,
             NEW v, v = [w EXCEPT !.topo = t, !.rules = w.rules, !.timer = w.timer]
      PROVE  Calm(v, w) /\ v \in Worlds
  <2>1. t.state = "STOPPING" =>
          Stopping(w) /\ (w.topo.app_task = "app" /\ w.timer => t.app_task = "app" /\ w.timer)
    BY <1>1 DEF Stopping
  <2> QED
    BY <1>0, <1>1, <2>1, RecordsAreCalm
<1>2. Calm([w EXCEPT !.topo.shutdown = TRUE], w) /\ [w EXCEPT !.topo.shutdown = TRUE] \in Worlds
  <2> DEFINE t == [w.topo EXCEPT !.shutdown = TRUE]
             v == [w EXCEPT !.topo.shutdown = TRUE]
  <2>1. v = [w EXCEPT !.topo = t, !.rules = w.rules, !.timer = w.timer]
    BY <1>0 DEF Worlds, Topos
  <2>2. t \in Topos /\ t.state = w.topo.state /\ t.app_task = w.topo.app_task
    BY <1>0 DEF Topos
  <2> HIDE DEF t, v
  <2>3. Calm(v, w) /\ v \in Worlds
    BY <1>1, <2>1, <2>2
  <2> QED
    BY <2>3 DEF v
<1> DEFINE t == [w.topo EXCEPT !.prohibit = prohibit]
           v == [w EXCEPT !.topo.prohibit = prohibit]
<1>3. v = [w EXCEPT !.topo = t, !.rules = w.rules, !.timer = w.timer]
  BY <1>0 DEF Worlds, Topos
<1>4. t \in Topos /\ t.state = w.topo.state /\ t.app_task = w.topo.app_task
  BY <1>0 DEF Topos
<1>5. ProhibitHandsetConnection(w, prohibit) = IF prohibit THEN R!SetEvent(v, "PROHIBIT") ELSE v
  BY DEF ProhibitHandsetConnection
<1> HIDE DEF t, v
<1>6. Calm(v, w) /\ v \in Worlds
  BY <1>1, <1>3, <1>4
<1>7. Calm(R!SetEvent(v, "PROHIBIT"), v) /\ R!SetEvent(v, "PROHIBIT") \in Worlds
  BY <1>6, RulesAre, SetEventIsCalm
<1>8. Calm(R!SetEvent(v, "PROHIBIT"), w)
  BY <1>6, <1>7, CalmAgain
<1> QED
  BY <1>2, <1>5, <1>6, <1>7, <1>8

\* The procedure of another goal is complete.
LEMMA CompletedIsCalm ==
  ASSUME NEW w \in Worlds, NEW goal, goal # SystemStop
  PROVE  Calm(GoalProcComplete(w, goal), w) /\ GoalProcComplete(w, goal) \in Worlds
<1> DEFINE v == IF InState(w, "STARTING") /\ goal = "allow_handset_connect"
                THEN EnterStarted(w) ELSE w
<1>1. Calm(v, w) /\ v \in Worlds
  BY EnterIsCalm, NothingIsCalm
<1>2. GoalProcComplete(w, goal) = G!ClearGoal(v, goal)
  BY DEF GoalProcComplete
<1> HIDE DEF v
<1>3. Calm(G!ClearGoal(v, goal), v) /\ G!ClearGoal(v, goal) \in Worlds
  BY <1>1, ClearIsCalm
<1> QED
  BY <1>1, <1>2, <1>3, CalmAgain

\* What leaves a stop alone that is under way.
LEMMA CalmIsUnderWay ==
  ASSUME NEW w \in Worlds, UnderWay(w), NEW r \in Worlds, Calm(r, w)
  PROVE  UnderWay(r)
BY CalmKeeps DEF Calm

\* A client stops the topology: if it has started, the rules decide to.
LEMMA StopIsUnderWayNow ==
  ASSUME NEW w \in Worlds, UnderWay(w)
  PROVE  UnderWay(Stop(w))
<1> DEFINE t == [w.topo EXCEPT !.app_task = "app"]
           v == [w EXCEPT !.topo = t, !.rules = w.rules, !.timer = w.timer]
<1>0. w.topo \in Topos /\ w.rules \in R!RuleSet /\ w.timer \in BOOLEAN
  BY DEF Worlds
<1>1. v = [w EXCEPT !.topo.app_task = "app"]
  BY <1>0 DEF Worlds, Topos
<1>2. t \in Topos /\ t.state = w.topo.state /\ t.app_task = "app"
  BY <1>0 DEF Topos
<1>3. v.topo = t /\ v.rules = w.rules
  BY DEF Worlds
<1> HIDE DEF t
<1>4. Calm(v, w) /\ v \in Worlds
  <2>1. t.state = "STOPPING" =>
          Stopping(w) /\ (w.topo.app_task = "app" /\ w.timer => t.app_task = "app" /\ w.timer)
    BY <1>2 DEF Stopping
  <2> HIDE DEF v
  <2>2. LET r == [w EXCEPT !.topo = t, !.rules = w.rules, !.timer = w.timer]
        IN  Calm(r, w) /\ r \in Worlds
    BY <1>0, <1>2, <2>1, RecordsAreCalm
  <2> QED
    BY <2>2 DEF v
<1> HIDE DEF v
<1>5. UnderWay(v)
  BY <1>4, CalmIsUnderWay
<1>6. CASE InState(w, "STARTED")
  <2> DEFINE t2 == [v.topo EXCEPT !.state = "STOPPING"]
             u == [v EXCEPT !.topo = t2, !.rules = v.rules, !.timer = TRUE]
             r == R!SetEvent(u, "STOP")
  <2>0. v.topo \in Topos /\ v.rules \in R!RuleSet /\ v \in Worlds
    BY <1>4 DEF Worlds
  <2>1. Stop(w) = r
    <3>1. u = [v EXCEPT !.topo.state = "STOPPING", !.timer = TRUE]
      BY <2>0 DEF Worlds, Topos
    <3>2. Stop(w) = EnterStopping(v)
      BY <1>1, <1>6 DEF Stop, InState
    <3> HIDE DEF u
    <3> QED
      BY <3>1, <3>2 DEF EnterStopping
  <2>2. t2 \in Topos /\ t2.app_task = "app"
    BY <1>2, <1>3, <2>0 DEF Topos
  <2>3. /\ u \in Worlds /\ u.topo = t2 /\ u.timer = TRUE /\ u.rules = v.rules
        /\ u.active = v.active /\ u.mail = v.mail /\ u.proc = v.proc
    BY <2>0, <2>2 DEF Worlds
  <2> HIDE DEF t2, u
  <2>4. Marked(u) = Marked(v) /\ \A m : Has(u, m) <=> Has(v, m)
    BY <2>3 DEF Marked, Has
  <2>5. RuleListens(u) /\ RuleDecides(u)
    BY <1>5, <2>3, <2>4 DEF UnderWay, Scripted, RuleListens, RuleDecides
  <2>6. r \in Worlds /\ Calm(r, u) /\ Has(r, Decided)
    BY <2>3, <2>5, RulesAre, SetEventIsCalm
  <2>7. r.topo = u.topo /\ r.timer = u.timer
    BY <2>3, RulesAre, SetEventKeeps DEF RulesOnly
  <2> HIDE DEF r
  <2> DEFINE x == [r EXCEPT !.topo = v.topo, !.timer = v.timer]
  <2>8. /\ x \in Worlds /\ x.topo = v.topo /\ x.timer = v.timer /\ x.rules = r.rules
        /\ x.active = r.active /\ x.mail = r.mail /\ x.proc = r.proc
    BY <1>4, <2>6 DEF Worlds
  <2> HIDE DEF x
  <2>9. Marked(x) = Marked(r) /\ \A m : Has(x, m) <=> Has(r, m)
    BY <2>8 DEF Marked, Has
  <2>10. Still(x, v)
    <3>1. Stopping(x) <=> Stopping(v)
      BY <2>8 DEF Stopping
    <3>2. Grows(Marked(v), Marked(x))
      BY <2>4, <2>6, <2>9 DEF Calm, Still
    <3>3. /\ x.proc.step = v.proc.step
          /\ x.proc.le = "script" <=> v.proc.le = "script"
          /\ x.proc.disconnect = "script" <=> v.proc.disconnect = "script"
          /\ SystemStop \in x.active <=> SystemStop \in v.active
      BY <2>3, <2>6, <2>8 DEF Calm, Still
    <3>4. \/ x.rules.status[1] = v.rules.status[1]
          \/ x.rules.status[1] = "not_done"
          \/ x.rules.status[1] = "in_progress" /\ Has(x, Decided)
      BY <2>3, <2>6, <2>8, <2>9 DEF Calm, Still
    <3> QED
      BY <2>8, <3>1, <3>2, <3>3, <3>4 DEF Still
  <2>11. Scripted(x)
    BY <1>4, <1>5, <2>8, <2>10, CalmKeeps DEF UnderWay
  <2>12. ScriptRuns(r) /\ StepIsAnswered(r) /\ RuleListens(r)
    BY <2>8, <2>9, <2>11 DEF Scripted, ScriptRuns, StepIsAnswered, RuleListens
  <2>13. ToldFirst(r)
    BY <2>6, <2>8, <2>9, <2>11 DEF Scripted, ToldFirst
  <2>14. Asked(r)
    BY <2>2, <2>3, <2>7 DEF Asked
  <2>15. RuleDecides(r) /\ Pending(r)
    BY <2>6 DEF RuleDecides, Pending
  <2> QED
    BY <2>1, <2>12, <2>13, <2>14, <2>15 DEF UnderWay, Scripted
<1>7. CASE ~InState(w, "STARTED") /\ InState(w, "STOPPED")
  <2>1. Stop(w) = SendStopCfm(v)
    BY <1>1, <1>7 DEF Stop, InState
  <2>2. InState(v, "STOPPED")
    BY <1>2, <1>3, <1>7 DEF InState
  <2> QED
    BY <1>4, <1>5, <2>1, <2>2, EnterIsCalm, CalmIsUnderWay
<1>8. CASE ~InState(w, "STARTED") /\ ~InState(w, "STOPPED")
  <2>1. Stop(w) = v
    BY <1>1, <1>8 DEF Stop
  <2> QED
    BY <1>5, <2>1
<1> QED
  BY <1>6, <1>7, <1>8

\* A step of the script is complete: the next one begins, or the script ends.
LEMMA StepCompletesIs ==
  ASSUME NEW w \in Worlds, LinksOK(w), Ready(w), RuleDecides(w), w.proc.step # 0,
         w.proc.step = 7 /\ Stopping(w) => Has(w, Decided)
  PROVE  UnderWay(StepCompletes(w))
<1>0. w.proc.step \in 1 .. 7 /\ w.proc \in Procs
  BY DEF Worlds, Procs
<1>1. CASE w.proc.step = 7
  <2> DEFINE p == [w.proc EXCEPT !.step = 0]
             v == [w EXCEPT !.proc = p]
             r == G!ClearGoal(v, SystemStop)
  <2>1. StepCompletes(w) = GoalProcComplete(v, SystemStop)
    BY <1>1, ScriptIs DEF StepCompletes, SystemStop
  <2>2. GoalProcComplete(v, SystemStop) = r
    BY DEF GoalProcComplete, SystemStop
  <2>3. p \in Procs /\ p.step = 0 /\ p.le = w.proc.le /\ p.disconnect = w.proc.disconnect
    BY <1>0 DEF Procs
  <2> HIDE DEF p
  <2>4. /\ v \in Worlds /\ v.proc = p /\ v.topo = w.topo /\ v.rules = w.rules
        /\ v.active = w.active /\ v.mail = w.mail /\ v.timer = w.timer
    <3> HIDE DEF r
    <3>1. p \in Procs
      BY <2>3
    <3> QED
      BY <3>1 DEF Worlds
  <2> HIDE DEF v
  <2>5. /\ r.active = v.active \ {SystemStop} /\ r.topo = v.topo /\ r.rules = v.rules
        /\ r.timer = v.timer /\ r.proc = v.proc /\ r.mail = v.mail
    BY <2>4, ClearGoalKeeps
  <2> HIDE DEF r
  <2>6. Marked(r) = Marked(w) /\ \A m : Has(r, m) <=> Has(w, m)
    BY <2>4, <2>5 DEF Marked, Has
  <2>7. \A i \in 1 .. Len(Marked(r)) : Marked(r)[i] # StepMsg
    BY <2>6 DEF Ready, Has
  <2>8. ScriptRuns(r) /\ ToldFirst(r)
    BY <2>3, <2>4, <2>5 DEF ScriptRuns, ToldFirst
  <2>9. StepIsAnswered(r)
    BY <2>3, <2>4, <2>5, <2>6, <2>7 DEF StepIsAnswered, Ready, Unscripted
  <2>10. Asked(r) /\ RuleListens(r) /\ RuleDecides(r)
    BY <2>4, <2>5, <2>6 DEF Ready, Asked, RuleListens, RuleDecides, Stopping
  <2>11. Stopping(r) => Pending(r)
    BY <1>1, <2>4, <2>5, <2>6 DEF Stopping, Pending
  <2> QED
    BY <2>1, <2>2, <2>8, <2>9, <2>10, <2>11 DEF UnderWay, Scripted
<1>2. CASE w.proc.step # 7
  <2> DEFINE n == w.proc.step + 1
             r == StartStep(w, n)
  <2>1. StepCompletes(w) = r
    BY <1>0, <1>2, ScriptIs DEF StepCompletes
  <2>2. n \in 1 .. 7
    BY <1>0, <1>2
  <2> HIDE DEF n
  <2>3. GoesOn(r, w)
    BY <2>2, StartStepIs
  <2> HIDE DEF r
  <2> QED
    BY <2>1, <2>3 DEF GoesOn, UnderWay, Pending
<1> QED
  BY <1>1, <1>2

\* An answer has come to a step, and nobody else is expected to.
LEMMA AnsweredIsReady ==
  ASSUME NEW w \in Worlds, LinksOK(w), UnderWay(w), w.proc.step \in {4, 5, 6},
         NEW p \in Procs, p.step = w.proc.step, p.le # "script", p.disconnect # "script"
  PROVE  UnderWay(StepCompletes([w EXCEPT !.proc = p]))
<1> DEFINE v == [w EXCEPT !.proc = p]
<1>1. /\ v \in Worlds /\ v.proc = p /\ v.topo = w.topo /\ v.rules = w.rules /\ v.env = w.env
      /\ v.active = w.active /\ v.mail = w.mail /\ v.timer = w.timer
  BY DEF Worlds
<1> HIDE DEF v
<1>2. \A m : Has(v, m) <=> Has(w, m)
  BY <1>1 DEF Marked, Has
<1>3. SystemStop \in w.active /\ ~Has(w, StepMsg) /\ Asked(w) /\ RuleListens(w)
  BY DEF UnderWay, Scripted, ScriptRuns, StepIsAnswered
<1>4. Ready(v) /\ RuleDecides(v)
  BY <1>1, <1>2, <1>3
     DEF Ready, Unscripted, Asked, RuleListens, RuleDecides, UnderWay, Stopping
<1>5. LinksOK(v) /\ v.proc.step # 0 /\ v.proc.step # 7
  BY <1>1 DEF LinksOK
<1>6. UnderWay(StepCompletes(v))
  BY <1>1, <1>4, <1>5, StepCompletesIs
<1> QED
  BY <1>6 DEF v

---------------------------------------------------------------------------
(* Answers of other modules.                                               *)

LEMMA LeConfirmedIs ==
  ASSUME NEW w \in Worlds, LinksOK(w), UnderWay(w), w.proc.le # "none"
  PROVE  UnderWay(LeConfirmed(w))
<1> DEFINE p == [w.proc EXCEPT !.le = "none"]
           v == [w EXCEPT !.proc = p]
<1>1. /\ p \in Procs /\ p.step = w.proc.step /\ p.le = "none"
      /\ p.disconnect = w.proc.disconnect /\ w.proc.le \in {"none", "goal", "script"}
  BY DEF Worlds, Procs
<1>2. LeConfirmed(w) = IF w.proc.le = "goal" THEN GoalProcComplete(v, "allow_le_connection")
                                             ELSE StepCompletes(v)
  BY DEF LeConfirmed
<1> HIDE DEF p
<1>3. CASE w.proc.le = "goal"
  <2>1. Calm(v, w) /\ v \in Worlds
    BY <1>1, <1>3, ProcSetIsCalm
  <2> HIDE DEF v
  <2> DEFINE r == GoalProcComplete(v, "allow_le_connection")
  <2>2. "allow_le_connection" # SystemStop
    BY DEF SystemStop
  <2>3. Calm(r, v) /\ r \in Worlds
    BY <2>1, <2>2, CompletedIsCalm
  <2> HIDE DEF r
  <2>4. UnderWay(r)
    BY <2>1, <2>3, CalmIsUnderWay
  <2> QED
    BY <1>2, <1>3, <2>4 DEF r
<1>4. CASE w.proc.le = "script"
  <2>1. w.proc.step = 4 /\ w.proc.disconnect # "script"
    BY <1>4 DEF UnderWay, Scripted, StepIsAnswered
  <2>2. UnderWay(StepCompletes(v))
    BY <1>1, <2>1, AnsweredIsReady
  <2> HIDE DEF v
  <2> QED
    BY <1>2, <1>4, <2>2
<1> QED
  BY <1>1, <1>3, <1>4

LEMMA DisconnectConfirmedIs ==
  ASSUME NEW w \in Worlds, LinksOK(w), UnderWay(w), NEW goal, goal # SystemStop
  PROVE  UnderWay(DisconnectConfirmed(w, goal))
<1> DEFINE p == [w.proc EXCEPT !.disconnect = "none"]
           v == [w EXCEPT !.proc = p]
<1>1. /\ p \in Procs /\ p.step = w.proc.step /\ p.disconnect = "none"
      /\ p.le = w.proc.le /\ w.proc.disconnect \in {"none", "goal", "script"}
  BY DEF Worlds, Procs
<1>2. /\ w.proc.disconnect = "none" => DisconnectConfirmed(w, goal) = w
      /\ w.proc.disconnect = "goal" => DisconnectConfirmed(w, goal) = GoalProcComplete(v, goal)
      /\ w.proc.disconnect = "script" => DisconnectConfirmed(w, goal) = StepCompletes(v)
  BY DEF DisconnectConfirmed
<1> HIDE DEF p
<1>3. CASE w.proc.disconnect = "goal"
  <2>1. Calm(v, w) /\ v \in Worlds
    BY <1>1, <1>3, ProcSetIsCalm
  <2> HIDE DEF v
  <2> DEFINE r == GoalProcComplete(v, goal)
  <2>2. Calm(r, v) /\ r \in Worlds
    BY <2>1, CompletedIsCalm
  <2> HIDE DEF r
  <2>3. UnderWay(r)
    BY <2>1, <2>2, CalmIsUnderWay
  <2> QED
    BY <1>2, <1>3, <2>3 DEF r
<1>4. CASE w.proc.disconnect = "script"
  <2>1. w.proc.step = 5 /\ w.proc.le # "script"
    BY <1>4 DEF UnderWay, Scripted, StepIsAnswered
  <2>2. UnderWay(StepCompletes(v))
    BY <1>1, <2>1, AnsweredIsReady
  <2> HIDE DEF v
  <2> QED
    BY <1>2, <1>4, <2>2
<1>5. CASE w.proc.disconnect = "none"
  <2> HIDE DEF v
  <2> QED
    BY <1>2, <1>5
<1> QED
  BY <1>1, <1>3, <1>4, <1>5

\* The LE task has no more links while the script waits for that.
LEMMA LeDisconnectedIs ==
  ASSUME NEW w \in Worlds, LinksOK(w), UnderWay(w), w.proc.step > 0,
         Script[w.proc.step] = "disconnect_le"
  PROVE  UnderWay(StepCompletes(w))
<1>1. w.proc.step = 6
  <2>1. w.proc.step \in {1, 2, 3, 4, 5, 6, 7}
    BY DEF Worlds, Procs
  <2> QED
    BY <2>1, ScriptIs
<1>2. w.proc.le # "script" /\ w.proc.disconnect # "script" /\ w.proc \in Procs
  BY <1>1 DEF UnderWay, Scripted, StepIsAnswered, Worlds
<1>3. w = [w EXCEPT !.proc = w.proc]
  BY DEF Worlds
<1>4. UnderWay(StepCompletes([w EXCEPT !.proc = w.proc]))
  BY <1>1, <1>2, AnsweredIsReady
<1> QED
  BY <1>3, <1>4

\* Connecting has an end.
LEMMA ConnectIsCalm ==
  ASSUME NEW w \in Worlds, NEW success \in BOOLEAN, NEW links \in 0 .. 1,
         w.env.links + links <= MaxLinks
  PROVE  Calm(ConnectCfm(w, success, links), w) /\ ConnectCfm(w, success, links) \in Worlds
<1> DEFINE k == w.env.links
           e == [w.env EXCEPT !.links = k + links]
           up == [w EXCEPT !.env = e]
           done == [up.proc EXCEPT !.connect = "idle"]
           next == [up.proc EXCEPT !.connect = IF success THEN "cancelled" ELSE "idle"]
<1>1. w.env \in Envs
  BY DEF Worlds
<1>2. e \in Envs
  <2>1. k \in Nat /\ k \in 0 .. MaxLinks
    BY <1>1, LinksAssumption DEF Envs
  <2>2. k + links \in 0 .. MaxLinks
    BY <2>1, LinksAssumption
  <2> HIDE DEF k
  <2> QED
    BY <1>1, <2>2 DEF Envs
<1>3. ConnectCfm(w, success, links)
        = IF w.proc.connect = "running"
          THEN GoalProcComplete([up EXCEPT !.proc = done], "connect_handset")
          ELSE G!ClearGoal([up EXCEPT !.proc = next], "connect_handset")
  BY DEF ConnectCfm
<1> HIDE DEF e
<1>4. Calm(up, w) /\ up \in Worlds
  BY <1>2, EnvSetIsCalm
<1> HIDE DEF up
<1>5. /\ done \in Procs /\ done.step = up.proc.step /\ done.le = up.proc.le
      /\ done.disconnect = up.proc.disconnect
      /\ next \in Procs /\ next.step = up.proc.step /\ next.le = up.proc.le
      /\ next.disconnect = up.proc.disconnect
  BY <1>4 DEF Worlds, Procs
<1> HIDE DEF done, next
<1> DEFINE a == [up EXCEPT !.proc = done]
           b == [up EXCEPT !.proc = next]
<1>6. Calm(a, up) /\ a \in Worlds /\ Calm(b, up) /\ b \in Worlds
  BY <1>4, <1>5, ProcSetIsCalm
<1> HIDE DEF a, b
<1>7. Calm(a, w) /\ Calm(b, w)
  BY <1>4, <1>6, CalmAgain
<1> DEFINE x == GoalProcComplete(a, "connect_handset")
           y == G!ClearGoal(b, "connect_handset")
<1>8. "connect_handset" # SystemStop
  BY DEF SystemStop
<1>9. Calm(x, a) /\ x \in Worlds /\ Calm(y, b) /\ y \in Worlds
  BY <1>6, <1>8, CompletedIsCalm, ClearIsCalm
<1>10. ConnectCfm(w, success, links) = IF w.proc.connect = "running" THEN x ELSE y
  BY <1>3 DEF a, b
<1> HIDE DEF x, y
<1>11. Calm(x, w) /\ Calm(y, w)
  BY <1>6, <1>7, <1>9, CalmAgain
<1> QED
  BY <1>9, <1>10, <1>11

LEMMA ConnectStopIsCalm ==
  ASSUME NEW w \in Worlds
  PROVE  Calm(ConnectStopCfm(w), w) /\ ConnectStopCfm(w) \in Worlds
<1> DEFINE p == [w.proc EXCEPT !.connect = "idle"]
           v == [w EXCEPT !.proc = p]
           r == G!ClearGoal(v, "connect_handset")
<1>1. p \in Procs /\ p.step = w.proc.step /\ p.le = w.proc.le /\ p.disconnect = w.proc.disconnect
  BY DEF Worlds, Procs
<1>2. ConnectStopCfm(w) = r
  BY DEF ConnectStopCfm
<1> HIDE DEF p
<1>3. Calm(v, w) /\ v \in Worlds
  BY <1>1, ProcSetIsCalm
<1> HIDE DEF v
<1>4. "connect_handset" # SystemStop
  BY DEF SystemStop
<1>5. Calm(r, v) /\ r \in Worlds
  BY <1>3, <1>4, ClearIsCalm
<1> HIDE DEF r
<1> QED
  BY <1>2, <1>3, <1>5, CalmAgain

\* Handsets come and go.
LEMMA HandsetComesCalmly ==
  ASSUME NEW w \in Worlds, w.env.links < MaxLinks
  PROVE  LET r == [w EXCEPT !.env.links = @ + 1, !.env.paired = TRUE]
         IN  Calm(r, w) /\ r \in Worlds
<1> DEFINE k == w.env.links
           e == [w.env EXCEPT !.links = k + 1, !.paired = TRUE]
           r == [w EXCEPT !.env.links = @ + 1, !.env.paired = TRUE]
<1>1. w.env \in Envs
  BY DEF Worlds
<1>2. k \in Nat /\ k < MaxLinks
  BY <1>1, LinksAssumption DEF Envs
<1>3. e \in Envs
  <2>1. k + 1 \in 0 .. MaxLinks
    <3> HIDE DEF k
    <3> QED
      BY <1>2, LinksAssumption
  <2> HIDE DEF k
  <2> QED
    BY <1>1, <2>1 DEF Envs
<1>4. r = [w EXCEPT !.env = e]
  BY <1>1 DEF Worlds, Envs
<1> HIDE DEF e, r
<1>5. Calm(r, w) /\ r \in Worlds
  BY <1>3, <1>4, EnvSetIsCalm
<1> QED
  BY <1>5 DEF r

LEMMA LinkDownIsCalm ==
  ASSUME NEW w \in Worlds, w.env.links > 0, NEW lru \in BOOLEAN
  PROVE  Calm(LinkDown(w, lru), w) /\ LinkDown(w, lru) \in Worlds
<1> DEFINE k == w.env.links
           last == w.env.all /\ k - 1 = 0
           one == w.env.one /\ ~lru
           e == [w.env EXCEPT !.links = k - 1, !.one = one]
           told == Plain("DISCONNECT_CFM")
           all == Plain("ALL_CFM")
           ended == [w EXCEPT !.env = e]
           v == IF w.env.one /\ lru THEN Post(ended, told) ELSE ended
           e2 == [v.env EXCEPT !.all = FALSE]
           u == [v EXCEPT !.env = e2]
<1>1. w.env \in Envs
  BY DEF Worlds
<1>2. k \in Nat /\ k \in 0 .. MaxLinks /\ k > 0
  BY <1>1, LinksAssumption DEF Envs
<1>3. e \in Envs
  <2>1. one \in BOOLEAN
    BY <1>1 DEF Envs
  <2>2. k - 1 \in 0 .. MaxLinks
    <3> HIDE DEF k
    <3> QED
      BY <1>2, LinksAssumption
  <2> HIDE DEF one, k
  <2> QED
    BY <1>1, <2>1, <2>2 DEF Envs
<1>4. LinkDown(w, lru) = IF last THEN Post(u, all) ELSE v
  <2>1. ended = [w EXCEPT !.env.links = k - 1, !.env.one = one]
    BY <1>1 DEF Worlds, Envs
  <2>2. ended.env.links = k - 1
    BY <1>1 DEF Worlds, Envs
  <2>3. u = [v EXCEPT !.env.all = FALSE]
    OBVIOUS
  <2>4. LinkDown(w, lru) = IF w.env.all /\ ended.env.links = 0
                           THEN Post([v EXCEPT !.env.all = FALSE], all) ELSE v
    <3> HIDE DEF ended
    <3> QED
      BY <2>1 DEF LinkDown, told, all
  <2> HIDE DEF ended, u, v
  <2> QED
    BY <2>2, <2>3, <2>4
<1>5. /\ told \in Messages /\ told \notin Marks /\ all \in Messages /\ all \notin Marks
  BY OthersAre
<1> HIDE DEF e, told, all, last
<1>6. Calm(ended, w) /\ ended \in Worlds
  BY <1>3, EnvSetIsCalm
<1> HIDE DEF ended
<1>7. Calm(v, w) /\ v \in Worlds
  <2>1. Calm(Post(ended, told), ended) /\ Post(ended, told) \in Worlds
    BY <1>5, <1>6, PostIsCalm, PostIs
  <2>2. Calm(Post(ended, told), w)
    BY <1>6, <2>1, CalmAgain
  <2> QED
    BY <1>6, <2>1, <2>2
<1> HIDE DEF v
<1>8. e2 \in Envs
  BY <1>7 DEF Worlds, Envs
<1> HIDE DEF e2
<1>9. Calm(u, v) /\ u \in Worlds
  BY <1>7, <1>8, EnvSetIsCalm
<1> HIDE DEF u
<1>10. Calm(Post(u, all), u) /\ Post(u, all) \in Worlds
  BY <1>5, <1>9, PostIsCalm, PostIs
<1>11. Calm(Post(u, all), w)
  BY <1>7, <1>9, <1>10, CalmAgain
<1> QED
  BY <1>4, <1>7, <1>10, <1>11

---------------------------------------------------------------------------
(* Delivery.                                                               *)

\* A message is taken out behind those that are held back: if it is one of the
\* stop it is the first of them.
LEMMA TakenMarks ==
  ASSUME NEW w \in Worlds, NEW i \in DOMAIN w.mail, \A n \in 1 .. i - 1 : w.mail[n] \notin Marks
  PROVE  LET m == w.mail[i]
             r == [w EXCEPT !.mail = RemoveAt(w.mail, i)]
         IN  /\ m \notin Marks => Marked(r) = Marked(w)
             /\ m \in Marks =>
                  /\ Len(Marked(w)) = Len(Marked(r)) + 1 /\ Marked(w)[1] = m
                  /\ \A n \in 1 .. Len(Marked(r)) : Marked(r)[n] = Marked(w)[n + 1]
             /\ m # Queued /\ G!Waiting(w, SystemStop) => G!Waiting(r, SystemStop)
<1> DEFINE s == w.mail
           q == RemoveAt(s, i)
           r == [w EXCEPT !.mail = q]
<1>1. s \in Seq(Messages) /\ Len(s) \in Nat /\ DOMAIN s = 1 .. Len(s) /\ i \in 1 .. Len(s)
  BY MarkedIs
<1>2. q = SubSeq(s, 1, i - 1) \o SubSeq(s, i + 1, Len(s))
  BY DEF RemoveAt
<1>3. r.mail = q
  BY DEF Worlds
<1>4. \A n \in 1 .. i - 1 : s[n] \notin Marks
  OBVIOUS
<1>5. Marked(r) = Keep(q, Marks) /\ Marked(w) = Keep(s, Marks)
  BY <1>3 DEF Marked
<1>6. (G!Waiting(r, SystemStop) <=> \E n \in DOMAIN q : q[n] = Queued)
      /\ (G!Waiting(w, SystemStop) <=> \E n \in DOMAIN s : s[n] = Queued)
  BY <1>3 DEF G!Waiting, Queued
<1> HIDE DEF q, s, r
<1>7. ASSUME s[i] \notin Marks PROVE Keep(q, Marks) = Keep(s, Marks)
  <2>1. LET rest == SubSeq(s, 1, i - 1) \o SubSeq(s, i + 1, Len(s))
        IN  /\ Len(Keep(rest, Marks)) = Len(Keep(s, Marks)) - (IF s[i] \in Marks THEN 1 ELSE 0)
            /\ s[i] \notin Marks => Keep(rest, Marks) = Keep(s, Marks)
    BY <1>1, KeepTakenOut
  <2> QED
    BY <1>2, <1>7, <2>1
<1>8. ASSUME s[i] \in Marks
      PROVE  /\ Len(Keep(s, Marks)) = Len(Keep(q, Marks)) + 1 /\ Keep(s, Marks)[1] = s[i]
             /\ \A n \in 1 .. Len(Keep(q, Marks)) : Keep(q, Marks)[n] = Keep(s, Marks)[n + 1]
  <2>1. LET rest == SubSeq(s, 1, i - 1) \o SubSeq(s, i + 1, Len(s))
        IN  /\ Len(Keep(s, Marks)) = Len(Keep(rest, Marks)) + 1
            /\ Keep(s, Marks)[1] = s[i]
            /\ \A n \in 1 .. Len(Keep(rest, Marks)) :
                 Keep(rest, Marks)[n] = Keep(s, Marks)[n + 1]
    BY <1>1, <1>4, <1>8, KeepFirstTaken
  <2> QED
    BY <1>2, <2>1
<1>9. ASSUME s[i] # Queued, NEW j \in DOMAIN s, s[j] = Queued
      PROVE  \E n \in DOMAIN q : q[n] = Queued
  <2>1. LET rest == SubSeq(s, 1, i - 1) \o SubSeq(s, i + 1, Len(s))
        IN  /\ rest \in Seq(Messages) /\ Len(rest) = Len(s) - 1
            /\ \A n \in 1 .. Len(s) - 1 : rest[n] = IF n < i THEN s[n] ELSE s[n + 1]
    BY <1>1, TakenOut
  <2>2. /\ q \in Seq(Messages) /\ Len(q) = Len(s) - 1
        /\ \A n \in 1 .. Len(s) - 1 : q[n] = IF n < i THEN s[n] ELSE s[n + 1]
    BY <1>2, <2>1
  <2>3. DOMAIN q = 1 .. Len(s) - 1
    BY <2>2, LenProperties
  <2> DEFINE l == Len(s)
  <2>4. l \in Nat /\ j \in 1 .. l /\ i \in 1 .. l /\ j # i
    BY <1>1, <1>9
  <2>5. CASE j < i
    <3>1. j \in 1 .. l - 1
      <4> HIDE DEF l
      <4> QED
        BY <2>4, <2>5
    <3> QED
      BY <1>9, <2>2, <2>3, <2>5, <3>1
  <2>6. CASE ~(j < i)
    <3>1. j - 1 \in 1 .. l - 1 /\ ~(j - 1 < i) /\ (j - 1) + 1 = j
      <4> HIDE DEF l
      <4> QED
        BY <2>4, <2>6
    <3>2. q[j - 1] = s[(j - 1) + 1]
      BY <2>2, <3>1
    <3> QED
      BY <1>9, <2>3, <3>1, <3>2
  <2> QED
    BY <2>5, <2>6
<1>10. /\ s[i] \notin Marks => Marked(r) = Marked(w)
       /\ s[i] \in Marks =>
            /\ Len(Marked(w)) = Len(Marked(r)) + 1 /\ Marked(w)[1] = s[i]
            /\ \A n \in 1 .. Len(Marked(r)) : Marked(r)[n] = Marked(w)[n + 1]
       /\ s[i] # Queued /\ G!Waiting(w, SystemStop) => G!Waiting(r, SystemStop)
  BY <1>5, <1>6, <1>7, <1>8, <1>9
<1> QED
  BY <1>10 DEF r, q, s

\* The world without the message that is delivered
LEMMA RestIs ==
  ASSUME IInv, CanDeliver
  PROVE  /\ Base(Rest) /\ Rest \in Worlds /\ LinksOK(Rest)
         /\ Rest.topo = World.topo /\ Rest.timer = World.timer /\ Rest.rules = World.rules
         /\ Rest.proc = World.proc /\ Rest.active = World.active
         /\ Message \notin Marks => Marked(Rest) = Marked(World)
         /\ Message \in Marks =>
              /\ Len(Marked(World)) = Len(Marked(Rest)) + 1 /\ Marked(World)[1] = Message
              /\ \A n \in 1 .. Len(Marked(Rest)) : Marked(Rest)[n] = Marked(World)[n + 1]
         /\ Message # Queued /\ G!Waiting(World, SystemStop) => G!Waiting(Rest, SystemStop)
<1>1. Base(Rest) /\ Rest \in Worlds /\ LinksOK(Rest)
  BY DeliveryIs DEF Keeps, Base
<1>2. /\ Rest.topo = World.topo /\ Rest.timer = World.timer /\ Rest.rules = World.rules
      /\ Rest.proc = World.proc /\ Rest.active = World.active
  BY DEF Rest, World
<1>3. First \in Deliverable /\ \A k \in Deliverable : First <= k
  <2> DEFINE D == Deliverable
  <2>1. D \subseteq Nat /\ D # {}
    BY WorldIs DEF Deliverable, CanDeliver
  <2> HIDE DEF D
  <2>2. LET n == CHOOSE k \in D : \A j \in D : k <= j
        IN  n \in D /\ \A j \in D : n <= j
    BY <2>1, LeastIs
  <2> QED
    BY <2>2 DEF D, First
<1> DEFINE i == First
<1>4. i \in DOMAIN mail /\ i \in 1 .. Len(mail) /\ Len(mail) \in Nat
  BY <1>3, WorldIs DEF Deliverable
<1>5. ASSUME NEW n \in 1 .. i - 1 PROVE mail[n] \notin Marks
  <2> HIDE DEF i
  <2>1. n \in 1 .. Len(mail) /\ ~(i <= n)
    BY <1>4
  <2>2. n \in DOMAIN mail /\ n \notin Deliverable
    BY <1>3, <2>1, WorldIs DEF i
  <2>3. G!Locked(World, mail[n]) /\ mail[n] \in Messages
    BY <2>2, WorldIs DEF Deliverable
  <2> QED
    BY <2>3, QueuedAre, MarksAre DEF G!Locked
<1>6. Message = World.mail[i] /\ Rest = [World EXCEPT !.mail = RemoveAt(World.mail, i)]
  <2>1. World.mail = mail
    BY DEF World
  <2> QED
    BY <2>1 DEF Message, Rest
<1> HIDE DEF i
<1> DEFINE w == World
<1>7. w \in Worlds /\ i \in DOMAIN w.mail /\ \A n \in 1 .. i - 1 : w.mail[n] \notin Marks
  BY <1>4, <1>5, WorldIs
<1>8. Message = w.mail[i] /\ Rest = [w EXCEPT !.mail = RemoveAt(w.mail, i)]
  BY <1>6
<1> HIDE DEF w
<1>9. LET m == w.mail[i]
          r == [w EXCEPT !.mail = RemoveAt(w.mail, i)]
      IN  /\ m \notin Marks => Marked(r) = Marked(w)
          /\ m \in Marks =>
               /\ Len(Marked(w)) = Len(Marked(r)) + 1 /\ Marked(w)[1] = m
               /\ \A n \in 1 .. Len(Marked(r)) : Marked(r)[n] = Marked(w)[n + 1]
          /\ m # Queued /\ G!Waiting(w, SystemStop) => G!Waiting(r, SystemStop)
  BY <1>7, TakenMarks
<1> QED
  BY <1>1, <1>2, <1>8, <1>9 DEF w

\* The first message of the stop is taken.
Shifted(r, w, m) ==
  /\ r.topo = w.topo /\ r.timer = w.timer /\ r.rules = w.rules
  /\ r.proc = w.proc /\ r.active = w.active
  /\ Len(Marked(w)) = Len(Marked(r)) + 1 /\ Marked(w)[1] = m
  /\ \A n \in 1 .. Len(Marked(r)) : Marked(r)[n] = Marked(w)[n + 1]

LEMMA ShiftHas ==
  ASSUME NEW w \in Worlds, NEW r \in Worlds, NEW m, Shifted(r, w, m)
  PROVE  /\ Has(w, m)
         /\ \A k : Has(r, k) => \E i \in 2 .. Len(Marked(w)) : Marked(w)[i] = k
         /\ \A k : Has(r, k) => Has(w, k)
         /\ \A k : Has(w, k) => k = m \/ Has(r, k)
<1> DEFINE a == Len(Marked(w))
           b == Len(Marked(r))
<1>1. a \in Nat /\ b \in Nat /\ a = b + 1
  BY MarkedIs DEF Shifted
<1>2. Has(w, m)
  <2>1. 1 \in 1 .. a
    <3> HIDE DEF a, b
    <3> QED
      BY <1>1
  <2> QED
    BY <2>1 DEF Has, Shifted
<1>3. ASSUME NEW k, Has(r, k) PROVE \E i \in 2 .. a : i \in 1 .. a /\ Marked(w)[i] = k
  <2>1. PICK n \in 1 .. b : Marked(r)[n] = k
    BY <1>3 DEF Has
  <2>2. n + 1 \in 2 .. a /\ n + 1 \in 1 .. a
    <3> HIDE DEF a, b
    <3> QED
      BY <1>1
  <2>3. Marked(w)[n + 1] = k
    BY <2>1 DEF Shifted
  <2> QED
    BY <2>2, <2>3
<1>4. ASSUME NEW k, Has(w, k) PROVE k = m \/ Has(r, k)
  <2>1. PICK n \in 1 .. a : Marked(w)[n] = k
    BY <1>4 DEF Has
  <2>2. n = 1 \/ (n - 1 \in 1 .. b /\ (n - 1) + 1 = n)
    <3> HIDE DEF a, b
    <3> QED
      BY <1>1
  <2>3. n - 1 \in 1 .. b => Marked(r)[n - 1] = Marked(w)[(n - 1) + 1]
    BY DEF Shifted
  <2>4. CASE n = 1
    BY <2>1, <2>4 DEF Shifted
  <2>5. CASE n # 1
    <3>1. n - 1 \in 1 .. b /\ Marked(r)[n - 1] = k
      BY <2>1, <2>2, <2>3, <2>5
    <3> QED
      BY <3>1 DEF Has
  <2> QED
    BY <2>4, <2>5
<1>5. \A k : Has(r, k) => Has(w, k)
  BY <1>3 DEF Has
<1> QED
  BY <1>2, <1>3, <1>4, <1>5

\* It is the message of the step.
LEMMA ShiftReady ==
  ASSUME NEW w \in Worlds, NEW r \in Worlds, Shifted(r, w, StepMsg), UnderWay(w)
  PROVE  /\ Ready(r) /\ RuleDecides(r) /\ r.proc.step # 0
         /\ r.proc.step = 7 /\ Stopping(r) => Has(r, Decided)
<1> DEFINE a == Len(Marked(w))
<1>1. Has(w, StepMsg) /\ a \in Nat
  BY ShiftHas, MarkedIs
<1>2. w.proc.step \in {1, 2, 3, 7} /\ SystemStop \in w.active
  BY <1>1 DEF UnderWay, Scripted, StepIsAnswered, ScriptRuns
<1>3. \A i, j \in 1 .. a : Marked(w)[i] = StepMsg /\ Marked(w)[j] = StepMsg => i = j
  BY DEF UnderWay, Scripted, StepIsAnswered
<1>4. Marked(w)[1] = StepMsg /\ 1 \in 1 .. a
  BY <1>1 DEF Shifted, Has
<1>5. \A i \in 2 .. a : Marked(w)[i] # StepMsg
  <2> HIDE DEF a
  <2>1. \A i \in 2 .. a : i \in 1 .. a /\ i # 1
    BY <1>1
  <2> QED
    BY <1>3, <1>4, <2>1
<1>6. ~Has(r, StepMsg)
  BY <1>5, ShiftHas
<1>7. Has(w, Decided) => Has(r, Decided)
  BY ShiftHas, MarksAre
<1>8. Unscripted(r)
  BY <1>2 DEF UnderWay, Scripted, StepIsAnswered, Unscripted, Shifted
<1>9. Asked(r) /\ RuleListens(r) /\ RuleDecides(r)
  BY <1>7 DEF UnderWay, Scripted, Asked, RuleListens, RuleDecides, Shifted, Stopping
<1>10. w.proc.step = 7 /\ Stopping(w) => Has(w, Decided)
  BY <1>5 DEF UnderWay, Scripted, ToldFirst
<1>11. r.proc.step = 7 /\ Stopping(r) => Has(r, Decided)
  BY <1>7, <1>10 DEF Shifted, Stopping
<1> QED
  BY <1>2, <1>6, <1>8, <1>9, <1>11 DEF Ready, Shifted

\* It is another one: the script goes on as it did, but that the topology may
\* just be told.
LEMMA ShiftKeeps ==
  ASSUME NEW w \in Worlds, NEW r \in Worlds, NEW m, m # StepMsg, Shifted(r, w, m), Scripted(w)
  PROVE  /\ ScriptRuns(r) /\ StepIsAnswered(r) /\ Asked(r) /\ RuleListens(r)
         /\ ToldFirst(r) \/ (m = Finished /\ Marked(r)[1] = StepMsg)
<1> DEFINE a == Len(Marked(w))
           b == Len(Marked(r))
<1>1. a \in Nat /\ b \in Nat /\ a = b + 1
  BY MarkedIs DEF Shifted
<1>2. ScriptRuns(r) /\ Asked(r) /\ RuleListens(r)
  BY DEF Scripted, ScriptRuns, Asked, RuleListens, Shifted, Stopping
<1>3. Has(r, StepMsg) <=> Has(w, StepMsg)
  BY ShiftHas
<1>4. ASSUME NEW i \in 1 .. b, NEW j \in 1 .. b, Marked(r)[i] = StepMsg, Marked(r)[j] = StepMsg
      PROVE  i = j
  <2>1. i + 1 \in 1 .. a /\ j + 1 \in 1 .. a
    <3> HIDE DEF a, b
    <3> QED
      BY <1>1
  <2>2. Marked(w)[i + 1] = StepMsg /\ Marked(w)[j + 1] = StepMsg
    BY <1>4 DEF Shifted
  <2>3. i + 1 = j + 1
    BY <2>1, <2>2 DEF Scripted, StepIsAnswered
  <2> HIDE DEF a, b
  <2> QED
    BY <1>1, <2>3
<1>5. StepIsAnswered(r)
  BY <1>3, <1>4 DEF Scripted, StepIsAnswered, Shifted
<1>6. ToldFirst(r) \/ (m = Finished /\ Marked(r)[1] = StepMsg)
  <2> SUFFICES ASSUME r.proc.step = 7
               PROVE  \/ \E k \in 2 .. b : Marked(r)[k] = StepMsg /\ Marked(r)[k - 1] = Finished
                      \/ m = Finished /\ Marked(r)[1] = StepMsg
    BY DEF ToldFirst
  <2>1. \E k \in 2 .. a : Marked(w)[k] = StepMsg /\ Marked(w)[k - 1] = Finished
    BY DEF Scripted, ToldFirst, Shifted
  <2>2. PICK k \in 2 .. a : Marked(w)[k] = StepMsg /\ Marked(w)[k - 1] = Finished
    BY <2>1
  <2>3. CASE k = 2
    <3>1. 1 \in 1 .. b
      <4> HIDE DEF a, b
      <4> QED
        BY <1>1
    <3>2. Marked(r)[1] = Marked(w)[1 + 1] /\ Marked(w)[1] = m
      BY <3>1 DEF Shifted
    <3> QED
      BY <2>2, <2>3, <3>2
  <2>4. CASE k # 2
    <3>1. /\ k - 1 \in 2 .. b /\ k - 1 \in 1 .. b /\ (k - 1) - 1 \in 1 .. b
          /\ (k - 1) + 1 = k /\ ((k - 1) - 1) + 1 = k - 1
      <4> HIDE DEF a, b
      <4> QED
        BY <1>1, <2>4
    <3>2. /\ Marked(r)[k - 1] = Marked(w)[(k - 1) + 1]
          /\ Marked(r)[(k - 1) - 1] = Marked(w)[((k - 1) - 1) + 1]
      BY <3>1 DEF Shifted
    <3>3. Marked(r)[k - 1] = StepMsg /\ Marked(r)[(k - 1) - 1] = Finished
      BY <2>2, <3>1, <3>2
    <3> QED
      BY <3>1, <3>3
  <2> QED
    BY <2>3, <2>4
<1> QED
  BY <1>2, <1>5, <1>6

\* The topology is told that it has stopped.
LEMMA ToldIs ==
  ASSUME NEW w \in Worlds, NEW r \in Worlds, Shifted(r, w, Finished), UnderWay(w)
  PROVE  UnderWay(HandleStopCompletion(r))
<1> DEFINE x == HandleStopCompletion(r)
<1>1. /\ ~Stopping(x) /\ x.rules = r.rules /\ x.proc = r.proc /\ x.active = r.active
      /\ x.mail = r.mail
  <2>1. CASE InState(r, "STOPPING")
    <3> DEFINE y == EnterStopped(SendStopCfm(r))
    <3>1. /\ y.topo.state = "STOPPED" /\ y.rules = r.rules /\ y.proc = r.proc
          /\ y.active = r.active /\ y.mail = r.mail
      BY DEF EnterStopped, SendStopCfm, Worlds, Topos
    <3> HIDE DEF y
    <3>2. x = y
      BY <2>1 DEF HandleStopCompletion, y
    <3> QED
      BY <3>1, <3>2 DEF Stopping
  <2>2. CASE ~InState(r, "STOPPING")
    BY <2>2 DEF HandleStopCompletion, InState, Stopping
  <2> QED
    BY <2>1, <2>2
<1> HIDE DEF x
<1>2. Marked(x) = Marked(r) /\ \A m : Has(x, m) <=> Has(r, m)
  BY <1>1 DEF Marked, Has
<1>3. /\ ScriptRuns(r) /\ StepIsAnswered(r) /\ RuleListens(r)
      /\ ToldFirst(r) \/ Marked(r)[1] = StepMsg
  BY ShiftKeeps, MarksAre DEF UnderWay
<1>4. ScriptRuns(x) /\ StepIsAnswered(x) /\ RuleListens(x) /\ Asked(x)
  BY <1>1, <1>2, <1>3 DEF ScriptRuns, StepIsAnswered, RuleListens, Asked
<1>5. ToldFirst(x)
  BY <1>1, <1>2, <1>3 DEF ToldFirst
<1>6. RuleDecides(x)
  <2>1. Has(w, Decided) => Has(r, Decided)
    BY ShiftHas, MarksAre
  <2> QED
    BY <1>1, <1>2, <2>1 DEF UnderWay, RuleDecides, Shifted
<1> QED
  BY <1>1, <1>4, <1>5, <1>6 DEF UnderWay, Scripted, x

\* What the kind of a message tells
LEMMA KindIs ==
  ASSUME NEW m \in Messages
  PROVE  /\ m.kind = "decision" /\ m.goal = SystemStop => m = Decided
         /\ m.kind = "queued" /\ m.goal = SystemStop => m = Queued
         /\ m.kind = "step" => m = StepMsg
         /\ m.kind = "STOP_FINISHED" => m = Finished
         /\ m.kind \in {"decision", "queued"} => m.goal \in GoalIds
         /\ m.kind \in {"complete", "cancelled"} => m.goal \in GoalIds \ {SystemStop}
         /\ m.kind \notin {"step", "STOP_FINISHED"}
              /\ (m.kind \in {"decision", "queued"} => m.goal # SystemStop)
            => m \notin Marks /\ m # Queued
<1>1. /\ StepMsg.kind = "step" /\ Finished.kind = "STOP_FINISHED"
      /\ Decided.kind = "decision" /\ Decided.goal = SystemStop
      /\ Queued.kind = "queued" /\ Queued.goal = SystemStop
  BY DEF StepMsg, Finished, Decided, Queued, Plain, R!Decision, G!QueuedMessage
<1>2. CASE m \in Decisions
  <2>1. m = [kind |-> m.kind, goal |-> m.goal] /\ m.kind \in {"decision", "queued"}
        /\ m.goal \in GoalIds
    BY <1>2 DEF Decisions
  <2>2. /\ m.kind = "decision" /\ m.goal = SystemStop => m = Decided
        /\ m.kind = "queued" /\ m.goal = SystemStop => m = Queued
    BY <2>1 DEF Decided, Queued, R!Decision, G!QueuedMessage
  <2>3. m.goal # SystemStop => m \notin Marks /\ m # Queued
    BY <1>1, <2>1 DEF Marks
  <2> QED
    BY <2>1, <2>2, <2>3
<1>3. CASE m \in Delayed
  <2>1. m.kind \in {"complete", "cancelled"} /\ m.goal \in GoalIds \ {SystemStop}
    BY <1>3 DEF Delayed, SystemStop
  <2>2. m \notin Marks /\ m # Queued
    BY <1>1, <2>1 DEF Marks
  <2> QED
    BY <2>1, <2>2
<1>4. CASE m \in Plains
  <2>1. m = [kind |-> m.kind]
        /\ m.kind \in {"step", "ALL_CFM", "DISCONNECT_CFM", "STOP_FINISHED", "LINK_LOSS"}
    BY <1>4 DEF Plains
  <2>2. (m.kind = "step" => m = StepMsg) /\ (m.kind = "STOP_FINISHED" => m = Finished)
    BY <2>1 DEF StepMsg, Finished, Plain
  <2>3. m.kind \notin {"step", "STOP_FINISHED"} => m \notin Marks /\ m # Queued
    BY <1>1, <2>1 DEF Marks
  <2> QED
    BY <2>1, <2>2, <2>3
<1> QED
  BY <1>2, <1>3, <1>4 DEF Messages

\* The stop is under way in the world that a step leads to.
LEMMA Arrives ==
  ASSUME NEW w, Base(w), UnderWay(w), Become(w)
  PROVE  UnderWay(World')
<1>1. World' = w
  BY BecomeIs DEF Base
<1> QED
  BY <1>1

\* Without the message that is delivered
LEMMA RestIsUnderWay ==
  ASSUME IInv, CanDeliver, UnderWay(World)
  PROVE  /\ Base(Rest) /\ Rest \in Worlds /\ LinksOK(Rest)
         /\ Message \notin Marks => Scripted(Rest) /\ RuleDecides(Rest)
         /\ Message \notin Marks /\ Message # Queued => UnderWay(Rest)
         /\ Message \in Marks => Shifted(Rest, World, Message)
<1> DEFINE w == World
           r == Rest
           m == Message
<1>1. /\ Base(r) /\ r \in Worlds /\ LinksOK(r)
      /\ r.topo = w.topo /\ r.timer = w.timer /\ r.rules = w.rules
      /\ r.proc = w.proc /\ r.active = w.active
      /\ m \notin Marks => Marked(r) = Marked(w)
      /\ m \in Marks =>
           /\ Len(Marked(w)) = Len(Marked(r)) + 1 /\ Marked(w)[1] = m
           /\ \A n \in 1 .. Len(Marked(r)) : Marked(r)[n] = Marked(w)[n + 1]
      /\ m # Queued /\ G!Waiting(w, SystemStop) => G!Waiting(r, SystemStop)
  BY RestIs
<1>2. w \in Worlds /\ UnderWay(w)
  BY WorldIs
<1> HIDE DEF w, r, m
<1>3. m \in Marks => Shifted(r, w, m)
  BY <1>1 DEF Shifted
<1>4. ASSUME m \notin Marks
      PROVE  Scripted(r) /\ RuleDecides(r) /\ (m # Queued => UnderWay(r))
  <2>1. SameStop(r, w)
    BY <1>1 DEF SameStop
  <2>2. Grows(Marked(w), Marked(r))
    BY <1>1, <1>2, <1>4, MarkedIs, GrowsAgain
  <2>3. Still(r, w) /\ (m # Queued => Calm(r, w))
    BY <1>1, <1>2, <2>1, <2>2, SameIsCalm
  <2>4. m # Queued => UnderWay(r)
    BY <1>1, <1>2, <2>3, CalmIsUnderWay
  <2> QED
    BY <1>1, <1>2, <2>3, <2>4, CalmKeeps DEF UnderWay
<1> QED
  BY <1>1, <1>3, <1>4 DEF w, r, m

\* The rules have decided, or a goal comes from the queue.
LEMMA DecidedIs ==
  ASSUME IInv, CanDeliver, UnderWay(World), NEW new \in BOOLEAN,
         Message.kind = IF new THEN "decision" ELSE "queued"
  PROVE  UnderWay(HandleGoalDecision(Rest, new, Message.goal))
<1> DEFINE w == World
           r == Rest
           m == Message
           goal == m.goal
           x == HandleGoalDecision(r, new, goal)
<1>1. /\ Base(r) /\ r \in Worlds
      /\ m \notin Marks => Scripted(r) /\ RuleDecides(r)
      /\ m \notin Marks /\ m # Queued => UnderWay(r)
      /\ m \in Marks => Shifted(r, w, m)
  BY RestIsUnderWay
<1>2. m \in Messages /\ w \in Worlds /\ UnderWay(w)
  BY DeliveryIs, WorldIs
<1>3. m.kind = IF new THEN "decision" ELSE "queued"
  OBVIOUS
<1> HIDE DEF w, r, m
<1>4. goal \in GoalIds
  BY <1>2, <1>3, KindIs
<1>5. goal # SystemStop => m \notin Marks /\ m # Queued
  BY <1>2, <1>3, KindIs
<1>6. goal = SystemStop => m = IF new THEN Decided ELSE Queued
  BY <1>2, <1>3, KindIs
<1> HIDE DEF goal
<1>7. CASE goal # SystemStop
  <2>1. UnderWay(r) /\ Scripted(r)
    BY <1>1, <1>5, <1>7 DEF UnderWay
  <2>2. Calm(x, r) /\ x \in Worlds
    BY <1>1, <1>4, <1>7, <2>1, DecisionIs, HandleGoalDecisionKeeps DEF Base
  <2> HIDE DEF x
  <2>3. UnderWay(x)
    BY <1>1, <2>1, <2>2, CalmIsUnderWay
  <2> QED
    BY <2>3 DEF x, r, goal, m
<1>8. CASE goal = SystemStop
  <2>1. Scripted(r)
    <3>1. CASE new
      <4>1. m = Decided /\ m # StepMsg /\ m # Finished /\ m \in Marks
        BY <1>6, <1>8, <3>1, MarksAre DEF Marks
      <4>2. Shifted(r, w, m) /\ Scripted(w)
        BY <1>1, <1>2, <4>1 DEF UnderWay
      <4> QED
        BY <1>1, <1>2, <4>1, <4>2, ShiftKeeps DEF Scripted
    <3>2. CASE ~new
      BY <1>1, <1>6, <1>8, <3>2, MarksAre
    <3> QED
      BY <3>1, <3>2
  <2>2. UnderWay(x)
    BY <1>1, <1>4, <1>8, <2>1, DecisionIs
  <2> HIDE DEF x
  <2> QED
    BY <2>2 DEF x, r, goal, m
<1> QED
  BY <1>7, <1>8

\* One message is handled.
LEMMA DeliverIsUnderWay ==
  ASSUME IInv, UnderWay(World), Deliver
  PROVE  UnderWay(World')
<1>1. CanDeliver
  BY DEF Deliver, GoalDecision, QueuedGoal, DelayedComplete, DelayedCancel, ScriptStepComplete,
         DisconnectAllCfm, DisconnectCfm, StopFinished, LinkLoss, Receives
<1>2. /\ Base(Rest) /\ Rest \in Worlds /\ LinksOK(Rest)
      /\ Message \notin Marks /\ Message # Queued => UnderWay(Rest)
      /\ Message \in Marks => Shifted(Rest, World, Message)
  BY <1>1, RestIsUnderWay
<1>3. Message \in Messages /\ World \in Worlds
  BY <1>1, DeliveryIs, WorldIs
<1>4. ASSUME NEW x, Keeps(x, Rest), UnderWay(x), Become(x) PROVE UnderWay(World')
  BY <1>4, Arrives DEF Keeps
<1>5. ASSUME Message.kind \notin {"decision", "queued", "step", "STOP_FINISHED"}
      PROVE  UnderWay(Rest)
  BY <1>2, <1>3, <1>5, KindIs
<1>6. CASE GoalDecision
  <2> DEFINE x == HandleGoalDecision(Rest, TRUE, Message.goal)
  <2>1. Message.kind = "decision" /\ Become(x)
    BY <1>6 DEF GoalDecision, Receives, Handled
  <2>2. UnderWay(x)
    BY <1>1, <2>1, DecidedIs
  <2>3. Base(x)
    BY <1>2, <1>3, <2>1, KindIs, HandleGoalDecisionKeeps
  <2> HIDE DEF x
  <2> QED
    BY <2>1, <2>2, <2>3, Arrives
<1>7. CASE QueuedGoal
  <2> DEFINE x == HandleGoalDecision(Rest, FALSE, Message.goal)
  <2>1. Message.kind = "queued" /\ Become(x)
    BY <1>7 DEF QueuedGoal, Receives, Handled
  <2>2. UnderWay(x)
    BY <1>1, <2>1, DecidedIs
  <2>3. Base(x)
    BY <1>2, <1>3, <2>1, KindIs, HandleGoalDecisionKeeps
  <2> HIDE DEF x
  <2> QED
    BY <2>1, <2>2, <2>3, Arrives
<1>8. CASE DelayedComplete
  <2> DEFINE g == Message.goal
             x == GoalProcComplete(Rest, g)
  <2>1. Message.kind = "complete" /\ Become(x)
    BY <1>8 DEF DelayedComplete, Receives, Handled
  <2>2. g # SystemStop /\ UnderWay(Rest)
    BY <1>3, <1>5, <2>1, KindIs
  <2> HIDE DEF g
  <2>3. UnderWay(x) /\ Keeps(x, Rest)
    BY <1>2, <2>2, CompletedIsCalm, CalmIsUnderWay, GoalProcCompleteKeeps
  <2> HIDE DEF x
  <2> QED
    BY <1>4, <2>1, <2>3
<1>9. CASE DelayedCancel
  <2> DEFINE g == Message.goal
             x == G!ClearGoal(Rest, g)
  <2>1. Message.kind = "cancelled" /\ Become(x)
    BY <1>9 DEF DelayedCancel, Receives, Handled
  <2>2. g # SystemStop /\ UnderWay(Rest)
    BY <1>3, <1>5, <2>1, KindIs
  <2> HIDE DEF g
  <2>3. UnderWay(x) /\ Keeps(x, Rest)
    BY <1>2, <2>2, ClearIsCalm, CalmIsUnderWay, ClearKeeps
  <2> HIDE DEF x
  <2> QED
    BY <1>4, <2>1, <2>3
<1>10. CASE ScriptStepComplete
  <2> DEFINE x == StepCompletes(Rest)
  <2>1. Message.kind = "step" /\ Become(x)
    BY <1>10 DEF ScriptStepComplete, Receives, Handled
  <2>2. Message = StepMsg /\ StepMsg \in Marks
    BY <1>3, <2>1, KindIs DEF Marks
  <2>3. Shifted(Rest, World, StepMsg)
    BY <1>2, <2>2
  <2>4. UnderWay(x) /\ Keeps(x, Rest)
    BY <1>2, <1>3, <2>3, ShiftReady, StepCompletesIs, StepCompletesKeeps
  <2> HIDE DEF x
  <2> QED
    BY <1>4, <2>1, <2>4
<1>11. CASE DisconnectAllCfm
  <2> DEFINE x == DisconnectConfirmed(Rest, "disconnect_handset")
  <2>1. Message.kind = "ALL_CFM" /\ Become(x)
    BY <1>11 DEF DisconnectAllCfm, Receives, Handled
  <2>2. UnderWay(Rest) /\ "disconnect_handset" # SystemStop
    BY <1>5, <2>1 DEF SystemStop
  <2>3. UnderWay(x) /\ Keeps(x, Rest)
    BY <1>2, <2>2, DisconnectConfirmedIs, DisconnectConfirmedKeeps
  <2> HIDE DEF x
  <2> QED
    BY <1>4, <2>1, <2>3
<1>12. CASE DisconnectCfm
  <2> DEFINE x == DisconnectConfirmed(Rest, "disconnect_lru_handset")
  <2>1. Message.kind = "DISCONNECT_CFM" /\ Become(x)
    BY <1>12 DEF DisconnectCfm, Receives, Handled
  <2>2. UnderWay(Rest) /\ "disconnect_lru_handset" # SystemStop
    BY <1>5, <2>1 DEF SystemStop
  <2>3. UnderWay(x) /\ Keeps(x, Rest)
    BY <1>2, <2>2, DisconnectConfirmedIs, DisconnectConfirmedKeeps
  <2> HIDE DEF x
  <2> QED
    BY <1>4, <2>1, <2>3
<1>13. CASE StopFinished
  <2> DEFINE x == HandleStopCompletion(Rest)
  <2>1. Message.kind = "STOP_FINISHED" /\ Become(x)
    BY <1>13 DEF StopFinished, Receives, Handled
  <2>2. Message = Finished /\ Finished \in Marks
    BY <1>3, <2>1, KindIs DEF Marks
  <2>3. Shifted(Rest, World, Finished)
    BY <1>2, <2>2
  <2>4. UnderWay(x) /\ Keeps(x, Rest)
    BY <1>2, <1>3, <2>3, ToldIs, StoppedKeeps
  <2> HIDE DEF x
  <2> QED
    BY <1>4, <2>1, <2>4
<1>14. CASE LinkLoss
  <2> DEFINE x == R!SetEvent(Rest, "LINKLOSS")
  <2>1. Message.kind = "LINK_LOSS" /\ Become(x)
    BY <1>14 DEF LinkLoss, Receives, Handled
  <2>2. UnderWay(Rest)
    BY <1>5, <2>1
  <2>3. UnderWay(x) /\ Keeps(x, Rest)
    BY <1>2, <2>2, RulesAre, SetEventIsCalm, CalmIsUnderWay, EventsKeep
  <2> HIDE DEF x
  <2> QED
    BY <1>4, <2>1, <2>3
<1> QED
  BY <1>6, <1>7, <1>8, <1>9, <1>10, <1>11, <1>12, <1>13, <1>14 DEF Deliver

---------------------------------------------------------------------------
(* The steps.                                                              *)

\* Steps that come from outside
LEMMA CalmArrives ==
  ASSUME IInv, UnderWay(World), NEW w, Keeps(w, World), Calm(w, World), Become(w)
  PROVE  UnderWay(World')
<1>1. Base(w) /\ w \in Worlds
  BY DEF Keeps, Base
<1>2. UnderWay(w)
  BY <1>1, WorldIs, CalmIsUnderWay
<1> QED
  BY <1>1, <1>2, Arrives

\* A client calls.
LEMMA CallsAreUnderWay ==
  ASSUME IInv, UnderWay(World),
         CallStart \/ CallStop \/ (\E prohibit \in BOOLEAN : CallProhibit(prohibit))
           \/ CallConnectMru \/ CallDisconnectAll \/ CallDisconnectLru \/ ShutdownPrepare
  PROVE  UnderWay(World')
<1>1. Base(World) /\ World \in Worlds
  BY WorldIs
<1>2. CASE CallStart
  <2>1. Become(Start(World))
    BY <1>2 DEF CallStart, Calls
  <2> QED
    BY <1>1, <2>1, StartKeeps, StartIsCalm, CalmArrives
<1>3. CASE CallStop
  <2>1. Become(Stop(World))
    BY <1>3 DEF CallStop, Calls
  <2> QED
    BY <1>1, <2>1, StopKeeps, StopIsUnderWayNow, Arrives DEF Keeps
<1>4. ASSUME NEW prohibit \in BOOLEAN, CallProhibit(prohibit) PROVE UnderWay(World')
  <2>1. Become(ProhibitHandsetConnection(World, prohibit))
    BY <1>4 DEF CallProhibit, Calls
  <2> QED
    BY <1>1, <2>1, ProhibitKeeps, ProhibitIsCalm, CalmArrives
<1>5. ASSUME NEW e \in {"USER_CONNECT", "DISC_ALL", "DISC_LRU"}, Become(R!SetEvent(World, e))
      PROVE  UnderWay(World')
  BY <1>1, <1>5, EventsKeep, RulesAre, SetEventIsCalm, CalmArrives
<1>6. CASE CallConnectMru
  BY <1>5, <1>6 DEF CallConnectMru, Calls
<1>7. CASE CallDisconnectAll
  BY <1>5, <1>7 DEF CallDisconnectAll, Calls
<1>8. CASE CallDisconnectLru
  BY <1>5, <1>8 DEF CallDisconnectLru, Calls
<1>9. CASE ShutdownPrepare
  <2> DEFINE v == [World EXCEPT !.topo.shutdown = TRUE]
  <2>1. Become(v)
    BY <1>9 DEF ShutdownPrepare, Calls
  <2>2. Keeps(v, World) /\ Calm(v, World)
    BY <1>1, ProhibitKeeps, ProhibitIsCalm
  <2> HIDE DEF v
  <2> QED
    BY <2>1, <2>2, CalmArrives
<1> QED
  BY <1>2, <1>3, <1>4, <1>6, <1>7, <1>8, <1>9

\* Another module answers.
LEMMA AnswersAreUnderWay ==
  ASSUME IInv, UnderWay(World),
         LeAnswers \/ LeDisconnected \/ ConnectIsAnswered \/ LinkDisconnectsAsAsked
  PROVE  UnderWay(World')
<1>1. Base(World) /\ World \in Worlds /\ LinksOK(World) /\ World.env = env /\ World.proc = proc
  BY WorldIs
<1>2. CASE LeAnswers
  <2>1. World.proc.le # "none" /\ Become(LeConfirmed(World))
    BY <1>1, <1>2 DEF LeAnswers, Happens
  <2> QED
    BY <1>1, <2>1, LeConfirmedKeeps, LeConfirmedIs, Arrives DEF Keeps
<1>3. CASE LeDisconnected
  <2>1. World.proc.step > 0 /\ Script[World.proc.step] = "disconnect_le"
        /\ Become(StepCompletes(World))
    BY <1>1, <1>3 DEF LeDisconnected, Happens
  <2> QED
    BY <1>1, <2>1, StepCompletesKeeps, LeDisconnectedIs, Arrives DEF Keeps
<1>4. ASSUME NEW success \in BOOLEAN, NEW links \in 0 .. 1, ConnectAnswers(success, links)
      PROVE  UnderWay(World')
  <2>1. World.env.links + links <= MaxLinks /\ Become(ConnectCfm(World, success, links))
    BY <1>1, <1>4 DEF ConnectAnswers, Happens
  <2>2. Keeps(ConnectCfm(World, success, links), World)
        /\ Calm(ConnectCfm(World, success, links), World)
    BY <1>1, <2>1, ConnectCfmKeeps, ConnectIsCalm
  <2> QED
    BY <2>1, <2>2, CalmArrives
<1>5. CASE ConnectStops
  <2>1. Become(ConnectStopCfm(World))
    BY <1>5 DEF ConnectStops, Happens
  <2> QED
    BY <1>1, <2>1, ConnectStopCfmKeeps, ConnectStopIsCalm, CalmArrives
<1>6. ASSUME NEW lru \in BOOLEAN, LinkDisconnects(lru) PROVE UnderWay(World')
  <2>1. World.env.links > 0 /\ Become(LinkDown(World, lru))
    BY <1>1, <1>6 DEF LinkDisconnects, Happens
  <2> QED
    BY <1>1, <2>1, LinkDownKeeps, LinkDownIsCalm, CalmArrives
<1> QED
  BY <1>2, <1>3, <1>4, <1>5, <1>6 DEF ConnectIsAnswered, LinkDisconnectsAsAsked

\* Handsets come and go by themselves, and ten seconds pass.
LEMMA SurroundingsAreUnderWay ==
  ASSUME IInv, UnderWay(World),
         HandsetConnects \/ (\E lru \in BOOLEAN : LinkIsLost(lru)) \/ StopTimeout
  PROVE  UnderWay(World')
<1>1. Base(World) /\ World.env = env /\ World \in Worlds
  BY WorldIs
<1>2. CASE HandsetConnects
  <2> DEFINE v == [World EXCEPT !.env.links = @ + 1, !.env.paired = TRUE]
             w == [World EXCEPT !.env.links = World.env.links + 1, !.env.paired = TRUE]
  <2>1. World.env.links < MaxLinks /\ Become(v)
    BY <1>1, <1>2 DEF HandsetConnects, Radio
  <2>2. Keeps(w, World) /\ Calm(v, World)
    BY <1>1, <2>1, HandsetConnectsKeeps, HandsetComesCalmly
  <2>3. v = w
    OBVIOUS
  <2> HIDE DEF v, w
  <2> QED
    BY <2>1, <2>2, <2>3, CalmArrives
<1>3. ASSUME NEW lru \in BOOLEAN, LinkIsLost(lru) PROVE UnderWay(World')
  <2> DEFINE v == LinkDown(World, lru)
             m == Plain("LINK_LOSS")
             w == Post(v, m)
  <2>1. World.env.links > 0 /\ Become(w)
    BY <1>1, <1>3 DEF LinkIsLost, Radio
  <2>2. Keeps(v, World) /\ Calm(v, World) /\ v \in Worlds
    BY <1>1, <2>1, LinkDownKeeps, LinkDownIsCalm
  <2>3. m \in Messages /\ m \notin Marks /\ m \notin G!QueuedMessages
    BY OthersAre, MessagesAre
  <2> HIDE DEF v, m
  <2>4. LinksOK(v) /\ Base(v)
    BY <2>2 DEF Keeps, Base
  <2>5. Keeps(w, v) /\ Calm(w, v) /\ w \in Worlds
    BY <2>2, <2>3, <2>4, ProcPost, ProcKeeps, PostIsCalm, PostIs
  <2> HIDE DEF w
  <2>6. Keeps(w, World) /\ Calm(w, World)
    BY <1>1, <2>2, <2>5, KeepsAgain, CalmAgain
  <2> QED
    BY <2>1, <2>6, CalmArrives
<1>4. CASE StopTimeout
  <2>1. Become(HandleStopTimeout(World))
    BY <1>4 DEF StopTimeout
  <2> QED
    BY <1>1, <2>1, StoppedKeeps, EnterIsCalm, CalmArrives
<1> QED
  BY <1>2, <1>3, <1>4

\* Every step keeps the invariant.
LEMMA NextIsUnderWay ==
  ASSUME SInv, [Next]_vars
  PROVE  SInv'
<1>1. IInv /\ UnderWay(World)
  BY DEF SInv
<1>2. IInv'
  BY <1>1, NextKeeps DEF Step
<1>3. UnderWay(World')
  <2>1. CASE Next
    BY <1>1, <2>1, DeliverIsUnderWay, CallsAreUnderWay, AnswersAreUnderWay,
       SurroundingsAreUnderWay DEF Next
  <2>2. CASE UNCHANGED vars
    <3>1. World' = World
      BY <2>2 DEF vars, World
    <3> QED
      BY <1>1, <3>1
  <2> QED
    BY <2>1, <2>2
<1> QED
  BY <1>2, <1>3 DEF SInv

\* As the topology begins
LEMMA InitIsStill ==
  ASSUME Init
  PROVE  SInv
<1>1. IInv
  BY InitIsGood
<1>2. Marked(World) = << >> /\ Len(<< >>) = 0
  BY KeepEmpty, EmptySeq DEF Marked, World, Init
<1>3. \A m : ~Has(World, m)
  BY <1>2 DEF Has
<1>4. World.rules.status[1] = "not_done"
  BY RulesAre DEF World, Init, R!NoRulesRun
<1>5. /\ World.proc.step = 0 /\ World.active = {} /\ World.topo.state = "STOPPED"
      /\ World.proc.le = "none" /\ World.proc.disconnect = "none"
  BY DEF World, Init
<1>6. ScriptRuns(World) /\ ToldFirst(World) /\ Asked(World) /\ RuleListens(World)
  BY <1>4, <1>5 DEF ScriptRuns, ToldFirst, Asked, RuleListens, Stopping
<1>7. StepIsAnswered(World)
  BY <1>2, <1>3, <1>5 DEF StepIsAnswered
<1>8. RuleDecides(World) /\ ~Stopping(World)
  BY <1>4, <1>5 DEF RuleDecides, Stopping
<1> QED
  BY <1>1, <1>6, <1>7, <1>8 DEF SInv, UnderWay, Scripted

---------------------------------------------------------------------------
(* The theorem.                                                            *)

\* While the topology is STOPPING its client waits, the timeout runs, and the
\* goal that stops everything is decided, queued, active or done, whatever else
\* is asked for, comes or goes meanwhile (StereoTopology_Stop,
\* goalsEngine_ClearPendingGoalsQueue).
THEOREM StopUnderWay == Spec => []StopIsUnderWay
<1>1. Init => SInv
  BY InitIsStill
<1>2. SInv /\ [Next]_vars => SInv'
  BY NextIsUnderWay
<1>3. SInv => StopIsUnderWay
  <2> SUFFICES ASSUME SInv, topo.state = "STOPPING"
               PROVE  /\ topo.app_task = "app" /\ timer
                      /\ \/ "system_stop" \in active
                         \/ \E n \in DOMAIN mail :
                              \/ mail[n].kind \in {"decision", "queued"}
                                   /\ mail[n].goal = "system_stop"
                              \/ mail[n].kind = "STOP_FINISHED"
    BY DEF StopIsUnderWay
  <2>1. IInv /\ UnderWay(World) /\ World \in Worlds /\ mail \in Seq(Messages)
    BY WorldIs DEF SInv
  <2>2. World.topo = topo /\ World.timer = timer /\ World.active = active /\ World.mail = mail
    BY DEF World
  <2>3. topo.app_task = "app" /\ timer /\ Pending(World)
    BY <2>1, <2>2 DEF UnderWay, Scripted, Asked, Stopping
  <2>4. ASSUME NEW m, Has(World, m) PROVE \E n \in DOMAIN mail : mail[n] = m
    <3>1. PICK i \in 1 .. Len(Marked(World)) : Marked(World)[i] = m
      BY <2>4 DEF Has
    <3>2. i \in DOMAIN Keep(mail, Marks) /\ Keep(mail, Marks)[i] = m
      BY <2>1, <2>2, <3>1, MarkedIs, LenProperties DEF Marked
    <3> QED
      BY <2>1, <3>2, KeepFrom
  <2>5. /\ Decided.kind = "decision" /\ Decided.goal = "system_stop"
        /\ Finished.kind = "STOP_FINISHED"
        /\ G!QueuedMessage(SystemStop).kind = "queued"
        /\ G!QueuedMessage(SystemStop).goal = "system_stop"
    BY DEF Decided, Finished, Plain, R!Decision, G!QueuedMessage, SystemStop
  <2>6. CASE SystemStop \in World.active
    BY <2>2, <2>3, <2>6 DEF SystemStop
  <2>7. CASE Has(World, Decided) \/ Has(World, Finished)
    BY <2>3, <2>4, <2>5, <2>7
  <2>8. CASE G!Waiting(World, SystemStop)
    BY <2>2, <2>3, <2>5, <2>8 DEF G!Waiting
  <2> QED
    BY <2>3, <2>6, <2>7, <2>8 DEF Pending
<1> QED
  BY <1>1, <1>2, <1>3, PTL DEF Spec
=============================================================================
