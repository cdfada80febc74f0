----------------------- MODULE StereoTopology_proofs -----------------------
(***************************************************************************)
(* The safety of the stereo topology's goals, proved for any inputs, any   *)
(* number of handsets and any backlog of messages.                         *)
(***************************************************************************)
EXTENDS StereoTopology, Keeping_proofs

---------------------------------------------------------------------------
(* Worlds.                                                                 *)

Topos == [state : {"STOPPED", "STARTING", "STARTED", "STOPPING"}, app_task : {"none", "app"},
          prohibit : BOOLEAN, shutdown : BOOLEAN]
Procs == [le : {"none", "goal", "script"},
          connect : {"idle", "running", "cancelling", "cancelled"},
          disconnect : {"none", "goal", "script"}, step : 0 .. 7]
Envs  == [links : 0 .. MaxLinks, all : BOOLEAN, one : BOOLEAN, allowed : BOOLEAN,
          connectable : BOOLEAN, paired : BOOLEAN]
Slots == UNION {[D -> SUBSET GoalIds] : D \in SUBSET GoalIds}

\* What may be sent: messages about a goal, and those that only say what they
\* are.  The script is not completed later, nor confirmed as cancelled.
Decisions == [kind : {"decision", "queued"}, goal : GoalIds]
Delayed   == [kind : {"complete", "cancelled"}, goal : GoalIds \ {"system_stop"}]
Plains    == [kind : {"step", "ALL_CFM", "DISCONNECT_CFM", "STOP_FINISHED", "LINK_LOSS"}]
Messages  == Decisions \cup Delayed \cup Plains

Worlds == [topo : Topos, rules : R!RuleSet, active : SUBSET GoalIds,
           count : 0 .. 255, slots : Slots, mail : Seq(Messages), proc : Procs,
           env : Envs, timer : BOOLEAN]

---------------------------------------------------------------------------
(* The inductive invariant.                                                *)

\* Whoever waits for all links to end is told with the last one.
LinksOK(w) == w.env.all => w.env.links > 0

\* Goals run together only if both allow it.
Concurrent(w) == \A g, h \in w.active : g # h => h \in ConcurrentWith(g)

Base(w) == w \in Worlds /\ LinksOK(w) /\ Concurrent(w)

IInv == Base(World)

\* The messages of the queue, in their order
Queue(w) == Keep(w.mail, G!QueuedMessages)

\* A goal in the queue has an entry, its lock names only goals that are active,
\* and the count covers the messages.
Held(w) ==
  /\ \A n \in DOMAIN Queue(w) : Queue(w)[n].goal \in DOMAIN w.slots
  /\ \A g \in DOMAIN w.slots : w.slots[g] \subseteq w.active
  /\ Len(Queue(w)) <= w.count

\* The counter does not wrap with the next goal.
Roomy(w) == w.count < 255

---------------------------------------------------------------------------
(* The tables.                                                             *)

\* The goals, one by one
LEMMA GoalsAre ==
  /\ GoalIds = {"connect_handset", "disconnect_handset", "connectable_handset",
                "allow_handset_connect", "allow_le_connection", "system_stop",
                "disconnect_lru_handset"}
  /\ G!GoalSet = GoalIds
  /\ Len(Goals) = 7 /\ \A n \in 1 .. 7 : Goals[n] \in GoalIds
<1>1. /\ DOMAIN Goals = 1 .. 7 /\ Len(Goals) = 7
      /\ Goals[1] = "connect_handset" /\ Goals[2] = "disconnect_handset"
      /\ Goals[3] = "connectable_handset" /\ Goals[4] = "allow_handset_connect"
      /\ Goals[5] = "allow_le_connection" /\ Goals[6] = "system_stop"
      /\ Goals[7] = "disconnect_lru_handset"
  BY DEF Goals
<1>2. 1 .. 7 = {1, 2, 3, 4, 5, 6, 7}
  OBVIOUS
<1> HIDE DEF Goals
<1>3. GoalIds = {Goals[n] : n \in {1, 2, 3, 4, 5, 6, 7}}
  BY <1>1, <1>2 DEF GoalIds, ToSet
<1>4. GoalIds = {"connect_handset", "disconnect_handset", "connectable_handset",
                 "allow_handset_connect", "allow_le_connection", "system_stop",
                 "disconnect_lru_handset"}
  BY <1>1, <1>3
<1>5. G!GoalSet = GoalIds
  BY <1>1, <1>2, <1>3 DEF G!GoalSet
<1> QED
  BY <1>1, <1>2, <1>3, <1>4, <1>5

\* The rules, one by one
LEMMA RulesAre ==
  /\ R!RuleIds = 1 .. 10 /\ Len(RuleTable) = 10
  /\ \A n \in 1 .. 10 : RuleTable[n].goal \in GoalIds /\ R!Of(n) \in R!RuleEvents
  /\ R!RuleEvents = {"STOP", "LINKLOSS", "START", "PROHIBIT", "USER_CONNECT", "DISC_ALL",
                     "DISC_LRU"}
  /\ RuleTable[1] = On("STOP", "Always", "system_stop")
  /\ \A n \in 2 .. 10 : R!Of(n) # "STOP" /\ RuleTable[n].goal # "system_stop"
<1>1. /\ DOMAIN RuleTable = 1 .. 10 /\ Len(RuleTable) = 10
      /\ RuleTable[1] = On("STOP", "Always", "system_stop")
      /\ RuleTable[2].event = "LINKLOSS" /\ RuleTable[2].goal = "connect_handset"
      /\ RuleTable[3].event = "START" /\ RuleTable[3].goal = "allow_le_connection"
      /\ RuleTable[4].event = "START" /\ RuleTable[4].goal = "connectable_handset"
      /\ RuleTable[5].event = "START" /\ RuleTable[5].goal = "allow_handset_connect"
      /\ RuleTable[6].event = "START" /\ RuleTable[6].goal = "connect_handset"
      /\ RuleTable[7].event = "PROHIBIT" /\ RuleTable[7].goal = "disconnect_handset"
      /\ RuleTable[8].event = "USER_CONNECT" /\ RuleTable[8].goal = "connect_handset"
      /\ RuleTable[9].event = "DISC_ALL" /\ RuleTable[9].goal = "disconnect_handset"
      /\ RuleTable[10].event = "DISC_LRU" /\ RuleTable[10].goal = "disconnect_lru_handset"
  BY DEF RuleTable, On
<1>2. RuleTable[1].event = "STOP" /\ RuleTable[1].goal = "system_stop"
  BY <1>1 DEF On
<1>3. 1 .. 10 = {1, 2, 3, 4, 5, 6, 7, 8, 9, 10} /\ 2 .. 10 = {2, 3, 4, 5, 6, 7, 8, 9, 10}
  OBVIOUS
<1> HIDE DEF RuleTable
<1>4. R!RuleIds = 1 .. 10 /\ \A n \in 1 .. 10 : R!Of(n) = RuleTable[n].event
  BY <1>1 DEF R!RuleIds, R!Of
<1>5. R!RuleEvents = {RuleTable[n].event : n \in {1, 2, 3, 4, 5, 6, 7, 8, 9, 10}}
  BY <1>3, <1>4 DEF R!RuleEvents
<1>6. R!RuleEvents = {"STOP", "LINKLOSS", "START", "PROHIBIT", "USER_CONNECT", "DISC_ALL",
                      "DISC_LRU"}
  BY <1>1, <1>2, <1>5
<1>7. \A n \in 1 .. 10 : RuleTable[n].goal \in GoalIds /\ R!Of(n) \in R!RuleEvents
  BY <1>1, <1>2, <1>3, <1>4, <1>5, GoalsAre
<1>8. \A n \in 2 .. 10 : R!Of(n) # "STOP" /\ RuleTable[n].goal # "system_stop"
  BY <1>1, <1>3, <1>4
<1> QED
  BY <1>1, <1>4, <1>6, <1>7, <1>8

\* The script's length
LEMMA ScriptIs ==
  /\ Len(Script) = 7
  /\ Script[1] = "begin" /\ Script[2] = "refuse_handset" /\ Script[3] = "not_connectable"
  /\ Script[4] = "refuse_le" /\ Script[5] = "disconnect" /\ Script[6] = "disconnect_le"
  /\ Script[7] = "finished"
BY DEF Script

\* The messages that belong to the queue
LEMMA QueuedAre ==
  /\ G!QueuedMessages = [kind : {"queued"}, goal : GoalIds]
  /\ G!QueuedMessages \subseteq Messages
  /\ \A m \in Messages : G!IsQueued(m) <=> m \in G!QueuedMessages
<1>1. G!QueuedMessages = {[kind |-> "queued", goal |-> g] : g \in GoalIds}
  BY GoalsAre DEF G!QueuedMessages, G!QueuedMessage
<1>2. G!QueuedMessages = [kind : {"queued"}, goal : GoalIds]
  <2>1. ASSUME NEW m \in [kind : {"queued"}, goal : GoalIds] PROVE m \in G!QueuedMessages
    <3>1. m = [kind |-> "queued", goal |-> m.goal] /\ m.goal \in GoalIds
      OBVIOUS
    <3> QED
      BY <1>1, <3>1
  <2>2. ASSUME NEW m \in G!QueuedMessages PROVE m \in [kind : {"queued"}, goal : GoalIds]
    BY <1>1, <2>2
  <2> QED
    BY <2>1, <2>2
<1>3. ASSUME NEW m \in Messages PROVE G!IsQueued(m) <=> m \in G!QueuedMessages
  BY <1>2, <1>3 DEF G!IsQueued, Messages, Decisions, Delayed, Plains
<1> QED
  BY <1>2, <1>3 DEF Messages, Decisions

---------------------------------------------------------------------------
(* Messages.                                                               *)

\* What the rules and the procedures leave alone: the goals and their queue
Beside(r, w) ==
  /\ r.active = w.active /\ r.slots = w.slots /\ r.count = w.count
  /\ Queue(r) = Queue(w)

\* Both parts of the invariant about goals depend on no more than that.
LEMMA BesideKeeps ==
  ASSUME NEW w, NEW r, Beside(r, w)
  PROVE  (Held(w) => Held(r)) /\ (Concurrent(w) => Concurrent(r))
BY DEF Beside, Held, Concurrent

\* A world made of another by what does not concern goals
LEMMA BesideAgain ==
  ASSUME NEW w, NEW r, NEW v, Beside(r, v), Beside(v, w)
  PROVE  Beside(r, w)
BY DEF Beside

\* A message is sent; only those of queued goals join the queue.
LEMMA PostIs ==
  ASSUME NEW w \in Worlds, NEW m \in Messages
  PROVE  /\ Post(w, m) = [w EXCEPT !.mail = Append(w.mail, m)]
         /\ Post(w, m) \in Worlds
         /\ Queue(Post(w, m)) = IF m \in G!QueuedMessages THEN Append(Queue(w), m) ELSE Queue(w)
         /\ m \notin G!QueuedMessages => Beside(Post(w, m), w)
<1> DEFINE r == Post(w, m)
           q == Append(w.mail, m)
<1>1. w.mail \in Seq(Messages)
  BY DEF Worlds
<1>2. q \in Seq(Messages)
  BY <1>1, AppendProperties
<1>3. r = [w EXCEPT !.mail = q]
  BY DEF Post
<1>4. Keep(q, G!QueuedMessages)
        = IF m \in G!QueuedMessages THEN Append(Queue(w), m) ELSE Queue(w)
  BY <1>1, KeepAppend DEF Queue
<1> HIDE DEF r, q
<1>5. /\ r \in Worlds /\ r.mail = q
      /\ r.active = w.active /\ r.slots = w.slots /\ r.count = w.count
  BY <1>2, <1>3 DEF Worlds
<1>6. Queue(r) = IF m \in G!QueuedMessages THEN Append(Queue(w), m) ELSE Queue(w)
  BY <1>4, <1>5 DEF Queue
<1> QED
  BY <1>3, <1>5, <1>6 DEF Beside, r, q

\* Messages that are not of the queue are cancelled.
LEMMA DropIs ==
  ASSUME NEW w \in Worlds, NEW m \in Messages, m \notin G!QueuedMessages
  PROVE  /\ Drop(w, m) \in Worlds /\ Drop(w, m) = [w EXCEPT !.mail = Dropping(w.mail, {m})]
         /\ Beside(Drop(w, m), w)
<1> DEFINE r == Drop(w, m)
           q == Dropping(w.mail, {m})
<1>1. w.mail \in Seq(Messages)
  BY DEF Worlds
<1>2. q = Keep(w.mail, Messages \ {m})
  BY <1>1, DroppingIs
<1>3. q \in Seq(Messages)
  BY <1>1, <1>2, KeepPart
<1>4. r = [w EXCEPT !.mail = q]
  BY DEF Drop
<1>5. Keep(q, G!QueuedMessages) = Keep(w.mail, G!QueuedMessages)
  <2>1. Keep(q, G!QueuedMessages) = Keep(w.mail, (Messages \ {m}) \cap G!QueuedMessages)
    BY <1>1, <1>2, KeepTwice
  <2>2. (Messages \ {m}) \cap G!QueuedMessages = G!QueuedMessages
    BY QueuedAre
  <2> QED
    BY <2>1, <2>2
<1> HIDE DEF r, q
<1>6. /\ r \in Worlds /\ r.mail = q
      /\ r.active = w.active /\ r.slots = w.slots /\ r.count = w.count
  BY <1>3, <1>4 DEF Worlds
<1> QED
  BY <1>4, <1>5, <1>6 DEF Beside, Queue, r, q

\* The messages of the components
LEMMA MessagesAre ==
  /\ \A g \in GoalIds : R!Decision(g) \in Messages /\ R!Decision(g) \notin G!QueuedMessages
  /\ \A g \in GoalIds : G!QueuedMessage(g) \in G!QueuedMessages
  /\ \A g \in GoalIds \ {"system_stop"}, kind \in {"complete", "cancelled"} :
       About(kind, g) \in Messages /\ About(kind, g) \notin G!QueuedMessages
  /\ \A kind \in {"step", "ALL_CFM", "DISCONNECT_CFM", "STOP_FINISHED", "LINK_LOSS"} :
       Plain(kind) \in Messages /\ Plain(kind) \notin G!QueuedMessages
<1>1. \A g \in GoalIds : R!Decision(g) \in Messages /\ R!Decision(g) \notin G!QueuedMessages
  BY QueuedAre DEF R!Decision, Messages, Decisions
<1>2. \A g \in GoalIds : G!QueuedMessage(g) \in G!QueuedMessages
  BY QueuedAre DEF G!QueuedMessage
<1>3. ASSUME NEW g \in GoalIds \ {"system_stop"}, NEW kind \in {"complete", "cancelled"}
      PROVE  About(kind, g) \in Messages /\ About(kind, g) \notin G!QueuedMessages
  BY QueuedAre DEF About, Messages, Delayed
<1>4. ASSUME NEW kind \in {"step", "ALL_CFM", "DISCONNECT_CFM", "STOP_FINISHED", "LINK_LOSS"}
      PROVE  Plain(kind) \in Messages /\ Plain(kind) \notin G!QueuedMessages
  BY QueuedAre DEF Plain, Messages, Plains
<1> QED
  BY <1>1, <1>2, <1>3, <1>4

---------------------------------------------------------------------------
(* Rules.                                                                  *)

\* What holds of the number of rules looked at and of what they made of the
\* world, and is kept by every one, holds in the end.
LEMMA RunRulesInduction ==
  ASSUME NEW w, NEW A, <<0, [w |-> w, events |-> w.rules.events]>> \in A,
         \A n \in 1 .. 10 : \A at : <<n - 1, at>> \in A => <<n, R!RunRule(at, n)>> \in A
  PROVE  \E at : <<10, at>> \in A /\ at.w = R!RunRules(w)
<1> DEFINE start == [w |-> w, events |-> w.rules.events]
           Makes(f, n) == f = [k \in 0 .. n |-> IF k = 0 THEN start ELSE R!RunRule(f[k - 1], k)]
           at == CHOOSE f : Makes(f, Len(RuleTable))
<1>1. R!RunRules(w) = at[Len(RuleTable)].w
  BY DEF R!RunRules
<1>2. Len(RuleTable) = 10
  BY RulesAre
<1> HIDE DEF start
<1>3. \E f : Makes(f, 10)
  <2> DEFINE B == {n \in Nat : \E f : Makes(f, n)}
  <2>1. 0 \in B
    <3> DEFINE f == [k \in 0 .. 0 |-> start]
    <3>1. Makes(f, 0)
      OBVIOUS
    <3> QED
      BY <3>1
  <2>2. ASSUME NEW n \in Nat, n \in B PROVE n + 1 \in B
    <3>1. PICK f : Makes(f, n)
      BY <2>2
    <3> DEFINE last == R!RunRule(f[n], n + 1)
               g == [k \in 0 .. n + 1 |-> IF k = n + 1 THEN last ELSE f[k]]
    <3>2. ASSUME NEW k \in 0 .. n + 1
          PROVE  g[k] = IF k = 0 THEN start ELSE R!RunRule(g[k - 1], k)
      <4>1. CASE k = n + 1
        <5>1. k # 0 /\ k - 1 = n /\ n \in 0 .. n + 1 /\ n # n + 1
          BY <2>2, <4>1
        <5> QED
          BY <4>1, <5>1
      <4>2. CASE k = 0
        <5>1. 0 \in 0 .. n /\ k # n + 1
          BY <2>2, <4>2
        <5> QED
          BY <3>1, <4>2, <5>1
      <4>3. CASE k # 0 /\ k # n + 1
        <5>1. k \in 0 .. n /\ k - 1 \in 0 .. n + 1 /\ k - 1 # n + 1
          BY <2>2, <4>3
        <5>2. f[k] = R!RunRule(f[k - 1], k)
          BY <3>1, <4>3, <5>1
        <5> QED
          BY <4>3, <5>1, <5>2
      <4> QED
        BY <4>1, <4>2, <4>3
    <3>3. Makes(g, n + 1)
      BY <3>2
    <3>4. \E h : Makes(h, n + 1)
      <4> HIDE DEF g
      <4> QED
        BY <3>3
    <3> HIDE DEF Makes
    <3> QED
      BY <2>2, <3>4
  <2>3. Nat \subseteq B
    <3> HIDE DEF B
    <3> QED
      BY <2>1, <2>2, SetInduction
  <2> QED
    BY <2>3
<1>4. Makes(at, 10)
  BY <1>2, <1>3
<1> HIDE DEF at
<1>5. <<10, at[10]>> \in A
  <2> DEFINE B == {n \in Nat : n <= 10 => <<n, at[n]>> \in A}
  <2>1. 0 \in B
    BY <1>4 DEF start
  <2>2. ASSUME NEW n \in Nat, n \in B PROVE n + 1 \in B
    <3> SUFFICES ASSUME n + 1 <= 10 PROVE <<n + 1, at[n + 1]>> \in A
      OBVIOUS
    <3>1. n <= 10 /\ n + 1 \in 0 .. 10 /\ n + 1 \in 1 .. 10 /\ n + 1 # 0 /\ (n + 1) - 1 = n
      BY <2>2
    <3>2. at[n + 1] = R!RunRule(at[n], n + 1)
      BY <1>4, <3>1
    <3>3. <<n, at[n]>> \in A
      BY <2>2, <3>1
    <3> HIDE DEF Makes
    <3>4. <<n + 1, R!RunRule(at[n], n + 1)>> \in A
      <4> DEFINE k == n + 1
      <4>1. k \in 1 .. 10 /\ k - 1 = n
        BY <3>1
      <4> HIDE DEF k
      <4>2. <<k - 1, at[n]>> \in A
        BY <3>3, <4>1
      <4>3. <<k, R!RunRule(at[n], k)>> \in A
        BY <4>1, <4>2
      <4> QED
        BY <4>3 DEF k
    <3> QED
      BY <3>2, <3>4
  <2>3. Nat \subseteq B
    <3> HIDE DEF B
    <3> QED
      BY <2>1, <2>2, SetInduction
  <2> QED
    BY <2>3
<1> QED
  BY <1>1, <1>2, <1>5

\* Rules are only set back to what they may be.
LEMMA ResetIs ==
  ASSUME NEW rs \in R!RuleSet, NEW es
  PROVE  R!ResetEvent(rs, es) \in R!RuleSet
BY DEF R!RuleSet, R!ResetEvent, R!Statuses

LEMMA UpdateIs ==
  ASSUME NEW rs \in R!RuleSet, NEW goal, NEW from, NEW es
  PROVE  R!UpdateRuleStatus(rs, goal, from, es) \in R!RuleSet
<1> DEFINE hit    == {n \in R!RuleIds : RuleTable[n].goal = goal /\ rs.status[n] = from /\ R!Of(n) \in es}
           marked == [rs EXCEPT !.status = [n \in R!RuleIds |-> IF n \in hit THEN "complete" ELSE rs.status[n]]]
           open   == {n \in R!RuleIds : R!Of(n) \in es /\ marked.status[n] # "complete"}
<1>1. R!UpdateRuleStatus(rs, goal, from, es)
        = R!ResetEvent(marked, {R!Of(n) : n \in hit} \ {R!Of(n) : n \in open})
  BY DEF R!UpdateRuleStatus
<1> HIDE DEF hit
<1>2. marked \in R!RuleSet
  BY DEF R!RuleSet, R!Statuses
<1> HIDE DEF marked, open
<1> QED
  BY <1>1, <1>2, ResetIs

\* What a world keeps when rules are looked at: they change their own status
\* and send decisions.
RulesOnly(r, w) ==
  /\ r \in Worlds /\ Beside(r, w)
  /\ r.topo = w.topo /\ r.proc = w.proc /\ r.env = w.env /\ r.timer = w.timer

\* How far a run of the rules has come
Looks == [w : Worlds, events : SUBSET R!RuleEvents]

LEMMA RuleKeeps ==
  ASSUME NEW w, NEW at \in Looks, RulesOnly(at.w, w), NEW n \in 1 .. 10
  PROVE  R!RunRule(at, n) \in Looks /\ RulesOnly(R!RunRule(at, n).w, w)
<1> DEFINE v == at.w
           status == v.rules.status[n]
           goal == RuleTable[n].goal
           r == R!RunRule(at, n)
<1>1. /\ v \in Worlds /\ v.rules \in R!RuleSet /\ n \in R!RuleIds
      /\ goal \in GoalIds /\ R!Of(n) \in R!RuleEvents
  BY RulesAre DEF Looks, Worlds
<1>2. CASE R!Of(n) \notin at.events \/ status = "complete"
  <2>1. r = at
    BY <1>2 DEF R!RunRule
  <2> QED
    BY <2>1
<1>3. CASE R!Of(n) \in at.events /\ status = "in_progress"
  <2>1. r = [at EXCEPT !.events = at.events \ {R!Of(n)}]
    BY <1>3 DEF R!RunRule
  <2>2. r.w = at.w /\ r \in Looks
    BY <2>1 DEF Looks
  <2> QED
    BY <2>2
<1>4. CASE R!Of(n) \in at.events /\ status = "not_done" /\ Runs(v, n)
  <2> DEFINE set == [v EXCEPT !.rules.status[n] = "in_progress"]
             u == Post(set, R!Decision(goal))
  <2>1. r = [w |-> [v EXCEPT !.rules.status[n] = "in_progress",
                             !.mail = Append(v.mail, R!Decision(goal))],
             events |-> at.events \ {R!Of(n)}]
    BY <1>4 DEF R!RunRule
  <2>2. r.w = u
    BY <2>1 DEF Post, Worlds
  <2>3. /\ set \in Worlds /\ Beside(set, v) /\ set.topo = v.topo /\ set.proc = v.proc
        /\ set.env = v.env /\ set.timer = v.timer
    BY <1>1 DEF Worlds, R!RuleSet, R!Statuses, Beside, Queue
  <2>4. R!Decision(goal) \in Messages /\ R!Decision(goal) \notin G!QueuedMessages
    BY <1>1, MessagesAre
  <2> HIDE DEF set, v, r
  <2>5. /\ u \in Worlds /\ Beside(u, set) /\ u.topo = set.topo /\ u.proc = set.proc
        /\ u.env = set.env /\ u.timer = set.timer
    BY <2>3, <2>4, PostIs DEF Worlds
  <2> HIDE DEF u
  <2>6. RulesOnly(u, w)
    BY <2>3, <2>5 DEF RulesOnly, Beside, v
  <2>7. r \in Looks
    <3>1. r = [w |-> u, events |-> at.events \ {R!Of(n)}]
      BY <2>1, <2>2
    <3> QED
      BY <2>5, <3>1 DEF Looks
  <2> QED
    BY <2>2, <2>6, <2>7 DEF r
<1>5. CASE /\ R!Of(n) \in at.events /\ status # "complete" /\ status # "in_progress"
           /\ ~(status = "not_done" /\ Runs(v, n))
  <2> DEFINE rs == R!UpdateRuleStatus(v.rules, goal, status, {R!Of(n)})
  <2>1. r = [at EXCEPT !.w.rules = rs]
    BY <1>5 DEF R!RunRule
  <2> HIDE DEF rs, r
  <2>2. r.w = [v EXCEPT !.rules = rs] /\ r = [w |-> r.w, events |-> at.events]
    BY <1>1, <2>1 DEF Looks, Worlds
  <2>3. rs \in R!RuleSet
    BY <1>1, UpdateIs DEF rs
  <2>4. RulesOnly(r.w, w)
    BY <1>1, <2>2, <2>3 DEF RulesOnly, Worlds, Beside, Queue
  <2>5. r \in Looks
    BY <2>2, <2>4 DEF Looks, RulesOnly
  <2> QED
    BY <2>4, <2>5 DEF r
<1> QED
  BY <1>2, <1>3, <1>4, <1>5

\* A run of the rules leaves the goals and all else alone.
LEMMA RunRulesKeeps ==
  ASSUME NEW w, w \in Worlds
  PROVE  RulesOnly(R!RunRules(w), w)
<1> DEFINE A == Nat \X {at \in Looks : RulesOnly(at.w, w)}
           start == [w |-> w, events |-> w.rules.events]
<1>1. start \in Looks /\ start.w = w
  BY DEF Looks, Worlds, R!RuleSet
<1>2. RulesOnly(w, w)
  BY DEF RulesOnly, Beside
<1>3. <<0, start>> \in A
  BY <1>1, <1>2
<1>4. ASSUME NEW n \in 1 .. 10, NEW at, <<n - 1, at>> \in A PROVE <<n, R!RunRule(at, n)>> \in A
  <2>1. at \in Looks /\ RulesOnly(at.w, w) /\ n \in Nat
    BY <1>4
  <2>2. R!RunRule(at, n) \in Looks /\ RulesOnly(R!RunRule(at, n).w, w)
    BY <2>1, RuleKeeps
  <2> QED
    BY <2>1, <2>2
<1>5. \E at : <<10, at>> \in A /\ at.w = R!RunRules(w)
  <2> HIDE DEF A
  <2> QED
    BY <1>3, <1>4, RunRulesInduction DEF start
<1> QED
  BY <1>5

\* So do the three ways to set them off.
LEMMA SetEventKeeps ==
  ASSUME NEW w \in Worlds, NEW e \in R!RuleEvents
  PROVE  RulesOnly(R!SetEvent(w, e), w)
<1> DEFINE v == [w EXCEPT !.rules.events = w.rules.events \cup {e}]
<1>1. v \in Worlds /\ RulesOnly(v, w)
  BY DEF Worlds, R!RuleSet, RulesOnly, Beside, Queue
<1>2. R!SetEvent(w, e) = R!RunRules(v)
  BY DEF R!SetEvent
<1> HIDE DEF v
<1>3. RulesOnly(R!RunRules(v), v)
  BY <1>1, RunRulesKeeps
<1> QED
  BY <1>1, <1>2, <1>3 DEF RulesOnly, Beside

LEMMA SetRuleCompleteKeeps ==
  ASSUME NEW w \in Worlds, NEW goal
  PROVE  RulesOnly(R!SetRuleComplete(w, goal), w)
<1> DEFINE rs == R!UpdateRuleStatus(w.rules, goal, "in_progress", R!RuleEvents)
           v == [w EXCEPT !.rules = rs]
<1>1. rs \in R!RuleSet
  BY UpdateIs DEF Worlds
<1> HIDE DEF rs
<1>2. v \in Worlds /\ RulesOnly(v, w)
  BY <1>1 DEF Worlds, RulesOnly, Beside, Queue
<1>3. R!SetRuleComplete(w, goal) = R!RunRules(v)
  BY DEF R!SetRuleComplete, rs
<1> HIDE DEF v
<1>4. RulesOnly(R!RunRules(v), v)
  BY <1>2, RunRulesKeeps
<1> QED
  BY <1>2, <1>3, <1>4 DEF RulesOnly, Beside

---------------------------------------------------------------------------
(* Procedures.                                                             *)

\* What a world keeps when a procedure begins, goes on or is cancelled: it works
\* on its own records and on those of the handset service.
ProcOnly(r, w) ==
  /\ r \in Worlds /\ LinksOK(r) /\ Beside(r, w)
  /\ r.topo = w.topo /\ r.rules = w.rules /\ r.timer = w.timer

\* A step after another
LEMMA ProcAgain ==
  ASSUME NEW w, NEW v, NEW r, ProcOnly(v, w), ProcOnly(r, v)
  PROVE  ProcOnly(r, w)
BY DEF ProcOnly, Beside

\* A message is sent that is none of the queue.
LEMMA ProcPost ==
  ASSUME NEW w \in Worlds, LinksOK(w), NEW m \in Messages, m \notin G!QueuedMessages
  PROVE  ProcOnly(Post(w, m), w)
<1>1. /\ Post(w, m) = [w EXCEPT !.mail = Append(w.mail, m)]
      /\ Post(w, m) \in Worlds /\ Beside(Post(w, m), w)
  BY PostIs
<1> QED
  BY <1>1 DEF ProcOnly, Worlds, LinksOK

LEMMA ProcDrop ==
  ASSUME NEW w \in Worlds, LinksOK(w), NEW m \in Messages, m \notin G!QueuedMessages
  PROVE  ProcOnly(Drop(w, m), w)
<1>1. /\ Drop(w, m) = [w EXCEPT !.mail = Dropping(w.mail, {m})]
      /\ Drop(w, m) \in Worlds /\ Beside(Drop(w, m), w)
  BY DropIs
<1> QED
  BY <1>1 DEF ProcOnly, Worlds, LinksOK

\* The two confirmations that are sent to oneself
LEMMA LaterKeeps ==
  ASSUME NEW w \in Worlds, LinksOK(w), NEW goal \in GoalIds \ {"system_stop"}
  PROVE  ProcOnly(CompleteLater(w, goal), w) /\ ProcOnly(CancelLater(w, goal), w)
<1>1. /\ About("complete", goal) \in Messages /\ About("complete", goal) \notin G!QueuedMessages
      /\ About("cancelled", goal) \in Messages /\ About("cancelled", goal) \notin G!QueuedMessages
  BY MessagesAre
<1>2. ProcOnly(CompleteLater(w, goal), w)
  BY <1>1, ProcPost DEF CompleteLater
<1> DEFINE v == Post(w, About("cancelled", goal))
<1>3. ProcOnly(v, w)
  BY <1>1, ProcPost
<1>4. CancelLater(w, goal) = Drop(v, About("complete", goal))
  BY DEF CancelLater
<1> HIDE DEF v
<1>5. ProcOnly(Drop(v, About("complete", goal)), v)
  BY <1>1, <1>3, ProcDrop DEF ProcOnly
<1> QED
  BY <1>2, <1>3, <1>4, <1>5, ProcAgain

\* The records of the procedures change and nothing else.
LEMMA ProcSet ==
  ASSUME NEW w \in Worlds, LinksOK(w), NEW proc2 \in Procs
  PROVE  ProcOnly([w EXCEPT !.proc = proc2], w)
BY DEF ProcOnly, Worlds, LinksOK, Beside, Queue

\* So do the records of the handset service.
LEMMA EnvSet ==
  ASSUME NEW w \in Worlds, NEW env2 \in Envs, env2.all => env2.links > 0
  PROVE  ProcOnly([w EXCEPT !.env = env2], w)
BY DEF ProcOnly, Worlds, LinksOK, Beside, Queue

\* All links are to end; the confirmation comes at once when there is none.
LEMMA DisconnectAllKeeps ==
  ASSUME NEW w \in Worlds, LinksOK(w)
  PROVE  ProcOnly(DisconnectAll(w), w) /\ DisconnectAll(w).proc = w.proc
<1>1. CASE w.env.all
  BY <1>1 DEF DisconnectAll, ProcOnly, Beside
<1>2. CASE ~w.env.all /\ w.env.links > 0
  <2> DEFINE e == [w.env EXCEPT !.all = TRUE]
             r == [w EXCEPT !.env = e]
  <2>1. DisconnectAll(w) = r
    BY <1>2 DEF DisconnectAll, Worlds
  <2>2. e \in Envs /\ (e.all => e.links > 0)
    BY <1>2 DEF Worlds, Envs
  <2> HIDE DEF e
  <2>3. ProcOnly(r, w) /\ r.proc = w.proc
    BY <2>2, EnvSet DEF Worlds
  <2> QED
    BY <2>1, <2>3
<1>3. CASE ~w.env.all /\ ~(w.env.links > 0)
  <2>1. DisconnectAll(w) = Post(w, Plain("ALL_CFM"))
    BY <1>3 DEF DisconnectAll
  <2>2. Plain("ALL_CFM") \in Messages /\ Plain("ALL_CFM") \notin G!QueuedMessages
    BY MessagesAre
  <2>3. Post(w, Plain("ALL_CFM")).proc = w.proc
    BY DEF Post, Worlds
  <2> QED
    BY <2>1, <2>2, <2>3, ProcPost
<1> QED
  BY <1>1, <1>2, <1>3

\* A step of the script
LEMMA StartStepKeeps ==
  ASSUME NEW w \in Worlds, LinksOK(w), NEW n \in 1 .. 7
  PROVE  ProcOnly(StartStep(w, n), w)
<1> DEFINE at == [w EXCEPT !.proc.step = n]
           step == Plain("step")
<1>1. ProcOnly(at, w)
  <2> DEFINE p == [w.proc EXCEPT !.step = n]
  <2>1. p \in Procs
    BY DEF Worlds, Procs
  <2>2. at = [w EXCEPT !.proc = p]
    OBVIOUS
  <2> HIDE DEF p
  <2> QED
    BY <2>1, <2>2, ProcSet
<1>2. /\ step \in Messages /\ step \notin G!QueuedMessages
      /\ Plain("STOP_FINISHED") \in Messages /\ Plain("STOP_FINISHED") \notin G!QueuedMessages
  BY MessagesAre
<1>3. at \in Worlds /\ LinksOK(at)
  BY <1>1 DEF ProcOnly
<1>4. n = 1 \/ n = 2 \/ n = 3 \/ n = 4 \/ n = 5 \/ n = 6 \/ n = 7
  OBVIOUS
<1> HIDE DEF at, step
<1>5. CASE n = 1
  <2>1. StartStep(w, n) = Post(at, step)
    BY <1>5, ScriptIs DEF StartStep, at, step
  <2> QED
    BY <1>1, <1>2, <1>3, <2>1, ProcPost, ProcAgain
<1>6. CASE n = 2
  <2> DEFINE e == [at.env EXCEPT !.allowed = FALSE]
             v == [at EXCEPT !.env = e]
  <2>1. StartStep(w, n) = Post([at EXCEPT !.env.allowed = FALSE], step)
    BY <1>6, ScriptIs DEF StartStep, at, step
  <2>2. e \in Envs /\ (e.all => e.links > 0)
    BY <1>3 DEF Worlds, Envs, LinksOK
  <2>3. StartStep(w, n) = Post(v, step)
    BY <2>1
  <2> HIDE DEF e
  <2>4. ProcOnly(v, at)
    BY <1>3, <2>2, EnvSet
  <2> HIDE DEF v
  <2>5. ProcOnly(Post(v, step), v)
    BY <1>2, <2>4, ProcPost DEF ProcOnly
  <2> QED
    BY <1>1, <2>3, <2>4, <2>5, ProcAgain
<1>7. CASE n = 3
  <2> DEFINE e == [at.env EXCEPT !.connectable = FALSE]
             v == [at EXCEPT !.env = e]
  <2>1. StartStep(w, n) = Post([at EXCEPT !.env.connectable = FALSE], step)
    BY <1>7, ScriptIs DEF StartStep, at, step
  <2>2. e \in Envs /\ (e.all => e.links > 0)
    BY <1>3 DEF Worlds, Envs, LinksOK
  <2>3. StartStep(w, n) = Post(v, step)
    BY <2>1
  <2> HIDE DEF e
  <2>4. ProcOnly(v, at)
    BY <1>3, <2>2, EnvSet
  <2> HIDE DEF v
  <2>5. ProcOnly(Post(v, step), v)
    BY <1>2, <2>4, ProcPost DEF ProcOnly
  <2> QED
    BY <1>1, <2>3, <2>4, <2>5, ProcAgain
<1>8. CASE n = 4
  <2> DEFINE p == [at.proc EXCEPT !.le = "script"]
             v == [at EXCEPT !.proc = p]
  <2>1. StartStep(w, n) = v
    BY <1>8, ScriptIs DEF StartStep, at
  <2>2. p \in Procs
    BY <1>3 DEF Worlds, Procs
  <2> HIDE DEF p
  <2>3. ProcOnly(v, at)
    BY <1>3, <2>2, ProcSet
  <2> QED
    BY <1>1, <2>1, <2>3, ProcAgain
<1>9. CASE n = 5
  <2> DEFINE d == DisconnectAll(at)
             p == [d.proc EXCEPT !.disconnect = "script"]
             v == [d EXCEPT !.proc = p]
  <2>1. StartStep(w, n) = v
    BY <1>9, ScriptIs DEF StartStep, at
  <2>2. ProcOnly(d, at)
    BY <1>3, DisconnectAllKeeps
  <2> HIDE DEF d
  <2>3. p \in Procs
    BY <2>2 DEF ProcOnly, Worlds, Procs
  <2> HIDE DEF p
  <2>4. ProcOnly(v, d)
    BY <2>2, <2>3, ProcSet DEF ProcOnly
  <2> QED
    BY <1>1, <2>1, <2>2, <2>4, ProcAgain
<1>10. CASE n = 6
  <2>1. StartStep(w, n) = at
    BY <1>10, ScriptIs DEF StartStep, at
  <2> QED
    BY <1>1, <2>1
<1>11. CASE n = 7
  <2> DEFINE v == Post(at, Plain("STOP_FINISHED"))
  <2>1. StartStep(w, n) = Post(v, step)
    BY <1>11, ScriptIs DEF StartStep, at, step
  <2>2. ProcOnly(v, at)
    BY <1>2, <1>3, ProcPost
  <2> HIDE DEF v
  <2>3. ProcOnly(Post(v, step), v)
    BY <1>2, <2>2, ProcPost DEF ProcOnly
  <2> QED
    BY <1>1, <2>1, <2>2, <2>3, ProcAgain
<1> QED
  BY <1>4, <1>5, <1>6, <1>7, <1>8, <1>9, <1>10, <1>11

\* The procedures of the table, as they begin
LEMMA BeginKeeps ==
  ASSUME NEW w \in Worlds, LinksOK(w), NEW goal \in GoalIds
  PROVE  ProcOnly(BeginProcedure(w, goal), w)
<1>1. CASE goal = "connectable_handset"
  <2> DEFINE e == [w.env EXCEPT !.connectable = TRUE]
             v == [w EXCEPT !.env = e]
  <2>1. BeginProcedure(w, goal) = CompleteLater(v, goal)
    BY <1>1 DEF BeginProcedure, ConnectableStart
  <2>2. e \in Envs /\ (e.all => e.links > 0) /\ goal \in GoalIds \ {"system_stop"}
    BY <1>1 DEF Worlds, Envs, LinksOK
  <2> HIDE DEF e
  <2>3. ProcOnly(v, w)
    BY <2>2, EnvSet
  <2> HIDE DEF v
  <2>4. ProcOnly(CompleteLater(v, goal), v)
    BY <2>2, <2>3, LaterKeeps DEF ProcOnly
  <2> QED
    BY <2>1, <2>3, <2>4, ProcAgain
<1>2. CASE goal = "allow_handset_connect"
  <2> DEFINE e == [w.env EXCEPT !.allowed = TRUE]
             v == [w EXCEPT !.env = e]
  <2>1. BeginProcedure(w, goal) = CompleteLater(v, goal)
    BY <1>2 DEF BeginProcedure, AllowHandsetStart
  <2>2. e \in Envs /\ (e.all => e.links > 0) /\ goal \in GoalIds \ {"system_stop"}
    BY <1>2 DEF Worlds, Envs, LinksOK
  <2> HIDE DEF e
  <2>3. ProcOnly(v, w)
    BY <2>2, EnvSet
  <2> HIDE DEF v
  <2>4. ProcOnly(CompleteLater(v, goal), v)
    BY <2>2, <2>3, LaterKeeps DEF ProcOnly
  <2> QED
    BY <2>1, <2>3, <2>4, ProcAgain
<1>3. CASE goal = "allow_le_connection"
  <2> DEFINE p == [w.proc EXCEPT !.le = "goal"]
  <2>1. BeginProcedure(w, goal) = [w EXCEPT !.proc = p]
    BY <1>3 DEF BeginProcedure, AllowLeStart
  <2>2. p \in Procs
    BY DEF Worlds, Procs
  <2> HIDE DEF p
  <2> QED
    BY <2>1, <2>2, ProcSet
<1>4. CASE goal = "connect_handset"
  <2> DEFINE p == [w.proc EXCEPT !.connect = "running"]
  <2>1. BeginProcedure(w, goal) = [w EXCEPT !.proc = p]
    BY <1>4 DEF BeginProcedure, ConnectStart
  <2>2. p \in Procs
    BY DEF Worlds, Procs
  <2> HIDE DEF p
  <2> QED
    BY <2>1, <2>2, ProcSet
<1>5. CASE goal = "disconnect_handset"
  <2> DEFINE d == DisconnectAll(w)
             p == [d.proc EXCEPT !.disconnect = "goal"]
  <2>1. BeginProcedure(w, goal) = [d EXCEPT !.proc = p]
    BY <1>5 DEF BeginProcedure, DisconnectStart
  <2>2. ProcOnly(d, w)
    BY DisconnectAllKeeps
  <2> HIDE DEF d
  <2>3. p \in Procs
    BY <2>2 DEF ProcOnly, Worlds, Procs
  <2> HIDE DEF p
  <2>4. ProcOnly([d EXCEPT !.proc = p], d)
    BY <2>2, <2>3, ProcSet DEF ProcOnly
  <2> QED
    BY <2>1, <2>2, <2>4, ProcAgain
<1>6. CASE goal = "disconnect_lru_handset"
  <2> DEFINE d == DisconnectLru(w)
             p == [d.proc EXCEPT !.disconnect = "goal"]
  <2>1. BeginProcedure(w, goal) = [d EXCEPT !.proc = p]
    BY <1>6 DEF BeginProcedure, DisconnectLruStart
  <2>2. ProcOnly(d, w)
    <3> DEFINE e == [w.env EXCEPT !.one = TRUE]
    <3>1. d = IF w.env.links > 0 THEN [w EXCEPT !.env = e] ELSE w
      BY DEF DisconnectLru
    <3>2. e \in Envs /\ (e.all => e.links > 0)
      BY DEF Worlds, Envs, LinksOK
    <3> HIDE DEF d, e
    <3>3. ProcOnly([w EXCEPT !.env = e], w) /\ ProcOnly(w, w)
      BY <3>2, EnvSet DEF ProcOnly, Beside
    <3> QED
      BY <3>1, <3>3
  <2> HIDE DEF d
  <2>3. p \in Procs
    BY <2>2 DEF ProcOnly, Worlds, Procs
  <2> HIDE DEF p
  <2>4. ProcOnly([d EXCEPT !.proc = p], d)
    BY <2>2, <2>3, ProcSet DEF ProcOnly
  <2> QED
    BY <2>1, <2>2, <2>4, ProcAgain
<1>7. CASE goal = "system_stop"
  <2>1. BeginProcedure(w, goal) = StartStep(w, 1)
    BY <1>7 DEF BeginProcedure
  <2> QED
    BY <2>1, StartStepKeeps
<1> QED
  BY <1>1, <1>2, <1>3, <1>4, <1>5, <1>6, <1>7, GoalsAre

\* And as they are cancelled
LEMMA CancelKeeps ==
  ASSUME NEW w \in Worlds, LinksOK(w), NEW goal \in GoalIds \ {"system_stop"}
  PROVE  ProcOnly(CancelProcedure(w, goal), w)
<1>1. CASE goal = "connectable_handset"
  <2> DEFINE e == [w.env EXCEPT !.connectable = FALSE]
             v == [w EXCEPT !.env = e]
  <2>1. CancelProcedure(w, goal) = CancelLater(v, goal)
    BY <1>1 DEF CancelProcedure, ConnectableCancel
  <2>2. e \in Envs /\ (e.all => e.links > 0)
    BY DEF Worlds, Envs, LinksOK
  <2> HIDE DEF e
  <2>3. ProcOnly(v, w)
    BY <2>2, EnvSet
  <2> HIDE DEF v
  <2>4. ProcOnly(CancelLater(v, goal), v)
    BY <2>3, LaterKeeps DEF ProcOnly
  <2> QED
    BY <2>1, <2>3, <2>4, ProcAgain
<1>2. CASE goal = "allow_handset_connect"
  <2>1. CancelProcedure(w, goal) = CancelLater(w, goal)
    BY <1>2 DEF CancelProcedure, AllowHandsetCancel
  <2> QED
    BY <2>1, LaterKeeps
<1>3. CASE goal = "allow_le_connection"
  <2> DEFINE p == [w.proc EXCEPT !.le = "none"]
             v == [w EXCEPT !.proc = p]
  <2>1. CancelProcedure(w, goal) = CancelLater(v, goal)
    BY <1>3 DEF CancelProcedure, AllowLeCancel
  <2>2. p \in Procs
    BY DEF Worlds, Procs
  <2> HIDE DEF p
  <2>3. ProcOnly(v, w)
    BY <2>2, ProcSet
  <2> HIDE DEF v
  <2>4. ProcOnly(CancelLater(v, goal), v)
    BY <2>3, LaterKeeps DEF ProcOnly
  <2> QED
    BY <2>1, <2>3, <2>4, ProcAgain
<1>4. CASE goal = "connect_handset"
  <2> DEFINE p == [w.proc EXCEPT !.connect = "cancelling"]
  <2>1. CancelProcedure(w, goal) = [w EXCEPT !.proc = p]
    BY <1>4 DEF CancelProcedure, ConnectCancel
  <2>2. p \in Procs
    BY DEF Worlds, Procs
  <2> HIDE DEF p
  <2> QED
    BY <2>1, <2>2, ProcSet
<1>5. CASE goal \in {"disconnect_handset", "disconnect_lru_handset"}
  <2> DEFINE p == [w.proc EXCEPT !.disconnect = "none"]
             v == [w EXCEPT !.proc = p]
  <2>1. CancelProcedure(w, goal) = CancelLater(v, goal)
    BY <1>5 DEF CancelProcedure, DisconnectCancel
  <2>2. p \in Procs
    BY DEF Worlds, Procs
  <2> HIDE DEF p
  <2>3. ProcOnly(v, w)
    BY <2>2, ProcSet
  <2> HIDE DEF v
  <2>4. ProcOnly(CancelLater(v, goal), v)
    BY <2>3, LaterKeeps DEF ProcOnly
  <2> QED
    BY <2>1, <2>3, <2>4, ProcAgain
<1> QED
  BY <1>1, <1>2, <1>3, <1>4, <1>5, GoalsAre

---------------------------------------------------------------------------
(* Goals.                                                                  *)

\* What a world keeps when the queue changes
QueueOnly(r, w) ==
  /\ r \in Worlds /\ r.active = w.active /\ r.proc = w.proc /\ r.env = w.env
  /\ r.topo = w.topo /\ r.rules = w.rules /\ r.timer = w.timer

\* What it keeps when procedures begin and end as well
GoalsOnly(r, w) ==
  /\ r \in Worlds /\ LinksOK(r)
  /\ r.topo = w.topo /\ r.rules = w.rules /\ r.timer = w.timer

\* The goals engine has the same operator on sequences.
LEMMA SameDropping ==
  ASSUME NEW s, NEW T
  PROVE  G!Dropping(s, T) = Dropping(s, T)
<1>1. \A U : G!Keep(s, U) = Keep(s, U)
  BY DEF G!Keep, Keep
<1> QED
  BY <1>1 DEF G!Dropping, Dropping

\* What the messages of the queue are
LEMMA QueueIs ==
  ASSUME NEW w \in Worlds
  PROVE  /\ Queue(w) \in Seq(G!QueuedMessages) /\ Queue(w) \in Seq(Messages)
         /\ Len(Queue(w)) \in Nat /\ DOMAIN Queue(w) = 1 .. Len(Queue(w))
         /\ \A n \in DOMAIN Queue(w) : Queue(w)[n] = G!QueuedMessage(Queue(w)[n].goal)
<1>1. w.mail \in Seq(Messages)
  BY DEF Worlds
<1>2. Queue(w) \in Seq(G!QueuedMessages)
  <2>1. Queue(w) \in Seq(Messages \cap G!QueuedMessages)
    BY <1>1, KeepType DEF Queue
  <2>2. Messages \cap G!QueuedMessages = G!QueuedMessages
    BY QueuedAre
  <2> QED
    BY <2>1, <2>2
<1>3. Queue(w) \in Seq(Messages)
  BY <1>1, KeepPart DEF Queue
<1> DEFINE q == Queue(w)
<1> HIDE DEF q
<1>4. Len(q) \in Nat /\ DOMAIN q = 1 .. Len(q) /\ \A n \in DOMAIN q : q[n] \in G!QueuedMessages
  BY <1>2, LenProperties, ElementOfSeq DEF q
<1>5. \A m \in G!QueuedMessages : m = G!QueuedMessage(m.goal)
  BY QueuedAre DEF G!QueuedMessage
<1> QED
  BY <1>2, <1>3, <1>4, <1>5 DEF q

\* Slots of some goals
LEMMA SlotsAre ==
  /\ \A s \in Slots : DOMAIN s \subseteq GoalIds /\ \A g \in DOMAIN s : s[g] \subseteq GoalIds
  /\ \A D \in SUBSET GoalIds : [D -> SUBSET GoalIds] \subseteq Slots
  /\ << >> \in Slots
<1>1. << >> \in [{} -> SUBSET GoalIds]
  OBVIOUS
<1> QED
  BY <1>1 DEF Slots

\* The pending queue is reset; with a count of zero it holds no message.
LEMMA ResetIfEmptyKeeps ==
  ASSUME NEW w \in Worlds
  PROVE  /\ QueueOnly(G!ResetIfEmpty(w), w) /\ (Held(w) => Held(G!ResetIfEmpty(w)))
         /\ G!ResetIfEmpty(w).count = w.count
<1>1. CASE w.count = 0
  <2> DEFINE r == [w EXCEPT !.slots = << >>]
  <2>1. G!ResetIfEmpty(w) = r
    BY <1>1 DEF G!ResetIfEmpty
  <2>2. /\ r \in Worlds /\ r.mail = w.mail /\ r.slots = << >> /\ r.count = w.count
        /\ QueueOnly(r, w)
    BY SlotsAre DEF Worlds, QueueOnly
  <2>3. ASSUME Held(w) PROVE Held(r)
    <3>1. Queue(r) = Queue(w)
      BY <2>2 DEF Queue
    <3>2. DOMAIN Queue(w) = {}
      BY <1>1, <2>3, QueueIs DEF Held
    <3>3. DOMAIN r.slots = {}
      BY <2>2
    <3> HIDE DEF r
    <3> QED
      BY <2>2, <2>3, <3>1, <3>2, <3>3 DEF Held
  <2> QED
    BY <2>1, <2>2, <2>3
<1>2. CASE w.count # 0
  BY <1>2 DEF G!ResetIfEmpty, QueueOnly
<1> QED
  BY <1>1, <1>2

\* The counter is a byte.
LEMMA ByteIs ==
  ASSUME NEW n \in Int
  PROVE  n % 256 \in 0 .. 255 /\ (n \in 0 .. 255 => n % 256 = n)
OBVIOUS

LEMMA CountIs ==
  ASSUME NEW w \in Worlds
  PROVE  w.count \in Nat /\ w.count \in 0 .. 255 /\ w.count <= 255
<1>1. w.count \in 0 .. 255
  BY DEF Worlds
<1> DEFINE a == w.count
<1> HIDE DEF a
<1>2. a \in Nat /\ a \in 0 .. 255 /\ a <= 255
  BY <1>1 DEF a
<1> QED
  BY <1>2 DEF a

\* A goal joins the queue, with goals to wait for.
LEMMA QueueGoalKeeps ==
  ASSUME NEW w \in Worlds, NEW goal \in GoalIds, NEW wait \in SUBSET GoalIds
  PROVE  /\ QueueOnly(G!QueueGoal(w, goal, wait), w)
         /\ Held(w) /\ Roomy(w) /\ wait \subseteq w.active => Held(G!QueueGoal(w, goal, wait))
<1> DEFINE m == G!QueuedMessage(goal)
           q == Append(w.mail, m)
           s == [g \in DOMAIN w.slots \cup {goal} |-> IF g = goal THEN wait ELSE w.slots[g]]
           a == w.count
           c == (a + 1) % 256
           r == [w EXCEPT !.slots = s, !.mail = q, !.count = c]
<1>1. G!QueueGoal(w, goal, wait) = r
  BY DEF G!QueueGoal, G!CountLimit
<1>2. m \in G!QueuedMessages /\ m \in Messages /\ m.goal = goal
  BY MessagesAre, QueuedAre DEF G!QueuedMessage
<1>3. w.mail \in Seq(Messages) /\ w.count \in 0 .. 255 /\ w.slots \in Slots
  BY DEF Worlds
<1>4. s \in Slots
  <2> DEFINE D == DOMAIN w.slots \cup {goal}
  <2>1. D \in SUBSET GoalIds /\ s \in [D -> SUBSET GoalIds]
    BY <1>3, SlotsAre
  <2> HIDE DEF D, s
  <2> QED
    BY <2>1, SlotsAre
<1>5. a \in Nat /\ c \in 0 .. 255 /\ (a < 255 => c = a + 1)
  <2>1. a \in Nat
    BY CountIs
  <2> HIDE DEF a
  <2>2. a + 1 \in Int /\ (a < 255 => a + 1 \in 0 .. 255)
    BY <2>1
  <2> QED
    BY <2>1, <2>2, ByteIs
<1>6. q \in Seq(Messages) /\ Keep(q, G!QueuedMessages) = Append(Queue(w), m)
  BY <1>2, <1>3, KeepAppend, AppendProperties DEF Queue
<1> HIDE DEF m, q
<1>7. /\ QueueOnly(r, w) /\ r.mail = q /\ r.slots = s /\ r.count = c
  <2> HIDE DEF s, c
  <2> QED
    BY <1>4, <1>5, <1>6 DEF Worlds, QueueOnly
<1>8. ASSUME Held(w), Roomy(w), wait \subseteq w.active PROVE Held(r)
  <2>1. c = a + 1
    <3>1. a < 255
      BY <1>8 DEF Roomy
    <3> QED
      BY <1>5, <3>1
  <2> DEFINE k == Queue(w)
  <2>2. /\ k \in Seq(Messages) /\ Len(k) \in Nat /\ DOMAIN k = 1 .. Len(k) /\ Len(k) <= w.count
        /\ \A n \in DOMAIN k : k[n].goal \in DOMAIN w.slots
    BY <1>8, QueueIs DEF Held
  <2> HIDE DEF k
  <2>3. /\ Len(Append(k, m)) = Len(k) + 1 /\ DOMAIN Append(k, m) = 1 .. Len(k) + 1
        /\ \A n \in 1 .. Len(k) : Append(k, m)[n] = k[n]
        /\ Append(k, m)[Len(k) + 1] = m
    BY <1>2, <2>2, AppendProperties, LenProperties
  <2>4. Queue(r) = Append(k, m)
    BY <1>6, <1>7 DEF Queue, k
  <2>5. \A n \in DOMAIN Append(k, m) : Append(k, m)[n].goal \in DOMAIN s
    <3>1. ASSUME NEW n \in 1 .. Len(k) + 1 PROVE Append(k, m)[n].goal \in DOMAIN w.slots \cup {goal}
      <4>1. n \in 1 .. Len(k) \/ n = Len(k) + 1
        BY <2>2
      <4> QED
        BY <1>2, <2>2, <2>3, <4>1
    <3> QED
      BY <2>3, <3>1
  <2>6. \A g \in DOMAIN s : s[g] \subseteq r.active
    BY <1>7, <1>8 DEF QueueOnly, Held
  <2>7. Len(Append(k, m)) <= r.count
    <3> DEFINE n == Len(k)
    <3>1. n \in Nat /\ a \in Nat /\ n <= a
      BY <1>5, <2>2
    <3>2. Len(Append(k, m)) = n + 1 /\ r.count = a + 1
      BY <1>7, <2>1, <2>3
    <3> HIDE DEF n, a, c
    <3> QED
      BY <3>1, <3>2
  <2> HIDE DEF r, s
  <2> QED
    BY <1>7, <2>4, <2>5, <2>6, <2>7 DEF Held
<1> QED
  BY <1>1, <1>7, <1>8

\* What is left of a sequence of messages is of the queue of which it was.
LEMMA StillQueued ==
  ASSUME NEW w \in Worlds, NEW T, NEW k \in DOMAIN Keep(w.mail, T),
         Keep(w.mail, T)[k] \in G!QueuedMessages
  PROVE  \E n \in DOMAIN Queue(w) : Queue(w)[n] = Keep(w.mail, T)[k]
<1>1. w.mail \in Seq(Messages)
  BY DEF Worlds
<1>2. PICK n \in DOMAIN w.mail : w.mail[n] = Keep(w.mail, T)[k]
  BY <1>1, KeepFrom
<1>3. w.mail[n] \in G!QueuedMessages
  BY <1>2
<1>4. \E i \in DOMAIN Queue(w) : Queue(w)[i] = w.mail[n]
  BY <1>1, <1>3, KeepAll DEF Queue
<1> QED
  BY <1>2, <1>4

\* A goal leaves the queue, with all its messages.
LEMMA DequeGoalKeeps ==
  ASSUME NEW w \in Worlds, NEW goal \in GoalIds
  PROVE  /\ QueueOnly(G!DequeGoal(w, goal), w)
         /\ Held(w) => Held(G!DequeGoal(w, goal)) /\ G!DequeGoal(w, goal).count <= w.count
<1>0. CASE goal \notin DOMAIN w.slots
  BY <1>0, CountIs DEF G!DequeGoal, QueueOnly
<1>1. CASE goal \in DOMAIN w.slots
  <2> DEFINE m == G!QueuedMessage(goal)
             kept == Dropping(w.mail, {m})
             d == Len(w.mail) - Len(kept)
             a == w.count
             c == (a - d) % 256
             s == [g \in DOMAIN w.slots \ {goal} |-> w.slots[g]]
             r == [w EXCEPT !.mail = kept, !.count = c, !.slots = s]
  <2>1. G!DequeGoal(w, goal) = r
    BY <1>1, SameDropping DEF G!DequeGoal, G!CountLimit
  <2>2. m \in G!QueuedMessages /\ m.goal = goal
    BY MessagesAre DEF G!QueuedMessage
  <2>3. w.mail \in Seq(Messages) /\ w.slots \in Slots
    BY DEF Worlds
  <2>4. a \in Nat /\ a \in 0 .. 255
    BY CountIs
  <2>5. kept = Keep(w.mail, Messages \ {m})
    BY <2>3, DroppingIs
  <2>5a. kept \in Seq(Messages)
    <3> HIDE DEF m, kept
    <3> QED
      BY <2>3, <2>5, KeepPart
  <2>6. d \in Nat /\ d = Len(Keep(w.mail, {m}))
    <3> DEFINE x == Len(kept)
               y == Len(Keep(w.mail, {m}))
               z == Len(w.mail)
    <3>1. x \in Nat /\ z \in Nat
      BY <2>3, <2>5a, LenProperties
    <3>2. Keep(w.mail, {m}) \in Seq(Messages)
      BY <2>3, KeepPart
    <3>3. y \in Nat
      BY <3>2, LenProperties
    <3>4. x + y = z
      BY <2>3, DroppingLen
    <3> HIDE DEF x, y, z
    <3>5. z - x = y
      BY <3>1, <3>3, <3>4
    <3> QED
      BY <3>3, <3>5 DEF x, y, z
  <2>7. s \in Slots
    <3> DEFINE D == DOMAIN w.slots \ {goal}
    <3>1. D \in SUBSET GoalIds /\ s \in [D -> SUBSET GoalIds]
      BY <2>3, SlotsAre
    <3> HIDE DEF D, s
    <3> QED
      BY <3>1, SlotsAre
  <2>8. c \in 0 .. 255 /\ (d <= a => c = a - d)
    <3>0. d \in Nat
      BY <2>6
    <3> HIDE DEF a, d
    <3>1. a - d \in Int /\ (d <= a => a - d \in 0 .. 255)
      BY <2>4, <3>0
    <3> QED
      BY <3>1, ByteIs
  <2>9. QueueOnly(r, w) /\ r.mail = kept /\ r.slots = s /\ r.count = c
    <3> HIDE DEF s, c, kept
    <3> QED
      BY <2>5a, <2>7, <2>8 DEF Worlds, QueueOnly
  <2>10. Queue(r) = Keep(w.mail, G!QueuedMessages \ {m})
    <3>1. Keep(kept, G!QueuedMessages) = Keep(w.mail, (Messages \ {m}) \cap G!QueuedMessages)
      BY <2>3, <2>5, KeepTwice
    <3>2. (Messages \ {m}) \cap G!QueuedMessages = G!QueuedMessages \ {m}
      BY QueuedAre
    <3> QED
      BY <2>9, <3>1, <3>2 DEF Queue
  <2>11. Len(Queue(w)) = d + Len(Queue(r))
    <3> DEFINE U == G!QueuedMessages \ {m}
    <3>1. {m} \cap U = {} /\ {m} \cup U = G!QueuedMessages
      BY <2>2
    <3>2. Queue(r) = Keep(w.mail, U)
      BY <2>10
    <3> HIDE DEF U, r, d
    <3>3. Len(Keep(w.mail, {m} \cup U)) = Len(Keep(w.mail, {m})) + Len(Keep(w.mail, U))
      BY <2>3, <3>1, KeepSplit
    <3> QED
      BY <2>6, <3>1, <3>2, <3>3 DEF Queue
  <2>12. ASSUME Held(w) PROVE Held(r) /\ r.count <= a
    <3>1. Len(Queue(w)) <= a
      BY <2>12 DEF Held
    <3>2. Len(Queue(r)) \in Nat
      BY <2>9, QueueIs DEF QueueOnly
    <3>3. Len(Queue(r)) <= r.count /\ r.count <= a
      <4> DEFINE l == Len(Queue(r))
                 k == Len(Queue(w))
      <4>1. l \in Nat /\ k = d + l /\ k <= a /\ r.count = c
        BY <2>9, <2>11, <3>1, <3>2
      <4> HIDE DEF l, k, a, d, c, r
      <4>2. d <= a
        BY <2>4, <2>6, <4>1
      <4>3. c = a - d
        BY <2>8, <4>2
      <4>4. l <= c /\ c <= a
        BY <2>4, <2>6, <4>1, <4>3
      <4> QED
        BY <4>1, <4>4 DEF l
    <3>4. ASSUME NEW n \in DOMAIN Queue(r) PROVE Queue(r)[n].goal \in DOMAIN s
      <4> DEFINE U == G!QueuedMessages \ {m}
                 x == Queue(r)[n]
      <4>0. Queue(r) = Keep(w.mail, U)
        BY <2>10
      <4>1. x \in U
        <5> HIDE DEF U, r
        <5>1. n \in DOMAIN Keep(w.mail, U)
          BY <4>0, <3>4
        <5>2. Keep(w.mail, U)[n] \in U
          BY <2>3, <5>1, KeepFrom
        <5> QED
          BY <4>0, <5>2
      <4>2. \E i \in DOMAIN Queue(w) : Queue(w)[i] = x
        <5>1. n \in DOMAIN Keep(w.mail, U) /\ Keep(w.mail, U)[n] \in G!QueuedMessages
          BY <3>4, <4>0, <4>1
        <5> HIDE DEF U, r
        <5>2. \E i \in DOMAIN Queue(w) : Queue(w)[i] = Keep(w.mail, U)[n]
          BY <5>1, StillQueued
        <5> QED
          BY <4>0, <5>2
      <4>3. x.goal \in DOMAIN w.slots
        BY <2>12, <4>2 DEF Held
      <4>4. x = G!QueuedMessage(x.goal)
        BY <2>9, <3>4, QueueIs DEF QueueOnly
      <4>5. x.goal # goal
        <5> HIDE DEF x
        <5> QED
          BY <4>1, <4>4
      <4> QED
        BY <4>3, <4>5
    <3>5. \A g \in DOMAIN s : s[g] \subseteq r.active
      BY <2>9, <2>12 DEF QueueOnly, Held
    <3> HIDE DEF r, s, c
    <3> QED
      BY <2>9, <3>3, <3>4, <3>5 DEF Held
  <2> QED
    BY <2>1, <2>9, <2>12
<1> QED
  BY <1>0, <1>1

\* The queue is cleared.
LEMMA ClearPendingKeeps ==
  ASSUME NEW w \in Worlds
  PROVE  /\ QueueOnly(G!ClearPendingGoals(w), w)
         /\ G!ClearPendingGoals(w).count = 0 /\ Roomy(G!ClearPendingGoals(w))
         /\ Held(G!ClearPendingGoals(w))
<1> DEFINE kept == Dropping(w.mail, G!QueuedMessages)
           zero == 0
           v == [w EXCEPT !.mail = kept, !.count = zero]
           none == << >>
           r == [v EXCEPT !.slots = none]
<1>1. w.mail \in Seq(Messages)
  BY DEF Worlds
<1>2. kept = Keep(w.mail, Messages \ G!QueuedMessages)
  BY <1>1, DroppingIs
<1>2a. kept \in Seq(Messages)
  BY <1>1, <1>2, KeepPart
<1>3. v \in Worlds /\ QueueOnly(v, w) /\ v.mail = kept /\ v.count = zero
  <2>1. zero \in 0 .. 255
    OBVIOUS
  <2> HIDE DEF kept, zero
  <2> QED
    BY <1>2a, <2>1 DEF Worlds, QueueOnly
<1>4. G!ClearPendingGoals(w) = r
  <2>1. v.count = 0
    BY <1>3
  <2>2. G!ClearPendingGoals(w) = G!ResetIfEmpty(v)
    BY SameDropping DEF G!ClearPendingGoals
  <2> HIDE DEF v
  <2> QED
    BY <2>1, <2>2 DEF G!ResetIfEmpty
<1>5. Keep(kept, G!QueuedMessages) = << >>
  <2> DEFINE k == Keep(kept, G!QueuedMessages)
             V == Messages \ G!QueuedMessages
  <2>1. kept \in Seq(Messages \cap V)
    BY <1>1, <1>2, KeepType
  <2>2. Messages \cap V = V /\ V \cap G!QueuedMessages = {}
    OBVIOUS
  <2>3. kept \in Seq(V)
    BY <2>1, <2>2
  <2> HIDE DEF V, kept
  <2>4. k \in Seq(V \cap G!QueuedMessages)
    BY <2>3, KeepType
  <2>5. k \in Seq({})
    BY <2>2, <2>4
  <2> HIDE DEF k
  <2>6. Len(k) = 0
    BY <2>5, LenProperties, ElementOfSeq
  <2> QED
    BY <2>5, <2>6, EmptySeq DEF k
<1> HIDE DEF v, kept
<1>6. /\ r \in Worlds /\ QueueOnly(r, w) /\ r.mail = kept /\ r.count = 0 /\ r.slots = none
  <2>1. none \in Slots
    BY SlotsAre
  <2>2. v \in Worlds /\ QueueOnly(v, w) /\ v.mail = kept /\ v.count = 0
    BY <1>3
  <2> HIDE DEF none
  <2> QED
    BY <2>1, <2>2 DEF Worlds, QueueOnly
<1> HIDE DEF r
<1>7. Queue(r) = << >> /\ Len(Queue(r)) = 0 /\ DOMAIN Queue(r) = {}
  BY <1>5, <1>6 DEF Queue
<1>8. DOMAIN r.slots = {}
  BY <1>6
<1>9. Held(r) /\ Roomy(r)
  BY <1>6, <1>7, <1>8 DEF Held, Roomy
<1> QED
  BY <1>4, <1>6, <1>9

\* The locks are set to what the goals must wait for now.
LEMMA UpdateQueueMasksKeeps ==
  ASSUME NEW w \in Worlds
  PROVE  /\ QueueOnly(G!UpdateQueueMasks(w), w)
         /\ G!UpdateQueueMasks(w).count = w.count
         /\ (\A n \in DOMAIN Queue(w) : Queue(w)[n].goal \in DOMAIN w.slots)
              /\ (w.count = 0 => \A g \in DOMAIN w.slots : w.slots[g] \subseteq w.active)
              /\ Len(Queue(w)) <= w.count
            => Held(G!UpdateQueueMasks(w))
<1>1. CASE w.count = 0
  BY <1>1 DEF G!UpdateQueueMasks, QueueOnly, Held
<1>2. CASE w.count # 0
  <2> DEFINE D == {h \in DOMAIN w.slots : G!Waiting(w, h)}
             s == [g \in D |-> G!MustWaitFor(w, g)]
             r == [w EXCEPT !.slots = s]
  <2>1. G!UpdateQueueMasks(w) = r
    BY <1>2 DEF G!UpdateQueueMasks
  <2>2. w.slots \in Slots /\ w.active \subseteq GoalIds /\ w.mail \in Seq(Messages)
    BY DEF Worlds
  <2>3. D \in SUBSET GoalIds
    BY <2>2, SlotsAre
  <2>4. \A g : G!MustWaitFor(w, g) \subseteq w.active
    BY DEF G!MustWaitFor
  <2>5. s \in Slots
    <3>1. s \in [D -> SUBSET GoalIds]
      BY <2>2, <2>4
    <3> HIDE DEF D, s
    <3> QED
      BY <2>3, <3>1, SlotsAre
  <2>6. QueueOnly(r, w) /\ r.slots = s /\ r.count = w.count /\ r.mail = w.mail
    <3> HIDE DEF s
    <3> QED
      BY <2>5 DEF Worlds, QueueOnly
  <2>7. Queue(r) = Queue(w) /\ r.active = w.active
    BY <2>6 DEF Queue, QueueOnly
  <2>8. ASSUME NEW n \in DOMAIN Queue(w), Queue(w)[n].goal \in DOMAIN w.slots
        PROVE  Queue(w)[n].goal \in D
    <3> DEFINE g == Queue(w)[n].goal
    <3>1. Queue(w)[n] = G!QueuedMessage(g)
      BY QueueIs
    <3>2. \E i \in DOMAIN w.mail : w.mail[i] = Queue(w)[n]
      BY <2>2, KeepFrom DEF Queue
    <3>3. G!Waiting(w, g)
      BY <3>1, <3>2 DEF G!Waiting
    <3> QED
      BY <2>8, <3>3
  <2>9. \A g \in DOMAIN s : s[g] \subseteq w.active
    BY <2>4
  <2>10. DOMAIN s = D
    OBVIOUS
  <2> HIDE DEF r, s, D
  <2> QED
    BY <2>1, <2>6, <2>7, <2>8, <2>9, <2>10 DEF Held
<1> QED
  BY <1>1, <1>2

\* A goal starts: its procedure begins, and those that wait are locked anew.
LEMMA StartGoalKeeps ==
  ASSUME NEW w \in Worlds, LinksOK(w), NEW goal \in GoalIds
  PROVE  /\ GoalsOnly(G!StartGoal(w, goal), w)
         /\ G!StartGoal(w, goal).active = w.active \cup {goal}
         /\ Held(w) => Held(G!StartGoal(w, goal))
<1> DEFINE more == w.active \cup {goal}
           v == [w EXCEPT !.active = more]
           b == BeginProcedure(v, goal)
           r == G!UpdateQueueMasks(b)
<1>1. G!StartGoal(w, goal) = r
  BY DEF G!StartGoal
<1>2. more \in SUBSET GoalIds
  BY DEF Worlds
<1>3. /\ v \in Worlds /\ LinksOK(v) /\ v.active = more /\ v.slots = w.slots /\ v.count = w.count
      /\ v.mail = w.mail /\ v.topo = w.topo /\ v.rules = w.rules /\ v.timer = w.timer
  <2> HIDE DEF more
  <2> QED
    BY <1>2 DEF Worlds, LinksOK
<1> HIDE DEF v
<1>4. ProcOnly(b, v)
  BY <1>3, BeginKeeps
<1> HIDE DEF b
<1>5. /\ QueueOnly(r, b)
      /\ (\A n \in DOMAIN Queue(b) : Queue(b)[n].goal \in DOMAIN b.slots)
           /\ (b.count = 0 => \A g \in DOMAIN b.slots : b.slots[g] \subseteq b.active)
           /\ Len(Queue(b)) <= b.count
         => Held(r)
  BY <1>4, UpdateQueueMasksKeeps DEF ProcOnly
<1> HIDE DEF r
<1>6. GoalsOnly(r, w) /\ r.active = more
  BY <1>3, <1>4, <1>5 DEF GoalsOnly, ProcOnly, QueueOnly, Beside, LinksOK
<1>7. ASSUME Held(w) PROVE Held(r)
  <2>1. Queue(b) = Queue(w) /\ b.slots = w.slots /\ b.count = w.count /\ b.active = more
    BY <1>3, <1>4 DEF ProcOnly, Beside, Queue
  <2>2. /\ \A n \in DOMAIN Queue(b) : Queue(b)[n].goal \in DOMAIN b.slots
        /\ Len(Queue(b)) <= b.count
    BY <1>7, <2>1 DEF Held
  <2>3. \A g \in DOMAIN b.slots : b.slots[g] \subseteq b.active
    BY <1>7, <2>1 DEF Held
  <2> QED
    BY <1>5, <2>2, <2>3
<1> QED
  BY <1>1, <1>6, <1>7

\* What every cancellation of an active goal keeps holds when all are cancelled.
LEMMA CancelActiveInduction ==
  ASSUME NEW w, NEW A, w \in A,
         \A v \in A, goal \in w.active \cap GoalIds : CancelProcedure(v, goal) \in A
  PROVE  G!CancelActiveGoals(w) \in A
<1> DEFINE Turn(v, k) == IF Goals[k] \in w.active THEN CancelProcedure(v, Goals[k]) ELSE v
           Makes(f, n) == f = [k \in 0 .. n |-> IF k = 0 THEN w
                                                ELSE IF Goals[k] \in w.active
                                                     THEN CancelProcedure(f[k - 1], Goals[k])
                                                     ELSE f[k - 1]]
           after == CHOOSE f : Makes(f, Len(Goals))
<1>1. G!CancelActiveGoals(w) = after[Len(Goals)]
  BY DEF G!CancelActiveGoals
<1>2. Len(Goals) = 7 /\ \A n \in 1 .. 7 : Goals[n] \in GoalIds
  BY GoalsAre
<1>3. \E f : Makes(f, 7)
  <2> DEFINE B == {n \in Nat : \E f : Makes(f, n)}
  <2>1. 0 \in B
    <3> DEFINE f == [k \in 0 .. 0 |-> w]
    <3>1. Makes(f, 0)
      OBVIOUS
    <3> QED
      BY <3>1
  <2>2. ASSUME NEW n \in Nat, n \in B PROVE n + 1 \in B
    <3>1. PICK f : Makes(f, n)
      BY <2>2
    <3> DEFINE last == Turn(f[n], n + 1)
               g == [k \in 0 .. n + 1 |-> IF k = n + 1 THEN last ELSE f[k]]
    <3>2. ASSUME NEW k \in 0 .. n + 1
          PROVE  g[k] = IF k = 0 THEN w ELSE Turn(g[k - 1], k)
      <4>1. CASE k = n + 1
        <5>1. k # 0 /\ k - 1 = n /\ n \in 0 .. n + 1 /\ n # n + 1
          BY <2>2, <4>1
        <5>2. g[k] = Turn(f[n], k) /\ g[k - 1] = f[n]
          BY <4>1, <5>1
        <5> QED
          BY <5>1, <5>2
      <4>2. CASE k = 0
        <5>1. 0 \in 0 .. n /\ k # n + 1
          BY <2>2, <4>2
        <5> QED
          BY <3>1, <4>2, <5>1
      <4>3. CASE k # 0 /\ k # n + 1
        <5>1. k \in 0 .. n /\ k - 1 \in 0 .. n + 1 /\ k - 1 # n + 1
          BY <2>2, <4>3
        <5>2. f[k] = Turn(f[k - 1], k)
          BY <3>1, <4>3, <5>1
        <5> QED
          BY <4>3, <5>1, <5>2
      <4> QED
        BY <4>1, <4>2, <4>3
    <3>3. Makes(g, n + 1)
      BY <3>2
    <3>4. \E h : Makes(h, n + 1)
      <4> HIDE DEF g
      <4> QED
        BY <3>3
    <3> HIDE DEF Makes
    <3> QED
      BY <2>2, <3>4
  <2>3. Nat \subseteq B
    <3> HIDE DEF B
    <3> QED
      BY <2>1, <2>2, SetInduction
  <2> QED
    BY <2>3
<1>4. Makes(after, 7)
  BY <1>2, <1>3
<1> HIDE DEF after
<1>5. after[7] \in A
  <2> DEFINE B == {n \in Nat : n <= 7 => after[n] \in A}
  <2>1. 0 \in B
    BY <1>4
  <2>2. ASSUME NEW n \in Nat, n \in B PROVE n + 1 \in B
    <3> SUFFICES ASSUME n + 1 <= 7 PROVE after[n + 1] \in A
      OBVIOUS
    <3>1. /\ n <= 7 /\ n + 1 \in 0 .. 7 /\ n + 1 \in 1 .. 7 /\ n + 1 # 0 /\ (n + 1) - 1 = n
      BY <2>2
    <3>2. after[n + 1] = Turn(after[n], n + 1)
      BY <1>4, <3>1
    <3>3. after[n] \in A /\ Goals[n + 1] \in GoalIds
      BY <1>2, <2>2, <3>1
    <3> HIDE DEF Makes
    <3>4. CASE Goals[n + 1] \in w.active
      BY <3>2, <3>3, <3>4
    <3>5. CASE Goals[n + 1] \notin w.active
      BY <3>2, <3>3, <3>5
    <3> QED
      BY <3>4, <3>5
  <2>3. Nat \subseteq B
    <3> HIDE DEF B
    <3> QED
      BY <2>1, <2>2, SetInduction
  <2> QED
    BY <2>3
<1> QED
  BY <1>1, <1>2, <1>5

\* The goals that run are told to stop; they are active until they have stopped.
LEMMA CancelActiveKeeps ==
  ASSUME NEW w \in Worlds, LinksOK(w), "system_stop" \notin w.active
  PROVE  ProcOnly(G!CancelActiveGoals(w), w)
<1> DEFINE A == {v \in Worlds : ProcOnly(v, w)}
<1>1. w \in A
  BY DEF ProcOnly, Beside
<1>2. ASSUME NEW v \in A, NEW goal \in w.active \cap GoalIds PROVE CancelProcedure(v, goal) \in A
  <2>1. ProcOnly(v, w) /\ v \in Worlds /\ LinksOK(v) /\ goal \in GoalIds \ {"system_stop"}
    BY <1>2 DEF ProcOnly
  <2> DEFINE r == CancelProcedure(v, goal)
  <2> HIDE DEF r
  <2>2. ProcOnly(r, v)
    BY <2>1, CancelKeeps DEF r
  <2>3. ProcOnly(r, w)
    BY <2>1, <2>2, ProcAgain
  <2> QED
    BY <2>3 DEF ProcOnly, r
<1> HIDE DEF A
<1>3. G!CancelActiveGoals(w) \in A
  BY <1>1, <1>2, CancelActiveInduction
<1> QED
  BY <1>3 DEF A

\* The goals that cancel, exclude and run beside others
LEMMA ContentionIs ==
  ASSUME NEW goal \in GoalIds
  PROVE  /\ G!Cancels(goal) <=> goal = "system_stop"
         /\ Contention(goal) = "concurrent" <=> goal \in StartGoals
         /\ Exclusive(goal) # "system_stop"
BY GoalsAre DEF G!Cancels, Contention, Exclusive, StartGoals

\* A goal may run beside those that allow it, or alone.
LEMMA StartedConcurrent ==
  ASSUME NEW w, Concurrent(w), NEW r, NEW goal \in GoalIds, r.active = w.active \cup {goal},
         w.active = {} \/ (goal \in StartGoals /\ w.active \subseteq ConcurrentWith(goal))
  PROVE  Concurrent(r)
<1> SUFFICES ASSUME NEW g \in r.active, NEW h \in r.active, g # h PROVE h \in ConcurrentWith(g)
  BY DEF Concurrent
<1>1. CASE w.active = {}
  BY <1>1
<1>2. CASE goal \in StartGoals /\ w.active \subseteq ConcurrentWith(goal)
  <2>1. CASE g \in w.active /\ h \in w.active
    BY <2>1 DEF Concurrent
  <2>2. CASE g = goal
    BY <1>2, <2>2
  <2>3. CASE h = goal /\ g \in w.active
    BY <1>2, <2>3 DEF ConcurrentWith
  <2> QED
    BY <2>1, <2>2, <2>3
<1> QED
  BY <1>1, <1>2

\* The exclusive goal of one that is wanted is told to stop.
LEMMA HandleExclusiveKeeps ==
  ASSUME NEW w \in Worlds, LinksOK(w), NEW goal \in GoalIds
  PROVE  /\ GoalsOnly(G!HandleExclusive(w, goal), w) /\ G!HandleExclusive(w, goal).active = w.active
         /\ Held(w) => /\ Held(G!HandleExclusive(w, goal))
                       /\ G!HandleExclusive(w, goal).count <= w.count
<1> DEFINE e == Exclusive(goal)
           d == G!DequeGoal(w, e)
           r == CancelProcedure(d, e)
<1>1. CASE e \in w.active
  <2>1. G!HandleExclusive(w, goal) = r
    BY <1>1 DEF G!HandleExclusive
  <2>2. e \in GoalIds \ {"system_stop"}
    <3>1. w.active \subseteq GoalIds
      BY DEF Worlds
    <3> QED
      BY <1>1, <3>1, ContentionIs
  <2> HIDE DEF e
  <2>3. QueueOnly(d, w) /\ (Held(w) => Held(d) /\ d.count <= w.count)
    BY <2>2, DequeGoalKeeps
  <2> HIDE DEF d
  <2>4. ProcOnly(r, d)
    <3>1. d \in Worlds /\ LinksOK(d)
      BY <2>3 DEF QueueOnly, LinksOK
    <3> QED
      BY <2>2, <3>1, CancelKeeps
  <2> HIDE DEF r
  <2>5. GoalsOnly(r, w) /\ r.active = w.active
    BY <2>3, <2>4 DEF GoalsOnly, QueueOnly, ProcOnly, Beside
  <2>6. ASSUME Held(w) PROVE Held(r) /\ r.count <= w.count
    <3>1. Held(r)
      BY <2>3, <2>4, <2>6, BesideKeeps DEF ProcOnly
    <3>2. r.count = d.count
      BY <2>4 DEF ProcOnly, Beside
    <3> QED
      BY <2>3, <2>6, <3>1, <3>2
  <2> QED
    BY <2>1, <2>5, <2>6
<1>2. CASE e \notin w.active
  <2>1. G!HandleExclusive(w, goal) = w
    BY <1>2 DEF G!HandleExclusive
  <2> QED
    BY <2>1, CountIs DEF GoalsOnly
<1> QED
  BY <1>1, <1>2

\* The goal that cancels all others
LEMMA AddCancellingKeeps ==
  ASSUME NEW w, Base(w), NEW new \in BOOLEAN, "system_stop" \notin w.active
  PROVE  LET r == G!AddCancelling(w, new, "system_stop")
         IN  GoalsOnly(r, w) /\ Concurrent(r) /\ (Held(w) /\ Roomy(w) => Held(r))
<1> DEFINE goal == "system_stop"
           v == G!ClearPendingGoals(w)
           c == G!CancelActiveGoals(v)
           r == G!AddCancelling(w, new, goal)
<1>0. goal \in GoalIds
  BY GoalsAre
<1>1. r = IF G!CanRunNow(c, new) THEN G!StartGoal(c, goal) ELSE G!QueueGoal(c, goal, c.active)
  BY DEF G!AddCancelling
<1>2. QueueOnly(v, w) /\ v.count = 0 /\ Held(v)
  BY ClearPendingKeeps DEF Base
<1> HIDE DEF goal, v
<1>3. ProcOnly(c, v)
  <2>1. v \in Worlds /\ LinksOK(v) /\ "system_stop" \notin v.active
    BY <1>2 DEF Base, QueueOnly, LinksOK
  <2> QED
    BY <2>1, CancelActiveKeeps
<1> HIDE DEF c
<1>4. /\ c \in Worlds /\ LinksOK(c) /\ GoalsOnly(c, w) /\ c.active = w.active
      /\ Held(c) /\ Roomy(c) /\ Concurrent(c)
  <2>1. Held(c)
    BY <1>2, <1>3, BesideKeeps DEF ProcOnly
  <2>2. c.count = 0
    BY <1>2, <1>3 DEF ProcOnly, Beside
  <2>3. c \in Worlds /\ LinksOK(c) /\ GoalsOnly(c, w) /\ c.active = w.active
    BY <1>2, <1>3 DEF ProcOnly, QueueOnly, GoalsOnly, Beside
  <2> QED
    BY <2>1, <2>2, <2>3 DEF Roomy, Base, Concurrent
<1> HIDE DEF r
<1>5. CASE G!CanRunNow(c, new)
  <2>1. r = G!StartGoal(c, goal)
    BY <1>1, <1>5
  <2>2. GoalsOnly(r, c) /\ r.active = c.active \cup {goal} /\ Held(r)
    BY <1>0, <1>4, <2>1, StartGoalKeeps
  <2>3. c.active = {}
    BY <1>5 DEF G!CanRunNow
  <2>4. Concurrent(r)
    BY <1>0, <1>4, <2>2, <2>3, StartedConcurrent
  <2> QED
    BY <1>4, <2>2, <2>4 DEF GoalsOnly, r, goal
<1>6. CASE ~G!CanRunNow(c, new)
  <2>1. r = G!QueueGoal(c, goal, c.active)
    BY <1>1, <1>6
  <2>2. c.active \in SUBSET GoalIds /\ c.active \subseteq c.active
    BY <1>4 DEF Worlds
  <2> DEFINE wait == c.active
  <2> HIDE DEF wait
  <2>3. QueueOnly(G!QueueGoal(c, goal, wait), c) /\ Held(G!QueueGoal(c, goal, wait))
    BY <1>0, <1>4, <2>2, QueueGoalKeeps DEF wait
  <2>4. QueueOnly(r, c) /\ Held(r)
    BY <2>1, <2>3 DEF wait
  <2> QED
    BY <1>4, <2>4 DEF QueueOnly, GoalsOnly, LinksOK, Concurrent, r, goal
<1> QED
  BY <1>5, <1>6

\* Any other goal
LEMMA AddOrdinaryKeeps ==
  ASSUME NEW w, Base(w), NEW new \in BOOLEAN, NEW goal \in GoalIds
  PROVE  LET r == G!AddOrdinary(w, new, goal)
         IN  GoalsOnly(r, w) /\ Concurrent(r) /\ (Held(w) /\ Roomy(w) => Held(r))
<1> DEFINE f == G!HandleExclusive(w, goal)
           wait == G!MustWaitFor(w, goal) \ (w.active \ f.active)
           runs == (Contention(goal) = "concurrent" /\ wait = {}) \/ G!CanRunNow(f, new)
           r == G!AddOrdinary(w, new, goal)
<1>1. r = IF runs THEN G!StartGoal(f, goal) ELSE G!QueueGoal(f, goal, wait)
  BY DEF G!AddOrdinary
<1>2. /\ GoalsOnly(f, w) /\ f.active = w.active
      /\ Held(w) => Held(f) /\ f.count <= w.count
  BY HandleExclusiveKeeps DEF Base
<1>3. f \in Worlds /\ LinksOK(f) /\ Concurrent(f)
  BY <1>2 DEF GoalsOnly, Base, Concurrent
<1>4. Held(w) /\ Roomy(w) => Held(f) /\ Roomy(f)
  <2>1. f.count \in Nat /\ w.count \in Nat
    BY <1>3, CountIs DEF Base
  <2> DEFINE a == f.count
             b == w.count
  <2>2. a \in Nat /\ b \in Nat /\ (Held(w) => a <= b) /\ (Roomy(w) <=> b < 255) /\ (Roomy(f) <=> a < 255)
    BY <1>2, <2>1 DEF Roomy
  <2> HIDE DEF a, b, f
  <2>3. Held(w) /\ Roomy(w) => Roomy(f)
    BY <2>2
  <2> QED
    BY <1>2, <2>3
<1> HIDE DEF f
<1>5. wait = G!MustWaitFor(w, goal) /\ wait \subseteq f.active /\ wait \in SUBSET GoalIds
  BY <1>2, <1>3 DEF G!MustWaitFor, Worlds
<1> HIDE DEF wait, runs, r
<1>6. CASE runs
  <2>1. r = G!StartGoal(f, goal)
    BY <1>1, <1>6
  <2>2. GoalsOnly(r, f) /\ r.active = f.active \cup {goal} /\ (Held(f) => Held(r))
    BY <1>3, <2>1, StartGoalKeeps
  <2>3. f.active = {} \/ (goal \in StartGoals /\ f.active \subseteq ConcurrentWith(goal))
    <3>1. CASE G!CanRunNow(f, new)
      BY <3>1 DEF G!CanRunNow
    <3>2. CASE Contention(goal) = "concurrent" /\ wait = {}
      <4>1. w.active \ ConcurrentWith(goal) = {}
        BY <1>5, <3>2 DEF G!MustWaitFor
      <4> QED
        BY <1>2, <3>2, <4>1, ContentionIs
    <3> QED
      BY <1>6, <3>1, <3>2 DEF runs
  <2>4. Concurrent(r)
    BY <1>3, <2>2, <2>3, StartedConcurrent
  <2>5. GoalsOnly(r, w)
    BY <1>2, <2>2 DEF GoalsOnly
  <2> QED
    BY <1>4, <2>2, <2>4, <2>5 DEF r
<1>7. CASE ~runs
  <2>1. r = G!QueueGoal(f, goal, wait)
    BY <1>1, <1>7
  <2>2. QueueOnly(r, f) /\ (Held(f) /\ Roomy(f) => Held(r))
    BY <1>3, <1>5, <2>1, QueueGoalKeeps
  <2>3. GoalsOnly(r, w) /\ Concurrent(r)
    BY <1>2, <1>3, <2>2 DEF QueueOnly, GoalsOnly, LinksOK, Concurrent
  <2> QED
    BY <1>4, <2>2, <2>3 DEF r
<1> QED
  BY <1>6, <1>7

\* What the queue needs when a goal is activated: room for it if it is new, and
\* the count of it if it comes from the queue.
HeldFor(w, new) == Held(w) /\ (IF new THEN Roomy(w) ELSE Len(Queue(w)) < w.count)

\* A goal is activated.
LEMMA ActivateGoalKeeps ==
  ASSUME NEW w, Base(w), NEW new \in BOOLEAN, NEW goal \in GoalIds
  PROVE  LET r == G!ActivateGoal(w, new, goal)
         IN  GoalsOnly(r, w) /\ Concurrent(r) /\ (HeldFor(w, new) => Held(r))
<1> DEFINE a == w.count
           less == (a - 1) % 256
           back == [w EXCEPT !.count = less]
           t == IF new THEN w ELSE back
           c1 == G!Cancels(goal) /\ goal \in t.active
           c2 == G!CanRunNow(t, new)
           r == G!ActivateGoal(w, new, goal)
<1>1. QueueOnly(t, w) /\ t.active = w.active /\ (HeldFor(w, new) => Held(t) /\ Roomy(t))
  <2>1. CASE new
    BY <2>1 DEF QueueOnly, HeldFor, Base
  <2>2. CASE ~new
    <3>1. w \in Worlds
      BY DEF Base
    <3>2. a \in Nat /\ a <= 255
      BY <3>1, CountIs
    <3> HIDE DEF a
    <3>3. less \in 0 .. 255 /\ (a > 0 => less = a - 1)
      <4>1. a - 1 \in Int /\ (a > 0 => a - 1 \in 0 .. 255)
        BY <3>2
      <4> QED
        BY <4>1, ByteIs
    <3> HIDE DEF less
    <3>4. QueueOnly(back, w) /\ back.count = less /\ back.slots = w.slots /\ back.mail = w.mail
      BY <3>1, <3>3 DEF Worlds, QueueOnly
    <3> HIDE DEF back
    <3>5. ASSUME HeldFor(w, new) PROVE Held(back) /\ Roomy(back)
      <4> DEFINE l == Len(Queue(w))
      <4>1. l \in Nat
        BY <3>1, QueueIs
      <4>2. l < a
        BY <2>2, <3>5 DEF HeldFor, a
      <4>3. Queue(back) = Queue(w) /\ back.active = w.active
        BY <3>4 DEF Queue, QueueOnly
      <4>4. l <= less /\ less < 255
        <5> HIDE DEF l
        <5> QED
          BY <3>2, <3>3, <4>1, <4>2
      <4>5. Len(Queue(back)) <= back.count
        BY <3>4, <4>3, <4>4
      <4>6. Roomy(back)
        BY <3>4, <4>4 DEF Roomy
      <4> QED
        BY <3>4, <3>5, <4>3, <4>5, <4>6 DEF Held, HeldFor
    <3> QED
      BY <2>2, <3>4, <3>5 DEF QueueOnly
  <2> QED
    BY <2>1, <2>2
<1>2. /\ c1 => r = G!ClearPendingGoals(t)
      /\ ~c1 /\ c2 => r = G!ResetIfEmpty(G!StartGoal(t, goal))
      /\ G!Cancels(goal) /\ ~c1 /\ ~c2 => r = G!ResetIfEmpty(G!AddCancelling(t, new, goal))
      /\ ~G!Cancels(goal) /\ ~c2 => r = G!ResetIfEmpty(G!AddOrdinary(t, new, goal))
  <2>1. r = CASE c1 -> G!ClearPendingGoals(t)
              [] ~c1 /\ c2 -> G!ResetIfEmpty(G!StartGoal(t, goal))
              [] G!Cancels(goal) /\ goal \notin t.active /\ ~c2 ->
                   G!ResetIfEmpty(G!AddCancelling(t, new, goal))
              [] OTHER -> G!ResetIfEmpty(G!AddOrdinary(t, new, goal))
    BY DEF G!ActivateGoal, G!CountLimit
  <2>2. c1 <=> G!Cancels(goal) /\ goal \in t.active
    OBVIOUS
  <2> HIDE DEF c1, c2, t, r
  <2> QED
    BY <2>1, <2>2
<1>3. Base(t) /\ t \in Worlds /\ LinksOK(t)
  BY <1>1 DEF Base, QueueOnly, LinksOK, Concurrent
<1> HIDE DEF t
<1>4. CASE c1
  <2>1. QueueOnly(r, t) /\ Held(r)
    BY <1>2, <1>3, <1>4, ClearPendingKeeps
  <2> HIDE DEF r
  <2> QED
    BY <1>1, <1>3, <2>1 DEF QueueOnly, GoalsOnly, LinksOK, Base, Concurrent, r
<1>5. ASSUME NEW v, GoalsOnly(v, t), Concurrent(v), Held(t) /\ Roomy(t) => Held(v),
             r = G!ResetIfEmpty(v)
      PROVE  GoalsOnly(r, w) /\ Concurrent(r) /\ (HeldFor(w, new) => Held(r))
  <2>1. QueueOnly(r, v) /\ (Held(v) => Held(r))
    BY <1>5, ResetIfEmptyKeeps DEF GoalsOnly
  <2> HIDE DEF r
  <2>2. GoalsOnly(r, w) /\ Concurrent(r)
    BY <1>1, <1>5, <2>1 DEF QueueOnly, GoalsOnly, LinksOK, Concurrent
  <2> QED
    BY <1>1, <1>5, <2>1, <2>2
<1> HIDE DEF r, c1, c2
<1>6. CASE ~c1 /\ c2
  <2> DEFINE v == G!StartGoal(t, goal)
  <2>1. GoalsOnly(v, t) /\ v.active = t.active \cup {goal} /\ (Held(t) => Held(v))
    BY <1>3, StartGoalKeeps
  <2>2. t.active = {}
    BY <1>6 DEF c2, G!CanRunNow
  <2> HIDE DEF v
  <2>3. Concurrent(v)
    BY <1>3, <2>1, <2>2, StartedConcurrent DEF Base
  <2>4. r = G!ResetIfEmpty(v)
    BY <1>2, <1>6 DEF v
  <2> QED
    BY <1>5, <2>1, <2>3, <2>4 DEF r
<1>7. CASE G!Cancels(goal) /\ ~c1 /\ ~c2
  <2> DEFINE v == G!AddCancelling(t, new, goal)
  <2>1. goal = "system_stop" /\ goal \notin t.active
    BY <1>7, ContentionIs DEF c1
  <2>2. GoalsOnly(v, t) /\ Concurrent(v) /\ (Held(t) /\ Roomy(t) => Held(v))
    BY <1>3, <2>1, AddCancellingKeeps
  <2>3. r = G!ResetIfEmpty(v)
    BY <1>2, <1>7
  <2> HIDE DEF v
  <2> QED
    BY <1>5, <2>2, <2>3 DEF r
<1>8. CASE ~G!Cancels(goal) /\ ~c2
  <2> DEFINE v == G!AddOrdinary(t, new, goal)
  <2>1. GoalsOnly(v, t) /\ Concurrent(v) /\ (Held(t) /\ Roomy(t) => Held(v))
    BY <1>3, AddOrdinaryKeeps
  <2>2. r = G!ResetIfEmpty(v)
    BY <1>2, <1>8
  <2> HIDE DEF v
  <2> QED
    BY <1>5, <2>1, <2>2 DEF r
<1> QED
  BY <1>4, <1>6, <1>7, <1>8 DEF c1, r

\* A goal is done; those that wait for it are told.
LEMMA ClearGoalKeeps ==
  ASSUME NEW w \in Worlds, NEW goal
  PROVE  LET r == G!ClearGoal(w, goal)
         IN  /\ r \in Worlds /\ r.active = w.active \ {goal} /\ r.topo = w.topo
             /\ r.rules = w.rules /\ r.timer = w.timer /\ r.env = w.env /\ r.proc = w.proc
             /\ r.mail = w.mail
             /\ (LinksOK(w) => LinksOK(r)) /\ (Concurrent(w) => Concurrent(r))
             /\ (Held(w) => Held(r))
<1> DEFINE less == w.active \ {goal}
           s == [g \in DOMAIN w.slots |-> w.slots[g] \ {goal}]
           r == G!ClearGoal(w, goal)
<1>1. r = [w EXCEPT !.active = less, !.slots = s]
  BY DEF G!ClearGoal
<1>2. less \in SUBSET GoalIds /\ w.slots \in Slots
  BY DEF Worlds
<1>3. s \in Slots
  <2> DEFINE D == DOMAIN w.slots
  <2>1. D \in SUBSET GoalIds /\ s \in [D -> SUBSET GoalIds]
    BY <1>2, SlotsAre
  <2> HIDE DEF D, s
  <2> QED
    BY <2>1, SlotsAre
<1> HIDE DEF r
<1>4. /\ r \in Worlds /\ r.active = less /\ r.topo = w.topo /\ r.slots = s
      /\ r.rules = w.rules /\ r.timer = w.timer /\ r.env = w.env /\ r.proc = w.proc
      /\ r.mail = w.mail /\ r.count = w.count
  <2> HIDE DEF s, less
  <2> QED
    BY <1>1, <1>2, <1>3 DEF Worlds
<1>5. Held(w) => Held(r)
  <2>1. Queue(r) = Queue(w) /\ DOMAIN s = DOMAIN w.slots
    BY <1>4 DEF Queue
  <2>2. Held(w) => \A g \in DOMAIN s : s[g] \subseteq less
    BY DEF Held
  <2> HIDE DEF s, less
  <2> QED
    BY <1>4, <2>1, <2>2 DEF Held
<1>6. (LinksOK(w) => LinksOK(r)) /\ (Concurrent(w) => Concurrent(r))
  BY <1>4 DEF LinksOK, Concurrent
<1> QED
  BY <1>4, <1>5, <1>6 DEF r

---------------------------------------------------------------------------
(* The topology.                                                           *)

\* What a handler must do for the invariants
Keeps(r, w) == Base(r) /\ (Held(w) => Held(r))

LEMMA KeepsAgain ==
  ASSUME NEW w, NEW v, NEW r, Keeps(v, w), Keeps(r, v)
  PROVE  Keeps(r, w)
BY DEF Keeps

\* Records that have nothing to do with goals change.
LEMMA RecordsKeep ==
  ASSUME NEW w, Base(w), NEW topo2 \in Topos, NEW rules2 \in R!RuleSet, NEW timer2 \in BOOLEAN
  PROVE  Keeps([w EXCEPT !.topo = topo2, !.rules = rules2, !.timer = timer2], w)
<1> DEFINE r == [w EXCEPT !.topo = topo2, !.rules = rules2, !.timer = timer2]
<1>1. r \in Worlds /\ LinksOK(r) /\ Beside(r, w)
  BY DEF Base, Worlds, LinksOK, Beside, Queue
<1> HIDE DEF r
<1>2. Keeps(r, w)
  BY <1>1, BesideKeeps DEF Keeps, Base
<1> QED
  BY <1>2 DEF r

\* What the rules and the procedures keep is enough.
LEMMA RulesKeep ==
  ASSUME NEW w, Base(w), NEW r, RulesOnly(r, w)
  PROVE  Keeps(r, w)
BY BesideKeeps DEF Base, RulesOnly, Keeps, LinksOK

LEMMA ProcKeeps ==
  ASSUME NEW w, Base(w), NEW r, ProcOnly(r, w)
  PROVE  Keeps(r, w)
BY BesideKeeps DEF Base, ProcOnly, Keeps

LEMMA ClearKeeps ==
  ASSUME NEW w, Base(w), NEW goal
  PROVE  Keeps(G!ClearGoal(w, goal), w)
BY ClearGoalKeeps DEF Base, Keeps

\* The events that the topology sets
LEMMA EventsKeep ==
  ASSUME NEW w, Base(w),
         NEW e \in {"STOP", "LINKLOSS", "START", "PROHIBIT", "USER_CONNECT", "DISC_ALL", "DISC_LRU"}
  PROVE  Keeps(R!SetEvent(w, e), w)
<1>1. w \in Worlds /\ e \in R!RuleEvents
  BY RulesAre DEF Base
<1> QED
  BY <1>1, SetEventKeeps, RulesKeep

\* The states that are entered without more
LEMMA EnterKeeps ==
  ASSUME NEW w, Base(w)
  PROVE  /\ Keeps(SendStopCfm(w), w) /\ Keeps(EnterStopped(w), w) /\ Keeps(EnterStarted(w), w)
<1>0. w.topo \in Topos /\ w.rules \in R!RuleSet /\ w.timer \in BOOLEAN /\ w \in Worlds
  BY DEF Base, Worlds
<1>1. Keeps(SendStopCfm(w), w)
  <2>1. SendStopCfm(w) = [w EXCEPT !.topo = w.topo, !.rules = w.rules, !.timer = FALSE]
    BY <1>0 DEF SendStopCfm, Worlds
  <2> QED
    BY <1>0, <2>1, RecordsKeep
<1>2. Keeps(EnterStopped(w), w)
  <2> DEFINE t == [w.topo EXCEPT !.state = "STOPPED", !.app_task = "none"]
  <2>1. EnterStopped(w) = [w EXCEPT !.topo = t, !.rules = w.rules, !.timer = w.timer]
    BY <1>0 DEF EnterStopped, Worlds, Topos
  <2>2. t \in Topos
    BY <1>0 DEF Topos
  <2> HIDE DEF t
  <2>3. Keeps([w EXCEPT !.topo = t, !.rules = w.rules, !.timer = w.timer], w)
    BY <1>0, <2>2, RecordsKeep
  <2> QED
    BY <2>1, <2>3
<1>3. Keeps(EnterStarted(w), w)
  <2> DEFINE t == [w.topo EXCEPT !.state = "STARTED"]
  <2>1. EnterStarted(w) = [w EXCEPT !.topo = t, !.rules = w.rules, !.timer = w.timer]
    BY <1>0 DEF EnterStarted, Worlds, Topos
  <2>2. t \in Topos
    BY <1>0 DEF Topos
  <2> HIDE DEF t
  <2>3. Keeps([w EXCEPT !.topo = t, !.rules = w.rules, !.timer = w.timer], w)
    BY <1>0, <2>2, RecordsKeep
  <2> QED
    BY <2>1, <2>3
<1> QED
  BY <1>1, <1>2, <1>3

\* Starting
LEMMA StartKeeps ==
  ASSUME NEW w, Base(w)
  PROVE  Keeps(Start(w), w)
<1>1. CASE ~InState(w, "STOPPED")
  BY <1>1 DEF Start, Keeps
<1>2. CASE InState(w, "STOPPED")
  <2> DEFINE t == [w.topo EXCEPT !.state = "STARTING", !.prohibit = FALSE, !.shutdown = FALSE]
             rs == R!ResetEvent(w.rules, R!RuleEvents)
             v == [w EXCEPT !.topo = t, !.rules = rs, !.timer = w.timer]
  <2>0. w.topo \in Topos /\ w.rules \in R!RuleSet /\ w.timer \in BOOLEAN /\ w \in Worlds
    BY DEF Base, Worlds
  <2>1. t \in Topos /\ rs \in R!RuleSet
    BY <2>0, ResetIs DEF Topos
  <2>2. Start(w) = R!SetEvent(v, "START")
    <3>1. v = [w EXCEPT !.topo.state = "STARTING", !.topo.prohibit = FALSE,
                        !.topo.shutdown = FALSE, !.rules = rs]
      <4> HIDE DEF rs
      <4> QED
        BY <2>0 DEF Worlds, Topos
    <3> HIDE DEF v
    <3> QED
      BY <1>2, <3>1 DEF Start, EnterStarting
  <2> HIDE DEF t, rs
  <2>3. Keeps(v, w)
    BY <2>0, <2>1, RecordsKeep
  <2> HIDE DEF v
  <2>4. Keeps(R!SetEvent(v, "START"), v)
    BY <2>3, EventsKeep DEF Keeps
  <2> QED
    BY <2>2, <2>3, <2>4, KeepsAgain
<1> QED
  BY <1>1, <1>2

\* Stopping
LEMMA StopKeeps ==
  ASSUME NEW w, Base(w)
  PROVE  Keeps(Stop(w), w)
<1> DEFINE t == [w.topo EXCEPT !.app_task = "app"]
           v == [w EXCEPT !.topo = t, !.rules = w.rules, !.timer = w.timer]
<1>0. w.topo \in Topos /\ w.rules \in R!RuleSet /\ w.timer \in BOOLEAN /\ w \in Worlds
  BY DEF Base, Worlds
<1>1. v = [w EXCEPT !.topo.app_task = "app"]
  BY <1>0 DEF Worlds, Topos
<1>2. t \in Topos
  BY <1>0 DEF Topos
<1> HIDE DEF t
<1>3. Keeps(v, w)
  BY <1>0, <1>2, RecordsKeep
<1> HIDE DEF v
<1>4. Base(v)
  BY <1>3 DEF Keeps
<1>5. CASE InState(w, "STARTED")
  <2> DEFINE t2 == [v.topo EXCEPT !.state = "STOPPING"]
             u == [v EXCEPT !.topo = t2, !.rules = v.rules, !.timer = TRUE]
  <2>0. v.topo \in Topos /\ v.rules \in R!RuleSet /\ v \in Worlds
    BY <1>4 DEF Base, Worlds
  <2>1. Stop(w) = R!SetEvent(u, "STOP")
    <3>1. u = [v EXCEPT !.topo.state = "STOPPING", !.timer = TRUE]
      BY <2>0 DEF Worlds, Topos
    <3>2. Stop(w) = EnterStopping(v)
      BY <1>1, <1>5 DEF Stop, InState
    <3> HIDE DEF u
    <3> QED
      BY <3>1, <3>2 DEF EnterStopping
  <2>2. t2 \in Topos
    BY <2>0 DEF Topos
  <2> HIDE DEF t2
  <2>3. Keeps(u, v)
    BY <1>4, <2>0, <2>2, RecordsKeep
  <2> HIDE DEF u
  <2>4. Keeps(R!SetEvent(u, "STOP"), u)
    BY <2>3, EventsKeep DEF Keeps
  <2> QED
    BY <1>3, <2>1, <2>3, <2>4, KeepsAgain
<1>6. CASE ~InState(w, "STARTED") /\ InState(w, "STOPPED")
  <2>1. Stop(w) = SendStopCfm(v)
    BY <1>1, <1>6 DEF Stop, InState
  <2> QED
    BY <1>3, <1>4, <2>1, EnterKeeps, KeepsAgain
<1>7. CASE ~InState(w, "STARTED") /\ ~InState(w, "STOPPED")
  <2>1. Stop(w) = v
    BY <1>1, <1>7 DEF Stop
  <2> QED
    BY <1>3, <2>1
<1> QED
  BY <1>5, <1>6, <1>7

\* Connections are prohibited, or allowed again; a shutdown is announced.
LEMMA ProhibitKeeps ==
  ASSUME NEW w, Base(w), NEW prohibit \in BOOLEAN
  PROVE  /\ Keeps(ProhibitHandsetConnection(w, prohibit), w)
         /\ Keeps([w EXCEPT !.topo.shutdown = TRUE], w)
<1>0. w.topo \in Topos /\ w.rules \in R!RuleSet /\ w.timer \in BOOLEAN /\ w \in Worlds
  BY DEF Base, Worlds
<1>1. Keeps([w EXCEPT !.topo.shutdown = TRUE], w)
  <2> DEFINE t == [w.topo EXCEPT !.shutdown = TRUE]
             v == [w EXCEPT !.topo = t, !.rules = w.rules, !.timer = w.timer]
  <2>1. v = [w EXCEPT !.topo.shutdown = TRUE]
    BY <1>0 DEF Worlds, Topos
  <2>2. t \in Topos
    BY <1>0 DEF Topos
  <2> HIDE DEF t
  <2>3. Keeps(v, w)
    BY <1>0, <2>2, RecordsKeep
  <2> QED
    BY <2>1, <2>3
<1> DEFINE t == [w.topo EXCEPT !.prohibit = prohibit]
           v == [w EXCEPT !.topo = t, !.rules = w.rules, !.timer = w.timer]
<1>2. v = [w EXCEPT !.topo.prohibit = prohibit]
  BY <1>0 DEF Worlds, Topos
<1>3. t \in Topos
  BY <1>0 DEF Topos
<1> HIDE DEF t
<1>4. Keeps(v, w)
  BY <1>0, <1>3, RecordsKeep
<1> HIDE DEF v
<1>5. Keeps(R!SetEvent(v, "PROHIBIT"), v)
  BY <1>4, EventsKeep DEF Keeps
<1>6. ProhibitHandsetConnection(w, prohibit) = IF prohibit THEN R!SetEvent(v, "PROHIBIT") ELSE v
  BY <1>2 DEF ProhibitHandsetConnection
<1> QED
  BY <1>1, <1>4, <1>5, <1>6, KeepsAgain

\* The stop is confirmed, or given up.
LEMMA StoppedKeeps ==
  ASSUME NEW w, Base(w)
  PROVE  Keeps(HandleStopTimeout(w), w) /\ Keeps(HandleStopCompletion(w), w)
<1> DEFINE v == SendStopCfm(w)
<1>1. Keeps(v, w)
  BY EnterKeeps
<1> HIDE DEF v
<1>2. Keeps(EnterStopped(v), w)
  BY <1>1, EnterKeeps, KeepsAgain DEF Keeps
<1>3. Keeps(w, w)
  BY DEF Keeps
<1> QED
  BY <1>2, <1>3 DEF HandleStopTimeout, HandleStopCompletion, v

\* A goal's procedure is complete.
LEMMA GoalProcCompleteKeeps ==
  ASSUME NEW w, Base(w), NEW goal
  PROVE  Keeps(GoalProcComplete(w, goal), w)
<1> DEFINE v == IF InState(w, "STARTING") /\ goal = "allow_handset_connect"
                THEN EnterStarted(w) ELSE w
<1>1. Keeps(v, w)
  BY EnterKeeps DEF Keeps
<1>2. GoalProcComplete(w, goal) = G!ClearGoal(v, goal)
  BY DEF GoalProcComplete
<1> HIDE DEF v
<1>3. Keeps(G!ClearGoal(v, goal), v)
  BY <1>1, ClearKeeps DEF Keeps
<1> QED
  BY <1>1, <1>2, <1>3, KeepsAgain

\* A step of the script is complete.
LEMMA StepCompletesKeeps ==
  ASSUME NEW w, Base(w)
  PROVE  Keeps(StepCompletes(w), w)
<1>0. w \in Worlds /\ LinksOK(w) /\ w.proc.step \in 0 .. 7
  BY DEF Base, Worlds, Procs
<1>1. CASE w.proc.step = 0
  BY <1>1, ScriptIs DEF StepCompletes, Keeps
<1>2. CASE w.proc.step = 7
  <2> DEFINE p == [w.proc EXCEPT !.step = 0]
             v == [w EXCEPT !.proc = p]
  <2>1. StepCompletes(w) = GoalProcComplete(v, "system_stop")
    BY <1>2, ScriptIs DEF StepCompletes
  <2>2. p \in Procs
    BY <1>0 DEF Worlds, Procs
  <2> HIDE DEF p
  <2>3. Keeps(v, w)
    BY <1>0, <2>2, ProcSet, ProcKeeps
  <2> HIDE DEF v
  <2>4. Keeps(GoalProcComplete(v, "system_stop"), v)
    BY <2>3, GoalProcCompleteKeeps DEF Keeps
  <2> QED
    BY <2>1, <2>3, <2>4, KeepsAgain
<1>3. CASE w.proc.step # 0 /\ w.proc.step # 7
  <2> DEFINE n == w.proc.step + 1
  <2>1. StepCompletes(w) = StartStep(w, n)
    BY <1>3, ScriptIs DEF StepCompletes
  <2>2. n \in 1 .. 7
    BY <1>0, <1>3
  <2> HIDE DEF n
  <2> QED
    BY <1>0, <2>1, <2>2, StartStepKeeps, ProcKeeps
<1> QED
  BY <1>1, <1>2, <1>3

\* A decision of the rules, or a goal from the queue.
LEMMA HandleGoalDecisionKeeps ==
  ASSUME NEW w, Base(w), NEW new \in BOOLEAN, NEW goal \in GoalIds
  PROVE  /\ Base(HandleGoalDecision(w, new, goal))
         /\ HeldFor(w, new) => Held(HandleGoalDecision(w, new, goal))
<1> DEFINE v == IF Accepts(w, goal) THEN G!ActivateGoal(w, new, goal) ELSE w
<1>1. Base(v) /\ (HeldFor(w, new) => Held(v))
  BY ActivateGoalKeeps DEF GoalsOnly, Base, HeldFor
<1>2. HandleGoalDecision(w, new, goal) = R!SetRuleComplete(v, goal)
  BY DEF HandleGoalDecision
<1> HIDE DEF v
<1>3. Keeps(R!SetRuleComplete(v, goal), v)
  <2>1. RulesOnly(R!SetRuleComplete(v, goal), v)
    BY <1>1, SetRuleCompleteKeeps DEF Base
  <2> QED
    BY <1>1, <2>1, RulesKeep
<1> QED
  BY <1>1, <1>2, <1>3 DEF Keeps

---------------------------------------------------------------------------
(* Answers of other modules.                                               *)

\* The LE procedure is confirmed, to the goal or to the script.
LEMMA LeConfirmedKeeps ==
  ASSUME NEW w, Base(w)
  PROVE  Keeps(LeConfirmed(w), w)
<1> DEFINE p == [w.proc EXCEPT !.le = "none"]
           v == [w EXCEPT !.proc = p]
<1>1. p \in Procs /\ w \in Worlds /\ LinksOK(w)
  BY DEF Base, Worlds, Procs
<1>2. LeConfirmed(w) = IF w.proc.le = "goal" THEN GoalProcComplete(v, "allow_le_connection")
                                             ELSE StepCompletes(v)
  BY DEF LeConfirmed
<1> HIDE DEF p
<1>3. Keeps(v, w)
  BY <1>1, ProcSet, ProcKeeps
<1> HIDE DEF v
<1>4. Keeps(GoalProcComplete(v, "allow_le_connection"), v) /\ Keeps(StepCompletes(v), v)
  BY <1>3, GoalProcCompleteKeeps, StepCompletesKeeps DEF Keeps
<1> QED
  BY <1>2, <1>3, <1>4, KeepsAgain

\* A disconnection is confirmed.
LEMMA DisconnectConfirmedKeeps ==
  ASSUME NEW w, Base(w), NEW goal
  PROVE  Keeps(DisconnectConfirmed(w, goal), w)
<1> DEFINE p == [w.proc EXCEPT !.disconnect = "none"]
           v == [w EXCEPT !.proc = p]
<1>1. p \in Procs /\ w \in Worlds /\ LinksOK(w)
  BY DEF Base, Worlds, Procs
<1>2. /\ w.proc.disconnect = "none" => DisconnectConfirmed(w, goal) = w
      /\ w.proc.disconnect = "goal" => DisconnectConfirmed(w, goal) = GoalProcComplete(v, goal)
      /\ w.proc.disconnect = "script" => DisconnectConfirmed(w, goal) = StepCompletes(v)
  BY DEF DisconnectConfirmed
<1>3. w.proc.disconnect \in {"none", "goal", "script"}
  BY <1>1 DEF Worlds, Procs
<1> HIDE DEF p
<1>4. Keeps(v, w)
  BY <1>1, ProcSet, ProcKeeps
<1> HIDE DEF v
<1>5. Keeps(GoalProcComplete(v, goal), v) /\ Keeps(StepCompletes(v), v)
  BY <1>4, GoalProcCompleteKeeps, StepCompletesKeeps DEF Keeps
<1>6. Keeps(w, w)
  BY DEF Keeps
<1> QED
  BY <1>2, <1>3, <1>4, <1>5, <1>6, KeepsAgain

\* Links come up and connecting has an end.
LEMMA ConnectCfmKeeps ==
  ASSUME NEW w, Base(w), NEW success \in BOOLEAN, NEW links \in 0 .. 1,
         w.env.links + links <= MaxLinks
  PROVE  Keeps(ConnectCfm(w, success, links), w)
<1> DEFINE k == w.env.links
           e == [w.env EXCEPT !.links = k + links]
           up == [w EXCEPT !.env = e]
           done == [up.proc EXCEPT !.connect = "idle"]
           next == [up.proc EXCEPT !.connect = IF success THEN "cancelled" ELSE "idle"]
<1>1. w \in Worlds /\ LinksOK(w) /\ w.env \in Envs
  BY DEF Base, Worlds
<1>2. e \in Envs /\ (e.all => e.links > 0)
  <2>1. k \in Nat /\ k \in 0 .. MaxLinks /\ (w.env.all => k > 0)
    BY <1>1, LinksAssumption DEF Envs, LinksOK
  <2> HIDE DEF k
  <2>2. k + links \in 0 .. MaxLinks /\ (w.env.all => k + links > 0)
    BY <2>1, LinksAssumption DEF k
  <2> QED
    BY <1>1, <2>2 DEF Envs
<1>3. ConnectCfm(w, success, links)
        = IF w.proc.connect = "running"
          THEN GoalProcComplete([up EXCEPT !.proc = done], "connect_handset")
          ELSE G!ClearGoal([up EXCEPT !.proc = next], "connect_handset")
  BY DEF ConnectCfm
<1> HIDE DEF e
<1>4. Keeps(up, w)
  BY <1>1, <1>2, EnvSet, ProcKeeps
<1> HIDE DEF up
<1>5. done \in Procs /\ next \in Procs /\ up \in Worlds /\ LinksOK(up) /\ Base(up)
  BY <1>4 DEF Keeps, Base, Worlds, Procs
<1> HIDE DEF done, next
<1>6. Keeps([up EXCEPT !.proc = done], up) /\ Keeps([up EXCEPT !.proc = next], up)
  BY <1>5, ProcSet, ProcKeeps
<1> DEFINE a == [up EXCEPT !.proc = done]
           b == [up EXCEPT !.proc = next]
<1>7. Keeps(a, w) /\ Keeps(b, w)
  BY <1>4, <1>6, KeepsAgain
<1> HIDE DEF a, b
<1>8. /\ Keeps(GoalProcComplete(a, "connect_handset"), a)
      /\ Keeps(G!ClearGoal(b, "connect_handset"), b)
  BY <1>7, GoalProcCompleteKeeps, ClearKeeps DEF Keeps
<1> QED
  BY <1>3, <1>7, <1>8, KeepsAgain DEF a, b

LEMMA ConnectStopCfmKeeps ==
  ASSUME NEW w, Base(w)
  PROVE  Keeps(ConnectStopCfm(w), w)
<1> DEFINE p == [w.proc EXCEPT !.connect = "idle"]
           v == [w EXCEPT !.proc = p]
<1>1. p \in Procs /\ w \in Worlds /\ LinksOK(w)
  BY DEF Base, Worlds, Procs
<1>2. ConnectStopCfm(w) = G!ClearGoal(v, "connect_handset")
  BY DEF ConnectStopCfm
<1> HIDE DEF p
<1>3. Keeps(v, w)
  BY <1>1, ProcSet, ProcKeeps
<1> HIDE DEF v
<1>4. Keeps(G!ClearGoal(v, "connect_handset"), v)
  BY <1>3, ClearKeeps DEF Keeps
<1> QED
  BY <1>2, <1>3, <1>4, KeepsAgain

\* A link ends; whoever waits for the last one is told.
LEMMA LinkDownKeeps ==
  ASSUME NEW w, Base(w), w.env.links > 0, NEW lru \in BOOLEAN
  PROVE  Keeps(LinkDown(w, lru), w)
<1> DEFINE k == w.env.links
           last == w.env.all /\ k - 1 = 0
           one == w.env.one /\ ~lru
           e == [w.env EXCEPT !.links = k - 1, !.one = one]
           e2 == [e EXCEPT !.all = FALSE]
           told == Plain("DISCONNECT_CFM")
           all == Plain("ALL_CFM")
<1>1. w \in Worlds /\ LinksOK(w) /\ w.env \in Envs
  BY DEF Base, Worlds
<1>2. k \in Nat /\ k \in 0 .. MaxLinks /\ k > 0
  BY <1>1, LinksAssumption DEF Envs
<1>3. e \in Envs /\ e2 \in Envs /\ ~e2.all /\ e.links = k - 1 /\ e.all = w.env.all
  <2>1. one \in BOOLEAN
    BY <1>1 DEF Envs
  <2>2. k - 1 \in 0 .. MaxLinks
    <3> HIDE DEF k
    <3> QED
      BY <1>2, LinksAssumption
  <2> HIDE DEF one, k
  <2> QED
    BY <1>1, <2>1, <2>2 DEF Envs
<1>4. (~last => (e.all => e.links > 0)) /\ (e2.all => e2.links > 0)
  <2>1. k - 1 \in Nat
    <3> HIDE DEF k
    <3> QED
      BY <1>2
  <2>2. k - 1 = 0 \/ k - 1 > 0
    <3> HIDE DEF k
    <3> QED
      BY <1>2
  <2> QED
    BY <1>3, <2>1, <2>2
<1>5. /\ told \in Messages /\ told \notin G!QueuedMessages
      /\ all \in Messages /\ all \notin G!QueuedMessages
  BY MessagesAre
<1> DEFINE ended == [w EXCEPT !.env = e]
           quiet == [w EXCEPT !.env = e2]
           tell(v) == IF w.env.one /\ lru THEN Post(v, told) ELSE v
<1>6. LinkDown(w, lru) = IF last THEN Post(tell(quiet), all) ELSE tell(ended)
  <2>1. ended = [w EXCEPT !.env.links = k - 1, !.env.one = one]
    BY <1>1 DEF Worlds, Envs
  <2>2. LinkDown(w, lru) = IF w.env.all /\ ended.env.links = 0
                           THEN Post([tell(ended) EXCEPT !.env.all = FALSE], all)
                           ELSE tell(ended)
    <3> HIDE DEF ended
    <3> QED
      BY <2>1 DEF LinkDown, told, all
  <2> HIDE DEF e, told, all
  <2>3. ended.env = e /\ ended.mail = w.mail
    BY <1>1 DEF Worlds
  <2>4. [ended EXCEPT !.env.all = FALSE] = quiet
    BY <1>1, <1>3 DEF Worlds, Envs
  <2>5. [Post(ended, told) EXCEPT !.env.all = FALSE] = Post(quiet, told)
    BY <1>1, <1>3 DEF Post, Worlds, Envs
  <2> HIDE DEF ended, quiet, e2
  <2>6. [tell(ended) EXCEPT !.env.all = FALSE] = tell(quiet)
    BY <2>4, <2>5
  <2> QED
    BY <1>3, <2>2, <2>3, <2>6
<1> HIDE DEF e, e2, told, all, last
<1>7. ASSUME NEW v, ProcOnly(v, w) PROVE ProcOnly(tell(v), w)
  <2>1. v \in Worlds /\ LinksOK(v)
    BY <1>7 DEF ProcOnly
  <2>2. ProcOnly(Post(v, told), v)
    BY <1>5, <2>1, ProcPost
  <2>3. ProcOnly(Post(v, told), w)
    BY <1>7, <2>2, ProcAgain
  <2> QED
    BY <1>7, <2>3
<1>8. CASE ~last
  <2>1. ProcOnly(ended, w)
    BY <1>1, <1>3, <1>4, <1>8, EnvSet
  <2> HIDE DEF ended
  <2>2. ProcOnly(tell(ended), w)
    BY <1>7, <2>1
  <2> HIDE DEF tell
  <2> QED
    BY <1>6, <1>8, <2>2, ProcKeeps
<1>9. CASE last
  <2>1. ProcOnly(quiet, w)
    BY <1>1, <1>3, <1>4, EnvSet
  <2> HIDE DEF quiet
  <2> DEFINE u == tell(quiet)
  <2>2. ProcOnly(u, w)
    BY <1>7, <2>1
  <2> HIDE DEF u
  <2>3. ProcOnly(Post(u, all), u)
    BY <1>5, <2>2, ProcPost DEF ProcOnly
  <2>4. ProcOnly(Post(u, all), w)
    BY <2>2, <2>3, ProcAgain
  <2>5. LinkDown(w, lru) = Post(u, all)
    BY <1>6, <1>9 DEF u
  <2> QED
    BY <2>4, <2>5, ProcKeeps
<1> QED
  BY <1>8, <1>9

\* A handset connects by itself.
LEMMA HandsetConnectsKeeps ==
  ASSUME NEW w, Base(w), w.env.links < MaxLinks
  PROVE  Keeps([w EXCEPT !.env.links = w.env.links + 1, !.env.paired = TRUE], w)
<1> DEFINE k == w.env.links
           e == [w.env EXCEPT !.links = k + 1, !.paired = TRUE]
<1>1. w \in Worlds /\ LinksOK(w) /\ w.env \in Envs
  BY DEF Base, Worlds
<1>2. k \in Nat /\ k < MaxLinks
  BY <1>1, LinksAssumption DEF Envs
<1>3. e \in Envs /\ (e.all => e.links > 0)
  <2>1. k + 1 \in 0 .. MaxLinks /\ k + 1 > 0
    <3> HIDE DEF k
    <3> QED
      BY <1>2, LinksAssumption
  <2> HIDE DEF k
  <2> QED
    BY <1>1, <2>1 DEF Envs
<1>4. [w EXCEPT !.env.links = k + 1, !.env.paired = TRUE] = [w EXCEPT !.env = e]
  BY <1>1 DEF Worlds, Envs
<1> HIDE DEF e
<1> QED
  BY <1>1, <1>3, <1>4, EnvSet, ProcKeeps DEF k

---------------------------------------------------------------------------
(* Delivery.                                                               *)

\* A message is taken from its place; if it belongs to the queue the count
\* exceeds what is left of the queue.
LEMMA TakenKeeps ==
  ASSUME NEW w, Base(w), NEW i \in DOMAIN w.mail
  PROVE  LET r == [w EXCEPT !.mail = RemoveAt(w.mail, i)]
         IN  /\ w.mail[i] \in Messages /\ Keeps(r, w) /\ r.count = w.count
             /\ Held(w) /\ w.mail[i] \in G!QueuedMessages => HeldFor(r, FALSE)
<1> DEFINE s == w.mail
           q == RemoveAt(s, i)
           r == [w EXCEPT !.mail = q]
<1>1. w \in Worlds /\ s \in Seq(Messages)
  BY DEF Base, Worlds
<1>2. Len(s) \in Nat /\ DOMAIN s = 1 .. Len(s) /\ i \in 1 .. Len(s)
  BY <1>1, LenProperties
<1>3. s[i] \in Messages
  BY <1>1, <1>2, ElementOfSeq
<1>4. q = SubSeq(s, 1, i - 1) \o SubSeq(s, i + 1, Len(s))
  BY DEF RemoveAt
<1> HIDE DEF q, s
<1>5. /\ q \in Seq(Messages) /\ Len(q) = Len(s) - 1
      /\ \A n \in 1 .. Len(s) - 1 : q[n] = IF n < i THEN s[n] ELSE s[n + 1]
  <2>1. LET rest == SubSeq(s, 1, i - 1) \o SubSeq(s, i + 1, Len(s))
        IN  /\ rest \in Seq(Messages) /\ Len(rest) = Len(s) - 1
            /\ \A n \in 1 .. Len(s) - 1 : rest[n] = IF n < i THEN s[n] ELSE s[n + 1]
    BY <1>1, <1>2, TakenOut
  <2> QED
    BY <1>4, <2>1
<1>6. /\ Len(Keep(q, G!QueuedMessages))
           = Len(Keep(s, G!QueuedMessages)) - (IF s[i] \in G!QueuedMessages THEN 1 ELSE 0)
      /\ s[i] \notin G!QueuedMessages => Keep(q, G!QueuedMessages) = Keep(s, G!QueuedMessages)
  <2> DEFINE T == G!QueuedMessages
  <2> HIDE DEF T
  <2>1. LET rest == SubSeq(s, 1, i - 1) \o SubSeq(s, i + 1, Len(s))
        IN  /\ Len(Keep(rest, T)) = Len(Keep(s, T)) - (IF s[i] \in T THEN 1 ELSE 0)
            /\ s[i] \notin T => Keep(rest, T) = Keep(s, T)
    BY <1>1, <1>2, KeepTakenOut
  <2> QED
    BY <1>4, <2>1 DEF T
<1> USE DEF s
<1>7. /\ r \in Worlds /\ r.mail = q /\ r.active = w.active /\ r.slots = w.slots
      /\ r.count = w.count /\ r.env = w.env
  BY <1>1, <1>5 DEF Worlds
<1>8. LinksOK(r) /\ Concurrent(r)
  BY <1>7 DEF Base, LinksOK, Concurrent
<1>9. Queue(r) = Keep(q, G!QueuedMessages) /\ Queue(w) = Keep(s, G!QueuedMessages)
  BY <1>7 DEF Queue
<1> HIDE DEF r
<1>10. CASE s[i] \notin G!QueuedMessages
  <2>1. Beside(r, w)
    BY <1>6, <1>7, <1>9, <1>10 DEF Beside
  <2> QED
    BY <1>3, <1>7, <1>8, <1>10, <2>1, BesideKeeps DEF Keeps, Base, r, q
<1>11. CASE s[i] \in G!QueuedMessages
  <2> SUFFICES ASSUME Held(w) PROVE Held(r) /\ Len(Queue(r)) < r.count
    BY <1>3, <1>7, <1>8, <1>11 DEF Keeps, Base, HeldFor, r, q
  <2>1. ASSUME NEW k \in DOMAIN Queue(r) PROVE Queue(r)[k].goal \in DOMAIN r.slots
    <3> DEFINE x == Queue(r)[k]
    <3>1. x \in G!QueuedMessages /\ \E n \in DOMAIN q : q[n] = x
      BY <1>5, <1>9, <2>1, KeepFrom
    <3> HIDE DEF x
    <3>2. PICK n \in DOMAIN q : q[n] = x
      BY <3>1
    <3>3. \E j \in DOMAIN s : s[j] = x
      <4>1. n \in 1 .. Len(s) - 1
        BY <1>5, <3>2, LenProperties
      <4>2. n \in 1 .. Len(s) /\ n + 1 \in 1 .. Len(s)
        BY <1>2, <4>1
      <4>3. q[n] = s[n] \/ q[n] = s[n + 1]
        BY <1>5, <4>1
      <4> QED
        BY <1>2, <3>2, <4>2, <4>3
    <3>4. PICK j \in DOMAIN s : s[j] = x
      BY <3>3
    <3>5. \E m \in DOMAIN Queue(w) : Queue(w)[m] = s[j]
      BY <1>1, <1>9, <3>1, <3>4, KeepAll
    <3>6. x.goal \in DOMAIN w.slots
      BY <3>4, <3>5 DEF Held
    <3> QED
      BY <1>7, <3>6 DEF x
  <2>2. Len(Queue(r)) < r.count
    <3> DEFINE a == Len(Queue(r))
               b == Len(Queue(w))
               c == r.count
    <3>1. a = b - 1
      BY <1>6, <1>9, <1>11
    <3>2. b \in Nat /\ b <= c /\ c \in Nat
      BY <1>1, <1>7, QueueIs, CountIs DEF Held
    <3> HIDE DEF a, b, c
    <3>3. a < c
      BY <3>1, <3>2
    <3> QED
      BY <3>3 DEF a, c
  <2>3. Len(Queue(r)) <= r.count
    <3> DEFINE a == Len(Queue(r))
               c == r.count
    <3>1. a \in Nat /\ c \in Nat /\ a < c
      BY <1>7, <2>2, QueueIs, CountIs
    <3> HIDE DEF a, c
    <3>2. a <= c
      BY <3>1
    <3> QED
      BY <3>2 DEF a, c
  <2> QED
    BY <1>7, <2>1, <2>2, <2>3 DEF Held
<1> QED
  BY <1>10, <1>11

\* The variables as a world
LEMMA WorldIs ==
  ASSUME IInv
  PROVE  /\ World \in Worlds /\ LinksOK(World) /\ Concurrent(World) /\ Base(World)
         /\ World.mail = mail /\ World.count = count /\ World.slots = slots
         /\ World.active = active /\ World.env = env /\ World.proc = proc
         /\ mail \in Seq(Messages) /\ DOMAIN mail = 1 .. Len(mail) /\ Len(mail) \in Nat
<1>1. World \in Worlds /\ LinksOK(World) /\ Concurrent(World) /\ Base(World)
  BY DEF IInv, Base
<1>2. /\ World.mail = mail /\ World.count = count /\ World.slots = slots
      /\ World.active = active /\ World.env = env /\ World.proc = proc
  BY DEF World
<1>3. mail \in Seq(Messages)
  BY <1>1, <1>2 DEF Worlds
<1> QED
  BY <1>1, <1>2, <1>3, LenProperties

\* What a step leads to is the world that its handler returns.
LEMMA BecomeIs ==
  ASSUME NEW w \in Worlds, Become(w)
  PROVE  World' = w
BY DEF Become, World, Worlds

\* What a step must do for the invariants
Step == IInv' /\ (Held(World) /\ Roomy(World) => Held(World)')

LEMMA BecomeKeeps ==
  ASSUME NEW w, Base(w), Held(World) /\ Roomy(World) => Held(w), Become(w)
  PROVE  Step
<1>1. World' = w
  BY BecomeIs DEF Base
<1>2. IInv' <=> Base(World')
  BY DEF IInv, Base, LinksOK, Concurrent
<1>3. Held(World)' <=> Held(World')
  BY DEF Held, Queue
<1> QED
  BY <1>1, <1>2, <1>3 DEF Step

\* The message that is delivered, and the world without it
LEMMA DeliveryIs ==
  ASSUME IInv, CanDeliver
  PROVE  /\ Message \in Messages /\ Keeps(Rest, World) /\ Rest.count = count
         /\ Held(World) /\ Message \in G!QueuedMessages => HeldFor(Rest, FALSE)
<1> DEFINE i == First
<1>1. i \in DOMAIN mail
  <2>1. Deliverable \subseteq Nat /\ Deliverable # {} /\ Deliverable \subseteq DOMAIN mail
    BY WorldIs DEF Deliverable, CanDeliver
  <2>2. i \in Deliverable
    <3> DEFINE D == Deliverable
    <3> HIDE DEF D
    <3>1. D \subseteq Nat /\ D # {}
      BY <2>1 DEF D
    <3>2. (CHOOSE n \in D : \A k \in D : n <= k) \in D
      BY <3>1, LeastIs
    <3> QED
      BY <3>2 DEF D, First
  <2> QED
    BY <2>1, <2>2
<1>2. Message = World.mail[i] /\ Rest = [World EXCEPT !.mail = RemoveAt(World.mail, i)]
  <2>1. World.mail = mail
    BY DEF World
  <2> QED
    BY <2>1 DEF Message, Rest
<1> HIDE DEF i
<1> DEFINE w == World
<1>3. Base(w) /\ i \in DOMAIN w.mail /\ w.count = count
  BY <1>1, WorldIs
<1>4. Message = w.mail[i] /\ Rest = [w EXCEPT !.mail = RemoveAt(w.mail, i)]
  BY <1>2
<1> HIDE DEF w
<1>5. LET r == [w EXCEPT !.mail = RemoveAt(w.mail, i)]
      IN  /\ w.mail[i] \in Messages /\ Keeps(r, w) /\ r.count = w.count
          /\ Held(w) /\ w.mail[i] \in G!QueuedMessages => HeldFor(r, FALSE)
  BY <1>3, TakenKeeps
<1> QED
  BY <1>3, <1>4, <1>5 DEF w

\* A message about a goal names one of the table.
LEMMA MessageIsAbout ==
  ASSUME IInv, CanDeliver
  PROVE  /\ Message.kind \in {"decision", "queued"} => Message.goal \in GoalIds
         /\ Message.kind = "queued" => Message \in G!QueuedMessages
<1> DEFINE m == Message
<1>1. m \in Messages
  BY DeliveryIs
<1> HIDE DEF m
<1>2. m.kind \in {"decision", "queued"} => m.goal \in GoalIds
  BY <1>1 DEF Messages, Decisions, Delayed, Plains
<1>3. m.kind = "queued" => m \in G!QueuedMessages
  BY <1>1, QueuedAre DEF G!IsQueued
<1> QED
  BY <1>2, <1>3 DEF m

\* One message is handled.
LEMMA DeliverKeeps ==
  ASSUME IInv, Deliver
  PROVE  Step
<1>1. CanDeliver
  BY DEF Deliver, GoalDecision, QueuedGoal, DelayedComplete, DelayedCancel, ScriptStepComplete,
         DisconnectAllCfm, DisconnectCfm, StopFinished, LinkLoss, Receives
<1>2. /\ Keeps(Rest, World) /\ Base(Rest) /\ Rest.count = World.count
      /\ Held(World) /\ Message \in G!QueuedMessages => HeldFor(Rest, FALSE)
  BY <1>1, DeliveryIs, WorldIs DEF Keeps
<1>3. ASSUME NEW w, Keeps(w, Rest), Become(w) PROVE Step
  BY <1>2, <1>3, BecomeKeeps DEF Keeps
<1>4. CASE GoalDecision
  <2> DEFINE g == Message.goal
             w == HandleGoalDecision(Rest, TRUE, g)
  <2>1. g \in GoalIds /\ Become(w)
    BY <1>1, <1>4, MessageIsAbout DEF GoalDecision, Receives, Handled
  <2>2. Held(World) /\ Roomy(World) => HeldFor(Rest, TRUE)
    BY <1>2 DEF Keeps, HeldFor, Roomy
  <2> HIDE DEF g
  <2>3. Base(w) /\ (HeldFor(Rest, TRUE) => Held(w))
    BY <1>2, <2>1, HandleGoalDecisionKeeps
  <2> HIDE DEF w
  <2> QED
    BY <2>1, <2>2, <2>3, BecomeKeeps
<1>5. CASE QueuedGoal
  <2> DEFINE g == Message.goal
             w == HandleGoalDecision(Rest, FALSE, g)
  <2>1. g \in GoalIds /\ Become(w)
    BY <1>1, <1>5, MessageIsAbout DEF QueuedGoal, Receives, Handled
  <2>2. Held(World) => HeldFor(Rest, FALSE)
    BY <1>1, <1>2, <1>5, MessageIsAbout DEF QueuedGoal, Receives
  <2> HIDE DEF g
  <2>3. Base(w) /\ (HeldFor(Rest, FALSE) => Held(w))
    BY <1>2, <2>1, HandleGoalDecisionKeeps
  <2> HIDE DEF w
  <2> QED
    BY <2>1, <2>2, <2>3, BecomeKeeps
<1>6. CASE DelayedComplete
  BY <1>2, <1>3, <1>6, GoalProcCompleteKeeps DEF DelayedComplete, Handled
<1>7. CASE DelayedCancel
  BY <1>2, <1>3, <1>7, ClearKeeps DEF DelayedCancel, Handled
<1>8. CASE ScriptStepComplete
  BY <1>2, <1>3, <1>8, StepCompletesKeeps DEF ScriptStepComplete, Handled
<1>9. CASE DisconnectAllCfm
  BY <1>2, <1>3, <1>9, DisconnectConfirmedKeeps DEF DisconnectAllCfm, Handled
<1>10. CASE DisconnectCfm
  BY <1>2, <1>3, <1>10, DisconnectConfirmedKeeps DEF DisconnectCfm, Handled
<1>11. CASE StopFinished
  BY <1>2, <1>3, <1>11, StoppedKeeps DEF StopFinished, Handled
<1>12. CASE LinkLoss
  BY <1>2, <1>3, <1>12, EventsKeep DEF LinkLoss, Handled
<1> QED
  BY <1>4, <1>5, <1>6, <1>7, <1>8, <1>9, <1>10, <1>11, <1>12 DEF Deliver

---------------------------------------------------------------------------
(* The steps.                                                              *)

\* What keeps the world is a step that keeps the invariants.
LEMMA KeepsIsStep ==
  ASSUME IInv, NEW w, Keeps(w, World), Become(w)
  PROVE  Step
BY BecomeKeeps DEF Keeps

\* A client calls.
LEMMA CallsKeep ==
  ASSUME IInv,
         CallStart \/ CallStop \/ (\E prohibit \in BOOLEAN : CallProhibit(prohibit))
           \/ CallConnectMru \/ CallDisconnectAll \/ CallDisconnectLru \/ ShutdownPrepare
  PROVE  Step
<1>1. Base(World)
  BY DEF IInv
<1>2. CASE CallStart
  BY <1>1, <1>2, StartKeeps, KeepsIsStep DEF CallStart, Calls
<1>3. CASE CallStop
  BY <1>1, <1>3, StopKeeps, KeepsIsStep DEF CallStop, Calls
<1>4. ASSUME NEW prohibit \in BOOLEAN, CallProhibit(prohibit) PROVE Step
  BY <1>1, <1>4, ProhibitKeeps, KeepsIsStep DEF CallProhibit, Calls
<1>5. CASE CallConnectMru
  BY <1>1, <1>5, EventsKeep, KeepsIsStep DEF CallConnectMru, Calls
<1>6. CASE CallDisconnectAll
  BY <1>1, <1>6, EventsKeep, KeepsIsStep DEF CallDisconnectAll, Calls
<1>7. CASE CallDisconnectLru
  BY <1>1, <1>7, EventsKeep, KeepsIsStep DEF CallDisconnectLru, Calls
<1>8. CASE ShutdownPrepare
  <2>1. Become([World EXCEPT !.topo.shutdown = TRUE])
    BY <1>8 DEF ShutdownPrepare, Calls
  <2>2. Keeps([World EXCEPT !.topo.shutdown = TRUE], World)
    BY <1>1, ProhibitKeeps
  <2> QED
    BY <2>1, <2>2, KeepsIsStep
<1> QED
  BY <1>2, <1>3, <1>4, <1>5, <1>6, <1>7, <1>8

\* Another module answers.
LEMMA AnswersKeep ==
  ASSUME IInv, LeAnswers \/ LeDisconnected \/ ConnectIsAnswered \/ LinkDisconnectsAsAsked
  PROVE  Step
<1>1. Base(World) /\ World.env = env
  BY WorldIs
<1>2. CASE LeAnswers
  BY <1>1, <1>2, LeConfirmedKeeps, KeepsIsStep DEF LeAnswers, Happens
<1>3. CASE LeDisconnected
  BY <1>1, <1>3, StepCompletesKeeps, KeepsIsStep DEF LeDisconnected, Happens
<1>4. ASSUME NEW success \in BOOLEAN, NEW links \in 0 .. 1, ConnectAnswers(success, links)
      PROVE  Step
  <2>1. World.env.links + links <= MaxLinks /\ Become(ConnectCfm(World, success, links))
    BY <1>1, <1>4 DEF ConnectAnswers, Happens
  <2>2. Keeps(ConnectCfm(World, success, links), World)
    BY <1>1, <2>1, ConnectCfmKeeps
  <2> QED
    BY <2>1, <2>2, KeepsIsStep
<1>5. CASE ConnectStops
  BY <1>1, <1>5, ConnectStopCfmKeeps, KeepsIsStep DEF ConnectStops, Happens
<1>6. ASSUME NEW lru \in BOOLEAN, LinkDisconnects(lru) PROVE Step
  <2>1. World.env.links > 0 /\ Become(LinkDown(World, lru))
    BY <1>1, <1>6 DEF LinkDisconnects, Happens
  <2>2. Keeps(LinkDown(World, lru), World)
    BY <1>1, <2>1, LinkDownKeeps
  <2> QED
    BY <2>1, <2>2, KeepsIsStep
<1> QED
  BY <1>2, <1>3, <1>4, <1>5, <1>6 DEF ConnectIsAnswered, LinkDisconnectsAsAsked

\* Handsets come and go by themselves, and ten seconds pass.
LEMMA SurroundingsKeep ==
  ASSUME IInv, HandsetConnects \/ (\E lru \in BOOLEAN : LinkIsLost(lru)) \/ StopTimeout
  PROVE  Step
<1>1. Base(World) /\ World.env = env /\ World \in Worlds
  BY WorldIs
<1>2. CASE HandsetConnects
  <2> DEFINE v == [World EXCEPT !.env.links = @ + 1, !.env.paired = TRUE]
             w == [World EXCEPT !.env.links = World.env.links + 1, !.env.paired = TRUE]
  <2>1. World.env.links < MaxLinks /\ Become(v)
    BY <1>1, <1>2 DEF HandsetConnects, Radio
  <2>2. v = w
    OBVIOUS
  <2>3. Keeps(w, World)
    BY <1>1, <2>1, HandsetConnectsKeeps
  <2> HIDE DEF v, w
  <2> QED
    BY <2>1, <2>2, <2>3, KeepsIsStep
<1>3. ASSUME NEW lru \in BOOLEAN, LinkIsLost(lru) PROVE Step
  <2> DEFINE v == LinkDown(World, lru)
             w == Post(v, Plain("LINK_LOSS"))
  <2>1. World.env.links > 0 /\ Become(w)
    BY <1>1, <1>3 DEF LinkIsLost, Radio
  <2>2. Keeps(v, World)
    BY <1>1, <2>1, LinkDownKeeps
  <2> HIDE DEF v
  <2>3. Base(v) /\ v \in Worlds /\ LinksOK(v)
    BY <2>2 DEF Keeps, Base
  <2>4. Keeps(w, v)
    BY <2>3, MessagesAre, ProcPost, ProcKeeps
  <2> HIDE DEF w
  <2> QED
    BY <2>1, <2>2, <2>4, KeepsAgain, KeepsIsStep
<1>4. CASE StopTimeout
  BY <1>1, <1>4, StoppedKeeps, KeepsIsStep DEF StopTimeout
<1> QED
  BY <1>2, <1>3, <1>4

\* Every step keeps the invariant; and what is held stays held while the
\* counter does not wrap.
LEMMA NextKeeps ==
  ASSUME IInv, [Next]_vars
  PROVE  Step
<1>1. CASE Next
  BY <1>1, DeliverKeeps, CallsKeep, AnswersKeep, SurroundingsKeep DEF Next
<1>2. CASE UNCHANGED vars
  <2>1. World' = World
    BY <1>2 DEF vars, World
  <2>2. (IInv' <=> Base(World')) /\ (Held(World)' <=> Held(World'))
    BY DEF IInv, Base, LinksOK, Concurrent, Held, Queue
  <2> QED
    BY <2>1, <2>2 DEF Step, IInv
<1> QED
  BY <1>1, <1>2

\* As the topology begins
LEMMA InitIsGood ==
  ASSUME Init
  PROVE  IInv /\ Held(World)
<1>0. PICK paired \in BOOLEAN :
        env = [links |-> 0, all |-> FALSE, one |-> FALSE, allowed |-> FALSE,
               connectable |-> FALSE, paired |-> paired]
  BY DEF Init
<1>1. R!NoRulesRun \in R!RuleSet
  BY DEF R!NoRulesRun, R!RuleSet, R!Statuses
<1>2. /\ topo \in Topos /\ rules \in R!RuleSet /\ active \in SUBSET GoalIds /\ count \in 0 .. 255
      /\ proc \in Procs /\ timer \in BOOLEAN
  <2>1. 0 \in 0 .. 255 /\ 0 \in 0 .. 7
    OBVIOUS
  <2>2. topo \in Topos
    BY DEF Init, Topos
  <2>3. proc \in Procs
    BY <2>1 DEF Init, Procs
  <2>4. rules \in R!RuleSet /\ active \in SUBSET GoalIds /\ timer \in BOOLEAN
    BY <1>1 DEF Init
  <2>5. count \in 0 .. 255
    BY <2>1 DEF Init
  <2> QED
    BY <2>2, <2>3, <2>4, <2>5
<1>3. slots \in Slots /\ mail \in Seq(Messages)
  BY SlotsAre, EmptySeq DEF Init
<1>4. env \in Envs /\ ~env.all
  BY <1>0, LinksAssumption DEF Envs
<1>5. World \in Worlds
  BY <1>2, <1>3, <1>4 DEF World, Worlds
<1>6. LinksOK(World) /\ Concurrent(World)
  BY <1>4 DEF World, LinksOK, Concurrent, Init
<1>7. Held(World)
  <2>1. Queue(World) = << >>
    BY KeepEmpty DEF Queue, World, Init
  <2>2. Len(<< >>) = 0 /\ DOMAIN << >> = {}
    BY EmptySeq
  <2>3. World.slots = << >> /\ World.count = 0
    BY DEF World, Init
  <2> QED
    BY <2>1, <2>2, <2>3 DEF Held
<1> QED
  BY <1>5, <1>6, <1>7 DEF IInv, Base

---------------------------------------------------------------------------
(* The theorems.                                                           *)

\* The inductive invariant: the types, nobody waits for all links to end when
\* there is none, and the goals that run may run together.
THEOREM TopologyInvariant == Spec => []IInv
<1>1. Init => IInv
  BY InitIsGood
<1>2. IInv /\ [Next]_vars => IInv'
  BY NextKeeps DEF Step
<1> QED
  BY <1>1, <1>2, PTL DEF Spec

\* Type correctness: the topology, its rules, goals and procedures keep to
\* their states, and no goal is counted, held back or answered for that does
\* not exist.
THEOREM TopologyTypes == Spec => []TypeOK
<1>1. IInv => TypeOK
  <2> SUFFICES ASSUME IInv PROVE TypeOK
    OBVIOUS
  <2>1. /\ topo \in Topos /\ rules \in R!RuleSet /\ active \in SUBSET GoalIds
        /\ count \in 0 .. 255 /\ slots \in Slots /\ proc \in Procs /\ env \in Envs
        /\ timer \in BOOLEAN
    BY WorldIs DEF World, Worlds
  <2>2. count \in 0 .. G!CountLimit - 1
    BY <2>1 DEF G!CountLimit
  <2>3. DOMAIN slots \subseteq GoalIds /\ \A g \in DOMAIN slots : slots[g] \subseteq GoalIds
    BY <2>1, SlotsAre
  <2>4. env.all => env.links > 0
    BY WorldIs DEF LinksOK
  <2> QED
    BY <2>1, <2>2, <2>3, <2>4, ScriptIs DEF TypeOK, Topos, Procs, Envs
<1> QED
  BY <1>1, TopologyInvariant, PTL

\* Goals run together only if both allow it, whatever is started, cancelled,
\* queued and let go (GoalsEngine_ActivateGoal).
THEOREM OnlyConcurrentGoals == Spec => []OnlyConcurrentGoalsRun
<1>1. IInv => OnlyConcurrentGoalsRun
  BY DEF IInv, Base, Concurrent, World, OnlyConcurrentGoalsRun
<1> QED
  BY <1>1, TopologyInvariant, PTL

\* As long as the counter of queued messages, a byte, has not come to its
\* limit, a goal in the queue has an entry that is let go, and the entries are
\* not wiped while one of them is needed (goalsEngine_QueueGoal,
\* goalsEngine_ResetPendingQueueIfEmpty).  The hypothesis cannot go: a goal that
\* is asked for again and again while it runs has a message for each time.
THEOREM QueueLetsGo == Spec /\ [](count < G!CountLimit - 1) => []QueueIsReleased
<1>1. Init => IInv /\ Held(World)
  BY InitIsGood
<1>2. count < G!CountLimit - 1 => Roomy(World)
  BY DEF G!CountLimit, Roomy, World
<1>3. IInv /\ Held(World) /\ count < G!CountLimit - 1 /\ [Next]_vars => IInv' /\ Held(World)'
  BY <1>2, NextKeeps DEF Step
<1>4. IInv /\ Held(World) => QueueIsReleased
  <2> SUFFICES ASSUME IInv, Held(World) PROVE QueueIsReleased
    OBVIOUS
  <2>1. Queue(World) = Keep(mail, G!QueuedMessages)
    BY DEF Queue, World
  <2>2. ASSUME NEW n \in DOMAIN mail, G!IsQueued(mail[n]) PROVE mail[n].goal \in DOMAIN slots
    <3>1. mail[n] \in G!QueuedMessages
      <4>1. mail[n] \in Messages
        BY WorldIs
      <4> QED
        BY <2>2, <4>1, QueuedAre
    <3>2. \E k \in DOMAIN Queue(World) : Queue(World)[k] = mail[n]
      BY <2>1, <3>1, WorldIs, KeepAll
    <3> QED
      BY <3>2, WorldIs DEF Held
  <2> QED
    BY <2>1, <2>2, WorldIs DEF Held, QueueIsReleased
<1> QED
  BY <1>1, <1>3, <1>4, PTL DEF Spec
=============================================================================
