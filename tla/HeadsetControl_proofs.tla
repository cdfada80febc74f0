------------------------ MODULE HeadsetControl_proofs ------------------------
(***************************************************************************)
(* The safety of the headset's control, proved for any inputs and moves in *)
(* any number and for any backlog of messages: its types, that no timer    *)
(* outlives what it was started for, and that no order of events panics.   *)
(***************************************************************************)
EXTENDS HeadsetControl, Keeping_proofs

---------------------------------------------------------------------------
(* Worlds.                                                                 *)

SmStates   == {"NULL", "FACTORY_RESET", "LIMBO", "POWERING_ON", "PAIRING", "IDLE",
               "BUSY", "TERMINATING", "POWERING_OFF"}
TopoStates == {"STOPPED", "STARTING", "STARTED", "STOPPING"}
StopTasks  == {"transition", HeadsetTask}
Ends       == {"none", "wall", "host"}

Sms    == [state : SmStates, user_pairing : BOOLEAN, auto_poweron : BOOLEAN,
           disconnect_lock : BOOLEAN]
Wireds == [paused : BOOLEAN, connected : BOOLEAN]
Topos  == [state : TopoStates, app_task : {"none"} \cup StopTasks, shutdown : BOOLEAN,
           stopping : BOOLEAN, disconnecting : BOOLEAN]
Usbs   == [enabled : BOOLEAN, attached : BOOLEAN, enumerated : BOOLEAN]
Envs   == [cable : Ends, unsafe : BOOLEAN, linked : BOOLEAN, paired : BOOLEAN,
           audio : BOOLEAN, pairing : BOOLEAN, prompting : BOOLEAN]

\* The timers that belong to a state
TimedIds == {"TIMEOUT_LIMBO", "TIMEOUT_IDLE", "TIMEOUT_STOP"}

\* Messages that only name what they are, and those that carry something
PlainIds ==
  {"UI_POWER_ON", "UI_POWER_OFF", "UI_PAIR_HANDSET", "UI_DELETE_HANDSETS", "UI_FACTORY_RESET",
   "POWER_OFF", "PAIR_HANDSET", "DELETE_HANDSETS", "FACTORY_RESET",
   "STOP_CFM", "SHUTDOWN_PREPARE_IND", "CHARGER_DETACHED", "LINK_DISCONNECTION_COMPLETE",
   "TIMEOUT_LINK", "PAIR_CFM", "CONNECTED_IND", "DISCONNECTED_IND", "AUDIO_IND",
   "ENUMERATED", "DECONFIGURED", "STOP_FINISHED", "PROMPT_COMPLETED", "EVENT",
   "SYSTEM_STOP", "ALLOW_HANDSET_CONNECT", "DISCONNECT_HANDSET"}
Tasks == {TopologyTask, HeadsetTask, "transition", "goals", "wired", "power"}

ChangeMessage(old, new) ==
  [to |-> HeadsetTask, id |-> "STATE_CHANGE", old |-> old, new |-> new]
StartUp == ChangeMessage("starting_up", "limbo")

Plain   == [to : Tasks, id : PlainIds]
Timed   == [to : Tasks, id : TimedIds]
Changes == {ChangeMessage("limbo", "powering_on"), ChangeMessage("powering_on", "active"),
            ChangeMessage("active", "powering_off")}
Reports == [to : {HeadsetTask}, id : {"TOPOLOGY_DISCONNECTED_IND"}, status : {"success", "failed"}]

\* What may be sent; the message of the start up is there from the beginning.
Untimed  == Plain \cup Changes \cup Reports
Messages == Untimed \cup Timed \cup {StartUp}

Worlds == [sm : Sms, wired : Wireds, topo : Topos, usb : Usbs, ss : S!Context,
           p : P!PowerContext, queue : Seq(Messages), timers : [TimerIds -> Nat],
           env : Envs, power : {"on", "off", "reboot", "panic"}]

---------------------------------------------------------------------------
(* The inductive invariant.                                                *)

Pends(w, id) == w.timers[id] > 0 \/ Queued(w, id)

\* A timer is there only in the state that started it, and once.
TimersOK(w) ==
  /\ Pends(w, "TIMEOUT_LIMBO") => w.sm.state = "LIMBO"
  /\ Pends(w, "TIMEOUT_IDLE") => w.sm.state = "IDLE"
  /\ Pends(w, "TIMEOUT_STOP") => w.topo.state = "STOPPING"
  /\ \A id \in TimedIds : w.timers[id] \in {0, 1}

\* Whoever stops the topology is known until it is told.
AskerKnown(w) == w.topo.state = "STOPPING" => w.topo.app_task # "none"

\* The start up is over: the power state does not go back to it.
Up(w) == w.ss.state # "starting_up"

Base(w) == w \in Worlds /\ TimersOK(w) /\ AskerKnown(w) /\ Up(w) /\ w.power # "panic"

\* The message of the start up has been handled.
Started(w) == \A n \in DOMAIN w.queue : w.queue[n] # StartUp

Good(w) == Base(w) /\ Started(w)

\* The message of the start up is the first of all, and the headset has
\* entered no state before it is handled.
StartsOnce == \A n \in DOMAIN queue : queue[n] = StartUp => n = 1 /\ sm.state = "NULL"

IInv == Base(World) /\ StartsOnce

---------------------------------------------------------------------------
(* Messages and timers.                                                    *)

\* Two worlds that differ in their messages and timers only
Aside(r, w) ==
  /\ r.sm = w.sm /\ r.topo = w.topo /\ r.env = w.env /\ r.usb = w.usb
  /\ r.wired = w.wired /\ r.ss = w.ss /\ r.p = w.p /\ r.power = w.power

\* A world without the messages in its queue changed keeps to the invariant
\* when what the invariant speaks of is left alone.
LEMMA AsideKeeps ==
  ASSUME NEW w, Good(w), NEW r \in Worlds, r.sm.state = w.sm.state, r.topo.state = w.topo.state,
         r.topo.app_task = w.topo.app_task \/ r.topo.app_task # "none",
         r.timers = w.timers, r.queue = w.queue, Up(r), r.power # "panic"
  PROVE  Good(r)
BY DEF Good, Base, TimersOK, AskerKnown, Started, Pends, Queued

\* What is sent is the last in the queue.
LEMMA AppendIs ==
  ASSUME NEW q \in Seq(Messages), NEW m \in Messages
  PROVE  /\ Append(q, m) \in Seq(Messages)
         /\ DOMAIN Append(q, m) = 1 .. Len(q) + 1 /\ Len(q) \in Nat
         /\ DOMAIN q = 1 .. Len(q)
         /\ \A n \in DOMAIN q : Append(q, m)[n] = q[n]
         /\ Append(q, m)[Len(q) + 1] = m
BY AppendProperties, LenProperties

\* The message with an id is there afterwards if it was before or is the one sent.
LEMMA PostIs ==
  ASSUME NEW w \in Worlds, NEW m \in Messages
  PROVE  /\ Post(w, m) = [w EXCEPT !.queue = Append(w.queue, m)]
         /\ Post(w, m) \in Worlds
         /\ \A id : Queued(Post(w, m), id) <=> Queued(w, id) \/ m.id = id
<1> DEFINE r == Post(w, m)
           q == Append(w.queue, m)
<1>1. w.queue \in Seq(Messages)
  BY DEF Worlds
<1>2. m.to # "none"
  BY DEF Messages, Untimed, Plain, Timed, Changes, Reports, StartUp, ChangeMessage, Tasks,
         TopologyTask, HeadsetTask
<1>3. r = [w EXCEPT !.queue = q]
  BY <1>2 DEF Post, Worlds
<1>4. /\ q \in Seq(Messages)
      /\ DOMAIN q = 1 .. Len(w.queue) + 1 /\ Len(w.queue) \in Nat
      /\ DOMAIN w.queue = 1 .. Len(w.queue)
      /\ \A n \in DOMAIN w.queue : q[n] = w.queue[n]
      /\ q[Len(w.queue) + 1] = m
  BY <1>1, AppendIs
<1> HIDE DEF r, q
<1>5. r \in Worlds /\ r.queue = q
  BY <1>3, <1>4 DEF Worlds
<1>6. ASSUME NEW id PROVE Queued(r, id) <=> Queued(w, id) \/ m.id = id
  BY <1>4, <1>5 DEF Queued
<1> QED
  BY <1>3, <1>5, <1>6 DEF r, q

\* Sending a message that no timer sends keeps the invariant.
LEMMA PostKeeps ==
  ASSUME NEW w, Base(w), NEW m \in Untimed
  PROVE  /\ Base(Post(w, m))
         /\ \A n \in DOMAIN Post(w, m).queue : Post(w, m).queue[n] = StartUp =>
              n \in DOMAIN w.queue /\ w.queue[n] = StartUp
<1> DEFINE r == Post(w, m)
<1>1. /\ m \in Messages /\ m # StartUp /\ \A id \in TimedIds : m.id # id
      /\ w \in Worlds
  BY DEF Messages, Untimed, Plain, Changes, Reports, StartUp, ChangeMessage, TimedIds, PlainIds,
         Base
<1>2. /\ r = [w EXCEPT !.queue = Append(w.queue, m)]
      /\ r \in Worlds
      /\ \A id : Queued(r, id) <=> Queued(w, id) \/ m.id = id
  BY <1>1, PostIs
<1>3. w.queue \in Seq(Messages)
  BY <1>1 DEF Worlds
<1> HIDE DEF r
<1>4. /\ r.sm = w.sm /\ r.topo = w.topo /\ r.timers = w.timers /\ r.ss = w.ss
      /\ r.power = w.power /\ r.queue = Append(w.queue, m)
  BY <1>1, <1>2 DEF Worlds
<1>5. \A id \in TimedIds : Pends(r, id) <=> Pends(w, id)
  BY <1>1, <1>2, <1>4 DEF Pends
<1>6. Base(r)
  BY <1>2, <1>4, <1>5 DEF Base, TimersOK, AskerKnown, Up, TimedIds
<1>7. ASSUME NEW n \in DOMAIN r.queue, r.queue[n] = StartUp
      PROVE  n \in DOMAIN w.queue /\ w.queue[n] = StartUp
  BY <1>1, <1>3, <1>4, <1>7, AppendIs
<1> QED
  BY <1>6, <1>7 DEF r

\* ... and so it does once the start up is over.
LEMMA PostGood ==
  ASSUME NEW w, Good(w), NEW m \in Untimed
  PROVE  Good(Post(w, m))
BY PostKeeps DEF Good, Started

\* Only names
LEMMA MsgIsUntimed ==
  ASSUME NEW to \in Tasks, NEW id \in PlainIds
  PROVE  Msg(to, id) \in Untimed
BY DEF Msg, Untimed, Plain

\* Cancelling leaves nothing with that id, and the rest of the queue.
LEMMA CancelAllIs ==
  ASSUME NEW w \in Worlds, NEW id \in TimerIds \cup PlainIds
  PROVE  /\ CancelAll(w, id) \in Worlds /\ ~Queued(CancelAll(w, id), id)
         /\ Aside(CancelAll(w, id), w)
         /\ \A i \in TimerIds : CancelAll(w, id).timers[i] = IF i = id THEN 0 ELSE w.timers[i]
         /\ \A n \in DOMAIN CancelAll(w, id).queue :
              \E k \in DOMAIN w.queue : CancelAll(w, id).queue[n] = w.queue[k]
<1> DEFINE r    == CancelAll(w, id)
           ids  == {id}
           q    == Without(w.queue, ids)
           t    == [i \in DOMAIN w.timers |-> IF i = id THEN 0 ELSE w.timers[i]]
<1>1. w.queue \in Seq(Messages) /\ w.timers \in [TimerIds -> Nat]
  BY DEF Worlds
<1>2. /\ q \in Seq(Messages)
      /\ \A n \in DOMAIN q : q[n].id \notin ids /\ \E k \in DOMAIN w.queue : q[n] = w.queue[k]
  <2> HIDE DEF ids
  <2> QED
    BY <1>1, WithoutIs
<1>3. t \in [TimerIds -> Nat] /\ \A i \in TimerIds : t[i] = IF i = id THEN 0 ELSE w.timers[i]
  BY <1>1
<1>4. r = [w EXCEPT !.timers = t, !.queue = q]
  BY DEF CancelAll
<1>5. \A n \in DOMAIN q : q[n].id # id
  BY <1>2
<1> HIDE DEF r, q, t, ids
<1>6. r \in Worlds /\ r.queue = q /\ r.timers = t /\ Aside(r, w)
  BY <1>2, <1>3, <1>4 DEF Worlds, Aside
<1>7. ~Queued(r, id)
  BY <1>5, <1>6 DEF Queued
<1> QED
  BY <1>2, <1>3, <1>6, <1>7 DEF r

\* It keeps the invariant, and the timer is gone.
LEMMA CancelAllKeeps ==
  ASSUME NEW w, Good(w), NEW id \in TimerIds \cup PlainIds
  PROVE  /\ Good(CancelAll(w, id)) /\ Aside(CancelAll(w, id), w)
         /\ id \in TimerIds => ~Pends(CancelAll(w, id), id)
         /\ \A i \in TimerIds : Pends(CancelAll(w, id), i) => Pends(w, i)
<1> DEFINE r == CancelAll(w, id)
<1>0. w \in Worlds
  BY DEF Good, Base
<1>1. /\ r \in Worlds /\ ~Queued(r, id) /\ Aside(r, w)
      /\ \A i \in TimerIds : r.timers[i] = IF i = id THEN 0 ELSE w.timers[i]
      /\ \A n \in DOMAIN r.queue : \E k \in DOMAIN w.queue : r.queue[n] = w.queue[k]
  BY <1>0, CancelAllIs
<1> HIDE DEF r
<1>3. \A i \in TimerIds : Pends(r, i) => Pends(w, i)
  <2> SUFFICES ASSUME NEW i \in TimerIds, Pends(r, i) PROVE Pends(w, i)
    OBVIOUS
  <2>1. CASE i = id
    BY <1>1, <2>1 DEF Pends
  <2>2. CASE i # id
    BY <1>1, <2>2 DEF Pends, Queued
  <2> QED
    BY <2>1, <2>2
<1>4. \A i \in TimedIds : i \in TimerIds
  BY DEF TimedIds, TimerIds
<1>5. TimersOK(r)
  <2>1. \A i \in TimedIds : r.timers[i] \in {0, 1}
    BY <1>1, <1>4 DEF Good, Base, TimersOK
  <2> QED
    BY <1>1, <1>3, <1>4, <2>1 DEF Good, Base, TimersOK, TimedIds, Aside
<1>6. Good(r)
  BY <1>1, <1>5 DEF Good, Base, AskerKnown, Up, Started, Aside
<1>7. id \in TimerIds => ~Pends(r, id)
  BY <1>1 DEF Pends, TimerIds
<1> QED
  BY <1>1, <1>3, <1>6, <1>7 DEF r

\* A timer that is started where it belongs, and that is not there yet
LEMMA SendLaterKeeps ==
  ASSUME NEW w, Good(w), NEW id \in TimerIds,
         id # "TIMEOUT_LINK" => ~Pends(w, id),
         id = "TIMEOUT_LIMBO" => w.sm.state = "LIMBO",
         id = "TIMEOUT_IDLE" => w.sm.state = "IDLE",
         id = "TIMEOUT_STOP" => w.topo.state = "STOPPING"
  PROVE  Good(SendLater(w, id))
<1> DEFINE r == SendLater(w, id)
<1>1. w \in Worlds /\ w.timers \in [TimerIds -> Nat]
  BY DEF Good, Base, Worlds
<1> DEFINE t == [w.timers EXCEPT ![id] = w.timers[id] + 1]
<1>2. r = [w EXCEPT !.timers = t]
  BY <1>1 DEF SendLater
<1>2a. /\ t \in [TimerIds -> Nat]
       /\ \A i \in TimerIds : t[i] = IF i = id THEN w.timers[i] + 1 ELSE w.timers[i]
  BY <1>1
<1> HIDE DEF r, t
<1>3. /\ r \in Worlds /\ r.sm = w.sm /\ r.topo = w.topo /\ r.queue = w.queue /\ r.ss = w.ss
      /\ r.power = w.power
      /\ \A i \in TimerIds : r.timers[i] = IF i = id THEN w.timers[i] + 1 ELSE w.timers[i]
  BY <1>1, <1>2, <1>2a DEF Worlds
<1>4. \A i \in TimedIds : i \in TimerIds /\ i # "TIMEOUT_LINK"
  BY DEF TimedIds, TimerIds
<1>5. \A i \in TimerIds : i # id => (Pends(r, i) <=> Pends(w, i))
  BY <1>3 DEF Pends, Queued
<1>6. \A i \in TimedIds : r.timers[i] \in {0, 1}
  <2> SUFFICES ASSUME NEW i \in TimedIds PROVE r.timers[i] \in {0, 1}
    OBVIOUS
  <2>1. CASE i # id
    BY <1>3, <1>4, <2>1 DEF Good, Base, TimersOK
  <2>2. CASE i = id
    <3>1. w.timers[i] \in Nat /\ ~(w.timers[i] > 0)
      BY <1>1, <1>4, <2>2 DEF Pends
    <3> QED
      BY <1>3, <1>4, <2>2, <3>1
  <2> QED
    BY <2>1, <2>2
<1>7. TimersOK(r)
  BY <1>3, <1>4, <1>5, <1>6 DEF Good, Base, TimersOK, TimedIds
<1>8. Good(r)
  BY <1>3, <1>7 DEF Good, Base, AskerKnown, Up, Started
<1> QED
  BY <1>8 DEF r

\* One message is taken out of the queue.
LEMMA TakenOutKeeps ==
  ASSUME NEW w \in Worlds, NEW n \in DOMAIN w.queue
  PROVE  LET q == RemoveAt(w.queue, n)
         IN  /\ q \in Seq(Messages) /\ [w EXCEPT !.queue = q] \in Worlds
             /\ \A k \in DOMAIN q : \E i \in DOMAIN w.queue : i # n /\ q[k] = w.queue[i]
<1> DEFINE s == w.queue
           q == RemoveAt(s, n)
<1>1. s \in Seq(Messages)
  BY DEF Worlds
<1>2. DOMAIN s = 1 .. Len(s) /\ Len(s) \in Nat
  BY <1>1, LenProperties
<1> HIDE DEF s
<1>3. /\ q \in Seq(Messages) /\ Len(q) = Len(s) - 1
      /\ \A k \in 1 .. Len(s) - 1 : q[k] = IF k < n THEN s[k] ELSE s[k + 1]
  <2>1. n \in 1 .. Len(s)
    BY <1>2 DEF s
  <2> QED
    BY <1>1, <2>1, TakenOut DEF RemoveAt
<1> HIDE DEF q
<1>4. ASSUME NEW k \in DOMAIN q
      PROVE  \E i \in DOMAIN s : i # n /\ q[k] = s[i]
  <2> DEFINE last == Len(s)
  <2>1. DOMAIN q = 1 .. last - 1 /\ n \in 1 .. last /\ DOMAIN s = 1 .. last
    BY <1>2, <1>3, LenProperties DEF s
  <2>2. last \in Nat /\ \A i \in 1 .. last - 1 : q[i] = IF i < n THEN s[i] ELSE s[i + 1]
    BY <1>2, <1>3
  <2> HIDE DEF last
  <2>3. CASE k < n
    BY <2>1, <2>2, <2>3
  <2>4. CASE ~(k < n)
    <3>1. k + 1 \in 1 .. last /\ k + 1 # n
      BY <2>1, <2>2, <2>4
    <3>2. q[k] = s[k + 1]
      BY <2>1, <2>2, <2>4
    <3> QED
      BY <2>1, <3>1, <3>2
  <2> QED
    BY <2>3, <2>4
<1>5. [w EXCEPT !.queue = q] \in Worlds
  BY <1>3 DEF Worlds
<1> QED
  BY <1>3, <1>4, <1>5 DEF q, s

\* What is left of a good world without one of its messages, or with a timed
\* message less on its way
LEMMA FewerKeeps ==
  ASSUME NEW w, Good(w), NEW r \in Worlds,
         r.sm.state = w.sm.state, r.topo = w.topo, r.ss = w.ss, r.power = w.power,
         \A n \in DOMAIN r.queue : \E k \in DOMAIN w.queue : r.queue[n] = w.queue[k],
         \A id \in TimerIds : r.timers[id] = w.timers[id] \/ (id = "TIMEOUT_LINK")
  PROVE  Good(r)
<1>1. \A id \in TimedIds : r.timers[id] = w.timers[id] /\ (Queued(r, id) => Queued(w, id))
  BY DEF TimedIds, TimerIds, Queued
<1>2. TimersOK(r)
  BY <1>1 DEF Good, Base, TimersOK, Pends, TimedIds
<1> QED
  BY <1>2 DEF Good, Base, AskerKnown, Up, Started

\* MessageCancelFirst, as it is used for the link's timer
LEMMA CancelFirstKeeps ==
  ASSUME NEW w, Good(w)
  PROVE  LET r == CancelFirst(w, "TIMEOUT_LINK")
         IN  Good(r) /\ r.env = w.env
<1> DEFINE r == CancelFirst(w, "TIMEOUT_LINK")
<1>0. w \in Worlds /\ w.timers \in [TimerIds -> Nat] /\ w.queue \in Seq(Messages)
  BY DEF Good, Base, Worlds
<1>1. CASE ~Queued(w, "TIMEOUT_LINK")
  <2> DEFINE t == [w.timers EXCEPT !["TIMEOUT_LINK"] = IF @ = 0 THEN 0 ELSE @ - 1]
  <2>1. r = [w EXCEPT !.timers = t]
    BY <1>0, <1>1 DEF CancelFirst
  <2>2. t \in [TimerIds -> Nat] /\ \A id \in TimerIds : id # "TIMEOUT_LINK" => t[id] = w.timers[id]
    <3> DEFINE old == w.timers["TIMEOUT_LINK"]
               less == IF old = 0 THEN 0 ELSE old - 1
    <3>1. old \in Nat
      BY <1>0 DEF TimerIds
    <3>2. less \in Nat
      <4> HIDE DEF old
      <4> QED
        BY <3>1
    <3>3. t = [w.timers EXCEPT !["TIMEOUT_LINK"] = less]
      OBVIOUS
    <3> HIDE DEF less, t
    <3> QED
      BY <1>0, <3>2, <3>3
  <2> HIDE DEF t, r
  <2>3. /\ r \in Worlds /\ r.sm = w.sm /\ r.topo = w.topo /\ r.ss = w.ss /\ r.power = w.power
        /\ r.queue = w.queue /\ r.timers = t /\ r.env = w.env
    BY <1>0, <2>1, <2>2 DEF Worlds
  <2>4. Good(r)
    BY <2>2, <2>3, FewerKeeps
  <2> QED
    BY <2>3, <2>4 DEF r
<1>2. CASE Queued(w, "TIMEOUT_LINK")
  <2> DEFINE Found == {n \in DOMAIN w.queue : w.queue[n].id = "TIMEOUT_LINK"}
             earlier(n) == \A k \in 1 .. n - 1 : w.queue[k].id # "TIMEOUT_LINK"
             first == CHOOSE n \in DOMAIN w.queue : w.queue[n].id = "TIMEOUT_LINK" /\ earlier(n)
  <2>1. DOMAIN w.queue = 1 .. Len(w.queue) /\ Len(w.queue) \in Nat
    BY <1>0, LenProperties
  <2>2. \E n \in DOMAIN w.queue : w.queue[n].id = "TIMEOUT_LINK" /\ earlier(n)
    <3> DEFINE n == CHOOSE k \in Found : \A i \in Found : k <= i
    <3>1. Found \subseteq Nat /\ Found # {}
      BY <1>2, <2>1 DEF Queued
    <3>2. n \in Found /\ \A i \in Found : n <= i
      <4> HIDE DEF Found
      <4> QED
        BY <3>1, LeastIs
    <3> HIDE DEF n
    <3>3. earlier(n)
      BY <2>1, <3>2
    <3> QED
      BY <3>2, <3>3
  <2>3. first \in DOMAIN w.queue
    BY <2>2
  <2>4. r = [w EXCEPT !.queue = RemoveAt(w.queue, first)]
    BY <1>2 DEF CancelFirst
  <2> HIDE DEF first
  <2> DEFINE q == RemoveAt(w.queue, first)
  <2>5. /\ q \in Seq(Messages) /\ [w EXCEPT !.queue = q] \in Worlds
        /\ \A k \in DOMAIN q : \E i \in DOMAIN w.queue : i # first /\ q[k] = w.queue[i]
    BY <1>0, <2>3, TakenOutKeeps
  <2>6. r = [w EXCEPT !.queue = q]
    BY <2>4
  <2> HIDE DEF q, r
  <2>7. /\ r \in Worlds /\ r.sm = w.sm /\ r.topo = w.topo /\ r.ss = w.ss /\ r.power = w.power
        /\ r.timers = w.timers /\ r.queue = q /\ r.env = w.env
    BY <1>0, <2>5, <2>6 DEF Worlds
  <2>8. Good(r)
    BY <2>5, <2>7, FewerKeeps
  <2> QED
    BY <2>7, <2>8 DEF r
<1> QED
  BY <1>1, <1>2

---------------------------------------------------------------------------
(* USB, the wired audio controller and the topology.                       *)

\* A good world is a world.
LEMMA GoodIsTyped ==
  ASSUME NEW w, Good(w)
  PROVE  /\ w \in Worlds /\ w.sm \in Sms /\ w.wired \in Wireds /\ w.topo \in Topos
         /\ w.usb \in Usbs /\ w.env \in Envs /\ w.ss \in S!Context /\ w.p \in P!PowerContext
BY DEF Good, Base, Worlds

\* What is read of the cable is no business of the invariant.
LEMMA WiredActiveType ==
  ASSUME NEW w, Good(w)
  PROVE  WiredActive(w) \in BOOLEAN
BY DEF WiredActive

\* The host is told that the device leaves the bus.
LEMMA LeaveBusKeeps ==
  ASSUME NEW w, Base(w)
  PROVE  /\ Base(LeaveBus(w)) /\ LeaveBus(w).sm = w.sm
         /\ \A n \in DOMAIN LeaveBus(w).queue : LeaveBus(w).queue[n] = StartUp =>
              n \in DOMAIN w.queue /\ w.queue[n] = StartUp
<1> DEFINE v == [w EXCEPT !.usb.enumerated = FALSE]
           m == Msg("wired", "DECONFIGURED")
<1>1. w \in Worlds /\ w.usb \in Usbs
  BY DEF Base, Worlds
<1>2. v \in Worlds /\ v.sm = w.sm /\ v.topo = w.topo /\ v.timers = w.timers
      /\ v.queue = w.queue /\ v.ss = w.ss /\ v.power = w.power
  BY <1>1 DEF Worlds, Usbs
<1>3. Base(v)
  <2> HIDE DEF v
  <2> QED
    BY <1>2 DEF Base, TimersOK, AskerKnown, Up, Pends, Queued
<1>4. m \in Untimed
  BY MsgIsUntimed DEF Tasks, PlainIds
<1>5. LeaveBus(w) = IF w.usb.enumerated THEN Post(v, m) ELSE w
  BY DEF LeaveBus
<1> HIDE DEF v, m
<1>6. /\ Base(Post(v, m))
      /\ \A n \in DOMAIN Post(v, m).queue : Post(v, m).queue[n] = StartUp =>
           n \in DOMAIN v.queue /\ v.queue[n] = StartUp
  BY <1>3, <1>4, PostKeeps
<1>7. Post(v, m).sm = v.sm
  <2>1. m \in Messages
    BY <1>4 DEF Messages
  <2> QED
    BY <1>2, <2>1, PostIs DEF Worlds
<1> QED
  BY <1>2, <1>5, <1>6, <1>7

\* ... and the same once the start up is over.
LEMMA LeaveBusGood ==
  ASSUME NEW w, Good(w)
  PROVE  Good(LeaveBus(w))
BY LeaveBusKeeps DEF Good, Started

\* USB audio goes on and off.
LEMMA UsbAudioKeeps ==
  ASSUME NEW w, Good(w)
  PROVE  Good(UsbAudioEnable(w)) /\ Good(UsbAudioDisable(w))
<1>1. ASSUME NEW on \in BOOLEAN
      PROVE  Good(LeaveBus([w EXCEPT !.usb.enabled = on, !.usb.attached = FALSE]))
  <2> DEFINE v == [w EXCEPT !.usb.enabled = on, !.usb.attached = FALSE]
  <2>1. w \in Worlds /\ w.usb \in Usbs
    BY GoodIsTyped
  <2>2. v \in Worlds /\ v.sm = w.sm /\ v.topo = w.topo /\ v.timers = w.timers
        /\ v.queue = w.queue /\ v.ss = w.ss /\ v.power = w.power
    BY <2>1 DEF Worlds, Usbs
  <2> HIDE DEF v
  <2>3. Good(v)
    BY <2>2, AsideKeeps DEF Good, Base, Up
  <2> QED
    BY <2>3, LeaveBusGood DEF v
<1>2. CASE w.usb.enabled
  BY <1>1, <1>2 DEF UsbAudioEnable, UsbAudioDisable
<1>3. CASE ~w.usb.enabled
  BY <1>1, <1>3 DEF UsbAudioEnable, UsbAudioDisable
<1> QED
  BY <1>2, <1>3

\* The controller is paused.
LEMMA WiredDisableKeeps ==
  ASSUME NEW w, Good(w)
  PROVE  /\ Good(WiredDisable(w)) /\ WiredDisable(w).sm = w.sm
<1> DEFINE v == WiredDisable(w)
<1>1. w \in Worlds /\ w.power # "panic" /\ Up(w)
  BY DEF Good, Base
<1>2. WiredActive(w) \in BOOLEAN
  BY WiredActiveType
<1>3. v \in Worlds /\ v.sm = w.sm /\ v.topo = w.topo /\ v.timers = w.timers
      /\ v.queue = w.queue /\ v.ss = w.ss /\ v.power = w.power
  BY <1>1, <1>2 DEF Worlds, Wireds, WiredDisable
<1> HIDE DEF v
<1>4. Good(v)
  BY <1>1, <1>3, AsideKeeps DEF Up
<1> QED
  BY <1>3, <1>4 DEF v

\* Whoever stopped the topology is told, and its timer is gone.
LEMMA SendStopCfmKeeps ==
  ASSUME NEW w, Good(w), w.topo.app_task # "none"
  PROVE  /\ Good(SendStopCfm(w)) /\ SendStopCfm(w).topo = w.topo
         /\ ~Pends(SendStopCfm(w), "TIMEOUT_STOP")
<1> DEFINE v == CancelAll(w, "TIMEOUT_STOP")
           m == Msg(w.topo.app_task, "STOP_CFM")
<1>1. /\ Good(v) /\ Aside(v, w) /\ ~Pends(v, "TIMEOUT_STOP")
  BY CancelAllKeeps DEF TimerIds
<1>2. m \in Untimed /\ m.id = "STOP_CFM"
  <2>1. w.topo.app_task \in Tasks
    BY GoodIsTyped DEF Topos, StopTasks, Tasks, HeadsetTask
  <2> QED
    BY <2>1, MsgIsUntimed DEF PlainIds, Msg
<1>3. SendStopCfm(w) = Post(v, m)
  BY DEF SendStopCfm
<1> HIDE DEF v, m
<1>4. Good(Post(v, m))
  BY <1>1, <1>2, PostGood
<1>5. v \in Worlds /\ m \in Messages
  BY <1>1, <1>2 DEF Good, Base, Messages
<1>6. /\ Post(v, m) = [v EXCEPT !.queue = Append(v.queue, m)]
      /\ ~Queued(Post(v, m), "TIMEOUT_STOP")
  BY <1>1, <1>2, <1>5, PostIs DEF Pends
<1>7. Post(v, m).topo = v.topo /\ Post(v, m).timers = v.timers
  BY <1>5, <1>6 DEF Worlds
<1> QED
  BY <1>1, <1>3, <1>4, <1>6, <1>7 DEF Pends, Aside

\* The topology has stopped.
LEMMA TopologyStoppedKeeps ==
  ASSUME NEW w, Good(w), ~Pends(w, "TIMEOUT_STOP")
  PROVE  Good(TopologyStopped(w))
<1> DEFINE r == TopologyStopped(w)
<1>1. w \in Worlds /\ w.topo \in Topos
  BY GoodIsTyped
<1>2. r = [w EXCEPT !.topo = [w.topo EXCEPT !.state = "STOPPED", !.app_task = "none"]]
  BY <1>1 DEF TopologyStopped, Worlds
<1>3. r \in Worlds /\ r.sm = w.sm /\ r.topo.state = "STOPPED" /\ r.timers = w.timers
      /\ r.queue = w.queue /\ r.ss = w.ss /\ r.power = w.power
  BY <1>1, <1>2 DEF Worlds, Topos, TopoStates
<1> HIDE DEF r
<1>4. TimersOK(r)
  BY <1>3 DEF Good, Base, TimersOK, Pends, Queued
<1> QED
  BY <1>3, <1>4 DEF Good, Base, AskerKnown, Up, Started, r

\* The topology is started.
LEMMA TopologyStartKeeps ==
  ASSUME NEW w, Good(w)
  PROVE  Good(TopologyStart(w)) /\ TopologyStart(w).sm = w.sm
<1> DEFINE v == [w EXCEPT !.topo.state = "STARTING", !.topo.shutdown = FALSE]
           m == Msg("goals", "ALLOW_HANDSET_CONNECT")
<1>1. CASE w.topo.state # "STOPPED"
  BY <1>1 DEF TopologyStart
<1>2. CASE w.topo.state = "STOPPED"
  <2>1. w \in Worlds /\ w.topo \in Topos
    BY GoodIsTyped
  <2>2. v \in Worlds /\ v.sm = w.sm /\ v.topo.state = "STARTING" /\ v.timers = w.timers
        /\ v.queue = w.queue /\ v.ss = w.ss /\ v.power = w.power
    BY <2>1 DEF Worlds, Topos, TopoStates
  <2>3. TopologyStart(w) = Post(v, m)
    BY <1>2 DEF TopologyStart
  <2>4. m \in Untimed
    BY MsgIsUntimed DEF Tasks, PlainIds
  <2> HIDE DEF v, m
  <2>5. TimersOK(v)
    BY <1>2, <2>2 DEF Good, Base, TimersOK, Pends, Queued
  <2>6. Good(v)
    BY <2>2, <2>5 DEF Good, Base, AskerKnown, Up, Started
  <2>7. Good(Post(v, m))
    BY <2>4, <2>6, PostGood
  <2>8. Post(v, m).sm = v.sm
    <3>1. m \in Messages
      BY <2>4 DEF Messages
    <3> QED
      BY <2>2, <3>1, PostIs DEF Worlds
  <2> QED
    BY <2>2, <2>3, <2>7, <2>8
<1> QED
  BY <1>1, <1>2

\* The topology is stopped for a task.
LEMMA TopologyStopKeeps ==
  ASSUME NEW w, Good(w), NEW task \in StopTasks
  PROVE  Good(TopologyStop(w, task))
<1> DEFINE asked == [w EXCEPT !.topo.app_task = task]
<1>1. w \in Worlds /\ w.topo \in Topos /\ task # "none"
  BY GoodIsTyped DEF StopTasks, HeadsetTask
<1>2. asked = [w EXCEPT !.topo = [w.topo EXCEPT !.app_task = task]]
  BY <1>1 DEF Worlds
<1>3. /\ asked \in Worlds /\ asked.sm = w.sm /\ asked.timers = w.timers
      /\ asked.queue = w.queue /\ asked.ss = w.ss /\ asked.power = w.power
      /\ asked.topo.state = w.topo.state /\ asked.topo.app_task = task
  BY <1>1, <1>2 DEF Worlds, Topos
<1>4. TopologyStop(w, task) =
        CASE w.topo.state = "STARTED" ->
               Post(SendLater([asked EXCEPT !.topo.state = "STOPPING"], "TIMEOUT_STOP"),
                    Msg("goals", "SYSTEM_STOP"))
          [] w.topo.state = "STOPPED" -> SendStopCfm(asked)
          [] OTHER -> asked
  BY DEF TopologyStop
<1> HIDE DEF asked
<1>5. Good(asked)
  <2>1. Up(asked) /\ asked.power # "panic"
    BY <1>3 DEF Good, Base, Up
  <2> QED
    BY <1>1, <1>3, <2>1, AsideKeeps
<1>6. CASE w.topo.state = "STARTED"
  <2> DEFINE v == [asked EXCEPT !.topo.state = "STOPPING"]
             s == SendLater(v, "TIMEOUT_STOP")
             m == Msg("goals", "SYSTEM_STOP")
  <2>1. TopologyStop(w, task) = Post(s, m)
    BY <1>4, <1>6
  <2>2. /\ v \in Worlds /\ v.sm = asked.sm /\ v.timers = asked.timers
        /\ v.queue = asked.queue /\ v.ss = asked.ss /\ v.power = asked.power
        /\ v.topo.state = "STOPPING" /\ v.topo.app_task = task
    BY <1>3 DEF Worlds, Topos, TopoStates
  <2>3. m \in Untimed
    BY MsgIsUntimed DEF Tasks, PlainIds
  <2> HIDE DEF v, m
  <2>4. ~Pends(v, "TIMEOUT_STOP")
    BY <1>3, <1>5, <1>6, <2>2 DEF Good, Base, TimersOK, Pends, Queued
  <2>5. TimersOK(v)
    BY <1>5, <2>2 DEF Good, Base, TimersOK, Pends, Queued
  <2>6. Good(v)
    BY <1>1, <1>5, <2>2, <2>5 DEF Good, Base, AskerKnown, Up, Started
  <2>7. Good(s)
    BY <2>2, <2>4, <2>6, SendLaterKeeps DEF TimerIds
  <2> HIDE DEF s
  <2> QED
    BY <2>1, <2>3, <2>7, PostGood
<1>7. CASE w.topo.state = "STOPPED"
  <2>1. Good(SendStopCfm(asked))
    BY <1>1, <1>3, <1>5, SendStopCfmKeeps
  <2> QED
    BY <1>4, <1>7, <2>1
<1>8. CASE w.topo.state \notin {"STARTED", "STOPPED"}
  BY <1>4, <1>5, <1>8
<1> QED
  BY <1>6, <1>7, <1>8

---------------------------------------------------------------------------
(* The system state: a run of the transition engine.                       *)

Entries == {"SYNC", "HALT", "PROMPT_COMPLETED", "STOP_CFM"}

\* Every transition has a finite table.
LEMMA TableIs ==
  ASSUME NEW t \in S!TransitionNames
  PROVE  HeadsetTables[t] \in Seq(Entries)
<1> DEFINE prompt == IF PowerPrompts THEN "PROMPT_COMPLETED" ELSE "SYNC"
           Names  == {"init", "startup", "power_on", "power_off", "sleep", "shutdown", "emergency"}
<1>1. prompt \in Entries
  BY DEF Entries
<1>2. t \in Names
  BY DEF S!TransitionNames
<1>3. HeadsetTables[t] = CASE t = "power_on"  -> <<prompt, "SYNC", "SYNC">>
                           [] t = "power_off" -> <<"STOP_CFM", "SYNC">>
                           [] t \in {"shutdown", "emergency"} -> <<"HALT">>
                           [] OTHER -> << >>
  BY <1>2 DEF HeadsetTables
<1> HIDE DEF prompt
<1>4. CASE t = "power_on"
  <2>1. <<prompt, "SYNC", "SYNC">> \in Seq(Entries)
    BY <1>1 DEF Entries
  <2> QED
    BY <1>3, <1>4, <2>1
<1>5. CASE t = "power_off"
  <2>1. <<"STOP_CFM", "SYNC">> \in Seq(Entries)
    BY DEF Entries
  <2> QED
    BY <1>3, <1>5, <2>1
<1>6. CASE t \in {"shutdown", "emergency"}
  <2>1. <<"HALT">> \in Seq(Entries)
    BY DEF Entries
  <2> QED
    BY <1>3, <1>6, <2>1
<1>7. CASE t \notin {"power_on", "power_off", "shutdown", "emergency"}
  <2>1. << >> \in Seq(Entries)
    OBVIOUS
  <2> QED
    BY <1>3, <1>7, <2>1
<1> QED
  BY <1>4, <1>5, <1>6, <1>7

\* The loop stops at the first entry from i on that is not synchronous, or one
\* behind the end of the table.
LEMMA LoopStops ==
  ASSUME NEW table \in Seq(Entries), NEW i \in Nat
  PROVE  S!StopsAt(table, i) \in Nat /\ i <= S!StopsAt(table, i)
<1>0. Len(table) \in Nat
  BY LenProperties
<1>1. CASE i > Len(table)
  BY <1>0, <1>1 DEF S!StopsAt
<1>2. CASE i <= Len(table)
  <2> DEFINE Stops == {k \in i .. Len(table) + 1 : k <= Len(table) => table[k] # "SYNC"}
             least == CHOOSE n \in Stops : \A k \in Stops : n <= k
  <2>1. Len(table) + 1 \in Stops /\ Stops \subseteq Nat
    BY <1>0, <1>2
  <2>2. least \in Stops /\ \A k \in Stops : least <= k
    <3> HIDE DEF Stops
    <3> QED
      BY <2>1, LeastIs
  <2> HIDE DEF least
  <2>3. \A j \in i .. least - 1 : table[j] = "SYNC"
    <3> SUFFICES ASSUME NEW j \in i .. least - 1 PROVE table[j] = "SYNC"
      OBVIOUS
    <3>1. j \in Nat /\ j < least /\ j <= Len(table) /\ j \in i .. Len(table) + 1
      BY <1>0, <2>2
    <3>2. j \notin Stops
      BY <2>2, <3>1
    <3> QED
      BY <3>1, <3>2
  <2> DEFINE stop == S!StopsAt(table, i)
  <2>4. least \in i .. Len(table) + 1 /\ S!LeavesAt(table, i, least)
    BY <2>2, <2>3 DEF S!LeavesAt
  <2>5. stop = CHOOSE n \in i .. Len(table) + 1 : S!LeavesAt(table, i, n)
    BY <1>0, <1>2 DEF S!StopsAt
  <2>6. stop \in i .. Len(table) + 1
    <3> HIDE DEF stop
    <3> QED
      BY <2>4, <2>5
  <2> QED
    BY <1>0, <1>2, <2>6
<1> QED
  BY <1>0, <1>1, <1>2

\* What a run of the engine hands on: a context that is not starting up, the
\* steps it calls, and no change that the start up would have announced.
Onwards(changes) == changes # << >> => Head(changes).old # "starting_up"

RunOK(run) ==
  /\ Onwards(run.begins) /\ Onwards(run.ends)
  /\ run.ctx \in S!Context /\ run.ctx.state # "starting_up"
  /\ run.first - 1 \in Nat /\ run.last \in Nat /\ run.first - 1 <= run.last

\* Every transition leads through and to a state.
LEMMA TransitionFacts ==
  ASSUME NEW t \in S!TransitionNames
  PROVE  /\ S!To[t] \in S!States /\ S!To[t] # "starting_up"
         /\ S!Via[t] \in S!States /\ (t # "startup" => S!Via[t] # "starting_up")
BY DEF S!TransitionNames, S!To, S!Via, S!States, S!StableStates, S!TransitionalStates, S!HomeState

\* A transition is continued.
LEMMA ContinuedRun ==
  ASSUME NEW t \in S!TransitionNames, NEW c \in S!Context, c.state # "starting_up"
  PROVE  RunOK(S!DoTransition(c, t))
<1> DEFINE run  == S!DoTransition(c, t)
           table == HeadsetTables[t]
           i == c.index + 1
           stop == S!StopsAt(table, i)
           done == stop > Len(table)
           after == IF done THEN S!To[t] ELSE c.state
<1>1. c.index \in Nat /\ c.state \in S!States /\ i \in Nat
  BY DEF S!Context
<1>2. stop \in Nat /\ i <= stop
  <2> HIDE DEF table, i
  <2>1. table \in Seq(Entries)
    BY TableIs DEF table
  <2> QED
    BY <1>1, <2>1, LoopStops
<1>3. run = [ctx    |-> [c EXCEPT !.index = stop, !.state = after],
             begins |-> << >>,
             first  |-> i,
             last   |-> IF done THEN stop - 1 ELSE stop,
             ends   |-> IF done THEN <<S!Change(c.state, S!To[t])>> ELSE << >>]
  BY DEF S!DoTransition
<1>4. after \in S!States /\ after # "starting_up"
  BY <1>1, TransitionFacts
<1> HIDE DEF stop, after, run, done, i
<1>5. run.ctx = [c EXCEPT !.index = stop, !.state = after]
  BY <1>3
<1>6. run.ctx \in S!Context /\ run.ctx.state # "starting_up"
  BY <1>2, <1>4, <1>5 DEF S!Context
<1>7. run.first = i /\ run.last = (IF done THEN stop - 1 ELSE stop)
  BY <1>3
<1>8. run.first - 1 \in Nat /\ run.last \in Nat /\ run.first - 1 <= run.last
  BY <1>1, <1>2, <1>7 DEF i
<1>9. Onwards(run.begins) /\ Onwards(run.ends)
  <2> DEFINE said == <<S!Change(c.state, S!To[t])>>
  <2>1. run.begins = << >> /\ run.ends = (IF done THEN said ELSE << >>)
    BY <1>3
  <2>2. Head(said) = S!Change(c.state, S!To[t])
    OBVIOUS
  <2>3. Head(said).old = c.state
    BY <2>2 DEF S!Change
  <2> HIDE DEF said
  <2> QED
    BY <2>1, <2>3 DEF Onwards
<1> QED
  BY <1>6, <1>8, <1>9 DEF RunOK, run

\* A transition is begun.
LEMMA BegunRun ==
  ASSUME NEW t \in S!TransitionNames, t # "startup", NEW c \in S!Context, c.state # "starting_up"
  PROVE  RunOK(S!InitiateTransition(c, t))
<1> DEFINE setup == [state |-> S!Via[t], transition |-> t, index |-> 0]
           run   == S!DoTransition(setup, t)
           all   == S!InitiateTransition(c, t)
           said  == <<S!Change(c.state, S!Via[t])>>
<1>1. setup \in S!Context /\ setup.state # "starting_up"
  BY TransitionFacts DEF S!Context
<1>2. RunOK(run)
  <2> HIDE DEF setup
  <2> QED
    BY <1>1, ContinuedRun
<1>3. all = [run EXCEPT !.begins = said]
  BY DEF S!InitiateTransition
<1>4. \E x, b, f, l, e : run = [ctx |-> x, begins |-> b, first |-> f, last |-> l, ends |-> e]
  BY DEF S!DoTransition
<1>5. all.ctx = run.ctx /\ all.first = run.first /\ all.last = run.last
      /\ all.begins = said /\ all.ends = run.ends
  <2> HIDE DEF run, all, said
  <2> QED
    BY <1>3, <1>4
<1>6. Onwards(said)
  <2>1. Head(said) = S!Change(c.state, S!Via[t])
    OBVIOUS
  <2>2. Head(said).old = c.state
    BY <2>1 DEF S!Change
  <2> HIDE DEF said
  <2> QED
    BY <2>2 DEF Onwards
<1> HIDE DEF run, all, said
<1> QED
  BY <1>2, <1>5, <1>6 DEF RunOK, all

\* A step ends the program, asks the user, or calls the topology or USB.
LEMMA RunStepKeeps ==
  ASSUME NEW w, Good(w), NEW t, NEW k
  PROVE  Good(RunStep(w, t, k))
<1>1. w \in Worlds /\ w.env \in Envs /\ Up(w)
  BY GoodIsTyped DEF Good, Base
<1>2. Good([w EXCEPT !.env.prompting = TRUE])
  <2> DEFINE v == [w EXCEPT !.env.prompting = TRUE]
  <2>1. v \in Worlds /\ v.sm = w.sm /\ v.topo = w.topo /\ v.timers = w.timers
        /\ v.queue = w.queue /\ v.ss = w.ss /\ v.power = w.power
    BY <1>1 DEF Worlds, Envs
  <2> HIDE DEF v
  <2>2. Good(v)
    BY <2>1, AsideKeeps DEF Good, Base, Up
  <2> QED
    BY <2>2 DEF v
<1>3. Good(Halt(w))
  <2> DEFINE v == [w EXCEPT !.power = "off"]
  <2>1. v \in Worlds /\ v.sm = w.sm /\ v.topo = w.topo /\ v.timers = w.timers
        /\ v.queue = w.queue /\ v.ss = w.ss /\ v.power = "off"
    BY <1>1 DEF Worlds
  <2> HIDE DEF v
  <2>2. Good(v)
    BY <1>1, <2>1, AsideKeeps DEF Up
  <2> QED
    BY <2>2 DEF v, Halt
<1>4. Good(TopologyStart(w)) /\ Good(TopologyStop(w, "transition"))
  BY TopologyStartKeeps, TopologyStopKeeps DEF StopTasks
<1>5. Good(UsbAudioEnable(w)) /\ Good(UsbAudioDisable(w))
  BY UsbAudioKeeps
<1>6. RunStep(w, t, k) \in {[w EXCEPT !.env.prompting = TRUE], TopologyStart(w),
                            UsbAudioEnable(w), TopologyStop(w, "transition"),
                            UsbAudioDisable(w), Halt(w), w}
  BY DEF RunStep
<1> QED
  BY <1>2, <1>3, <1>4, <1>5, <1>6

\* The headset is told of a change that is not the start up.
LEMMA AnnounceKeeps ==
  ASSUME NEW w, Good(w), NEW changes, Onwards(changes)
  PROVE  Good(Announce(w, changes))
<1> DEFINE old == Head(changes).old
           new == Head(changes).new
           m   == [to |-> HeadsetTask, id |-> "STATE_CHANGE", old |-> old, new |-> new]
<1>1. CASE changes # << >> /\ <<old, new>> \in Heeded
  <2>1. old # "starting_up"
    BY <1>1 DEF Onwards
  <2> HIDE DEF old, new
  <2>2. m \in Changes
    BY <1>1, <2>1 DEF Heeded, Changes, ChangeMessage
  <2>3. Good(Post(w, m))
    <3> HIDE DEF m
    <3> QED
      BY <2>2, PostGood DEF Untimed
  <2> QED
    BY <1>1, <2>3 DEF Announce, old, new
<1>2. CASE ~(changes # << >> /\ <<old, new>> \in Heeded)
  BY <1>2 DEF Announce
<1> QED
  BY <1>1, <1>2

\* The steps of a run are called one after the other.
LEMMA RunSystemKeeps ==
  ASSUME NEW w, Good(w), NEW run, RunOK(run)
  PROVE  Good(RunSystem(w, run))
<1> DEFINE started == [w EXCEPT !.ss = run.ctx]
           begun   == Announce(started, run.begins)
           a       == run.first - 1
           b       == run.last
           t       == run.ctx.transition
           Makes(f, n) == f = [k \in a .. n |-> IF k = a THEN begun ELSE RunStep(f[k - 1], t, k)]
           after   == CHOOSE f : Makes(f, b)
<1>1. Good(started)
  <2>1. w \in Worlds
    BY GoodIsTyped
  <2>2. started \in Worlds /\ started.sm = w.sm /\ started.topo = w.topo
        /\ started.timers = w.timers /\ started.queue = w.queue /\ started.ss = run.ctx
        /\ started.power = w.power
    BY <2>1 DEF Worlds, RunOK
  <2> HIDE DEF started
  <2> QED
    BY <2>2, AsideKeeps DEF Up, RunOK, Good, Base
<1>2. Good(begun)
  BY <1>1, AnnounceKeeps DEF RunOK
<1>3. RunSystem(w, run) = Announce(after[b], run.ends)
  BY DEF RunSystem
<1>4. a \in Nat /\ b \in Nat /\ a <= b
  BY DEF RunOK
<1> HIDE DEF a, b, t, begun, started
<1>5. \E f : Makes(f, b)
  <2> DEFINE A == {n \in Nat : n >= a => \E f : Makes(f, n)}
  <2>1. ASSUME NEW n \in Nat, n <= a PROVE n \in A
    <3> DEFINE f == [k \in a .. n |-> begun]
    <3>1. n >= a => Makes(f, n)
      BY <1>4, <2>1
    <3> QED
      BY <3>1
  <2>2. ASSUME NEW n \in Nat, n \in A, n >= a PROVE n + 1 \in A
    <3>1. PICK f : Makes(f, n)
      BY <2>2
    <3> DEFINE last == RunStep(f[n], t, n + 1)
               g == [k \in a .. n + 1 |-> IF k = n + 1 THEN last ELSE f[k]]
    <3>2. ASSUME NEW k \in a .. n + 1 PROVE g[k] = IF k = a THEN begun ELSE RunStep(g[k - 1], t, k)
      <4>1. CASE k = n + 1
        <5>1. k # a /\ k - 1 = n /\ n \in a .. n + 1 /\ n # n + 1
          BY <1>4, <2>2, <4>1
        <5> QED
          BY <4>1, <5>1
      <4>2. CASE k = a /\ k # n + 1
        <5>1. a \in a .. n
          BY <1>4, <2>2
        <5> QED
          BY <3>1, <4>2, <5>1
      <4>3. CASE k # a /\ k # n + 1
        <5>1. k \in a .. n /\ k - 1 \in a .. n + 1 /\ k - 1 # n + 1
          BY <1>4, <2>2, <4>3
        <5>2. f[k] = RunStep(f[k - 1], t, k)
          BY <3>1, <4>3, <5>1
        <5> QED
          BY <4>3, <5>1, <5>2
      <4> QED
        BY <4>1, <4>2, <4>3
    <3>3. Makes(g, n + 1)
      BY <3>2
    <3>4. \E h : Makes(h, n + 1)
      <4> HIDE DEF g
      <4> QED
        BY <3>3
    <3> HIDE DEF Makes
    <3> QED
      BY <2>2, <3>4
  <2>3. 0 \in A
    BY <1>4, <2>1
  <2>4. ASSUME NEW n \in Nat, n \in A PROVE n + 1 \in A
    <3>1. CASE n >= a
      BY <2>2, <2>4, <3>1
    <3>2. CASE ~(n >= a)
      BY <1>4, <2>1, <3>2
    <3> QED
      BY <3>1, <3>2
  <2>5. Nat \subseteq A
    <3> HIDE DEF A
    <3> QED
      BY <2>3, <2>4, SetInduction
  <2> QED
    BY <1>4, <2>5
<1>6. Makes(after, b)
  BY <1>5
<1> HIDE DEF after
<1>7. Good(after[b])
  <2> DEFINE A == {n \in Nat : n >= a /\ n <= b => Good(after[n])}
  <2>1. ASSUME NEW n \in Nat, n <= a PROVE n \in A
    <3>1. n >= a => n = a /\ a \in a .. b
      BY <1>4, <2>1
    <3> QED
      BY <1>2, <1>6, <3>1
  <2>2. ASSUME NEW n \in Nat, n \in A, n >= a PROVE n + 1 \in A
    <3> SUFFICES ASSUME n + 1 <= b PROVE Good(after[n + 1])
      OBVIOUS
    <3>1. n <= b /\ n + 1 \in a .. b /\ n + 1 # a /\ (n + 1) - 1 = n
      BY <1>4, <2>2
    <3>2. after[n + 1] = RunStep(after[n], t, n + 1)
      BY <1>6, <3>1
    <3>3. Good(after[n])
      BY <2>2, <3>1
    <3> QED
      BY <3>2, <3>3, RunStepKeeps
  <2>3. 0 \in A
    BY <1>4, <2>1
  <2>4. ASSUME NEW n \in Nat, n \in A PROVE n + 1 \in A
    <3>1. CASE n >= a
      BY <2>2, <2>4, <3>1
    <3>2. CASE ~(n >= a)
      BY <1>4, <2>1, <3>2
    <3> QED
      BY <3>1, <3>2
  <2>5. Nat \subseteq A
    <3> HIDE DEF A
    <3> QED
      BY <2>3, <2>4, SetInduction
  <2>6. b \in A
    BY <1>4, <2>5
  <2> QED
    BY <1>4, <2>6
<1> QED
  BY <1>3, <1>7, AnnounceKeeps DEF RunOK

\* What the state machine and the power manager ask of the system state
LEMMA SystemCallKeeps ==
  ASSUME NEW w, Good(w), NEW t \in S!TransitionNames, t # "startup"
  PROVE  Good(SystemCall(w, t))
<1>1. w.ss \in S!Context /\ w.ss.state # "starting_up"
  BY GoodIsTyped DEF Good, Base, Up
<1>2. RunOK(S!InitiateTransition(w.ss, t))
  BY <1>1, BegunRun
<1>3. Good(RunSystem(w, S!InitiateTransition(w.ss, t)))
  BY <1>2, RunSystemKeeps
<1> QED
  BY <1>3 DEF SystemCall

---------------------------------------------------------------------------
(* The power manager.                                                      *)

PowerClients == {TopologyTask, HeadsetTask}

\* What a call of the power manager does to the others
Effects ==
  [kind : {"tell"}, to : SUBSET PowerClients, msg : P!Messages4Clients]
  \cup [kind : {"ask"}, what : {"shutdown", "emergency", "sleep"}]
  \cup {P!InitCfm}

PowerOK(result) == result.p \in P!PowerContext /\ result.effects \in Seq(Effects)

\* Leaving a shutdown or a sleep
LEMMA PowerEnterOk ==
  ASSUME NEW q \in P!PowerContext
  PROVE  P!EnterOk(q) \in P!PowerContext /\ q.clients \in SUBSET PowerClients
BY DEF P!PowerContext, P!EnterOk, P!PowerStateNames, PowerClients

\* The three kinds of effects
LEMMA EffectIs ==
  ASSUME NEW cs \in SUBSET PowerClients
  PROVE  /\ \A msg \in P!Messages4Clients : P!Tell(cs, msg) \in Effects
         /\ \A what \in {"shutdown", "emergency", "sleep"} : P!Ask(what) \in Effects
         /\ P!InitCfm \in Effects
BY DEF Effects, P!Tell, P!Ask

\* Everybody has answered a shutdown.
LEMMA TerminatingRespondedOK ==
  ASSUME NEW q \in P!PowerContext, NEW e
  PROVE  PowerOK(P!EnterTerminatingResponded(q, e))
<1> DEFINE n    == P!EnterOk(q)
           what == IF q.user_initiated_shutdown THEN "shutdown" ELSE "emergency"
           ask  == P!Ask(what)
           tell == P!Tell(q.clients, "SHUTDOWN_CANCELLED_IND")
           asks == IF P!NeedsToPowerOff(q, e) THEN <<ask>> ELSE << >>
           r    == P!EnterTerminatingResponded(q, e)
<1>1. n \in P!PowerContext /\ q.clients \in SUBSET PowerClients
  BY PowerEnterOk
<1>2. what \in {"shutdown", "emergency", "sleep"}
  OBVIOUS
<1> HIDE DEF what
<1>3. ask \in Effects /\ tell \in Effects
  BY <1>1, <1>2, EffectIs DEF P!Messages4Clients
<1>4. r = [p |-> n, effects |-> asks \o <<tell>>]
  BY DEF P!EnterTerminatingResponded, what
<1> HIDE DEF r, n, ask, tell
<1>5. asks \in Seq(Effects) /\ <<tell>> \in Seq(Effects)
  BY <1>3
<1> HIDE DEF asks
<1>6. asks \o <<tell>> \in Seq(Effects)
  BY <1>5, ConcatProperties
<1> QED
  BY <1>1, <1>4, <1>6 DEF PowerOK, r

\* The clients are asked to prepare.
LEMMA TerminatingNotifiedOK ==
  ASSUME NEW q \in P!PowerContext, NEW e
  PROVE  PowerOK(P!EnterTerminatingNotified(q, e))
<1> DEFINE n == [q EXCEPT !.state = "TERMINATING_NOTIFIED", !.shutdown_pending = q.clients]
           a == P!Tell(q.clients, "SHUTDOWN_PREPARE_IND")
           b == P!Tell(q.clients, "POWER_OFF")
           r == P!EnterTerminatingNotified(q, e)
<1>1. CASE q.clients = {}
  BY <1>1, TerminatingRespondedOK DEF P!EnterTerminatingNotified
<1>2. CASE q.clients # {}
  <2>1. a \in Effects /\ b \in Effects
    BY PowerEnterOk, EffectIs DEF P!Messages4Clients
  <2>2. n \in P!PowerContext
    BY DEF P!PowerContext, P!PowerStateNames
  <2>3. r = [p |-> n, effects |-> <<a, b>>]
    BY <1>2 DEF P!EnterTerminatingNotified
  <2> HIDE DEF r, n, a, b
  <2>4. <<a, b>> \in Seq(Effects)
    BY <2>1
  <2> QED
    BY <2>2, <2>3, <2>4 DEF PowerOK, r
<1> QED
  BY <1>1, <1>2

\* Everybody may sleep.
LEMMA SoporificRespondedOK ==
  ASSUME NEW q \in P!PowerContext, NEW e
  PROVE  PowerOK(P!EnterSoporificResponded(q, e))
<1> DEFINE n    == [q EXCEPT !.state = "SOPORIFIC_RESPONDED"]
           ask  == P!Ask("sleep")
           tell == P!Tell(q.clients, "SLEEP_CANCELLED_IND")
           r    == P!EnterSoporificResponded(q, e)
<1>1. ask \in Effects /\ tell \in Effects
  BY PowerEnterOk, EffectIs DEF P!Messages4Clients
<1>2. n \in P!PowerContext /\ P!EnterOk(q) \in P!PowerContext
  BY PowerEnterOk DEF P!PowerContext, P!PowerStateNames
<1>3. CASE P!CanSleep(q, e)
  <2>1. r = [p |-> n, effects |-> <<ask>>]
    BY <1>3 DEF P!EnterSoporificResponded
  <2> HIDE DEF r, n, ask
  <2> QED
    BY <1>1, <1>2, <2>1 DEF PowerOK, r
<1>4. CASE ~P!CanSleep(q, e)
  <2> DEFINE m == P!EnterOk(q)
  <2>1. r = [p |-> m, effects |-> <<tell>>]
    BY <1>4 DEF P!EnterSoporificResponded
  <2>2. m \in P!PowerContext
    BY <1>2
  <2> HIDE DEF r, m, tell
  <2> QED
    BY <1>1, <2>1, <2>2 DEF PowerOK, r
<1> QED
  BY <1>3, <1>4

\* The clients are asked whether they may sleep.
LEMMA SoporificNotifiedOK ==
  ASSUME NEW q \in P!PowerContext, NEW e
  PROVE  PowerOK(P!EnterSoporificNotified(q, e))
<1> DEFINE n == [q EXCEPT !.state = "SOPORIFIC_NOTIFIED", !.sleep_pending = q.clients]
           a == P!Tell(q.clients, "SLEEP_PREPARE_IND")
           r == P!EnterSoporificNotified(q, e)
<1>1. CASE q.clients = {}
  BY <1>1, SoporificRespondedOK DEF P!EnterSoporificNotified
<1>2. CASE q.clients # {}
  <2>1. a \in Effects
    BY PowerEnterOk, EffectIs DEF P!Messages4Clients
  <2>2. n \in P!PowerContext
    BY DEF P!PowerContext, P!PowerStateNames
  <2>3. r = [p |-> n, effects |-> <<a>>]
    BY <1>2 DEF P!EnterSoporificNotified
  <2> HIDE DEF r, n, a
  <2> QED
    BY <2>1, <2>2, <2>3 DEF PowerOK, r
<1> QED
  BY <1>1, <1>2

\* Nothing else happens.
LEMMA OnlyOK ==
  ASSUME NEW q \in P!PowerContext
  PROVE  PowerOK(P!Only(q))
<1>1. P!Only(q).p = q /\ P!Only(q).effects = << >>
  BY DEF P!Only
<1>2. << >> \in Seq(Effects)
  OBVIOUS
<1> QED
  BY <1>1, <1>2 DEF PowerOK

\* The calls that the headset's control makes
LEMMA PowerCallsOK ==
  ASSUME NEW q \in P!PowerContext, NEW e, NEW c \in PowerClients
  PROVE  /\ PowerOK(P!OffRequest(q, e))
         /\ PowerOK(P!PowerEvent(q, e))
         /\ PowerOK(P!ShutdownPrepareResponse(q, e, c))
<1>1. PowerOK(P!OffRequest(q, e))
  <2> DEFINE n == [q EXCEPT !.user_initiated_shutdown = TRUE]
  <2>1. n \in P!PowerContext
    BY DEF P!PowerContext
  <2> HIDE DEF n
  <2>2. PowerOK(P!EnterTerminatingNotified(n, e)) /\ PowerOK(P!Only(q))
    BY <2>1, TerminatingNotifiedOK, OnlyOK
  <2> QED
    BY <2>2 DEF P!OffRequest, n
<1>2. PowerOK(P!PowerEvent(q, e))
  <2> DEFINE n    == P!EnterOk(q)
             ask  == P!Ask("shutdown")
             cfm  == P!InitCfm
             asks == IF P!NeedsToPowerOff(q, e) THEN <<ask>> ELSE << >>
             r    == [p |-> n, effects |-> asks \o <<cfm>>]
  <2>1. ask \in Effects /\ cfm \in Effects
    BY PowerEnterOk, EffectIs
  <2>2. n \in P!PowerContext
    BY PowerEnterOk
  <2>3. PowerOK(r)
    <3> HIDE DEF n, ask, cfm
    <3>1. asks \in Seq(Effects) /\ <<cfm>> \in Seq(Effects)
      BY <2>1
    <3> HIDE DEF asks
    <3>2. asks \o <<cfm>> \in Seq(Effects)
      BY <3>1, ConcatProperties
    <3> QED
      BY <2>2, <3>2 DEF PowerOK
  <2>4. /\ PowerOK(P!EnterTerminatingNotified(q, e))
        /\ PowerOK(P!EnterSoporificNotified(q, e))
        /\ PowerOK(P!Only(q))
    BY TerminatingNotifiedOK, SoporificNotifiedOK, OnlyOK
  <2>5. P!PowerEvent(q, e) \in {r, P!EnterTerminatingNotified(q, e),
                                P!EnterSoporificNotified(q, e), P!Only(q)}
    BY DEF P!PowerEvent
  <2> HIDE DEF r
  <2> QED
    BY <2>3, <2>4, <2>5
<1>3. PowerOK(P!ShutdownPrepareResponse(q, e, c))
  <2> DEFINE n == [q EXCEPT !.shutdown_pending = @ \ {c}]
  <2>1. n \in P!PowerContext
    BY DEF P!PowerContext
  <2>2. P!ShutdownPrepareResponse(q, e, c) \in
          {P!Only(q), P!EnterTerminatingResponded(n, e), P!Only(n)}
    BY DEF P!ShutdownPrepareResponse
  <2> HIDE DEF n
  <2>3. PowerOK(P!Only(q)) /\ PowerOK(P!EnterTerminatingResponded(n, e)) /\ PowerOK(P!Only(n))
    BY <2>1, TerminatingRespondedOK, OnlyOK
  <2> QED
    BY <2>2, <2>3
<1> QED
  BY <1>1, <1>2, <1>3

\* The clients are told, the system state is asked.
LEMMA PowerEffectKeeps ==
  ASSUME NEW w, Good(w), NEW e \in Effects
  PROVE  Good(PowerEffect(w, e))
<1>1. ASSUME NEW v, Good(v), NEW c \in PowerClients
      PROVE  Good(Post(v, Msg(c, "SHUTDOWN_PREPARE_IND")))
  <2>1. Msg(c, "SHUTDOWN_PREPARE_IND") \in Untimed
    BY MsgIsUntimed DEF PowerClients, Tasks, PlainIds
  <2> QED
    BY <1>1, <2>1, PostGood
<1>2. ASSUME NEW clients PROVE Good(Prepare(w, clients))
  <2> DEFINE first == IF TopologyTask \in clients
                      THEN Post(w, Msg(TopologyTask, "SHUTDOWN_PREPARE_IND")) ELSE w
             both  == IF HeadsetTask \in clients
                      THEN Post(first, Msg(HeadsetTask, "SHUTDOWN_PREPARE_IND")) ELSE first
  <2>1. TopologyTask \in PowerClients /\ HeadsetTask \in PowerClients
    BY DEF PowerClients
  <2>2. Good(first)
    BY <1>1, <2>1
  <2>3. Prepare(w, clients) = both
    BY DEF Prepare
  <2> HIDE DEF first
  <2>4. Good(both)
    BY <1>1, <2>1, <2>2
  <2> QED
    BY <2>3, <2>4
<1>3. CASE e.kind = "ask"
  <2>1. e.what \in {"shutdown", "emergency", "sleep"}
    BY <1>3 DEF Effects, P!InitCfm
  <2>2. e.what \in S!TransitionNames /\ e.what # "startup"
    BY <2>1 DEF S!TransitionNames
  <2>3. Good(SystemCall(w, e.what))
    BY <2>2, SystemCallKeeps
  <2> QED
    BY <1>3, <2>3 DEF PowerEffect
<1>4. CASE e.kind # "ask"
  BY <1>2, <1>4 DEF PowerEffect
<1> QED
  BY <1>3, <1>4

\* The effects of a call come one after the other.
LEMMA RunPowerKeeps ==
  ASSUME NEW w, Good(w), NEW result, PowerOK(result)
  PROVE  Good(RunPower(w, result))
<1> DEFINE called == [w EXCEPT !.p = result.p]
           e == result.effects
           Makes(f, n) == f = [k \in 0 .. n |-> IF k = 0 THEN called ELSE PowerEffect(f[k - 1], e[k])]
           step == CHOOSE f : Makes(f, Len(e))
<1>1. Good(called)
  <2>1. w \in Worlds
    BY GoodIsTyped
  <2>2. called \in Worlds /\ called.sm = w.sm /\ called.topo = w.topo
        /\ called.timers = w.timers /\ called.queue = w.queue /\ called.ss = w.ss
        /\ called.power = w.power
    BY <2>1 DEF Worlds, PowerOK
  <2> HIDE DEF called
  <2> QED
    BY <2>2, AsideKeeps DEF Up, Good, Base
<1>2. e \in Seq(Effects) /\ Len(e) \in Nat /\ \A k \in 1 .. Len(e) : e[k] \in Effects
  BY LenProperties, ElementOfSeq DEF PowerOK
<1>3. RunPower(w, result) = step[Len(e)]
  BY DEF RunPower
<1> HIDE DEF e, called
<1>4. \E f : Makes(f, Len(e))
  <2> DEFINE A == {n \in Nat : \E f : Makes(f, n)}
  <2>1. 0 \in A
    <3> DEFINE f == [k \in 0 .. 0 |-> called]
    <3>1. Makes(f, 0)
      OBVIOUS
    <3> QED
      BY <3>1
  <2>2. ASSUME NEW n \in Nat, n \in A PROVE n + 1 \in A
    <3>1. PICK f : Makes(f, n)
      BY <2>2
    <3> DEFINE last == PowerEffect(f[n], e[n + 1])
               g == [k \in 0 .. n + 1 |-> IF k = n + 1 THEN last ELSE f[k]]
    <3>2. ASSUME NEW k \in 0 .. n + 1
          PROVE  g[k] = IF k = 0 THEN called ELSE PowerEffect(g[k - 1], e[k])
      <4>1. CASE k = n + 1
        <5>1. k # 0 /\ k - 1 = n /\ n \in 0 .. n + 1 /\ n # n + 1
          BY <2>2, <4>1
        <5> QED
          BY <4>1, <5>1
      <4>2. CASE k = 0
        <5>1. 0 \in 0 .. n /\ k # n + 1
          BY <2>2, <4>2
        <5> QED
          BY <3>1, <4>2, <5>1
      <4>3. CASE k # 0 /\ k # n + 1
        <5>1. k \in 0 .. n /\ k - 1 \in 0 .. n + 1 /\ k - 1 # n + 1
          BY <2>2, <4>3
        <5>2. f[k] = PowerEffect(f[k - 1], e[k])
          BY <3>1, <4>3, <5>1
        <5> QED
          BY <4>3, <5>1, <5>2
      <4> QED
        BY <4>1, <4>2, <4>3
    <3>3. Makes(g, n + 1)
      BY <3>2
    <3>4. \E h : Makes(h, n + 1)
      <4> HIDE DEF g
      <4> QED
        BY <3>3
    <3> HIDE DEF Makes
    <3> QED
      BY <2>2, <3>4
  <2>3. Nat \subseteq A
    <3> HIDE DEF A
    <3> QED
      BY <2>1, <2>2, SetInduction
  <2> QED
    BY <1>2, <2>3
<1>5. Makes(step, Len(e))
  BY <1>4
<1> HIDE DEF step
<1>6. Good(step[Len(e)])
  <2> DEFINE A == {n \in Nat : n <= Len(e) => Good(step[n])}
  <2>1. 0 \in A
    <3>1. 0 \in 0 .. Len(e)
      BY <1>2
    <3> QED
      BY <1>1, <1>5, <3>1
  <2>2. ASSUME NEW n \in Nat, n \in A PROVE n + 1 \in A
    <3> SUFFICES ASSUME n + 1 <= Len(e) PROVE Good(step[n + 1])
      OBVIOUS
    <3>1. /\ n <= Len(e) /\ n + 1 \in 0 .. Len(e) /\ n + 1 # 0 /\ (n + 1) - 1 = n
          /\ n + 1 \in 1 .. Len(e)
      BY <1>2, <2>2
    <3>2. step[n + 1] = PowerEffect(step[n], e[n + 1])
      BY <1>5, <3>1
    <3>3. Good(step[n]) /\ e[n + 1] \in Effects
      BY <1>2, <2>2, <3>1
    <3> QED
      BY <3>2, <3>3, PowerEffectKeeps
  <2>3. Nat \subseteq A
    <3> HIDE DEF A
    <3> QED
      BY <2>1, <2>2, SetInduction
  <2> QED
    BY <1>2, <2>3
<1> QED
  BY <1>3, <1>6

\* A power off is asked for, a power event comes, a client has prepared.
LEMMA PowerKeeps ==
  ASSUME NEW w, Good(w), NEW c \in PowerClients
  PROVE  Good(PowerOffRequest(w)) /\ Good(PowerEvent(w)) /\ Good(ShutdownReady(w, c))
<1>1. w.p \in P!PowerContext
  BY GoodIsTyped
<1>2. /\ PowerOK(P!OffRequest(w.p, Readings(w)))
      /\ PowerOK(P!PowerEvent(w.p, Readings(w)))
      /\ PowerOK(P!ShutdownPrepareResponse(w.p, Readings(w), c))
  BY <1>1, PowerCallsOK
<1> QED
  BY <1>2, RunPowerKeeps DEF PowerOffRequest, PowerEvent, ShutdownReady

---------------------------------------------------------------------------
(* The state machine of the headset.                                       *)

\* The timer of a state is started anew in it.
LEMMA StartTimerKeeps ==
  ASSUME NEW w, Good(w), NEW id \in {"TIMEOUT_LIMBO", "TIMEOUT_IDLE"},
         id = "TIMEOUT_LIMBO" => w.sm.state = "LIMBO",
         id = "TIMEOUT_IDLE" => w.sm.state = "IDLE"
  PROVE  /\ Good(SendLater(CancelAll(w, id), id))
         /\ SendLater(CancelAll(w, id), id).sm = w.sm
<1> DEFINE v == CancelAll(w, id)
<1>1. id \in TimerIds /\ id # "TIMEOUT_LINK" /\ id # "TIMEOUT_STOP"
  BY DEF TimerIds
<1>2. Good(v) /\ Aside(v, w) /\ ~Pends(v, id)
  BY <1>1, CancelAllKeeps
<1> HIDE DEF v
<1>3. v.sm = w.sm
  BY <1>2 DEF Aside
<1>4. Good(SendLater(v, id))
  BY <1>1, <1>2, <1>3, SendLaterKeeps
<1>5. SendLater(v, id).sm = v.sm
  BY <1>2, GoodIsTyped DEF SendLater, Worlds
<1> QED
  BY <1>3, <1>4, <1>5 DEF v

\* ... for limbo and for idle.
LEMMA StartTimersKeep ==
  ASSUME NEW w, Good(w)
  PROVE  /\ Good(StartIdleTimer(w))
         /\ w.sm.state = "LIMBO" => Good(StartLimboTimer(w)) /\ StartLimboTimer(w).sm = w.sm
<1>1. ASSUME NeedsIdleTimer(w) PROVE Good(StartIdleTimer(w))
  <2>1. w.sm.state = "IDLE"
    BY <1>1 DEF NeedsIdleTimer
  <2>2. Good(SendLater(CancelAll(w, "TIMEOUT_IDLE"), "TIMEOUT_IDLE"))
    BY <2>1, StartTimerKeeps
  <2> QED
    BY <1>1, <2>2 DEF StartIdleTimer
<1>2. ASSUME ~NeedsIdleTimer(w) PROVE Good(StartIdleTimer(w))
  BY <1>2 DEF StartIdleTimer
<1>3. ASSUME w.sm.state = "LIMBO"
      PROVE  Good(StartLimboTimer(w)) /\ StartLimboTimer(w).sm = w.sm
  BY <1>3, StartTimerKeeps DEF StartLimboTimer
<1> QED
  BY <1>1, <1>2, <1>3

\* A flag of the state machine is set.
LEMMA FlagKeeps ==
  ASSUME NEW w, Good(w), NEW b \in BOOLEAN
  PROVE  /\ Good([w EXCEPT !.sm.user_pairing = b]) /\ Good([w EXCEPT !.sm.auto_poweron = b])
         /\ Good([w EXCEPT !.sm.disconnect_lock = b])
         /\ [w EXCEPT !.sm.user_pairing = b].sm.state = w.sm.state
<1>1. w \in Worlds /\ w.sm \in Sms /\ Up(w) /\ w.power # "panic"
  BY GoodIsTyped DEF Good, Base
<1>2. ASSUME NEW s \in Sms, s.state = w.sm.state
      PROVE  Good([w EXCEPT !.sm = s])
  <2> DEFINE v == [w EXCEPT !.sm = s]
  <2>1. v \in Worlds /\ v.sm = s /\ v.topo = w.topo /\ v.timers = w.timers
        /\ v.queue = w.queue /\ v.ss = w.ss /\ v.power = w.power
    BY <1>1 DEF Worlds
  <2> HIDE DEF v
  <2>2. Good(v)
    BY <1>1, <1>2, <2>1, AsideKeeps DEF Up
  <2> QED
    BY <2>2 DEF v
<1>3. /\ [w.sm EXCEPT !.user_pairing = b] \in Sms
      /\ [w.sm EXCEPT !.user_pairing = b].state = w.sm.state
  BY <1>1 DEF Sms
<1>4. /\ [w.sm EXCEPT !.auto_poweron = b] \in Sms
      /\ [w.sm EXCEPT !.auto_poweron = b].state = w.sm.state
  BY <1>1 DEF Sms
<1>5. /\ [w.sm EXCEPT !.disconnect_lock = b] \in Sms
      /\ [w.sm EXCEPT !.disconnect_lock = b].state = w.sm.state
  BY <1>1 DEF Sms
<1>6. /\ [w EXCEPT !.sm.user_pairing = b] = [w EXCEPT !.sm = [w.sm EXCEPT !.user_pairing = b]]
      /\ [w EXCEPT !.sm.auto_poweron = b] = [w EXCEPT !.sm = [w.sm EXCEPT !.auto_poweron = b]]
      /\ [w EXCEPT !.sm.disconnect_lock = b]
           = [w EXCEPT !.sm = [w.sm EXCEPT !.disconnect_lock = b]]
  BY <1>1 DEF Worlds
<1>7. [w EXCEPT !.sm.user_pairing = b].sm.state = w.sm.state
  BY <1>1 DEF Worlds, Sms
<1> QED
  BY <1>2, <1>3, <1>4, <1>5, <1>6, <1>7

\* Something of the environment changes.
LEMMA EnvKeeps ==
  ASSUME NEW w, Good(w), NEW env2 \in Envs
  PROVE  /\ Good([w EXCEPT !.env = env2]) /\ [w EXCEPT !.env = env2].sm = w.sm
<1> DEFINE v == [w EXCEPT !.env = env2]
<1>1. w \in Worlds /\ Up(w) /\ w.power # "panic"
  BY DEF Good, Base
<1>2. v \in Worlds /\ v.sm = w.sm /\ v.topo = w.topo /\ v.timers = w.timers
      /\ v.queue = w.queue /\ v.ss = w.ss /\ v.power = w.power
  BY <1>1 DEF Worlds
<1> HIDE DEF v
<1>3. Good(v)
  BY <1>1, <1>2, AsideKeeps DEF Up
<1> QED
  BY <1>2, <1>3 DEF v

\* A pairing is allowed, or is over, or the pairing of a handset is known or not.
LEMMA PairingKeeps ==
  ASSUME NEW w, Good(w), NEW b \in BOOLEAN
  PROVE  /\ Good([w EXCEPT !.env.pairing = b]) /\ [w EXCEPT !.env.pairing = b].sm = w.sm
         /\ Good([w EXCEPT !.env.paired = b])
<1>1. w \in Worlds /\ w.env \in Envs
  BY GoodIsTyped
<1>2. /\ [w.env EXCEPT !.pairing = b] \in Envs /\ [w.env EXCEPT !.paired = b] \in Envs
  BY <1>1 DEF Envs
<1>3. /\ [w EXCEPT !.env.pairing = b] = [w EXCEPT !.env = [w.env EXCEPT !.pairing = b]]
      /\ [w EXCEPT !.env.paired = b] = [w EXCEPT !.env = [w.env EXCEPT !.paired = b]]
  BY <1>1 DEF Worlds
<1> QED
  BY <1>2, <1>3, EnvKeeps

\* A pairing is stopped.
LEMMA PairStopKeeps ==
  ASSUME NEW w, Good(w)
  PROVE  Good(PairStop(w)) /\ PairStop(w).sm = w.sm
<1> DEFINE v == [w EXCEPT !.env.pairing = FALSE]
           m == Msg(HeadsetTask, "PAIR_CFM")
<1>1. Good(v) /\ v.sm = w.sm
  BY PairingKeeps
<1>2. m \in Untimed
  BY MsgIsUntimed DEF Tasks, PlainIds
<1>3. PairStop(w) = IF w.env.pairing THEN Post(v, m) ELSE w
  BY DEF PairStop
<1> HIDE DEF v, m
<1>4. Good(Post(v, m))
  BY <1>1, <1>2, PostGood
<1>5. Post(v, m).sm = v.sm
  <2>1. v \in Worlds /\ m \in Messages
    BY <1>1, <1>2, GoodIsTyped DEF Messages
  <2> QED
    BY <2>1, PostIs DEF Worlds
<1> QED
  BY <1>1, <1>3, <1>4, <1>5

\* Whatever state is left, the timers of limbo and of idle are gone.
LEMMA ExitKeeps ==
  ASSUME NEW w, Good(w)
  PROVE  /\ Good(ExitState(w))
         /\ ~Pends(ExitState(w), "TIMEOUT_LIMBO") /\ ~Pends(ExitState(w), "TIMEOUT_IDLE")
<1> DEFINE r == ExitState(w)
           v == [w EXCEPT !.sm.user_pairing = FALSE]
<1>1. CASE w.sm.state = "LIMBO"
  <2>1. r = CancelAll(w, "TIMEOUT_LIMBO")
    BY <1>1 DEF ExitState
  <2>2. Good(r) /\ Aside(r, w) /\ ~Pends(r, "TIMEOUT_LIMBO")
    BY <2>1, CancelAllKeeps DEF TimerIds
  <2>4. ~Pends(r, "TIMEOUT_LIMBO") /\ ~Pends(r, "TIMEOUT_IDLE")
    <3> HIDE DEF r
    <3> QED
      BY <1>1, <2>2 DEF Good, Base, TimersOK, Aside
  <2> QED
    BY <2>2, <2>4
<1>2. CASE w.sm.state = "PAIRING"
  <2>1. r = PairStop(v)
    BY <1>2 DEF ExitState
  <2>2. Good(v) /\ v.sm.state = "PAIRING"
    BY <1>2, FlagKeeps
  <2> HIDE DEF v
  <2>3. Good(r) /\ r.sm.state = "PAIRING"
    BY <2>1, <2>2, PairStopKeeps
  <2>4. ~Pends(r, "TIMEOUT_LIMBO") /\ ~Pends(r, "TIMEOUT_IDLE")
    <3> HIDE DEF r
    <3> QED
      BY <2>3 DEF Good, Base, TimersOK
  <2> QED
    BY <2>3, <2>4
<1>3. CASE w.sm.state = "IDLE"
  <2>1. r = CancelAll(w, "TIMEOUT_IDLE")
    BY <1>3 DEF ExitState
  <2>2. Good(r) /\ Aside(r, w) /\ ~Pends(r, "TIMEOUT_IDLE")
    BY <2>1, CancelAllKeeps DEF TimerIds
  <2>4. ~Pends(r, "TIMEOUT_LIMBO") /\ ~Pends(r, "TIMEOUT_IDLE")
    <3> HIDE DEF r
    <3> QED
      BY <1>3, <2>2 DEF Good, Base, TimersOK, Aside
  <2> QED
    BY <2>2, <2>4
<1>4. CASE w.sm.state \notin {"LIMBO", "PAIRING", "IDLE"}
  <2>1. r = TopologyStart(w) \/ r = w
    BY <1>4 DEF ExitState
  <2>2. Good(r) /\ r.sm = w.sm
    BY <2>1, TopologyStartKeeps
  <2>4. ~Pends(r, "TIMEOUT_LIMBO") /\ ~Pends(r, "TIMEOUT_IDLE")
    <3> HIDE DEF r
    <3> QED
      BY <1>4, <2>2 DEF Good, Base, TimersOK
  <2> QED
    BY <2>2, <2>4
<1> QED
  BY <1>1, <1>2, <1>3, <1>4

\* Limbo is entered.
LEMMA EnterLimboKeeps ==
  ASSUME NEW w, Good(w), w.sm.state = "LIMBO"
  PROVE  Good(EnterLimbo(w))
<1> DEFINE timed == StartLimboTimer(w)
           v     == [timed EXCEPT !.sm.auto_poweron = FALSE]
           m     == Msg(HeadsetTask, "UI_POWER_ON")
<1>1. Good(timed)
  BY StartTimersKeep
<1>2. EnterLimbo(w) = IF timed.sm.auto_poweron THEN Post(v, m) ELSE timed
  BY DEF EnterLimbo
<1> HIDE DEF timed
<1>3. Good(v)
  BY <1>1, FlagKeeps
<1>4. m \in Untimed
  BY MsgIsUntimed DEF Tasks, PlainIds
<1> HIDE DEF v, m
<1> QED
  BY <1>1, <1>2, <1>3, <1>4, PostGood

\* Pairing is entered.
LEMMA EnterPairingKeeps ==
  ASSUME NEW w, Good(w)
  PROVE  Good(EnterPairing(w))
<1>1. Msg("goals", "DISCONNECT_HANDSET") \in Untimed
  BY MsgIsUntimed DEF Tasks, PlainIds
<1>2. Good(Post(w, Msg("goals", "DISCONNECT_HANDSET")))
  BY <1>1, PostGood
<1>3. Good([w EXCEPT !.env.pairing = TRUE])
  BY PairingKeeps
<1> QED
  BY <1>2, <1>3 DEF EnterPairing

\* A state is entered.
LEMMA EnterKeeps ==
  ASSUME NEW w, Good(w)
  PROVE  Good(EnterState(w))
<1>1. CASE w.sm.state = "LIMBO"
  BY <1>1, EnterLimboKeeps DEF EnterState
<1>2. CASE w.sm.state = "FACTORY_RESET"
  <2> DEFINE v == [w EXCEPT !.power = "reboot"]
  <2>1. w \in Worlds /\ Up(w)
    BY DEF Good, Base
  <2>2. v \in Worlds /\ v.sm = w.sm /\ v.topo = w.topo /\ v.timers = w.timers
        /\ v.queue = w.queue /\ v.ss = w.ss /\ v.power = "reboot"
    BY <2>1 DEF Worlds
  <2>3. EnterState(w) = v
    BY <1>2 DEF EnterState
  <2> HIDE DEF v
  <2>4. Good(v)
    BY <2>1, <2>2, AsideKeeps DEF Up
  <2> QED
    BY <2>3, <2>4
<1>3. CASE w.sm.state = "PAIRING"
  BY <1>3, EnterPairingKeeps DEF EnterState
<1>4. CASE w.sm.state = "IDLE"
  BY <1>4, StartTimersKeep DEF EnterState
<1>5. CASE w.sm.state = "BUSY"
  <2>1. Good(WiredDisable(w))
    BY WiredDisableKeeps
  <2>2. Good(TopologyStop(WiredDisable(w), HeadsetTask))
    BY <2>1, TopologyStopKeeps DEF StopTasks
  <2> QED
    BY <1>5, <2>2 DEF EnterState
<1>6. CASE w.sm.state = "TERMINATING"
  <2>1. Good(ShutdownReady(w, HeadsetTask))
    BY PowerKeeps DEF PowerClients
  <2> QED
    BY <1>6, <2>1 DEF EnterState
<1>7. CASE w.sm.state \notin {"LIMBO", "FACTORY_RESET", "PAIRING", "IDLE", "BUSY", "TERMINATING"}
  BY <1>7 DEF EnterState
<1> QED
  BY <1>1, <1>2, <1>3, <1>4, <1>5, <1>6, <1>7

\* One state is left and another is entered.
LEMMA SetStateKeeps ==
  ASSUME NEW w, Good(w), NEW new \in SmStates
  PROVE  Good(SetState(w, new))
<1> DEFINE left == ExitState(w)
           v    == [left EXCEPT !.sm.state = new]
<1>1. Good(left) /\ ~Pends(left, "TIMEOUT_LIMBO") /\ ~Pends(left, "TIMEOUT_IDLE")
  BY ExitKeeps
<1>2. SetState(w, new) = EnterState(v)
  BY DEF SetState
<1> HIDE DEF left
<1>3. left \in Worlds /\ left.sm \in Sms
  BY <1>1, GoodIsTyped
<1>4. v \in Worlds /\ v.topo = left.topo /\ v.timers = left.timers
      /\ v.queue = left.queue /\ v.ss = left.ss /\ v.power = left.power
  BY <1>3 DEF Worlds, Sms
<1> HIDE DEF v
<1>5. TimersOK(v)
  BY <1>1, <1>4 DEF Good, Base, TimersOK, Pends, Queued
<1>6. Good(v)
  BY <1>1, <1>4, <1>5 DEF Good, Base, AskerKnown, Up, Started
<1> QED
  BY <1>2, <1>6, EnterKeeps

---------------------------------------------------------------------------
(* The handlers.                                                           *)

\* The wire is plugged in or out.
LEMMA WiredKeeps ==
  ASSUME NEW w, Good(w)
  PROVE  Good(WiredConnected(w)) /\ Good(WiredDisconnected(w)) /\ Good(WiredEnable(w))
<1>1. ASSUME NEW v, Good(v) PROVE Good(WiredConnected(v)) /\ Good(WiredDisconnected(v))
  <2>1. Good(SetState(v, "BUSY")) /\ Good(SetState(v, "IDLE"))
    BY <1>1, SetStateKeeps DEF SmStates
  <2> QED
    BY <1>1, <2>1 DEF WiredConnected, WiredDisconnected
<1>2. Good(WiredEnable(w))
  <2> DEFINE told == IF WiredActive(w) = w.wired.connected THEN w
                     ELSE IF WiredActive(w) THEN WiredConnected(w) ELSE WiredDisconnected(w)
             v == [told EXCEPT !.wired.paused = FALSE]
  <2>1. Good(told)
    BY <1>1
  <2>2. WiredEnable(w) = IF ~w.wired.paused THEN w ELSE v
    BY DEF WiredEnable
  <2> HIDE DEF told
  <2>3. told \in Worlds /\ told.wired \in Wireds /\ Up(told) /\ told.power # "panic"
    BY <2>1, GoodIsTyped DEF Good, Base
  <2>4. v \in Worlds /\ v.sm = told.sm /\ v.topo = told.topo /\ v.timers = told.timers
        /\ v.queue = told.queue /\ v.ss = told.ss /\ v.power = told.power
    BY <2>3 DEF Worlds, Wireds
  <2> HIDE DEF v
  <2>5. Good(v)
    BY <2>1, <2>3, <2>4, AsideKeeps DEF Up
  <2> QED
    BY <2>2, <2>5
<1> QED
  BY <1>1, <1>2

\* The topology has stopped, says the message.
LEMMA HandleStopCfmKeeps ==
  ASSUME NEW w, Good(w)
  PROVE  Good(HandleStopCfm(w))
<1>1. Good(SetState(w, "LIMBO"))
  BY SetStateKeeps DEF SmStates
<1>2. Good(PowerOffRequest(SetState(w, "LIMBO")))
  BY <1>1, PowerKeeps DEF PowerClients
<1> QED
  BY <1>2, WiredKeeps DEF HandleStopCfm

\* The system is powered on.
LEMMA HandlePoweredOnKeeps ==
  ASSUME NEW w, Good(w)
  PROVE  Good(HandlePoweredOn(w))
<1> DEFINE off == UsbAudioDisable(w)
           v == [off EXCEPT !.sm.user_pairing = FALSE]
<1>1. Good(off)
  BY UsbAudioKeeps
<1>2. HandlePoweredOn(w) \in {SetState(w, "IDLE"), SetState(v, "PAIRING"), w}
  BY DEF HandlePoweredOn
<1> HIDE DEF off
<1>3. Good(v)
  BY <1>1, FlagKeeps
<1> HIDE DEF v
<1>4. Good(SetState(w, "IDLE")) /\ Good(SetState(v, "PAIRING"))
  BY <1>3, SetStateKeeps DEF SmStates
<1> QED
  BY <1>2, <1>4

\* The state of the system changes; the first change finds the headset without a state.
LEMMA HandleStateChangeKeeps ==
  ASSUME NEW w, Good(w), NEW old, NEW new,
         \/ <<old, new>> = <<"starting_up", "limbo">> /\ w.sm.state = "NULL"
         \/ <<old, new>> \in {<<"limbo", "powering_on">>, <<"powering_on", "active">>,
                              <<"active", "powering_off">>}
  PROVE  Good(HandleStateChange(w, old, new))
<1>1. /\ Good(SetState(w, "LIMBO")) /\ Good(SetState(w, "POWERING_ON"))
      /\ Good(SetState(w, "POWERING_OFF"))
  BY SetStateKeeps DEF SmStates
<1>2. Good(HandlePoweredOn(w))
  BY HandlePoweredOnKeeps
<1>3. CASE <<old, new>> = <<"starting_up", "limbo">> /\ w.sm.state = "NULL"
  BY <1>1, <1>3 DEF HandleStateChange
<1>4. CASE <<old, new>> = <<"limbo", "powering_on">>
  BY <1>1, <1>4 DEF HandleStateChange
<1>5. CASE <<old, new>> = <<"powering_on", "active">>
  BY <1>2, <1>5 DEF HandleStateChange
<1>6. CASE <<old, new>> = <<"active", "powering_off">>
  BY <1>1, <1>6 DEF HandleStateChange
<1> QED
  BY <1>3, <1>4, <1>5, <1>6

\* The headset is asked to prepare for a shutdown.
LEMMA HandleShutdownPrepareKeeps ==
  ASSUME NEW w, Good(w)
  PROVE  Good(HandleShutdownPrepare(w))
<1>1. Good(ShutdownReady(w, HeadsetTask)) /\ Good(SetState(w, "TERMINATING"))
  BY PowerKeeps, SetStateKeeps DEF PowerClients, SmStates
<1> QED
  BY <1>1 DEF HandleShutdownPrepare

\* The user asks for a pairing, and a pairing is over.
LEMMA HandlePairingKeeps ==
  ASSUME NEW w, Good(w), NEW paused
  PROVE  Good(HandlePairHandset(w, paused)) /\ Good(HandlePairCfm(w))
<1> DEFINE off == UsbAudioDisable(w)
           on  == UsbAudioEnable(w)
           v   == [off EXCEPT !.sm.user_pairing = TRUE]
<1>1. Good(off) /\ Good(on)
  BY UsbAudioKeeps
<1>2. HandlePairHandset(w, paused) \in {SetState(v, "PAIRING"), w}
  BY DEF HandlePairHandset
<1>3. HandlePairCfm(w) \in {SetState(on, "IDLE"), w}
  BY DEF HandlePairCfm
<1> HIDE DEF off, on
<1>4. Good(v)
  BY <1>1, FlagKeeps
<1> HIDE DEF v
<1>5. Good(SetState(v, "PAIRING")) /\ Good(SetState(on, "IDLE"))
  BY <1>1, <1>4, SetStateKeeps DEF SmStates
<1> QED
  BY <1>2, <1>3, <1>5

\* A handset is disconnected: by the topology, or of itself.
LEMMA HandleDisconnectedKeeps ==
  ASSUME NEW w, Good(w), NEW status
  PROVE  Good(HandleTopologyDisconnected(w, status)) /\ Good(HandleHandsetDisconnected(w))
<1>1. Good([w EXCEPT !.env.pairing = TRUE]) /\ Good(SetState(w, "IDLE"))
  BY PairingKeeps, SetStateKeeps DEF SmStates
<1>2. HandleTopologyDisconnected(w, status) \in
        {w, [w EXCEPT !.env.pairing = TRUE], SetState(w, "IDLE")}
  BY DEF HandleTopologyDisconnected
<1>3. Good(HandleHandsetDisconnected(w))
  <2> DEFINE v == IF w.env.linked THEN w ELSE [w EXCEPT !.sm.disconnect_lock = FALSE]
  <2>1. Good(v)
    BY FlagKeeps
  <2>2. HandleHandsetDisconnected(w) = StartIdleTimer(v)
    BY DEF HandleHandsetDisconnected
  <2> HIDE DEF v
  <2> QED
    BY <2>1, <2>2, StartTimersKeep
<1> QED
  BY <1>1, <1>2, <1>3

\* The links are taken down, and their end or the time is waited for.
LEMMA LinkDisconnectionKeeps ==
  ASSUME NEW w, Good(w)
  PROVE  /\ Good(InitiateLinkDisconnection(w))
         /\ Good(HandleLinkDisconnectionComplete(w))
         /\ Good(HandleLinkDisconnectionTimeout(w))
<1>1. Good(InitiateLinkDisconnection(w))
  <2> DEFINE known  == w.env.linked /\ w.env.paired
             asked  == IF known THEN Post(w, Msg("goals", "DISCONNECT_HANDSET")) ELSE w
             locked == [asked EXCEPT !.sm.disconnect_lock = known]
             posted == Post(locked, Msg(HeadsetTask, "LINK_DISCONNECTION_COMPLETE"))
  <2>1. InitiateLinkDisconnection(w) = SendLater(posted, "TIMEOUT_LINK")
    BY DEF InitiateLinkDisconnection
  <2>2. /\ Msg("goals", "DISCONNECT_HANDSET") \in Untimed
        /\ Msg(HeadsetTask, "LINK_DISCONNECTION_COMPLETE") \in Untimed
    BY MsgIsUntimed DEF Tasks, PlainIds
  <2>3. known \in BOOLEAN
    BY GoodIsTyped DEF Envs
  <2>4. Good(asked)
    <3> HIDE DEF known
    <3> QED
      BY <2>2, PostGood
  <2> HIDE DEF known, asked
  <2>5. Good(locked)
    BY <2>3, <2>4, FlagKeeps
  <2> HIDE DEF locked
  <2>6. Good(posted)
    BY <2>2, <2>5, PostGood
  <2> HIDE DEF posted
  <2>7. Good(SendLater(posted, "TIMEOUT_LINK"))
    BY <2>6, SendLaterKeeps DEF TimerIds
  <2> QED
    BY <2>1, <2>7
<1>2. Good(HandleLinkDisconnectionComplete(w))
  <2> DEFINE v == CancelFirst(w, "TIMEOUT_LINK")
  <2>1. Good(v)
    BY CancelFirstKeeps
  <2>2. HandleLinkDisconnectionComplete(w) = [v EXCEPT !.env.paired = FALSE]
    BY DEF HandleLinkDisconnectionComplete
  <2> HIDE DEF v
  <2> QED
    BY <2>1, <2>2, PairingKeeps
<1>3. Good(HandleLinkDisconnectionTimeout(w))
  <2> DEFINE v == CancelAll(w, "LINK_DISCONNECTION_COMPLETE")
  <2>1. Good(v)
    BY CancelAllKeeps DEF PlainIds
  <2>2. HandleLinkDisconnectionTimeout(w) \in {[v EXCEPT !.sm.disconnect_lock = FALSE], w}
    BY DEF HandleLinkDisconnectionTimeout
  <2> HIDE DEF v
  <2> QED
    BY <2>1, <2>2, FlagKeeps
<1> QED
  BY <1>1, <1>2, <1>3

---------------------------------------------------------------------------
(* The delivery of a message.                                              *)

\* The state that a function's result makes the next one
LEMMA BecomeIs ==
  ASSUME NEW w \in Worlds, Become(w)
  PROVE  World' = w
BY DEF Become, World, Worlds

\* The message that is delivered is there, and what is left has no start up in
\* it: that one is not held back and is the first of all.
LEMMA RestIs ==
  ASSUME IInv, Deliverable # {}
  PROVE  /\ Good(Rest) /\ Rest.sm = sm /\ Rest.topo = topo /\ Rest.ss = ss
         /\ Message \in Messages
         /\ Message = StartUp => sm.state = "NULL"
         /\ Queued(World, Message.id)
<1> DEFINE w == World
           n == First
           q == RemoveAt(w.queue, n)
<1>0. /\ w \in Worlds /\ w.queue = queue /\ w.sm = sm /\ w.topo = topo /\ w.ss = ss
      /\ queue \in Seq(Messages) /\ Base(w)
  BY DEF IInv, Base, Worlds, World
<1>1. DOMAIN queue = 1 .. Len(queue) /\ Len(queue) \in Nat
  BY <1>0, LenProperties
<1>2. n \in Deliverable /\ \A k \in Deliverable : n <= k
  <2>1. Deliverable \subseteq Nat
    BY <1>1 DEF Deliverable
  <2> QED
    BY <2>1, LeastIs DEF First
<1>3. n \in DOMAIN queue /\ queue[n] \in Messages /\ Message = queue[n]
  <2>1. n \in DOMAIN queue
    BY <1>2 DEF Deliverable
  <2> QED
    BY <1>0, <1>1, <2>1, ElementOfSeq DEF Message
<1>4. Rest = [w EXCEPT !.queue = q]
  BY <1>0 DEF Rest, Worlds
<1> HIDE DEF w, n
<1>5. /\ q \in Seq(Messages) /\ [w EXCEPT !.queue = q] \in Worlds
      /\ \A k \in DOMAIN q : \E i \in DOMAIN w.queue : i # n /\ q[k] = w.queue[i]
  BY <1>0, <1>3, TakenOutKeeps
<1> HIDE DEF q
<1>6. /\ Rest \in Worlds /\ Rest.sm = w.sm /\ Rest.topo = w.topo /\ Rest.ss = w.ss
      /\ Rest.power = w.power /\ Rest.timers = w.timers /\ Rest.queue = q
  BY <1>0, <1>4, <1>5 DEF Worlds
<1>7. TimersOK(Rest)
  <2>1. \A id : Pends(Rest, id) => Pends(w, id)
    BY <1>5, <1>6 DEF Pends, Queued
  <2> QED
    BY <1>0, <1>6, <2>1 DEF Base, TimersOK
<1>8. Started(Rest)
  <2> SUFFICES ASSUME NEW k \in DOMAIN q, q[k] = StartUp PROVE FALSE
    BY <1>6 DEF Started
  <2>1. PICK i \in DOMAIN queue : i # n /\ queue[i] = StartUp
    BY <1>0, <1>5
  <2>2. i = 1
    BY <2>1 DEF IInv, StartsOnce
  <2>3. 1 \in Deliverable
    <3>1. StartUp.id = "STATE_CHANGE"
      BY DEF StartUp, ChangeMessage
    <3> QED
      BY <2>1, <2>2, <3>1 DEF Deliverable, Blocked
  <2>4. n <= 1 /\ n >= 1 /\ n \in Nat
    BY <1>1, <1>2, <1>3, <2>3
  <2> QED
    BY <2>1, <2>2, <2>4
<1>9. Good(Rest)
  BY <1>0, <1>6, <1>7, <1>8 DEF Good, Base, AskerKnown, Up
<1>10. Message = StartUp => sm.state = "NULL"
  BY <1>3 DEF IInv, StartsOnce
<1>11. Queued(World, Message.id)
  BY <1>0, <1>3 DEF Queued, w
<1> QED
  BY <1>0, <1>3, <1>6, <1>9, <1>10, <1>11

\* A handler that leaves a good world keeps the invariant.
LEMMA GoodBecomes ==
  ASSUME NEW w, Good(w), Become(w)
  PROVE  IInv'
<1>1. World' = w
  BY BecomeIs DEF Good, Base
<1>2. Base(World')
  BY <1>1 DEF Good
<1>3. Started(World')
  BY <1>1 DEF Good
<1>4. World'.queue = queue'
  BY DEF World
<1>5. StartsOnce'
  BY <1>3, <1>4 DEF Started, StartsOnce
<1> QED
  BY <1>2, <1>5 DEF IInv

\* What is known when a message is handled
Delivered ==
  /\ Good(Rest) /\ Rest.sm = sm /\ Rest.topo = topo /\ Rest.ss = ss
  /\ Message \in Messages
  /\ Message = StartUp => sm.state = "NULL"
  /\ Queued(World, Message.id)

\* ... is known by whoever receives it.
LEMMA ReceiverKnows ==
  ASSUME IInv, NEW task, NEW id, Receives(task, id)
  PROVE  Delivered /\ Message.id = id
BY RestIs DEF Receives, Delivered

\* The buttons of the user and what they lead to inside
LEMMA InputsKeep ==
  ASSUME IInv,
         \/ UiPowerOn \/ UiPowerOff \/ UiPairHandset \/ UiDeleteHandsets \/ UiFactoryReset
         \/ InternalPowerOff \/ InternalFactoryReset \/ InternalDeleteHandsets
         \/ \E paused \in BOOLEAN : InternalPairHandset(paused)
  PROVE  IInv'
<1>0. ASSUME Delivered
      PROVE  /\ Good(Rest)
             /\ Good(SystemCall(Rest, "power_on")) /\ Good(SystemCall(Rest, "power_off"))
             /\ \A id \in PlainIds : Good(Post(Rest, Msg(HeadsetTask, id)))
             /\ Good(SetState(Rest, "FACTORY_RESET"))
             /\ Good(InitiateLinkDisconnection(Rest))
             /\ \A paused : Good(HandlePairHandset(Rest, paused))
  <2>1. Good(Rest)
    BY <1>0 DEF Delivered
  <2>2. Good(SystemCall(Rest, "power_on")) /\ Good(SystemCall(Rest, "power_off"))
    BY <2>1, SystemCallKeeps DEF S!TransitionNames
  <2>3. ASSUME NEW id \in PlainIds PROVE Good(Post(Rest, Msg(HeadsetTask, id)))
    <3>1. Msg(HeadsetTask, id) \in Untimed
      BY MsgIsUntimed DEF Tasks
    <3> QED
      BY <2>1, <3>1, PostGood
  <2>4. Good(SetState(Rest, "FACTORY_RESET"))
    BY <2>1, SetStateKeeps DEF SmStates
  <2>5. Good(InitiateLinkDisconnection(Rest))
    BY <2>1, LinkDisconnectionKeeps
  <2>6. \A paused : Good(HandlePairHandset(Rest, paused))
    BY <2>1, HandlePairingKeeps
  <2> QED
    BY <2>1, <2>2, <2>3, <2>4, <2>5, <2>6
<1>1. CASE UiPowerOn
  BY <1>0, <1>1, ReceiverKnows, GoodBecomes DEF UiPowerOn, Handled
<1>2. CASE UiPowerOff
  <2>1. "POWER_OFF" \in PlainIds
    BY DEF PlainIds
  <2> QED
    BY <1>0, <1>2, <2>1, ReceiverKnows, GoodBecomes DEF UiPowerOff, Handled
<1>3. CASE UiPairHandset
  <2>1. "PAIR_HANDSET" \in PlainIds
    BY DEF PlainIds
  <2> QED
    BY <1>0, <1>3, <2>1, ReceiverKnows, GoodBecomes DEF UiPairHandset, Handled
<1>4. CASE UiDeleteHandsets
  <2>1. "DELETE_HANDSETS" \in PlainIds
    BY DEF PlainIds
  <2> QED
    BY <1>0, <1>4, <2>1, ReceiverKnows, GoodBecomes DEF UiDeleteHandsets, Handled
<1>5. CASE UiFactoryReset
  <2>1. "FACTORY_RESET" \in PlainIds
    BY DEF PlainIds
  <2> QED
    BY <1>0, <1>5, <2>1, ReceiverKnows, GoodBecomes DEF UiFactoryReset, Handled
<1>6. CASE InternalPowerOff
  BY <1>0, <1>6, ReceiverKnows, GoodBecomes DEF InternalPowerOff, Handled
<1>7. CASE InternalFactoryReset
  BY <1>0, <1>7, ReceiverKnows, GoodBecomes DEF InternalFactoryReset, Handled
<1>8. CASE InternalDeleteHandsets
  BY <1>0, <1>8, ReceiverKnows, GoodBecomes DEF InternalDeleteHandsets, Handled
<1>9. ASSUME NEW paused \in BOOLEAN, InternalPairHandset(paused) PROVE IInv'
  BY <1>0, <1>9, ReceiverKnows, GoodBecomes DEF InternalPairHandset, Handled
<1> QED
  BY <1>1, <1>2, <1>3, <1>4, <1>5, <1>6, <1>7, <1>8, <1>9

\* A message about a change of the system's state is one of four.
LEMMA ChangeIsHeeded ==
  ASSUME NEW m \in Messages, m.id = "STATE_CHANGE", m = StartUp => sm.state = "NULL"
  PROVE  \/ <<m.old, m.new>> = <<"starting_up", "limbo">> /\ sm.state = "NULL"
         \/ <<m.old, m.new>> \in {<<"limbo", "powering_on">>, <<"powering_on", "active">>,
                                  <<"active", "powering_off">>}
<1>1. m \in Changes \cup {StartUp}
  BY DEF Messages, Untimed, Plain, PlainIds, Timed, TimedIds, Reports
<1> QED
  BY <1>1 DEF Changes, StartUp, ChangeMessage

\* What the system state, the power manager, the charger and the timers tell the headset
LEMMA NewsKeep ==
  ASSUME IInv,
         \/ SystemStateChange \/ HeadsetStopCfm \/ HeadsetShutdownPrepare \/ ChargerDetached
         \/ TimeoutLimbo \/ TimeoutIdle \/ LinkDisconnectionComplete \/ LinkDisconnectionTimeout
         \/ PowerMessage
  PROVE  IInv'
<1>0. ASSUME Delivered
      PROVE  /\ Good(Rest) /\ Rest.sm = sm
             /\ Good(HandleStopCfm(Rest)) /\ Good(HandleShutdownPrepare(Rest))
             /\ sm.state = "LIMBO" => Good(StartLimboTimer(Rest))
             /\ Good(PowerOffRequest(Rest)) /\ Good(PowerEvent(Rest))
             /\ Good(Post(Rest, Msg(HeadsetTask, "POWER_OFF")))
             /\ Good(HandleLinkDisconnectionComplete(Rest))
             /\ Good(HandleLinkDisconnectionTimeout(Rest))
  <2>1. Good(Rest) /\ Rest.sm = sm
    BY <1>0 DEF Delivered
  <2>2. Good(HandleStopCfm(Rest)) /\ Good(HandleShutdownPrepare(Rest))
    BY <2>1, HandleStopCfmKeeps, HandleShutdownPrepareKeeps
  <2>3. sm.state = "LIMBO" => Good(StartLimboTimer(Rest))
    BY <2>1, StartTimersKeep
  <2>4. Good(PowerOffRequest(Rest)) /\ Good(PowerEvent(Rest))
    BY <2>1, PowerKeeps DEF PowerClients
  <2>5. Msg(HeadsetTask, "POWER_OFF") \in Untimed
    BY MsgIsUntimed DEF Tasks, PlainIds
  <2>6. Good(Post(Rest, Msg(HeadsetTask, "POWER_OFF")))
    BY <2>1, <2>5, PostGood
  <2>7. Good(HandleLinkDisconnectionComplete(Rest)) /\ Good(HandleLinkDisconnectionTimeout(Rest))
    BY <2>1, LinkDisconnectionKeeps
  <2> QED
    BY <2>1, <2>2, <2>3, <2>4, <2>6, <2>7
<1>1. CASE SystemStateChange
  <2>1. Delivered /\ Message.id = "STATE_CHANGE"
    BY <1>1, ReceiverKnows DEF SystemStateChange
  <2> DEFINE old == Message.old
             new == Message.new
  <2>2. \/ <<old, new>> = <<"starting_up", "limbo">> /\ Rest.sm.state = "NULL"
        \/ <<old, new>> \in {<<"limbo", "powering_on">>, <<"powering_on", "active">>,
                             <<"active", "powering_off">>}
    BY <2>1, ChangeIsHeeded DEF Delivered
  <2>3. Good(Rest)
    BY <2>1 DEF Delivered
  <2>4. Become(HandleStateChange(Rest, old, new))
    BY <1>1 DEF SystemStateChange, Handled
  <2> HIDE DEF old, new
  <2>5. Good(HandleStateChange(Rest, old, new))
    BY <2>2, <2>3, HandleStateChangeKeeps
  <2> QED
    BY <2>4, <2>5, GoodBecomes
<1>2. CASE HeadsetStopCfm
  BY <1>0, <1>2, ReceiverKnows, GoodBecomes DEF HeadsetStopCfm, Handled
<1>3. CASE HeadsetShutdownPrepare
  BY <1>0, <1>3, ReceiverKnows, GoodBecomes DEF HeadsetShutdownPrepare, Handled
<1>4. CASE ChargerDetached
  BY <1>0, <1>4, ReceiverKnows, GoodBecomes DEF ChargerDetached, Handled
<1>5. CASE TimeoutLimbo
  BY <1>0, <1>5, ReceiverKnows, GoodBecomes DEF TimeoutLimbo, Handled
<1>6. CASE TimeoutIdle
  BY <1>0, <1>6, ReceiverKnows, GoodBecomes DEF TimeoutIdle, Handled
<1>7. CASE LinkDisconnectionComplete
  BY <1>0, <1>7, ReceiverKnows, GoodBecomes DEF LinkDisconnectionComplete, Handled
<1>8. CASE LinkDisconnectionTimeout
  BY <1>0, <1>8, ReceiverKnows, GoodBecomes DEF LinkDisconnectionTimeout, Handled
<1>9. CASE PowerMessage
  BY <1>0, <1>9, ReceiverKnows, GoodBecomes DEF PowerMessage, Handled
<1> QED
  BY <1>1, <1>2, <1>3, <1>4, <1>5, <1>6, <1>7, <1>8, <1>9

\* What the handset, the pairing and the wire tell the headset
LEMMA LinksKeep ==
  ASSUME IInv,
         \/ PairConfirm \/ TopologyHandsetDisconnected
         \/ HandsetConnected \/ HandsetDisconnected \/ AudioChanged
         \/ WiredEnumerated \/ WiredDeconfigured
  PROVE  IInv'
<1>0. ASSUME Delivered
      PROVE  /\ Good(Rest)
             /\ Good(HandlePairCfm(Rest))
             /\ \A status : Good(HandleTopologyDisconnected(Rest, status))
             /\ Good(HandleHandsetDisconnected(Rest))
             /\ Good(CancelAll(Rest, "TIMEOUT_IDLE"))
             /\ Good(SetState(Rest, CoreState(Rest)))
             /\ Good(WiredConnected(Rest)) /\ Good(WiredDisconnected(Rest))
  <2>1. Good(Rest)
    BY <1>0 DEF Delivered
  <2>2. Good(HandlePairCfm(Rest)) /\ Good(HandleHandsetDisconnected(Rest))
    BY <2>1, HandlePairingKeeps, HandleDisconnectedKeeps
  <2>3. \A status : Good(HandleTopologyDisconnected(Rest, status))
    BY <2>1, HandleDisconnectedKeeps
  <2>4. Good(CancelAll(Rest, "TIMEOUT_IDLE"))
    BY <2>1, CancelAllKeeps DEF TimerIds
  <2>5. CoreState(Rest) \in SmStates
    BY DEF CoreState, SmStates
  <2>6. Good(SetState(Rest, CoreState(Rest)))
    BY <2>1, <2>5, SetStateKeeps
  <2>7. Good(WiredConnected(Rest)) /\ Good(WiredDisconnected(Rest))
    BY <2>1, WiredKeeps
  <2> QED
    BY <2>1, <2>2, <2>3, <2>4, <2>6, <2>7
<1>1. CASE PairConfirm
  BY <1>0, <1>1, ReceiverKnows, GoodBecomes DEF PairConfirm, Handled
<1>2. CASE TopologyHandsetDisconnected
  BY <1>0, <1>2, ReceiverKnows, GoodBecomes DEF TopologyHandsetDisconnected, Handled
<1>3. CASE HandsetConnected
  BY <1>0, <1>3, ReceiverKnows, GoodBecomes DEF HandsetConnected, Handled
<1>4. CASE HandsetDisconnected
  BY <1>0, <1>4, ReceiverKnows, GoodBecomes DEF HandsetDisconnected, Handled
<1>5. CASE AudioChanged
  BY <1>0, <1>5, ReceiverKnows, GoodBecomes DEF AudioChanged, Handled
<1>6. CASE WiredEnumerated
  BY <1>0, <1>6, ReceiverKnows, GoodBecomes DEF WiredEnumerated, Handled
<1>7. CASE WiredDeconfigured
  BY <1>0, <1>7, ReceiverKnows, GoodBecomes DEF WiredDeconfigured, Handled
<1> QED
  BY <1>1, <1>2, <1>3, <1>4, <1>5, <1>6, <1>7

\* The topology moves on while it is not stopping.
LEMMA TopoKeeps ==
  ASSUME NEW w, Good(w), NEW topo2 \in Topos, topo2.app_task = w.topo.app_task,
         \/ topo2.state = w.topo.state
         \/ w.topo.state # "STOPPING" /\ topo2.state # "STOPPING"
  PROVE  Good([w EXCEPT !.topo = topo2])
<1> DEFINE v == [w EXCEPT !.topo = topo2]
<1>1. w \in Worlds
  BY GoodIsTyped
<1>2. v \in Worlds /\ v.sm = w.sm /\ v.topo = topo2 /\ v.timers = w.timers
      /\ v.queue = w.queue /\ v.ss = w.ss /\ v.power = w.power
  BY <1>1 DEF Worlds
<1> HIDE DEF v
<1>3. \A id : Pends(v, id) <=> Pends(w, id)
  BY <1>2 DEF Pends, Queued
<1>4. TimersOK(v)
  BY <1>2, <1>3 DEF Good, Base, TimersOK
<1> QED
  BY <1>2, <1>4 DEF Good, Base, AskerKnown, Up, Started, v

\* The messages of the topology and its goals
LEMMA TopologyKeeps ==
  ASSUME IInv,
         \/ TopologyShutdownPrepare \/ TopologyStopTimeout \/ TopologyStopFinished
         \/ GoalSystemStop \/ GoalAllowHandsetConnect \/ GoalDisconnectHandset
  PROVE  IInv'
<1>0. ASSUME Delivered
      PROVE  Good(Rest) /\ Rest.topo = topo /\ topo \in Topos /\ Rest \in Worlds
  BY <1>0, GoodIsTyped DEF Delivered
<1>1. CASE TopologyShutdownPrepare
  <2> DEFINE v == [Rest EXCEPT !.topo.shutdown = TRUE]
             t == [topo EXCEPT !.shutdown = TRUE]
  <2>1. Delivered /\ Become(ShutdownReady(v, TopologyTask))
    BY <1>1, ReceiverKnows DEF TopologyShutdownPrepare, Handled
  <2>2. t \in Topos /\ t.app_task = topo.app_task /\ t.state = topo.state
    BY <1>0, <2>1 DEF Topos
  <2>3. v = [Rest EXCEPT !.topo = t]
    BY <1>0, <2>1 DEF Worlds
  <2> HIDE DEF v, t
  <2>4. Good(v)
    BY <1>0, <2>1, <2>2, <2>3, TopoKeeps
  <2>5. Good(ShutdownReady(v, TopologyTask))
    BY <2>4, PowerKeeps DEF PowerClients
  <2> QED
    BY <2>1, <2>5, GoodBecomes
<1>2. ASSUME Delivered, topo.state = "STOPPING"
      PROVE  Good(TopologyStopped(SendStopCfm(Rest)))
  <2>1. Good(Rest) /\ Rest.topo.app_task # "none"
    BY <1>0, <1>2 DEF Good, Base, AskerKnown
  <2>2. Good(SendStopCfm(Rest)) /\ ~Pends(SendStopCfm(Rest), "TIMEOUT_STOP")
    BY <2>1, SendStopCfmKeeps
  <2> QED
    BY <2>2, TopologyStoppedKeeps
<1>3. CASE TopologyStopTimeout
  <2>1. Delivered /\ Message.id = "TIMEOUT_STOP"
    BY <1>3, ReceiverKnows DEF TopologyStopTimeout
  <2>2. topo.state = "STOPPING"
    <3>1. Pends(World, "TIMEOUT_STOP")
      BY <2>1 DEF Delivered, Pends
    <3> QED
      BY <3>1 DEF IInv, Base, TimersOK, World
  <2> QED
    BY <1>2, <1>3, <2>1, <2>2, GoodBecomes DEF TopologyStopTimeout, Handled
<1>4. CASE TopologyStopFinished
  BY <1>0, <1>2, <1>4, ReceiverKnows, GoodBecomes DEF TopologyStopFinished, Handled
<1>5. CASE GoalSystemStop
  <2> DEFINE v == [Rest EXCEPT !.topo.stopping = TRUE, !.topo.disconnecting = FALSE]
             t == [topo EXCEPT !.stopping = TRUE, !.disconnecting = FALSE]
  <2>1. Delivered /\ Become(v)
    BY <1>5, ReceiverKnows DEF GoalSystemStop, Handled
  <2>2. t \in Topos /\ t.app_task = topo.app_task /\ t.state = topo.state
    BY <1>0, <2>1 DEF Topos
  <2>3. v = [Rest EXCEPT !.topo = t]
    BY <1>0, <2>1 DEF Worlds
  <2> HIDE DEF v, t
  <2>4. Good(v)
    BY <1>0, <2>1, <2>2, <2>3, TopoKeeps
  <2> QED
    BY <2>1, <2>4, GoodBecomes
<1>6. CASE GoalAllowHandsetConnect
  <2> DEFINE v == [Rest EXCEPT !.topo.state = "STARTED"]
             t == [topo EXCEPT !.state = "STARTED"]
  <2>1. Delivered /\ Become(IF topo.state = "STARTING" THEN v ELSE Rest)
    BY <1>6, ReceiverKnows DEF GoalAllowHandsetConnect, Handled
  <2>2. t \in Topos /\ t.app_task = topo.app_task /\ t.state = "STARTED"
    BY <1>0, <2>1 DEF Topos, TopoStates
  <2>3. v = [Rest EXCEPT !.topo = t]
    BY <1>0, <2>1 DEF Worlds
  <2> HIDE DEF v, t
  <2>4. topo.state = "STARTING" => Good(v)
    BY <1>0, <2>1, <2>2, <2>3, TopoKeeps
  <2> QED
    BY <1>0, <2>1, <2>4, GoodBecomes
<1>7. CASE GoalDisconnectHandset
  <2> DEFINE v == [Rest EXCEPT !.topo.disconnecting = TRUE]
             t == [topo EXCEPT !.disconnecting = TRUE]
  <2>1. Delivered /\ Become(IF topo.state = "STARTED" THEN v ELSE Rest)
    BY <1>7, ReceiverKnows DEF GoalDisconnectHandset, Handled
  <2>2. t \in Topos /\ t.app_task = topo.app_task /\ t.state = topo.state
    BY <1>0, <2>1 DEF Topos
  <2>3. v = [Rest EXCEPT !.topo = t]
    BY <1>0, <2>1 DEF Worlds
  <2> HIDE DEF v, t
  <2>4. Good(v)
    BY <1>0, <2>1, <2>2, <2>3, TopoKeeps
  <2> QED
    BY <1>0, <2>1, <2>4, GoodBecomes
<1> QED
  BY <1>1, <1>3, <1>4, <1>5, <1>6, <1>7

\* A transition goes on when what its step waits for has come.
LEMMA TransitionKeeps ==
  ASSUME IInv, NEW id \in {"STOP_CFM", "PROMPT_COMPLETED"}, TransitionMessage(id)
  PROVE  IInv'
<1> DEFINE handled == IF id = "STOP_CFM" THEN HandleStopCfm(Rest) ELSE Rest
           run == S!DoTransition(handled.ss, ss.transition)
<1>1. Delivered
  BY ReceiverKnows DEF TransitionMessage
<1>2. Good(Rest) /\ Rest.ss = ss
  BY <1>1 DEF Delivered
<1>3. Good(handled)
  BY <1>2, HandleStopCfmKeeps
<1>4. Become(IF S!Expects(ss, id) THEN RunSystem(handled, run) ELSE Rest)
  BY DEF TransitionMessage, Handled
<1> HIDE DEF handled
<1>5. ASSUME S!Expects(ss, id) PROVE Good(RunSystem(handled, run))
  <2>1. ss \in S!Context
    BY <1>2, GoodIsTyped
  <2>2. ss.transition \in S!TransitionNames
    BY <1>5, <2>1 DEF S!Expects, S!Context
  <2>3. handled.ss \in S!Context /\ handled.ss.state # "starting_up"
    BY <1>3, GoodIsTyped DEF Good, Base, Up
  <2>4. RunOK(run)
    BY <2>2, <2>3, ContinuedRun
  <2> HIDE DEF run
  <2> QED
    BY <1>3, <2>4, RunSystemKeeps
<1> QED
  BY <1>2, <1>4, <1>5, GoodBecomes

---------------------------------------------------------------------------
(* What moves on its own.                                                  *)

\* A world that differs from the state in nothing that the first message and
\* the headset's own state say
Beside(w) ==
  /\ Base(w) /\ w.sm = sm
  /\ \A n \in DOMAIN w.queue : w.queue[n] = StartUp => n \in DOMAIN queue /\ queue[n] = StartUp

\* The state itself does, and keeps the invariant when such a world is next.
LEMMA BesideIs ==
  ASSUME IInv
  PROVE  /\ Beside(World)
         /\ \A w : Beside(w) /\ Become(w) => IInv'
<1>1. Beside(World)
  BY DEF IInv, Beside, World
<1>2. ASSUME NEW w, Beside(w), Become(w) PROVE IInv'
  <2>1. w \in Worlds
    BY <1>2 DEF Beside, Base
  <2>2. World' = w
    BY <1>2, <2>1, BecomeIs
  <2>3. queue' = w.queue /\ sm' = sm
    BY <1>2 DEF Become, Beside
  <2>4. StartsOnce'
    BY <1>2, <2>3 DEF Beside, IInv, StartsOnce
  <2>5. Base(World')
    BY <1>2, <2>2 DEF Beside
  <2> QED
    BY <2>4, <2>5 DEF IInv
<1> QED
  BY <1>1, <1>2

\* Something is sent.
LEMMA PostBeside ==
  ASSUME NEW w, Beside(w), NEW m \in Untimed
  PROVE  Beside(Post(w, m))
<1>1. Base(w) /\ w \in Worlds /\ m \in Messages
  BY DEF Beside, Base, Messages
<1>2. /\ Base(Post(w, m))
      /\ \A n \in DOMAIN Post(w, m).queue : Post(w, m).queue[n] = StartUp =>
           n \in DOMAIN w.queue /\ w.queue[n] = StartUp
  BY <1>1, PostKeeps
<1>3. Post(w, m).sm = w.sm
  BY <1>1, PostIs DEF Worlds
<1> QED
  BY <1>2, <1>3 DEF Beside

\* Something changes that the invariant does not speak of.
LEMMA ChangeBeside ==
  ASSUME NEW w, Beside(w), NEW r \in Worlds, r.sm = w.sm, r.topo.state = w.topo.state,
         r.topo.app_task = w.topo.app_task, r.timers = w.timers, r.queue = w.queue,
         r.ss = w.ss, r.power = w.power
  PROVE  Beside(r)
BY DEF Beside, Base, TimersOK, AskerKnown, Up, Pends, Queued

\* ... in the environment, of USB and of the topology.
LEMMA MoveBeside ==
  ASSUME NEW w, Beside(w)
  PROVE  /\ \A e \in Envs : Beside([w EXCEPT !.env = e]) /\ [w EXCEPT !.env = e].env = e
                            /\ [w EXCEPT !.env = e].topo = w.topo
         /\ \A u \in Usbs : Beside([w EXCEPT !.usb = u])
         /\ \A t \in Topos : t.state = w.topo.state /\ t.app_task = w.topo.app_task =>
                               Beside([w EXCEPT !.topo = t])
<1>1. w \in Worlds
  BY DEF Beside, Base
<1>2. ASSUME NEW e \in Envs
      PROVE  /\ Beside([w EXCEPT !.env = e]) /\ [w EXCEPT !.env = e].env = e
             /\ [w EXCEPT !.env = e].topo = w.topo
  <2> DEFINE v == [w EXCEPT !.env = e]
  <2>1. v \in Worlds /\ v.sm = w.sm /\ v.topo = w.topo /\ v.timers = w.timers
        /\ v.queue = w.queue /\ v.ss = w.ss /\ v.power = w.power /\ v.env = e
    BY <1>1 DEF Worlds
  <2> HIDE DEF v
  <2>2. Beside(v)
    BY <2>1, ChangeBeside
  <2> QED
    BY <2>1, <2>2 DEF v
<1>3. ASSUME NEW u \in Usbs PROVE Beside([w EXCEPT !.usb = u])
  <2> DEFINE v == [w EXCEPT !.usb = u]
  <2>1. v \in Worlds /\ v.sm = w.sm /\ v.topo = w.topo /\ v.timers = w.timers
        /\ v.queue = w.queue /\ v.ss = w.ss /\ v.power = w.power
    BY <1>1 DEF Worlds
  <2> HIDE DEF v
  <2>2. Beside(v)
    BY <2>1, ChangeBeside
  <2> QED
    BY <2>2 DEF v
<1>4. ASSUME NEW t \in Topos, t.state = w.topo.state, t.app_task = w.topo.app_task
      PROVE  Beside([w EXCEPT !.topo = t])
  <2> DEFINE v == [w EXCEPT !.topo = t]
  <2>1. v \in Worlds /\ v.sm = w.sm /\ v.topo = t /\ v.timers = w.timers
        /\ v.queue = w.queue /\ v.ss = w.ss /\ v.power = w.power
    BY <1>1 DEF Worlds
  <2> HIDE DEF v
  <2>2. Beside(v)
    BY <1>4, <2>1, ChangeBeside
  <2> QED
    BY <2>2 DEF v
<1> QED
  BY <1>2, <1>3, <1>4

\* The link to the handset is gone.
LEMMA LinkGoneBeside ==
  ASSUME NEW w, Beside(w)
  PROVE  Beside(LinkGone(w)) /\ LinkGone(w).topo = w.topo
<1> DEFINE e    == [w.env EXCEPT !.linked = FALSE, !.audio = FALSE]
           gone == [w EXCEPT !.env.linked = FALSE, !.env.audio = FALSE]
           a    == Msg(HeadsetTask, "DISCONNECTED_IND")
           b    == Msg(HeadsetTask, "AUDIO_IND")
           told == Post(gone, a)
<1>1. w \in Worlds /\ w.env \in Envs
  BY DEF Beside, Base, Worlds
<1>2. e \in Envs /\ gone = [w EXCEPT !.env = e]
  BY <1>1 DEF Envs, Worlds
<1>3. LinkGone(w) \in {w, Post(told, b), told}
  BY DEF LinkGone
<1>4. a \in Untimed /\ b \in Untimed /\ a \in Messages /\ b \in Messages
  BY MsgIsUntimed DEF Tasks, PlainIds, Messages
<1> HIDE DEF e, gone, a, b
<1>5. Beside(gone) /\ gone.topo = w.topo
  BY <1>2, MoveBeside
<1>6. Beside(told)
  BY <1>4, <1>5, PostBeside
<1>7. told.topo = gone.topo
  <2>1. gone \in Worlds
    BY <1>5 DEF Beside, Base
  <2> QED
    BY <1>4, <2>1, PostIs DEF Worlds
<1> HIDE DEF told
<1>8. Beside(Post(told, b))
  BY <1>4, <1>6, PostBeside
<1>9. Post(told, b).topo = told.topo
  <2>1. told \in Worlds
    BY <1>6 DEF Beside, Base
  <2> QED
    BY <1>4, <2>1, PostIs DEF Worlds
<1> QED
  BY <1>3, <1>5, <1>6, <1>7, <1>8, <1>9

\* A timer comes due: what was to come is there.
LEMMA TimerKeeps ==
  ASSUME IInv, NEW id \in TimerIds, TimerExpires(id)
  PROVE  IInv'
<1> DEFINE w    == World
           t    == [timers EXCEPT ![id] = timers[id] - 1]
           v    == [w EXCEPT !.timers = t]
           task == IF id = "TIMEOUT_STOP" THEN TopologyTask ELSE HeadsetTask
           m    == Msg(task, id)
           r    == Post(v, m)
<1>1. /\ Base(w) /\ w \in Worlds /\ w.timers = timers /\ timers \in [TimerIds -> Nat]
      /\ w.sm = sm /\ w.queue = queue
  BY DEF IInv, Base, Worlds, World
<1>2. timers[id] \in Nat /\ timers[id] > 0
  BY <1>1 DEF TimerExpires
<1>3. /\ t \in [TimerIds -> Nat]
      /\ \A i \in TimerIds : t[i] = IF i = id THEN timers[i] - 1 ELSE timers[i]
  BY <1>1, <1>2
<1>4. Become(r)
  <2>1. [World EXCEPT !.timers[id] = @ - 1] = v
    BY <1>1 DEF Worlds
  <2> QED
    BY <2>1 DEF TimerExpires, Happens, Outside
<1>5. m \in Messages /\ m.id = id /\ m # StartUp
  BY DEF Msg, TimerIds, Messages, Untimed, Plain, Timed, PlainIds, TimedIds, Tasks, StartUp,
         ChangeMessage, HeadsetTask, TopologyTask
<1> HIDE DEF w, t
<1>6. /\ v \in Worlds /\ v.sm = w.sm /\ v.topo = w.topo /\ v.timers = t /\ v.queue = w.queue
      /\ v.ss = w.ss /\ v.power = w.power
  BY <1>1, <1>3 DEF Worlds
<1> HIDE DEF v, m
<1>7. /\ r = [v EXCEPT !.queue = Append(v.queue, m)] /\ r \in Worlds
      /\ \A i : Queued(r, i) <=> Queued(v, i) \/ m.id = i
  BY <1>5, <1>6, PostIs
<1>8. /\ r.sm = w.sm /\ r.topo = w.topo /\ r.timers = t /\ r.ss = w.ss /\ r.power = w.power
      /\ r.queue = Append(queue, m)
  BY <1>1, <1>6, <1>7 DEF Worlds
<1>9. \A i \in TimedIds : i \in TimerIds
  BY DEF TimedIds, TimerIds
<1> HIDE DEF r
<1>10. ASSUME NEW i \in TimedIds, Pends(r, i) PROVE Pends(w, i)
  <2>1. i \in TimerIds /\ timers[i] \in Nat
    BY <1>1, <1>9
  <2>2. CASE i = id
    BY <1>1, <1>2, <2>2 DEF Pends
  <2>3. CASE i # id
    <3>1. t[i] = timers[i] /\ (Queued(r, i) <=> Queued(w, i))
      BY <1>3, <1>5, <1>6, <1>7, <2>1, <2>3 DEF Queued
    <3> QED
      BY <1>1, <1>8, <1>10, <3>1 DEF Pends
  <2> QED
    BY <2>2, <2>3
<1>11. ASSUME NEW i \in TimedIds PROVE r.timers[i] \in {0, 1}
  <2>1. i \in TimerIds /\ timers[i] \in {0, 1}
    BY <1>1, <1>9 DEF Base, TimersOK
  <2>2. r.timers[i] = IF i = id THEN timers[i] - 1 ELSE timers[i]
    BY <1>3, <1>8, <2>1
  <2> QED
    BY <1>2, <2>1, <2>2
<1>12. TimersOK(r)
  <2>1. {"TIMEOUT_LIMBO", "TIMEOUT_IDLE", "TIMEOUT_STOP"} \subseteq TimedIds
    BY DEF TimedIds
  <2> QED
    BY <1>1, <1>8, <1>10, <1>11, <2>1 DEF Base, TimersOK
<1>13. Base(r)
  BY <1>1, <1>7, <1>8, <1>12 DEF Base, AskerKnown, Up
<1>14. ASSUME NEW n \in DOMAIN r.queue, r.queue[n] = StartUp
       PROVE  n \in DOMAIN queue /\ queue[n] = StartUp
  <2>1. queue \in Seq(Messages)
    BY <1>1 DEF Worlds
  <2> QED
    BY <1>5, <1>8, <1>14, <2>1, AppendIs
<1>15. Beside(r)
  BY <1>1, <1>8, <1>13, <1>14 DEF Beside
<1> QED
  BY <1>4, <1>15, BesideIs

\* The user, the cable, the battery and the radio
LEMMA MovesKeep ==
  ASSUME IInv,
         \/ \E input \in Buttons : Press(input)
         \/ \E end \in Cables \ {"none"} : CablePlugged(end)
         \/ CablePulled \/ BatteryMoves
         \/ LinkComesUp \/ LinkIsLost \/ AudioMoves
  PROVE  IInv'
<1> DEFINE w == World
<1>0. /\ Beside(w) /\ w \in Worlds /\ w.env = env /\ env \in Envs /\ w.topo = topo
      /\ \A v : Beside(v) /\ Become(v) => IInv'
  BY BesideIs DEF IInv, Base, Worlds, World
<1>1. ASSUME NEW to \in Tasks, NEW id \in PlainIds, NEW v, Beside(v)
      PROVE  Beside(Post(v, Msg(to, id)))
  <2>1. Msg(to, id) \in Untimed
    BY MsgIsUntimed
  <2> QED
    BY <1>1, <2>1, PostBeside
<1>2. \A e \in Envs : Beside([w EXCEPT !.env = e])
  BY <1>0, MoveBeside
<1>3. ASSUME NEW input \in Buttons, Press(input) PROVE IInv'
  <2>1. input \in PlainIds /\ HeadsetTask \in Tasks
    BY InputsAssumption DEF PlainIds, Tasks
  <2>2. Become(Post(w, Msg(HeadsetTask, input)))
    BY <1>3 DEF Press, Move, Outside
  <2> HIDE DEF w
  <2> QED
    BY <1>0, <1>1, <2>1, <2>2
<1>4. ASSUME NEW end \in Cables \ {"none"}, CablePlugged(end) PROVE IInv'
  <2> DEFINE e == [env EXCEPT !.cable = end]
             v == [w EXCEPT !.env = e]
  <2>1. e \in Envs
    BY <1>0, InputsAssumption DEF Envs, Ends
  <2>2. Become(Post(v, Msg("power", "EVENT")))
    <3>1. v = [World EXCEPT !.env.cable = end]
      BY <1>0 DEF Worlds
    <3> QED
      BY <1>4, <3>1 DEF CablePlugged, Move, Outside
  <2>3. "power" \in Tasks /\ "EVENT" \in PlainIds
    BY DEF Tasks, PlainIds
  <2> HIDE DEF w, e
  <2>4. Beside(v)
    BY <1>2, <2>1
  <2> HIDE DEF v
  <2> QED
    BY <1>0, <1>1, <2>2, <2>3, <2>4
<1>5. CASE CablePulled
  <2> DEFINE e == [env EXCEPT !.cable = "none"]
             v == [w EXCEPT !.env = e]
             a == Post(v, Msg("power", "EVENT"))
             b == Post(a, Msg(HeadsetTask, "CHARGER_DETACHED"))
  <2>1. e \in Envs
    BY <1>0 DEF Envs, Ends
  <2>2. Become(LeaveBus(b))
    <3>1. v = [World EXCEPT !.env.cable = "none"]
      BY <1>0 DEF Worlds
    <3> QED
      BY <1>5, <3>1 DEF CablePulled, Move, Outside
  <2>3. /\ "power" \in Tasks /\ "EVENT" \in PlainIds
        /\ HeadsetTask \in Tasks /\ "CHARGER_DETACHED" \in PlainIds
    BY DEF Tasks, PlainIds
  <2> HIDE DEF w, e
  <2>4. Beside(v)
    BY <1>2, <2>1
  <2> HIDE DEF v
  <2>5. Beside(a)
    BY <1>1, <2>3, <2>4
  <2> HIDE DEF a
  <2>6. Beside(b)
    BY <1>1, <2>3, <2>5
  <2> HIDE DEF b
  <2>7. Beside(LeaveBus(b))
    BY <2>6, LeaveBusKeeps DEF Beside
  <2> QED
    BY <1>0, <2>2, <2>7
<1>6. CASE BatteryMoves
  <2> DEFINE e == [env EXCEPT !.unsafe = ~env.unsafe]
             v == [w EXCEPT !.env = e]
  <2>1. e \in Envs
    <3>1. (~env.unsafe) \in BOOLEAN
      BY <1>0, Zenon
    <3> QED
      BY <1>0, <3>1 DEF Envs
  <2>2. Become(Post(v, Msg("power", "EVENT")))
    <3>1. v = [World EXCEPT !.env.unsafe = ~@]
      BY <1>0 DEF Worlds
    <3> QED
      BY <1>6, <3>1 DEF BatteryMoves, Move, Outside
  <2>3. "power" \in Tasks /\ "EVENT" \in PlainIds
    BY DEF Tasks, PlainIds
  <2> HIDE DEF w, e
  <2>4. Beside(v)
    BY <1>2, <2>1
  <2> HIDE DEF v
  <2> QED
    BY <1>0, <1>1, <2>2, <2>3, <2>4
<1>7. CASE LinkComesUp
  <2> DEFINE e == [env EXCEPT !.linked = TRUE]
             v == [w EXCEPT !.env = e]
  <2>1. e \in Envs
    BY <1>0 DEF Envs
  <2>2. Become(Post(v, Msg(HeadsetTask, "CONNECTED_IND")))
    <3>1. v = [World EXCEPT !.env.linked = TRUE]
      BY <1>0 DEF Worlds
    <3> QED
      BY <1>7, <3>1 DEF LinkComesUp, Move, Outside
  <2>3. HeadsetTask \in Tasks /\ "CONNECTED_IND" \in PlainIds
    BY DEF Tasks, PlainIds
  <2> HIDE DEF w, e
  <2>4. Beside(v)
    BY <1>2, <2>1
  <2> HIDE DEF v
  <2> QED
    BY <1>0, <1>1, <2>2, <2>3, <2>4
<1>8. CASE LinkIsLost
  <2>1. Become(LinkGone(w))
    BY <1>8 DEF LinkIsLost, Move, Outside
  <2> HIDE DEF w
  <2> QED
    BY <1>0, <2>1, LinkGoneBeside
<1>9. CASE AudioMoves
  <2> DEFINE e == [env EXCEPT !.audio = ~env.audio]
             v == [w EXCEPT !.env = e]
  <2>1. e \in Envs
    <3>1. (~env.audio) \in BOOLEAN
      BY <1>0, Zenon
    <3> QED
      BY <1>0, <3>1 DEF Envs
  <2>2. Become(Post(v, Msg(HeadsetTask, "AUDIO_IND")))
    <3>1. v = [World EXCEPT !.env.audio = ~@]
      BY <1>0 DEF Worlds
    <3> QED
      BY <1>9, <3>1 DEF AudioMoves, Move, Outside
  <2>3. HeadsetTask \in Tasks /\ "AUDIO_IND" \in PlainIds
    BY DEF Tasks, PlainIds
  <2> HIDE DEF w, e
  <2>4. Beside(v)
    BY <1>2, <2>1
  <2> HIDE DEF v
  <2> QED
    BY <1>0, <1>1, <2>2, <2>3, <2>4
<1> QED
  BY <1>3, <1>4, <1>5, <1>6, <1>7, <1>8, <1>9

\* What another module or the hardware has begun comes to an end.
LEMMA EndsKeep ==
  ASSUME IInv,
         \/ UsbAttaches \/ HostEnumerates \/ PromptEnds \/ StopScriptEnds
         \/ \E success \in BOOLEAN : PairingEnds(success)
         \/ \E status \in {"success", "failed"} : DisconnectEnds(status)
  PROVE  IInv'
<1> DEFINE w == World
<1>0. /\ Beside(w) /\ w \in Worlds /\ w.env = env /\ env \in Envs /\ w.topo = topo
      /\ topo \in Topos /\ w.usb = usb /\ usb \in Usbs
      /\ \A v : Beside(v) /\ Become(v) => IInv'
  BY BesideIs DEF IInv, Base, Worlds, World
<1>1. ASSUME NEW to \in Tasks, NEW id \in PlainIds, NEW v, Beside(v)
      PROVE  Beside(Post(v, Msg(to, id)))
  <2>1. Msg(to, id) \in Untimed
    BY MsgIsUntimed
  <2> QED
    BY <1>1, <2>1, PostBeside
<1>2. /\ \A e \in Envs : Beside([w EXCEPT !.env = e])
      /\ \A u \in Usbs : Beside([w EXCEPT !.usb = u])
  BY <1>0, MoveBeside
<1>3. ASSUME NEW status \in {"success", "failed"}, NEW v, Beside(v)
      PROVE  Beside(Post(v, TopologyDisconnected(status)))
  <2>1. TopologyDisconnected(status) \in Untimed
    BY DEF TopologyDisconnected, Untimed, Reports
  <2> QED
    BY <1>3, <2>1, PostBeside
<1>4. CASE UsbAttaches
  <2> DEFINE u == [usb EXCEPT !.attached = TRUE]
             v == [w EXCEPT !.usb = u]
  <2>1. u \in Usbs
    BY <1>0 DEF Usbs
  <2>2. Become(v)
    <3>1. v = [World EXCEPT !.usb.attached = TRUE]
      BY <1>0 DEF Worlds
    <3> QED
      BY <1>4, <3>1 DEF UsbAttaches, Happens, Outside
  <2> HIDE DEF w, u
  <2> QED
    BY <1>0, <1>2, <2>1, <2>2
<1>5. CASE HostEnumerates
  <2> DEFINE u == [usb EXCEPT !.enumerated = TRUE]
             v == [w EXCEPT !.usb = u]
  <2>1. u \in Usbs
    BY <1>0 DEF Usbs
  <2>2. Become(Post(v, Msg("wired", "ENUMERATED")))
    <3>1. v = [World EXCEPT !.usb.enumerated = TRUE]
      BY <1>0 DEF Worlds
    <3> QED
      BY <1>5, <3>1 DEF HostEnumerates, Happens, Outside
  <2>3. "wired" \in Tasks /\ "ENUMERATED" \in PlainIds
    BY DEF Tasks, PlainIds
  <2> HIDE DEF w, u
  <2>4. Beside(v)
    BY <1>2, <2>1
  <2> HIDE DEF v
  <2> QED
    BY <1>0, <1>1, <2>2, <2>3, <2>4
<1>6. CASE PromptEnds
  <2> DEFINE e == [env EXCEPT !.prompting = FALSE]
             v == [w EXCEPT !.env = e]
  <2>1. e \in Envs
    BY <1>0 DEF Envs
  <2>2. Become(Post(v, Msg("transition", "PROMPT_COMPLETED")))
    <3>1. v = [World EXCEPT !.env.prompting = FALSE]
      BY <1>0 DEF Worlds
    <3> QED
      BY <1>6, <3>1 DEF PromptEnds, Happens, Outside
  <2>3. "transition" \in Tasks /\ "PROMPT_COMPLETED" \in PlainIds
    BY DEF Tasks, PlainIds
  <2> HIDE DEF w, e
  <2>4. Beside(v)
    BY <1>2, <2>1
  <2> HIDE DEF v
  <2> QED
    BY <1>0, <1>1, <2>2, <2>3, <2>4
<1>7. ASSUME NEW success \in BOOLEAN, PairingEnds(success) PROVE IInv'
  <2> DEFINE e == [env EXCEPT !.pairing = FALSE, !.paired = env.paired \/ success]
             v == [w EXCEPT !.env = e]
  <2>1. e \in Envs
    <3>1. (env.paired \/ success) \in BOOLEAN
      BY <1>0, Zenon
    <3> QED
      BY <1>0, <3>1 DEF Envs
  <2>2. Become(Post(v, Msg(HeadsetTask, "PAIR_CFM")))
    <3>1. v = [World EXCEPT !.env.pairing = FALSE, !.env.paired = @ \/ success]
      BY <1>0 DEF Worlds, Envs
    <3> QED
      BY <1>7, <3>1 DEF PairingEnds, Happens, Outside
  <2>3. HeadsetTask \in Tasks /\ "PAIR_CFM" \in PlainIds
    BY DEF Tasks, PlainIds
  <2> HIDE DEF w, e
  <2>4. Beside(v)
    BY <1>2, <2>1
  <2> HIDE DEF v
  <2> QED
    BY <1>0, <1>1, <2>2, <2>3, <2>4
<1>8. CASE StopScriptEnds
  <2> DEFINE gone == LinkGone(w)
             t == [topo EXCEPT !.stopping = FALSE]
             v == [gone EXCEPT !.topo = t]
             a == Post(v, TopologyDisconnected("success"))
  <2>1. /\ t \in Topos /\ t.state = topo.state /\ t.app_task = topo.app_task
    BY <1>0 DEF Topos
  <2>2. Beside(gone) /\ gone.topo = topo
    <3> HIDE DEF w
    <3> QED
      BY <1>0, LinkGoneBeside
  <2>3. gone \in Worlds
    BY <2>2 DEF Beside, Base
  <2>4. Become(Post(a, Msg(TopologyTask, "STOP_FINISHED")))
    <3>1. Become(Post(Post([gone EXCEPT !.topo.stopping = FALSE], TopologyDisconnected("success")),
                      Msg(TopologyTask, "STOP_FINISHED")))
      BY <1>8 DEF StopScriptEnds, Happens, Outside
    <3> HIDE DEF gone
    <3>2. v = [gone EXCEPT !.topo.stopping = FALSE]
      BY <2>2, <2>3 DEF Worlds
    <3> QED
      BY <3>1, <3>2
  <2>5. TopologyTask \in Tasks /\ "STOP_FINISHED" \in PlainIds
    BY DEF Tasks, PlainIds
  <2> HIDE DEF gone, t
  <2>6. Beside(v)
    BY <2>1, <2>2, MoveBeside
  <2> HIDE DEF v
  <2>7. Beside(a)
    BY <1>3, <2>6
  <2> HIDE DEF a
  <2> QED
    BY <1>0, <1>1, <2>4, <2>5, <2>7
<1>9. ASSUME NEW status \in {"success", "failed"}, DisconnectEnds(status) PROVE IInv'
  <2> DEFINE gone == IF status = "success" THEN LinkGone(w) ELSE w
             t == [topo EXCEPT !.disconnecting = FALSE]
             v == [gone EXCEPT !.topo = t]
  <2>1. /\ t \in Topos /\ t.state = topo.state /\ t.app_task = topo.app_task
    BY <1>0 DEF Topos
  <2>2. Beside(gone) /\ gone.topo = topo
    <3> HIDE DEF w
    <3> QED
      BY <1>0, LinkGoneBeside
  <2>3. gone \in Worlds
    BY <2>2 DEF Beside, Base
  <2>4. Become(Post(v, TopologyDisconnected(status)))
    <3>1. Become(Post([gone EXCEPT !.topo.disconnecting = FALSE], TopologyDisconnected(status)))
      BY <1>9 DEF DisconnectEnds, Happens, Outside
    <3> HIDE DEF gone
    <3>2. v = [gone EXCEPT !.topo.disconnecting = FALSE]
      BY <2>2, <2>3 DEF Worlds
    <3> QED
      BY <3>1, <3>2
  <2> HIDE DEF gone, t
  <2>5. Beside(v)
    BY <2>1, <2>2, MoveBeside
  <2> HIDE DEF v
  <2> QED
    BY <1>0, <1>3, <2>4, <2>5
<1> QED
  BY <1>4, <1>5, <1>6, <1>7, <1>8, <1>9

---------------------------------------------------------------------------
(* The specification.                                                      *)

\* The start up has just ended, and its message is on its way.
LEMMA InitIsGood ==
  ASSUME Init
  PROVE  IInv
<1>1. World \in Worlds
  <2>1. sm \in Sms
    BY InputsAssumption DEF Init, Sms, SmStates
  <2>2. wired \in Wireds /\ topo \in Topos /\ usb \in Usbs
    BY DEF Init, Wireds, Topos, TopoStates, Usbs
  <2>3. ss \in S!Context
    BY DEF Init, S!Context, S!States, S!StableStates, S!TransitionNames
  <2>4. p \in P!PowerContext
    <3> DEFINE both == {TopologyTask, HeadsetTask}
               one  == {TopologyTask}
    <3>1. p = [state |-> "OK", user_initiated_shutdown |-> FALSE, init_complete |-> TRUE,
               clients |-> both, allow_sleep |-> one,
               shutdown_pending |-> {}, sleep_pending |-> {}]
      BY DEF Init, P!PowerInit
    <3>2. both \in SUBSET {TopologyTask, HeadsetTask} /\ one \in SUBSET {TopologyTask, HeadsetTask}
          /\ {} \in SUBSET {TopologyTask, HeadsetTask}
      OBVIOUS
    <3> HIDE DEF both, one
    <3> QED
      BY <3>1, <3>2 DEF P!PowerContext, P!PowerStateNames
  <2>5. queue \in Seq(Messages)
    <3>1. queue = <<StartUp>> /\ StartUp \in Messages
      BY DEF Init, StartUp, ChangeMessage, Messages
    <3> HIDE DEF Init
    <3> QED
      BY <3>1
  <2>6. timers \in [TimerIds -> Nat]
    BY DEF Init
  <2>7. env \in Envs
    BY InputsAssumption DEF Init, Envs, Ends
  <2>8. power \in {"on", "off", "reboot", "panic"}
    BY DEF Init
  <2> QED
    BY <2>1, <2>2, <2>3, <2>4, <2>5, <2>6, <2>7, <2>8 DEF World, Worlds
<1>2. /\ DOMAIN queue = {1} /\ queue[1] = StartUp /\ StartUp.id = "STATE_CHANGE"
  BY DEF Init, StartUp, ChangeMessage
<1>3. /\ sm.state = "NULL" /\ topo.state = "STOPPED" /\ ss.state = "limbo" /\ power = "on"
      /\ \A id \in TimerIds : timers[id] = 0
  BY DEF Init
<1>4. /\ World.queue = queue /\ World.sm = sm /\ World.topo = topo /\ World.ss = ss
      /\ World.power = power /\ World.timers = timers
  BY DEF World
<1>5. TimersOK(World)
  BY <1>2, <1>3, <1>4 DEF TimersOK, Pends, Queued, TimedIds, TimerIds
<1>6. Base(World)
  BY <1>1, <1>3, <1>4, <1>5 DEF Base, AskerKnown, Up
<1>7. StartsOnce
  BY <1>2, <1>3 DEF StartsOnce
<1> QED
  BY <1>6, <1>7 DEF IInv

\* Every step keeps the invariant.
LEMMA NextKeepsIInv ==
  ASSUME IInv, [Next]_vars
  PROVE  IInv'
<1>1. CASE Deliver
  BY <1>1, InputsKeep, NewsKeep, LinksKeep, TopologyKeeps, TransitionKeeps DEF Deliver
<1>2. CASE Progress
  BY <1>2, TimerKeeps, EndsKeep DEF Progress
<1>3. CASE Next /\ ~Deliver /\ ~Progress
  BY <1>3, MovesKeep DEF Next
<1>4. CASE UNCHANGED vars
  <2>1. World' = World /\ queue' = queue /\ sm' = sm
    BY <1>4 DEF vars, World
  <2> QED
    BY <2>1 DEF IInv, StartsOnce
<1> QED
  BY <1>1, <1>2, <1>3, <1>4

\* What holds of the headset's control whatever is pressed, plugged, lost or
\* timed out, in whatever order the messages of its modules are delivered.
THEOREM HeadsetInvariant == Spec => []IInv
<1>1. Init => IInv
  BY InitIsGood
<1>2. IInv /\ [Next]_vars => IInv'
  BY NextKeepsIInv
<1> QED
  BY <1>1, <1>2, PTL DEF Spec

\* Type correctness: of the timers that belong to a state there is never more
\* than one of each.
THEOREM HeadsetTypes == Spec => []TypeOK
<1>1. IInv => TypeOK
  <2> SUFFICES ASSUME IInv PROVE TypeOK
    OBVIOUS
  <2>1. World \in Worlds /\ TimersOK(World)
    BY DEF IInv, Base
  <2>2. /\ sm \in Sms /\ ss \in S!Context /\ p \in P!PowerContext /\ topo \in Topos
        /\ timers \in [TimerIds -> Nat] /\ power \in {"on", "off", "reboot", "panic"}
    BY <2>1 DEF World, Worlds
  <2>3. \A id \in TimerIds \ {"TIMEOUT_LINK"} : timers[id] \in {0, 1}
    BY <2>1 DEF World, TimersOK, TimedIds, TimerIds
  <2> QED
    BY <2>2, <2>3 DEF TypeOK, Sms, SmStates, Topos, TopoStates, StopTasks
<1> QED
  BY <1>1, HeadsetInvariant, PTL

\* No timer outlives what it was started for, not even one that has come due
\* and waits behind other messages (headsetExitLimbo, headsetExitIdle and
\* StereoTopology_SendStopCfm cancel them).
THEOREM TimersEndWithTheirState == Spec => []TimersBelongToState
<1>1. IInv => TimersBelongToState
  BY DEF IInv, Base, TimersOK, Pends, TimersBelongToState, Pending, World
<1> QED
  BY <1>1, HeadsetInvariant, PTL

\* No order of events leads to a confirmation without a task to send it to, or
\* to a second change to limbo.
THEOREM NothingPanics == Spec => []NoPanic
<1>1. IInv => NoPanic
  BY DEF IInv, Base, NoPanic, World
<1> QED
  BY <1>1, HeadsetInvariant, PTL
=============================================================================
