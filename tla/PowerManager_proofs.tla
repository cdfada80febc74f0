------------------------- MODULE PowerManager_proofs -------------------------
(***************************************************************************)
(* The safety properties of PowerManager, proved for any set of clients    *)
(* and any number of events and calls.                                     *)
(***************************************************************************)
EXTENDS PowerManager, Keeping_proofs

---------------------------------------------------------------------------
(* What a client has yet to hear, and what it will owe and believe when it *)
(* has heard it.                                                           *)

Indications == {"SHUTDOWN_PREPARE_IND", "SLEEP_PREPARE_IND"}
News == Messages4Clients \ {"POWER_OFF"}

WillOwe(s, owed)         == Request(LastOf(s, Indications, "none"), owed)
WillBelieve(s, believed) == Belief(believed, LastOf(s, News, "none"))

\* A client that has nothing to read owes and believes what it does now.
LEMMA HearNothing ==
  ASSUME NEW owed, NEW believed
  PROVE  WillOwe(<< >>, owed) = owed /\ WillBelieve(<< >>, believed) = believed
BY LastOfEmpty DEF WillOwe, WillBelieve, Request, Belief, Cancelled

\* One message more.
LEMMA HearMore ==
  ASSUME NEW s \in Seq(Messages4Clients), NEW m \in Messages4Clients, NEW owed, NEW believed
  PROVE  /\ WillOwe(Append(s, m), owed) = Request(m, WillOwe(s, owed))
         /\ WillBelieve(Append(s, m), believed) = Belief(WillBelieve(s, believed), m)
<1>1. WillOwe(Append(s, m), owed) = Request(m, WillOwe(s, owed))
  <2>1. LastOf(Append(s, m), Indications, "none")
          = IF m \in Indications THEN m ELSE LastOf(s, Indications, "none")
    BY LastOfAppend
  <2> QED
    BY <2>1 DEF WillOwe, Request, Indications
<1>2. WillBelieve(Append(s, m), believed) = Belief(WillBelieve(s, believed), m)
  <2>1. LastOf(Append(s, m), News, "none") = IF m \in News THEN m ELSE LastOf(s, News, "none")
    BY LastOfAppend
  <2> QED
    BY <2>1 DEF WillBelieve, Belief, Request, Cancelled, News, Messages4Clients
<1> QED
  BY <1>1, <1>2

\* More messages at the end of the queue.
LEMMA HearBoth ==
  ASSUME NEW s \in Seq(Messages4Clients), NEW t \in Seq(Messages4Clients), NEW owed, NEW believed
  PROVE  /\ WillOwe(s \o t, owed) = WillOwe(t, WillOwe(s, owed))
         /\ WillBelieve(s \o t, believed) = WillBelieve(t, WillBelieve(s, believed))
<1> DEFINE A == {u \in Seq(Messages4Clients) :
                   /\ WillOwe(s \o u, owed) = WillOwe(u, WillOwe(s, owed))
                   /\ WillBelieve(s \o u, believed) = WillBelieve(u, WillBelieve(s, believed))}
<1>1. << >> \in A
  BY HearNothing, EmptySeq, ConcatEmptySeq
<1>2. ASSUME NEW u \in Seq(Messages4Clients), NEW m \in Messages4Clients, u \in A
      PROVE  Append(u, m) \in A
  <2>1. Append(u, m) \in Seq(Messages4Clients)
    BY AppendProperties
  <2>2. s \o u \in Seq(Messages4Clients) /\ s \o Append(u, m) = Append(s \o u, m)
    BY <2>1, AppendIsConcat, ConcatProperties, ConcatAssociative
  <2>3. /\ WillOwe(Append(s \o u, m), owed) = Request(m, WillOwe(s \o u, owed))
        /\ WillBelieve(Append(s \o u, m), believed) = Belief(WillBelieve(s \o u, believed), m)
    BY <2>2, HearMore
  <2>4. /\ WillOwe(Append(u, m), WillOwe(s, owed)) = Request(m, WillOwe(u, WillOwe(s, owed)))
        /\ WillBelieve(Append(u, m), WillBelieve(s, believed))
             = Belief(WillBelieve(u, WillBelieve(s, believed)), m)
    BY HearMore
  <2> QED
    BY <1>2, <2>1, <2>2, <2>3, <2>4
<1>3. Seq(Messages4Clients) \subseteq A
  <2> HIDE DEF A
  <2> QED
    BY <1>1, <1>2, SequenceSetInduction
<1> QED
  BY <1>3

\* Reading the first message changes nothing of it.
LEMMA HearHead ==
  ASSUME NEW s \in Seq(Messages4Clients), s # << >>, NEW owed, NEW believed
  PROVE  /\ WillOwe(Tail(s), Request(Head(s), owed)) = WillOwe(s, owed)
         /\ WillBelieve(Tail(s), Belief(believed, Head(s))) = WillBelieve(s, believed)
<1> DEFINE h == Head(s)
           r == Tail(s)
           e == << >>
           one == <<h>>
<1>1. one \in Seq(Messages4Clients) /\ r \in Seq(Messages4Clients)
  BY HeadTailProperties
<1>2. h \in Messages4Clients /\ e \in Seq(Messages4Clients) /\ one = Append(e, h)
  BY HeadTailProperties
<1>3. s = one \o r
  BY HeadThenTail
<1>4. WillOwe(e, owed) = owed /\ WillBelieve(e, believed) = believed
  BY HearNothing
<1> HIDE DEF h, r, e, one
<1>5. WillOwe(one, owed) = Request(h, owed) /\ WillBelieve(one, believed) = Belief(believed, h)
  BY <1>2, <1>4, HearMore
<1>6. /\ WillOwe(one \o r, owed) = WillOwe(r, WillOwe(one, owed))
      /\ WillBelieve(one \o r, believed) = WillBelieve(r, WillBelieve(one, believed))
  BY <1>1, HearBoth
<1> QED
  BY <1>3, <1>5, <1>6 DEF h, r
---------------------------------------------------------------------------
(* What the effects of a call are for one client and for the power.        *)

Effects ==
       [kind : {"tell"}, to : SUBSET Clients, msg : Messages4Clients]
  \cup [kind : {"ask"}, what : {"shutdown", "emergency", "sleep"}]
  \cup [kind : {"init_cfm"}]

\* Messages told to a client, one after another call.
LEMMA ToldNothing ==
  ASSUME NEW c \in Clients
  PROVE  ToldTo(<< >>, c) = << >>
BY KeepEmpty DEF ToldTo

\* What a client is told is a sequence of messages.
LEMMA ToldIsSequence ==
  ASSUME NEW effects \in Seq(Effects), NEW c \in Clients
  PROVE  ToldTo(effects, c) \in Seq(Messages4Clients)
<1> DEFINE mine == Keep(effects, TellsOf(c))
<1>1. mine \in Seq(Effects \cap TellsOf(c))
  BY KeepType
<1> HIDE DEF mine
<1>2. /\ Len(mine) \in Nat /\ DOMAIN mine = 1 .. Len(mine)
      /\ \A n \in 1 .. Len(mine) : mine[n] \in TellsOf(c)
  BY <1>1, LenProperties, ElementOfSeq
<1>3. \A n \in 1 .. Len(mine) : mine[n].msg \in Messages4Clients
  BY <1>2 DEF TellsOf
<1>4. [n \in 1 .. Len(mine) |-> mine[n].msg] \in Seq(Messages4Clients)
  BY <1>2, <1>3, SeqDef
<1> QED
  BY <1>2, <1>4 DEF ToldTo, mine

\* What a client is told by two lists of effects, it is told in their order.
LEMMA ToldBoth ==
  ASSUME NEW e \in Seq(Effects), NEW f \in Seq(Effects), NEW c \in Clients
  PROVE  ToldTo(e \o f, c) = ToldTo(e, c) \o ToldTo(f, c)
<1> DEFINE k == Keep(e, TellsOf(c))
           l == Keep(f, TellsOf(c))
<1>1. k \in Seq(Effects) /\ l \in Seq(Effects) /\ Keep(e \o f, TellsOf(c)) = k \o l
  <2>1. k \in Seq(Effects) /\ l \in Seq(Effects)
    BY KeepPart
  <2>2. Keep(e \o f, TellsOf(c)) = Keep(e, TellsOf(c)) \o Keep(f, TellsOf(c))
    BY KeepConcat
  <2> QED
    BY <2>1, <2>2
<1>2. ToldTo(e, c) \in Seq(Messages4Clients) /\ ToldTo(f, c) \in Seq(Messages4Clients)
  BY ToldIsSequence
<1>3. /\ ToldTo(e, c) = [n \in DOMAIN k |-> k[n].msg]
      /\ ToldTo(f, c) = [n \in DOMAIN l |-> l[n].msg]
      /\ ToldTo(e \o f, c) = [n \in DOMAIN (k \o l) |-> (k \o l)[n].msg]
  BY <1>1 DEF ToldTo
<1> HIDE DEF k, l
<1> DEFINE a == ToldTo(e, c)
           b == ToldTo(f, c)
<1>4. /\ Len(k) \in Nat /\ Len(l) \in Nat
      /\ DOMAIN k = 1 .. Len(k) /\ DOMAIN l = 1 .. Len(l)
      /\ DOMAIN (k \o l) = 1 .. Len(k) + Len(l)
      /\ \A n \in 1 .. Len(k) + Len(l) :
           (k \o l)[n] = IF n <= Len(k) THEN k[n] ELSE l[n - Len(k)]
  BY <1>1, LenProperties, ConcatProperties
<1>5. Len(a) = Len(k) /\ Len(b) = Len(l)
  BY <1>2, <1>3, <1>4, LenProperties
<1>6. /\ a \o b = [n \in 1 .. Len(k) + Len(l) |-> (a \o b)[n]]
      /\ \A n \in 1 .. Len(k) + Len(l) :
           (a \o b)[n] = IF n <= Len(k) THEN a[n] ELSE b[n - Len(k)]
  <2> HIDE DEF a, b
  <2>1. a \in Seq(Messages4Clients) /\ b \in Seq(Messages4Clients)
    BY <1>2 DEF a, b
  <2> QED
    <3>1. a \o b \in Seq(Messages4Clients) /\ Len(a \o b) = Len(k) + Len(l)
      <4>1. a \o b \in Seq(Messages4Clients) /\ Len(a \o b) = Len(a) + Len(b)
        BY <2>1, ConcatProperties
      <4> QED
        BY <1>5, <4>1
    <3>2. a \o b \in [1 .. Len(k) + Len(l) -> Messages4Clients]
      BY <3>1, LenProperties
    <3>3. \A n \in 1 .. Len(k) + Len(l) :
            (a \o b)[n] = IF n <= Len(k) THEN a[n] ELSE b[n - Len(k)]
      <4>1. \A n \in 1 .. Len(a) + Len(b) :
              (a \o b)[n] = IF n <= Len(a) THEN a[n] ELSE b[n - Len(a)]
        BY <2>1, ConcatProperties
      <4> QED
        BY <1>5, <4>1
    <3> QED
      BY <3>2, <3>3
<1>7. \A n \in 1 .. Len(k) + Len(l) : (k \o l)[n].msg = (a \o b)[n]
  <2> SUFFICES ASSUME NEW n \in 1 .. Len(k) + Len(l) PROVE (k \o l)[n].msg = (a \o b)[n]
    OBVIOUS
  <2>1. CASE n <= Len(k)
    <3>1. n \in 1 .. Len(k)
      BY <1>4, <2>1
    <3>2. a[n] = k[n].msg
      BY <1>3, <1>4, <3>1
    <3> HIDE DEF a, b
    <3> QED
      BY <1>4, <1>6, <2>1, <3>2
  <2>2. CASE ~(n <= Len(k))
    <3>1. n - Len(k) \in 1 .. Len(l)
      BY <1>4, <2>2
    <3>2. b[n - Len(k)] = l[n - Len(k)].msg
      BY <1>3, <1>4, <3>1
    <3> HIDE DEF a, b
    <3> QED
      BY <1>4, <1>6, <2>2, <3>2
  <2> QED
    BY <2>1, <2>2
<1>8. ToldTo(e \o f, c) = [n \in 1 .. Len(k) + Len(l) |-> (k \o l)[n].msg]
  BY <1>3, <1>4
<1> HIDE DEF a, b
<1> QED
  BY <1>6, <1>7, <1>8 DEF a, b

\* One effect tells a client its message or nothing.
LEMMA ToldOne ==
  ASSUME NEW x \in Effects, NEW c \in Clients
  PROVE  ToldTo(<<x>>, c) = IF x.kind = "tell" /\ c \in x.to THEN <<x.msg>> ELSE << >>
<1> DEFINE e == << >>
<1>1. e \in Seq(Effects) /\ <<x>> = Append(e, x) /\ Keep(e, TellsOf(c)) = e
  BY KeepEmpty
<1> HIDE DEF e
<1>2. Keep(Append(e, x), TellsOf(c)) = IF x \in TellsOf(c) THEN Append(e, x) ELSE e
  BY <1>1, KeepAppend
<1>3. x \in TellsOf(c) <=> x.kind = "tell" /\ c \in x.to
  BY DEF Effects, TellsOf
<1>4. Keep(<<x>>, TellsOf(c)) = IF x \in TellsOf(c) THEN <<x>> ELSE << >>
  BY <1>1, <1>2 DEF e
<1> QED
  BY <1>3, <1>4 DEF ToldTo

\* What a client owes and believes after it heard the effects of a call.
LEMMA HearOne ==
  ASSUME NEW x \in Effects, NEW c \in Clients, NEW owed, NEW believed
  PROVE  LET told == x.kind = "tell" /\ c \in x.to
         IN  /\ WillOwe(ToldTo(<<x>>, c), owed) = IF told THEN Request(x.msg, owed) ELSE owed
             /\ WillBelieve(ToldTo(<<x>>, c), believed)
                  = IF told THEN Belief(believed, x.msg) ELSE believed
<1>1. CASE x.kind = "tell" /\ c \in x.to
  <2> DEFINE e == << >>
             m == x.msg
  <2>1. m \in Messages4Clients /\ e \in Seq(Messages4Clients) /\ ToldTo(<<x>>, c) = Append(e, m)
    <3>1. ToldTo(<<x>>, c) = <<m>>
      BY <1>1, ToldOne
    <3>2. m \in Messages4Clients
      BY <1>1 DEF Effects
    <3> QED
      BY <3>1, <3>2
  <2>2. WillOwe(e, owed) = owed /\ WillBelieve(e, believed) = believed
    BY HearNothing
  <2> HIDE DEF e, m
  <2>3. /\ WillOwe(Append(e, m), owed) = Request(m, owed)
        /\ WillBelieve(Append(e, m), believed) = Belief(believed, m)
    BY <2>1, <2>2, HearMore
  <2> QED
    BY <1>1, <2>1, <2>3 DEF m
<1>2. CASE ~(x.kind = "tell" /\ c \in x.to)
  BY <1>2, ToldOne, HearNothing
<1> QED
  BY <1>1, <1>2

\* Two lists of effects are heard one after the other.
LEMMA HearEffects ==
  ASSUME NEW e \in Seq(Effects), NEW f \in Seq(Effects), NEW c \in Clients,
         NEW owed, NEW believed
  PROVE  /\ WillOwe(ToldTo(e \o f, c), owed) = WillOwe(ToldTo(f, c), WillOwe(ToldTo(e, c), owed))
         /\ WillBelieve(ToldTo(e \o f, c), believed)
              = WillBelieve(ToldTo(f, c), WillBelieve(ToldTo(e, c), believed))
<1>1. ToldTo(e, c) \in Seq(Messages4Clients) /\ ToldTo(f, c) \in Seq(Messages4Clients)
  BY ToldIsSequence
<1>2. ToldTo(e \o f, c) = ToldTo(e, c) \o ToldTo(f, c)
  BY ToldBoth
<1> DEFINE s == ToldTo(e, c)
           t == ToldTo(f, c)
<1> HIDE DEF s, t
<1>3. /\ WillOwe(s \o t, owed) = WillOwe(t, WillOwe(s, owed))
      /\ WillBelieve(s \o t, believed) = WillBelieve(t, WillBelieve(s, believed))
  <2>1. s \in Seq(Messages4Clients) /\ t \in Seq(Messages4Clients)
    BY <1>1 DEF s, t
  <2> QED
    BY <2>1, HearBoth
<1> QED
  BY <1>2, <1>3 DEF s, t

\* What system_state is asked for by the effects of a call.
LEMMA AskedOne ==
  ASSUME NEW x
  PROVE  Asked(<<x>>) = IF x.kind = "ask" THEN {x.what} ELSE {}
BY DEF Asked

\* Where there is no effect, system_state is asked for nothing.
LEMMA AskedNothing == Asked(<< >>) = {}
BY DEF Asked

\* Two lists of effects ask system_state for what each of them asks.
LEMMA AskedBoth ==
  ASSUME NEW e \in Seq(Effects), NEW f \in Seq(Effects)
  PROVE  Asked(e \o f) = Asked(e) \cup Asked(f)
<1>1. /\ Len(e) \in Nat /\ Len(f) \in Nat
      /\ DOMAIN e = 1 .. Len(e) /\ DOMAIN f = 1 .. Len(f)
      /\ DOMAIN (e \o f) = 1 .. Len(e) + Len(f)
      /\ \A n \in 1 .. Len(e) + Len(f) : (e \o f)[n] = IF n <= Len(e) THEN e[n] ELSE f[n - Len(e)]
  BY LenProperties, ConcatProperties
<1>2. Asked(e \o f) \subseteq Asked(e) \cup Asked(f)
  <2> SUFFICES ASSUME NEW n \in DOMAIN (e \o f), (e \o f)[n].kind = "ask"
               PROVE  (e \o f)[n].what \in Asked(e) \cup Asked(f)
    BY DEF Asked
  <2>1. CASE n <= Len(e)
    BY <1>1, <2>1 DEF Asked
  <2>2. CASE ~(n <= Len(e))
    <3>1. n - Len(e) \in DOMAIN f /\ f[n - Len(e)] = (e \o f)[n]
      BY <1>1, <2>2
    <3> QED
      BY <3>1 DEF Asked
  <2> QED
    BY <2>1, <2>2
<1>3. Asked(e) \subseteq Asked(e \o f)
  <2> SUFFICES ASSUME NEW n \in DOMAIN e, e[n].kind = "ask" PROVE e[n].what \in Asked(e \o f)
    BY DEF Asked
  <2>1. n \in DOMAIN (e \o f) /\ (e \o f)[n] = e[n]
    BY <1>1
  <2> QED
    BY <2>1 DEF Asked
<1>4. Asked(f) \subseteq Asked(e \o f)
  <2> SUFFICES ASSUME NEW n \in DOMAIN f, f[n].kind = "ask" PROVE f[n].what \in Asked(e \o f)
    BY DEF Asked
  <2>1. n + Len(e) \in DOMAIN (e \o f) /\ (e \o f)[n + Len(e)] = f[n]
    BY <1>1
  <2> QED
    BY <2>1 DEF Asked
<1> QED
  BY <1>2, <1>3, <1>4
---------------------------------------------------------------------------
(* The inductive invariant.                                                *)

\* What the power manager is doing, of a context.
ActivityOf(q) ==
  CASE q.state = "TERMINATING_NOTIFIED" -> "shutdown"
    [] q.state \in {"SOPORIFIC_NOTIFIED", "SOPORIFIC_RESPONDED"} -> "sleep"
    [] OTHER -> "normal"

\* The flags belong to the round that is under way; nobody registers in INIT.
RoundOK(q) ==
  /\ q.shutdown_pending \cup q.sleep_pending \subseteq q.clients
  /\ q.state = "TERMINATING_NOTIFIED" <=> q.shutdown_pending # {}
  /\ q.state = "SOPORIFIC_NOTIFIED" <=> q.sleep_pending # {}
  /\ q.user_initiated_shutdown => q.state = "TERMINATING_NOTIFIED"
  /\ q.state = "INIT" => q.clients = {}

\* What a client will owe and believe when its queue is empty agrees with the
\* flags and with the activity.
ClientOK(q, c, owed, believed) ==
  /\ c \in q.shutdown_pending => owed = "shutdown"
  /\ c \in q.sleep_pending => owed = "sleep"
  /\ believed \in IF c \in q.clients THEN {ActivityOf(q), "normal"} ELSE {"normal"}

\* Who has no flag in a shutdown round has answered in it.
Answered(q) ==
  IF q.state = "TERMINATING_NOTIFIED" THEN q.clients \ q.shutdown_pending ELSE {}

ClientsOK ==
  \A c \in Clients : ClientOK(p, c, WillOwe(mbox[c], owes[c]), WillBelieve(mbox[c], believes[c]))

IInv ==
  /\ TypeOK
  /\ RoundOK(p)
  /\ ClientsOK
  /\ Answered(p) \subseteq prepared

---------------------------------------------------------------------------
(* A call into the power manager keeps the context in order and tells each *)
(* client what keeps it in agreement.                                      *)

Sound(q, r) ==
  /\ r.p \in PowerContext /\ RoundOK(r.p)
  /\ r.effects \in Seq(Effects)
  /\ \A c \in Clients : \A owed, believed :
       ClientOK(q, c, owed, believed) =>
         ClientOK(r.p, c, WillOwe(ToldTo(r.effects, c), owed),
                          WillBelieve(ToldTo(r.effects, c), believed))

AsksOff(r) == Asked(r.effects) \cap {"shutdown", "emergency"} # {}

\* Calls one after the other
LEMMA ThenSound ==
  ASSUME NEW q, NEW r, NEW s, Sound(q, r), Sound(r.p, s)
  PROVE  /\ Sound(q, [p |-> s.p, effects |-> r.effects \o s.effects])
         /\ Asked(r.effects \o s.effects) = Asked(r.effects) \cup Asked(s.effects)
<1> DEFINE e == r.effects
           f == s.effects
<1>1. e \in Seq(Effects) /\ f \in Seq(Effects)
  BY DEF Sound
<1>2. e \o f \in Seq(Effects)
  <2> HIDE DEF e, f
  <2> QED
    BY <1>1, ConcatProperties
<1>3. ASSUME NEW c \in Clients, NEW owed, NEW believed, ClientOK(q, c, owed, believed)
      PROVE  ClientOK(s.p, c, WillOwe(ToldTo(e \o f, c), owed), WillBelieve(ToldTo(e \o f, c), believed))
  <2> DEFINE o == WillOwe(ToldTo(e, c), owed)
             b == WillBelieve(ToldTo(e, c), believed)
  <2>1. ClientOK(r.p, c, o, b)
    BY <1>3 DEF Sound
  <2>2. /\ WillOwe(ToldTo(e \o f, c), owed) = WillOwe(ToldTo(f, c), o)
        /\ WillBelieve(ToldTo(e \o f, c), believed) = WillBelieve(ToldTo(f, c), b)
    <3> HIDE DEF e, f
    <3> QED
      BY <1>1, HearEffects
  <2> HIDE DEF o, b
  <2>3. ClientOK(s.p, c, WillOwe(ToldTo(f, c), o), WillBelieve(ToldTo(f, c), b))
    BY <2>1 DEF Sound
  <2> QED
    BY <2>2, <2>3
<1>4. Asked(e \o f) = Asked(e) \cup Asked(f)
  <2> HIDE DEF e, f
  <2> QED
    BY <1>1, AskedBoth
<1>5. s.p \in PowerContext /\ RoundOK(s.p)
  BY DEF Sound
<1> HIDE DEF e, f
<1>6. Sound(q, [p |-> s.p, effects |-> e \o f])
  BY <1>2, <1>3, <1>5 DEF Sound
<1> QED
  BY <1>4, <1>6 DEF e, f

\* Nothing happens.
LEMMA OnlySound ==
  ASSUME NEW q, NEW n \in PowerContext, RoundOK(n),
         \A c \in Clients : \A owed, believed :
           ClientOK(q, c, owed, believed) => ClientOK(n, c, owed, believed)
  PROVE  Sound(q, Only(n)) /\ Only(n).p = n /\ Asked(Only(n).effects) = {}
<1>1. Only(n).p = n /\ Only(n).effects = << >>
  BY DEF Only
<1>2. << >> \in Seq(Effects) /\ Asked(<< >>) = {}
  BY AskedNothing
<1>3. \A c \in Clients : \A owed, believed :
        /\ WillOwe(ToldTo(<< >>, c), owed) = owed
        /\ WillBelieve(ToldTo(<< >>, c), believed) = believed
  BY ToldNothing, HearNothing
<1> QED
  BY <1>1, <1>2, <1>3 DEF Sound

\* One effect, whatever the state becomes.
LEMMA OneSound ==
  ASSUME NEW q, NEW n \in PowerContext, RoundOK(n), NEW x \in Effects,
         \A c \in Clients : \A owed, believed :
           ClientOK(q, c, owed, believed) =>
             IF x.kind = "tell" /\ c \in x.to
             THEN ClientOK(n, c, Request(x.msg, owed), Belief(believed, x.msg))
             ELSE ClientOK(n, c, owed, believed)
  PROVE  /\ Sound(q, [p |-> n, effects |-> <<x>>])
         /\ Asked(<<x>>) = IF x.kind = "ask" THEN {x.what} ELSE {}
<1> DEFINE e == <<x>>
<1>1. e \in Seq(Effects)
  OBVIOUS
<1>2. Asked(e) = IF x.kind = "ask" THEN {x.what} ELSE {}
  BY AskedOne
<1>3. \A c \in Clients : \A owed, believed :
        /\ WillOwe(ToldTo(e, c), owed)
             = IF x.kind = "tell" /\ c \in x.to THEN Request(x.msg, owed) ELSE owed
        /\ WillBelieve(ToldTo(e, c), believed)
             = IF x.kind = "tell" /\ c \in x.to THEN Belief(believed, x.msg) ELSE believed
  BY HearOne
<1> HIDE DEF e
<1>4. ASSUME NEW c \in Clients, NEW owed, NEW believed, ClientOK(q, c, owed, believed)
      PROVE  ClientOK(n, c, WillOwe(ToldTo(e, c), owed), WillBelieve(ToldTo(e, c), believed))
  BY <1>3, <1>4
<1>5. Sound(q, [p |-> n, effects |-> e])
  BY <1>1, <1>4 DEF Sound
<1> QED
  BY <1>2, <1>5 DEF e
---------------------------------------------------------------------------
(* The functions of PowerFlow.                                             *)

Idle(q) == q.shutdown_pending = {} /\ q.sleep_pending = {}

\* appPowerEnterTerminatingClientsResponded: system_state is asked only if the
\* charger allows it, and every client learns that the shutdown is over.
LEMMA TerminatingRespondedSound ==
  ASSUME NEW q \in PowerContext, NEW e \in Readings, Idle(q), q.state # "INIT"
  PROVE  LET r == EnterTerminatingResponded(q, e)
         IN  Sound(q, r) /\ (AsksOff(r) => e.can_power_off) /\ r.p.state = "OK"
                         /\ r.p.clients = q.clients /\ Idle(r.p)
<1> DEFINE n == EnterOk(q)
           x == Ask(IF q.user_initiated_shutdown THEN "shutdown" ELSE "emergency")
           y == Tell(q.clients, "SHUTDOWN_CANCELLED_IND")
           first == IF NeedsToPowerOff(q, e) THEN <<x>> ELSE << >>
           s == [p |-> n, effects |-> <<y>>]
<1>1. n \in PowerContext /\ RoundOK(n) /\ n.state = "OK" /\ n.clients = q.clients /\ Idle(n)
  BY DEF EnterOk, PowerContext, PowerStateNames, RoundOK, Idle
<1>2. x \in Effects /\ x.kind = "ask" /\ y \in Effects /\ y.kind = "tell" /\ y.to = q.clients
        /\ y.msg = "SHUTDOWN_CANCELLED_IND"
  BY DEF Ask, Tell, Effects, PowerContext, Messages4Clients
<1>3. \A c \in Clients : \A owed, believed :
        ClientOK(q, c, owed, believed) =>
          IF c \in q.clients
          THEN ClientOK(n, c, Request("SHUTDOWN_CANCELLED_IND", owed),
                              Belief(believed, "SHUTDOWN_CANCELLED_IND"))
          ELSE ClientOK(n, c, owed, believed)
  BY DEF ClientOK, EnterOk, Idle, Belief, Cancelled, ActivityOf, PowerContext
<1>4. first \in Seq(Effects) /\ (Asked(first) # {} => e.can_power_off)
  <2>1. CASE NeedsToPowerOff(q, e)
    <3>1. first = <<x>> /\ e.can_power_off
      BY <2>1 DEF NeedsToPowerOff
    <3> QED
      BY <1>2, <3>1
  <2>2. CASE ~NeedsToPowerOff(q, e)
    BY <2>2, AskedNothing
  <2> QED
    BY <2>1, <2>2
<1>5. \A c \in Clients : \A owed, believed :
        WillOwe(ToldTo(first, c), owed) = owed /\ WillBelieve(ToldTo(first, c), believed) = believed
  <2>1. CASE NeedsToPowerOff(q, e)
    <3>1. first = <<x>>
      BY <2>1
    <3> HIDE DEF first, x
    <3> QED
      BY <1>2, <3>1, HearOne
  <2>2. CASE ~NeedsToPowerOff(q, e)
    BY <2>2, ToldNothing, HearNothing
  <2> QED
    BY <2>1, <2>2
<1> HIDE DEF n, x, y, first
<1>6. Sound(q, s) /\ Asked(<<y>>) = {}
  BY <1>1, <1>2, <1>3, OneSound
<1> DEFINE l == <<y>>
<1>7. l \in Seq(Effects)
  BY <1>2
<1> HIDE DEF l
<1>8. /\ first \o l \in Seq(Effects)
      /\ Asked(first \o l) = Asked(first) \cup Asked(l)
      /\ \A c \in Clients : \A owed, believed :
           /\ WillOwe(ToldTo(first \o l, c), owed) = WillOwe(ToldTo(l, c), owed)
           /\ WillBelieve(ToldTo(first \o l, c), believed) = WillBelieve(ToldTo(l, c), believed)
  <2>1. first \o l \in Seq(Effects)
    BY <1>4, <1>7, ConcatProperties
  <2>2. Asked(first \o l) = Asked(first) \cup Asked(l)
    BY <1>4, <1>7, AskedBoth
  <2>3. ASSUME NEW c \in Clients, NEW owed, NEW believed
        PROVE  /\ WillOwe(ToldTo(first \o l, c), owed) = WillOwe(ToldTo(l, c), owed)
               /\ WillBelieve(ToldTo(first \o l, c), believed) = WillBelieve(ToldTo(l, c), believed)
    <3>1. /\ WillOwe(ToldTo(first \o l, c), owed) = WillOwe(ToldTo(l, c), WillOwe(ToldTo(first, c), owed))
          /\ WillBelieve(ToldTo(first \o l, c), believed)
               = WillBelieve(ToldTo(l, c), WillBelieve(ToldTo(first, c), believed))
      BY <1>4, <1>7, HearEffects
    <3> QED
      BY <1>5, <3>1
  <2> QED
    BY <2>1, <2>2, <2>3
<1>9. EnterTerminatingResponded(q, e) = [p |-> n, effects |-> first \o l]
  BY DEF EnterTerminatingResponded, n, first, l, x, y
<1>10. Sound(q, [p |-> n, effects |-> first \o l])
  BY <1>1, <1>6, <1>8 DEF Sound, l
<1>11. Asked(first \o l) # {} => e.can_power_off
  BY <1>4, <1>6, <1>8 DEF l
<1> DEFINE r == EnterTerminatingResponded(q, e)
<1>12. r.p = n /\ r.effects = first \o l
  BY <1>9
<1>13. Sound(q, r)
  BY <1>9, <1>10
<1>14. AsksOff(r) => e.can_power_off
  BY <1>11, <1>12 DEF AsksOff
<1> QED
  BY <1>1, <1>12, <1>13, <1>14

\* appPowerEnterTerminatingClientsNotified
LEMMA TerminatingNotifiedSound ==
  ASSUME NEW q \in PowerContext, NEW e \in Readings, Idle(q), q.state = "OK"
  PROVE  LET r == EnterTerminatingNotified(q, e)
         IN  /\ Sound(q, r)
             /\ AsksOff(r) => e.can_power_off /\ q.clients = {}
             /\ r.p.state = "TERMINATING_NOTIFIED" => r.p.clients = r.p.shutdown_pending
<1>1. CASE q.clients = {}
  <2>1. EnterTerminatingNotified(q, e) = EnterTerminatingResponded(q, e)
    BY <1>1 DEF EnterTerminatingNotified
  <2> QED
    BY <1>1, <2>1, TerminatingRespondedSound
<1>2. CASE q.clients # {}
  <2> DEFINE n == [q EXCEPT !.state = "TERMINATING_NOTIFIED", !.shutdown_pending = q.clients]
             x == Tell(q.clients, "SHUTDOWN_PREPARE_IND")
             y == Tell(q.clients, "POWER_OFF")
             r == [p |-> n, effects |-> <<x>>]
             s == [p |-> n, effects |-> <<y>>]
  <2>1. n \in PowerContext /\ RoundOK(n) /\ n.clients = n.shutdown_pending
    BY <1>2 DEF PowerContext, PowerStateNames, RoundOK, Idle
  <2>2. /\ x \in Effects /\ x.kind = "tell" /\ x.to = q.clients /\ x.msg = "SHUTDOWN_PREPARE_IND"
        /\ y \in Effects /\ y.kind = "tell" /\ y.to = q.clients /\ y.msg = "POWER_OFF"
    BY DEF Tell, Effects, PowerContext, Messages4Clients
  <2>3. \A c \in Clients : \A owed, believed :
          ClientOK(q, c, owed, believed) =>
            IF c \in q.clients
            THEN ClientOK(n, c, Request("SHUTDOWN_PREPARE_IND", owed),
                                Belief(believed, "SHUTDOWN_PREPARE_IND"))
            ELSE ClientOK(n, c, owed, believed)
    BY DEF ClientOK, Idle, Belief, Request, Cancelled, ActivityOf, PowerContext
  <2>4. \A c \in Clients : \A owed, believed :
          Request("POWER_OFF", owed) = owed /\ Belief(believed, "POWER_OFF") = believed
    BY DEF Request, Belief, Cancelled
  <2>5. EnterTerminatingNotified(q, e) = [p |-> n, effects |-> <<x>> \o <<y>>]
    BY <1>2 DEF EnterTerminatingNotified
  <2> HIDE DEF n, x, y
  <2>6. Sound(q, r) /\ Asked(r.effects) = {}
    BY <2>1, <2>2, <2>3, OneSound
  <2>7. Sound(r.p, s) /\ Asked(s.effects) = {}
    BY <2>1, <2>2, <2>4, OneSound
  <2>8. /\ Sound(q, [p |-> s.p, effects |-> r.effects \o s.effects])
        /\ Asked(r.effects \o s.effects) = Asked(r.effects) \cup Asked(s.effects)
    <3> HIDE DEF r, s
    <3> QED
      BY <2>6, <2>7, ThenSound
  <2> QED
    BY <2>1, <2>5, <2>6, <2>7, <2>8 DEF AsksOff
<1> QED
  BY <1>1, <1>2

\* appPowerEnterSoporificClientsResponded
LEMMA SoporificRespondedSound ==
  ASSUME NEW q \in PowerContext, NEW e \in Readings, Idle(q), ~q.user_initiated_shutdown,
         \/ q.state = "SOPORIFIC_NOTIFIED"
         \/ q.state = "OK" /\ q.clients = {}
  PROVE  LET r == EnterSoporificResponded(q, e)
         IN  /\ Sound(q, r) /\ ~AsksOff(r) /\ Idle(r.p) /\ r.p.clients = q.clients
             /\ r.p.state \in {"OK", "SOPORIFIC_RESPONDED"}
<1>1. CASE CanSleep(q, e)
  <2> DEFINE n == [q EXCEPT !.state = "SOPORIFIC_RESPONDED"]
             x == Ask("sleep")
  <2>1. n \in PowerContext /\ RoundOK(n) /\ Idle(n) /\ n.clients = q.clients
          /\ n.state = "SOPORIFIC_RESPONDED"
    BY DEF PowerContext, PowerStateNames, RoundOK, Idle
  <2>2. x \in Effects /\ x.kind = "ask" /\ x.what = "sleep"
    BY DEF Ask, Effects
  <2>3. \A c \in Clients : \A owed, believed :
          ClientOK(q, c, owed, believed) => ClientOK(n, c, owed, believed)
    BY DEF ClientOK, Idle, ActivityOf, PowerContext
  <2>4. EnterSoporificResponded(q, e) = [p |-> n, effects |-> <<x>>]
    BY <1>1 DEF EnterSoporificResponded
  <2> HIDE DEF n, x
  <2>5. Sound(q, [p |-> n, effects |-> <<x>>]) /\ Asked(<<x>>) = {"sleep"}
    BY <2>1, <2>2, <2>3, OneSound
  <2> QED
    BY <2>1, <2>4, <2>5 DEF AsksOff
<1>2. CASE ~CanSleep(q, e)
  <2> DEFINE n == EnterOk(q)
             x == Tell(q.clients, "SLEEP_CANCELLED_IND")
  <2>1. n \in PowerContext /\ RoundOK(n) /\ Idle(n) /\ n.clients = q.clients /\ n.state = "OK"
    BY DEF EnterOk, PowerContext, PowerStateNames, RoundOK, Idle
  <2>2. x \in Effects /\ x.kind = "tell" /\ x.to = q.clients /\ x.msg = "SLEEP_CANCELLED_IND"
    BY DEF Tell, Effects, PowerContext, Messages4Clients
  <2>3. \A c \in Clients : \A owed, believed :
          ClientOK(q, c, owed, believed) =>
            IF c \in q.clients
            THEN ClientOK(n, c, Request("SLEEP_CANCELLED_IND", owed),
                                Belief(believed, "SLEEP_CANCELLED_IND"))
            ELSE ClientOK(n, c, owed, believed)
    BY DEF ClientOK, EnterOk, Idle, Belief, Cancelled, ActivityOf, PowerContext
  <2>4. EnterSoporificResponded(q, e) = [p |-> n, effects |-> <<x>>]
    BY <1>2 DEF EnterSoporificResponded
  <2> HIDE DEF n, x
  <2>5. Sound(q, [p |-> n, effects |-> <<x>>]) /\ Asked(<<x>>) = {}
    BY <2>1, <2>2, <2>3, OneSound
  <2> QED
    BY <2>1, <2>4, <2>5 DEF AsksOff
<1> QED
  BY <1>1, <1>2

\* appPowerEnterSoporificClientsNotified
LEMMA SoporificNotifiedSound ==
  ASSUME NEW q \in PowerContext, NEW e \in Readings, Idle(q), ~q.user_initiated_shutdown,
         q.state = "OK"
  PROVE  LET r == EnterSoporificNotified(q, e)
         IN  /\ Sound(q, r) /\ ~AsksOff(r) /\ r.p.clients = q.clients
             /\ r.p.state # "TERMINATING_NOTIFIED"
<1>1. CASE q.clients = {}
  <2>1. EnterSoporificNotified(q, e) = EnterSoporificResponded(q, e)
    BY <1>1 DEF EnterSoporificNotified
  <2> QED
    BY <1>1, <2>1, SoporificRespondedSound
<1>2. CASE q.clients # {}
  <2> DEFINE n == [q EXCEPT !.state = "SOPORIFIC_NOTIFIED", !.sleep_pending = q.clients]
             x == Tell(q.clients, "SLEEP_PREPARE_IND")
  <2>1. n \in PowerContext /\ RoundOK(n) /\ n.clients = q.clients /\ n.state = "SOPORIFIC_NOTIFIED"
    BY <1>2 DEF PowerContext, PowerStateNames, RoundOK, Idle
  <2>2. x \in Effects /\ x.kind = "tell" /\ x.to = q.clients /\ x.msg = "SLEEP_PREPARE_IND"
    BY DEF Tell, Effects, PowerContext, Messages4Clients
  <2>3. \A c \in Clients : \A owed, believed :
          ClientOK(q, c, owed, believed) =>
            IF c \in q.clients
            THEN ClientOK(n, c, Request("SLEEP_PREPARE_IND", owed),
                                Belief(believed, "SLEEP_PREPARE_IND"))
            ELSE ClientOK(n, c, owed, believed)
    BY DEF ClientOK, Idle, Belief, Request, Cancelled, ActivityOf, PowerContext
  <2>4. EnterSoporificNotified(q, e) = [p |-> n, effects |-> <<x>>]
    BY <1>2 DEF EnterSoporificNotified
  <2> HIDE DEF n, x
  <2>5. Sound(q, [p |-> n, effects |-> <<x>>]) /\ Asked(<<x>>) = {}
    BY <2>1, <2>2, <2>3, OneSound
  <2> QED
    BY <2>1, <2>4, <2>5 DEF AsksOff
<1> QED
  BY <1>1, <1>2

---------------------------------------------------------------------------
(* The entry points.  Beside what is said to the clients, a call keeps     *)
(* account of who has answered: ready are those who answer by it.          *)

Call(q, e, r, ready) ==
  /\ Sound(q, r)
  /\ Answered(r.p) \subseteq Answered(q) \cup ready
  /\ AsksOff(r) => e.can_power_off /\ q.clients \subseteq Answered(q) \cup ready

\* A call that tells nobody anything.
LEMMA OnlyCall ==
  ASSUME NEW q, NEW n \in PowerContext, RoundOK(n), NEW e, NEW ready,
         Answered(n) \subseteq Answered(q) \cup ready,
         \A c \in Clients : \A owed, believed :
           ClientOK(q, c, owed, believed) => ClientOK(n, c, owed, believed)
  PROVE  Call(q, e, Only(n), ready)
<1>1. Sound(q, Only(n)) /\ Only(n).p = n /\ Asked(Only(n).effects) = {}
  BY OnlySound
<1> QED
  BY <1>1 DEF Call, AsksOff

\* appPowerHandlePowerEvent
LEMMA PowerEventCall ==
  ASSUME NEW q \in PowerContext, NEW e \in Readings, RoundOK(q)
  PROVE  Call(q, e, PowerEvent(q, e), {})
<1> DEFINE r == PowerEvent(q, e)
<1> SUFFICES Call(q, e, r, {})
  OBVIOUS
<1>1. CASE q.state = "INIT"
  <2> DEFINE n == EnterOk(q)
             x == Ask("shutdown")
             y == InitCfm
             one == [p |-> n, effects |-> <<y>>]
             ask == [p |-> n, effects |-> <<x>>]
  <2>1. n \in PowerContext /\ RoundOK(n) /\ Answered(n) = {} /\ q.clients = {}
    BY <1>1 DEF EnterOk, PowerContext, PowerStateNames, RoundOK, Answered
  <2>2. x \in Effects /\ x.kind = "ask" /\ x.what = "shutdown" /\ y \in Effects /\ y.kind = "init_cfm"
    BY DEF Ask, InitCfm, Effects
  <2>3. \A c \in Clients : \A owed, believed :
          /\ ClientOK(q, c, owed, believed) => ClientOK(n, c, owed, believed)
          /\ ClientOK(n, c, owed, believed) => ClientOK(n, c, owed, believed)
    BY <1>1 DEF ClientOK, EnterOk, ActivityOf, PowerContext, RoundOK
  <2>4. r.p = n /\ r.effects = (IF NeedsToPowerOff(q, e) THEN <<x>> ELSE << >>) \o <<y>>
    BY <1>1 DEF PowerEvent
  <2>5. r = [p |-> n, effects |-> r.effects]
    BY <1>1 DEF PowerEvent
  <2> HIDE DEF n, x, y, r
  <2>6. Sound(q, one) /\ Sound(n, one) /\ Asked(<<y>>) = {}
    <3>1. Sound(q, one) /\ Asked(<<y>>) = {}
      BY <2>1, <2>2, <2>3, OneSound
    <3>2. Sound(n, one)
      BY <2>1, <2>2, <2>3, OneSound
    <3> QED
      BY <3>1, <3>2
  <2>7. CASE NeedsToPowerOff(q, e)
    <3>1. r.effects = <<x>> \o <<y>> /\ e.can_power_off
      BY <2>4, <2>7 DEF NeedsToPowerOff
    <3>2. Sound(q, ask) /\ ask.p = n
      BY <2>1, <2>2, <2>3, OneSound
    <3>3. Sound(q, [p |-> one.p, effects |-> ask.effects \o one.effects])
      <4> HIDE DEF ask, one
      <4>1. Sound(ask.p, one)
        BY <2>6, <3>2
      <4> QED
        BY <3>2, <4>1, ThenSound
    <3>4. Sound(q, r)
      BY <2>5, <3>1, <3>3
    <3> QED
      BY <2>1, <2>4, <3>1, <3>4 DEF Call
  <2>8. CASE ~NeedsToPowerOff(q, e)
    <3>1. r.effects = <<y>>
      BY <2>4, <2>8
    <3> QED
      BY <2>1, <2>4, <2>5, <2>6, <3>1 DEF Call, AsksOff
  <2> QED
    BY <2>7, <2>8
<1>2. CASE q.state = "OK" /\ NeedsToPowerOff(q, e)
  <2>1. r = EnterTerminatingNotified(q, e)
    BY <1>2 DEF PowerEvent
  <2>2. Idle(q)
    BY <1>2 DEF RoundOK, Idle
  <2>3. /\ Sound(q, r)
        /\ AsksOff(r) => e.can_power_off /\ q.clients = {}
        /\ r.p.state = "TERMINATING_NOTIFIED" => r.p.clients = r.p.shutdown_pending
    BY <1>2, <2>1, <2>2, TerminatingNotifiedSound
  <2> HIDE DEF r
  <2> QED
    BY <2>3 DEF Call, Answered
<1>3. CASE q.state = "OK" /\ ~NeedsToPowerOff(q, e) /\ AllAllowSleep(q) /\ CanSleep(q, e)
  <2>1. r = EnterSoporificNotified(q, e)
    BY <1>3 DEF PowerEvent
  <2>2. Idle(q) /\ ~q.user_initiated_shutdown
    BY <1>3 DEF RoundOK, Idle
  <2>3. Sound(q, r) /\ ~AsksOff(r) /\ r.p.state # "TERMINATING_NOTIFIED"
    BY <1>3, <2>1, <2>2, SoporificNotifiedSound
  <2> HIDE DEF r
  <2> QED
    BY <2>3 DEF Call, Answered
<1>4. CASE /\ q.state # "INIT"
           /\ ~(q.state = "OK" /\ NeedsToPowerOff(q, e))
           /\ ~(q.state = "OK" /\ ~NeedsToPowerOff(q, e) /\ AllAllowSleep(q) /\ CanSleep(q, e))
  <2>1. r = Only(q)
    BY <1>4 DEF PowerEvent
  <2> QED
    BY <2>1, OnlyCall
<1> HIDE DEF r
<1> QED
  BY <1>1, <1>2, <1>3, <1>4

\* appPowerInitComplete
LEMMA InitCompleteCall ==
  ASSUME NEW q \in PowerContext, NEW e \in Readings, RoundOK(q)
  PROVE  Call(q, e, InitComplete(q, e), {})
<1> DEFINE n == [q EXCEPT !.init_complete = TRUE]
           r == PowerEvent(n, e)
<1>1. n \in PowerContext /\ RoundOK(n)
  BY DEF PowerContext, RoundOK
<1>2. /\ n.clients = q.clients /\ Answered(n) = Answered(q)
      /\ \A c \in Clients : \A owed, believed :
           ClientOK(q, c, owed, believed) => ClientOK(n, c, owed, believed)
  BY DEF PowerContext, Answered, ClientOK, ActivityOf
<1>3. InitComplete(q, e) = r
  BY DEF InitComplete
<1> HIDE DEF n
<1>4. Call(n, e, r, {})
  BY <1>1, PowerEventCall
<1> HIDE DEF r
<1>5. Call(q, e, r, {})
  BY <1>2, <1>4 DEF Call, Sound
<1> QED
  BY <1>3, <1>5

\* appPowerOffRequest
LEMMA OffRequestCall ==
  ASSUME NEW q \in PowerContext, NEW e \in Readings, RoundOK(q)
  PROVE  Call(q, e, OffRequest(q, e), {})
<1>1. CASE e.can_power_off /\ q.state = "OK"
  <2> DEFINE n == [q EXCEPT !.user_initiated_shutdown = TRUE]
             r == EnterTerminatingNotified(n, e)
  <2>1. n \in PowerContext /\ Idle(n) /\ n.state = "OK" /\ n.clients = q.clients
    BY <1>1 DEF PowerContext, RoundOK, Idle
  <2>2. \A c \in Clients : \A owed, believed :
          ClientOK(q, c, owed, believed) => ClientOK(n, c, owed, believed)
    BY DEF PowerContext, ClientOK, ActivityOf
  <2>3. OffRequest(q, e) = r
    BY <1>1 DEF OffRequest
  <2> HIDE DEF n
  <2>4. /\ Sound(n, r)
        /\ AsksOff(r) => e.can_power_off /\ n.clients = {}
        /\ r.p.state = "TERMINATING_NOTIFIED" => r.p.clients = r.p.shutdown_pending
    BY <2>1, TerminatingNotifiedSound
  <2> HIDE DEF r
  <2>5. Call(q, e, r, {})
    BY <2>1, <2>2, <2>4 DEF Call, Sound, Answered
  <2> QED
    BY <2>3, <2>5
<1>2. CASE ~(e.can_power_off /\ q.state = "OK")
  <2>1. OffRequest(q, e) = Only(q)
    BY <1>2 DEF OffRequest
  <2> QED
    BY <2>1, OnlyCall
<1> QED
  BY <1>1, <1>2

\* appPowerClientRegister
LEMMA RegisterCall ==
  ASSUME NEW q \in PowerContext, NEW e \in Readings, RoundOK(q), NEW c \in Clients, q.state # "INIT"
  PROVE  Call(q, e, ClientRegister(q, c), {})
<1> DEFINE added == [q EXCEPT !.clients = @ \cup {c}]
<1>1. CASE c \in q.clients
  <2>1. ClientRegister(q, c) = Only(q)
    BY <1>1 DEF ClientRegister
  <2> QED
    BY <2>1, OnlyCall
<1>2. CASE c \notin q.clients /\ q.state = "TERMINATING_NOTIFIED"
  <2> DEFINE n == [added EXCEPT !.shutdown_pending = @ \cup {c}]
             x == Tell({c}, "SHUTDOWN_PREPARE_IND")
             r == [p |-> n, effects |-> <<x>>]
  <2>1. n \in PowerContext /\ RoundOK(n) /\ Answered(n) \subseteq Answered(q)
    BY <1>2 DEF PowerContext, RoundOK, Answered
  <2>2. x \in Effects /\ x.kind = "tell" /\ x.to = {c} /\ x.msg = "SHUTDOWN_PREPARE_IND"
    BY DEF Tell, Effects, Messages4Clients
  <2>3. \A d \in Clients : \A owed, believed :
          ClientOK(q, d, owed, believed) =>
            IF d \in {c}
            THEN ClientOK(n, d, Request("SHUTDOWN_PREPARE_IND", owed),
                                Belief(believed, "SHUTDOWN_PREPARE_IND"))
            ELSE ClientOK(n, d, owed, believed)
    BY <1>2 DEF ClientOK, RoundOK, Belief, Request, Cancelled, ActivityOf, PowerContext
  <2>4. ClientRegister(q, c) = r
    BY <1>2 DEF ClientRegister
  <2> HIDE DEF n, x
  <2>5. Sound(q, r) /\ Asked(<<x>>) = {}
    BY <2>1, <2>2, <2>3, OneSound
  <2>6. Call(q, e, r, {})
    BY <2>1, <2>5 DEF Call, AsksOff
  <2> HIDE DEF r
  <2> QED
    BY <2>4, <2>6
<1>3. CASE c \notin q.clients /\ q.state = "SOPORIFIC_NOTIFIED"
  <2> DEFINE n == [added EXCEPT !.sleep_pending = @ \cup {c}]
             x == Tell({c}, "SLEEP_PREPARE_IND")
             r == [p |-> n, effects |-> <<x>>]
  <2>1. n \in PowerContext /\ RoundOK(n) /\ Answered(n) \subseteq Answered(q)
    BY <1>3 DEF PowerContext, RoundOK, Answered
  <2>2. x \in Effects /\ x.kind = "tell" /\ x.to = {c} /\ x.msg = "SLEEP_PREPARE_IND"
    BY DEF Tell, Effects, Messages4Clients
  <2>3. \A d \in Clients : \A owed, believed :
          ClientOK(q, d, owed, believed) =>
            IF d \in {c}
            THEN ClientOK(n, d, Request("SLEEP_PREPARE_IND", owed),
                                Belief(believed, "SLEEP_PREPARE_IND"))
            ELSE ClientOK(n, d, owed, believed)
    BY <1>3 DEF ClientOK, RoundOK, Belief, Request, Cancelled, ActivityOf, PowerContext
  <2>4. ClientRegister(q, c) = r
    BY <1>3 DEF ClientRegister
  <2> HIDE DEF n, x
  <2>5. Sound(q, r) /\ Asked(<<x>>) = {}
    BY <2>1, <2>2, <2>3, OneSound
  <2>6. Call(q, e, r, {})
    BY <2>1, <2>5 DEF Call, AsksOff
  <2> HIDE DEF r
  <2> QED
    BY <2>4, <2>6
<1>4. CASE /\ c \notin q.clients
           /\ q.state # "TERMINATING_NOTIFIED" /\ q.state # "SOPORIFIC_NOTIFIED"
  <2>1. ClientRegister(q, c) = Only(added)
    BY <1>4 DEF ClientRegister
  <2>2. added \in PowerContext /\ RoundOK(added) /\ Answered(added) \subseteq Answered(q) \cup {}
    BY <1>4 DEF PowerContext, RoundOK, Answered
  <2>3. \A d \in Clients : \A owed, believed :
          ClientOK(q, d, owed, believed) => ClientOK(added, d, owed, believed)
    BY <1>4 DEF ClientOK, ActivityOf, PowerContext
  <2> HIDE DEF added
  <2> QED
    BY <2>1, <2>2, <2>3, OnlyCall
<1> QED
  BY <1>1, <1>2, <1>3, <1>4

\* appPowerClientAllowSleep
LEMMA AllowSleepCall ==
  ASSUME NEW q \in PowerContext, NEW e \in Readings, RoundOK(q), NEW c \in Clients
  PROVE  LET r == ClientAllowSleep(q, e, c)
         IN  /\ Call(q, e, r, {}) /\ r.p.clients = q.clients
             /\ q.state # "OK" => r.p.state = q.state
             /\ q.state = "OK" => r.p.state # "TERMINATING_NOTIFIED"
<1> DEFINE allowed == [q EXCEPT !.allow_sleep = @ \cup ({c} \cap q.clients)]
<1>1. /\ allowed \in PowerContext /\ RoundOK(allowed)
      /\ Answered(allowed) = Answered(q) /\ allowed.clients = q.clients /\ allowed.state = q.state
  BY DEF PowerContext, RoundOK, Answered
<1>2. \A d \in Clients : \A owed, believed :
        ClientOK(q, d, owed, believed) => ClientOK(allowed, d, owed, believed)
  BY DEF ClientOK, ActivityOf, PowerContext
<1>3. ClientAllowSleep(q, e, c) =
        IF allowed.state = "OK" /\ AllAllowSleep(allowed) /\ CanSleep(allowed, e)
        THEN EnterSoporificNotified(allowed, e) ELSE Only(allowed)
  BY DEF ClientAllowSleep
<1> HIDE DEF allowed
<1>4. CASE allowed.state = "OK" /\ AllAllowSleep(allowed) /\ CanSleep(allowed, e)
  <2> DEFINE r == EnterSoporificNotified(allowed, e)
  <2>1. Idle(allowed) /\ ~allowed.user_initiated_shutdown
    BY <1>1, <1>4 DEF RoundOK, Idle
  <2>2. /\ Sound(allowed, r) /\ ~AsksOff(r) /\ r.p.clients = allowed.clients
        /\ r.p.state # "TERMINATING_NOTIFIED"
    BY <1>1, <1>4, <2>1, SoporificNotifiedSound
  <2> HIDE DEF r
  <2>3. Call(q, e, r, {})
    BY <1>2, <2>2 DEF Call, Sound, Answered
  <2> QED
    BY <1>1, <1>3, <1>4, <2>2, <2>3 DEF r
<1>5. CASE ~(allowed.state = "OK" /\ AllAllowSleep(allowed) /\ CanSleep(allowed, e))
  <2>1. Call(q, e, Only(allowed), {})
    BY <1>1, <1>2, OnlyCall
  <2>2. Only(allowed).p = allowed
    BY DEF Only
  <2> QED
    BY <1>1, <1>3, <1>5, <2>1, <2>2
<1> QED
  BY <1>4, <1>5

\* appPowerShutdownPrepareResponse
LEMMA ShutdownResponseCall ==
  ASSUME NEW q \in PowerContext, NEW e \in Readings, RoundOK(q), NEW c \in Clients
  PROVE  LET r == ShutdownPrepareResponse(q, e, c)
         IN  /\ Call(q, e, r, {c}) /\ r.p.clients = q.clients
             /\ c \notin r.p.shutdown_pending
<1> DEFINE answered == [q EXCEPT !.shutdown_pending = @ \ {c}]
           r == ShutdownPrepareResponse(q, e, c)
<1>1. CASE q.state # "TERMINATING_NOTIFIED" \/ c \notin q.clients
  <2>1. r = Only(q) /\ r.p = q
    BY <1>1 DEF ShutdownPrepareResponse, Only
  <2>2. c \notin q.shutdown_pending
    BY <1>1 DEF RoundOK
  <2>3. Call(q, e, Only(q), {c})
    BY OnlyCall
  <2> QED
    BY <2>1, <2>2, <2>3
<1>2. CASE /\ q.state = "TERMINATING_NOTIFIED" /\ c \in q.clients
           /\ ~AllCleared(q, answered.shutdown_pending)
  <2>1. r = Only(answered)
    BY <1>2 DEF ShutdownPrepareResponse
  <2>2. /\ answered \in PowerContext /\ RoundOK(answered)
        /\ Answered(answered) \subseteq Answered(q) \cup {c}
        /\ answered.clients = q.clients /\ c \notin answered.shutdown_pending
    BY <1>2 DEF PowerContext, RoundOK, Answered, AllCleared
  <2>3. \A d \in Clients : \A owed, believed :
          ClientOK(q, d, owed, believed) => ClientOK(answered, d, owed, believed)
    BY DEF PowerContext, ClientOK, ActivityOf
  <2>4. Only(answered).p = answered
    BY DEF Only
  <2> HIDE DEF answered, r
  <2>5. Call(q, e, Only(answered), {c})
    BY <2>2, <2>3, OnlyCall
  <2> QED
    BY <2>1, <2>2, <2>4, <2>5 DEF r
<1>3. CASE /\ q.state = "TERMINATING_NOTIFIED" /\ c \in q.clients
           /\ AllCleared(q, answered.shutdown_pending)
  <2> DEFINE s == EnterTerminatingResponded(answered, e)
  <2>1. r = s
    BY <1>3 DEF ShutdownPrepareResponse
  <2>2. /\ answered \in PowerContext /\ Idle(answered) /\ answered.state # "INIT"
        /\ answered.clients = q.clients
        /\ q.clients \subseteq Answered(q) \cup {c}
    BY <1>3 DEF PowerContext, RoundOK, Idle, Answered, AllCleared
  <2>3. \A d \in Clients : \A owed, believed :
          ClientOK(q, d, owed, believed) => ClientOK(answered, d, owed, believed)
    BY DEF PowerContext, ClientOK, ActivityOf
  <2> HIDE DEF answered, r
  <2>4. /\ Sound(answered, s) /\ (AsksOff(s) => e.can_power_off) /\ s.p.state = "OK"
        /\ s.p.clients = answered.clients /\ Idle(s.p)
    BY <2>2, TerminatingRespondedSound
  <2> HIDE DEF s
  <2>5. Call(q, e, s, {c})
    BY <2>2, <2>3, <2>4 DEF Call, Sound, Answered
  <2> QED
    BY <2>1, <2>2, <2>4, <2>5 DEF r, Idle
<1> QED
  BY <1>1, <1>2, <1>3

\* appPowerSleepPrepareResponse
LEMMA SleepResponseCall ==
  ASSUME NEW q \in PowerContext, NEW e \in Readings, RoundOK(q), NEW c \in Clients
  PROVE  LET r == SleepPrepareResponse(q, e, c)
         IN  /\ Call(q, e, r, {}) /\ r.p.clients = q.clients
             /\ c \notin r.p.sleep_pending
             /\ r.p.shutdown_pending = q.shutdown_pending
<1> DEFINE answered == [q EXCEPT !.sleep_pending = @ \ {c}]
           r == SleepPrepareResponse(q, e, c)
<1>1. CASE q.state # "SOPORIFIC_NOTIFIED" \/ c \notin q.clients
  <2>1. r = Only(q) /\ r.p = q
    BY <1>1 DEF SleepPrepareResponse, Only
  <2>2. c \notin q.sleep_pending
    BY <1>1 DEF RoundOK
  <2>3. Call(q, e, Only(q), {})
    BY OnlyCall
  <2> QED
    BY <2>1, <2>2, <2>3
<1>2. CASE /\ q.state = "SOPORIFIC_NOTIFIED" /\ c \in q.clients
           /\ ~AllCleared(q, answered.sleep_pending)
  <2>1. r = Only(answered)
    BY <1>2 DEF SleepPrepareResponse
  <2>2. /\ answered \in PowerContext /\ RoundOK(answered)
        /\ Answered(answered) \subseteq Answered(q) \cup {}
        /\ answered.clients = q.clients /\ c \notin answered.sleep_pending
        /\ answered.shutdown_pending = q.shutdown_pending
    BY <1>2 DEF PowerContext, RoundOK, Answered, AllCleared
  <2>3. \A d \in Clients : \A owed, believed :
          ClientOK(q, d, owed, believed) => ClientOK(answered, d, owed, believed)
    BY DEF PowerContext, ClientOK, ActivityOf
  <2>4. Only(answered).p = answered
    BY DEF Only
  <2> HIDE DEF answered, r
  <2>5. Call(q, e, Only(answered), {})
    BY <2>2, <2>3, OnlyCall
  <2> QED
    BY <2>1, <2>2, <2>4, <2>5 DEF r
<1>3. CASE /\ q.state = "SOPORIFIC_NOTIFIED" /\ c \in q.clients
           /\ AllCleared(q, answered.sleep_pending)
  <2> DEFINE s == EnterSoporificResponded(answered, e)
  <2>1. r = s
    BY <1>3 DEF SleepPrepareResponse
  <2>2. /\ answered \in PowerContext /\ Idle(answered) /\ ~answered.user_initiated_shutdown
        /\ answered.state = "SOPORIFIC_NOTIFIED" /\ answered.clients = q.clients
        /\ q.shutdown_pending = {}
    BY <1>3 DEF PowerContext, RoundOK, Idle, AllCleared
  <2>3. \A d \in Clients : \A owed, believed :
          ClientOK(q, d, owed, believed) => ClientOK(answered, d, owed, believed)
    BY DEF PowerContext, ClientOK, ActivityOf
  <2> HIDE DEF answered, r
  <2>4. /\ Sound(answered, s) /\ ~AsksOff(s) /\ Idle(s.p)
        /\ s.p.clients = answered.clients /\ s.p.state \in {"OK", "SOPORIFIC_RESPONDED"}
    BY <2>2, SoporificRespondedSound
  <2> HIDE DEF s
  <2>5. Call(q, e, s, {})
    BY <2>3, <2>4 DEF Call, Sound, Answered
  <2> QED
    BY <2>1, <2>2, <2>4, <2>5 DEF r, Idle
<1> QED
  BY <1>1, <1>2, <1>3

\* One call after another that leaves the list of the clients alone
LEMMA ThenCall ==
  ASSUME NEW q, NEW e, NEW r, NEW s, NEW ready,
         Call(q, e, r, ready), Call(r.p, e, s, ready), r.p.clients = q.clients
  PROVE  Call(q, e, [p |-> s.p, effects |-> r.effects \o s.effects], ready)
<1> DEFINE both == [p |-> s.p, effects |-> r.effects \o s.effects]
<1>1. Sound(q, both) /\ Asked(r.effects \o s.effects) = Asked(r.effects) \cup Asked(s.effects)
  BY ThenSound DEF Call
<1>2. both.p = s.p /\ both.effects = r.effects \o s.effects
  OBVIOUS
<1> HIDE DEF both
<1>3. AsksOff(both) => AsksOff(r) \/ AsksOff(s)
  BY <1>1, <1>2 DEF AsksOff
<1>4. Call(q, e, both, ready)
  BY <1>1, <1>2, <1>3 DEF Call
<1> QED
  BY <1>4 DEF both

\* A call that answers for nobody may count as answering for some.
LEMMA MoreReady ==
  ASSUME NEW q, NEW e, NEW r, NEW ready, Call(q, e, r, {})
  PROVE  Call(q, e, r, ready)
BY DEF Call

\* appPowerClientUnregister: up to the removal of the client it is a call like
\* the others, and then nothing is pending for the client.
LEMMA UnregisterCall ==
  ASSUME NEW q \in PowerContext, NEW e \in Readings, RoundOK(q), NEW c \in Clients
  PROVE  \E r : /\ Call(q, e, r, {c})
                /\ c \notin r.p.shutdown_pending /\ c \notin r.p.sleep_pending
                /\ ClientUnregister(q, e, c).p = Forget(r.p, c)
                /\ ClientUnregister(q, e, c).effects = r.effects \o << >>
<1> DEFINE a == ClientAllowSleep(q, e, c)
           b == ShutdownPrepareResponse(a.p, e, c)
           ab == [p |-> b.p, effects |-> a.effects \o b.effects]
           d == SleepPrepareResponse(b.p, e, c)
           r == [p |-> d.p, effects |-> ab.effects \o d.effects]
<1>1. Call(q, e, a, {c}) /\ a.p.clients = q.clients
  BY AllowSleepCall, MoreReady
<1>2. a.p \in PowerContext /\ RoundOK(a.p)
  BY <1>1 DEF Call, Sound
<1> HIDE DEF a
<1>3. Call(a.p, e, b, {c}) /\ b.p.clients = a.p.clients /\ c \notin b.p.shutdown_pending
  BY <1>2, ShutdownResponseCall
<1>4. b.p \in PowerContext /\ RoundOK(b.p)
  BY <1>3 DEF Call, Sound
<1> HIDE DEF b
<1>5. Call(q, e, ab, {c}) /\ ab.p = b.p /\ ab.p.clients = q.clients
  BY <1>1, <1>3, ThenCall
<1>6. /\ Call(b.p, e, d, {c}) /\ c \notin d.p.sleep_pending
      /\ d.p.shutdown_pending = b.p.shutdown_pending
  BY <1>4, SleepResponseCall, MoreReady
<1> HIDE DEF ab, d
<1>7. Call(q, e, r, {c}) /\ r.p = d.p
  BY <1>5, <1>6, ThenCall
<1>8. /\ ClientUnregister(q, e, c).p = Forget(r.p, c)
      /\ ClientUnregister(q, e, c).effects = r.effects \o << >>
  BY DEF ClientUnregister, Then, Only, a, b, ab, d
<1> HIDE DEF r
<1> QED
  BY <1>3, <1>6, <1>7, <1>8

---------------------------------------------------------------------------
(* The steps.                                                              *)

\* Who heard what a call tells agrees with the context that it leaves.
LEMMA ToldKeeps ==
  ASSUME IInv, NEW r, NEW ready, Call(p, readings, r, ready), NEW c \in Clients
  PROVE  LET after == mbox[c] \o ToldTo(r.effects, c)
         IN  /\ after \in Seq(Messages4Clients)
             /\ ClientOK(r.p, c, WillOwe(after, owes[c]), WillBelieve(after, believes[c]))
<1> DEFINE s == mbox[c]
           t == ToldTo(r.effects, c)
           o == WillOwe(s, owes[c])
           b == WillBelieve(s, believes[c])
<1>1. s \in Seq(Messages4Clients) /\ t \in Seq(Messages4Clients)
  BY ToldIsSequence DEF IInv, TypeOK, Call, Sound
<1>2. ClientOK(p, c, o, b)
  BY DEF IInv, ClientsOK
<1>3. ClientOK(r.p, c, WillOwe(t, o), WillBelieve(t, b))
  <2> HIDE DEF o, b
  <2> QED
    BY <1>2 DEF Call, Sound
<1> HIDE DEF s, t
<1>4. s \o t \in Seq(Messages4Clients)
  BY <1>1, ConcatProperties
<1>5. /\ WillOwe(s \o t, owes[c]) = WillOwe(t, o)
      /\ WillBelieve(s \o t, believes[c]) = WillBelieve(t, b)
  BY <1>1, HearBoth
<1>6. ClientOK(r.p, c, WillOwe(s \o t, owes[c]), WillBelieve(s \o t, believes[c]))
  BY <1>3, <1>5
<1> QED
  BY <1>4, <1>6 DEF s, t

\* The state is in order, and so is what a step does to the power.
LEMMA EffectKeeps ==
  ASSUME IInv, NEW r, NEW ready, Call(p, readings, r, ready), Effect(r)
  PROVE  /\ p' \in PowerContext /\ RoundOK(p')
         /\ mbox' \in [Clients -> Seq(Messages4Clients)]
         /\ power' \in {"on", "off", "dormant"}
         /\ \A c \in Clients :
              ClientOK(p', c, WillOwe(mbox'[c], owes[c]), WillBelieve(mbox'[c], believes[c]))
         /\ Answered(p') \subseteq Answered(p) \cup ready
         /\ power' = "off" /\ power = "on" =>
              readings.can_power_off /\ p.clients \subseteq Answered(p) \cup ready
<1>1. /\ p' = r.p /\ r.effects \in Seq(Effects)
      /\ mbox' = [c \in Clients |-> mbox[c] \o ToldTo(r.effects, c)]
      /\ SystemStateAnswers(r.effects)
  BY DEF Effect, Call, Sound
<1>3. ASSUME NEW c \in Clients
      PROVE  /\ mbox'[c] \in Seq(Messages4Clients)
             /\ ClientOK(p', c, WillOwe(mbox'[c], owes[c]), WillBelieve(mbox'[c], believes[c]))
  <2>1. mbox'[c] = mbox[c] \o ToldTo(r.effects, c)
    BY <1>1
  <2> DEFINE after == mbox[c] \o ToldTo(r.effects, c)
  <2>2. /\ after \in Seq(Messages4Clients)
        /\ ClientOK(r.p, c, WillOwe(after, owes[c]), WillBelieve(after, believes[c]))
    BY ToldKeeps
  <2> HIDE DEF after
  <2> QED
    BY <1>1, <2>1, <2>2 DEF after
<1>4. mbox' \in [Clients -> Seq(Messages4Clients)]
  <2>1. mbox' = [c \in Clients |-> mbox'[c]]
    BY <1>1
  <2> QED
    BY <1>3, <2>1
<1>5. power' \in {"on", "off", "dormant"} /\ (power' = "off" /\ power = "on" => AsksOff(r))
  BY <1>1 DEF SystemStateAnswers, AsksOff, IInv, TypeOK
<1> QED
  BY <1>1, <1>3, <1>4, <1>5 DEF Call, Sound

\* What a step does, beside keeping the invariant.
Switches ==
  power' = "off" /\ power = "on" => readings.can_power_off /\ p.clients \subseteq prepared'

\* A step of a monitor or of the initialisation, which may begin a round
LEMMA RoundStep ==
  ASSUME IInv, NEW r, Call(p, readings, r, {}), Effect(r), NewRound,
         UNCHANGED <<readings, posted, owes, believes>>, events' \in Nat, requests' \in Nat
  PROVE  IInv' /\ Switches
<1>1. /\ p' \in PowerContext /\ RoundOK(p')
      /\ mbox' \in [Clients -> Seq(Messages4Clients)]
      /\ power' \in {"on", "off", "dormant"}
      /\ \A c \in Clients :
           ClientOK(p', c, WillOwe(mbox'[c], owes[c]), WillBelieve(mbox'[c], believes[c]))
      /\ Answered(p') \subseteq Answered(p)
      /\ power' = "off" /\ power = "on" => readings.can_power_off /\ p.clients \subseteq Answered(p)
  <2> DEFINE none == {}
  <2> HIDE DEF none
  <2>1. Call(p, readings, r, none)
    BY DEF none
  <2>2. none = {}
    BY DEF none
  <2> QED
    BY <2>1, <2>2, EffectKeeps
<1>2. Answered(p) \subseteq prepared' /\ prepared' \in SUBSET Clients
  BY DEF NewRound, Answered, IInv, TypeOK
<1>3. TypeOK'
  BY <1>1, <1>2 DEF TypeOK, IInv
<1>4. ClientsOK'
  BY <1>1 DEF ClientsOK
<1>5. RoundOK(p)' /\ (Answered(p) \subseteq prepared)'
  BY <1>1, <1>2
<1> QED
  BY <1>1, <1>2, <1>3, <1>4, <1>5 DEF IInv, Switches

\* A call of a client that answers nothing
LEMMA ClientStep ==
  ASSUME IInv, NEW r, Call(p, readings, r, {}), Effect(r),
         UNCHANGED <<readings, events, posted, owes, believes, prepared>>, requests' \in Nat
  PROVE  IInv' /\ Switches
<1>1. /\ p' \in PowerContext /\ RoundOK(p')
      /\ mbox' \in [Clients -> Seq(Messages4Clients)]
      /\ power' \in {"on", "off", "dormant"}
      /\ \A c \in Clients :
           ClientOK(p', c, WillOwe(mbox'[c], owes[c]), WillBelieve(mbox'[c], believes[c]))
      /\ Answered(p') \subseteq Answered(p)
      /\ power' = "off" /\ power = "on" => readings.can_power_off /\ p.clients \subseteq Answered(p)
  <2> DEFINE none == {}
  <2> HIDE DEF none
  <2>1. Call(p, readings, r, none)
    BY DEF none
  <2>2. none = {}
    BY DEF none
  <2> QED
    BY <2>1, <2>2, EffectKeeps
<1>2. TypeOK'
  BY <1>1 DEF TypeOK, IInv
<1>3. ClientsOK'
  BY <1>1 DEF ClientsOK
<1>4. RoundOK(p)' /\ (Answered(p) \subseteq prepared)'
  BY <1>1 DEF IInv
<1> QED
  BY <1>1, <1>2, <1>3, <1>4 DEF IInv, Switches

\* A monitor posts, or nothing happens.
LEMMA QuietStep ==
  ASSUME IInv, UNCHANGED <<p, mbox, owes, believes, prepared, power>>,
         readings' \in Readings, events' \in Nat, posted' \in Nat, requests' \in Nat
  PROVE  IInv' /\ Switches
<1>1. TypeOK' /\ ClientsOK'
  BY DEF IInv, TypeOK, ClientsOK
<1> QED
  BY <1>1 DEF IInv, Switches

\* The calls that come from the monitors and at the end of the initialisation.
LEMMA RoundCalls ==
  ASSUME IInv, HandlePowerEvent \/ CompleteInit \/ PowerOffRequest
  PROVE  IInv' /\ Switches
<1>0. p \in PowerContext /\ readings \in Readings /\ RoundOK(p)
        /\ events \in Nat /\ requests \in Nat
  BY DEF IInv, TypeOK
<1>1. CASE HandlePowerEvent
  <2>1. Call(p, readings, PowerEvent(p, readings), {})
    BY <1>0, PowerEventCall
  <2>2. events' \in Nat /\ requests' \in Nat
    BY <1>0, <1>1 DEF HandlePowerEvent
  <2> QED
    BY <1>1, <2>1, <2>2, RoundStep DEF HandlePowerEvent, ClientSide
<1>2. CASE CompleteInit
  <2>1. Call(p, readings, InitComplete(p, readings), {})
    BY <1>0, InitCompleteCall
  <2>2. events' \in Nat /\ requests' \in Nat
    BY <1>0, <1>2 DEF CompleteInit, Environment
  <2> QED
    BY <1>2, <2>1, <2>2, RoundStep DEF CompleteInit, Environment, ClientSide
<1>3. CASE PowerOffRequest
  <2>1. Call(p, readings, OffRequest(p, readings), {})
    BY <1>0, OffRequestCall
  <2>2. events' \in Nat /\ requests' \in Nat
    BY <1>0, <1>3 DEF PowerOffRequest, Environment, Count
  <2> QED
    BY <1>3, <2>1, <2>2, RoundStep DEF PowerOffRequest, Environment, ClientSide
<1> QED
  BY <1>1, <1>2, <1>3

\* The calls of a client that answer nothing.
LEMMA ClientCalls ==
  ASSUME IInv, NEW c \in Clients, Register(c) \/ AllowSleep(c) \/ ProhibitSleep(c)
  PROVE  IInv' /\ Switches
<1>0. p \in PowerContext /\ readings \in Readings /\ RoundOK(p)
        /\ events \in Nat /\ requests \in Nat
  BY DEF IInv, TypeOK
<1>1. CASE Register(c)
  <2>1. Call(p, readings, ClientRegister(p, c), {})
    BY <1>0, <1>1, RegisterCall DEF Register
  <2>2. requests' \in Nat
    BY <1>0, <1>1 DEF Register, Count
  <2> QED
    BY <1>1, <2>1, <2>2, ClientStep DEF Register, Environment, ClientSide
<1>2. CASE AllowSleep(c)
  <2>1. Call(p, readings, ClientAllowSleep(p, readings, c), {})
    BY <1>0, AllowSleepCall
  <2>2. requests' \in Nat
    BY <1>0, <1>2 DEF AllowSleep, Count
  <2> QED
    BY <1>2, <2>1, <2>2, ClientStep DEF AllowSleep, Environment, ClientSide
<1>3. CASE ProhibitSleep(c)
  <2>1. /\ p' = [p EXCEPT !.allow_sleep = @ \ {c}]
        /\ UNCHANGED <<readings, events, posted, mbox, owes, believes, prepared, power>>
        /\ requests' \in Nat
    BY <1>0, <1>3 DEF ProhibitSleep, ClientProhibitSleep, Count, Environment, ClientSide
  <2>2. p' \in PowerContext /\ RoundOK(p') /\ Answered(p') = Answered(p)
    BY <1>0, <2>1 DEF PowerContext, RoundOK, Answered
  <2>3. \A d \in Clients : \A owed, believed :
          ClientOK(p, d, owed, believed) => ClientOK(p', d, owed, believed)
    BY <1>0, <2>1 DEF PowerContext, ClientOK, ActivityOf
  <2>4. ClientsOK'
    BY <2>1, <2>3 DEF IInv, ClientsOK
  <2>5. TypeOK'
    BY <2>1, <2>2 DEF IInv, TypeOK
  <2>6. (Answered(p) \subseteq prepared)' /\ RoundOK(p)'
    BY <2>1, <2>2 DEF IInv
  <2>7. Switches
    BY <2>1 DEF IInv, TypeOK, Switches
  <2> QED
    BY <2>4, <2>5, <2>6, <2>7 DEF IInv
<1> QED
  BY <1>1, <1>2, <1>3

\* A client reads the first of its messages.
LEMMA Reading ==
  ASSUME IInv, NEW c \in Clients, ClientReads(c)
  PROVE  IInv' /\ Switches
<1> DEFINE s == mbox[c]
           m == Head(s)
<1>1. /\ s \in Seq(Messages4Clients) /\ s # << >>
      /\ owes' = [owes EXCEPT ![c] = Request(m, @)]
      /\ believes' = [believes EXCEPT ![c] = Belief(@, m)]
      /\ mbox' = [mbox EXCEPT ![c] = Tail(s)]
      /\ UNCHANGED <<p, readings, events, posted, prepared, power, requests>>
  BY DEF ClientReads, Environment, IInv, TypeOK
<1>2. m \in Messages4Clients /\ Tail(s) \in Seq(Messages4Clients)
  <2> HIDE DEF s
  <2> QED
    BY <1>1, HeadTailProperties
<1>3. /\ WillOwe(Tail(s), Request(m, owes[c])) = WillOwe(s, owes[c])
      /\ WillBelieve(Tail(s), Belief(believes[c], m)) = WillBelieve(s, believes[c])
  <2> HIDE DEF s
  <2> QED
    BY <1>1, HearHead
<1> HIDE DEF m
<1>4. TypeOK
  BY DEF IInv
<1>5. /\ Request(m, owes[c]) \in {"nothing", "shutdown", "sleep"}
      /\ Belief(believes[c], m) \in {"normal", "shutdown", "sleep"}
  BY <1>4 DEF Request, Belief, TypeOK
<1> DEFINE t == Tail(s)
           o == Request(m, owes[c])
           b == Belief(believes[c], m)
<1>6. /\ owes' = [owes EXCEPT ![c] = o] /\ believes' = [believes EXCEPT ![c] = b]
      /\ mbox' = [mbox EXCEPT ![c] = t]
  BY <1>1
<1>7. t \in Seq(Messages4Clients)
  BY <1>2
<1> HIDE DEF t, o, b
<1>8. TypeOK'
  BY <1>1, <1>4, <1>5, <1>6, <1>7 DEF TypeOK, o, b
<1>9. ASSUME NEW d \in Clients
      PROVE  /\ WillOwe(mbox'[d], owes'[d]) = WillOwe(mbox[d], owes[d])
             /\ WillBelieve(mbox'[d], believes'[d]) = WillBelieve(mbox[d], believes[d])
  <2>1. CASE d = c
    <3>1. mbox'[c] = t /\ owes'[c] = o /\ believes'[c] = b
      BY <1>4, <1>6 DEF TypeOK
    <3> QED
      BY <1>3, <2>1, <3>1 DEF t, o, b
  <2>2. CASE d # c
    BY <1>4, <1>6, <2>2 DEF TypeOK
  <2> QED
    BY <2>1, <2>2
<1>10. ClientsOK'
  BY <1>1, <1>9 DEF IInv, ClientsOK
<1> QED
  BY <1>1, <1>8, <1>10 DEF IInv, Switches, TypeOK

\* What a client owes after it answered depends on its queue alone.
LEMMA OwesAgain ==
  ASSUME NEW s, NEW owed, WillOwe(s, owed) # owed
  PROVE  \A other : WillOwe(s, other) = WillOwe(s, owed)
BY DEF WillOwe, Request

\* A client answers that it is prepared for the shutdown.
LEMMA AnswerToShutdown ==
  ASSUME IInv, NEW c \in Clients, ShutdownAnswer(c)
  PROVE  IInv' /\ Switches
<1> DEFINE r == ShutdownPrepareResponse(p, readings, c)
<1>1. /\ owes[c] = "shutdown" /\ Effect(r)
      /\ prepared' = prepared \cup {c} /\ owes' = [owes EXCEPT ![c] = "nothing"]
      /\ UNCHANGED <<readings, events, posted, believes, requests>>
  BY DEF ShutdownAnswer, Environment
<1>2. Call(p, readings, r, {c}) /\ c \notin r.p.shutdown_pending
  BY ShutdownResponseCall DEF IInv, TypeOK
<1>3. c \notin p'.shutdown_pending
  BY <1>1, <1>2 DEF Effect
<1> HIDE DEF r
<1>4. /\ p' \in PowerContext /\ RoundOK(p')
      /\ mbox' \in [Clients -> Seq(Messages4Clients)]
      /\ power' \in {"on", "off", "dormant"}
      /\ \A d \in Clients :
           ClientOK(p', d, WillOwe(mbox'[d], owes[d]), WillBelieve(mbox'[d], believes[d]))
      /\ Answered(p') \subseteq Answered(p) \cup {c}
      /\ power' = "off" /\ power = "on" =>
           readings.can_power_off /\ p.clients \subseteq Answered(p) \cup {c}
  BY <1>1, <1>2, EffectKeeps
<1>5. TypeOK'
  BY <1>1, <1>4 DEF IInv, TypeOK
<1>6. ASSUME NEW d \in Clients
      PROVE  ClientOK(p', d, WillOwe(mbox'[d], owes'[d]), WillBelieve(mbox'[d], believes'[d]))
  <2>1. CASE d = c
    <3>1. owes'[c] = "nothing" /\ believes'[c] = believes[c]
      BY <1>1 DEF IInv, TypeOK
    <3>2. c \in p'.sleep_pending => WillOwe(mbox'[c], "nothing") = "sleep"
      <4>1. c \in p'.sleep_pending => WillOwe(mbox'[c], "shutdown") = "sleep"
        BY <1>1, <1>4 DEF ClientOK
      <4> QED
        BY <4>1, OwesAgain
    <3> QED
      BY <1>3, <1>4, <2>1, <3>1, <3>2 DEF ClientOK
  <2>2. CASE d # c
    <3>1. owes'[d] = owes[d] /\ believes'[d] = believes[d]
      BY <1>1, <2>2 DEF IInv, TypeOK
    <3> QED
      BY <1>4, <3>1
  <2> QED
    BY <2>1, <2>2
<1>7. ClientsOK' /\ RoundOK(p)'
  BY <1>4, <1>6 DEF ClientsOK
<1>8. (Answered(p) \subseteq prepared)' /\ Switches
  BY <1>1, <1>4 DEF IInv, Switches
<1> QED
  BY <1>5, <1>7, <1>8 DEF IInv

\* A client answers that it is prepared for the sleep.
LEMMA AnswerToSleep ==
  ASSUME IInv, NEW c \in Clients, SleepAnswer(c)
  PROVE  IInv' /\ Switches
<1> DEFINE r == SleepPrepareResponse(p, readings, c)
           none == {}
<1>1. /\ owes[c] = "sleep" /\ Effect(r)
      /\ owes' = [owes EXCEPT ![c] = "nothing"]
      /\ UNCHANGED <<readings, events, posted, believes, prepared, requests>>
  BY DEF SleepAnswer, Environment
<1>2. Call(p, readings, r, none) /\ c \notin r.p.sleep_pending
  BY SleepResponseCall DEF IInv, TypeOK
<1>3. c \notin p'.sleep_pending
  BY <1>1, <1>2 DEF Effect
<1>0. none = {}
  OBVIOUS
<1> HIDE DEF r, none
<1>4. /\ p' \in PowerContext /\ RoundOK(p')
      /\ mbox' \in [Clients -> Seq(Messages4Clients)]
      /\ power' \in {"on", "off", "dormant"}
      /\ \A d \in Clients :
           ClientOK(p', d, WillOwe(mbox'[d], owes[d]), WillBelieve(mbox'[d], believes[d]))
      /\ Answered(p') \subseteq Answered(p) \cup none
      /\ power' = "off" /\ power = "on" =>
           readings.can_power_off /\ p.clients \subseteq Answered(p) \cup none
  BY <1>1, <1>2, EffectKeeps
<1>5. TypeOK'
  BY <1>1, <1>4 DEF IInv, TypeOK
<1>6. ASSUME NEW d \in Clients
      PROVE  ClientOK(p', d, WillOwe(mbox'[d], owes'[d]), WillBelieve(mbox'[d], believes'[d]))
  <2>1. CASE d = c
    <3>1. owes'[c] = "nothing" /\ believes'[c] = believes[c]
      BY <1>1 DEF IInv, TypeOK
    <3>2. c \in p'.shutdown_pending => WillOwe(mbox'[c], "nothing") = "shutdown"
      <4>1. c \in p'.shutdown_pending => WillOwe(mbox'[c], "sleep") = "shutdown"
        BY <1>1, <1>4 DEF ClientOK
      <4> QED
        BY <4>1, OwesAgain
    <3> QED
      BY <1>3, <1>4, <2>1, <3>1, <3>2 DEF ClientOK
  <2>2. CASE d # c
    <3>1. owes'[d] = owes[d] /\ believes'[d] = believes[d]
      BY <1>1, <2>2 DEF IInv, TypeOK
    <3> QED
      BY <1>4, <3>1
  <2> QED
    BY <2>1, <2>2
<1>7. ClientsOK' /\ RoundOK(p)'
  BY <1>4, <1>6 DEF ClientsOK
<1>8. (Answered(p) \subseteq prepared)' /\ Switches
  BY <1>0, <1>1, <1>4 DEF IInv, Switches
<1> QED
  BY <1>5, <1>7, <1>8 DEF IInv

\* What is left in the queue of a client that leaves tells it nothing new.
LEMMA PowerOffIsNoNews ==
  ASSUME NEW s \in Seq(Messages4Clients), NEW believed
  PROVE  LET left == Keep(s, {"POWER_OFF"})
         IN  left \in Seq(Messages4Clients) /\ WillBelieve(left, believed) = believed
<1> DEFINE only == {"POWER_OFF"}
           left == Keep(s, only)
           part == Messages4Clients \cap only
<1>1. left \in Seq(part) /\ left \in Seq(Messages4Clients)
  <2> HIDE DEF only
  <2> QED
    BY KeepType, KeepPart
<1>2. part \cap News = {}
  BY DEF News
<1>3. LastOf(left, News, "none") = "none"
  <2> HIDE DEF left, part
  <2> QED
    BY <1>1, <1>2, LastOfNone
<1>4. WillBelieve(left, believed) = believed
  BY <1>3 DEF WillBelieve, Belief, Request, Cancelled
<1> QED
  BY <1>1, <1>4

\* A client leaves: it answers what it was asked and is forgotten.
LEMMA Leaving ==
  ASSUME IInv, NEW c \in Clients, Unregister(c)
  PROVE  IInv' /\ Switches
<1> DEFINE u == ClientUnregister(p, readings, c)
<1>0. p \in PowerContext /\ readings \in Readings /\ RoundOK(p) /\ c \in p.clients
        /\ events \in Nat /\ posted \in Nat /\ requests \in Nat /\ TypeOK
  BY DEF IInv, TypeOK, Unregister
<1>1. PICK r : /\ Call(p, readings, r, {c})
               /\ c \notin r.p.shutdown_pending /\ c \notin r.p.sleep_pending
               /\ u.p = Forget(r.p, c) /\ u.effects = r.effects \o << >>
  BY <1>0, UnregisterCall
<1>2. r.effects \in Seq(Effects) /\ r.p \in PowerContext /\ RoundOK(r.p)
  BY <1>1 DEF Call, Sound
<1>3. u.effects = r.effects
  BY <1>1, <1>2, ConcatEmptySeq
<1>4. /\ p' = u.p
      /\ mbox' = [[d \in Clients |-> mbox[d] \o ToldTo(u.effects, d)]
                    EXCEPT ![c] = Keep(@, {"POWER_OFF"})]
      /\ SystemStateAnswers(u.effects)
      /\ prepared' = prepared \cup {c}
      /\ owes' = [owes EXCEPT ![c] = "nothing"]
      /\ believes' = [believes EXCEPT ![c] = "normal"]
      /\ UNCHANGED <<readings, events, posted>> /\ requests' = requests + 1
  BY DEF Unregister, Environment, Count
<1> HIDE DEF u
<1> DEFINE after(d) == mbox[d] \o ToldTo(r.effects, d)
<1>5. ASSUME NEW d \in Clients
      PROVE  /\ after(d) \in Seq(Messages4Clients)
             /\ ClientOK(r.p, d, WillOwe(after(d), owes[d]), WillBelieve(after(d), believes[d]))
  BY <1>1, ToldKeeps
<1>6. mbox' = [d \in Clients |-> IF d = c THEN Keep(after(c), {"POWER_OFF"}) ELSE after(d)]
  BY <1>3, <1>4
<1> HIDE DEF after
<1> DEFINE left == Keep(after(c), {"POWER_OFF"})
<1>7. left \in Seq(Messages4Clients) /\ WillBelieve(left, "normal") = "normal"
  BY <1>5, PowerOffIsNoNews
<1> HIDE DEF left
<1>8. p' = Forget(r.p, c)
  BY <1>1, <1>4
<1>9. p' \in PowerContext /\ RoundOK(p')
  <2> DEFINE q == r.p
             n == Forget(q, c)
  <2>1. q \in PowerContext /\ RoundOK(q) /\ q.shutdown_pending \ {c} = q.shutdown_pending
          /\ q.sleep_pending \ {c} = q.sleep_pending
    BY <1>1, <1>2
  <2> HIDE DEF q
  <2>2. n \in PowerContext
    BY <2>1 DEF PowerContext, Forget
  <2>3. /\ n.state = q.state /\ n.user_initiated_shutdown = q.user_initiated_shutdown
        /\ n.shutdown_pending = q.shutdown_pending /\ n.sleep_pending = q.sleep_pending
        /\ n.clients = q.clients \ {c}
    BY <2>1 DEF PowerContext, Forget
  <2> HIDE DEF n
  <2>4. RoundOK(n)
    BY <2>1, <2>3 DEF RoundOK
  <2> QED
    BY <1>8, <2>2, <2>4 DEF n, q
<1>10. Answered(p') \subseteq prepared'
  <2>1. Answered(r.p) \subseteq Answered(p) \cup {c}
    BY <1>1 DEF Call
  <2>2. Answered(p') \subseteq Answered(r.p)
    BY <1>1, <1>2, <1>8 DEF PowerContext, Answered, Forget
  <2> QED
    BY <1>4, <2>1, <2>2 DEF IInv
<1>11. \A d \in Clients : mbox'[d] \in Seq(Messages4Clients)
  BY <1>5, <1>6, <1>7 DEF left
<1>12. mbox' \in [Clients -> Seq(Messages4Clients)]
  <2>1. mbox' = [d \in Clients |-> mbox'[d]]
    BY <1>6
  <2> QED
    BY <1>11, <2>1
<1>13. power' \in {"on", "off", "dormant"} /\ (power' = "off" /\ power = "on" => AsksOff(r))
  BY <1>0, <1>3, <1>4 DEF SystemStateAnswers, AsksOff, TypeOK
<1>14. TypeOK'
  <2>1. /\ owes' \in [Clients -> {"nothing", "shutdown", "sleep"}]
        /\ believes' \in [Clients -> {"normal", "shutdown", "sleep"}]
        /\ prepared' \in SUBSET Clients
        /\ readings' \in Readings /\ events' \in Nat /\ posted' \in Nat /\ requests' \in Nat
    BY <1>0, <1>4 DEF TypeOK
  <2> QED
    BY <1>9, <1>12, <1>13, <2>1 DEF TypeOK
<1>15. ASSUME NEW d \in Clients
       PROVE  ClientOK(p', d, WillOwe(mbox'[d], owes'[d]), WillBelieve(mbox'[d], believes'[d]))
  <2>1. CASE d = c
    <3>1. mbox'[c] = left /\ owes'[c] = "nothing" /\ believes'[c] = "normal"
      BY <1>0, <1>4, <1>6 DEF TypeOK, left
    <3>2. c \notin p'.clients /\ c \notin p'.shutdown_pending /\ c \notin p'.sleep_pending
      BY <1>2, <1>8 DEF PowerContext, Forget
    <3> QED
      BY <1>7, <2>1, <3>1, <3>2 DEF ClientOK
  <2>2. CASE d # c
    <3>1. mbox'[d] = after(d) /\ owes'[d] = owes[d] /\ believes'[d] = believes[d]
      BY <1>0, <1>4, <1>6, <2>2 DEF TypeOK
    <3>2. /\ p'.shutdown_pending \subseteq r.p.shutdown_pending
          /\ p'.sleep_pending \subseteq r.p.sleep_pending
          /\ d \in p'.clients <=> d \in r.p.clients
          /\ ActivityOf(p') = ActivityOf(r.p)
      BY <1>2, <1>8, <2>2 DEF PowerContext, Forget, ActivityOf
    <3> QED
      BY <1>5, <3>1, <3>2 DEF ClientOK
  <2> QED
    BY <2>1, <2>2
<1>16. ClientsOK'
  BY <1>15 DEF ClientsOK
<1>17. Switches
  BY <1>1, <1>4, <1>13 DEF Call, Switches, IInv
<1> QED
  BY <1>9, <1>10, <1>14, <1>16, <1>17 DEF IInv

---------------------------------------------------------------------------
(* The invariant, and what follows from it.                                *)

\* Nobody is registered and nothing is queued at the start.
LEMMA InitHolds == Init => IInv
<1> SUFFICES ASSUME Init PROVE IInv
  OBVIOUS
<1>1. TypeOK
  BY DEF Init, TypeOK, PowerInit, PowerContext, PowerStateNames
<1>2. RoundOK(p) /\ Answered(p) \subseteq prepared
  BY DEF Init, PowerInit, RoundOK, Answered
<1>3. ASSUME NEW c \in Clients
      PROVE  ClientOK(p, c, WillOwe(mbox[c], owes[c]), WillBelieve(mbox[c], believes[c]))
  <2>1. WillOwe(mbox[c], owes[c]) = "nothing" /\ WillBelieve(mbox[c], believes[c]) = "normal"
    BY HearNothing DEF Init
  <2> QED
    BY <2>1 DEF Init, PowerInit, ClientOK
<1> QED
  BY <1>1, <1>2, <1>3 DEF IInv, ClientsOK

\* Every step keeps it, and switches the power off only as it may.
LEMMA StepHolds == IInv /\ [Next]_vars => IInv' /\ Switches
<1> SUFFICES ASSUME IInv, [Next]_vars PROVE IInv' /\ Switches
  OBVIOUS
<1>1. CASE ReadingChanges
  BY <1>1, QuietStep DEF ReadingChanges, ClientSide, IInv, TypeOK
<1>2. CASE HandlePowerEvent \/ CompleteInit \/ PowerOffRequest
  BY <1>2, RoundCalls
<1>3. ASSUME NEW c \in Clients, Register(c) \/ AllowSleep(c) \/ ProhibitSleep(c)
      PROVE  IInv' /\ Switches
  BY <1>3, ClientCalls
<1>4. ASSUME NEW c \in Clients, Unregister(c)
      PROVE  IInv' /\ Switches
  BY <1>4, Leaving
<1>5. ASSUME NEW c \in Clients, ClientReads(c)
      PROVE  IInv' /\ Switches
  BY <1>5, Reading
<1>6. ASSUME NEW c \in Clients, ShutdownAnswer(c)
      PROVE  IInv' /\ Switches
  BY <1>6, AnswerToShutdown
<1>7. ASSUME NEW c \in Clients, SleepAnswer(c)
      PROVE  IInv' /\ Switches
  BY <1>7, AnswerToSleep
<1>8. CASE UNCHANGED vars
  BY <1>8, QuietStep DEF vars, IInv, TypeOK
<1> QED
  BY <1>1, <1>2, <1>3, <1>4, <1>5, <1>6, <1>7, <1>8 DEF Next

\* The inductive invariant holds in every behaviour, for any clients.
THEOREM PowerManagerInvariant == Spec => []IInv
<1>1. IInv /\ [Next]_vars => IInv'
  BY StepHolds
<1> QED
  BY InitHolds, <1>1, PTL DEF Spec

\* The variables keep their types: no call of a client, registered or not, and
\* no order of messages takes app_power out of its states.
THEOREM PowerManagerTypes == Spec => []TypeOK
<1>1. IInv => TypeOK
  BY DEF IInv
<1> QED
  BY <1>1, PowerManagerInvariant, PTL

\* What a client will owe, it owes now or has in its queue.
LEMMA WillOweIsAsked ==
  ASSUME IInv, NEW c \in Clients
  PROVE  /\ WillOwe(mbox[c], owes[c]) = "shutdown" => WillAnswerShutdown(c)
         /\ WillOwe(mbox[c], owes[c]) = "sleep" => WillAnswerSleep(c)
<1> DEFINE s == mbox[c]
           x == LastOf(s, Indications, "none")
<1>1. s \in Seq(Messages4Clients)
  BY DEF IInv, TypeOK
<1>2. x # "none" => \E n \in DOMAIN s : s[n] = x
  <2> HIDE DEF s
  <2> QED
    BY <1>1, LastOfIsOne
<1>3. WillOwe(mbox[c], owes[c]) = Request(x, owes[c])
  BY DEF WillOwe
<1> HIDE DEF x
<1> QED
  BY <1>2, <1>3 DEF Request, WillAnswerShutdown, WillAnswerSleep, Holds

\* The power manager waits only for clients that are registered and that were
\* asked and have not answered; a NOTIFIED state waits for somebody.
THEOREM NobodyWaitsForTheUnasked == Spec => []WaitsOnlyForTheAsked
<1>1. IInv => WaitsOnlyForTheAsked
  <2> SUFFICES ASSUME IInv PROVE WaitsOnlyForTheAsked
    OBVIOUS
  <2>1. p.shutdown_pending \cup p.sleep_pending \subseteq Clients
    BY DEF IInv, TypeOK, PowerContext
  <2>2. ASSUME NEW c \in p.shutdown_pending PROVE WillAnswerShutdown(c)
    BY <2>1, WillOweIsAsked DEF IInv, ClientsOK, ClientOK
  <2>3. ASSUME NEW c \in p.sleep_pending PROVE WillAnswerSleep(c)
    BY <2>1, WillOweIsAsked DEF IInv, ClientsOK, ClientOK
  <2> QED
    BY <2>2, <2>3 DEF IInv, RoundOK, WaitsOnlyForTheAsked
<1> QED
  BY <1>1, PowerManagerInvariant, PTL

\* The user's request ends with the round it began, whoever is registered.
THEOREM RequestIsNeverLeftOver == Spec => []RequestEndsWithRound
<1>1. IInv => RequestEndsWithRound
  BY DEF IInv, RoundOK, RequestEndsWithRound
<1> QED
  BY <1>1, PowerManagerInvariant, PTL

\* What every registered client believes once it has read its queue is what
\* the power manager is doing, or nothing at all.
THEOREM EveryClientLearnsTheEnd == Spec => []CancelReachesEveryone
<1>1. IInv => CancelReachesEveryone
  <2> SUFFICES ASSUME IInv, NEW c \in p.clients
               PROVE  LET news == Keep(mbox[c], Messages4Clients \ {"POWER_OFF"})
                          view == IF news = << >> THEN believes[c]
                                  ELSE Belief("normal", news[Len(news)])
                      IN  view \in {Activity, "normal"}
    BY DEF CancelReachesEveryone
  <2> DEFINE s == mbox[c]
             news == Keep(s, News)
             last == news[Len(news)]
             view == IF news = << >> THEN believes[c] ELSE Belief("normal", last)
  <2>1. c \in Clients /\ s \in Seq(Messages4Clients)
    BY DEF IInv, TypeOK, PowerContext
  <2>2. WillBelieve(s, believes[c]) \in {ActivityOf(p), "normal"}
    BY <2>1 DEF IInv, ClientsOK, ClientOK
  <2>3. ActivityOf(p) = Activity
    BY DEF ActivityOf, Activity
  <2>4. WillBelieve(s, believes[c]) = view
    <3>1. news \in Seq(Messages4Clients \cap News)
      BY <2>1, KeepType
    <3>2. CASE news = << >>
      BY <3>2 DEF WillBelieve, LastOf, Belief, Request, Cancelled
    <3>3. CASE news # << >>
      <4>1. last \in News
        <5> HIDE DEF news
        <5> QED
          BY <3>1, <3>3, EmptySeq, LenProperties, ElementOfSeq
      <4>2. WillBelieve(s, believes[c]) = Belief(believes[c], last)
        BY <3>3 DEF WillBelieve, LastOf
      <4> HIDE DEF news, last
      <4>3. Belief(believes[c], last) = Belief("normal", last)
        BY <4>1 DEF Belief, Request, Cancelled, News, Messages4Clients
      <4> QED
        BY <3>3, <4>2, <4>3
    <3> QED
      BY <3>2, <3>3
  <2>5. view \in {Activity, "normal"}
    BY <2>2, <2>3, <2>4
  <2> QED
    BY <2>5 DEF News
<1> QED
  BY <1>1, PowerManagerInvariant, PTL

\* The power goes off only when every client registered at that moment has
\* answered in the round that is under way.
THEOREM PowerGoesOffPrepared == Spec => OffOnlyWhenPrepared
<1>1. IInv /\ [Next]_vars => [power' = "off" /\ power = "on" => p.clients \subseteq prepared']_vars
  BY StepHolds DEF Switches
<1> QED
  BY <1>1, PowerManagerInvariant, PTL DEF Spec, OffOnlyWhenPrepared

\* The power goes off only while the charger lets it.
THEOREM PowerGoesOffAllowed == Spec => OffOnlyWhenAllowed
<1>1. IInv /\ [Next]_vars => [power' = "off" /\ power = "on" => readings.can_power_off]_vars
  BY StepHolds DEF Switches
<1> QED
  BY <1>1, PowerManagerInvariant, PTL DEF Spec, OffOnlyWhenAllowed
=============================================================================
