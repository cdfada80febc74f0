------------------------- MODULE RadioSharing_proofs -------------------------
(***************************************************************************)
(* The safety properties of the scan manager over the connection library,  *)
(* proved for any table of features, any other features that start and     *)
(* stop, and any number of messages on their way.                          *)
(***************************************************************************)
EXTENDS RadioSharing, Keeping_proofs, FiniteSetTheorems

---------------------------------------------------------------------------
(* The requests on their way to the controller.                            *)

BandwidthMessages == [id : {"BANDWIDTH_START", "BANDWIDTH_STOP"}, slot : 1 .. Len(Registered)]
ScanRequests      == [id : {"WRITE_SCAN_ENABLE_REQ"}, mode : SUBSET Scans]
ScanConfirms      == [id : {"WRITE_SCAN_ENABLE_CFM"}, outstanding : Int]
Messages          == BandwidthMessages \cup ScanRequests \cup ScanConfirms

Requests(q) == {n \in DOMAIN q : q[n].id = "WRITE_SCAN_ENABLE_REQ"}

\* At most one request is queued; the library counts it and the commands of the
\* controller; and the last of them all asks for the scans in up.
Library(q, commands4, scans, out, up) ==
  /\ out = Len(commands4) + Cardinality(Requests(q))
  /\ \A n, k \in Requests(q) : n = k
  /\ \A n \in Requests(q) : q[n].mode = up
  /\ Requests(q) = {} => IF commands4 = << >> THEN scans = up
                                              ELSE commands4[Len(commands4)] = up

\* The confirmation that no request is left
LastConfirm(q) == \E n \in DOMAIN q : q[n].id = "WRITE_SCAN_ENABLE_CFM" /\ q[n].outstanding = 0

\* How many requests are queued, if there are not two of them.
LEMMA RequestCount ==
  ASSUME NEW q, \A n, k \in Requests(q) : n = k
  PROVE  Cardinality(Requests(q)) = IF Requests(q) = {} THEN 0 ELSE 1
<1>1. CASE Requests(q) = {}
  BY <1>1, FS_EmptySet
<1>2. CASE Requests(q) # {}
  <2>1. PICK n : n \in Requests(q)
    BY <1>2
  <2>2. Requests(q) = {n}
    BY <2>1
  <2> QED
    BY <1>2, <2>2, FS_Singleton
<1> QED
  BY <1>1, <1>2

\* Any other message leaves the library as it is.
LEMMA LibraryOther ==
  ASSUME NEW q \in Seq(Messages), NEW m \in Messages, m.id # "WRITE_SCAN_ENABLE_REQ",
         NEW commands4, NEW scans, NEW out, NEW up, Library(q, commands4, scans, out, up)
  PROVE  Library(Append(q, m), commands4, scans, out, up)
<1>1. /\ DOMAIN q = 1 .. Len(q) /\ Len(q) \in Nat
      /\ DOMAIN Append(q, m) = 1 .. Len(q) + 1
      /\ \A n \in 1 .. Len(q) : Append(q, m)[n] = q[n]
      /\ Append(q, m)[Len(q) + 1] = m
  BY AppendProperties, LenProperties
<1>2. Requests(Append(q, m)) = Requests(q)
  BY <1>1 DEF Requests
<1>3. \A n \in Requests(q) : Append(q, m)[n] = q[n]
  BY <1>1 DEF Requests
<1> QED
  BY <1>2, <1>3 DEF Library

\* A request replaces the one that is queued, or is one more.
LEMMA LibraryReplaces ==
  ASSUME NEW q \in Seq(Messages), NEW commands4 \in Seq(SUBSET Scans), NEW scans, NEW out, NEW up,
         Library(q, commands4, scans, out, up), NEW mode \in SUBSET Scans,
         NEW rest \in Seq(Messages), Requests(rest) = {}
  PROVE  LET r == Append(rest, [id |-> "WRITE_SCAN_ENABLE_REQ", mode |-> mode])
         IN  Library(r, commands4, scans, out + (IF Requests(q) # {} THEN 0 ELSE 1), mode)
<1> DEFINE m == [id |-> "WRITE_SCAN_ENABLE_REQ", mode |-> mode]
           r == Append(rest, m)
<1>1. /\ DOMAIN rest = 1 .. Len(rest) /\ Len(rest) \in Nat
      /\ DOMAIN r = 1 .. Len(rest) + 1
      /\ \A n \in 1 .. Len(rest) : r[n] = rest[n]
      /\ r[Len(rest) + 1] = m
  BY AppendProperties, LenProperties
<1>2. Requests(r) = {Len(rest) + 1}
  <2>1. m.id = "WRITE_SCAN_ENABLE_REQ"
    OBVIOUS
  <2> HIDE DEF m, r
  <2> QED
    BY <1>1, <2>1 DEF Requests
<1>3. Cardinality(Requests(r)) = 1
  BY <1>2, FS_Singleton
<1>4. Cardinality(Requests(q)) = IF Requests(q) = {} THEN 0 ELSE 1
  BY RequestCount DEF Library
<1>5. r[Len(rest) + 1].mode = mode
  BY <1>1
<1>6. Len(commands4) \in Nat
  BY LenProperties
<1> HIDE DEF r
<1> DEFINE more == IF Requests(q) # {} THEN 0 ELSE 1
<1>0. out = Len(commands4) + Cardinality(Requests(q))
  BY DEF Library
<1>7. out + more = Len(commands4) + Cardinality(Requests(r))
  <2>1. CASE Requests(q) = {}
    <3>1. Cardinality(Requests(q)) = 0 /\ more = 1
      BY <1>4, <2>1
    <3> QED
      BY <1>0, <1>3, <1>6, <3>1
  <2>2. CASE Requests(q) # {}
    <3>1. Cardinality(Requests(q)) = 1 /\ more = 0
      BY <1>4, <2>2
    <3> QED
      BY <1>0, <1>3, <1>6, <3>1
  <2> QED
    BY <2>1, <2>2
<1> HIDE DEF more
<1>8. Library(r, commands4, scans, out + more, mode)
  BY <1>2, <1>5, <1>7 DEF Library
<1> QED
  BY <1>8 DEF r, more

\* The requests behind the first message
LEMMA RequestsBehind ==
  ASSUME NEW q \in Seq(Messages), q # << >>
  PROVE  /\ \A n \in Requests(Tail(q)) : n + 1 \in Requests(q) /\ Tail(q)[n] = q[n + 1]
         /\ \A n \in Requests(q) : n # 1 => n - 1 \in Requests(Tail(q))
         /\ 1 \in Requests(q) <=> Head(q).id = "WRITE_SCAN_ENABLE_REQ"
<1>1. /\ DOMAIN q = 1 .. Len(q) /\ Len(q) \in Nat \ {0}
      /\ DOMAIN Tail(q) = 1 .. Len(q) - 1
      /\ \A n \in 1 .. Len(q) - 1 : Tail(q)[n] = q[n + 1]
      /\ Head(q) = q[1]
  BY HeadTailProperties, LenProperties, EmptySeq
<1> QED
  BY <1>1 DEF Requests

\* Delivery of a message that is no request
LEMMA LibraryTail ==
  ASSUME NEW q \in Seq(Messages), q # << >>, Head(q).id # "WRITE_SCAN_ENABLE_REQ",
         NEW commands4, NEW scans, NEW out, NEW up, Library(q, commands4, scans, out, up)
  PROVE  Library(Tail(q), commands4, scans, out, up)
<1>1. /\ \A n \in Requests(Tail(q)) : n + 1 \in Requests(q) /\ Tail(q)[n] = q[n + 1]
      /\ \A n \in Requests(q) : n - 1 \in Requests(Tail(q))
  BY RequestsBehind
<1>2. Requests(Tail(q)) \subseteq Nat /\ Requests(q) \subseteq Nat
  BY HeadTailProperties, LenProperties DEF Requests
<1>3. \A n, k \in Requests(Tail(q)) : n = k
  BY <1>1, <1>2 DEF Library
<1>4. Requests(Tail(q)) = {} <=> Requests(q) = {}
  BY <1>1
<1>5. Cardinality(Requests(Tail(q))) = Cardinality(Requests(q))
  BY <1>3, <1>4, RequestCount DEF Library
<1> QED
  BY <1>1, <1>3, <1>4, <1>5 DEF Library

\* Delivery of the request, which gives the controller one command more
LEMMA LibraryRequest ==
  ASSUME NEW q \in Seq(Messages), q # << >>, Head(q).id = "WRITE_SCAN_ENABLE_REQ",
         NEW commands4 \in Seq(SUBSET Scans), NEW scans, NEW out, NEW up,
         Library(q, commands4, scans, out, up), Head(q).mode \in SUBSET Scans
  PROVE  Library(Tail(q), Append(commands4, Head(q).mode), scans, out, up)
<1>1. /\ \A n \in Requests(Tail(q)) : n + 1 \in Requests(q)
      /\ 1 \in Requests(q)
  BY RequestsBehind
<1>2. Requests(Tail(q)) \subseteq Nat \ {0}
  BY HeadTailProperties, LenProperties DEF Requests
<1>3. Requests(Tail(q)) = {}
  BY <1>1, <1>2 DEF Library
<1>4. Cardinality(Requests(q)) = 1 /\ Cardinality(Requests(Tail(q))) = 0
  BY <1>1, <1>3, RequestCount DEF Library
<1>5. Head(q).mode = up
  BY <1>1, HeadTailProperties DEF Library
<1> DEFINE a == Append(commands4, Head(q).mode)
<1>6. Len(a) = Len(commands4) + 1 /\ Len(commands4) \in Nat /\ a # << >> /\ a[Len(a)] = up
  BY <1>5, AppendProperties, LenProperties
<1> HIDE DEF a
<1>7. Library(Tail(q), a, scans, out, up)
  BY <1>3, <1>4, <1>6 DEF Library
<1> QED
  BY <1>7 DEF a

\* The controller carries out its first command.
LEMMA LibraryCarriesOut ==
  ASSUME NEW q, NEW commands4 \in Seq(SUBSET Scans), commands4 # << >>, NEW scans, NEW out, NEW up,
         Library(q, commands4, scans, out, up)
  PROVE  Library(q, Tail(commands4), Head(commands4), out - 1, up)
<1>1. /\ Len(commands4) \in Nat \ {0} /\ Len(Tail(commands4)) = Len(commands4) - 1
      /\ Head(commands4) = commands4[1]
      /\ \A n \in 1 .. Len(commands4) - 1 : Tail(commands4)[n] = commands4[n + 1]
      /\ Tail(commands4) \in Seq(SUBSET Scans)
  BY HeadTailProperties, LenProperties, EmptySeq
<1> DEFINE rest == Tail(commands4)
<1>0. rest = << >> <=> Len(commands4) = 1
  <2> HIDE DEF rest
  <2> QED
    BY <1>1, EmptySeq DEF rest
<1>2. Cardinality(Requests(q)) \in Nat
  BY RequestCount DEF Library
<1>3. Requests(q) = {} => IF Tail(commands4) = << >> THEN Head(commands4) = up
                          ELSE Tail(commands4)[Len(Tail(commands4))] = up
  BY <1>0, <1>1 DEF Library
<1> QED
  BY <1>1, <1>2, <1>3 DEF Library

\* What the removal of a queued request leaves
LEMMA WithoutRequests ==
  ASSUME NEW q \in Seq(Messages)
  PROVE  LET rest == Without(q, {"WRITE_SCAN_ENABLE_REQ"})
         IN  /\ rest \in Seq(Messages) /\ Requests(rest) = {}
             /\ LastConfirm(q) => LastConfirm(rest)
             /\ \A m \in ToSet(q) : m.id # "WRITE_SCAN_ENABLE_REQ" => m \in ToSet(rest)
<1> DEFINE ids  == {"WRITE_SCAN_ENABLE_REQ"}
           rest == Without(q, ids)
<1> HIDE DEF ids
<1>1. /\ rest \in Seq(Messages)
      /\ \A n \in DOMAIN rest : rest[n].id \notin ids
      /\ \A n \in DOMAIN q : q[n].id \notin ids =>
           \E k \in DOMAIN rest : rest[k] = q[n]
  BY WithoutIs
<1> HIDE DEF rest
<1>2. Requests(rest) = {}
  BY <1>1 DEF Requests, ids
<1>3. LastConfirm(q) => LastConfirm(rest)
  BY <1>1 DEF LastConfirm, ids
<1>4. \A m \in ToSet(q) : m.id # "WRITE_SCAN_ENABLE_REQ" => m \in ToSet(rest)
  BY <1>1 DEF ToSet, ids
<1> QED
  BY <1>1, <1>2, <1>3, <1>4 DEF rest, ids

---------------------------------------------------------------------------
(* Sequences and the least of a set.                                       *)

\* A set of numbers that is not empty has a least one.
LEMMA MinIsLeast ==
  ASSUME NEW A \in SUBSET Nat, A # {}
  PROVE  Min(A) \in A /\ \A a \in A : Min(A) <= a
<1>1. PICK b \in A : \A n \in A : <<n, b>> \notin OpToRel(<, Nat)
  BY NatLessThanWellFounded, WFMin
<1>2. ASSUME NEW n \in A PROVE b =< n
  <2>1. n \in Nat /\ b \in Nat
    OBVIOUS
  <2>2. ~(n < b)
    BY <1>1, <2>1 DEF OpToRel
  <2> QED
    BY <2>1, <2>2
<1> QED
  BY <1>2 DEF Min

\* One element is taken out of a sequence.
LEMMA RemoveAtIs ==
  ASSUME NEW S, NEW s \in Seq(S), NEW i \in 1 .. Len(s)
  PROVE  /\ RemoveAt(s, i) \in Seq(S) /\ Len(RemoveAt(s, i)) = Len(s) - 1
         /\ \A n \in 1 .. Len(s) - 1 : RemoveAt(s, i)[n] = IF n < i THEN s[n] ELSE s[n + 1]
BY TakenOut DEF RemoveAt

---------------------------------------------------------------------------
(* Worlds.                                                                 *)

ScanStates  == {"DISABLED", "ENABLING", "DISABLING", "ENABLED"}
ClientTasks == {"handset", "pairing"}

Contexts == [state : ScanStates, clients : Seq([task : ClientTasks, type : ScanTypes]),
             type : ScanTypes, params : ScanTypes \cup {THROTTLE, NoParams}]

Worlds ==
  [slots : Seq(Features), running : SUBSET Features, throttled : SUBSET Features,
   ctx : [Scans -> Contexts], disabler : BOOLEAN,
   outstanding : Int, commands : Seq(SUBSET Scans), scanning : SUBSET Scans,
   queue : Seq(Messages), answer : {"none", "disabled", "enabled"}]

\* The table holds every feature once more, in some order.
TableOK(table) == ToSet(table) = Features /\ Len(table) = Len(Registered)

\* A client is on the list of a scan once.
ClientsOK(c, clients) ==
  /\ ToSet(clients) \subseteq [task : Users(c), type : ScanTypes]
  /\ \A n, k \in DOMAIN clients : clients[n].task = clients[k].task => n = k

Typed(w) ==
  /\ w \in Worlds
  /\ TableOK(w.slots)
  /\ w.throttled \subseteq w.running
  /\ \A c \in Scans : ClientsOK(c, w.ctx[c].clients)

\* What the bandwidth manager leaves alone
SameScans(w, r) ==
  /\ r.ctx = w.ctx /\ r.disabler = w.disabler /\ r.outstanding = w.outstanding
  /\ r.commands = w.commands /\ r.scanning = w.scanning /\ r.answer = w.answer

\* A feature starts or stops: entries move, and a message may be posted.
Shuffled(w, r) ==
  /\ r \in Worlds /\ TableOK(r.slots) /\ SameScans(w, r)
  /\ r.queue = w.queue \/ \E m \in BandwidthMessages : r.queue = Append(w.queue, m)

\* Every feature has a slot.
LEMMA SlotOfIs ==
  ASSUME NEW w, Typed(w), NEW f \in Features
  PROVE  SlotOf(w, f) \in DOMAIN w.slots /\ w.slots[SlotOf(w, f)] = f
<1>1. \E n \in DOMAIN w.slots : w.slots[n] = f
  BY DEF Typed, TableOK, ToSet
<1> QED
  BY <1>1 DEF SlotOf

\* A message is posted.
LEMMA ActIs ==
  ASSUME NEW w \in Worlds, NEW kind \in {"BANDWIDTH_START", "BANDWIDTH_STOP"},
         NEW slot \in 1 .. Len(Registered)
  PROVE  LET m == [id |-> kind, slot |-> slot]
         IN  /\ m \in BandwidthMessages
             /\ Act(w, kind, slot) = [w EXCEPT !.queue = Append(w.queue, m)]
             /\ Append(w.queue, m) \in Seq(Messages)
<1> DEFINE m == [id |-> kind, slot |-> slot]
           q == w.queue
<1>1. m \in BandwidthMessages /\ q \in Seq(Messages)
  BY DEF BandwidthMessages, Worlds
<1>2. Act(w, kind, slot) = [w EXCEPT !.queue = Append(w.queue, m)]
  BY DEF Act, Worlds
<1> HIDE DEF m, q
<1>3. Append(q, m) \in Seq(Messages)
  BY <1>1, AppendProperties DEF Messages
<1> QED
  BY <1>1, <1>2, <1>3 DEF m, q

\* A start has been posted; a stop that still points to its feature has.
StartPosted(w)   == \E m \in ToSet(w.queue) : m.id = "BANDWIDTH_START"
StopPosted(w, f) == \E m \in ToSet(w.queue) : m.id = "BANDWIDTH_STOP" /\ w.slots[m.slot] = f

\* A message that is sent is in the queue, with those that were there.
LEMMA AppendIsLast ==
  ASSUME NEW S, NEW q \in Seq(S), NEW m \in S
  PROVE  ToSet(Append(q, m)) = ToSet(q) \cup {m}
<1>1. /\ DOMAIN q = 1 .. Len(q) /\ Len(q) \in Nat
      /\ DOMAIN Append(q, m) = 1 .. Len(q) + 1
      /\ \A n \in 1 .. Len(q) : Append(q, m)[n] = q[n]
      /\ Append(q, m)[Len(q) + 1] = m
  BY AppendProperties, LenProperties
<1> QED
  BY <1>1 DEF ToSet

\* BandwidthManager_FeatureStart
LEMMA FeatureStartIs ==
  ASSUME NEW w, Typed(w), NEW f \in Features
  PROVE  LET r == FeatureStart(w, f)
         IN  /\ Shuffled(w, r) /\ r.running = w.running \cup {f} /\ r.throttled = w.throttled
             /\ f \in w.running => r = w
             /\ f \notin w.running => StartPosted(r)
<1> DEFINE r == FeatureStart(w, f)
<1> SUFFICES /\ Shuffled(w, r) /\ r.running = w.running \cup {f} /\ r.throttled = w.throttled
             /\ f \in w.running => r = w
             /\ f \notin w.running => StartPosted(r)
  OBVIOUS
<1>0. w \in Worlds
  BY DEF Typed
<1>1. CASE f \in w.running
  BY <1>0, <1>1 DEF FeatureStart, Shuffled, SameScans, Typed, Worlds
<1>2. CASE f \notin w.running
  <2> DEFINE here == SlotOf(w, f)
             idle == {n \in 1 .. here - 1 : w.slots[n] \notin w.running}
             slot == IF idle = {} THEN here ELSE Min(idle)
             t == w.slots
             table == [t EXCEPT ![here] = t[slot], ![slot] = f]
             m == [id |-> "BANDWIDTH_START", slot |-> slot]
             moved == [w EXCEPT !.running = @ \cup {f}, !.throttled = @ \ {f}, !.slots = table]
  <2>1. r = Act(moved, "BANDWIDTH_START", slot)
    BY <1>2 DEF FeatureStart
  <2>2. /\ t \in Seq(Features) /\ DOMAIN t = 1 .. Len(t) /\ Len(t) \in Nat
        /\ Len(t) = Len(Registered) /\ ToSet(t) = Features
        /\ here \in 1 .. Len(t) /\ t[here] = f
    BY <1>0, SlotOfIs, LenProperties DEF Worlds, Typed, TableOK
  <2> HIDE DEF here
  <2>3. slot \in 1 .. here
    <3>1. idle \in SUBSET Nat /\ idle \subseteq 1 .. here - 1
      BY <2>2
    <3> HIDE DEF idle
    <3>2. CASE idle = {}
      BY <2>2, <3>2
    <3>3. CASE idle # {}
      <4>1. Min(idle) \in 1 .. here - 1 /\ slot = Min(idle)
        BY <3>1, <3>3, MinIsLeast
      <4> QED
        BY <2>2, <4>1
    <3> QED
      BY <3>2, <3>3
  <2> HIDE DEF slot, t
  <2>4. table \in [1 .. Len(t) -> Features]
    BY <2>2, <2>3, ElementOfSeq
  <2>5. table \in Seq(Features) /\ Len(table) = Len(t) /\ DOMAIN table = 1 .. Len(t)
    <3> HIDE DEF table
    <3> QED
      BY <2>2, <2>4, IsASeq, LenProperties
  <2>6. ToSet(table) = ToSet(t)
    <3>1. ToSet(table) \subseteq ToSet(t)
      BY <2>2, <2>3 DEF ToSet
    <3>2. ASSUME NEW n \in DOMAIN t PROVE \E k \in DOMAIN table : table[k] = t[n]
      <4>1. CASE n = here
        BY <2>2, <2>3, <2>5, <4>1
      <4>2. CASE n = slot /\ n # here
        BY <2>2, <2>3, <2>5, <4>2
      <4>3. CASE n # slot /\ n # here
        BY <2>2, <2>3, <2>5, <4>3
      <4> QED
        BY <4>1, <4>2, <4>3
    <3> HIDE DEF table
    <3> QED
      BY <3>1, <3>2 DEF ToSet
  <2> HIDE DEF table
  <2>7. /\ moved \in Worlds /\ moved.queue = w.queue /\ moved.slots = table
        /\ moved.running = w.running \cup {f} /\ moved.throttled = w.throttled \ {f}
        /\ SameScans(w, moved)
    BY <1>0, <2>5 DEF Worlds, SameScans
  <2>8. slot \in 1 .. Len(Registered)
    BY <2>2, <2>3
  <2> HIDE DEF moved, m, r
  <2>9. /\ m \in BandwidthMessages /\ r = [moved EXCEPT !.queue = Append(w.queue, m)]
        /\ Append(w.queue, m) \in Seq(Messages)
    BY <2>1, <2>7, <2>8, ActIs DEF m
  <2>10. /\ r \in Worlds /\ r.slots = table /\ r.running = w.running \cup {f}
         /\ r.throttled = w.throttled \ {f} /\ r.queue = Append(w.queue, m) /\ SameScans(w, r)
    BY <2>7, <2>9 DEF Worlds, SameScans
  <2>11. w.throttled \ {f} = w.throttled
    BY <1>2 DEF Typed
  <2>12. StartPosted(r)
    <3>1. m.id = "BANDWIDTH_START"
      BY DEF m
    <3>2. w.queue \in Seq(Messages) /\ m \in Messages
      BY <1>0, <2>9 DEF Worlds, Messages
    <3> QED
      BY <2>10, <3>1, <3>2, AppendIsLast DEF StartPosted
  <2> QED
    BY <1>2, <2>2, <2>5, <2>6, <2>9, <2>10, <2>11, <2>12 DEF Shuffled, TableOK
<1> QED
  BY <1>1, <1>2

\* BandwidthManager_FeatureStop
LEMMA FeatureStopIs ==
  ASSUME NEW w, Typed(w), NEW f \in Features
  PROVE  LET r == FeatureStop(w, f)
         IN  /\ Shuffled(w, r) /\ r.running = w.running \ {f}
             /\ r.throttled = w.throttled \ {f}
             /\ f \in w.running => StopPosted(r, f)
<1> DEFINE r == FeatureStop(w, f)
<1> SUFFICES /\ Shuffled(w, r) /\ r.running = w.running \ {f}
             /\ r.throttled = w.throttled \ {f}
             /\ f \in w.running => StopPosted(r, f)
  OBVIOUS
<1>0. w \in Worlds
  BY DEF Typed
<1>1. CASE f \notin w.running
  BY <1>0, <1>1 DEF FeatureStop, Shuffled, SameScans, Typed, Worlds
<1>2. CASE f \in w.running
  <2> DEFINE here == SlotOf(w, f)
             t == w.slots
             last == Len(t)
             moves == here < last /\ w.slots[here + 1] \in w.running
             table == IF moves THEN Append(RemoveAt(t, here), f) ELSE t
             slot == IF moves THEN last ELSE here
             m == [id |-> "BANDWIDTH_STOP", slot |-> slot]
             moved == [w EXCEPT !.running = @ \ {f}, !.throttled = @ \ {f}, !.slots = table]
  <2>1. r = Act(moved, "BANDWIDTH_STOP", slot)
    BY <1>2 DEF FeatureStop
  <2>2. /\ t \in Seq(Features) /\ DOMAIN t = 1 .. last /\ last \in Nat
        /\ last = Len(Registered) /\ ToSet(t) = Features
        /\ here \in 1 .. last /\ t[here] = f
    BY <1>0, SlotOfIs, LenProperties DEF Worlds, Typed, TableOK
  <2> HIDE DEF here, t, last, moves
  <2>3. slot \in 1 .. Len(Registered)
    BY <2>2
  <2>4. TableOK(table) /\ table \in Seq(Features) /\ table[slot] = f
    <3>1. CASE ~moves
      BY <2>2, <3>1 DEF TableOK, last, slot
    <3>2. CASE moves
      <4> DEFINE short == RemoveAt(t, here)
                 long == Append(short, f)
      <4>1. /\ short \in Seq(Features) /\ Len(short) = last - 1
            /\ \A n \in 1 .. last - 1 : short[n] = IF n < here THEN t[n] ELSE t[n + 1]
        BY <2>2, RemoveAtIs DEF last
      <4> HIDE DEF short
      <4>2. /\ long \in Seq(Features) /\ Len(long) = last /\ DOMAIN long = 1 .. last
            /\ \A n \in 1 .. last - 1 : long[n] = short[n]
            /\ long[last] = f
        BY <2>2, <4>1, AppendProperties, LenProperties
      <4> HIDE DEF long
      <4>3. ASSUME NEW n \in 1 .. last PROVE \E k \in 1 .. last : long[k] = t[n]
        <5>1. CASE n = here
          BY <2>2, <4>2, <5>1
        <5>2. CASE n < here
          BY <2>2, <4>1, <4>2, <5>2
        <5>3. CASE n > here
          <6>1. n - 1 \in 1 .. last - 1 /\ ~(n - 1 < here) /\ (n - 1) + 1 = n
            BY <2>2, <5>3
          <6> QED
            BY <4>1, <4>2, <6>1
        <5> QED
          BY <2>2, <5>1, <5>2, <5>3
      <4>4. ToSet(long) \subseteq Features
        BY <2>2, <4>2, ElementOfSeq DEF ToSet
      <4>5. ToSet(long) = Features
        <5>1. ASSUME NEW x \in Features PROVE x \in ToSet(long)
          <6>1. PICK n \in 1 .. last : t[n] = x
            BY <2>2 DEF ToSet
          <6> QED
            BY <4>2, <4>3, <6>1 DEF ToSet
        <5> QED
          BY <4>4, <5>1
      <4>6. table = long
        BY <3>2 DEF long, short
      <4>7. slot = last
        BY <3>2 DEF slot
      <4> QED
        BY <2>2, <4>2, <4>5, <4>6, <4>7 DEF TableOK
    <3> QED
      BY <3>1, <3>2
  <2> HIDE DEF table, slot
  <2>5. /\ moved \in Worlds /\ moved.queue = w.queue /\ moved.slots = table
        /\ moved.running = w.running \ {f} /\ moved.throttled = w.throttled \ {f}
        /\ SameScans(w, moved)
    BY <1>0, <2>4 DEF Worlds, SameScans
  <2> HIDE DEF moved, m, r
  <2>6. /\ m \in BandwidthMessages /\ r = [moved EXCEPT !.queue = Append(w.queue, m)]
        /\ Append(w.queue, m) \in Seq(Messages)
    BY <2>1, <2>3, <2>5, ActIs DEF m
  <2>7. /\ r \in Worlds /\ r.slots = table /\ r.running = w.running \ {f}
        /\ r.throttled = w.throttled \ {f} /\ r.queue = Append(w.queue, m) /\ SameScans(w, r)
    BY <2>5, <2>6 DEF Worlds, SameScans
  <2>8. StopPosted(r, f)
    <3>1. m.id = "BANDWIDTH_STOP" /\ m.slot = slot
      BY DEF m
    <3>2. w.queue \in Seq(Messages) /\ m \in Messages
      BY <1>0, <2>6 DEF Worlds, Messages
    <3> QED
      BY <2>4, <2>7, <3>1, <3>2, AppendIsLast DEF StopPosted
  <2> QED
    BY <2>4, <2>6, <2>7, <2>8 DEF Shuffled
<1> QED
  BY <1>1, <1>2

---------------------------------------------------------------------------
(* The types that clients ask for.                                         *)

\* The highest of some types is one of them.
LEMMA MaxOfTypes ==
  ASSUME NEW A \in SUBSET ScanTypes, PENDING_RELEASE \in A
  PROVE  Max(A) \in A /\ \A a \in A : Max(A) >= a
<1>1. ScanTypes = 0 .. 2 /\ PENDING_RELEASE = 0
  BY DEF ScanTypes, PENDING_RELEASE, SLOW, FAST
<1>2. \E b \in A : \A a \in A : b >= a
  <2>1. CASE 2 \in A
    BY <1>1, <2>1
  <2>2. CASE 2 \notin A /\ 1 \in A
    BY <1>1, <2>2
  <2>3. CASE 2 \notin A /\ 1 \notin A
    BY <1>1, <2>3
  <2> QED
    BY <2>1, <2>2, <2>3
<1> QED
  BY <1>2 DEF Max

\* A scan is wanted when a client has not released it.
LEMMA WantedTypeIs ==
  ASSUME NEW k, NEW T, ToSet(k.clients) \subseteq [task : T, type : ScanTypes]
  PROVE  /\ WantedType(k) \in ScanTypes
         /\ WantedType(k) = PENDING_RELEASE
              <=> \A e \in ToSet(k.clients) : e.type = PENDING_RELEASE
<1> DEFINE A == {PENDING_RELEASE} \cup {e.type : e \in ToSet(k.clients)}
<1>1. A \in SUBSET ScanTypes /\ PENDING_RELEASE \in A
  BY DEF ScanTypes
<1>2. WantedType(k) = Max(A)
  BY DEF WantedType
<1>3. A = {PENDING_RELEASE} <=> \A e \in ToSet(k.clients) : e.type = PENDING_RELEASE
  OBVIOUS
<1> HIDE DEF A
<1>4. Max(A) \in A /\ \A a \in A : Max(A) >= a
  BY <1>1, MaxOfTypes
<1>5. A = {PENDING_RELEASE} <=> Max(A) = PENDING_RELEASE
  <2>1. A \subseteq 0 .. 2 /\ PENDING_RELEASE = 0 /\ 0 \in A
    BY <1>1 DEF ScanTypes, PENDING_RELEASE, SLOW, FAST
  <2>2. A = {0} => Max(A) = 0
    BY <1>4
  <2>3. Max(A) = 0 => \A a \in A : a = 0
    BY <1>4, <2>1
  <2> QED
    BY <2>1, <2>2, <2>3
<1> QED
  BY <1>1, <1>2, <1>3, <1>4, <1>5

\* A client that is on the list asks for another type.
LEMMA SetTypeKeeps ==
  ASSUME NEW c \in Scans, NEW clients \in Seq([task : ClientTasks, type : ScanTypes]),
         ClientsOK(c, clients), NEW client, NEW type \in ScanTypes
  PROVE  LET set == SetType(clients, client, type)
         IN  set \in Seq([task : ClientTasks, type : ScanTypes]) /\ ClientsOK(c, set)
<1> DEFINE E == [task : ClientTasks, type : ScanTypes]
           set == SetType(clients, client, type)
<1>1. DOMAIN clients = 1 .. Len(clients) /\ Len(clients) \in Nat
      /\ \A n \in 1 .. Len(clients) : clients[n] \in E
  BY LenProperties, ElementOfSeq
<1>2. \A n \in DOMAIN clients : clients[n] \in [task : Users(c), type : ScanTypes]
  BY DEF ClientsOK, ToSet
<1>3. /\ DOMAIN set = DOMAIN clients
      /\ set = [n \in 1 .. Len(clients) |-> set[n]]
      /\ \A n \in DOMAIN clients :
           set[n] \in E /\ set[n] \in [task : Users(c), type : ScanTypes]
           /\ set[n].task = clients[n].task
  BY <1>1, <1>2 DEF SetType
<1> HIDE DEF set, E
<1>4. set \in Seq(E)
  BY <1>1, <1>3, IsASeq
<1>5. ClientsOK(c, set)
  <2>1. \A n, k \in DOMAIN set : set[n].task = set[k].task => n = k
    BY <1>3 DEF ClientsOK
  <2>2. \A n \in DOMAIN set : set[n] \in [task : Users(c), type : ScanTypes]
    BY <1>3
  <2> QED
    BY <2>1, <2>2 DEF ClientsOK, ToSet
<1> QED
  BY <1>4, <1>5 DEF set, E

\* A new client is added to the list.
LEMMA NewClientKeeps ==
  ASSUME NEW c \in Scans, NEW clients \in Seq([task : ClientTasks, type : ScanTypes]),
         ClientsOK(c, clients), NEW client \in Users(c), NEW type \in ScanTypes,
         \A n \in DOMAIN clients : clients[n].task # client
  PROVE  LET more == Append(clients, [task |-> client, type |-> type])
         IN  more \in Seq([task : ClientTasks, type : ScanTypes]) /\ ClientsOK(c, more)
<1> DEFINE E == [task : ClientTasks, type : ScanTypes]
           e == [task |-> client, type |-> type]
           more == Append(clients, e)
<1>0. e \in E /\ e \in [task : Users(c), type : ScanTypes] /\ e.task = client
  BY DEF Users, ClientTasks
<1>1. \A n \in DOMAIN clients : clients[n] \in [task : Users(c), type : ScanTypes]
  BY DEF ClientsOK, ToSet
<1> HIDE DEF E, e
<1>2. clients \in Seq(E)
  BY DEF E
<1>3. /\ DOMAIN clients = 1 .. Len(clients) /\ Len(clients) \in Nat
      /\ DOMAIN more = 1 .. Len(clients) + 1 /\ more \in Seq(E)
      /\ \A n \in 1 .. Len(clients) : more[n] = clients[n]
      /\ more[Len(clients) + 1] = e
  BY <1>0, <1>2, AppendProperties, LenProperties
<1> HIDE DEF more
<1>4. \A n \in DOMAIN more : more[n] \in [task : Users(c), type : ScanTypes]
  BY <1>0, <1>1, <1>3
<1>5. \A n, k \in DOMAIN more : more[n].task = more[k].task => n = k
  BY <1>0, <1>3 DEF ClientsOK
<1> QED
  BY <1>3, <1>4, <1>5 DEF ClientsOK, ToSet, more, E, e

\* A client that has released the scan leaves the list.
LEMMA RemovePendingKeeps ==
  ASSUME NEW c \in Scans, NEW clients \in Seq([task : ClientTasks, type : ScanTypes]),
         ClientsOK(c, clients)
  PROVE  LET left == RemovePendingRelease(clients)
         IN  /\ left \in Seq([task : ClientTasks, type : ScanTypes]) /\ ClientsOK(c, left)
             /\ ToSet(left) \subseteq ToSet(clients)
<1> DEFINE E == [task : ClientTasks, type : ScanTypes]
           pending == {n \in DOMAIN clients : clients[n].type = PENDING_RELEASE}
           left == RemovePendingRelease(clients)
<1>1. DOMAIN clients = 1 .. Len(clients) /\ Len(clients) \in Nat
  BY LenProperties
<1>2. CASE pending = {}
  BY <1>2 DEF RemovePendingRelease
<1>3. CASE pending # {}
  <2> DEFINE i == Min(pending)
  <2>1. i \in 1 .. Len(clients)
    <3>1. pending \in SUBSET Nat /\ pending \subseteq 1 .. Len(clients)
      BY <1>1
    <3> HIDE DEF pending
    <3> QED
      BY <1>3, <3>1, MinIsLeast
  <2>2. left = RemoveAt(clients, i)
    BY <1>3 DEF RemovePendingRelease
  <2> HIDE DEF i, left, E
  <2>3. clients \in Seq(E)
    BY DEF E
  <2>4. /\ left \in Seq(E) /\ Len(left) = Len(clients) - 1
        /\ \A n \in 1 .. Len(clients) - 1 : left[n] = IF n < i THEN clients[n] ELSE clients[n + 1]
    BY <2>1, <2>2, <2>3, RemoveAtIs
  <2>5. DOMAIN left = 1 .. Len(clients) - 1
    BY <2>4, LenProperties
  <2> DEFINE from(n) == IF n < i THEN n ELSE n + 1
  <2>6. \A n \in DOMAIN left : from(n) \in DOMAIN clients /\ left[n] = clients[from(n)]
    BY <1>1, <2>1, <2>4, <2>5
  <2>7. \A n, k \in DOMAIN left : from(n) = from(k) => n = k
    BY <1>1, <2>1, <2>5
  <2> HIDE DEF from
  <2>8. ToSet(left) \subseteq ToSet(clients)
    BY <2>6 DEF ToSet
  <2>9. ClientsOK(c, left)
    BY <2>6, <2>7, <2>8 DEF ClientsOK
  <2> QED
    BY <2>4, <2>8, <2>9 DEF left, E
<1> QED
  BY <1>2, <1>3

---------------------------------------------------------------------------
(* The inductive invariant.                                                *)

\* The scans that are on or are being turned on
Up(w) == {c \in Scans : w.ctx[c].state \in {"ENABLED", "ENABLING"}}

LibraryOK(w) == Library(w.queue, w.commands, w.scanning, w.outstanding, Up(w))

\* A context waits for a request, or for the confirmation that none is left.
Moving(w) ==
  (\E c \in Scans : w.ctx[c].state \in {"ENABLING", "DISABLING"}) =>
    w.outstanding > 0 \/ LastConfirm(w.queue)

\* The bandwidth manager counts page scan while it is enabled and, if it was
\* enabled, while it is being disabled.
PageOK(w) ==
  /\ w.ctx["page"].state = "ENABLED" => "PAGE_SCAN" \in w.running
  /\ w.ctx["page"].state = "DISABLED" => "PAGE_SCAN" \notin w.running

\* A scan has the parameters of its type, unless it throttles.
ParamsOK(w) ==
  \A c \in Up(w) : (c = "page" => "PAGE_SCAN" \notin w.throttled) =>
    w.ctx[c].params = w.ctx[c].type

AnswerOK(w) == w.disabler /\ w.answer = "disabled" => AllDisabled(w)

\* A context is as its clients want it, but for the controller's answer.
Wanting(w, c) ==
  IF c \in Up(w) THEN ~w.disabler /\ w.ctx[c].type = WantedType(w.ctx[c])
                 ELSE w.disabler \/ WantedType(w.ctx[c]) = PENDING_RELEASE

\* What holds also between two steps of a call
Base(w) == Typed(w) /\ LibraryOK(w) /\ PageOK(w) /\ ParamsOK(w) /\ AnswerOK(w)

Good(w) == Base(w) /\ Moving(w) /\ \A c \in Scans : Wanting(w, c)

IInv == Good(World)

---------------------------------------------------------------------------
(* Throttling, while the other features are of the highest priority: a     *)
(* throttled page scan with none of them has a stop to come that points to *)
(* one of them still, and one that is not throttled beside them a start.   *)

Throttling(w) ==
  /\ w.running \subseteq Others \cup {"PAGE_SCAN"} /\ w.throttled \subseteq {"PAGE_SCAN"}
  /\ "PAGE_SCAN" \in w.throttled /\ w.running \cap Others = {} =>
       \E f \in Others : StopPosted(w, f)
  /\ "PAGE_SCAN" \in w.running \ w.throttled /\ w.running \cap Others # {} => StartPosted(w)

\* The bandwidth manager's table and its messages are kept.
Kept(w, r) ==
  /\ r.slots = w.slots /\ r.running = w.running /\ r.throttled = w.throttled
  /\ \A m \in ToSet(w.queue) : m.id \in {"BANDWIDTH_START", "BANDWIDTH_STOP"} => m \in ToSet(r.queue)

\* Who keeps them keeps to the throttling.
LEMMA KeptThrottling ==
  ASSUME NEW w, NEW r, Kept(w, r), Throttling(w)
  PROVE  Throttling(r)
<1>1. \A f : StopPosted(w, f) => StopPosted(r, f)
  BY DEF Kept, StopPosted
<1>2. StartPosted(w) => StartPosted(r)
  BY DEF Kept, StartPosted
<1> QED
  BY <1>1, <1>2 DEF Throttling, Kept

---------------------------------------------------------------------------
(* The scan manager's functions.                                           *)

\* The parts that a change of a context leaves alone
SameButContexts(w, r) ==
  /\ r.slots = w.slots /\ r.running = w.running /\ r.throttled = w.throttled
  /\ r.disabler = w.disabler /\ r.outstanding = w.outstanding /\ r.commands = w.commands
  /\ r.scanning = w.scanning /\ r.queue = w.queue /\ r.answer = w.answer

\* A context is changed.
LEMMA ContextIs ==
  ASSUME NEW w, Typed(w), NEW c \in Scans, NEW k \in Contexts, ClientsOK(c, k.clients)
  PROVE  LET r == [w EXCEPT !.ctx[c] = k]
         IN  /\ Typed(r) /\ SameButContexts(w, r) /\ r.ctx[c] = k
             /\ \A d \in Scans \ {c} : r.ctx[d] = w.ctx[d]
<1> DEFINE r == [w EXCEPT !.ctx[c] = k]
<1>1. w \in Worlds /\ w.ctx \in [Scans -> Contexts]
  BY DEF Typed, Worlds
<1>2. r.ctx = [w.ctx EXCEPT ![c] = k]
  BY <1>1 DEF Worlds
<1>3. r \in Worlds /\ SameButContexts(w, r)
  <2>1. [w.ctx EXCEPT ![c] = k] \in [Scans -> Contexts]
    BY <1>1
  <2> QED
    BY <1>1, <2>1 DEF Worlds, SameButContexts
<1> HIDE DEF r
<1>4. r.ctx[c] = k /\ \A d \in Scans \ {c} : r.ctx[d] = w.ctx[d]
  BY <1>1, <1>2
<1>5. Typed(r)
  BY <1>3, <1>4 DEF Typed, SameButContexts
<1> QED
  BY <1>3, <1>4, <1>5 DEF r

\* bredrScanManager_ConnectionWriteScanEnable: the new request is the last one.
LEMMA WriteScanEnableIs ==
  ASSUME NEW w, Typed(w), NEW up,
         Library(w.queue, w.commands, w.scanning, w.outstanding, up)
  PROVE  LET r == WriteScanEnable(w)
         IN  /\ Typed(r) /\ LibraryOK(r) /\ r.outstanding > 0
             /\ r.ctx = w.ctx /\ r.slots = w.slots /\ r.running = w.running
             /\ r.throttled = w.throttled /\ r.disabler = w.disabler /\ r.answer = w.answer
             /\ \A a \in ToSet(w.queue) : a.id # "WRITE_SCAN_ENABLE_REQ" => a \in ToSet(r.queue)
<1> DEFINE r == WriteScanEnable(w)
           mode == Up(w)
           rest == Without(w.queue, {"WRITE_SCAN_ENABLE_REQ"})
           m == [id |-> "WRITE_SCAN_ENABLE_REQ", mode |-> mode]
           q == Append(rest, m)
           more == IF Requests(w.queue) # {} THEN 0 ELSE 1
<1>1. /\ w \in Worlds /\ w.queue \in Seq(Messages) /\ w.commands \in Seq(SUBSET Scans)
      /\ w.outstanding \in Int
  BY DEF Typed, Worlds
<1>2. r = [w EXCEPT !.queue = q, !.outstanding = w.outstanding + more]
  <2>1. Queued(w, "WRITE_SCAN_ENABLE_REQ") <=> Requests(w.queue) # {}
    BY DEF Queued, Requests
  <2> QED
    BY <1>1, <2>1 DEF WriteScanEnable, ConnectionWriteScanEnable, Up, Worlds
<1>3. mode \in SUBSET Scans
  BY DEF Up
<1> HIDE DEF mode, r
<1>4. /\ rest \in Seq(Messages) /\ Requests(rest) = {}
      /\ \A a \in ToSet(w.queue) : a.id # "WRITE_SCAN_ENABLE_REQ" => a \in ToSet(rest)
  BY <1>1, WithoutRequests
<1> HIDE DEF rest
<1>5. Library(q, w.commands, w.scanning, w.outstanding + more, mode)
  BY <1>1, <1>3, <1>4, LibraryReplaces
<1>6. q \in Seq(Messages) /\ ToSet(rest) \subseteq ToSet(q)
  <2>1. m \in Messages
    BY <1>3 DEF Messages, ScanRequests
  <2> HIDE DEF m
  <2> QED
    BY <1>4, <2>1, AppendProperties, AppendIsLast
<1>7. Requests(q) # {}
  <2>1. q[Len(rest) + 1] = m /\ Len(rest) + 1 \in DOMAIN q
    BY <1>4, AppendProperties, LenProperties
  <2>2. m.id = "WRITE_SCAN_ENABLE_REQ"
    OBVIOUS
  <2> HIDE DEF q, m
  <2> QED
    BY <2>1, <2>2 DEF Requests
<1> HIDE DEF q
<1>8. more \in Int /\ w.outstanding + more \in Int
  BY <1>1
<1> HIDE DEF more
<1>9. /\ r \in Worlds /\ r.queue = q /\ r.outstanding = w.outstanding + more
      /\ r.commands = w.commands /\ r.scanning = w.scanning
      /\ r.ctx = w.ctx /\ r.slots = w.slots /\ r.running = w.running
      /\ r.throttled = w.throttled /\ r.disabler = w.disabler /\ r.answer = w.answer
  BY <1>1, <1>2, <1>6, <1>8 DEF Worlds
<1>10. LibraryOK(r)
  BY <1>5, <1>9 DEF LibraryOK, Up, mode
<1>11. r.outstanding > 0
  <2>1. Cardinality(Requests(q)) = 1
    BY <1>5, <1>7, RequestCount DEF Library
  <2>2. Len(w.commands) \in Nat
    BY <1>1, LenProperties
  <2> QED
    BY <1>5, <1>9, <2>1, <2>2 DEF Library
<1>12. Typed(r)
  BY <1>9 DEF Typed
<1>13. \A a \in ToSet(w.queue) : a.id # "WRITE_SCAN_ENABLE_REQ" => a \in ToSet(r.queue)
  BY <1>4, <1>6, <1>9
<1> QED
  BY <1>9, <1>10, <1>11, <1>12, <1>13 DEF r

\* bredrScanManager_InstanceRefresh: the context gets what its clients want.
LEMMA RefreshIs ==
  ASSUME NEW w, Base(w), NEW c \in Scans
  PROVE  LET r == Refresh(w, c)
         IN  /\ Base(r) /\ Wanting(r, c) /\ (Moving(w) => Moving(r))
             /\ r.disabler = w.disabler /\ r.answer = w.answer
             /\ \A d \in Scans \ {c} : r.ctx[d] = w.ctx[d]
             /\ Kept(w, r)
<1> DEFINE r == Refresh(w, c)
           k == w.ctx[c]
           type == WantedType(k)
           enable == ~w.disabler /\ type # PENDING_RELEASE
           asked == [k EXCEPT !.params = type, !.type = type]
           on == [asked EXCEPT !.state = "ENABLING"]
           off == [k EXCEPT !.state = "DISABLING"]
<1> SUFFICES /\ Base(r) /\ Wanting(r, c) /\ (Moving(w) => Moving(r))
             /\ r.disabler = w.disabler /\ r.answer = w.answer
             /\ \A d \in Scans \ {c} : r.ctx[d] = w.ctx[d]
             /\ Kept(w, r)
  OBVIOUS
<1>1. /\ Typed(w) /\ LibraryOK(w) /\ PageOK(w) /\ ParamsOK(w) /\ AnswerOK(w)
      /\ w \in Worlds /\ w.ctx \in [Scans -> Contexts] /\ k \in Contexts
      /\ ClientsOK(c, k.clients) /\ w.disabler \in BOOLEAN
  BY DEF Base, Typed, Worlds
<1>2. type \in ScanTypes
  BY <1>1, WantedTypeIs DEF ClientsOK
<1>3. /\ asked \in Contexts /\ asked.clients = k.clients /\ asked.state = k.state
      /\ asked.params = type /\ asked.type = type
  BY <1>1, <1>2 DEF Contexts
<1>4. /\ on \in Contexts /\ on.clients = k.clients /\ on.state = "ENABLING"
      /\ on.params = type /\ on.type = type
  BY <1>1, <1>2 DEF Contexts, ScanStates
<1>5. off \in Contexts /\ off.clients = k.clients /\ off.state = "DISABLING"
  BY <1>1 DEF Contexts, ScanStates
<1>6. k.state \in ScanStates
  BY <1>1 DEF Contexts
<1>7. WantedType(asked) = type /\ WantedType(on) = type /\ WantedType(off) = type
  BY <1>3, <1>4, <1>5 DEF WantedType
<1>8. CASE enable /\ k.state \in {"DISABLED", "DISABLING"}
  <2> DEFINE s == [w EXCEPT !.ctx[c] = on]
  <2>1. r = WriteScanEnable(s)
    BY <1>1, <1>8 DEF Refresh, SetGoal, SetState, UpdateScanActivity, Worlds, Contexts
  <2> HIDE DEF r, type, enable, asked, on
  <2>2. /\ Typed(s) /\ SameButContexts(w, s) /\ s.ctx[c] = on
        /\ \A d \in Scans \ {c} : s.ctx[d] = w.ctx[d]
    BY <1>1, <1>4, ContextIs
  <2> HIDE DEF s, k
  <2>3. Library(s.queue, s.commands, s.scanning, s.outstanding, Up(w))
    BY <1>1, <2>2 DEF LibraryOK, SameButContexts
  <2>4. /\ Typed(r) /\ LibraryOK(r) /\ r.outstanding > 0
        /\ r.ctx = s.ctx /\ r.running = w.running
        /\ r.throttled = w.throttled /\ r.disabler = w.disabler /\ r.answer = w.answer
        /\ Kept(w, r)
    BY <2>1, <2>2, <2>3, WriteScanEnableIs DEF SameButContexts, Kept
  <2>5. r.ctx[c] = on /\ \A d \in Scans \ {c} : r.ctx[d] = w.ctx[d]
    BY <2>2, <2>4
  <2>6. Up(r) = Up(w) \cup {c}
    BY <1>4, <2>5 DEF Up
  <2>7. ParamsOK(r)
    <3>1. ASSUME NEW d \in Up(r), d = "page" => "PAGE_SCAN" \notin r.throttled
          PROVE  r.ctx[d].params = r.ctx[d].type
      <4>1. CASE d = c
        BY <1>4, <2>5, <4>1
      <4>2. CASE d # c
        <5>1. d \in Up(w) /\ d \in Scans
          BY <2>4, <2>6, <4>2 DEF Up
        <5> QED
          BY <1>1, <1>4, <2>5, <2>4, <2>6, <3>1, <4>2, <5>1 DEF ParamsOK, SameButContexts
      <4> QED
        BY <4>1, <4>2
    <3> QED
      BY <3>1 DEF ParamsOK
  <2>8. PageOK(r)
    BY <1>1, <1>4, <2>4, <2>5 DEF PageOK, Scans
  <2>9. AnswerOK(r) /\ Wanting(r, c)
    BY <1>4, <1>7, <1>8, <2>4, <2>5, <2>6 DEF AnswerOK, Wanting, enable
  <2> QED
    BY <2>4, <2>5, <2>7, <2>8, <2>9 DEF Base, Moving
<1>9. CASE enable /\ k.state \in {"ENABLED", "ENABLING"}
  <2>1. r = [w EXCEPT !.ctx[c] = asked]
    BY <1>1, <1>9 DEF Refresh, SetGoal, SetState, UpdateScanActivity, Worlds, Contexts
  <2> HIDE DEF r, type, enable, asked, on
  <2>2. /\ Typed(r) /\ SameButContexts(w, r) /\ r.ctx[c] = asked
        /\ \A d \in Scans \ {c} : r.ctx[d] = w.ctx[d]
    BY <1>1, <1>3, <2>1, ContextIs
  <2>3. \A d \in Scans : r.ctx[d].state = w.ctx[d].state
    BY <1>3, <2>2
  <2>4. Up(r) = Up(w) /\ c \in Up(r)
    BY <1>9, <2>3 DEF Up
  <2>5. LibraryOK(r) /\ PageOK(r) /\ (Moving(w) => Moving(r))
    BY <1>1, <2>2, <2>3, <2>4 DEF LibraryOK, PageOK, Moving, SameButContexts, Scans
  <2>6. ParamsOK(r)
    <3>1. ASSUME NEW d \in Up(r), d = "page" => "PAGE_SCAN" \notin r.throttled
          PROVE  r.ctx[d].params = r.ctx[d].type
      <4>1. CASE d = c
        BY <1>3, <2>2, <4>1
      <4>2. CASE d # c
        <5>1. d \in Up(w) /\ d \in Scans
          BY <2>4, <4>2 DEF Up
        <5> QED
          BY <1>1, <1>3, <2>2, <2>4, <3>1, <4>2, <5>1 DEF ParamsOK, SameButContexts
      <4> QED
        BY <4>1, <4>2
    <3> QED
      BY <3>1 DEF ParamsOK
  <2>7. AnswerOK(r) /\ Wanting(r, c)
    BY <1>3, <1>7, <1>9, <2>2, <2>4 DEF AnswerOK, Wanting, enable, SameButContexts
  <2> QED
    BY <2>2, <2>5, <2>6, <2>7 DEF Base, SameButContexts, Kept
<1>10. CASE ~enable /\ k.state \in {"ENABLED", "ENABLING"}
  <2> DEFINE s == [w EXCEPT !.ctx[c] = off]
  <2>1. r = WriteScanEnable(s)
    BY <1>1, <1>10 DEF Refresh, SetGoal, SetState, Worlds, Contexts
  <2> HIDE DEF r, type, enable, asked, on, off
  <2>2. /\ Typed(s) /\ SameButContexts(w, s) /\ s.ctx[c] = off
        /\ \A d \in Scans \ {c} : s.ctx[d] = w.ctx[d]
    BY <1>1, <1>5, ContextIs
  <2> HIDE DEF s
  <2>3. Library(s.queue, s.commands, s.scanning, s.outstanding, Up(w))
    BY <1>1, <2>2 DEF LibraryOK, SameButContexts
  <2>4. /\ Typed(r) /\ LibraryOK(r) /\ r.outstanding > 0
        /\ r.ctx = s.ctx /\ r.running = w.running
        /\ r.throttled = w.throttled /\ r.disabler = w.disabler /\ r.answer = w.answer
        /\ Kept(w, r)
    BY <2>1, <2>2, <2>3, WriteScanEnableIs DEF SameButContexts, Kept
  <2>5. r.ctx[c] = off /\ \A d \in Scans \ {c} : r.ctx[d] = w.ctx[d]
    BY <2>2, <2>4
  <2>6. Up(r) = Up(w) \ {c}
    BY <1>5, <2>5 DEF Up
  <2>7. ParamsOK(r)
    <3>1. ASSUME NEW d \in Up(r), d = "page" => "PAGE_SCAN" \notin r.throttled
          PROVE  r.ctx[d].params = r.ctx[d].type
      <4>1. CASE d = c
        BY <2>5, <2>6, <4>1
      <4>2. CASE d # c
        <5>1. d \in Up(w) /\ d \in Scans
          BY <2>4, <2>6, <4>2 DEF Up
        <5> QED
          BY <1>1, <2>5, <2>6, <2>4, <2>6, <3>1, <4>2, <5>1 DEF ParamsOK, SameButContexts
      <4> QED
        BY <4>1, <4>2
    <3> QED
      BY <3>1 DEF ParamsOK
  <2>8. PageOK(r)
    BY <1>1, <1>5, <2>4, <2>5 DEF PageOK, Scans
  <2>9. AnswerOK(r)
    BY <1>1, <1>10, <2>4 DEF AnswerOK, AllDisabled
  <2>10. Wanting(r, c)
    BY <1>7, <1>10, <2>4, <2>5, <2>6 DEF Wanting, enable
  <2> QED
    BY <2>4, <2>5, <2>7, <2>8, <2>9, <2>10 DEF Base, Moving
<1>11. CASE ~enable /\ k.state \in {"DISABLED", "DISABLING"}
  <2>1. r = w
    BY <1>1, <1>11 DEF Refresh, SetGoal
  <2> HIDE DEF r
  <2>2. Wanting(w, c)
    BY <1>11 DEF Wanting, Up
  <2> QED
    BY <2>1, <2>2 DEF Kept
<1> QED
  BY <1>6, <1>8, <1>9, <1>10, <1>11 DEF ScanStates

\* The bandwidth manager's calls leave the library and the contexts as they are.
LEMMA ShuffledKeeps ==
  ASSUME NEW w, Typed(w), NEW r, Shuffled(w, r), r.throttled \subseteq r.running, NEW up,
         Library(w.queue, w.commands, w.scanning, w.outstanding, up)
  PROVE  /\ Typed(r) /\ Library(r.queue, r.commands, r.scanning, r.outstanding, up)
         /\ LastConfirm(w.queue) => LastConfirm(r.queue)
<1>1. /\ r.commands = w.commands /\ r.scanning = w.scanning /\ r.outstanding = w.outstanding
      /\ r.ctx = w.ctx /\ r \in Worlds /\ TableOK(r.slots) /\ w.queue \in Seq(Messages)
  BY DEF Shuffled, SameScans, Typed, Worlds
<1>2. Typed(r)
  BY <1>1 DEF Typed
<1>3. CASE r.queue = w.queue
  BY <1>1, <1>2, <1>3
<1>4. CASE \E m \in BandwidthMessages : r.queue = Append(w.queue, m)
  <2>1. PICK m \in BandwidthMessages : r.queue = Append(w.queue, m)
    BY <1>4
  <2>2. m \in Messages /\ m.id # "WRITE_SCAN_ENABLE_REQ"
    BY DEF Messages, BandwidthMessages
  <2>3. Library(r.queue, w.commands, w.scanning, w.outstanding, up)
    BY <1>1, <2>1, <2>2, LibraryOther
  <2>4. LastConfirm(w.queue) => LastConfirm(r.queue)
    BY <1>1, <2>1, <2>2, AppendProperties, LenProperties DEF LastConfirm
  <2> QED
    BY <1>1, <1>2, <2>3, <2>4
<1> QED
  BY <1>3, <1>4 DEF Shuffled

\* bredrScanManager_InstanceCompleteTransition: the context comes to rest.
LEMMA CompleteTransitionIs ==
  ASSUME NEW w, Base(w), NEW c \in Scans
  PROVE  LET r == CompleteTransition(w, c)
         IN  /\ Base(r) /\ r.ctx[c].state \in {"ENABLED", "DISABLED"}
             /\ r.disabler = w.disabler /\ r.answer = w.answer
             /\ \A d \in Scans \ {c} : r.ctx[d] = w.ctx[d]
             /\ \A d \in Scans : Wanting(w, d) => Wanting(r, d)
             /\ Throttling(w) => Throttling(r)
<1> DEFINE r == CompleteTransition(w, c)
           k == w.ctx[c]
           on == [k EXCEPT !.state = "ENABLED"]
           off == [k EXCEPT !.state = "DISABLED"]
           left == RemovePendingRelease(k.clients)
           gone == [off EXCEPT !.clients = left]
<1> SUFFICES /\ Base(r) /\ r.ctx[c].state \in {"ENABLED", "DISABLED"}
             /\ r.disabler = w.disabler /\ r.answer = w.answer
             /\ \A d \in Scans \ {c} : r.ctx[d] = w.ctx[d]
             /\ \A d \in Scans : Wanting(w, d) => Wanting(r, d)
             /\ Throttling(w) => Throttling(r)
  OBVIOUS
<1>1. /\ Typed(w) /\ LibraryOK(w) /\ PageOK(w) /\ ParamsOK(w) /\ AnswerOK(w)
      /\ w \in Worlds /\ w.ctx \in [Scans -> Contexts] /\ k \in Contexts
      /\ k.clients \in Seq([task : ClientTasks, type : ScanTypes])
      /\ ClientsOK(c, k.clients) /\ w.throttled \subseteq w.running
  BY DEF Base, Typed, Worlds, Contexts
<1>2. "PAGE_SCAN" \in Features
  BY PageScanAssumption
<1>3. CASE k.state = "ENABLING"
  <2> DEFINE s == [w EXCEPT !.ctx[c] = on]
  <2>1. r = IF c = "page" THEN FeatureStart(s, "PAGE_SCAN") ELSE s
    BY <1>1, <1>3 DEF CompleteTransition, SetState, Worlds, Contexts
  <2>2. on \in Contexts /\ on.state = "ENABLED" /\ on.clients = k.clients
        /\ on.type = k.type /\ on.params = k.params
    BY <1>1 DEF Contexts, ScanStates
  <2> HIDE DEF r, on
  <2>3. /\ Typed(s) /\ SameButContexts(w, s) /\ s.ctx[c] = on
        /\ \A d \in Scans \ {c} : s.ctx[d] = w.ctx[d]
    BY <1>1, <2>2, ContextIs
  <2> HIDE DEF s, k
  <2>4. Library(s.queue, s.commands, s.scanning, s.outstanding, Up(w))
    BY <1>1, <2>3 DEF LibraryOK, SameButContexts
  <2>5. /\ Typed(r) /\ r.ctx = s.ctx /\ r.disabler = w.disabler /\ r.answer = w.answer
        /\ Library(r.queue, r.commands, r.scanning, r.outstanding, Up(w))
        /\ r.throttled = w.throttled
        /\ r.running = w.running \cup (IF c = "page" THEN {"PAGE_SCAN"} ELSE {})
        /\ Throttling(w) => Throttling(r)
    <3>0. Kept(w, s)
      BY <2>3 DEF SameButContexts, Kept
    <3>1. CASE c = "page"
      <4>1. /\ Shuffled(s, r) /\ r.running = s.running \cup {"PAGE_SCAN"} /\ r.throttled = s.throttled
            /\ "PAGE_SCAN" \in s.running => r = s
            /\ "PAGE_SCAN" \notin s.running => StartPosted(r)
        BY <1>2, <2>1, <2>3, <3>1, FeatureStartIs
      <4>0. Throttling(s) => Throttling(r)
        <5>1. CASE "PAGE_SCAN" \in s.running
          BY <4>1, <5>1
        <5>2. CASE "PAGE_SCAN" \notin s.running
          BY <2>3, <4>1, <5>2 DEF Throttling, Typed
        <5> QED
          BY <5>1, <5>2
      <4>2. r.throttled \subseteq r.running
        BY <2>3, <4>1 DEF Typed
      <4>3. Typed(r) /\ Library(r.queue, r.commands, r.scanning, r.outstanding, Up(w))
        BY <2>3, <2>4, <4>1, <4>2, ShuffledKeeps
      <4> QED
        BY <2>3, <3>0, <3>1, <4>0, <4>1, <4>3, KeptThrottling DEF Shuffled, SameScans, SameButContexts
    <3>2. CASE c # "page"
      BY <2>1, <2>3, <2>4, <3>0, <3>2, KeptThrottling DEF SameButContexts
    <3> QED
      BY <3>1, <3>2
  <2>6. r.ctx[c] = on /\ \A d \in Scans \ {c} : r.ctx[d] = w.ctx[d]
    BY <2>3, <2>5
  <2>7. Up(r) = Up(w) /\ c \in Up(w)
    BY <1>3, <2>2, <2>6 DEF Up, k
  <2>8. ParamsOK(r)
    <3>1. \A d \in Scans : r.ctx[d].params = w.ctx[d].params /\ r.ctx[d].type = w.ctx[d].type
      BY <2>2, <2>6 DEF k
    <3>2. Up(w) \subseteq Scans
      BY DEF Up
    <3> QED
      BY <1>1, <2>5, <2>7, <3>1, <3>2 DEF ParamsOK
  <2>9. PageOK(r)
    BY <1>1, <2>2, <2>5, <2>6 DEF PageOK, Scans
  <2>10. AnswerOK(r)
    BY <1>1, <1>3, <2>5 DEF AnswerOK, AllDisabled, k
  <2>11. \A d \in Scans : Wanting(w, d) => Wanting(r, d)
    BY <2>2, <2>5, <2>6, <2>7 DEF Wanting, WantedType, k
  <2> QED
    BY <2>2, <2>5, <2>6, <2>7, <2>8, <2>9, <2>10, <2>11 DEF Base, LibraryOK
<1>4. CASE k.state = "DISABLING"
  <2> DEFINE s == [w EXCEPT !.ctx[c] = off]
             t == IF c = "page" THEN FeatureStop(s, "PAGE_SCAN") ELSE s
  <2>1. r = [t EXCEPT !.ctx[c].clients = RemovePendingRelease(@)]
    BY <1>1, <1>4 DEF CompleteTransition, SetState, Worlds, Contexts
  <2>2. off \in Contexts /\ off.state = "DISABLED" /\ off.clients = k.clients
    BY <1>1 DEF Contexts, ScanStates
  <2>3. /\ left \in Seq([task : ClientTasks, type : ScanTypes]) /\ ClientsOK(c, left)
        /\ ToSet(left) \subseteq ToSet(k.clients)
    BY <1>1, RemovePendingKeeps
  <2> HIDE DEF left
  <2>4. gone \in Contexts /\ gone.state = "DISABLED" /\ gone.clients = left
    BY <1>1, <2>3 DEF Contexts, ScanStates
  <2> HIDE DEF r, off
  <2>5. /\ Typed(s) /\ SameButContexts(w, s) /\ s.ctx[c] = off
        /\ \A d \in Scans \ {c} : s.ctx[d] = w.ctx[d]
    BY <1>1, <2>2, ContextIs
  <2> HIDE DEF s, k
  <2>6. Library(s.queue, s.commands, s.scanning, s.outstanding, Up(w))
    BY <1>1, <2>5 DEF LibraryOK, SameButContexts
  <2>7. /\ Typed(t) /\ t.ctx = s.ctx /\ t.disabler = w.disabler /\ t.answer = w.answer
        /\ Library(t.queue, t.commands, t.scanning, t.outstanding, Up(w))
        /\ t.throttled = w.throttled \ (IF c = "page" THEN {"PAGE_SCAN"} ELSE {})
        /\ t.running = w.running \ (IF c = "page" THEN {"PAGE_SCAN"} ELSE {})
        /\ Throttling(w) => Throttling(t)
    <3>9. Kept(w, s)
      BY <2>5 DEF SameButContexts, Kept
    <3>1. CASE c = "page"
      <4>0. t = FeatureStop(s, "PAGE_SCAN")
        BY <3>1
      <4> HIDE DEF t
      <4>1. /\ Shuffled(s, t) /\ t.running = s.running \ {"PAGE_SCAN"}
            /\ t.throttled = s.throttled \ {"PAGE_SCAN"}
        BY <1>2, <2>5, <4>0, FeatureStopIs
      <4>2. t.throttled \subseteq t.running
        BY <2>5, <4>1 DEF Typed
      <4>3. Typed(t) /\ Library(t.queue, t.commands, t.scanning, t.outstanding, Up(w))
        BY <2>5, <2>6, <4>1, <4>2, ShuffledKeeps
      <4>4. Throttling(s) => Throttling(t)
        BY <4>1 DEF Throttling
      <4> QED
        BY <2>5, <3>1, <3>9, <4>1, <4>3, <4>4, KeptThrottling DEF Shuffled, SameScans, SameButContexts
    <3>2. CASE c # "page"
      BY <2>5, <2>6, <3>2, <3>9, KeptThrottling DEF SameButContexts
    <3> QED
      BY <3>1, <3>2
  <2> HIDE DEF t
  <2>8. t.ctx[c] = off
    BY <2>5, <2>7
  <2>9. r = [t EXCEPT !.ctx[c] = gone]
    <3>1. t \in Worlds /\ t.ctx \in [Scans -> Contexts]
      BY <2>7 DEF Typed, Worlds
    <3> QED
      BY <2>1, <2>2, <2>8, <3>1 DEF Worlds, Contexts, left
  <2> HIDE DEF gone
  <2>10. /\ Typed(r) /\ SameButContexts(t, r) /\ r.ctx[c] = gone
         /\ \A d \in Scans \ {c} : r.ctx[d] = t.ctx[d]
    BY <2>3, <2>4, <2>7, <2>9, ContextIs
  <2>11. /\ \A d \in Scans \ {c} : r.ctx[d] = w.ctx[d]
         /\ r.disabler = w.disabler /\ r.answer = w.answer
         /\ r.throttled = w.throttled \ (IF c = "page" THEN {"PAGE_SCAN"} ELSE {})
         /\ r.running = w.running \ (IF c = "page" THEN {"PAGE_SCAN"} ELSE {})
         /\ Library(r.queue, r.commands, r.scanning, r.outstanding, Up(w))
    BY <2>5, <2>7, <2>10 DEF SameButContexts
  <2>12. Up(r) = Up(w) /\ c \notin Up(w)
    BY <1>4, <2>4, <2>10, <2>11 DEF Up, k
  <2>13. ParamsOK(r)
    <3>1. \A d \in Up(w) : d \in Scans \ {c}
      BY <2>12 DEF Up
    <3>2. \A d \in Up(w) : d = "page" => ("PAGE_SCAN" \in r.throttled <=> "PAGE_SCAN" \in w.throttled)
      BY <2>11, <3>1
    <3> QED
      BY <1>1, <2>11, <2>12, <3>1, <3>2 DEF ParamsOK
  <2>14. PageOK(r)
    BY <1>1, <2>4, <2>10, <2>11 DEF PageOK, Scans
  <2>15. AnswerOK(r)
    BY <1>1, <1>4, <2>11 DEF AnswerOK, AllDisabled, k
  <2>16. \A d \in Scans : Wanting(w, d) => Wanting(r, d)
    <3>1. ASSUME WantedType(w.ctx[c]) = PENDING_RELEASE PROVE WantedType(gone) = PENDING_RELEASE
      <4>1. \A e \in ToSet(k.clients) : e.type = PENDING_RELEASE
        BY <1>1, <3>1, WantedTypeIs DEF ClientsOK, k
      <4> QED
        BY <2>3, <2>4, <4>1, WantedTypeIs DEF ClientsOK
    <3> QED
      BY <2>10, <2>11, <2>12, <3>1 DEF Wanting
  <2>17. Throttling(w) => Throttling(r)
    <3>1. Kept(t, r)
      BY <2>10 DEF SameButContexts, Kept
    <3> QED
      BY <2>7, <3>1, KeptThrottling
  <2> QED
    BY <2>4, <2>10, <2>11, <2>12, <2>13, <2>14, <2>15, <2>16, <2>17 DEF Base, LibraryOK
<1>5. CASE k.state \in {"ENABLED", "DISABLED"}
  <2>1. r = w
    BY <1>5 DEF CompleteTransition
  <2> QED
    BY <1>5, <2>1
<1> QED
  BY <1>1, <1>3, <1>4, <1>5 DEF Contexts, ScanStates

---------------------------------------------------------------------------
(* The calls of the users.                                                 *)

\* What a context wants depends on it and on the disabler.
LEMMA WantingSame ==
  ASSUME NEW w, NEW r, NEW c \in Scans, r.ctx[c] = w.ctx[c], r.disabler = w.disabler, Wanting(w, c)
  PROVE  Wanting(r, c)
BY DEF Wanting, Up

\* The answer and the disabler are changed in a way that keeps the promise.
LEMMA AnswerIs ==
  ASSUME NEW w, Base(w), NEW d \in BOOLEAN, NEW a \in {"none", "disabled", "enabled"},
         d /\ a = "disabled" => AllDisabled(w)
  PROVE  LET r == [w EXCEPT !.disabler = d, !.answer = a]
         IN  /\ Base(r) /\ r.ctx = w.ctx /\ r.disabler = d /\ (Moving(w) => Moving(r))
             /\ Kept(w, r)
<1> DEFINE r == [w EXCEPT !.disabler = d, !.answer = a]
<1>0. w \in Worlds
  BY DEF Base, Typed
<1>1. /\ r \in Worlds /\ r.ctx = w.ctx /\ r.disabler = d /\ r.answer = a
      /\ r.slots = w.slots /\ r.running = w.running /\ r.throttled = w.throttled
      /\ r.outstanding = w.outstanding /\ r.commands = w.commands
      /\ r.scanning = w.scanning /\ r.queue = w.queue
  BY <1>0 DEF Worlds
<1> HIDE DEF r
<1>2. Up(r) = Up(w) /\ (AllDisabled(r) <=> AllDisabled(w))
  BY <1>1 DEF Up, AllDisabled
<1>3. Typed(r)
  BY <1>1 DEF Base, Typed
<1>4. LibraryOK(r) /\ PageOK(r) /\ ParamsOK(r)
  BY <1>1, <1>2 DEF Base, LibraryOK, PageOK, ParamsOK
<1>5. AnswerOK(r)
  BY <1>1, <1>2 DEF AnswerOK
<1>6. Moving(w) => Moving(r)
  BY <1>1 DEF Moving
<1> QED
  BY <1>1, <1>3, <1>4, <1>5, <1>6 DEF Base, Kept, r

\* BREDR_SCAN_MANAGER_DISABLE_CFM is sent when every scan is off.
LEMMA ConfirmKeeps ==
  ASSUME NEW w, Good(w)
  PROVE  Good(ConfirmIfDisabled(w)) /\ Kept(w, ConfirmIfDisabled(w))
<1> DEFINE r == [w EXCEPT !.disabler = w.disabler, !.answer = "disabled"]
<1>1. CASE w.disabler /\ AllDisabled(w)
  <2>0. w \in Worlds /\ w.disabler \in BOOLEAN /\ Base(w) /\ Moving(w)
    BY DEF Good, Base, Typed, Worlds
  <2>1. ConfirmIfDisabled(w) = r
    BY <1>1, <2>0 DEF ConfirmIfDisabled, DisableCfm, Worlds
  <2>2. Base(r) /\ r.ctx = w.ctx /\ r.disabler = w.disabler /\ Moving(r) /\ Kept(w, r)
    BY <1>1, <2>0, AnswerIs
  <2> HIDE DEF r
  <2>3. \A c \in Scans : Wanting(r, c)
    BY <2>2, WantingSame DEF Good
  <2> QED
    BY <2>1, <2>2, <2>3 DEF Good
<1>2. CASE ~(w.disabler /\ AllDisabled(w))
  BY <1>2 DEF ConfirmIfDisabled, Kept
<1> QED
  BY <1>1, <1>2

\* Both contexts are refreshed.
LEMMA RefreshAllIs ==
  ASSUME NEW w, Base(w), Moving(w)
  PROVE  Good(RefreshAll(w)) /\ Kept(w, RefreshAll(w))
<1> DEFINE p == Refresh(w, "page")
           r == Refresh(p, "inquiry")
<1>0. "page" \in Scans /\ "inquiry" \in Scans /\ \A c \in Scans : c = "page" \/ c = "inquiry"
  BY DEF Scans
<1>1. Base(p) /\ Wanting(p, "page") /\ Moving(p) /\ Kept(w, p)
  BY <1>0, RefreshIs
<1> HIDE DEF p
<1>2. /\ Base(r) /\ Wanting(r, "inquiry") /\ Moving(r) /\ r.disabler = p.disabler
      /\ \A d \in Scans \ {"inquiry"} : r.ctx[d] = p.ctx[d]
      /\ Kept(p, r)
  BY <1>0, <1>1, RefreshIs
<1> HIDE DEF r
<1>3. Wanting(r, "page")
  BY <1>0, <1>1, <1>2, WantingSame
<1>4. Good(r)
  BY <1>0, <1>2, <1>3 DEF Good
<1>5. Kept(w, r)
  BY <1>1, <1>2 DEF Kept
<1> QED
  BY <1>4, <1>5 DEF RefreshAll, r, p

\* BredrScanManager_ScanDisable
LEMMA ScanDisableKeeps ==
  ASSUME NEW w, Good(w)
  PROVE  LET r == ScanDisable([w EXCEPT !.answer = "none"]) IN Good(r) /\ Kept(w, r)
<1> DEFINE s == [w EXCEPT !.disabler = TRUE, !.answer = "none"]
<1>1. Base(w) /\ Moving(w) /\ w \in Worlds
  BY DEF Good, Base, Typed
<1>2. [[w EXCEPT !.answer = "none"] EXCEPT !.disabler = TRUE] = s
  BY <1>1 DEF Worlds
<1>3. Base(s) /\ Moving(s) /\ Kept(w, s)
  BY <1>1, AnswerIs
<1> HIDE DEF s
<1> DEFINE a == RefreshAll(s)
           r == ConfirmIfDisabled(a)
<1>4. Good(a) /\ Kept(s, a)
  BY <1>3, RefreshAllIs
<1> HIDE DEF a
<1>5. Good(r) /\ Kept(a, r)
  BY <1>4, ConfirmKeeps
<1> HIDE DEF r
<1>6. Kept(w, r)
  BY <1>3, <1>4, <1>5 DEF Kept
<1> QED
  BY <1>2, <1>5, <1>6 DEF ScanDisable, a, r

\* BredrScanManager_ScanEnable
LEMMA ScanEnableKeeps ==
  ASSUME NEW w, Good(w)
  PROVE  Good(ScanEnable(w)) /\ Kept(w, ScanEnable(w))
<1> DEFINE a == IF ~AllDisabled(w) /\ w.disabler THEN "enabled" ELSE w.answer
           s == [w EXCEPT !.disabler = FALSE, !.answer = a]
           told == IF ~AllDisabled(w) /\ w.disabler THEN DisableCfm(w, "enabled") ELSE w
<1>1. /\ Base(w) /\ Moving(w) /\ w \in Worlds
      /\ w.answer \in {"none", "disabled", "enabled"}
  BY DEF Good, Base, Typed, Worlds
<1>2. [told EXCEPT !.disabler = FALSE] = s
  BY <1>1 DEF DisableCfm, Worlds
<1>3. ScanEnable(w) = RefreshAll(s)
  BY <1>2 DEF ScanEnable
<1>4. a \in {"none", "disabled", "enabled"}
  BY <1>1
<1> HIDE DEF a
<1>5. Base(s) /\ Moving(s) /\ Kept(w, s)
  BY <1>1, <1>4, AnswerIs
<1> HIDE DEF s
<1> DEFINE r == RefreshAll(s)
<1>6. Good(r) /\ Kept(s, r)
  BY <1>5, RefreshAllIs
<1> HIDE DEF r
<1>7. Kept(w, r)
  BY <1>5, <1>6 DEF Kept
<1> QED
  BY <1>3, <1>6, <1>7 DEF r

\* A client comes, changes its mind or goes: its context is refreshed.
LEMMA ClientsChange ==
  ASSUME NEW w, Good(w), NEW c \in Scans,
         NEW clients \in Seq([task : ClientTasks, type : ScanTypes]), ClientsOK(c, clients)
  PROVE  LET r == Refresh([w EXCEPT !.ctx[c].clients = clients], c) IN Good(r) /\ Kept(w, r)
<1> DEFINE k == [w.ctx[c] EXCEPT !.clients = clients]
           s == [w EXCEPT !.ctx[c].clients = clients]
           r == Refresh(s, c)
<1>1. /\ Typed(w) /\ LibraryOK(w) /\ PageOK(w) /\ ParamsOK(w) /\ AnswerOK(w) /\ Moving(w)
      /\ w \in Worlds /\ w.ctx \in [Scans -> Contexts] /\ w.ctx[c] \in Contexts
  BY DEF Good, Base, Typed, Worlds
<1>2. /\ k \in Contexts /\ k.clients = clients /\ k.state = w.ctx[c].state
      /\ k.params = w.ctx[c].params /\ k.type = w.ctx[c].type
  BY <1>1 DEF Contexts
<1>3. s = [w EXCEPT !.ctx[c] = k]
  BY <1>1 DEF Worlds, Contexts
<1> HIDE DEF s, k
<1>4. /\ Typed(s) /\ SameButContexts(w, s) /\ s.ctx[c] = k
      /\ \A d \in Scans \ {c} : s.ctx[d] = w.ctx[d]
  BY <1>1, <1>2, <1>3, ContextIs
<1>5. \A d \in Scans : /\ s.ctx[d].state = w.ctx[d].state
                       /\ s.ctx[d].params = w.ctx[d].params /\ s.ctx[d].type = w.ctx[d].type
  BY <1>2, <1>4
<1>6. Up(s) = Up(w) /\ Up(w) \subseteq Scans
  BY <1>5 DEF Up
<1>7. Base(s) /\ Moving(s)
  <2>1. LibraryOK(s) /\ PageOK(s) /\ Moving(s)
    BY <1>1, <1>4, <1>5, <1>6 DEF LibraryOK, PageOK, Moving, SameButContexts, Scans
  <2>2. ParamsOK(s)
    BY <1>1, <1>4, <1>5, <1>6 DEF ParamsOK, SameButContexts
  <2>3. AnswerOK(s)
    BY <1>1, <1>4, <1>5 DEF AnswerOK, AllDisabled, SameButContexts
  <2> QED
    BY <1>4, <2>1, <2>2, <2>3 DEF Base
<1>8. /\ Base(r) /\ Wanting(r, c) /\ Moving(r) /\ r.disabler = s.disabler
      /\ \A d \in Scans \ {c} : r.ctx[d] = s.ctx[d]
      /\ Kept(s, r)
  BY <1>7, RefreshIs
<1> HIDE DEF r
<1>9. \A d \in Scans \ {c} : Wanting(r, d)
  BY <1>4, <1>8, WantingSame DEF Good, SameButContexts
<1>10. Good(r)
  BY <1>8, <1>9 DEF Good
<1>11. Kept(w, r)
  BY <1>4, <1>8 DEF Kept, SameButContexts
<1> QED
  BY <1>10, <1>11 DEF r, s

\* bredrScanManager_InstanceClientAddOrUpdate
LEMMA ClientAddOrUpdateKeeps ==
  ASSUME NEW w, Good(w), NEW c \in Scans, NEW client \in Users(c), NEW type \in ScanTypes
  PROVE  LET r == ClientAddOrUpdate(w, c, client, type) IN Good(r) /\ Kept(w, r)
<1> DEFINE old == w.ctx[c].clients
           new == IF OnList(w.ctx[c], client) THEN SetType(old, client, type)
                  ELSE Append(old, [task |-> client, type |-> type])
<1>1. /\ w \in Worlds /\ w.ctx \in [Scans -> Contexts] /\ ClientsOK(c, old)
      /\ old \in Seq([task : ClientTasks, type : ScanTypes])
  BY DEF Good, Base, Typed, Worlds, Contexts
<1>2. new \in Seq([task : ClientTasks, type : ScanTypes]) /\ ClientsOK(c, new)
  <2>1. CASE OnList(w.ctx[c], client)
    BY <1>1, <2>1, SetTypeKeeps
  <2>2. CASE ~OnList(w.ctx[c], client)
    <3>1. \A n \in DOMAIN old : old[n].task # client
      BY <2>2 DEF OnList
    <3>2. /\ Append(old, [task |-> client, type |-> type]) \in Seq([task : ClientTasks, type : ScanTypes])
          /\ ClientsOK(c, Append(old, [task |-> client, type |-> type]))
      BY <1>1, <3>1, NewClientKeeps
    <3> QED
      BY <2>2, <3>2
  <2> QED
    BY <2>1, <2>2
<1>3. ClientAddOrUpdate(w, c, client, type) = Refresh([w EXCEPT !.ctx[c].clients = new], c)
  BY <1>1 DEF ClientAddOrUpdate, Worlds
<1> HIDE DEF new
<1> QED
  BY <1>2, <1>3, ClientsChange

\* bredrScanManager_InstanceClientRemove
LEMMA ClientRemoveKeeps ==
  ASSUME NEW w, Good(w), NEW c \in Scans, NEW client
  PROVE  Good(ClientRemove(w, c, client)) /\ Kept(w, ClientRemove(w, c, client))
<1> DEFINE old == w.ctx[c].clients
           new == SetType(old, client, PENDING_RELEASE)
<1>1. CASE OnList(w.ctx[c], client)
  <2>1. /\ w \in Worlds /\ w.ctx \in [Scans -> Contexts] /\ ClientsOK(c, old)
        /\ old \in Seq([task : ClientTasks, type : ScanTypes]) /\ PENDING_RELEASE \in ScanTypes
    BY DEF Good, Base, Typed, Worlds, Contexts, ScanTypes
  <2>2. new \in Seq([task : ClientTasks, type : ScanTypes]) /\ ClientsOK(c, new)
    BY <2>1, SetTypeKeeps
  <2>3. ClientRemove(w, c, client) = Refresh([w EXCEPT !.ctx[c].clients = new], c)
    BY <1>1, <2>1 DEF ClientRemove, Worlds
  <2> HIDE DEF new
  <2> QED
    BY <2>2, <2>3, ClientsChange
<1>2. CASE ~OnList(w.ctx[c], client)
  BY <1>2 DEF ClientRemove, Kept
<1> QED
  BY <1>1, <1>2

\* Another feature than page scan starts or stops.
LEMMA OtherFeatureKeeps ==
  ASSUME NEW w, Good(w), NEW r, Shuffled(w, r), r.throttled \subseteq r.running,
         "PAGE_SCAN" \in r.running <=> "PAGE_SCAN" \in w.running,
         "PAGE_SCAN" \in r.throttled <=> "PAGE_SCAN" \in w.throttled
  PROVE  Good(r)
<1>1. /\ Typed(w) /\ LibraryOK(w) /\ PageOK(w) /\ ParamsOK(w) /\ AnswerOK(w) /\ Moving(w)
  BY DEF Good, Base
<1>2. /\ r.ctx = w.ctx /\ r.disabler = w.disabler /\ r.outstanding = w.outstanding
      /\ r.answer = w.answer
  BY DEF Shuffled, SameScans
<1>3. Up(r) = Up(w)
  BY <1>2 DEF Up
<1>4. /\ Typed(r) /\ LibraryOK(r) /\ (LastConfirm(w.queue) => LastConfirm(r.queue))
  BY <1>1, <1>3, ShuffledKeeps DEF LibraryOK
<1>5. PageOK(r) /\ ParamsOK(r)
  BY <1>1, <1>2, <1>3 DEF PageOK, ParamsOK
<1>6. AnswerOK(r) /\ Moving(r)
  BY <1>1, <1>2, <1>4 DEF AnswerOK, AllDisabled, Moving
<1>7. \A c \in Scans : Wanting(r, c)
  BY <1>2, WantingSame DEF Good
<1> QED
  BY <1>4, <1>5, <1>6, <1>7 DEF Good, Base

---------------------------------------------------------------------------
(* The messages.                                                           *)

Undelivered(w) == [w EXCEPT !.queue = Tail(@)]

\* Of the messages only the first is taken.
LEMMA TailLosesHead ==
  ASSUME NEW S, NEW q \in Seq(S), q # << >>
  PROVE  \A m \in ToSet(q) : m = Head(q) \/ m \in ToSet(Tail(q))
<1>1. /\ DOMAIN q = 1 .. Len(q) /\ Len(q) \in Nat /\ Head(q) = q[1]
      /\ DOMAIN Tail(q) = 1 .. Len(q) - 1
      /\ \A k \in 1 .. Len(q) - 1 : Tail(q)[k] = q[k + 1]
  BY HeadTailProperties, LenProperties
<1>2. ASSUME NEW n \in DOMAIN q, n # 1
      PROVE  \E k \in DOMAIN Tail(q) : Tail(q)[k] = q[n]
  <2>1. n - 1 \in 1 .. Len(q) - 1 /\ (n - 1) + 1 = n
    <3> DEFINE last == Len(q)
    <3>1. n \in 1 .. last /\ last \in Nat
      BY <1>1
    <3> HIDE DEF last
    <3>2. n - 1 \in 1 .. last - 1 /\ (n - 1) + 1 = n
      BY <1>2, <3>1
    <3> QED
      BY <3>2 DEF last
  <2> QED
    BY <1>1, <2>1
<1> QED
  BY <1>1, <1>2 DEF ToSet

\* A message that is no request is taken from the queue.
LEMMA DeliveredIs ==
  ASSUME NEW w, Good(w), w.queue # << >>, Head(w.queue).id # "WRITE_SCAN_ENABLE_REQ"
  PROVE  LET r == Undelivered(w)
         IN  /\ Base(r) /\ \A c \in Scans : Wanting(r, c)
             /\ LastConfirm(w.queue) =>
                  LastConfirm(r.queue) \/ (/\ Head(w.queue).id = "WRITE_SCAN_ENABLE_CFM"
                                           /\ Head(w.queue).outstanding = 0)
             /\ r = [w EXCEPT !.queue = r.queue]
             /\ r.slots = w.slots /\ r.running = w.running /\ r.throttled = w.throttled
             /\ \A m \in ToSet(w.queue) : m = Head(w.queue) \/ m \in ToSet(r.queue)
<1> DEFINE r == Undelivered(w)
           q == w.queue
<1>1. /\ Typed(w) /\ LibraryOK(w) /\ PageOK(w) /\ ParamsOK(w) /\ AnswerOK(w) /\ Moving(w)
      /\ w \in Worlds /\ q \in Seq(Messages)
  BY DEF Good, Base, Typed, Worlds
<1>2. Tail(q) \in Seq(Messages)
  BY <1>1, HeadTailProperties
<1>3. /\ r \in Worlds /\ r.queue = Tail(q) /\ r.ctx = w.ctx /\ r.disabler = w.disabler
      /\ r.answer = w.answer /\ r.slots = w.slots /\ r.running = w.running
      /\ r.throttled = w.throttled /\ r.outstanding = w.outstanding
      /\ r.commands = w.commands /\ r.scanning = w.scanning /\ r = [w EXCEPT !.queue = Tail(q)]
  BY <1>1, <1>2 DEF Undelivered, Worlds
<1> HIDE DEF r
<1>4. Up(r) = Up(w)
  BY <1>3 DEF Up
<1>5. LibraryOK(r)
  BY <1>1, <1>3, <1>4, LibraryTail DEF LibraryOK
<1>6. Typed(r)
  BY <1>1, <1>3 DEF Typed
<1>7. PageOK(r) /\ ParamsOK(r) /\ AnswerOK(r)
  BY <1>1, <1>3, <1>4 DEF PageOK, ParamsOK, AnswerOK, AllDisabled
<1>8. \A c \in Scans : Wanting(r, c)
  BY <1>3, WantingSame DEF Good
<1>9. ASSUME LastConfirm(q),
             ~(Head(q).id = "WRITE_SCAN_ENABLE_CFM" /\ Head(q).outstanding = 0)
      PROVE  LastConfirm(Tail(q))
  <2>1. PICK n \in DOMAIN q : q[n].id = "WRITE_SCAN_ENABLE_CFM" /\ q[n].outstanding = 0
    BY <1>9 DEF LastConfirm
  <2>2. /\ DOMAIN q = 1 .. Len(q) /\ Len(q) \in Nat /\ Head(q) = q[1]
        /\ DOMAIN Tail(q) = 1 .. Len(q) - 1
        /\ \A k \in 1 .. Len(q) - 1 : Tail(q)[k] = q[k + 1]
    BY <1>1, HeadTailProperties, LenProperties
  <2>3. n - 1 \in 1 .. Len(q) - 1 /\ (n - 1) + 1 = n
    BY <1>9, <2>1, <2>2
  <2> QED
    BY <2>1, <2>2, <2>3 DEF LastConfirm
<1>10. \A m \in ToSet(q) : m = Head(q) \/ m \in ToSet(Tail(q))
  BY <1>1, TailLosesHead
<1> QED
  BY <1>3, <1>5, <1>6, <1>7, <1>8, <1>9, <1>10 DEF Base, r

\* connectionHandleWriteScanEnableRequest
LEMMA ScanEnableRequestKeeps ==
  ASSUME NEW w, Good(w), w.queue # << >>, Head(w.queue).id = "WRITE_SCAN_ENABLE_REQ"
  PROVE  LET r == HandleScanEnableRequest(Undelivered(w), Head(w.queue).mode)
         IN  Good(r) /\ Kept(w, r)
<1> DEFINE q == w.queue
           mode == Head(q).mode
           r == HandleScanEnableRequest(Undelivered(w), mode)
           a == Append(w.commands, mode)
<1>1. /\ Typed(w) /\ LibraryOK(w) /\ PageOK(w) /\ ParamsOK(w) /\ AnswerOK(w) /\ Moving(w)
      /\ w \in Worlds /\ q \in Seq(Messages) /\ w.commands \in Seq(SUBSET Scans)
  BY DEF Good, Base, Typed, Worlds
<1>2. /\ Tail(q) \in Seq(Messages) /\ Head(q) \in Messages /\ Head(q) = q[1]
      /\ DOMAIN q = 1 .. Len(q) /\ Len(q) \in Nat
      /\ DOMAIN Tail(q) = 1 .. Len(q) - 1
      /\ \A n \in 1 .. Len(q) - 1 : Tail(q)[n] = q[n + 1]
  BY <1>1, HeadTailProperties, LenProperties
<1>3. mode \in SUBSET Scans
  BY <1>2 DEF Messages, BandwidthMessages, ScanRequests, ScanConfirms
<1> HIDE DEF mode
<1>4. a \in Seq(SUBSET Scans)
  BY <1>1, <1>3, AppendProperties
<1>5. /\ r \in Worlds /\ r.queue = Tail(q) /\ r.ctx = w.ctx /\ r.disabler = w.disabler
      /\ r.answer = w.answer /\ r.slots = w.slots /\ r.running = w.running
      /\ r.throttled = w.throttled /\ r.outstanding = w.outstanding
      /\ r.commands = a /\ r.scanning = w.scanning
  BY <1>1, <1>2, <1>4 DEF Undelivered, HandleScanEnableRequest, Worlds
<1>6. Library(Tail(q), a, w.scanning, w.outstanding, Up(w))
  BY <1>1, <1>3, LibraryRequest DEF LibraryOK, mode
<1> HIDE DEF r, a
<1>7. Up(r) = Up(w)
  BY <1>5 DEF Up
<1>8. Typed(r) /\ LibraryOK(r)
  BY <1>1, <1>5, <1>6, <1>7 DEF Typed, LibraryOK
<1>9. PageOK(r) /\ ParamsOK(r) /\ AnswerOK(r)
  BY <1>1, <1>5, <1>7 DEF PageOK, ParamsOK, AnswerOK, AllDisabled
<1>10. \A c \in Scans : Wanting(r, c)
  BY <1>5, WantingSame DEF Good
<1>11. LastConfirm(q) => LastConfirm(Tail(q))
  <2>1. ASSUME NEW n \in DOMAIN q, q[n].id = "WRITE_SCAN_ENABLE_CFM", q[n].outstanding = 0
        PROVE  LastConfirm(Tail(q))
    <3>0. n # 1
      <4>1. q[1].id = "WRITE_SCAN_ENABLE_REQ"
        BY <1>2
      <4> QED
        BY <2>1, <4>1
    <3>1. n - 1 \in 1 .. Len(q) - 1 /\ (n - 1) + 1 = n
      <4> DEFINE last == Len(q)
      <4>1. n \in 1 .. last /\ last \in Nat
        BY <1>2, <2>1
      <4> HIDE DEF last
      <4>2. n - 1 \in 1 .. last - 1 /\ (n - 1) + 1 = n
        BY <3>0, <4>1
      <4> QED
        BY <4>2 DEF last
    <3> QED
      BY <1>2, <2>1, <3>1 DEF LastConfirm
  <2> QED
    BY <2>1 DEF LastConfirm
<1>12. Moving(r)
  BY <1>1, <1>5, <1>11 DEF Moving
<1>13. Kept(w, r)
  BY <1>1, <1>5, TailLosesHead DEF Kept
<1> QED
  BY <1>8, <1>9, <1>10, <1>12, <1>13 DEF Good, Base, r, mode

\* bredrScanManager_ConnectionHandleClDmWriteScanEnableCfm: the last
\* confirmation brings every context to rest.
LEMMA ScanEnableConfirmKeeps ==
  ASSUME NEW w, Good(w), w.queue # << >>, Head(w.queue).id = "WRITE_SCAN_ENABLE_CFM"
  PROVE  LET r == HandleScanEnableCfm(Undelivered(w), Head(w.queue).outstanding)
         IN  Good(r) /\ (Throttling(w) => Throttling(r))
<1> DEFINE u == Undelivered(w)
           out == Head(w.queue).outstanding
           p == CompleteTransition(u, "page")
           i == CompleteTransition(p, "inquiry")
<1>0. "page" \in Scans /\ "inquiry" \in Scans /\ \A c \in Scans : c = "page" \/ c = "inquiry"
  BY DEF Scans
<1>1. /\ Base(u) /\ \A c \in Scans : Wanting(u, c)
      /\ LastConfirm(w.queue) => LastConfirm(u.queue) \/ out = 0
      /\ u = [w EXCEPT !.queue = u.queue] /\ Kept(w, u)
  BY DeliveredIs DEF Kept
<1>9. Throttling(w) => Throttling(u)
  BY <1>1, KeptThrottling
<1>2. CASE out > 0
  <2>1. w \in Worlds /\ Moving(w)
    BY DEF Good, Base, Typed
  <2> HIDE DEF u
  <2>2. u.ctx = w.ctx /\ u.outstanding = w.outstanding
    BY <1>1, <2>1 DEF Worlds
  <2>3. Moving(u)
    BY <1>1, <1>2, <2>1, <2>2 DEF Moving
  <2>4. HandleScanEnableCfm(u, out) = u
    BY <1>2 DEF HandleScanEnableCfm
  <2> QED
    BY <1>1, <1>9, <2>3, <2>4 DEF Good, u
<1>3. CASE ~(out > 0)
  <2>1. HandleScanEnableCfm(u, out) = ConfirmIfDisabled(i)
    BY <1>3 DEF HandleScanEnableCfm
  <2> HIDE DEF u
  <2>2. /\ Base(p) /\ p.ctx["page"].state \in {"ENABLED", "DISABLED"}
        /\ \A d \in Scans : Wanting(p, d)
        /\ Throttling(u) => Throttling(p)
    BY <1>0, <1>1, CompleteTransitionIs
  <2> HIDE DEF p
  <2>3. /\ Base(i) /\ i.ctx["inquiry"].state \in {"ENABLED", "DISABLED"}
        /\ \A d \in Scans \ {"inquiry"} : i.ctx[d] = p.ctx[d]
        /\ \A d \in Scans : Wanting(i, d)
        /\ Throttling(p) => Throttling(i)
    BY <1>0, <2>2, CompleteTransitionIs
  <2> HIDE DEF i
  <2>4. Moving(i)
    BY <1>0, <2>2, <2>3 DEF Moving
  <2>5. Good(ConfirmIfDisabled(i)) /\ Kept(i, ConfirmIfDisabled(i))
    BY <2>3, <2>4, ConfirmKeeps DEF Good
  <2>6. Throttling(i) => Throttling(ConfirmIfDisabled(i))
    BY <2>5, KeptThrottling
  <2> QED
    BY <1>9, <2>1, <2>2, <2>3, <2>5, <2>6 DEF u
<1> QED
  BY <1>2, <1>3

\* The bandwidth manager's message: page scan changes its parameters when it
\* has to throttle and when it need not any more.
LEMMA BandwidthActionKeeps ==
  ASSUME NEW w, Good(w), w.queue # << >>, Head(w.queue).id \in {"BANDWIDTH_START", "BANDWIDTH_STOP"}
  PROVE  Good(HandleBandwidthAction(Undelivered(w), Head(w.queue)))
<1> DEFINE u == Undelivered(w)
           action == Head(w.queue)
           a == HandleAction(u, action)
           T == a.throttled
           now == "PAGE_SCAN" \in T
           k == [u.ctx["page"] EXCEPT !.params = IF now THEN THROTTLE ELSE u.ctx["page"].type]
           r == HandleBandwidthAction(u, action)
<1>0. "page" \in Scans /\ \A c \in Scans : c = "page" \/ c = "inquiry"
  BY DEF Scans
<1>1. /\ Base(u) /\ (\A c \in Scans : Wanting(u, c))
      /\ LastConfirm(w.queue) => LastConfirm(u.queue)
      /\ u = [w EXCEPT !.queue = u.queue]
  BY DeliveredIs
<1> HIDE DEF u, action
<1>2. /\ Typed(u) /\ LibraryOK(u) /\ PageOK(u) /\ ParamsOK(u) /\ AnswerOK(u) /\ u \in Worlds
      /\ u.throttled \subseteq u.running /\ u.running \subseteq Features
      /\ u.ctx \in [Scans -> Contexts] /\ u.ctx["page"] \in Contexts
      /\ ClientsOK("page", u.ctx["page"].clients)
  BY <1>0, <1>1 DEF Base, Typed, Worlds
<1>3. Moving(u)
  <2>1. w \in Worlds /\ Moving(w)
    BY DEF Good, Base, Typed
  <2>2. u.ctx = w.ctx /\ u.outstanding = w.outstanding
    BY <1>1, <2>1 DEF Worlds
  <2> QED
    BY <1>1, <2>1, <2>2 DEF Moving
<1>4. T \subseteq u.running /\ a = [u EXCEPT !.throttled = T]
  BY <1>2 DEF HandleAction, ThrottledAfterStart, ThrottledAfterStop, Worlds
<1> HIDE DEF a, T
<1>5. /\ Typed(a) /\ a.ctx = u.ctx /\ a.disabler = u.disabler /\ a.answer = u.answer
      /\ a.running = u.running /\ a.throttled = T /\ a.outstanding = u.outstanding
      /\ a.queue = u.queue /\ a.commands = u.commands /\ a.scanning = u.scanning
  <2>1. /\ a \in Worlds /\ a.ctx = u.ctx /\ a.disabler = u.disabler /\ a.answer = u.answer
        /\ a.running = u.running /\ a.throttled = T /\ a.outstanding = u.outstanding
        /\ a.queue = u.queue /\ a.commands = u.commands /\ a.scanning = u.scanning
        /\ a.slots = u.slots
    BY <1>2, <1>4 DEF Worlds
  <2> QED
    BY <1>2, <1>4, <2>1 DEF Typed
<1>6. CASE now # ("PAGE_SCAN" \in u.throttled)
  <2>1. /\ k \in Contexts /\ k.clients = u.ctx["page"].clients /\ k.state = u.ctx["page"].state
        /\ k.type = u.ctx["page"].type /\ (~now => k.params = k.type)
    BY <1>2 DEF Contexts
  <2>2. r = [a EXCEPT !.ctx["page"] = k]
    BY <1>2, <1>5, <1>6 DEF HandleBandwidthAction, AdjustPageScanBandwidth, UpdateScanActivity,
       Typed, Worlds, Contexts, a, T
  <2> HIDE DEF k, r
  <2>3. /\ Typed(r) /\ SameButContexts(a, r) /\ r.ctx["page"] = k
        /\ \A d \in Scans \ {"page"} : r.ctx[d] = a.ctx[d]
    BY <1>0, <1>2, <1>5, <2>1, <2>2, ContextIs
  <2>4. \A d \in Scans : /\ r.ctx[d].state = u.ctx[d].state
                         /\ r.ctx[d].type = u.ctx[d].type /\ r.ctx[d].clients = u.ctx[d].clients
    BY <1>5, <2>1, <2>3
  <2>5. Up(r) = Up(u) /\ Up(u) \subseteq Scans
    BY <2>4 DEF Up
  <2>6. LibraryOK(r) /\ PageOK(r) /\ AnswerOK(r) /\ Moving(r)
    BY <1>2, <1>3, <1>5, <2>3, <2>4, <2>5, <1>0
    DEF LibraryOK, PageOK, AnswerOK, AllDisabled, Moving, SameButContexts
  <2>7. ParamsOK(r)
    <3>1. ASSUME NEW d \in Up(r), d = "page" => "PAGE_SCAN" \notin r.throttled
          PROVE  r.ctx[d].params = r.ctx[d].type
      <4>1. CASE d = "page"
        BY <1>5, <2>1, <2>3, <3>1, <4>1 DEF SameButContexts
      <4>2. CASE d # "page"
        BY <1>2, <1>5, <2>3, <2>5, <4>2 DEF ParamsOK
      <4> QED
        BY <4>1, <4>2
    <3> QED
      BY <3>1 DEF ParamsOK
  <2>8. \A d \in Scans : Wanting(r, d)
    BY <1>1, <1>5, <2>3, <2>4, <2>5 DEF Wanting, WantedType, SameButContexts
  <2> QED
    BY <2>3, <2>6, <2>7, <2>8 DEF Good, Base, r, u, action
<1>7. CASE now = ("PAGE_SCAN" \in u.throttled)
  <2>1. r = a
    BY <1>7 DEF HandleBandwidthAction, a, T
  <2>2. Up(a) = Up(u)
    BY <1>5 DEF Up
  <2>3. LibraryOK(a) /\ PageOK(a) /\ AnswerOK(a) /\ Moving(a) /\ ParamsOK(a)
    BY <1>2, <1>3, <1>5, <1>7, <2>2
    DEF LibraryOK, PageOK, AnswerOK, AllDisabled, Moving, ParamsOK
  <2>4. \A d \in Scans : Wanting(a, d)
    BY <1>1, <1>5, WantingSame
  <2> QED
    BY <1>5, <2>1, <2>3, <2>4 DEF Good, Base, u, action
<1> QED
  BY <1>6, <1>7

\* The controller carries out a command, and the confirmation is sent.
LEMMA CarryOutKeeps ==
  ASSUME NEW w, Good(w), w.commands # << >>
  PROVE  Good(CarryOut(w)) /\ Kept(w, CarryOut(w))
<1> DEFINE r == CarryOut(w)
           m == [id |-> "WRITE_SCAN_ENABLE_CFM", outstanding |-> w.outstanding - 1]
           q == Append(w.queue, m)
<1>1. /\ Typed(w) /\ LibraryOK(w) /\ PageOK(w) /\ ParamsOK(w) /\ AnswerOK(w) /\ Moving(w)
      /\ w \in Worlds /\ w.queue \in Seq(Messages) /\ w.commands \in Seq(SUBSET Scans)
      /\ w.outstanding \in Int
  BY DEF Good, Base, Typed, Worlds
<1>2. Tail(w.commands) \in Seq(SUBSET Scans) /\ Head(w.commands) \in SUBSET Scans
  BY <1>1, HeadTailProperties
<1>3. m \in Messages /\ m.id = "WRITE_SCAN_ENABLE_CFM" /\ m.outstanding = w.outstanding - 1
  BY <1>1 DEF Messages, ScanConfirms
<1> HIDE DEF m
<1>4. /\ q \in Seq(Messages) /\ DOMAIN w.queue = 1 .. Len(w.queue) /\ Len(w.queue) \in Nat
      /\ DOMAIN q = 1 .. Len(w.queue) + 1
      /\ \A n \in 1 .. Len(w.queue) : q[n] = w.queue[n]
      /\ q[Len(w.queue) + 1] = m
  BY <1>1, <1>3, AppendProperties, LenProperties
<1>5. /\ r \in Worlds /\ r.queue = q /\ r.ctx = w.ctx /\ r.disabler = w.disabler
      /\ r.answer = w.answer /\ r.slots = w.slots /\ r.running = w.running
      /\ r.throttled = w.throttled /\ r.outstanding = w.outstanding - 1
      /\ r.commands = Tail(w.commands) /\ r.scanning = Head(w.commands)
  <2>1. w.outstanding - 1 \in Int
    BY <1>1
  <2>2. r = [w EXCEPT !.scanning = Head(w.commands), !.commands = Tail(w.commands),
                      !.outstanding = w.outstanding - 1, !.queue = q]
    BY <1>1 DEF CarryOut, Worlds, m
  <2> HIDE DEF q, r
  <2> QED
    BY <1>1, <1>2, <1>4, <2>1, <2>2 DEF Worlds
<1> HIDE DEF r
<1>6. Library(w.queue, Tail(w.commands), Head(w.commands), w.outstanding - 1, Up(w))
  BY <1>1, LibraryCarriesOut DEF LibraryOK
<1>7. Library(q, Tail(w.commands), Head(w.commands), w.outstanding - 1, Up(w))
  BY <1>1, <1>3, <1>6, LibraryOther
<1>15. ToSet(w.queue) \subseteq ToSet(q)
  BY <1>1, <1>3, AppendIsLast
<1> HIDE DEF q
<1>16. Kept(w, r)
  BY <1>5, <1>15 DEF Kept
<1>8. Up(r) = Up(w)
  BY <1>5 DEF Up
<1>9. Typed(r) /\ LibraryOK(r)
  BY <1>1, <1>5, <1>7, <1>8 DEF Typed, LibraryOK
<1>10. PageOK(r) /\ ParamsOK(r) /\ AnswerOK(r)
  BY <1>1, <1>5, <1>8 DEF PageOK, ParamsOK, AnswerOK, AllDisabled
<1>11. \A c \in Scans : Wanting(r, c)
  BY <1>5, WantingSame DEF Good
<1>12. r.outstanding >= 0
  <2>1. Len(Tail(w.commands)) \in Nat
    BY <1>2, LenProperties
  <2>2. Cardinality(Requests(w.queue)) \in Nat
    BY <1>6, RequestCount DEF Library
  <2> QED
    BY <1>5, <1>6, <2>1, <2>2 DEF Library
<1>13. r.outstanding = 0 => LastConfirm(q)
  BY <1>3, <1>4, <1>5 DEF LastConfirm
<1>14. Moving(r)
  <2>1. r.outstanding > 0 \/ r.outstanding = 0
    BY <1>1, <1>5, <1>12
  <2> QED
    BY <1>5, <1>13, <2>1 DEF Moving
<1> QED
  BY <1>9, <1>10, <1>11, <1>14, <1>16 DEF Good, Base, r

---------------------------------------------------------------------------
(* The specification.                                                      *)

\* The state that a function's result makes the next one
LEMMA BecomeIs ==
  ASSUME NEW w \in Worlds, Become(w)
  PROVE  World' = w
BY DEF Become, World, Worlds

\* At the start nothing is on its way and no scan is on.
LEMMA InitIsGood ==
  ASSUME Init
  PROVE  IInv
<1> DEFINE w == World
<1>0. /\ w.slots = Registered /\ w.running = {} /\ w.throttled = {}
      /\ w.ctx = [c \in Scans |-> IdleContext] /\ w.disabler = FALSE /\ w.outstanding = 0
      /\ w.commands = << >> /\ w.scanning = {} /\ w.queue = << >> /\ w.answer = "none"
  BY DEF Init, World
<1>1. IdleContext \in Contexts
  BY EmptySeq DEF IdleContext, Contexts, ScanStates, ScanTypes
<1>2. Registered \in Seq(Features)
  <2>1. Len(Registered) \in Nat /\ DOMAIN Registered = 1 .. Len(Registered)
        /\ Registered = [n \in 1 .. Len(Registered) |-> Registered[n]]
    BY RegisteredAssumption, LenProperties
  <2>2. \A n \in 1 .. Len(Registered) : Registered[n] \in Features
    BY <2>1 DEF Features, ToSet
  <2> QED
    BY <2>1, <2>2, IsASeq
<1>3. w \in Worlds
  <2>1. commands \in Seq(SUBSET Scans) /\ queue \in Seq(Messages)
    BY EmptySeq DEF Init
  <2>2. ctx \in [Scans -> Contexts]
    BY <1>1 DEF Init
  <2>3. /\ slots \in Seq(Features) /\ running \in SUBSET Features /\ throttled \in SUBSET Features
        /\ disabler \in BOOLEAN /\ outstanding \in Int /\ scanning \in SUBSET Scans
        /\ answer \in {"none", "disabled", "enabled"}
    <3>1. slots \in Seq(Features)
      BY <1>2 DEF Init
    <3>2. running \in SUBSET Features /\ throttled \in SUBSET Features /\ scanning \in SUBSET Scans
      BY DEF Init
    <3>3. disabler \in BOOLEAN /\ outstanding \in Int /\ answer \in {"none", "disabled", "enabled"}
      <4>1. disabler = FALSE /\ outstanding = 0 /\ answer = "none"
        BY DEF Init
      <4>2. disabler \in BOOLEAN
        BY <4>1, Zenon
      <4>3. outstanding \in Int /\ answer \in {"none", "disabled", "enabled"}
        BY <4>1
      <4> QED
        BY <4>2, <4>3
    <3> QED
      BY <3>1, <3>2, <3>3
  <2> QED
    BY <2>1, <2>2, <2>3 DEF Worlds, World
<1> HIDE DEF w
<1>4. \A c \in Scans : /\ w.ctx[c].clients = << >> /\ w.ctx[c].state = "DISABLED"
                       /\ w.ctx[c].clients \in Seq([task : ClientTasks, type : ScanTypes])
  <2> DEFINE E == [task : ClientTasks, type : ScanTypes]
  <2>1. IdleContext.clients = << >> /\ IdleContext.state = "DISABLED"
    BY DEF IdleContext
  <2>2. << >> \in Seq(E)
    <3> HIDE DEF E
    <3> QED
      BY EmptySeq
  <2> QED
    BY <1>0, <2>1, <2>2
<1>5. DOMAIN << >> = {} /\ Len(<< >>) = 0
  BY EmptySeq
<1>6. ToSet(<< >>) = {} /\ Requests(<< >>) = {}
  BY <1>5 DEF ToSet, Requests
<1>7. Typed(w)
  BY <1>0, <1>3, <1>4, <1>5, <1>6 DEF Typed, TableOK, Features, ClientsOK
<1>8. Up(w) = {}
  BY <1>4 DEF Up
<1>9. LibraryOK(w)
  <2>1. /\ Len(w.commands) = 0 /\ w.commands = << >>
        /\ Requests(w.queue) = {} /\ Cardinality(Requests(w.queue)) = 0
    BY <1>0, <1>5, <1>6, FS_EmptySet
  <2> QED
    BY <1>0, <1>8, <2>1 DEF LibraryOK, Library
<1>10. PageOK(w) /\ ParamsOK(w) /\ AnswerOK(w) /\ Moving(w)
  BY <1>0, <1>4, <1>8 DEF PageOK, ParamsOK, AnswerOK, Moving, Scans
<1>11. \A c \in Scans : Wanting(w, c)
  BY <1>4, <1>6, <1>8, WantedTypeIs DEF Wanting
<1> QED
  BY <1>7, <1>9, <1>10, <1>11 DEF IInv, Good, Base, w

\* Every step keeps the invariant: one step for each of the model's actions.
LEMMA NextKeepsGood ==
  ASSUME IInv, [Next]_vars
  PROVE  IInv'
<1>0. Good(World) /\ World \in Worlds /\ Base(World) /\ Typed(World)
  BY DEF IInv, Good, Base, Typed
<1>1. ASSUME NEW w, Become(w), Good(w)
      PROVE  IInv'
  <2>1. w \in Worlds
    BY <1>1 DEF Good, Base, Typed
  <2>2. World' = w
    BY <1>1, <2>1, BecomeIs
  <2>3. Good(World')
    BY <1>1, <2>2
  <2> QED
    BY <2>3 DEF IInv
<1>2. /\ World.queue = queue /\ World.commands = commands /\ World.running = running
      /\ World.throttled = throttled /\ World.ctx = ctx /\ World.disabler = disabler
  BY DEF World
<1>3. Rest = Undelivered(World)
  BY DEF Rest, Undelivered
<1>4. CASE BandwidthAction
  <2>1. Good(HandleBandwidthAction(Rest, Head(queue)))
    BY <1>0, <1>2, <1>3, <1>4, BandwidthActionKeeps DEF BandwidthAction
  <2> QED
    BY <1>1, <1>4, <2>1 DEF BandwidthAction
<1>5. CASE ScanEnableRequest
  <2>1. Good(HandleScanEnableRequest(Rest, Head(queue).mode))
    BY <1>0, <1>2, <1>3, <1>5, ScanEnableRequestKeeps DEF ScanEnableRequest
  <2> QED
    BY <1>1, <1>5, <2>1 DEF ScanEnableRequest
<1>6. CASE ScanEnableConfirm
  <2>1. Good(HandleScanEnableCfm(Rest, Head(queue).outstanding))
    BY <1>0, <1>2, <1>3, <1>6, ScanEnableConfirmKeeps DEF ScanEnableConfirm
  <2> QED
    BY <1>1, <1>6, <2>1 DEF ScanEnableConfirm
<1>7. CASE Controller
  <2>1. Good(CarryOut(World))
    BY <1>0, <1>2, <1>7, CarryOutKeeps DEF Controller
  <2> QED
    BY <1>1, <1>7, <2>1 DEF Controller
<1>8. ASSUME NEW c \in Scans, NEW client \in Users(c), ScanRequest(c, client)
      PROVE  IInv'
  <2>1. Asks(c, client) \in ScanTypes
    BY DEF Asks, ScanTypes
  <2>2. Good(ClientAddOrUpdate(World, c, client, Asks(c, client)))
    BY <1>0, <2>1, ClientAddOrUpdateKeeps
  <2> QED
    BY <1>1, <1>8, <2>2 DEF ScanRequest, Outside
<1>9. ASSUME NEW c \in Scans, NEW client \in Users(c), ScanRelease(c, client)
      PROVE  IInv'
  <2>1. Good(ClientRemove(World, c, client))
    BY <1>0, ClientRemoveKeeps
  <2> QED
    BY <1>1, <1>9, <2>1 DEF ScanRelease, Outside
<1>10. CASE Disable
  <2>1. Good(ScanDisable([World EXCEPT !.answer = "none"]))
    BY <1>0, ScanDisableKeeps
  <2> QED
    BY <1>1, <1>10, <2>1 DEF Disable, Outside
<1>11. CASE Enable
  <2>1. Good(ScanEnable(World))
    BY <1>0, ScanEnableKeeps
  <2> QED
    BY <1>1, <1>11, <2>1 DEF Enable, Outside
<1>12. ASSUME NEW f \in Others, FeatureStarts(f)
       PROVE  IInv'
  <2> DEFINE r == FeatureStart(World, f)
  <2>1. f \in Features /\ f # "PAGE_SCAN"
    BY OthersAssumption
  <2>2. Shuffled(World, r) /\ r.running = running \cup {f} /\ r.throttled = throttled
    BY <1>0, <1>2, <2>1, FeatureStartIs
  <2> HIDE DEF r
  <2>3. Good(r)
    BY <1>0, <1>2, <2>1, <2>2, OtherFeatureKeeps DEF Typed
  <2> QED
    BY <1>1, <1>12, <2>3 DEF FeatureStarts, Outside, r
<1>13. ASSUME NEW f \in Others, FeatureStops(f)
       PROVE  IInv'
  <2> DEFINE r == FeatureStop(World, f)
  <2>1. f \in Features /\ f # "PAGE_SCAN"
    BY OthersAssumption
  <2>2. Shuffled(World, r) /\ r.running = running \ {f} /\ r.throttled = throttled \ {f}
    BY <1>0, <1>2, <2>1, FeatureStopIs
  <2> HIDE DEF r
  <2>3. Good(r)
    BY <1>0, <1>2, <2>1, <2>2, OtherFeatureKeeps DEF Typed
  <2> QED
    BY <1>1, <1>13, <2>3 DEF FeatureStops, Outside, r
<1>14. CASE UNCHANGED vars
  <2>1. World' = World
    BY <1>14 DEF vars, World
  <2> QED
    BY <1>0, <2>1 DEF IInv
<1> QED
  BY <1>4, <1>5, <1>6, <1>7, <1>8, <1>9, <1>10, <1>11, <1>12, <1>13, <1>14 DEF Next, Deliver

\* What the library, the contexts and the bandwidth manager keep to, whatever
\* the users call and in whatever order requests and confirmations pass.
THEOREM RadioInvariant == Spec => []IInv
<1>1. Init => IInv
  BY InitIsGood
<1>2. IInv /\ [Next]_vars => IInv'
  BY NextKeepsGood
<1> QED
  BY <1>1, <1>2, PTL DEF Spec

\* Type correctness: the table of the bandwidth manager stays a permutation of
\* the features, no client is twice on a list, and the library's counter is the
\* number of requests on their way.
THEOREM RadioTypes == Spec => []TypeOK
<1>1. IInv => TypeOK
  <2> SUFFICES ASSUME IInv PROVE TypeOK
    OBVIOUS
  <2>1. World \in Worlds /\ Typed(World) /\ LibraryOK(World)
    BY DEF IInv, Good, Base, Typed
  <2>2. /\ running \subseteq Features /\ answer \in {"none", "disabled", "enabled"}
        /\ ctx \in [Scans -> Contexts]
    BY <2>1 DEF World, Worlds
  <2>3. /\ ToSet(slots) = Features /\ Len(slots) = Len(Registered) /\ throttled \subseteq running
        /\ \A c \in Scans : ClientsOK(c, ctx[c].clients)
    BY <2>1 DEF World, Typed, TableOK
  <2>4. outstanding = Len(commands) + Cardinality({n \in DOMAIN queue :
                                        queue[n].id = "WRITE_SCAN_ENABLE_REQ"})
    BY <2>1 DEF World, LibraryOK, Library, Requests
  <2>5. \A c \in Scans : /\ ctx[c].state \in {"DISABLED", "ENABLING", "DISABLING", "ENABLED"}
                         /\ ctx[c].type \in ScanTypes
                         /\ ctx[c].params \in ScanTypes \cup {THROTTLE, NoParams}
    BY <2>2 DEF Contexts, ScanStates
  <2> QED
    BY <2>2, <2>3, <2>4, <2>5 DEF TypeOK, ClientsOK
<1> QED
  BY <1>1, RadioInvariant, PTL

\* With nothing on its way, the last request was that of the contexts, and it
\* has been carried out.
LEMMA SettledIsUp ==
  ASSUME IInv, Settled
  PROVE  /\ scanning = Up(World)
         /\ \A c \in Scans : ctx[c].state \in {"ENABLED", "DISABLED"}
<1>1. /\ LibraryOK(World) /\ Moving(World) /\ ctx \in [Scans -> Contexts]
  BY DEF IInv, Good, Base, Typed, World, Worlds
<1>2. Requests(queue) = {} /\ ~LastConfirm(queue)
  BY EmptySeq DEF Settled, Requests, LastConfirm
<1>3. scanning = Up(World) /\ outstanding = 0
  <2>1. Len(commands) = 0 /\ commands = << >> /\ Cardinality(Requests(queue)) = 0
    BY <1>2, FS_EmptySet, EmptySeq DEF Settled
  <2> QED
    BY <1>1, <1>2, <2>1 DEF LibraryOK, Library, World
<1>4. \A c \in Scans : ctx[c].state \notin {"ENABLING", "DISABLING"}
  BY <1>1, <1>2, <1>3 DEF Moving, World
<1> QED
  BY <1>1, <1>3, <1>4 DEF Contexts, ScanStates

\* The controller scans for what the contexts are enabled for, and the bandwidth
\* manager counts page scan exactly then, whenever nothing is on its way.
THEOREM ControllerAndContextsAgree == Spec => []SettledAgree
<1>1. IInv => SettledAgree
  <2> SUFFICES ASSUME IInv, Settled
      PROVE  /\ \A c \in Scans : ctx[c].state = IF c \in scanning THEN "ENABLED" ELSE "DISABLED"
             /\ "PAGE_SCAN" \in running <=> "page" \in scanning
    BY DEF SettledAgree
  <2>1. /\ scanning = Up(World)
        /\ \A c \in Scans : ctx[c].state \in {"ENABLED", "DISABLED"}
    BY SettledIsUp
  <2>2. \A c \in Scans : ctx[c].state = IF c \in scanning THEN "ENABLED" ELSE "DISABLED"
    BY <2>1 DEF Up, World
  <2>3. PageOK(World)
    BY DEF IInv, Good, Base
  <2> QED
    BY <2>2, <2>3 DEF PageOK, World, Scans
<1> QED
  BY <1>1, RadioInvariant, PTL

\* A scan that is on and need not throttle has the parameters of the highest
\* type its clients ask for, whenever nothing is on its way.
THEOREM ScansAreAsAsked == Spec => []UnthrottledScansAsAsked
<1>1. IInv => UnthrottledScansAsAsked
  <2> SUFFICES ASSUME IInv, Settled, NEW c \in scanning,
                      c = "page" => "PAGE_SCAN" \notin throttled
      PROVE  ctx[c].params = WantedType(ctx[c])
    BY DEF UnthrottledScansAsAsked
  <2>1. c \in Up(World) /\ c \in Scans
    BY SettledIsUp DEF Up
  <2>2. ctx[c].params = ctx[c].type
    BY <2>1 DEF IInv, Good, Base, ParamsOK, World
  <2>3. ctx[c].type = WantedType(ctx[c])
    BY <2>1 DEF IInv, Good, Wanting, World
  <2> QED
    BY <2>2, <2>3
<1> QED
  BY <1>1, RadioInvariant, PTL

\* The task that was told that scanning is disabled can rely on it until it
\* enables scanning again.
THEOREM DisablingIsRelied == Spec => []DisableHolds
<1>1. IInv => DisableHolds
  BY DEF IInv, Good, Base, AnswerOK, DisableHolds, World
<1> QED
  BY <1>1, RadioInvariant, PTL

---------------------------------------------------------------------------
(* Throttling.                                                             *)

\* The features besides page scan are of the highest priority, as calls and
\* music are.
OthersAreHigh == \A f \in Others : Priority(f) = High

\* The priorities of the features that run
LEMMA Priorities ==
  ASSUME OthersAreHigh
  PROVE  /\ \A f \in Others : Priority(f) = 0 /\ f # "PAGE_SCAN"
         /\ Priority("PAGE_SCAN") = 2
         /\ \A f \in Features : Priority(f) \in 0 .. 2
BY OthersAssumption DEF OthersAreHigh, Priority, High, Medium, Low

\* The highest priority that runs: that of the others, or page scan's.
LEMMA HighestRunningIs ==
  ASSUME OthersAreHigh, NEW w, w.running \subseteq Others \cup {"PAGE_SCAN"}, NEW default \in 0 .. 2
  PROVE  /\ HighestRunning(w, default) \in 0 .. 2
         /\ w.running \cap Others # {} => HighestRunning(w, default) = 0
         /\ w.running \cap Others = {} /\ default = 2 => HighestRunning(w, default) = 2
<1> DEFINE A == {Priority(f) : f \in w.running} \cup {default}
<1>1. \A f \in w.running : Priority(f) \in 0 .. 2
  BY Priorities
<1>2. A \in SUBSET Nat /\ A \subseteq 0 .. 2 /\ A # {}
  BY <1>1
<1>3. ASSUME NEW f \in Others, f \in w.running PROVE 0 \in A
  BY <1>3, Priorities
<1>4. ASSUME w.running \cap Others = {}, default = 2 PROVE A = {2}
  BY <1>4, Priorities
<1> HIDE DEF A
<1>5. Min(A) \in A /\ \A a \in A : Min(A) <= a
  BY <1>2, MinIsLeast
<1>6. Min(A) \in 0 .. 2
  BY <1>2, <1>5
<1>7. 0 \in A => Min(A) = 0
  BY <1>5, <1>6
<1>8. HighestRunning(w, default) = Min(A)
  BY DEF HighestRunning, A
<1> QED
  BY <1>3, <1>4, <1>5, <1>6, <1>7, <1>8

\* There are finitely many features.
LEMMA FeaturesAreFinite == IsFiniteSet(Features)
<1> DEFINE n == Len(Registered)
           f == [i \in 1 .. n |-> Registered[i]]
<1>1. n \in Nat /\ DOMAIN Registered = 1 .. n
  BY RegisteredAssumption, LenProperties
<1>2. IsFiniteSet(1 .. n)
  BY <1>1, FS_Interval
<1>3. Features = {Registered[i] : i \in 1 .. n}
  BY <1>1 DEF Features, ToSet
<1>4. f \in Surjection(1 .. n, Features)
  <2>1. f \in [1 .. n -> Features]
    BY <1>3
  <2>2. \A e \in Features : \E i \in 1 .. n : f[i] = e
    BY <1>3
  <2> QED
    BY <2>1, <2>2 DEF Surjection
<1> HIDE DEF f
<1> QED
  BY <1>2, <1>4, FS_Surjection

\* The bandwidth manager's messages establish what they are sent for.
LEMMA BandwidthActionThrottles ==
  ASSUME OthersAreHigh, NEW w, Good(w), Throttling(w), w.queue # << >>,
         Head(w.queue).id \in {"BANDWIDTH_START", "BANDWIDTH_STOP"}
  PROVE  Throttling(HandleBandwidthAction(Undelivered(w), Head(w.queue)))
<1> DEFINE u == Undelivered(w)
           action == Head(w.queue)
           acting == Priority(u.slots[action.slot])
           a == HandleAction(u, action)
           T == a.throttled
           r == HandleBandwidthAction(u, action)
<1>1. /\ u.slots = w.slots /\ u.running = w.running /\ u.throttled = w.throttled
      /\ \A m \in ToSet(w.queue) : m = action \/ m \in ToSet(u.queue)
      /\ Typed(u) /\ u \in Worlds
  BY DeliveredIs DEF Base, Typed
<1>2. action.slot \in 1 .. Len(Registered) /\ action.id \in {"BANDWIDTH_START", "BANDWIDTH_STOP"}
  <2>1. w.queue \in Seq(Messages)
    BY DEF Good, Base, Typed, Worlds
  <2>2. action \in Messages
    BY <2>1, HeadTailProperties
  <2> QED
    BY <2>2 DEF Messages, BandwidthMessages, ScanRequests, ScanConfirms
<1> HIDE DEF u, action
<1>3. acting \in 0 .. 2
  <2>1. u.slots \in Seq(Features) /\ Len(u.slots) = Len(Registered)
    BY <1>1 DEF Typed, TableOK, Worlds
  <2>2. u.slots[action.slot] \in Features
    BY <1>2, <2>1, ElementOfSeq
  <2> QED
    BY <2>2, Priorities
<1>4. /\ u.running \subseteq Others \cup {"PAGE_SCAN"} /\ u.throttled \subseteq {"PAGE_SCAN"}
      /\ u.throttled \subseteq u.running /\ u.running \subseteq Features
      /\ "PAGE_SCAN" \in u.throttled /\ u.running \cap Others = {} =>
           \E f \in Others : StopPosted(w, f)
      /\ "PAGE_SCAN" \in u.running \ u.throttled /\ u.running \cap Others # {} => StartPosted(w)
  BY <1>1 DEF Throttling, Typed, Worlds
<1>5. /\ \A f \in Others : StopPosted(w, f) =>
           StopPosted(u, f) \/ (action.id = "BANDWIDTH_STOP" /\ u.slots[action.slot] = f)
      /\ StartPosted(w) => StartPosted(u) \/ action.id = "BANDWIDTH_START"
  BY <1>1 DEF StopPosted, StartPosted
<1>6. T = IF action.id = "BANDWIDTH_START" THEN ThrottledAfterStart(u, acting)
                                           ELSE ThrottledAfterStop(u, acting)
  BY <1>1 DEF HandleAction, Worlds
<1>7. /\ r.slots = u.slots /\ r.running = u.running /\ r.throttled = T /\ r.queue = u.queue
  <2>1. a = [u EXCEPT !.throttled = T]
    BY <1>1 DEF HandleAction, Worlds
  <2> HIDE DEF a
  <2> QED
    BY <1>1, <2>1 DEF HandleBandwidthAction, AdjustPageScanBandwidth, UpdateScanActivity, Worlds, a, T
<1> HIDE DEF r, a, T, acting
<1>8. ASSUME action.id = "BANDWIDTH_START"
      PROVE  Throttling(r)
  <2> DEFINE highest == HighestRunning(u, acting)
  <2>1. T = IF Cardinality(u.running) <= 1 THEN u.throttled
            ELSE u.throttled \cup {f \in u.running : Priority(f) > highest}
    BY <1>6, <1>8 DEF ThrottledAfterStart
  <2>2. /\ highest \in 0 .. 2
        /\ u.running \cap Others # {} => highest = 0
    BY <1>3, <1>4, HighestRunningIs
  <2> HIDE DEF highest
  <2>3. T \subseteq {"PAGE_SCAN"}
    <3>1. ASSUME NEW f \in u.running, Priority(f) > highest PROVE f = "PAGE_SCAN"
      <4>1. f \notin Others
        BY <2>2, <3>1, Priorities
      <4> QED
        BY <1>4, <4>1
    <3> QED
      BY <1>4, <2>1, <3>1
  <2>4. ASSUME u.running \cap Others = {} PROVE T = u.throttled
    <3>1. u.running = {} \/ u.running = {"PAGE_SCAN"}
      BY <1>4, <2>4
    <3>2. Cardinality(u.running) <= 1
      <4>1. CASE u.running = {}
        BY <4>1, FS_EmptySet
      <4>2. CASE u.running = {"PAGE_SCAN"}
        <5>1. Cardinality({"PAGE_SCAN"}) = 1
          BY FS_Singleton
        <5> QED
          BY <4>2, <5>1
      <4> QED
        BY <3>1, <4>1, <4>2
    <3> QED
      BY <2>1, <3>2
  <2>5. ASSUME u.running \cap Others # {}, "PAGE_SCAN" \in u.running PROVE "PAGE_SCAN" \in T
    <3>1. PICK g \in Others : g \in u.running
      BY <2>5
    <3>2. g # "PAGE_SCAN"
      BY Priorities
    <3>3. IsFiniteSet(u.running)
      BY <1>4, FeaturesAreFinite, FS_Subset
    <3>4. ~(Cardinality(u.running) <= 1)
      <4>1. Cardinality({g, "PAGE_SCAN"}) = 2
        <5> DEFINE one == {g}
        <5>1. /\ "PAGE_SCAN" \notin one
              /\ {g, "PAGE_SCAN"} = one \cup {"PAGE_SCAN"}
          BY <3>2
        <5>2. IsFiniteSet(one) /\ Cardinality(one) = 1
          BY FS_Singleton
        <5> HIDE DEF one
        <5>3. Cardinality(one \cup {"PAGE_SCAN"}) = Cardinality(one) + 1
          BY <5>1, <5>2, FS_AddElement
        <5>4. Cardinality(one \cup {"PAGE_SCAN"}) = 2
          BY <5>2, <5>3
        <5> QED
          BY <5>1, <5>4
      <4>2. Cardinality({g, "PAGE_SCAN"}) <= Cardinality(u.running)
        BY <2>5, <3>1, <3>3, FS_Subset
      <4>3. Cardinality(u.running) \in Nat
        BY <3>3, FS_CardinalityType
      <4> QED
        BY <4>1, <4>2, <4>3
    <3>5. Priority("PAGE_SCAN") > highest
      BY <2>2, <2>5, Priorities
    <3> QED
      BY <2>1, <2>5, <3>4, <3>5
  <2>6. ASSUME "PAGE_SCAN" \in T, u.running \cap Others = {}
        PROVE  \E f \in Others : StopPosted(u, f)
    BY <1>4, <1>5, <1>8, <2>4, <2>6
  <2>7. \A f : StopPosted(u, f) <=> StopPosted(r, f)
    BY <1>7 DEF StopPosted
  <2>8. /\ r.running \subseteq Others \cup {"PAGE_SCAN"} /\ r.throttled \subseteq {"PAGE_SCAN"}
    BY <1>4, <1>7, <2>3
  <2>9. "PAGE_SCAN" \in r.throttled /\ r.running \cap Others = {} =>
           \E f \in Others : StopPosted(r, f)
    BY <1>7, <2>6, <2>7
  <2>10. "PAGE_SCAN" \in r.running \ r.throttled => r.running \cap Others = {}
    BY <1>7, <2>5
  <2> QED
    BY <2>8, <2>9, <2>10 DEF Throttling
<1>9. ASSUME action.id = "BANDWIDTH_STOP"
      PROVE  Throttling(r)
  <2> DEFINE highest == HighestRunning(u, Low)
  <2>1. T = IF highest > acting THEN {f \in u.throttled : Priority(f) # highest} ELSE u.throttled
    BY <1>6, <1>9 DEF ThrottledAfterStop
  <2>2. /\ highest \in 0 .. 2
        /\ u.running \cap Others # {} => highest = 0
        /\ u.running \cap Others = {} => highest = 2
    BY <1>4, HighestRunningIs DEF Low
  <2> HIDE DEF highest
  <2>3. T \subseteq u.throttled
    BY <2>1
  <2>4. ASSUME u.running \cap Others # {} PROVE T = u.throttled
    BY <1>3, <2>1, <2>2, <2>4
  <2>5. ASSUME "PAGE_SCAN" \in T, u.running \cap Others = {}
        PROVE  \E f \in Others : StopPosted(u, f)
    <3>1. acting = 2
      <4>1. ~(highest > acting)
        BY <2>1, <2>2, <2>5, Priorities
      <4> QED
        BY <1>3, <2>2, <2>5, <4>1
    <3>2. PICK f \in Others : StopPosted(w, f)
      BY <1>4, <2>3, <2>5
    <3>3. u.slots[action.slot] # f
      BY <3>1, Priorities DEF acting
    <3> QED
      BY <1>5, <3>2, <3>3
  <2>6. ASSUME "PAGE_SCAN" \in u.running \ T, u.running \cap Others # {} PROVE StartPosted(u)
    BY <1>4, <1>5, <1>9, <2>4, <2>6
  <2>7. /\ \A f : StopPosted(u, f) <=> StopPosted(r, f)
        /\ StartPosted(u) <=> StartPosted(r)
    BY <1>7 DEF StopPosted, StartPosted
  <2>8. /\ r.running \subseteq Others \cup {"PAGE_SCAN"} /\ r.throttled \subseteq {"PAGE_SCAN"}
    BY <1>4, <1>7, <2>3
  <2>9. "PAGE_SCAN" \in r.throttled /\ r.running \cap Others = {} =>
           \E f \in Others : StopPosted(r, f)
    BY <1>7, <2>5, <2>7
  <2>10. "PAGE_SCAN" \in r.running \ r.throttled /\ r.running \cap Others # {} => StartPosted(r)
    BY <1>7, <2>6, <2>7
  <2> QED
    BY <2>8, <2>9, <2>10 DEF Throttling
<1> QED
  BY <1>2, <1>8, <1>9 DEF r, u, action

\* Another feature starts: a start is posted.
LEMMA StartThrottles ==
  ASSUME NEW w, Good(w), Throttling(w), NEW f \in Others, f \notin w.running
  PROVE  Throttling(FeatureStart(w, f))
<1> DEFINE r == FeatureStart(w, f)
<1>1. f \in Features /\ Typed(w)
  BY OthersAssumption DEF Good, Base
<1>2. /\ r.running = w.running \cup {f} /\ r.throttled = w.throttled /\ StartPosted(r)
  BY <1>1, FeatureStartIs
<1> HIDE DEF r
<1>3. Throttling(r)
  BY <1>2 DEF Throttling
<1> QED
  BY <1>3 DEF r

\* Another feature stops: a stop is posted that points to it.
LEMMA StopThrottles ==
  ASSUME NEW w, Good(w), Throttling(w), NEW f \in Others, f \in w.running
  PROVE  Throttling(FeatureStop(w, f))
<1> DEFINE r == FeatureStop(w, f)
<1>1. f \in Features /\ f # "PAGE_SCAN" /\ Typed(w)
  BY OthersAssumption DEF Good, Base
<1>2. /\ Shuffled(w, r) /\ r.running = w.running \ {f} /\ r.throttled = w.throttled \ {f}
      /\ StopPosted(r, f)
  BY <1>1, FeatureStopIs
<1> HIDE DEF r
<1>3. StartPosted(w) => StartPosted(r)
  <2>1. w.queue \in Seq(Messages)
    BY <1>1 DEF Typed, Worlds
  <2>2. ToSet(w.queue) \subseteq ToSet(r.queue)
    <3>1. CASE r.queue = w.queue
      BY <3>1
    <3>2. ASSUME NEW m \in BandwidthMessages, r.queue = Append(w.queue, m)
          PROVE  ToSet(w.queue) \subseteq ToSet(r.queue)
      <4>1. m \in Messages
        BY DEF Messages
      <4>2. ToSet(Append(w.queue, m)) = ToSet(w.queue) \cup {m}
        BY <2>1, <4>1, AppendIsLast
      <4> QED
        BY <3>2, <4>2
    <3> QED
      BY <1>2, <3>1, <3>2 DEF Shuffled
  <2> QED
    BY <2>2 DEF StartPosted
<1>4. Throttling(r)
  BY <1>1, <1>2, <1>3 DEF Throttling
<1> QED
  BY <1>4 DEF r

\* Every step keeps the throttling right, one step for each action again.
LEMMA NextKeepsThrottling ==
  ASSUME OthersAreHigh, IInv, Throttling(World), [Next]_vars
  PROVE  Throttling(World)'
<1>0. Good(World) /\ World \in Worlds
  BY DEF IInv, Good, Base, Typed
<1>1. ASSUME NEW w, Become(w), Good(w), Throttling(w)
      PROVE  Throttling(World)'
  <2>1. World' = w
    BY <1>1, BecomeIs DEF Good, Base, Typed
  <2>2. Throttling(World')
    BY <1>1, <2>1
  <2> QED
    BY <2>2
<1>9. ASSUME NEW w, Become(w), Good(w), Kept(World, w)
      PROVE  Throttling(World)'
  BY <1>1, <1>9, KeptThrottling
<1>2. /\ World.queue = queue /\ World.commands = commands /\ World.running = running
  BY DEF World
<1>3. Rest = Undelivered(World)
  BY DEF Rest, Undelivered
<1>4. CASE BandwidthAction
  <2>1. /\ Good(HandleBandwidthAction(Rest, Head(queue)))
        /\ Throttling(HandleBandwidthAction(Rest, Head(queue)))
    BY <1>0, <1>2, <1>3, <1>4, BandwidthActionKeeps, BandwidthActionThrottles DEF BandwidthAction
  <2> QED
    BY <1>1, <1>4, <2>1 DEF BandwidthAction
<1>5. CASE ScanEnableRequest
  <2>1. /\ Good(HandleScanEnableRequest(Rest, Head(queue).mode))
        /\ Kept(World, HandleScanEnableRequest(Rest, Head(queue).mode))
    BY <1>0, <1>2, <1>3, <1>5, ScanEnableRequestKeeps DEF ScanEnableRequest
  <2> QED
    BY <1>5, <1>9, <2>1 DEF ScanEnableRequest
<1>6. CASE ScanEnableConfirm
  <2>1. /\ Good(HandleScanEnableCfm(Rest, Head(queue).outstanding))
        /\ Throttling(HandleScanEnableCfm(Rest, Head(queue).outstanding))
    BY <1>0, <1>2, <1>3, <1>6, ScanEnableConfirmKeeps DEF ScanEnableConfirm
  <2> QED
    BY <1>1, <1>6, <2>1 DEF ScanEnableConfirm
<1>7. CASE Controller
  <2>1. Good(CarryOut(World)) /\ Kept(World, CarryOut(World))
    BY <1>0, <1>2, <1>7, CarryOutKeeps DEF Controller
  <2> QED
    BY <1>7, <1>9, <2>1 DEF Controller
<1>8. ASSUME NEW c \in Scans, NEW client \in Users(c),
             ScanRequest(c, client) \/ ScanRelease(c, client)
      PROVE  Throttling(World)'
  <2>1. Asks(c, client) \in ScanTypes
    BY DEF Asks, ScanTypes
  <2>2. /\ Good(ClientAddOrUpdate(World, c, client, Asks(c, client)))
        /\ Kept(World, ClientAddOrUpdate(World, c, client, Asks(c, client)))
    BY <1>0, <2>1, ClientAddOrUpdateKeeps
  <2>3. Good(ClientRemove(World, c, client)) /\ Kept(World, ClientRemove(World, c, client))
    BY <1>0, ClientRemoveKeeps
  <2>4. CASE ScanRequest(c, client)
    BY <1>9, <2>2, <2>4 DEF ScanRequest, Outside
  <2>5. CASE ScanRelease(c, client)
    BY <1>9, <2>3, <2>5 DEF ScanRelease, Outside
  <2> QED
    BY <1>8, <2>4, <2>5
<1>10. CASE Disable
  <2> DEFINE r == ScanDisable([World EXCEPT !.answer = "none"])
  <2>1. Good(r) /\ Kept(World, r)
    BY <1>0, ScanDisableKeeps
  <2> QED
    BY <1>9, <1>10, <2>1 DEF Disable, Outside
<1>11. CASE Enable
  <2>1. Good(ScanEnable(World)) /\ Kept(World, ScanEnable(World))
    BY <1>0, ScanEnableKeeps
  <2> QED
    BY <1>9, <1>11, <2>1 DEF Enable, Outside
<1>12. ASSUME NEW f \in Others, FeatureStarts(f)
       PROVE  Throttling(World)'
  <2>1. Become(FeatureStart(World, f)) /\ f \notin World.running
    BY <1>2, <1>12 DEF FeatureStarts, Outside
  <2>2. Throttling(FeatureStart(World, f))
    BY <1>0, <2>1, StartThrottles
  <2>3. FeatureStart(World, f) \in Worlds
    BY <1>0, OthersAssumption, FeatureStartIs DEF Shuffled, Good, Base
  <2>4. World' = FeatureStart(World, f)
    BY <2>1, <2>3, BecomeIs
  <2>5. Throttling(World')
    BY <2>2, <2>4
  <2> QED
    BY <2>5
<1>13. ASSUME NEW f \in Others, FeatureStops(f)
       PROVE  Throttling(World)'
  <2>1. Become(FeatureStop(World, f)) /\ f \in World.running
    BY <1>2, <1>13 DEF FeatureStops, Outside
  <2>2. Throttling(FeatureStop(World, f))
    BY <1>0, <2>1, StopThrottles
  <2>3. FeatureStop(World, f) \in Worlds
    BY <1>0, OthersAssumption, FeatureStopIs DEF Shuffled, Good, Base
  <2>4. World' = FeatureStop(World, f)
    BY <2>1, <2>3, BecomeIs
  <2>5. Throttling(World')
    BY <2>2, <2>4
  <2> QED
    BY <2>5
<1>14. CASE UNCHANGED vars
  <2>1. World' = World
    BY <1>14 DEF vars, World
  <2>2. Throttling(World')
    BY <2>1
  <2> QED
    BY <2>2
<1> QED
  BY <1>4, <1>5, <1>6, <1>7, <1>8, <1>10, <1>11, <1>12, <1>13, <1>14 DEF Next, Deliver

\* Once the bandwidth manager has handled its messages, a running feature is
\* throttled exactly when one of a higher priority runs, in a product where the
\* features besides page scan are of the highest priority.  With three
\* priorities it does not hold: a message's slot may have another feature by then.
THEOREM ThrottlingFollowsFeatures ==
  ASSUME OthersAreHigh
  PROVE  Spec => []ThrottledByHigher
<1>1. Init => Throttling(World)
  BY DEF Init, Throttling, World
<1>2. IInv /\ Throttling(World) /\ [Next]_vars => Throttling(World)'
  BY NextKeepsThrottling
<1>3. IInv /\ Throttling(World) => ThrottledByHigher
  <2> SUFFICES ASSUME IInv, Throttling(World), queue = << >>
      PROVE  throttled = {f \in running : \E g \in running : Priority(g) < Priority(f)}
    BY DEF ThrottledByHigher
  <2>1. ~StartPosted(World) /\ \A f : ~StopPosted(World, f)
    BY EmptySeq DEF StartPosted, StopPosted, World, ToSet
  <2>2. /\ running \subseteq Others \cup {"PAGE_SCAN"} /\ throttled \subseteq {"PAGE_SCAN"}
        /\ "PAGE_SCAN" \in throttled => running \cap Others # {}
        /\ "PAGE_SCAN" \in running \ throttled => running \cap Others = {}
    BY <2>1 DEF Throttling, World
  <2>3. throttled \subseteq running
    BY DEF IInv, Good, Base, Typed, World
  <2> DEFINE higher(f) == \E g \in running : Priority(g) < Priority(f)
  <2>4. \A f \in Others : ~higher(f) /\ f # "PAGE_SCAN"
    BY <2>2, Priorities
  <2>5. higher("PAGE_SCAN") <=> running \cap Others # {}
    BY <2>2, Priorities
  <2>6. throttled = {f \in running : higher(f)}
    <3> HIDE DEF higher
    <3> QED
      BY <2>2, <2>3, <2>4, <2>5
  <2> QED
    BY <2>6
<1> QED
  BY <1>1, <1>2, <1>3, RadioInvariant, PTL DEF Spec
=============================================================================
