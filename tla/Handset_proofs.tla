--------------------------- MODULE Handset_proofs ---------------------------
(***************************************************************************)
(* The types of the connection to one phone, that a disconnection is never *)
(* forgotten, and that every request to the profile manager is given an    *)
(* end, proved for any limit of attempts and for any number of messages    *)
(* under way, with or without an LE link.                                  *)
(***************************************************************************)
EXTENDS Handset, Keeping_proofs

---------------------------------------------------------------------------
(* Worlds.                                                                 *)

Reasons == {"timeout", "remote", "local"}
Results == {"success", "failed", "cancelled"}
Users   == {"connect", "stop", "all"}

Conns == [state : {"NONE", "CONNECTING_INTERNAL", "CONNECTING", "CONNECTED", "LINK_LOSS"},
          users : Nat, local : BOOLEAN]
Airs  == [state : {"DOWN", "PAGING", "UP"}, close : {"no", "soft", "force"}]
Slcs  == {"DOWN", "LOCAL", "REMOTE", "UP", "CLOSING"}
HfpStates == {"NONE", "DISCONNECTED", "CONNECTING_LOCAL", "CONNECTING_REMOTE", "CONNECTED",
              "DISCONNECTING"}
Hfps  == [state : HfpStates, cn : BOOLEAN, dn : BOOLEAN]
Types == {"connect", "disconnect"}
Pms   == [order : SUBSET Types, index : {"none", "asked", "cancelled"}, clients : SUBSET Types]
HsStates == {"NULL", "DISCONNECTED", "CONNECTED", "DISCONNECTING"} \cup Connecting
Hss   == [state : HsStates, wants : BOOLEAN, created : BOOLEAN, attempts : Nat,
          le : {"DISCONNECTED", "CONNECTED", "DISCONNECTING"},
          connects : BOOLEAN, disconnects : BOOLEAN, stop : BOOLEAN]

Worlds == [conn : Conns, le : {"NONE", "CONNECTED"}, air : Airs, leAir : {"DOWN", "UP", "CLOSING"},
           slc : Slcs, hfp : Hfps, pm : Pms, connected : BOOLEAN, hs : Hss,
           queue : Seq(Messages), later : [Timers -> Nat], waiting : SUBSET Users,
           panic : BOOLEAN]

---------------------------------------------------------------------------
(* The inductive invariant.                                                *)

\* The end of a disconnection is on its way to who asked for it.
Told(w) == \E n \in DOMAIN w.queue : w.queue[n].id = "DISCONNECT_CFM"

Remembered(w) == "all" \in w.waiting => w.hs.disconnects \/ Told(w)

Good(w) == w \in Worlds /\ Remembered(w)

IInv == Good(World)

\* What a step leaves as it is, as far as the disconnection is concerned
LEMMA AsideKeeps ==
  ASSUME NEW w, Good(w), NEW r \in Worlds, r.queue = w.queue, r.waiting = w.waiting,
         r.hs.disconnects = w.hs.disconnects
  PROVE  Good(r)
BY DEF Good, Remembered, Told

---------------------------------------------------------------------------
(* Messages and timers.                                                    *)

\* What the messages carry
LEMMA MessageFields ==
  ASSUME NEW m \in Messages
  PROVE  /\ m.id \in {"ACL_OPENED_IND", "SLC_CONNECT_CFM", "DISCONNECT_CFM"} => m.success \in BOOLEAN
         /\ m.id = "ACL_OPENED_IND" => m.incoming \in BOOLEAN
         /\ m.id \in {"ACL_CLOSED_IND", "TP_DISCONNECT_IND"} => m.reason \in Reasons
         /\ m.id = "TP_CONNECT_IND" => m.incoming \in BOOLEAN
         /\ m.id = "SLC_DISCONNECT_IND" => m.loss \in BOOLEAN
         /\ m.id = "CONNECT_REQ" => m.wants \in BOOLEAN
         /\ m.id \in {"CONNECT_PROFILES_CFM", "DISCONNECT_PROFILES_CFM"} => m.result \in Results
BY DEF Messages, Reasons, Results

\* The messages that only name what they are
PlainIds ==
  {"OPEN_ACL", "LE_OPENED_IND", "LE_CLOSED_IND", "SLC_CONNECT_IND", "HFP_DISCONNECT_REQ",
   "CONNECTED_PROFILE_IND", "DISCONNECTED_PROFILE_IND", "DISCONNECT_REQ", "CONNECT_STOP_REQ",
   "CONNECT_ACL_COMPLETE", "CONNECT_ACL_RETRY_REQ", "CONNECT_PROFILES_REQ"}

LEMMA PlainIs ==
  ASSUME NEW id \in PlainIds
  PROVE  [id |-> id] \in Messages
BY DEF PlainIds, Messages

\* What is sent is behind all that was sent before.
LEMMA SendIs ==
  ASSUME NEW w \in Worlds, NEW m \in Messages
  PROVE  /\ Send(w, m) \in Worlds
         /\ Told(w) \/ m.id = "DISCONNECT_CFM" => Told(Send(w, m))
         /\ Send(w, m).hs = w.hs /\ Send(w, m).waiting = w.waiting
<1> DEFINE r == Send(w, m)
           q == Append(w.queue, m)
<1>1. w.queue \in Seq(Messages)
  BY DEF Worlds
<1>2. /\ q \in Seq(Messages)
      /\ DOMAIN q = 1 .. Len(w.queue) + 1 /\ Len(w.queue) \in Nat
      /\ DOMAIN w.queue = 1 .. Len(w.queue)
      /\ \A n \in DOMAIN w.queue : q[n] = w.queue[n]
      /\ q[Len(w.queue) + 1] = m
  BY <1>1, AppendProperties, LenProperties
<1>3. r = [w EXCEPT !.queue = q]
  BY DEF Send
<1> HIDE DEF r, q
<1>4. r \in Worlds /\ r.queue = q /\ r.hs = w.hs /\ r.waiting = w.waiting
  BY <1>2, <1>3 DEF Worlds
<1>5. Told(w) \/ m.id = "DISCONNECT_CFM" => Told(r)
  BY <1>2, <1>4 DEF Told
<1> QED
  BY <1>4, <1>5 DEF r

LEMMA SendKeeps ==
  ASSUME NEW w, Good(w), NEW m \in Messages
  PROVE  Good(Send(w, m))
BY SendIs DEF Good, Remembered

LEMMA SendPlain ==
  ASSUME NEW w, Good(w), NEW id \in PlainIds
  PROVE  Good(Send(w, [id |-> id]))
BY SendKeeps, PlainIs

\* A timer is started.
LEMMA SendLaterKeeps ==
  ASSUME NEW w, Good(w), NEW id \in Timers
  PROVE  Good(SendLater(w, id))
<1> DEFINE t == [w.later EXCEPT ![id] = w.later[id] + 1]
           r == SendLater(w, id)
<1>1. w \in Worlds /\ w.later \in [Timers -> Nat]
  BY DEF Good, Worlds
<1>2. t \in [Timers -> Nat]
  BY <1>1
<1>3. r = [w EXCEPT !.later = t]
  BY <1>1 DEF SendLater, Worlds
<1> HIDE DEF t, r
<1>4. /\ r \in Worlds /\ r.queue = w.queue /\ r.waiting = w.waiting /\ r.hs = w.hs
  BY <1>1, <1>2, <1>3 DEF Worlds
<1>5. Good(r)
  BY <1>4, AsideKeeps
<1> QED
  BY <1>5 DEF r

\* Cancelling leaves what says that the disconnection has ended.
LEMMA CancelIs ==
  ASSUME NEW w \in Worlds, NEW ids, "DISCONNECT_CFM" \notin ids
  PROVE  /\ Cancel(w, ids) \in Worlds
         /\ Told(w) => Told(Cancel(w, ids))
         /\ Cancel(w, ids).hs = w.hs /\ Cancel(w, ids).waiting = w.waiting
<1> DEFINE r == Cancel(w, ids)
           q == Without(w.queue, ids)
           t == [id \in Timers |-> IF id \in ids THEN 0 ELSE w.later[id]]
<1>1. w.queue \in Seq(Messages) /\ w.later \in [Timers -> Nat]
  BY DEF Worlds
<1>2. /\ q \in Seq(Messages)
      /\ \A n \in DOMAIN w.queue : w.queue[n].id \notin ids => \E k \in DOMAIN q : q[k] = w.queue[n]
  BY <1>1, WithoutIs
<1>3. t \in [Timers -> Nat]
  BY <1>1
<1>4. r = [w EXCEPT !.queue = q, !.later = t]
  BY DEF Cancel
<1> HIDE DEF r, q, t
<1>5. r \in Worlds /\ r.queue = q /\ r.hs = w.hs /\ r.waiting = w.waiting
  BY <1>2, <1>3, <1>4 DEF Worlds
<1>6. Told(w) => Told(r)
  BY <1>2, <1>5 DEF Told
<1> QED
  BY <1>5, <1>6 DEF r

LEMMA CancelKeeps ==
  ASSUME NEW w, Good(w), NEW ids, "DISCONNECT_CFM" \notin ids
  PROVE  Good(Cancel(w, ids))
BY CancelIs DEF Good, Remembered

\* The first message of its kind is taken out of a sequence.
LEMMA RemoveFirstIs ==
  ASSUME NEW s \in Seq(Messages), NEW e
  PROVE  /\ RemoveFirst(s, e) \in Seq(Messages)
         /\ \A n \in DOMAIN s : s[n] # e => \E k \in DOMAIN RemoveFirst(s, e) : RemoveFirst(s, e)[k] = s[n]
<1>1. DOMAIN s = 1 .. Len(s) /\ Len(s) \in Nat
  BY LenProperties
<1>2. CASE ~(\E i \in 1 .. Len(s) : s[i] = e)
  <2>1. RemoveFirst(s, e) = s
    BY <1>2 DEF RemoveFirst
  <2> QED
    BY <2>1
<1>3. CASE \E i \in 1 .. Len(s) : s[i] = e
  <2> DEFINE I == {i \in 1 .. Len(s) : s[i] = e}
             first == CHOOSE n \in I : \A k \in I : n <= k
             r == RemoveFirst(s, e)
  <2>1. I \subseteq Nat /\ I # {}
    BY <1>1, <1>3
  <2>2. first \in I
    <3> HIDE DEF I
    <3> QED
      BY <2>1, LeastIs
  <2>3. r = RemoveAt(s, first)
    BY <1>3, <2>1 DEF RemoveFirst, SelectInSeq, Min
  <2>4. first \in 1 .. Len(s) /\ s[first] = e
    BY <2>2
  <2> HIDE DEF first, I, r
  <2>5. /\ r \in Seq(Messages) /\ Len(r) = Len(s) - 1
        /\ \A n \in 1 .. Len(s) - 1 : r[n] = IF n < first THEN s[n] ELSE s[n + 1]
    BY <2>3, <2>4, TakenOut DEF RemoveAt
  <2>6. ASSUME NEW n \in DOMAIN s, s[n] # e
        PROVE  \E k \in DOMAIN r : r[k] = s[n]
    <3>0. DOMAIN r = 1 .. Len(s) - 1
      BY <2>5, LenProperties
    <3>1. CASE n < first
      <4>1. n \in 1 .. Len(s) - 1 /\ r[n] = s[n]
        BY <1>1, <2>4, <2>5, <3>1
      <4> QED
        BY <3>0, <4>1
    <3>2. CASE ~(n < first)
      <4>1. n # first
        BY <2>4, <2>6
      <4>2. n - 1 \in 1 .. Len(s) - 1 /\ ~(n - 1 < first) /\ (n - 1) + 1 = n
        BY <1>1, <2>4, <3>2, <4>1
      <4>3. r[n - 1] = s[n]
        BY <2>5, <4>2
      <4> QED
        BY <3>0, <4>2, <4>3
    <3> QED
      BY <3>1, <3>2
  <2> QED
    BY <2>5, <2>6 DEF r
<1> QED
  BY <1>2, <1>3

\* One message or one timer of a kind goes that is not the end of a disconnection.
LEMMA CancelFirstKeeps ==
  ASSUME NEW w, Good(w), NEW id \in Timers \cup {"CONNECT_STOP_REQ"}
  PROVE  Good(CancelFirst(w, id))
<1> DEFINE e == [id |-> id]
           r == CancelFirst(w, id)
           byTimer == id \in Timers /\ ~Contains(w.queue, e)
<1>1. w \in Worlds /\ w.queue \in Seq(Messages) /\ w.later \in [Timers -> Nat]
  BY DEF Good, Worlds
<1>2. CASE byTimer
  <2> DEFINE old == w.later[id]
             less == IF old = 0 THEN 0 ELSE old - 1
             t == [w.later EXCEPT ![id] = less]
  <2>1. old \in Nat
    BY <1>1, <1>2
  <2>2. less \in Nat
    <3> HIDE DEF old
    <3> QED
      BY <2>1
  <2>3. r = [w EXCEPT !.later = t]
    BY <1>1, <1>2 DEF CancelFirst, Worlds
  <2> HIDE DEF less
  <2>4. t \in [Timers -> Nat]
    BY <1>1, <2>2
  <2> HIDE DEF t, r
  <2>5. r \in Worlds /\ r.queue = w.queue /\ r.waiting = w.waiting /\ r.hs = w.hs
    BY <1>1, <2>3, <2>4 DEF Worlds
  <2> QED
    BY <2>5, AsideKeeps DEF r
<1>3. CASE ~byTimer
  <2> DEFINE q == RemoveFirst(w.queue, e)
  <2>1. /\ q \in Seq(Messages)
        /\ \A n \in DOMAIN w.queue : w.queue[n] # e => \E k \in DOMAIN q : q[k] = w.queue[n]
    <3> HIDE DEF e
    <3> QED
      BY <1>1, RemoveFirstIs
  <2>2. r = [w EXCEPT !.queue = q]
    BY <1>3 DEF CancelFirst
  <2>3. e.id # "DISCONNECT_CFM"
    BY DEF Timers
  <2> HIDE DEF q, r, e
  <2>4. r \in Worlds /\ r.queue = q /\ r.waiting = w.waiting /\ r.hs = w.hs
    BY <1>1, <2>1, <2>2 DEF Worlds
  <2>5. Told(w) => Told(r)
    BY <2>1, <2>3, <2>4 DEF Told
  <2>6. Good(r)
    BY <2>4, <2>5 DEF Good, Remembered
  <2> QED
    BY <2>6 DEF r
<1> QED
  BY <1>2, <1>3

---------------------------------------------------------------------------
(* The connection manager.                                                 *)

\* A record of a link is changed, and nothing else.
LEMMA ConnKeeps ==
  ASSUME NEW w, Good(w), NEW c \in Conns
  PROVE  Good([w EXCEPT !.conn = c])
<1> DEFINE r == [w EXCEPT !.conn = c]
<1>1. r \in Worlds /\ r.queue = w.queue /\ r.waiting = w.waiting /\ r.hs = w.hs
  BY DEF Good, Worlds
<1> QED
  BY <1>1, AsideKeeps

LEMMA AirKeeps ==
  ASSUME NEW w, Good(w), NEW a \in Airs
  PROVE  Good([w EXCEPT !.air = a])
<1> DEFINE r == [w EXCEPT !.air = a]
<1>1. r \in Worlds /\ r.queue = w.queue /\ r.waiting = w.waiting /\ r.hs = w.hs
  BY DEF Good, Worlds
<1> QED
  BY <1>1, AsideKeeps

LEMMA CreateAclKeeps ==
  ASSUME NEW w, Good(w)
  PROVE  Good(CreateAcl(w))
<1> DEFINE c     == w.conn
           one   == c.users + 1
           fresh == [state |-> "CONNECTING_INTERNAL", users |-> 1, local |-> TRUE]
           again == [c EXCEPT !.state = "CONNECTING_INTERNAL", !.users = one]
           more  == [c EXCEPT !.users = one]
<1>0. c \in Conns
  BY DEF Good, Worlds
<1>1. one \in Nat
  BY <1>0 DEF Conns
<1>2. fresh \in Conns
  BY DEF Conns
<1>3. "OPEN_ACL" \in PlainIds
  BY DEF PlainIds
<1>4. CASE c.state = "NONE"
  <2>1. CreateAcl(w) = Send([w EXCEPT !.conn = fresh], [id |-> "OPEN_ACL"])
    BY <1>4 DEF CreateAcl
  <2> HIDE DEF fresh
  <2>2. Good([w EXCEPT !.conn = fresh])
    BY <1>2, ConnKeeps
  <2> QED
    BY <1>3, <2>1, <2>2, SendPlain
<1>5. CASE c.state = "LINK_LOSS"
  <2>3. CreateAcl(w) = Send([w EXCEPT !.conn = again], [id |-> "OPEN_ACL"])
    <3>1. CreateAcl(w) = Send([w EXCEPT !.conn.state = "CONNECTING_INTERNAL", !.conn.users = @ + 1],
                              [id |-> "OPEN_ACL"])
      BY <1>5 DEF CreateAcl
    <3>2. [w EXCEPT !.conn.state = "CONNECTING_INTERNAL", !.conn.users = @ + 1]
            = [w EXCEPT !.conn = again]
      BY <1>0 DEF Conns, Good, Worlds
    <3> QED
      BY <3>1, <3>2
  <2> HIDE DEF one, c
  <2>4. again \in Conns
    BY <1>0, <1>1 DEF Conns
  <2> HIDE DEF again
  <2>5. Good([w EXCEPT !.conn = again])
    BY <2>4, ConnKeeps
  <2> QED
    BY <1>3, <2>3, <2>5, SendPlain
<1>6. CASE c.state \notin {"NONE", "LINK_LOSS"}
  <2>1. CreateAcl(w) = [w EXCEPT !.conn = more]
    BY <1>6 DEF CreateAcl
  <2> HIDE DEF one, c
  <2>2. more \in Conns
    BY <1>0, <1>1 DEF Conns
  <2> HIDE DEF more
  <2> QED
    BY <2>1, <2>2, ConnKeeps
<1> QED
  BY <1>4, <1>5, <1>6

LEMMA OpenAclKeeps ==
  ASSUME NEW w, Good(w)
  PROVE  Good(HandleOpenAcl(w))
<1> DEFINE c == [w.conn EXCEPT !.state = "CONNECTING"]
           a == [state |-> IF w.air.state = "DOWN" THEN "PAGING" ELSE w.air.state, close |-> "no"]
<1>0. w.conn \in Conns /\ w.air \in Airs
  BY DEF Good, Worlds
<1>1. c \in Conns /\ a \in Airs
  BY <1>0 DEF Conns, Airs
<1>2. w.conn.state = "CONNECTING_INTERNAL" =>
        HandleOpenAcl(w) = [[w EXCEPT !.conn = c] EXCEPT !.air = a]
  BY <1>0 DEF HandleOpenAcl, Good, Worlds
<1> HIDE DEF c, a
<1>3. Good([w EXCEPT !.conn = c])
  BY <1>1, ConnKeeps
<1>4. Good([[w EXCEPT !.conn = c] EXCEPT !.air = a])
  BY <1>1, <1>3, AirKeeps
<1> QED
  BY <1>2, <1>4 DEF HandleOpenAcl

LEMMA SendCloseAclKeeps ==
  ASSUME NEW w, Good(w), NEW force \in BOOLEAN
  PROVE  Good(SendCloseAcl(w, force))
<1> DEFINE a == [w.air EXCEPT !.close = IF force THEN "force" ELSE "soft"]
<1>1. w.air \in Airs
  BY DEF Good, Worlds
<1>2. a \in Airs
  BY <1>1 DEF Airs
<1>3. SendCloseAcl(w, force) \in {w, [w EXCEPT !.air = a]}
  BY DEF SendCloseAcl
<1> HIDE DEF a
<1>4. Good([w EXCEPT !.air = a])
  BY <1>2, AirKeeps
<1> QED
  BY <1>3, <1>4

LEMMA ReleaseAclKeeps ==
  ASSUME NEW w, Good(w)
  PROVE  Good(ReleaseAcl(w))
<1> DEFINE n == IF w.conn.users > 0 THEN w.conn.users - 1 ELSE 0
           less == [w.conn EXCEPT !.users = n]
           last == [w.conn EXCEPT !.users = 0]
<1>0. w.conn \in Conns
  BY DEF Good, Worlds
<1>1. n \in Nat
  <2> DEFINE u == w.conn.users
  <2>1. u \in Nat
    BY <1>0 DEF Conns
  <2> HIDE DEF u
  <2>2. (IF u > 0 THEN u - 1 ELSE 0) \in Nat
    BY <2>1
  <2> QED
    BY <2>2 DEF u
<1>2. \/ ReleaseAcl(w) = w
      \/ ReleaseAcl(w) = [w EXCEPT !.conn = less]
      \/ ReleaseAcl(w) = [w EXCEPT !.conn = NoConnection]
      \/ ReleaseAcl(w) = SendCloseAcl([w EXCEPT !.conn = last], FALSE)
  <2> HIDE DEF n
  <2>1. n > 0 \/ n = 0
    BY <1>1
  <2>2. ReleaseAcl(w) =
          CASE w.conn.state = "NONE" -> w
            [] w.conn.state # "NONE" /\ n > 0 -> [w EXCEPT !.conn.users = n]
            [] w.conn.state = "CONNECTING_INTERNAL" /\ n = 0 -> [w EXCEPT !.conn = NoConnection]
            [] OTHER -> SendCloseAcl([w EXCEPT !.conn.users = 0], FALSE)
    BY DEF ReleaseAcl, n
  <2> QED
    BY <2>1, <2>2
<1> HIDE DEF n
<1>3. less \in Conns /\ last \in Conns /\ NoConnection \in Conns
  BY <1>0, <1>1 DEF Conns, NoConnection
<1> HIDE DEF less, last
<1>4. /\ Good([w EXCEPT !.conn = less]) /\ Good([w EXCEPT !.conn = NoConnection])
      /\ Good([w EXCEPT !.conn = last])
  BY <1>3, ConnKeeps
<1>5. Good(SendCloseAcl([w EXCEPT !.conn = last], FALSE))
  BY <1>4, SendCloseAclKeeps
<1> QED
  BY <1>2, <1>4, <1>5

LEMMA ReleaseTpAclKeeps ==
  ASSUME NEW w, Good(w)
  PROVE  Good(ReleaseTpAcl(w))
<1> DEFINE r == [w EXCEPT !.leAir = "CLOSING"]
<1>1. r \in Worlds /\ r.queue = w.queue /\ r.waiting = w.waiting /\ r.hs = w.hs
  BY DEF Good, Worlds
<1>2. Good(r)
  BY <1>1, AsideKeeps
<1> QED
  BY <1>2 DEF ReleaseTpAcl

LEMMA AclOpenedKeeps ==
  ASSUME NEW w, Good(w), NEW success \in BOOLEAN, NEW incoming \in BOOLEAN
  PROVE  Good(HandleAclOpened(w, success, incoming))
<1> DEFINE c == [w.conn EXCEPT !.state = "CONNECTED", !.local = ~incoming]
           m == [id |-> "TP_CONNECT_IND", transport |-> "BREDR", incoming |-> incoming]
<1>0. w.conn \in Conns
  BY DEF Good, Worlds
<1>1. (~incoming) \in BOOLEAN
  BY Zenon
<1>2. c \in Conns /\ NoConnection \in Conns
  <2> DEFINE other == ~incoming
  <2> HIDE DEF other
  <2>1. other \in BOOLEAN
    BY <1>1 DEF other
  <2>2. [w.conn EXCEPT !.state = "CONNECTED", !.local = other] \in Conns
    BY <1>0, <2>1 DEF Conns
  <2> QED
    BY <2>2 DEF other, Conns, NoConnection
<1>3. m \in Messages
  BY DEF Messages
<1>4. /\ success => HandleAclOpened(w, success, incoming) = Send([w EXCEPT !.conn = c], m)
      /\ ~success => HandleAclOpened(w, success, incoming) = [w EXCEPT !.conn = NoConnection]
  BY <1>0 DEF HandleAclOpened, Good, Worlds
<1> HIDE DEF c, m
<1>5. Good([w EXCEPT !.conn = c]) /\ Good([w EXCEPT !.conn = NoConnection])
  BY <1>2, ConnKeeps
<1> QED
  BY <1>3, <1>4, <1>5, SendKeeps

LEMMA AclClosedKeeps ==
  ASSUME NEW w, Good(w), NEW reason \in Reasons
  PROVE  Good(HandleAclClosed(w, reason))
<1> DEFINE c == IF reason = "timeout" THEN [NoConnection EXCEPT !.state = "LINK_LOSS"] ELSE NoConnection
           m == [id |-> "TP_DISCONNECT_IND", transport |-> "BREDR", reason |-> reason]
<1>1. c \in Conns
  BY DEF Conns, NoConnection
<1>2. m \in Messages
  BY DEF Messages, Reasons
<1>3. HandleAclClosed(w, reason) = Send([w EXCEPT !.conn = c], m)
  BY DEF HandleAclClosed
<1> HIDE DEF c, m
<1>4. Good([w EXCEPT !.conn = c])
  BY <1>1, ConnKeeps
<1> QED
  BY <1>2, <1>3, <1>4, SendKeeps

LEMMA LeIndicationsKeep ==
  ASSUME NEW w, Good(w)
  PROVE  Good(HandleLeOpened(w)) /\ Good(HandleLeClosed(w))
<1> DEFINE up   == [w EXCEPT !.le = "CONNECTED"]
           down == [w EXCEPT !.le = "NONE"]
           mu   == [id |-> "TP_CONNECT_IND", transport |-> "BLE", incoming |-> TRUE]
           md   == [id |-> "TP_DISCONNECT_IND", transport |-> "BLE", reason |-> "local"]
<1>1. up \in Worlds /\ up.queue = w.queue /\ up.waiting = w.waiting /\ up.hs = w.hs
  BY DEF Good, Worlds
<1>2. down \in Worlds /\ down.queue = w.queue /\ down.waiting = w.waiting /\ down.hs = w.hs
  BY DEF Good, Worlds
<1>3. mu \in Messages /\ md \in Messages
  BY DEF Messages
<1>4. HandleLeOpened(w) = Send(up, mu) /\ HandleLeClosed(w) = Send(down, md)
  BY DEF HandleLeOpened, HandleLeClosed
<1> HIDE DEF up, down, mu, md
<1>5. Good(up) /\ Good(down)
  BY <1>1, <1>2, AsideKeeps
<1> QED
  BY <1>3, <1>4, <1>5, SendKeeps

\* Bluestack's own side of the link
LEMMA LinkUpKeeps ==
  ASSUME NEW w, Good(w), NEW incoming \in BOOLEAN
  PROVE  Good(LinkUp(w, incoming)) /\ Good(PageFails(w))
<1> DEFINE a  == [w.air EXCEPT !.state = "UP"]
           mu == [id |-> "ACL_OPENED_IND", success |-> TRUE, incoming |-> incoming]
           mf == [id |-> "ACL_OPENED_IND", success |-> FALSE, incoming |-> FALSE]
<1>0. w.air \in Airs
  BY DEF Good, Worlds
<1>1. a \in Airs /\ LinkDown \in Airs
  BY <1>0 DEF Airs, LinkDown
<1>2. mu \in Messages /\ mf \in Messages
  BY DEF Messages
<1>3. /\ LinkUp(w, incoming) = Send([w EXCEPT !.air = a], mu)
      /\ PageFails(w) = Send([w EXCEPT !.air = LinkDown], mf)
  BY DEF LinkUp, PageFails
<1> HIDE DEF a, mu, mf
<1>4. Good([w EXCEPT !.air = a]) /\ Good([w EXCEPT !.air = LinkDown])
  BY <1>1, AirKeeps
<1> QED
  BY <1>2, <1>3, <1>4, SendKeeps

---------------------------------------------------------------------------
(* The profile manager and the HFP profile.                                *)

LEMMA HfpKeeps ==
  ASSUME NEW w, Good(w), NEW state \in HfpStates, NEW b \in BOOLEAN
  PROVE  /\ Good([w EXCEPT !.hfp.state = state])
         /\ Good([w EXCEPT !.hfp.cn = b])
         /\ Good([w EXCEPT !.hfp.dn = b])
<1>0. w \in Worlds /\ w.hfp \in Hfps
  BY DEF Good, Worlds
<1>1. ASSUME NEW h \in Hfps PROVE Good([w EXCEPT !.hfp = h])
  <2> DEFINE r == [w EXCEPT !.hfp = h]
  <2>1. r \in Worlds /\ r.queue = w.queue /\ r.waiting = w.waiting /\ r.hs = w.hs
    BY <1>0 DEF Worlds
  <2> QED
    BY <2>1, AsideKeeps
<1>2. /\ [w.hfp EXCEPT !.state = state] \in Hfps /\ [w.hfp EXCEPT !.cn = b] \in Hfps
      /\ [w.hfp EXCEPT !.dn = b] \in Hfps
  BY <1>0 DEF Hfps
<1>3. /\ Good([w EXCEPT !.hfp = [w.hfp EXCEPT !.state = state]])
      /\ Good([w EXCEPT !.hfp = [w.hfp EXCEPT !.cn = b]])
      /\ Good([w EXCEPT !.hfp = [w.hfp EXCEPT !.dn = b]])
  BY <1>1, <1>2
<1> QED
  BY <1>3

LEMMA PmKeeps ==
  ASSUME NEW w, Good(w), NEW v \in Pms
  PROVE  Good([w EXCEPT !.pm = v])
<1> DEFINE r == [w EXCEPT !.pm = v]
<1>1. r \in Worlds /\ r.queue = w.queue /\ r.waiting = w.waiting /\ r.hs = w.hs
  BY DEF Good, Worlds
<1> QED
  BY <1>1, AsideKeeps

LEMMA SlcKeeps ==
  ASSUME NEW w, Good(w), NEW s \in Slcs
  PROVE  Good([w EXCEPT !.slc = s])
<1> DEFINE r == [w EXCEPT !.slc = s]
<1>1. r \in Worlds /\ r.queue = w.queue /\ r.waiting = w.waiting /\ r.hs = w.hs
  BY DEF Good, Worlds
<1> QED
  BY <1>1, AsideKeeps

LEMMA MarkKeeps ==
  ASSUME NEW w, Good(w), NEW b \in BOOLEAN
  PROVE  Good([w EXCEPT !.connected = b]) /\ Good([w EXCEPT !.panic = b])
<1> DEFINE r == [w EXCEPT !.connected = b]
           s == [w EXCEPT !.panic = b]
<1>1. r \in Worlds /\ r.queue = w.queue /\ r.waiting = w.waiting /\ r.hs = w.hs
  BY DEF Good, Worlds
<1>2. s \in Worlds /\ s.queue = w.queue /\ s.waiting = w.waiting /\ s.hs = w.hs
  BY DEF Good, Worlds
<1> QED
  BY <1>1, <1>2, AsideKeeps

LEMMA PanicKeeps ==
  ASSUME NEW w, Good(w)
  PROVE  Good(Panic(w))
BY MarkKeeps DEF Panic

\* Only names
LEMMA ProfileMessages ==
  /\ "HFP_DISCONNECT_REQ" \in PlainIds /\ "CONNECTED_PROFILE_IND" \in PlainIds
  /\ "DISCONNECTED_PROFILE_IND" \in PlainIds
  /\ \A b \in BOOLEAN : [id |-> "HFP_CONNECT_REQ", again |-> b] \in Messages
BY DEF PlainIds, Messages

LEMMA SendConfirmationKeeps ==
  ASSUME NEW w, Good(w), NEW type \in Types, NEW result \in Results
  PROVE  Good(SendConfirmation(w, type, result))
<1> DEFINE v  == [w.pm EXCEPT !.clients = w.pm.clients \ {type}]
           id == IF type = "connect" THEN "CONNECT_PROFILES_CFM" ELSE "DISCONNECT_PROFILES_CFM"
           m  == [id |-> id, result |-> result]
<1>0. w.pm \in Pms
  BY DEF Good, Worlds
<1>1. v \in Pms
  BY <1>0 DEF Pms
<1>2. m \in Messages
  <2>1. id \in {"CONNECT_PROFILES_CFM", "DISCONNECT_PROFILES_CFM"}
    OBVIOUS
  <2> HIDE DEF id
  <2> QED
    BY <2>1 DEF Messages, Results
<1>3. SendConfirmation(w, type, result) \in {w, Send([w EXCEPT !.pm = v], m)}
  BY DEF SendConfirmation
<1> HIDE DEF v, m
<1>4. Good([w EXCEPT !.pm = v])
  BY <1>1, PmKeeps
<1>5. Good(Send([w EXCEPT !.pm = v], m))
  BY <1>2, <1>4, SendKeeps
<1> QED
  BY <1>3, <1>5

LEMMA RemoveRequestKeeps ==
  ASSUME NEW w, Good(w), NEW type \in Types
  PROVE  Good(RemoveRequest(w, type))
<1> DEFINE v == [w.pm EXCEPT !.index = "none", !.order = w.pm.order \ {type}]
<1>0. w.pm \in Pms
  BY DEF Good, Worlds
<1>1. v \in Pms
  BY <1>0 DEF Pms
<1>2. RemoveRequest(w, type) = [w EXCEPT !.pm = v]
  BY <1>0 DEF RemoveRequest, Pms, Good, Worlds
<1> HIDE DEF v
<1> QED
  BY <1>1, <1>2, PmKeeps

LEMMA CompleteKeeps ==
  ASSUME NEW w, Good(w), NEW type \in Types
  PROVE  Good(Complete(w, type))
<1> DEFINE result == IF type = "disconnect" \/ w.connected THEN "success" ELSE "failed"
           v == RemoveRequest(w, type)
<1>1. result \in Results
  BY DEF Results
<1>2. Good(v)
  BY RemoveRequestKeeps
<1>3. Complete(w, type) = SendConfirmation(v, type, result)
  BY DEF Complete
<1> HIDE DEF v, result
<1> QED
  BY <1>1, <1>2, <1>3, SendConfirmationKeeps

LEMMA NextOnIndicationKeeps ==
  ASSUME NEW w, Good(w), NEW type \in Types
  PROVE  Good(NextOnIndication(w, type))
<1> DEFINE v == RemoveRequest(w, "connect")
           s == SendConfirmation(v, "connect", "cancelled")
<1>1. "connect" \in Types /\ "cancelled" \in Results
  BY DEF Types, Results
<1>2. NextOnIndication(w, type) \in {w, Complete(w, type), s}
  <2> DEFINE open == type \in w.pm.clients \cap w.pm.order
  <2>1. NextOnIndication(w, type) =
          CASE ~open \/ w.pm.index = "none" -> w
            [] open /\ w.pm.index = "asked" -> Complete(w, type)
            [] OTHER -> s
    BY DEF NextOnIndication
  <2> HIDE DEF open, s
  <2> QED
    BY <2>1
<1> HIDE DEF v, s
<1>3. Good(v)
  BY <1>1, RemoveRequestKeeps DEF v
<1>4. Good(s)
  BY <1>1, <1>3, SendConfirmationKeeps DEF s
<1>5. Good(Complete(w, type))
  BY CompleteKeeps
<1> QED
  BY <1>2, <1>4, <1>5

LEMMA GenericIndicationsKeep ==
  ASSUME NEW w, Good(w)
  PROVE  Good(GenericConnectedInd(w)) /\ Good(GenericDisconnectedInd(w))
<1> DEFINE up   == [w EXCEPT !.connected = TRUE]
           down == [w EXCEPT !.connected = FALSE]
<1>1. Good(up) /\ Good(down)
  BY MarkKeeps
<1>2. "connect" \in Types /\ "disconnect" \in Types
  BY DEF Types
<1>3. Good(NextOnIndication(up, "connect")) /\ Good(NextOnIndication(down, "disconnect"))
  <2> HIDE DEF up, down
  <2> QED
    BY <1>1, <1>2, NextOnIndicationKeeps
<1> QED
  BY <1>3, SendPlain, ProfileMessages DEF GenericConnectedInd, GenericDisconnectedInd

LEMMA HfpDisconnectKeeps ==
  ASSUME NEW w, Good(w)
  PROVE  Good(HfpDisconnect(w))
<1> DEFINE asked == [w EXCEPT !.hfp.dn = TRUE]
           told  == GenericDisconnectedInd(asked)
           sent  == Send(asked, [id |-> "HFP_DISCONNECT_REQ"])
<1>1. HfpDisconnect(w) \in {[told EXCEPT !.hfp.dn = FALSE], sent}
  BY DEF HfpDisconnect
<1>2. Good(asked)
  BY HfpKeeps DEF HfpStates
<1> HIDE DEF asked
<1>3. Good(told) /\ Good(sent)
  BY <1>2, GenericIndicationsKeep, SendPlain, ProfileMessages
<1> HIDE DEF told, sent
<1>4. Good([told EXCEPT !.hfp.dn = FALSE])
  BY <1>3, HfpKeeps DEF HfpStates
<1> QED
  BY <1>1, <1>3, <1>4

LEMMA ConfirmConnectKeeps ==
  ASSUME NEW w, Good(w), NEW successful \in BOOLEAN
  PROVE  Good(ConfirmConnect(w, successful))
<1> DEFINE r == GenericConnectCfm(w, successful)
<1>1. "connect" \in Types
  BY DEF Types
<1>2. Good(r)
  BY <1>1, NextOnIndicationKeeps, HfpDisconnectKeeps, GenericIndicationsKeep DEF GenericConnectCfm
<1>3. ConfirmConnect(w, successful) = [r EXCEPT !.hfp.cn = FALSE]
  BY DEF ConfirmConnect
<1> HIDE DEF r
<1> QED
  BY <1>2, <1>3, HfpKeeps DEF HfpStates

LEMMA HfpConnectKeeps ==
  ASSUME NEW w, Good(w)
  PROVE  Good(HfpConnect(w))
<1> DEFINE listed == [w EXCEPT !.hfp.cn = TRUE]
           s      == IF listed.hfp.state = "NONE" THEN "DISCONNECTED" ELSE listed.hfp.state
           there  == [listed EXCEPT !.hfp.state = s]
           held   == CreateAcl(there)
           asked  == Send(held, [id |-> "HFP_CONNECT_REQ", again |-> FALSE])
<1>1. HfpConnect(w) \in {ConfirmConnect(listed, TRUE), HfpConnectWithBdAddr(listed)}
  BY DEF HfpConnect
<1>2. Good(listed)
  BY HfpKeeps DEF HfpStates
<1> HIDE DEF listed
<1>3. HfpConnectWithBdAddr(listed) = asked
  BY DEF HfpConnectWithBdAddr
<1>4. s \in HfpStates
  BY <1>2 DEF Good, Worlds, Hfps, HfpStates
<1> HIDE DEF s
<1>5. Good(there)
  BY <1>2, <1>4, HfpKeeps
<1> HIDE DEF there
<1>6. Good(held)
  BY <1>5, CreateAclKeeps
<1> HIDE DEF held
<1>7. Good(asked)
  BY <1>6, SendKeeps, ProfileMessages
<1>8. Good(ConfirmConnect(listed, TRUE))
  BY <1>2, ConfirmConnectKeeps
<1> QED
  BY <1>1, <1>3, <1>7, <1>8

LEMMA IssueKeeps ==
  ASSUME NEW w, Good(w), NEW type \in Types
  PROVE  Good(Issue(w, type))
BY HfpConnectKeeps, HfpDisconnectKeeps DEF Issue

LEMMA CancelPendingKeeps ==
  ASSUME NEW w, Good(w), NEW type \in Types
  PROVE  Good(CancelPending(w, type))
<1> DEFINE other == Opposite(type)
           undone == IF other \in w.pm.order THEN Issue(w, type) ELSE w
           removed == RemoveRequest(undone, other)
           told == SendConfirmation(removed, other, "cancelled")
<1>1. other \in Types /\ "cancelled" \in Results
  BY DEF Types, Opposite, Results
<1>2. CancelPending(w, type) \in {w, Panic(w), told}
  BY DEF CancelPending
<1> HIDE DEF other
<1>3. Good(undone)
  BY IssueKeeps
<1> HIDE DEF undone
<1>4. Good(removed)
  BY <1>1, <1>3, RemoveRequestKeeps
<1> HIDE DEF removed
<1>5. Good(told)
  BY <1>1, <1>4, SendConfirmationKeeps
<1> HIDE DEF told
<1>6. Good(Panic(w))
  BY PanicKeeps
<1> QED
  BY <1>2, <1>5, <1>6

LEMMA ProfilesRequestKeeps ==
  ASSUME NEW w, Good(w), NEW type \in Types
  PROVE  Good(ProfilesRequest(w, type))
<1> DEFINE v    == [w.pm EXCEPT !.order = w.pm.order \cup {type}]
           set  == [w EXCEPT !.pm.order = @ \cup {type}]
           free == CancelPending(set, type)
           u    == [free.pm EXCEPT !.clients = free.pm.clients \cup {type}, !.index = "asked"]
           new  == [free EXCEPT !.pm.clients = @ \cup {type}, !.pm.index = "asked"]
<1>1. ProfilesRequest(w, type) \in {Panic(w), free, Complete(new, type), Issue(new, type)}
  BY DEF ProfilesRequest
<1>2. Good(set)
  <2>1. v \in Pms /\ set = [w EXCEPT !.pm = v]
    BY DEF Pms, Good, Worlds
  <2> HIDE DEF v, set
  <2> QED
    BY <2>1, PmKeeps
<1> HIDE DEF set
<1>3. Good(free)
  BY <1>2, CancelPendingKeeps
<1> HIDE DEF free
<1>4. Good(new)
  <2>1. u \in Pms /\ new = [free EXCEPT !.pm = u]
    BY <1>3 DEF Pms, Good, Worlds
  <2> HIDE DEF u, new
  <2> QED
    BY <1>3, <2>1, PmKeeps
<1> HIDE DEF new
<1>5. Good(Panic(w)) /\ Good(Complete(new, type)) /\ Good(Issue(new, type))
  BY <1>4, PanicKeeps, CompleteKeeps, IssueKeeps
<1> QED
  BY <1>1, <1>3, <1>5

LEMMA StopRequestKeeps ==
  ASSUME NEW w, Good(w)
  PROVE  Good(StopRequest(w))
<1> DEFINE v == [w.pm EXCEPT !.index = "cancelled"]
<1>1. v \in Pms /\ StopRequest(w) = [w EXCEPT !.pm = v]
  BY DEF Pms, Good, Worlds, StopRequest
<1> HIDE DEF v
<1> QED
  BY <1>1, PmKeeps

LEMMA HfpSetStateKeeps ==
  ASSUME NEW w, Good(w), NEW state \in HfpStates
  PROVE  Good(HfpSetState(w, state))
<1> DEFINE r == IF w.hfp.state = "CONNECTING_LOCAL" THEN ReleaseAcl(w) ELSE w
<1>1. Good(r)
  BY ReleaseAclKeeps
<1>2. HfpSetState(w, state) = [r EXCEPT !.hfp.state = state]
  BY DEF HfpSetState
<1> HIDE DEF r
<1>3. TRUE \in BOOLEAN
  OBVIOUS
<1>4. Good([r EXCEPT !.hfp.state = state])
  BY <1>1, <1>3, HfpKeeps
<1> QED
  BY <1>2, <1>4

LEMMA HfpEnterConnectedKeeps ==
  ASSUME NEW w, Good(w)
  PROVE  Good(HfpEnterConnected(w))
<1> DEFINE up == HfpSetState(w, "CONNECTED")
<1>1. Good(up)
  BY HfpSetStateKeeps DEF HfpStates
<1>2. HfpEnterConnected(w) \in {ConfirmConnect(up, TRUE), GenericConnectedInd(up)}
  BY DEF HfpEnterConnected
<1> HIDE DEF up
<1>3. Good(ConfirmConnect(up, TRUE)) /\ Good(GenericConnectedInd(up))
  BY <1>1, ConfirmConnectKeeps, GenericIndicationsKeep
<1> QED
  BY <1>2, <1>3

LEMMA HfpEnterDisconnectedKeeps ==
  ASSUME NEW w, Good(w), NEW reason
  PROVE  Good(HfpEnterDisconnected(w, reason))
<1> DEFINE down   == HfpSetState(w, "DISCONNECTED")
           failed == IF down.hfp.cn THEN ConfirmConnect(down, FALSE) ELSE down
           asked  == failed.hfp.dn /\ reason = "normal"
           ended  == GenericDisconnectedInd(failed)
           told   == IF asked THEN [ended EXCEPT !.hfp.dn = FALSE]
                     ELSE IF down.hfp.cn THEN failed ELSE ended
           ids    == {"HFP_CONNECT_REQ", "HFP_DISCONNECT_REQ"}
           left   == Cancel(told, ids)
<1>1. Good(down)
  BY HfpSetStateKeeps DEF HfpStates
<1>2. HfpEnterDisconnected(w, reason) = [left EXCEPT !.hfp.state = "NONE"]
  BY DEF HfpEnterDisconnected
<1> HIDE DEF down
<1>3. Good(failed)
  BY <1>1, ConfirmConnectKeeps
<1> HIDE DEF failed
<1>4. Good(ended)
  BY <1>3, GenericIndicationsKeep
<1> HIDE DEF ended
<1>5. Good([ended EXCEPT !.hfp.dn = FALSE])
  BY <1>4, HfpKeeps DEF HfpStates
<1>6. Good(told)
  <2> HIDE DEF asked
  <2>1. told \in {[ended EXCEPT !.hfp.dn = FALSE], failed, ended}
    OBVIOUS
  <2> HIDE DEF told
  <2> QED
    BY <1>3, <1>4, <1>5, <2>1
<1> HIDE DEF told
<1>7. "DISCONNECT_CFM" \notin ids
  OBVIOUS
<1> HIDE DEF ids
<1>8. Good(left)
  BY <1>6, <1>7, CancelKeeps
<1> HIDE DEF left
<1> QED
  BY <1>2, <1>8, HfpKeeps DEF HfpStates

LEMMA HfpStartDisconnectingKeeps ==
  ASSUME NEW w, Good(w)
  PROVE  Good(HfpStartDisconnecting(w))
<1> DEFINE r == HfpSetState(w, "DISCONNECTING")
           s == IF r.slc = "UP" THEN "CLOSING" ELSE r.slc
<1>1. Good(r)
  BY HfpSetStateKeeps DEF HfpStates
<1>2. HfpStartDisconnecting(w) = [r EXCEPT !.slc = s]
  BY DEF HfpStartDisconnecting
<1> HIDE DEF r
<1>3. s \in Slcs
  BY <1>1 DEF Good, Worlds, Slcs
<1> HIDE DEF s
<1> QED
  BY <1>1, <1>2, <1>3, SlcKeeps

\* The handlers of the profile
LEMMA HfpConnectReqKeeps ==
  ASSUME NEW w, Good(w)
  PROVE  Good(HandleHfpConnectReq(w))
<1> DEFINE r == HfpSetState(w, "CONNECTING_LOCAL")
           s == IF r.slc = "DOWN" THEN "LOCAL" ELSE r.slc
           m == [id |-> "HFP_CONNECT_REQ", again |-> TRUE]
<1>1. Good(r)
  BY HfpSetStateKeeps DEF HfpStates
<1>2. HandleHfpConnectReq(w) \in {w, [r EXCEPT !.slc = s], HfpEnterDisconnected(w, "connect failed"),
                                  Send(w, m)}
  <2> DEFINE there == ConManagerIsConnected(w)
             gone  == HfpEnterDisconnected(w, "connect failed")
             begun == [r EXCEPT !.slc = s]
             again == Send(w, m)
  <2>1. HandleHfpConnectReq(w) =
          CASE w.hfp.state = "DISCONNECTED" /\ there -> begun
            [] w.hfp.state = "DISCONNECTED" /\ ~there -> gone
            [] w.hfp.state = "DISCONNECTING" -> again
            [] OTHER -> w
    BY DEF HandleHfpConnectReq
  <2>2. there \in BOOLEAN
    BY DEF ConManagerIsConnected
  <2> HIDE DEF there, gone, begun, again
  <2>3. HandleHfpConnectReq(w) \in {w, begun, gone, again}
    BY <2>1, <2>2
  <2> QED
    BY <2>3 DEF gone, begun, again
<1> HIDE DEF r
<1>3. s \in Slcs
  BY <1>1 DEF Good, Worlds, Slcs
<1> HIDE DEF s
<1>4. Good([r EXCEPT !.slc = s])
  BY <1>1, <1>3, SlcKeeps
<1>5. m \in Messages
  BY ProfileMessages
<1> HIDE DEF m
<1>6. Good(Send(w, m)) /\ Good(HfpEnterDisconnected(w, "connect failed"))
  BY <1>5, SendKeeps, HfpEnterDisconnectedKeeps
<1> QED
  BY <1>2, <1>4, <1>6

LEMMA HfpRequestsKeep ==
  ASSUME NEW w, Good(w), NEW b \in BOOLEAN
  PROVE  /\ Good(HandleHfpDisconnectReq(w)) /\ Good(HandleSlcConnectInd(w))
         /\ Good(HandleSlcConnectCfm(w, b)) /\ Good(HandleSlcDisconnectInd(w, b))
<1> DEFINE remote == HfpSetState(w, "CONNECTING_REMOTE")
           off    == HfpStartDisconnecting(w)
           up     == HfpEnterConnected(w)
           failed == HfpEnterDisconnected(w, "connect failed")
<1>1. Good(off) /\ Good(remote) /\ Good(up) /\ Good(failed)
  BY HfpStartDisconnectingKeeps, HfpSetStateKeeps, HfpEnterConnectedKeeps, HfpEnterDisconnectedKeeps
     DEF HfpStates
<1>2. Good(HandleHfpDisconnectReq(w)) /\ Good(HandleSlcConnectInd(w))
  BY <1>1 DEF HandleHfpDisconnectReq, HandleSlcConnectInd
<1>3. Good(HandleSlcConnectCfm(w, b))
  <2> DEFINE opening == HfpIsConnecting(w)
  <2>1. HandleSlcConnectCfm(w, b) =
          CASE opening /\ b -> up
            [] opening /\ ~b -> failed
            [] w.hfp.state = "CONNECTED" -> off
            [] OTHER -> w
    BY DEF HandleSlcConnectCfm
  <2> HIDE DEF opening, up, failed, off
  <2> QED
    BY <1>1, <2>1
<1>4. Good(HandleSlcDisconnectInd(w, b))
  BY HfpEnterDisconnectedKeeps DEF HandleSlcDisconnectInd
<1> QED
  BY <1>2, <1>3, <1>4

---------------------------------------------------------------------------
(* The handset service: answers and the exit of its states.                *)

\* The instance is changed, but for who waits for the disconnection.
LEMMA HsKeeps ==
  ASSUME NEW w, Good(w), NEW h \in Hss, h.disconnects = w.hs.disconnects
  PROVE  Good([w EXCEPT !.hs = h])
<1> DEFINE r == [w EXCEPT !.hs = h]
<1>1. r \in Worlds /\ r.queue = w.queue /\ r.waiting = w.waiting /\ r.hs = h
  BY DEF Good, Worlds
<1> QED
  BY <1>1, AsideKeeps

LEMMA HsFieldsKeep ==
  ASSUME NEW w, Good(w), NEW state \in HsStates, NEW b \in BOOLEAN,
         NEW n \in Nat, NEW l \in {"DISCONNECTED", "CONNECTED", "DISCONNECTING"}
  PROVE  /\ Good([w EXCEPT !.hs.state = state])
         /\ Good([w EXCEPT !.hs.wants = b])
         /\ Good([w EXCEPT !.hs.connects = b])
         /\ Good([w EXCEPT !.hs.stop = b])
         /\ Good([w EXCEPT !.hs.attempts = n])
         /\ Good([w EXCEPT !.hs.le = l])
         /\ Good([w EXCEPT !.hs.state = state, !.hs.created = b])
         /\ Good([w EXCEPT !.hs.created = b, !.hs.attempts = n])
<1>1. w.hs \in Hss
  BY DEF Good, Worlds
<1> DEFINE h1 == [w.hs EXCEPT !.state = state]
           h2 == [w.hs EXCEPT !.wants = b]
           h3 == [w.hs EXCEPT !.connects = b]
           h4 == [w.hs EXCEPT !.stop = b]
           h5 == [w.hs EXCEPT !.attempts = n]
           h6 == [w.hs EXCEPT !.le = l]
           h7 == [w.hs EXCEPT !.state = state, !.created = b]
           h8 == [w.hs EXCEPT !.created = b, !.attempts = n]
<1>2. /\ h1 \in Hss /\ h2 \in Hss /\ h3 \in Hss /\ h4 \in Hss /\ h5 \in Hss /\ h6 \in Hss
      /\ h7 \in Hss /\ h8 \in Hss
  BY <1>1 DEF Hss
<1>3. /\ h1.disconnects = w.hs.disconnects /\ h2.disconnects = w.hs.disconnects
      /\ h3.disconnects = w.hs.disconnects /\ h4.disconnects = w.hs.disconnects
      /\ h5.disconnects = w.hs.disconnects /\ h6.disconnects = w.hs.disconnects
      /\ h7.disconnects = w.hs.disconnects /\ h8.disconnects = w.hs.disconnects
  BY <1>1 DEF Hss
<1>4. /\ [w EXCEPT !.hs.state = state, !.hs.created = b] = [w EXCEPT !.hs = h7]
      /\ [w EXCEPT !.hs.created = b, !.hs.attempts = n] = [w EXCEPT !.hs = h8]
  BY DEF Good, Worlds
<1>5. /\ [w EXCEPT !.hs.state = state] = [w EXCEPT !.hs = h1]
      /\ [w EXCEPT !.hs.wants = b] = [w EXCEPT !.hs = h2]
      /\ [w EXCEPT !.hs.connects = b] = [w EXCEPT !.hs = h3]
      /\ [w EXCEPT !.hs.stop = b] = [w EXCEPT !.hs = h4]
      /\ [w EXCEPT !.hs.attempts = n] = [w EXCEPT !.hs = h5]
      /\ [w EXCEPT !.hs.le = l] = [w EXCEPT !.hs = h6]
  OBVIOUS
<1> HIDE DEF h1, h2, h3, h4, h5, h6, h7, h8
<1>6. /\ Good([w EXCEPT !.hs = h1]) /\ Good([w EXCEPT !.hs = h2]) /\ Good([w EXCEPT !.hs = h3])
      /\ Good([w EXCEPT !.hs = h4]) /\ Good([w EXCEPT !.hs = h5]) /\ Good([w EXCEPT !.hs = h6])
      /\ Good([w EXCEPT !.hs = h7]) /\ Good([w EXCEPT !.hs = h8])
  BY <1>2, <1>3, HsKeeps
<1> QED
  BY <1>4, <1>5, <1>6

\* The single fields, as they are changed one at a time
LEMMA HsStateKeeps ==
  ASSUME NEW w, Good(w), NEW state \in HsStates, NEW b \in BOOLEAN
  PROVE  Good([w EXCEPT !.hs.state = state]) /\ Good([w EXCEPT !.hs.state = state, !.hs.created = b])
<1>1. 0 \in Nat /\ "CONNECTED" \in {"DISCONNECTED", "CONNECTED", "DISCONNECTING"}
  OBVIOUS
<1> QED
  BY <1>1, HsFieldsKeep

LEMMA HsFlagsKeep ==
  ASSUME NEW w, Good(w), NEW b \in BOOLEAN
  PROVE  /\ Good([w EXCEPT !.hs.wants = b]) /\ Good([w EXCEPT !.hs.connects = b])
         /\ Good([w EXCEPT !.hs.stop = b])
<1>1. 0 \in Nat /\ "CONNECTED" \in {"DISCONNECTED", "CONNECTED", "DISCONNECTING"}
      /\ "NULL" \in HsStates
  BY DEF HsStates
<1> QED
  BY <1>1, HsFieldsKeep

LEMMA HsAttemptsKeep ==
  ASSUME NEW w, Good(w), NEW n \in Nat
  PROVE  /\ Good([w EXCEPT !.hs.attempts = n])
         /\ Good([w EXCEPT !.hs.created = TRUE, !.hs.attempts = n])
<1>1. TRUE \in BOOLEAN /\ "CONNECTED" \in {"DISCONNECTED", "CONNECTED", "DISCONNECTING"}
      /\ "NULL" \in HsStates
  BY DEF HsStates
<1> QED
  BY <1>1, HsFieldsKeep

LEMMA HsLeKeeps ==
  ASSUME NEW w, Good(w), NEW l \in {"DISCONNECTED", "CONNECTED", "DISCONNECTING"}
  PROVE  Good([w EXCEPT !.hs.le = l])
<1>1. TRUE \in BOOLEAN /\ 0 \in Nat /\ "NULL" \in HsStates
  BY DEF HsStates
<1> QED
  BY <1>1, HsFieldsKeep

\* Who asked for something else than a disconnection is answered.
LEMMA AnsweredKeeps ==
  ASSUME NEW w, Good(w), NEW had \in BOOLEAN, NEW what
  PROVE  Good(Answered(w, had, what))
<1> DEFINE u == IF had THEN w.waiting \ {what} ELSE w.waiting
           r == Answered(w, had, what)
<1>1. r = [w EXCEPT !.waiting = u]
  BY DEF Answered
<1>2. u \in SUBSET Users /\ u \subseteq w.waiting
  BY DEF Good, Worlds
<1> HIDE DEF u, r
<1>3. r \in Worlds /\ r.queue = w.queue /\ r.waiting = u /\ r.hs = w.hs
  BY <1>1, <1>2 DEF Good, Worlds
<1>4. Good(r)
  BY <1>2, <1>3 DEF Good, Remembered, Told
<1> QED
  BY <1>4 DEF r

\* Completing the connections touches nobody who waits for a disconnection.
LEMMA CompleteConnectRequestsIs ==
  ASSUME NEW w \in Worlds
  PROVE  /\ CompleteConnectRequests(w) \in Worlds
         /\ Good(w) => Good(CompleteConnectRequests(w))
<1> DEFINE u == IF w.hs.connects THEN w.waiting \ {"connect"} ELSE w.waiting
           h == [w.hs EXCEPT !.connects = FALSE]
           a == [w EXCEPT !.waiting = u, !.hs = h]
           ids == {"CONNECT_REQ", "CONNECT_ACL_RETRY_REQ"}
           r == Cancel(a, ids)
<1>1. CompleteConnectRequests(w) = r
  <2>1. [Answered(w, w.hs.connects, "connect") EXCEPT !.hs.connects = FALSE] = a
    BY DEF Answered, Worlds
  <2> HIDE DEF a
  <2> QED
    BY <2>1 DEF CompleteConnectRequests
<1>2. /\ u \in SUBSET Users /\ ("all" \in u <=> "all" \in w.waiting)
      /\ h \in Hss /\ h.disconnects = w.hs.disconnects
  BY DEF Worlds, Hss
<1>3. "DISCONNECT_CFM" \notin ids
  OBVIOUS
<1> HIDE DEF u, h, ids
<1>4. a \in Worlds /\ a.queue = w.queue /\ a.waiting = u /\ a.hs = h
  BY <1>2 DEF Worlds
<1> HIDE DEF a
<1>5. r \in Worlds /\ (Told(a) => Told(r)) /\ r.hs = a.hs /\ r.waiting = a.waiting
  BY <1>3, <1>4, CancelIs
<1> HIDE DEF r
<1>6. Good(w) => Good(r)
  BY <1>2, <1>4, <1>5 DEF Good, Remembered, Told
<1> QED
  BY <1>1, <1>5, <1>6

LEMMA CompleteConnectRequestsKeeps ==
  ASSUME NEW w, Good(w)
  PROVE  Good(CompleteConnectRequests(w))
BY CompleteConnectRequestsIs DEF Good

LEMMA CompleteConnectStopRequestsKeeps ==
  ASSUME NEW w, Good(w)
  PROVE  Good(CompleteConnectStopRequests(w))
<1> DEFINE a == Answered(w, w.hs.stop, "stop")
<1>1. w.hs.stop \in BOOLEAN
  BY DEF Good, Worlds, Hss
<1>2. Good(a)
  BY <1>1, AnsweredKeeps
<1>3. CompleteConnectStopRequests(w) = [a EXCEPT !.hs.stop = FALSE]
  BY DEF CompleteConnectStopRequests
<1> HIDE DEF a
<1> QED
  BY <1>2, <1>3, HsFlagsKeep

\* Completing the disconnections tells who waits, and takes nobody off without.
LEMMA CompleteDisconnectRequestsIs ==
  ASSUME NEW w, Good(w), NEW success \in BOOLEAN
  PROVE  /\ Good(CompleteDisconnectRequests(w, success))
         /\ "all" \in CompleteDisconnectRequests(w, success).waiting =>
              Told(CompleteDisconnectRequests(w, success))
<1> DEFINE h == [w.hs EXCEPT !.disconnects = FALSE]
           a == [w EXCEPT !.hs = h]
           m == [id |-> "DISCONNECT_CFM", success |-> success]
           s == IF w.hs.disconnects THEN Send(a, m) ELSE w
           ids == {"DISCONNECT_REQ"}
           r == Cancel(s, ids)
<1>0. w \in Worlds /\ w.hs \in Hss
  BY DEF Good, Worlds
<1>1. CompleteDisconnectRequests(w, success) = r
  BY DEF CompleteDisconnectRequests
<1>2. m \in Messages /\ m.id = "DISCONNECT_CFM"
  BY DEF Messages
<1>3. h \in Hss /\ ~h.disconnects
  BY <1>0 DEF Hss
<1> HIDE DEF h
<1>4. a \in Worlds /\ a.queue = w.queue /\ a.waiting = w.waiting /\ a.hs = h
  BY <1>0, <1>3 DEF Worlds
<1> HIDE DEF a, m
<1>5. Send(a, m) \in Worlds /\ Told(Send(a, m)) /\ Send(a, m).waiting = w.waiting
  BY <1>2, <1>4, SendIs
<1>6. s \in Worlds /\ s.waiting = w.waiting /\ ("all" \in s.waiting => Told(s))
  <2>1. CASE w.hs.disconnects
    BY <1>5, <2>1
  <2>2. CASE ~w.hs.disconnects
    BY <2>2 DEF Good, Remembered
  <2> QED
    BY <2>1, <2>2
<1>7. "DISCONNECT_CFM" \notin ids
  OBVIOUS
<1> HIDE DEF s, ids
<1>8. r \in Worlds /\ (Told(s) => Told(r)) /\ r.waiting = s.waiting
  BY <1>6, <1>7, CancelIs
<1> HIDE DEF r
<1>9. Good(r) /\ ("all" \in r.waiting => Told(r))
  BY <1>6, <1>8 DEF Good, Remembered
<1> QED
  BY <1>1, <1>9

\* The instance goes once whoever waited for its disconnection has been told.
LEMMA DeInitKeeps ==
  ASSUME NEW w, Good(w), "all" \in w.waiting => Told(w)
  PROVE  Good(DeInit(w))
<1> DEFINE c == Cancel(w, SmMessages)
           r == [c EXCEPT !.hs = NoHandset]
<1>0. w \in Worlds
  BY DEF Good
<1>1. "DISCONNECT_CFM" \notin SmMessages
  BY DEF SmMessages
<1>2. c \in Worlds /\ (Told(w) => Told(c)) /\ c.waiting = w.waiting
  BY <1>0, <1>1, CancelIs
<1>3. NoHandset \in Hss
  BY DEF NoHandset, Hss, HsStates
<1> HIDE DEF c
<1>4. r \in Worlds /\ r.queue = c.queue /\ r.waiting = c.waiting
  BY <1>2, <1>3 DEF Worlds
<1>5. DeInit(w) = r
  BY DEF DeInit, c
<1> HIDE DEF r
<1>6. Good(r)
  BY <1>2, <1>4 DEF Good, Remembered, Told
<1> QED
  BY <1>5, <1>6

LEMMA FindOrCreateKeeps ==
  ASSUME NEW w, Good(w)
  PROVE  Good(FindOrCreate(w))
<1>1. "DISCONNECTED" \in HsStates /\ TRUE \in BOOLEAN
  BY DEF HsStates
<1> QED
  BY <1>1, HsStateKeeps DEF FindOrCreate

LEMMA BleDisconnectKeeps ==
  ASSUME NEW w, Good(w)
  PROVE  Good(BleDisconnectIfConnected(w))
<1> DEFINE r == IF w.hs.le = "CONNECTED" THEN ReleaseTpAcl(w) ELSE w
<1>1. Good(r)
  BY ReleaseTpAclKeeps
<1>2. BleDisconnectIfConnected(w) \in {w, [r EXCEPT !.hs.le = "DISCONNECTING"]}
  BY DEF BleDisconnectIfConnected
<1> HIDE DEF r
<1>3. Good([r EXCEPT !.hs.le = "DISCONNECTING"])
  BY <1>1, HsLeKeeps
<1> QED
  BY <1>2, <1>3

LEMMA ExitStateKeeps ==
  ASSUME NEW w, Good(w), NEW state
  PROVE  Good(ExitState(w, state))
<1> DEFINE ids  == {"CONNECT_ACL_RETRY_REQ"}
           acl  == Cancel(w, ids)
           free == [acl EXCEPT !.hs.attempts = 0]
           both == w.hs.state = "DISCONNECTING" /\ state = "DISCONNECTED"
<1>1. Good(free)
  <2>1. Good(acl)
    <3>1. "DISCONNECT_CFM" \notin ids
      OBVIOUS
    <3> HIDE DEF ids
    <3> QED
      BY <3>1, CancelKeeps
  <2> HIDE DEF acl
  <2>2. 0 \in Nat
    OBVIOUS
  <2> QED
    BY <2>1, <2>2, HsAttemptsKeep
<1>2. ExitState(w, state) =
        CASE both -> BleDisconnectIfConnected(w)
          [] w.hs.state = "CONNECTING_ACL" -> free
          [] w.hs.state = "CONNECTING_PROFILES" -> CancelFirst(w, "CONNECT_PROFILES_REQ")
          [] w.hs.state = "STOP_CONNECTING_PROFILES" -> CancelFirst(w, "CONNECT_STOP_REQ")
          [] OTHER -> w
  BY DEF ExitState
<1> DEFINE p1 == CancelFirst(w, "CONNECT_PROFILES_REQ")
           p2 == CancelFirst(w, "CONNECT_STOP_REQ")
           p3 == BleDisconnectIfConnected(w)
<1>3. Good(p1) /\ Good(p2) /\ Good(p3)
  BY CancelFirstKeeps, BleDisconnectKeeps DEF Timers
<1> HIDE DEF free, both, p1, p2, p3
<1>4. ExitState(w, state) \in {p3, free, p1, p2, w}
  BY <1>2 DEF p1, p2, p3
<1> QED
  BY <1>1, <1>3, <1>4

LEMMA LeaveKeeps ==
  ASSUME NEW w, Good(w), NEW state \in HsStates
  PROVE  Good(Leave(w, state))
<1> DEFINE x == ExitState(w, state)
           y == ExitConnecting(x, state)
           b == y.hs.created /\ ~(w.hs.state \notin Connecting /\ state \in Connecting)
<1>1. Good(x)
  BY ExitStateKeeps
<1> HIDE DEF x
<1>2. Good(y)
  BY <1>1, ReleaseAclKeeps DEF ExitConnecting
<1> HIDE DEF y
<1>3. Leave(w, state) = [y EXCEPT !.hs.state = state, !.hs.created = b]
  BY <1>2 DEF Leave, x, y, Good, Worlds, Hss
<1>4. b \in BOOLEAN
  BY <1>2 DEF Good, Worlds, Hss
<1> HIDE DEF b
<1>5. Good([y EXCEPT !.hs.state = state, !.hs.created = b])
  BY <1>2, <1>4, HsStateKeeps
<1> QED
  BY <1>3, <1>5

LEMMA EnterKeeps ==
  ASSUME NEW w, Good(w)
  PROVE  Good(EnterDisconnected(w)) /\ Good(EnterConnected(w))
<1> DEFINE s == CompleteConnectStopRequests(w)
           c == CompleteConnectRequests(s)
           d == CompleteDisconnectRequests(c, TRUE)
           f == CompleteDisconnectRequests(c, FALSE)
<1>1. Good(s)
  BY CompleteConnectStopRequestsKeeps
<1> HIDE DEF s
<1>2. Good(c)
  BY <1>1, CompleteConnectRequestsKeeps
<1> HIDE DEF c
<1>3. Good(d) /\ Good(f) /\ ("all" \in d.waiting => Told(d))
  BY <1>2, CompleteDisconnectRequestsIs
<1> HIDE DEF d, f
<1>4. Good(DeInit(d))
  BY <1>3, DeInitKeeps
<1>5. EnterDisconnected(w) \in {DeInit(d), c}
  BY DEF EnterDisconnected, d, c, s
<1>6. EnterConnected(w) = f
  BY DEF EnterConnected, f, c, s
<1> QED
  BY <1>2, <1>3, <1>4, <1>5, <1>6

LEMMA SettleKeeps ==
  ASSUME NEW w, Good(w), NEW state \in {"CONNECTED", "DISCONNECTED"}
  PROVE  Good(Settle(w, state))
<1> DEFINE l == Leave(w, state)
<1>1. state \in HsStates
  BY DEF HsStates
<1>2. Good(l)
  BY <1>1, LeaveKeeps
<1>3. Settle(w, state) \in {Panic(w), EnterConnected(l), EnterDisconnected(l)}
  BY DEF Settle
<1> HIDE DEF l
<1> QED
  BY <1>2, <1>3, PanicKeeps, EnterKeeps

---------------------------------------------------------------------------
(* The handset service: what its states begin.                             *)

LEMMA StatesAre ==
  /\ Connecting \subseteq HsStates
  /\ "DISCONNECTED" \in HsStates /\ "CONNECTED" \in HsStates /\ "DISCONNECTING" \in HsStates
  /\ "CONNECTING_ACL" \in HsStates /\ "CONNECTING_PROFILES" \in HsStates
  /\ "STOP_CONNECTING_PROFILES" \in HsStates
BY DEF HsStates, Connecting

LEMMA ServiceMessages ==
  /\ "CONNECT_ACL_COMPLETE" \in PlainIds /\ "DISCONNECT_REQ" \in PlainIds
  /\ "CONNECT_STOP_REQ" \in PlainIds
  /\ "CONNECT_PROFILES_REQ" \in Timers /\ "CONNECT_ACL_RETRY_REQ" \in Timers
BY DEF PlainIds, Timers

LEMMA ConnectAclKeeps ==
  ASSUME NEW w, Good(w)
  PROVE  Good(ConnectAcl(w))
<1> DEFINE n == w.hs.attempts + 1
           a == [w EXCEPT !.hs.created = TRUE, !.hs.attempts = n]
           c == CreateAcl(a)
<1>1. n \in Nat
  BY DEF Good, Worlds, Hss
<1>2. ConnectAcl(w) = Send(c, [id |-> "CONNECT_ACL_COMPLETE"])
  <2>1. [w EXCEPT !.hs.created = TRUE, !.hs.attempts = @ + 1] = a
    BY DEF Good, Worlds, Hss
  <2> HIDE DEF a
  <2> QED
    BY <2>1 DEF ConnectAcl
<1> HIDE DEF n
<1>3. Good(a)
  BY <1>1, HsAttemptsKeep
<1> HIDE DEF a
<1>4. Good(c)
  BY <1>3, CreateAclKeeps
<1> HIDE DEF c
<1> QED
  BY <1>2, <1>4, SendPlain, ServiceMessages

LEMMA BeginAclKeeps ==
  ASSUME NEW w, Good(w)
  PROVE  Good(BeginAcl(w))
BY LeaveKeeps, ConnectAclKeeps, StatesAre DEF BeginAcl

LEMMA ConnectRequestedProfilesKeeps ==
  ASSUME NEW w, Good(w)
  PROVE  Good(ConnectRequestedProfiles(w))
<1>1. "connect" \in Types
  BY DEF Types
<1> QED
  BY <1>1, SettleKeeps, ProfilesRequestKeeps DEF ConnectRequestedProfiles

LEMMA BeginProfilesKeeps ==
  ASSUME NEW w, Good(w)
  PROVE  Good(BeginProfiles(w))
<1> DEFINE l   == Leave(w, "CONNECTING_PROFILES")
           b   == l.hs.wants /\ ~w.connected
           in  == [l EXCEPT !.hs.wants = b]
           c   == in.hs.wants \/ ~w.connected
           due == [in EXCEPT !.hs.wants = c]
<1>1. Good(l)
  BY LeaveKeeps, StatesAre
<1>2. BeginProfiles(w) \in {ConnectRequestedProfiles(in), SendLater(due, "CONNECT_PROFILES_REQ")}
  <2>1. [l EXCEPT !.hs.wants = @ /\ ~w.connected] = in
    OBVIOUS
  <2>2. [in EXCEPT !.hs.wants = @ \/ ~w.connected] = due
    OBVIOUS
  <2> HIDE DEF in, due
  <2> QED
    BY <2>1, <2>2 DEF BeginProfiles
<1>3. b \in BOOLEAN
  <2>1. l.hs.wants \in BOOLEAN /\ w.connected \in BOOLEAN
    BY <1>1 DEF Good, Worlds, Hss
  <2> HIDE DEF l
  <2> QED
    BY <2>1
<1> HIDE DEF l, b
<1>4. Good(in)
  BY <1>1, <1>3, HsFlagsKeep
<1>5. c \in BOOLEAN
  <2>1. in.hs.wants \in BOOLEAN /\ w.connected \in BOOLEAN
    BY <1>4 DEF Good, Worlds, Hss
  <2> HIDE DEF in
  <2> QED
    BY <2>1
<1> HIDE DEF in, c
<1>6. Good(due)
  BY <1>4, <1>5, HsFlagsKeep
<1> HIDE DEF due
<1> QED
  BY <1>2, <1>4, <1>6, ConnectRequestedProfilesKeeps, SendLaterKeeps, ServiceMessages

LEMMA StopProfilesKeeps ==
  ASSUME NEW w, Good(w)
  PROVE  Good(StopProfiles(w))
<1> DEFINE in == Leave(w, "STOP_CONNECTING_PROFILES")
<1>1. Good(in)
  BY LeaveKeeps, StatesAre
<1>2. StopProfiles(w) \in {StopRequest(in), Settle(in, "CONNECTED"), Settle(in, "DISCONNECTED")}
  BY DEF StopProfiles
<1> HIDE DEF in
<1> QED
  BY <1>1, <1>2, StopRequestKeeps, SettleKeeps

LEMMA TryDisconnectingKeeps ==
  ASSUME NEW w, Good(w)
  PROVE  Good(TryDisconnecting(w))
<1> DEFINE r == ProfilesRequest(w, "disconnect")
<1>1. "disconnect" \in Types
  BY DEF Types
<1>2. Good(r)
  BY <1>1, ProfilesRequestKeeps
<1>3. TryDisconnecting(w) \in {[r EXCEPT !.hs.wants = FALSE], SendCloseAcl(w, TRUE),
                               Settle(w, "DISCONNECTED")}
  BY DEF TryDisconnecting
<1> HIDE DEF r
<1>4. Good([r EXCEPT !.hs.wants = FALSE])
  BY <1>2, HsFlagsKeep
<1> QED
  BY <1>3, <1>4, SendCloseAclKeeps, SettleKeeps

LEMMA BeginDisconnectingKeeps ==
  ASSUME NEW w, Good(w)
  PROVE  Good(BeginDisconnecting(w))
BY LeaveKeeps, TryDisconnectingKeeps, StatesAre DEF BeginDisconnecting

---------------------------------------------------------------------------
(* The handset service: its handlers.                                      *)

LEMMA ConnectReqKeeps ==
  ASSUME NEW w, Good(w), NEW wants \in BOOLEAN
  PROVE  Good(HandleConnectReq(w, wants))
<1> DEFINE new == [w EXCEPT !.hs.wants = wants]
           set == [w EXCEPT !.hs.wants = TRUE]
<1>1. Good(new) /\ Good(set)
  BY HsFlagsKeep
<1>2. HandleConnectReq(w, wants) \in
        {BeginAcl(new), BeginProfiles(new), Settle(new, "CONNECTED"), BeginProfiles(set),
         CompleteConnectRequests(w), w}
  BY DEF HandleConnectReq
<1> HIDE DEF new, set
<1>3. Good(BeginAcl(new)) /\ Good(BeginProfiles(new)) /\ Good(BeginProfiles(set))
  BY <1>1, BeginAclKeeps, BeginProfilesKeeps
<1>4. Good(Settle(new, "CONNECTED")) /\ Good(CompleteConnectRequests(w))
  BY <1>1, SettleKeeps, CompleteConnectRequestsKeeps
<1> QED
  BY <1>2, <1>3, <1>4

LEMMA DisconnectReqKeeps ==
  ASSUME NEW w, Good(w)
  PROVE  Good(HandleDisconnectReq(w))
<1> DEFINE d == CompleteDisconnectRequests(w, TRUE)
           s == Settle(w, "DISCONNECTED")
           b == BeginDisconnecting(w)
<1>1. Good(d) /\ Good(s) /\ Good(b)
  BY CompleteDisconnectRequestsIs, SettleKeeps, BeginDisconnectingKeeps
<1> HIDE DEF d, s, b
<1>2. DisconnectBredr(w) \in {w, d, s, b}
  BY DEF DisconnectBredr, d, s, b
<1>3. Good(DisconnectBredr(w))
  BY <1>1, <1>2
<1> QED
  BY <1>3, BleDisconnectKeeps DEF HandleDisconnectReq

LEMMA AclCompleteKeeps ==
  ASSUME NEW w, Good(w)
  PROVE  Good(HandleConnectAclComplete(w))
<1> DEFINE c == [w EXCEPT !.connected = FALSE]
<1>1. Good(c)
  BY MarkKeeps
<1>2. HandleConnectAclComplete(w) \in
        {w, BeginProfiles(c), Settle(w, "CONNECTED"), SendLater(w, "CONNECT_ACL_RETRY_REQ"),
         Settle(w, "DISCONNECTED")}
  BY DEF HandleConnectAclComplete
<1> HIDE DEF c
<1> QED
  BY <1>1, <1>2, BeginProfilesKeeps, SettleKeeps, SendLaterKeeps, ServiceMessages

LEMMA ConnectStopKeeps ==
  ASSUME NEW w, Good(w)
  PROVE  Good(HandleConnectStop(w))
<1>1. HandleConnectStop(w) \in {Settle(w, "DISCONNECTED"), StopProfiles(w),
                                CompleteConnectStopRequests(w), w}
  BY DEF HandleConnectStop
<1> QED
  BY <1>1, SettleKeeps, StopProfilesKeeps, CompleteConnectStopRequestsKeeps

LEMMA RetriesKeep ==
  ASSUME NEW w, Good(w)
  PROVE  Good(HandleConnectAclRetry(w)) /\ Good(HandleConnectProfilesReq(w))
BY ConnectAclKeeps, ConnectRequestedProfilesKeeps DEF HandleConnectAclRetry, HandleConnectProfilesReq

LEMMA ProfilesConnectCfmKeeps ==
  ASSUME NEW w, Good(w), NEW result \in Results
  PROVE  Good(HandleProfilesConnectCfm(w, result))
<1> DEFINE up == Settle(w, "CONNECTED")
           down == Settle(w, "DISCONNECTED")
           gone == result # "success" /\ BredrDisconnected(w)
           open == w.hs.state \in {"STOP_CONNECTING_PROFILES", "CONNECTING_PROFILES"}
           shut == w.hs.state = "DISCONNECTING" /\ BredrDisconnected(w)
           next == CASE open -> Settle(w, IF gone THEN "DISCONNECTED" ELSE "CONNECTED")
                     [] shut -> down
                     [] OTHER -> w
<1>1. Good(up) /\ Good(down)
  BY SettleKeeps
<1>2. Settle(w, IF gone THEN "DISCONNECTED" ELSE "CONNECTED") \in {up, down}
  BY Zenon
<1>3. next \in {up, down, w}
  <2> HIDE DEF open, shut, up, down, gone
  <2> QED
    BY <1>2
<1>4. HandleProfilesConnectCfm(w, result) = [next EXCEPT !.hs.wants = FALSE]
  BY DEF HandleProfilesConnectCfm
<1> HIDE DEF next, up, down
<1>5. Good(next)
  BY <1>1, <1>3
<1> QED
  BY <1>4, <1>5, HsFlagsKeep

LEMMA ProfilesDisconnectCfmKeeps ==
  ASSUME NEW w, Good(w), NEW result \in Results
  PROVE  Good(HandleProfilesDisconnectCfm(w, result))
BY TryDisconnectingKeeps DEF HandleProfilesDisconnectCfm

LEMMA ConnectedIndKeeps ==
  ASSUME NEW w, Good(w)
  PROVE  Good(HandleConnectedInd(w))
<1> DEFINE f    == FindOrCreate(w)
           up   == Settle(f, "CONNECTED")
           c    == CancelFirst(f, "CONNECT_PROFILES_REQ")
           l    == SendLater(c, "CONNECT_PROFILES_REQ")
           next == IF AreAllRequestedProfilesConnected(f) THEN up ELSE RestartProfileTimeout(f)
           told == [next EXCEPT !.hs.wants = FALSE]
<1>1. Good(f)
  BY FindOrCreateKeeps
<1>2. HandleConnectedInd(w) \in {up, told, f}
  BY DEF HandleConnectedInd
<1>3. RestartProfileTimeout(f) \in {l, f}
  BY DEF RestartProfileTimeout
<1> HIDE DEF f
<1>4. Good(up) /\ Good(c)
  BY <1>1, SettleKeeps, CancelFirstKeeps, ServiceMessages
<1> HIDE DEF c, up
<1>5. Good(l)
  BY <1>4, SendLaterKeeps, ServiceMessages
<1> HIDE DEF l
<1>6. Good(next)
  BY <1>1, <1>3, <1>4, <1>5
<1> HIDE DEF next
<1>7. Good(told)
  BY <1>6, HsFlagsKeep
<1> QED
  BY <1>1, <1>2, <1>4, <1>7

LEMMA DisconnectedIndKeeps ==
  ASSUME NEW w, Good(w)
  PROVE  Good(HandleDisconnectedInd(w))
BY SettleKeeps DEF HandleDisconnectedInd

LEMMA BredrConnectIndKeeps ==
  ASSUME NEW w0, Good(w0), NEW incoming
  PROVE  Good(HandleBredrConnectInd(w0, incoming))
<1> DEFINE f == FindOrCreate(w0)
           w == [f EXCEPT !.connected = FALSE]
           c == CancelFirst(w, "CONNECT_ACL_RETRY_REQ")
           s == Send(c, [id |-> "CONNECT_ACL_COMPLETE"])
<1>1. Good(f)
  BY FindOrCreateKeeps
<1>2. HandleBredrConnectInd(w0, incoming) \in {w0, BeginProfiles(w), s, w}
  BY DEF HandleBredrConnectInd
<1> HIDE DEF f
<1>3. Good(w)
  BY <1>1, MarkKeeps
<1> HIDE DEF w
<1>4. Good(c) /\ Good(BeginProfiles(w))
  BY <1>3, CancelFirstKeeps, BeginProfilesKeeps, ServiceMessages
<1> HIDE DEF c
<1>5. Good(s)
  BY <1>4, SendPlain, ServiceMessages
<1> QED
  BY <1>2, <1>3, <1>4, <1>5

LEMMA BredrDisconnectIndKeeps ==
  ASSUME NEW w, Good(w), NEW reason \in Reasons
  PROVE  Good(HandleBredrDisconnectInd(w, reason))
<1> DEFINE c == [w EXCEPT !.connected = FALSE]
<1>1. Good(c)
  BY MarkKeeps
<1>2. HandleBredrDisconnectInd(w, reason) \in
        {w, StopProfiles(w), Settle(w, "DISCONNECTED"), Settle(c, "DISCONNECTED")}
  BY DEF HandleBredrDisconnectInd
<1> HIDE DEF c
<1> QED
  BY <1>1, <1>2, StopProfilesKeeps, SettleKeeps

LEMMA LeIndKeeps ==
  ASSUME NEW w, Good(w)
  PROVE  Good(HandleLeConnectInd(w)) /\ Good(HandleLeDisconnectInd(w))
<1> DEFINE f    == FindOrCreate(w)
           down == [w EXCEPT !.hs.le = "DISCONNECTED"]
           d    == CompleteDisconnectRequests(down, TRUE)
<1>1. Good(f)
  BY FindOrCreateKeeps
<1>2. HandleLeConnectInd(w) = [f EXCEPT !.hs.le = "CONNECTED"]
  BY DEF HandleLeConnectInd
<1>3. HandleLeDisconnectInd(w) \in {w, DeInit(d), down}
  BY DEF HandleLeDisconnectInd
<1> HIDE DEF f
<1>4. Good([f EXCEPT !.hs.le = "CONNECTED"])
  BY <1>1, HsLeKeeps
<1>5. Good(down)
  BY HsLeKeeps
<1> HIDE DEF down
<1>6. Good(d) /\ ("all" \in d.waiting => Told(d))
  BY <1>5, CompleteDisconnectRequestsIs
<1> HIDE DEF d
<1>7. Good(DeInit(d))
  BY <1>6, DeInitKeeps
<1> QED
  BY <1>2, <1>3, <1>4, <1>5, <1>7

---------------------------------------------------------------------------
(* The services.                                                           *)

LEMMA ConnectRequestKeeps ==
  ASSUME NEW w, Good(w)
  PROVE  Good(ConnectRequest(w))
<1> DEFINE f   == FindOrCreate(w)
           new == CompleteDisconnectRequests(f, FALSE)
           n   == [new EXCEPT !.hs.connects = TRUE]
           m   == [id |-> "CONNECT_REQ", wants |-> ~w.connected]
<1>1. Good(f)
  BY FindOrCreateKeeps
<1>2. ConnectRequest(w) = Send(n, m)
  BY DEF ConnectRequest
<1> HIDE DEF f
<1>3. Good(new)
  BY <1>1, CompleteDisconnectRequestsIs
<1> HIDE DEF new
<1>4. Good(n)
  BY <1>3, HsFlagsKeep
<1> HIDE DEF n
<1>5. m \in Messages
  <2> DEFINE wants == ~w.connected
  <2>1. wants \in BOOLEAN
    BY Zenon
  <2> HIDE DEF wants
  <2>2. [id |-> "CONNECT_REQ", wants |-> wants] \in Messages
    BY <2>1 DEF Messages
  <2> QED
    BY <2>2 DEF wants
<1> HIDE DEF m
<1> QED
  BY <1>2, <1>4, <1>5, SendKeeps

LEMMA StopConnectKeeps ==
  ASSUME NEW w, Good(w)
  PROVE  Good(StopConnect(w))
<1> DEFINE s   == [w EXCEPT !.hs.stop = TRUE]
           m   == Send(s, [id |-> "CONNECT_STOP_REQ"])
           ids == {"CONNECT_REQ", "CONNECT_ACL_RETRY_REQ"}
<1>1. StopConnect(w) = Cancel(m, ids)
  BY DEF StopConnect
<1>2. "DISCONNECT_CFM" \notin ids
  OBVIOUS
<1>3. Good(s)
  BY HsFlagsKeep
<1> HIDE DEF s, ids
<1>4. Good(m)
  BY <1>3, SendPlain, ServiceMessages
<1> HIDE DEF m
<1> QED
  BY <1>1, <1>2, <1>4, CancelKeeps

\* Asking for the disconnection puts whoever waits for it on the list.
LEMMA DisconnectRequestKeeps ==
  ASSUME NEW w \in Worlds
  PROVE  Good(DisconnectRequest(w))
<1> DEFINE c == CompleteConnectRequests(w)
           h == [c.hs EXCEPT !.disconnects = TRUE]
           d == [c EXCEPT !.hs = h]
<1>1. c \in Worlds
  BY CompleteConnectRequestsIs
<1>2. DisconnectRequest(w) = Send(d, [id |-> "DISCONNECT_REQ"])
  BY DEF DisconnectRequest
<1> HIDE DEF c
<1>3. h \in Hss /\ h.disconnects
  BY <1>1 DEF Worlds, Hss
<1> HIDE DEF h
<1>4. d \in Worlds /\ d.hs = h
  BY <1>1, <1>3 DEF Worlds
<1>5. Good(d)
  BY <1>3, <1>4 DEF Good, Remembered
<1> HIDE DEF d
<1> QED
  BY <1>2, <1>5, SendPlain, ServiceMessages

\* The end of a disconnection is taken from the queue: either the next one
\* begins or the user is told.
LEMMA DisconnectNextKeeps ==
  ASSUME NEW w \in Worlds, NEW success \in BOOLEAN
  PROVE  Good(DisconnectNext(w, success))
<1> DEFINE u == w.waiting \ {"all"}
           r == Answered(w, TRUE, "all")
<1>1. r = [w EXCEPT !.waiting = u]
  BY DEF Answered
<1>2. u \in SUBSET Users /\ "all" \notin u
  BY DEF Worlds
<1> HIDE DEF u, r
<1>3. r \in Worlds /\ r.waiting = u
  BY <1>1, <1>2 DEF Worlds
<1>4. Good(r)
  BY <1>2, <1>3 DEF Good, Remembered
<1>5. DisconnectNext(w, success) \in {DisconnectRequest(w), r}
  BY DEF DisconnectNext, r
<1> QED
  BY <1>4, <1>5, DisconnectRequestKeeps

---------------------------------------------------------------------------
(* The steps.                                                              *)

\* Every other message than the end of a disconnection
LEMMA HandleKeeps ==
  ASSUME NEW w, Good(w), NEW m \in Messages, m.id # "DISCONNECT_CFM"
  PROVE  Good(Handle(w, m))
<1>1. CASE m.id = "OPEN_ACL"
  BY <1>1, OpenAclKeeps DEF Handle
<1>2. CASE m.id = "ACL_OPENED_IND"
  BY <1>2, AclOpenedKeeps, MessageFields DEF Handle
<1>3. CASE m.id = "ACL_CLOSED_IND"
  BY <1>3, AclClosedKeeps, MessageFields DEF Handle
<1>4. CASE m.id \in {"LE_OPENED_IND", "LE_CLOSED_IND"}
  BY <1>4, LeIndicationsKeep DEF Handle
<1>5. CASE m.id = "TP_CONNECT_IND"
  BY <1>5, LeIndKeeps, BredrConnectIndKeeps DEF Handle
<1>6. CASE m.id = "TP_DISCONNECT_IND"
  BY <1>6, LeIndKeeps, BredrDisconnectIndKeeps, MessageFields DEF Handle
<1>7. CASE m.id = "SLC_CONNECT_IND"
  <2>1. TRUE \in BOOLEAN
    OBVIOUS
  <2>2. Good(HandleSlcConnectInd(w))
    BY <2>1, HfpRequestsKeep
  <2> QED
    BY <1>7, <2>2 DEF Handle
<1>8. CASE m.id = "SLC_CONNECT_CFM"
  BY <1>8, HfpRequestsKeep, MessageFields DEF Handle
<1>9. CASE m.id = "SLC_DISCONNECT_IND"
  BY <1>9, HfpRequestsKeep, MessageFields DEF Handle
<1>10. CASE m.id = "HFP_CONNECT_REQ"
  BY <1>10, HfpConnectReqKeeps DEF Handle
<1>11. CASE m.id = "HFP_DISCONNECT_REQ"
  <2>1. TRUE \in BOOLEAN
    OBVIOUS
  <2>2. Good(HandleHfpDisconnectReq(w))
    BY <2>1, HfpRequestsKeep
  <2> QED
    BY <1>11, <2>2 DEF Handle
<1>12. CASE m.id = "CONNECT_PROFILES_CFM"
  BY <1>12, ProfilesConnectCfmKeeps, MessageFields DEF Handle
<1>13. CASE m.id = "DISCONNECT_PROFILES_CFM"
  BY <1>13, ProfilesDisconnectCfmKeeps, MessageFields DEF Handle
<1>14. CASE m.id = "CONNECTED_PROFILE_IND"
  BY <1>14, ConnectedIndKeeps DEF Handle
<1>15. CASE m.id = "DISCONNECTED_PROFILE_IND"
  BY <1>15, DisconnectedIndKeeps DEF Handle
<1>16. CASE m.id = "CONNECT_REQ"
  BY <1>16, ConnectReqKeeps, MessageFields DEF Handle
<1>17. CASE m.id = "DISCONNECT_REQ"
  BY <1>17, DisconnectReqKeeps DEF Handle
<1>18. CASE m.id = "CONNECT_STOP_REQ"
  BY <1>18, ConnectStopKeeps DEF Handle
<1>19. CASE m.id = "CONNECT_ACL_COMPLETE"
  BY <1>19, AclCompleteKeeps DEF Handle
<1>20. CASE m.id \in {"CONNECT_ACL_RETRY_REQ", "CONNECT_PROFILES_REQ"}
  BY <1>20, RetriesKeep DEF Handle
<1> QED
  BY <1>1, <1>2, <1>3, <1>4, <1>5, <1>6, <1>7, <1>8, <1>9, <1>10, <1>11, <1>12, <1>13, <1>14,
     <1>15, <1>16, <1>17, <1>18, <1>19, <1>20 DEF Messages

\* What a step takes over
LEMMA BecomeKeeps ==
  ASSUME NEW w, Good(w), Become(w)
  PROVE  IInv'
<1>1. World' = w
  BY DEF Become, World, Good, Worlds
<1> QED
  BY <1>1 DEF IInv

LEMMA WorldIs ==
  ASSUME IInv
  PROVE  /\ Good(World) /\ World \in Worlds /\ World.queue = queue /\ World.later = later
         /\ World.air = air /\ World.slc = slc /\ World.waiting = waiting
         /\ queue \in Seq(Messages) /\ later \in [Timers -> Nat] /\ air \in Airs
         /\ World.hs = hs
<1>1. /\ World.queue = queue /\ World.later = later /\ World.air = air /\ World.slc = slc
      /\ World.waiting = waiting /\ World.hs = hs
  BY DEF World
<1>2. Good(World) /\ World \in Worlds
  BY DEF IInv, Good
<1>3. World.queue \in Seq(Messages) /\ World.later \in [Timers -> Nat] /\ World.air \in Airs
  BY <1>2 DEF Worlds
<1> QED
  BY <1>1, <1>2, <1>3

\* The world without one of its messages
LEMMA TakingIs ==
  ASSUME NEW v, Good(v), NEW n \in DOMAIN v.queue
  PROVE  LET q == SubSeq(v.queue, 1, n - 1) \o SubSeq(v.queue, n + 1, Len(v.queue))
             w == [v EXCEPT !.queue = q]
         IN  /\ w \in Worlds /\ w.queue = q /\ v.queue[n] \in Messages
             /\ w.hfp = v.hfp /\ w.slc = v.slc /\ w.panic = v.panic /\ w.pm = v.pm
             /\ w.connected = v.connected
             /\ \A k \in DOMAIN q : \E i \in DOMAIN v.queue : q[k] = v.queue[i]
             /\ \A i \in DOMAIN v.queue : i # n => \E k \in DOMAIN q : q[k] = v.queue[i]
             /\ v.queue[n].id # "DISCONNECT_CFM" => Good(w)
<1> DEFINE s == v.queue
           q == SubSeq(s, 1, n - 1) \o SubSeq(s, n + 1, Len(s))
           w == [v EXCEPT !.queue = q]
<1>1. s \in Seq(Messages) /\ v \in Worlds
  BY DEF Good, Worlds
<1>2. DOMAIN s = 1 .. Len(s) /\ Len(s) \in Nat
  BY <1>1, LenProperties
<1>3. s[n] \in Messages
  BY <1>1
<1> HIDE DEF s
<1>4. n \in 1 .. Len(s)
  BY <1>2 DEF s
<1>5. /\ q \in Seq(Messages) /\ Len(q) = Len(s) - 1
      /\ \A k \in 1 .. Len(s) - 1 : q[k] = IF k < n THEN s[k] ELSE s[k + 1]
  BY <1>1, <1>4, TakenOut
<1> HIDE DEF q
<1>6. /\ w \in Worlds /\ w.queue = q /\ w.hfp = v.hfp /\ w.slc = v.slc /\ w.panic = v.panic
      /\ w.pm = v.pm /\ w.connected = v.connected /\ w.waiting = v.waiting /\ w.hs = v.hs
  BY <1>1, <1>5 DEF Worlds
<1> HIDE DEF w
<1>7. DOMAIN q = 1 .. Len(s) - 1
  BY <1>2, <1>5, LenProperties
<1>8. ASSUME NEW k \in DOMAIN q PROVE \E i \in DOMAIN s : q[k] = s[i]
  <2>1. k \in DOMAIN s /\ k + 1 \in DOMAIN s
    BY <1>2, <1>7
  <2> QED
    BY <1>5, <1>7, <2>1
<1>9. ASSUME NEW i \in DOMAIN s, i # n PROVE \E k \in DOMAIN q : q[k] = s[i]
  <2>1. CASE i < n
    <3>1. i \in 1 .. Len(s) - 1 /\ q[i] = s[i]
      BY <1>2, <1>4, <1>5, <2>1
    <3> QED
      BY <1>7, <3>1
  <2>2. CASE ~(i < n)
    <3>1. i - 1 \in 1 .. Len(s) - 1 /\ ~(i - 1 < n) /\ (i - 1) + 1 = i
      BY <1>2, <1>4, <1>9, <2>2
    <3>2. q[i - 1] = s[i]
      BY <1>5, <3>1
    <3> QED
      BY <1>7, <3>1, <3>2
  <2> QED
    BY <2>1, <2>2
<1>10. ASSUME s[n].id # "DISCONNECT_CFM" PROVE Good(w)
  <2>1. ASSUME Told(v) PROVE Told(w)
    <3>1. PICK i \in DOMAIN s : s[i].id = "DISCONNECT_CFM"
      BY <2>1 DEF Told, s
    <3>2. i # n
      BY <1>10, <3>1
    <3> QED
      BY <1>6, <1>9, <3>1, <3>2 DEF Told
  <2> QED
    BY <1>6, <2>1 DEF Good, Remembered
<1> QED
  BY <1>3, <1>6, <1>8, <1>9, <1>10 DEF s, q, w

\* A message is taken from the queue and handled.
LEMMA DeliverKeeps ==
  ASSUME IInv, Deliver
  PROVE  IInv'
<1>1. PICK n \in DOMAIN queue :
        Become(Handle([World EXCEPT !.queue = SubSeq(queue, 1, n - 1) \o SubSeq(queue, n + 1, Len(queue))],
                      queue[n]))
  BY DEF Deliver
<1> DEFINE m == queue[n]
           q == SubSeq(queue, 1, n - 1) \o SubSeq(queue, n + 1, Len(queue))
           w == [World EXCEPT !.queue = q]
<1>2. Good(World) /\ World.queue = queue
  BY WorldIs
<1>3. w \in Worlds /\ m \in Messages /\ (m.id # "DISCONNECT_CFM" => Good(w))
  BY <1>2, TakingIs
<1>4. Become(Handle(w, m))
  BY <1>1
<1> HIDE DEF w, m
<1>5. CASE m.id = "DISCONNECT_CFM"
  <2>1. m.success \in BOOLEAN
    BY <1>3, <1>5, MessageFields
  <2>2. Good(DisconnectNext(w, m.success))
    BY <1>3, <2>1, DisconnectNextKeeps
  <2>3. Handle(w, m) = DisconnectNext(w, m.success)
    BY <1>5 DEF Handle
  <2> QED
    BY <1>4, <2>2, <2>3, BecomeKeeps
<1>6. CASE m.id # "DISCONNECT_CFM"
  BY <1>3, <1>4, <1>6, HandleKeeps, BecomeKeeps
<1> QED
  BY <1>5, <1>6

\* A timer comes due, and its message is the last in the queue.
LEMMA DueKeeps ==
  ASSUME IInv, Due
  PROVE  IInv'
<1>1. PICK id \in Timers : later[id] > 0 /\ Become(Send([World EXCEPT !.later[id] = @ - 1], [id |-> id]))
  BY DEF Due
<1> DEFINE n == later[id] - 1
           t == [later EXCEPT ![id] = n]
           w == [World EXCEPT !.later = t]
<1>2. later \in [Timers -> Nat] /\ Good(World) /\ World \in Worlds /\ World.later = later
  BY WorldIs
<1>3. n \in Nat
  <2>1. later[id] \in Nat /\ later[id] > 0
    BY <1>1, <1>2
  <2> QED
    BY <2>1
<1>4. Become(Send(w, [id |-> id]))
  <2>1. [World EXCEPT !.later[id] = @ - 1] = w
    BY <1>2
  <2> HIDE DEF w
  <2> QED
    BY <1>1, <2>1
<1> HIDE DEF n
<1>5. t \in [Timers -> Nat]
  BY <1>2, <1>3
<1> HIDE DEF t
<1>6. w \in Worlds /\ w.queue = World.queue /\ w.waiting = World.waiting /\ w.hs = World.hs
  BY <1>2, <1>5 DEF Worlds
<1> HIDE DEF w
<1>7. Good(w)
  BY <1>2, <1>6, AsideKeeps
<1>8. id \in PlainIds
  BY DEF Timers, PlainIds
<1>9. Good(Send(w, [id |-> id]))
  BY <1>7, <1>8, SendPlain
<1> QED
  BY <1>4, <1>9, BecomeKeeps

\* Somebody asks for something else than a disconnection, and waits for it.
LEMMA WaitKeeps ==
  ASSUME NEW w, Good(w), NEW who \in {"connect", "stop"}
  PROVE  Good([w EXCEPT !.waiting = @ \cup {who}])
<1> DEFINE u == w.waiting \cup {who}
           r == [w EXCEPT !.waiting = u]
<1>1. u \in SUBSET Users /\ ("all" \in u <=> "all" \in w.waiting)
  BY DEF Good, Worlds, Users
<1> HIDE DEF u
<1>2. r \in Worlds /\ r.queue = w.queue /\ r.waiting = u /\ r.hs = w.hs
  BY <1>1 DEF Good, Worlds
<1> HIDE DEF r
<1>3. Good(r)
  BY <1>1, <1>2 DEF Good, Remembered, Told
<1> QED
  BY <1>3 DEF r, u

LEMMA UsersKeep ==
  ASSUME IInv, Connect \/ Stop \/ DisconnectAll
  PROVE  IInv'
<1>1. Good(World) /\ World \in Worlds
  BY WorldIs
<1>2. CASE Connect
  <2> DEFINE w == [World EXCEPT !.waiting = @ \cup {"connect"}]
  <2>1. Become(ConnectRequest(w))
    BY <1>2 DEF Connect
  <2>2. Good(w)
    BY <1>1, WaitKeeps
  <2> HIDE DEF w
  <2>3. Good(ConnectRequest(w))
    BY <2>2, ConnectRequestKeeps
  <2> QED
    BY <2>1, <2>3, BecomeKeeps
<1>3. CASE Stop
  <2> DEFINE w == [World EXCEPT !.waiting = @ \cup {"stop"}]
  <2>1. Become(StopConnect(w))
    BY <1>3 DEF Stop
  <2>2. Good(w)
    BY <1>1, WaitKeeps
  <2> HIDE DEF w
  <2>3. Good(StopConnect(w))
    BY <2>2, StopConnectKeeps
  <2> QED
    BY <2>1, <2>3, BecomeKeeps
<1>4. CASE DisconnectAll
  <2> DEFINE u == World.waiting \cup {"all"}
             w == [World EXCEPT !.waiting = u]
  <2>1. Become(DisconnectRequest(w))
    BY <1>4 DEF DisconnectAll
  <2>2. u \in SUBSET Users
    BY <1>1 DEF Worlds, Users
  <2> HIDE DEF u
  <2>3. w \in Worlds
    BY <1>1, <2>2 DEF Worlds
  <2> HIDE DEF w
  <2>4. Good(DisconnectRequest(w))
    BY <2>3, DisconnectRequestKeeps
  <2> QED
    BY <2>1, <2>4, BecomeKeeps
<1> QED
  BY <1>2, <1>3, <1>4

\* The phone, Bluestack and the library move.
LEMMA LinksKeep ==
  ASSUME IInv, \/ PhoneOpens \/ CloseCarriedOut
               \/ \E success \in BOOLEAN : PageAnswered(success)
               \/ \E reason \in {"timeout", "remote"} : LinkDrops(reason)
  PROVE  IInv'
<1>1. Good(World) /\ World \in Worlds
  BY WorldIs
<1>2. LinkDown \in Airs
  BY DEF LinkDown, Airs
<1> DEFINE down == [World EXCEPT !.air = LinkDown]
<1>3. Good(down)
  BY <1>1, <1>2, AirKeeps
<1>4. ASSUME NEW reason \in Reasons, Become(Send(down, [id |-> "ACL_CLOSED_IND", reason |-> reason]))
      PROVE  IInv'
  <2> DEFINE m == [id |-> "ACL_CLOSED_IND", reason |-> reason]
  <2>1. m \in Messages
    BY DEF Messages, Reasons
  <2> HIDE DEF m, down
  <2>2. Good(Send(down, m))
    BY <1>3, <2>1, SendKeeps
  <2> QED
    BY <1>4, <2>2, BecomeKeeps DEF m
<1>5. CASE PhoneOpens
  <2>1. Good(LinkUp(World, TRUE))
    BY <1>1, LinkUpKeeps
  <2> QED
    BY <1>5, <2>1, BecomeKeeps DEF PhoneOpens
<1>6. CASE CloseCarriedOut
  BY <1>4, <1>6 DEF CloseCarriedOut, Reasons
<1>7. ASSUME NEW success \in BOOLEAN, PageAnswered(success) PROVE IInv'
  <2>1. Good(LinkUp(World, FALSE)) /\ Good(PageFails(World))
    BY <1>1, LinkUpKeeps
  <2>2. Become(LinkUp(World, FALSE)) \/ Become(PageFails(World))
    BY <1>7 DEF PageAnswered
  <2> QED
    BY <2>1, <2>2, BecomeKeeps
<1>8. ASSUME NEW reason \in {"timeout", "remote"}, LinkDrops(reason) PROVE IInv'
  BY <1>4, <1>8 DEF LinkDrops, Reasons
<1> QED
  BY <1>5, <1>6, <1>7, <1>8

LEMMA LibraryKeeps ==
  ASSUME IInv, \/ PhoneConnectsHfp
               \/ \E success \in BOOLEAN : SlcOpened(success)
               \/ \E loss \in BOOLEAN : SlcClosed(loss)
  PROVE  IInv'
<1>1. Good(World) /\ World \in Worlds
  BY WorldIs
<1>2. ASSUME NEW s \in Slcs, NEW m \in Messages, Become(Send([World EXCEPT !.slc = s], m))
      PROVE  IInv'
  <2> DEFINE w == [World EXCEPT !.slc = s]
  <2>1. Good(w)
    BY <1>1, SlcKeeps
  <2> HIDE DEF w
  <2>2. Good(Send(w, m))
    BY <2>1, SendKeeps
  <2> QED
    BY <1>2, <2>2, BecomeKeeps DEF w
<1>3. CASE PhoneConnectsHfp
  <2>1. [id |-> "SLC_CONNECT_IND"] \in Messages /\ "REMOTE" \in Slcs
    BY DEF Messages, Slcs
  <2> QED
    BY <1>2, <1>3, <2>1 DEF PhoneConnectsHfp
<1>4. ASSUME NEW success \in BOOLEAN, SlcOpened(success) PROVE IInv'
  <2> DEFINE m == [id |-> "SLC_CONNECT_CFM", success |-> success]
             s == IF success THEN "UP" ELSE "DOWN"
  <2>1. m \in Messages /\ s \in Slcs
    BY DEF Messages, Slcs
  <2>2. Become(Send([World EXCEPT !.slc = s], m))
    BY <1>4 DEF SlcOpened
  <2> HIDE DEF m, s
  <2> QED
    BY <1>2, <2>1, <2>2
<1>5. ASSUME NEW loss \in BOOLEAN, SlcClosed(loss) PROVE IInv'
  <2> DEFINE m == [id |-> "SLC_DISCONNECT_IND", loss |-> loss]
  <2>1. m \in Messages /\ "DOWN" \in Slcs
    BY DEF Messages, Slcs
  <2>2. Become(Send([World EXCEPT !.slc = "DOWN"], m))
    BY <1>5 DEF SlcClosed
  <2> HIDE DEF m
  <2> QED
    BY <1>2, <2>1, <2>2
<1> QED
  BY <1>3, <1>4, <1>5

LEMMA LeKeeps ==
  ASSUME IInv, PhoneOpensLe \/ LeCloses
  PROVE  IInv'
<1>1. Good(World) /\ World \in Worlds
  BY WorldIs
<1>2. ASSUME NEW l \in {"UP", "DOWN"}, NEW id \in {"LE_OPENED_IND", "LE_CLOSED_IND"},
             Become(Send([World EXCEPT !.leAir = l], [id |-> id]))
      PROVE  IInv'
  <2> DEFINE w == [World EXCEPT !.leAir = l]
  <2>1. w \in Worlds /\ w.queue = World.queue /\ w.waiting = World.waiting /\ w.hs = World.hs
    BY <1>1 DEF Worlds
  <2>2. Good(w)
    BY <1>1, <2>1, AsideKeeps
  <2> HIDE DEF w
  <2>3. id \in PlainIds
    BY DEF PlainIds
  <2>4. Good(Send(w, [id |-> id]))
    BY <2>2, <2>3, SendPlain
  <2> QED
    BY <1>2, <2>4, BecomeKeeps DEF w
<1> QED
  BY <1>2 DEF PhoneOpensLe, LeCloses

---------------------------------------------------------------------------
(* The theorems.                                                           *)

LEMMA InitIsGood ==
  ASSUME Init
  PROVE  IInv
<1>1. /\ conn \in Conns /\ air \in Airs /\ hfp \in Hfps /\ pm \in Pms /\ hs \in Hss
  BY DEF Init, NoConnection, LinkDown, NoHfp, NoRequest, NoHandset, Conns, Airs, Hfps, HfpStates,
         Pms, Types, Hss, HsStates
<1>2. /\ le \in {"NONE", "CONNECTED"} /\ leAir \in {"DOWN", "UP", "CLOSING"} /\ slc \in Slcs
      /\ connected \in BOOLEAN /\ panic \in BOOLEAN /\ waiting \in SUBSET Users
  BY DEF Init, Slcs
<1>3. queue \in Seq(Messages)
  <2>1. queue = << >>
    BY DEF Init
  <2> QED
    BY <2>1, EmptySeq
<1>4. later \in [Timers -> Nat]
  BY DEF Init, NoTimers
<1>5. World \in Worlds
  BY <1>1, <1>2, <1>3, <1>4 DEF World, Worlds
<1>6. "all" \notin World.waiting
  BY DEF Init, World
<1> QED
  BY <1>5, <1>6 DEF IInv, Good, Remembered

\* Every step keeps the invariant.
LEMMA NextKeepsIInv ==
  ASSUME IInv, [Next]_vars
  PROVE  IInv'
<1>1. CASE UNCHANGED vars
  <2>1. World' = World
    BY <1>1 DEF vars, World
  <2> QED
    BY <2>1 DEF IInv
<1>2. CASE Next
  BY <1>2, DeliverKeeps, DueKeeps, UsersKeep, LinksKeep, LibraryKeeps, LeKeeps DEF Next, Outside
<1> QED
  BY <1>1, <1>2

\* What holds of the connection to a phone whatever its users, the phone and the
\* radio do, and however many messages wait.
THEOREM HandsetInvariant == Spec => []IInv
<1>1. Init => IInv
  BY InitIsGood
<1>2. IInv /\ [Next]_vars => IInv'
  BY NextKeepsIInv
<1> QED
  BY <1>1, <1>2, PTL DEF Spec

\* Type correctness: each component keeps to its states, and nothing is sent
\* that its receiver does not know.
THEOREM HandsetTypes == Spec => []TypeOK
<1>1. IInv => TypeOK
  <2> SUFFICES ASSUME IInv PROVE TypeOK
    OBVIOUS
  <2>1. World \in Worlds
    BY WorldIs
  <2>2. /\ conn \in Conns /\ le \in {"NONE", "CONNECTED"} /\ air \in Airs
        /\ leAir \in {"DOWN", "UP", "CLOSING"} /\ slc \in Slcs /\ hfp \in Hfps /\ pm \in Pms
        /\ connected \in BOOLEAN /\ hs \in Hss /\ queue \in Seq(Messages)
        /\ later \in [Timers -> Nat] /\ waiting \in SUBSET Users /\ panic \in BOOLEAN
    BY <2>1 DEF World, Worlds
  <2>3. \A n \in DOMAIN queue : queue[n] \in Messages
    BY <2>2
  <2> QED
    BY <2>2, <2>3 DEF TypeOK, Conns, Airs, Slcs, Hfps, HfpStates, Pms, Types, Hss, HsStates, Users
<1> QED
  BY <1>1, HandsetInvariant, PTL

\* Who waits for a disconnection is on the list of the instance or is being
\* told: no connection, stop, retry or loss of a link forgets it
\* (HandsetServiceSm_CompleteDisconnectRequests comes before every DeInit).
THEOREM DisconnectionsAreRemembered == Spec => []DisconnectionRemembered
<1>1. IInv => DisconnectionRemembered
  BY DEF IInv, Good, Remembered, Told, DisconnectionRemembered, World
<1> QED
  BY <1>1, HandsetInvariant, PTL
---------------------------------------------------------------------------
(* The profile: the inductive invariant of its requests.                   *)

\* What the library tells the profile, in its order; no lock holds it back.
LibraryIds == {"SLC_CONNECT_IND", "SLC_CONNECT_CFM", "SLC_DISCONNECT_IND"}
LibraryMessages == {m \in Messages : m.id \in LibraryIds}
Heard(w) == Keep(w.queue, LibraryMessages)

\* What the profile asks itself for
HfpIds == {"HFP_CONNECT_REQ", "HFP_DISCONNECT_REQ"}
Asked(w, id) == \E n \in DOMAIN w.queue : w.queue[n].id = id

Off     == {"NONE", "DISCONNECTED"}
Opening == {"CONNECTING_LOCAL", "CONNECTING_REMOTE"}
Marked  == {"CONNECTED", "DISCONNECTING"}

\* A profile in state h is without connection once it has heard k messages.
Rests(h, s, k) ==
  \/ h \in Off /\ k = 0
  \/ h \in Opening /\ k = 1 /\ s[1].id = "SLC_CONNECT_CFM" /\ ~s[1].success
  \/ h \in Opening /\ k = 2 /\ s[1].id = "SLC_CONNECT_CFM" /\ s[1].success
                   /\ s[2].id = "SLC_DISCONNECT_IND"
  \/ h \in Marked /\ k = 1 /\ s[1].id = "SLC_DISCONNECT_IND"

\* The library is where the profile will be when it has heard everything.
Follows(h, lib, s) ==
  LET n == Len(s)
  IN  \/ lib = "DOWN" /\ Rests(h, s, n)
      \/ lib \in {"LOCAL", "REMOTE"} /\ h \in Opening /\ n = 0
      \/ /\ lib = "REMOTE" /\ n > 0 /\ s[n].id = "SLC_CONNECT_IND"
         /\ Rests(h, s, n - 1) \/ (h \in Opening /\ n = 1)
      \/ lib = "UP" /\ h = "CONNECTED" /\ n = 0
      \/ lib = "UP" /\ h \in Opening /\ n = 1 /\ s[1].id = "SLC_CONNECT_CFM" /\ s[1].success
      \/ lib = "CLOSING" /\ h = "DISCONNECTING" /\ n = 0

\* A profile that disconnects does so for somebody, and only one that has been
\* connected is marked.
Listed(w) ==
  /\ Asked(w, "HFP_DISCONNECT_REQ") => w.hfp.dn /\ w.hfp.state \notin Off
  /\ w.hfp.state = "DISCONNECTING" => w.hfp.dn
  /\ w.connected => w.hfp.state \in Marked

Sound(w) == Follows(w.hfp.state, w.slc, Heard(w)) /\ Listed(w)

\* Something under way will end a connection request, or a disconnection.
Connects(w) ==
  \/ w.hfp.state \in Opening \cup {"DISCONNECTING"}
  \/ w.hfp.state = "DISCONNECTED" /\ Asked(w, "HFP_CONNECT_REQ")
Disconnects(w) ==
  \/ w.hfp.state = "DISCONNECTING"
  \/ w.hfp.state = "CONNECTED" /\ Asked(w, "HFP_DISCONNECT_REQ")

Waits(w) == w.hfp.cn => Connects(w)

\* One request at a time, for one client, and the profile has it on a list.
Single(p) ==
  /\ p.clients = p.order
  /\ p.index = "none" <=> p.order = {}
  /\ ~(Types \subseteq p.order)
  /\ p.index = "cancelled" => p.order = {"connect"}

Requested(w) ==
  /\ Single(w.pm)
  /\ "connect" \in w.pm.order => w.hfp.cn
  /\ "disconnect" \in w.pm.order => Disconnects(w)

\* The assertion on a stopped request leaves the profile on its list.
Fit(w) == Sound(w) /\ Waits(w) /\ (Requested(w) \/ (w.panic /\ w.hfp.cn))

FInv == IInv /\ Fit(World)

---------------------------------------------------------------------------
(* What leaves the profile alone.                                          *)

\* A world is made of another without the profile, but that the mark may go.
Apart(r, w) ==
  /\ r.hfp = w.hfp /\ r.slc = w.slc /\ r.panic = w.panic
  /\ r.connected => w.connected
  /\ Heard(r) = Heard(w)
  /\ \A id \in HfpIds : Asked(r, id) <=> Asked(w, id)

\* ... and without the profile manager's request
Beside(r, w) == Apart(r, w) /\ r.pm = w.pm

LEMMA ApartKeeps ==
  ASSUME NEW w, NEW r, Apart(r, w)
  PROVE  /\ Sound(w) => Sound(r)
         /\ Waits(w) => Waits(r) /\ (Connects(w) => Connects(r))
         /\ Disconnects(w) => Disconnects(r)
BY DEF Apart, Sound, Listed, Waits, Connects, Disconnects, HfpIds

LEMMA BesideKeeps ==
  ASSUME NEW w, NEW r, Beside(r, w)
  PROVE  /\ Requested(w) => Requested(r)
         /\ Fit(w) => Fit(r)
<1>1. Apart(r, w) /\ r.pm = w.pm /\ r.hfp = w.hfp /\ r.panic = w.panic
  BY DEF Beside, Apart
<1>2. Requested(w) => Requested(r)
  BY <1>1, ApartKeeps DEF Requested
<1> QED
  BY <1>1, <1>2, ApartKeeps DEF Fit

LEMMA Again ==
  ASSUME NEW w, NEW v, NEW r
  PROVE  /\ Apart(v, w) /\ Apart(r, v) => Apart(r, w)
         /\ Beside(v, w) /\ Beside(r, v) => Beside(r, w)
BY DEF Apart, Beside

LEMMA Alone ==
  ASSUME NEW w
  PROVE  Apart(w, w) /\ Beside(w, w)
BY DEF Apart, Beside

\* The queue and the profile stay, whatever becomes of the rest.
LEMMA SameQueueIsBeside ==
  ASSUME NEW w, NEW r, r.queue = w.queue, r.hfp = w.hfp, r.slc = w.slc, r.panic = w.panic,
         r.connected => w.connected
  PROVE  Apart(r, w) /\ (r.pm = w.pm => Beside(r, w))
BY DEF Apart, Beside, Heard, Asked

\* What is sent, by others or by the library
LEMMA SendIsBeside ==
  ASSUME NEW w \in Worlds, NEW m \in Messages
  PROVE  /\ m.id \notin LibraryIds /\ m.id \notin HfpIds => Beside(Send(w, m), w)
         /\ m.id \notin LibraryIds => Heard(Send(w, m)) = Heard(w)
         /\ m.id \in LibraryIds => Heard(Send(w, m)) = Append(Heard(w), m)
         /\ \A id : Asked(Send(w, m), id) <=> Asked(w, id) \/ m.id = id
<1> DEFINE r == Send(w, m)
           q == Append(w.queue, m)
<1>1. w.queue \in Seq(Messages)
  BY DEF Worlds
<1>2. /\ DOMAIN q = 1 .. Len(w.queue) + 1 /\ Len(w.queue) \in Nat
      /\ DOMAIN w.queue = 1 .. Len(w.queue)
      /\ \A n \in DOMAIN w.queue : q[n] = w.queue[n]
      /\ q[Len(w.queue) + 1] = m
  BY <1>1, AppendProperties, LenProperties
<1>3. r = [w EXCEPT !.queue = q]
  BY DEF Send
<1>4. /\ m.id \in LibraryIds => Keep(q, LibraryMessages) = Append(Keep(w.queue, LibraryMessages), m)
      /\ m.id \notin LibraryIds => Keep(q, LibraryMessages) = Keep(w.queue, LibraryMessages)
  <2>1. m \in LibraryMessages <=> m.id \in LibraryIds
    BY DEF LibraryMessages
  <2>2. /\ m \in LibraryMessages => Keep(q, LibraryMessages) = Append(Keep(w.queue, LibraryMessages), m)
        /\ m \notin LibraryMessages => Keep(q, LibraryMessages) = Keep(w.queue, LibraryMessages)
    BY <1>1, KeepAppend
  <2> QED
    BY <2>1, <2>2
<1> HIDE DEF r, q
<1>5. /\ r.queue = q /\ r.hfp = w.hfp /\ r.slc = w.slc /\ r.panic = w.panic
      /\ r.connected = w.connected /\ r.pm = w.pm
  BY <1>3 DEF Worlds
<1>6. /\ m.id \in LibraryIds => Heard(r) = Append(Heard(w), m)
      /\ m.id \notin LibraryIds => Heard(r) = Heard(w)
  BY <1>4, <1>5 DEF Heard
<1>7. ASSUME NEW id PROVE Asked(r, id) <=> Asked(w, id) \/ m.id = id
  <2>1. ASSUME NEW n \in DOMAIN q, q[n].id = id PROVE Asked(w, id) \/ m.id = id
    <3>1. n \in DOMAIN w.queue \/ n = Len(w.queue) + 1
      BY <1>2
    <3> QED
      BY <1>2, <2>1, <3>1 DEF Asked
  <2>2. Asked(w, id) => Asked(r, id)
    BY <1>2, <1>5 DEF Asked
  <2>3. m.id = id => Asked(r, id)
    <3>1. Len(w.queue) + 1 \in DOMAIN q
      BY <1>2
    <3> QED
      BY <1>2, <1>5, <3>1 DEF Asked
  <2> QED
    BY <1>5, <2>1, <2>2, <2>3 DEF Asked
<1>8. m.id \notin LibraryIds /\ m.id \notin HfpIds => Beside(r, w)
  BY <1>5, <1>6, <1>7 DEF Beside, Apart, HfpIds
<1> QED
  BY <1>6, <1>7, <1>8 DEF r

\* A message of others that only names what it is
OtherIds == PlainIds \ {"SLC_CONNECT_IND", "HFP_DISCONNECT_REQ"}

LEMMA SendOther ==
  ASSUME NEW w \in Worlds, NEW id \in OtherIds
  PROVE  Beside(Send(w, [id |-> id]), w)
<1>1. [id |-> id] \in Messages
  BY PlainIs DEF OtherIds
<1>2. id \notin LibraryIds /\ id \notin HfpIds
  BY DEF OtherIds, PlainIds, LibraryIds, HfpIds
<1> QED
  BY <1>1, <1>2, SendIsBeside

\* What is taken from others
LEMMA WithoutKeepsHeard ==
  ASSUME NEW q \in Seq(Messages), NEW ids, ids \cap LibraryIds = {}
  PROVE  Keep(Without(q, ids), LibraryMessages) = Keep(q, LibraryMessages)
<1> DEFINE V == {q[n] : n \in DOMAIN q}
           A == {m \in V : m.id \notin ids}
<1>1. q \in Seq(V)
  <2>1. q \in [1 .. Len(q) -> V] /\ Len(q) \in Nat
    BY LenProperties
  <2> QED
    BY <2>1, SeqDef
<1>2. Without(q, ids) = Keep(q, A)
  BY DEF Without
<1>3. (A \cap LibraryMessages) \cap V = LibraryMessages \cap V
  BY DEF LibraryMessages
<1> HIDE DEF A, V
<1>4. Keep(Keep(q, A), LibraryMessages) = Keep(q, A \cap LibraryMessages)
  BY <1>1, KeepTwice
<1>5. Keep(q, A \cap LibraryMessages) = Keep(q, LibraryMessages)
  BY <1>1, <1>3, KeepAgree
<1> QED
  BY <1>2, <1>4, <1>5

LEMMA CancelIsApart ==
  ASSUME NEW w \in Worlds, NEW ids, ids \cap LibraryIds = {}
  PROVE  LET r == Cancel(w, ids)
         IN  /\ r.hfp = w.hfp /\ r.slc = w.slc /\ r.panic = w.panic /\ r.pm = w.pm
             /\ r.connected = w.connected /\ Heard(r) = Heard(w)
             /\ \A id : Asked(r, id) <=> Asked(w, id) /\ id \notin ids
             /\ ids \cap HfpIds = {} => Beside(r, w)
<1> DEFINE r == Cancel(w, ids)
           q == Without(w.queue, ids)
           t == [id \in Timers |-> IF id \in ids THEN 0 ELSE w.later[id]]
<1>1. w.queue \in Seq(Messages)
  BY DEF Worlds
<1>2. /\ q \in Seq(Messages)
      /\ \A n \in DOMAIN q : q[n].id \notin ids /\ \E k \in DOMAIN w.queue : q[n] = w.queue[k]
      /\ \A n \in DOMAIN w.queue : w.queue[n].id \notin ids => \E k \in DOMAIN q : q[k] = w.queue[n]
  BY <1>1, WithoutIs
<1>3. Keep(q, LibraryMessages) = Keep(w.queue, LibraryMessages)
  BY <1>1, WithoutKeepsHeard
<1>4. r = [w EXCEPT !.queue = q, !.later = t]
  BY DEF Cancel
<1> HIDE DEF r, q, t
<1>5. /\ r.queue = q /\ r.hfp = w.hfp /\ r.slc = w.slc /\ r.panic = w.panic
      /\ r.connected = w.connected /\ r.pm = w.pm
  BY <1>4 DEF Worlds
<1>6. Heard(r) = Heard(w)
  BY <1>3, <1>5 DEF Heard
<1>7. \A id : Asked(r, id) <=> Asked(w, id) /\ id \notin ids
  BY <1>2, <1>5 DEF Asked
<1>8. ids \cap HfpIds = {} => Beside(r, w)
  BY <1>5, <1>6, <1>7 DEF Beside, Apart
<1> QED
  BY <1>5, <1>6, <1>7, <1>8 DEF r


\* The first message of a kind, or a timer, is taken from others.
LEMMA RemoveFirstIsBeside ==
  ASSUME NEW s \in Seq(Messages), NEW e, e.id \notin LibraryIds
  PROVE  /\ Keep(RemoveFirst(s, e), LibraryMessages) = Keep(s, LibraryMessages)
         /\ \A n \in DOMAIN RemoveFirst(s, e) : \E k \in DOMAIN s : RemoveFirst(s, e)[n] = s[k]
<1>1. DOMAIN s = 1 .. Len(s) /\ Len(s) \in Nat
  BY LenProperties
<1>2. CASE ~(\E i \in 1 .. Len(s) : s[i] = e)
  <2>1. RemoveFirst(s, e) = s
    BY <1>2 DEF RemoveFirst
  <2> QED
    BY <2>1
<1>3. CASE \E i \in 1 .. Len(s) : s[i] = e
  <2> DEFINE I == {i \in 1 .. Len(s) : s[i] = e}
             first == CHOOSE n \in I : \A k \in I : n <= k
             r == RemoveFirst(s, e)
  <2>1. I \subseteq Nat /\ I # {}
    BY <1>1, <1>3
  <2>2. first \in I
    <3> HIDE DEF I
    <3> QED
      BY <2>1, LeastIs
  <2>3. r = RemoveAt(s, first)
    BY <1>3, <2>1 DEF RemoveFirst, SelectInSeq, Min
  <2>4. first \in 1 .. Len(s) /\ s[first] = e
    BY <2>2
  <2> HIDE DEF first, I, r
  <2>5. r = SubSeq(s, 1, first - 1) \o SubSeq(s, first + 1, Len(s))
    BY <2>3 DEF RemoveAt
  <2>6. s[first] \notin LibraryMessages
    BY <2>4 DEF LibraryMessages
  <2>7. Keep(r, LibraryMessages) = Keep(s, LibraryMessages)
    BY <2>4, <2>5, <2>6, KeepTakenOut
  <2>8. /\ r \in Seq(Messages) /\ Len(r) = Len(s) - 1
        /\ \A n \in 1 .. Len(s) - 1 : r[n] = IF n < first THEN s[n] ELSE s[n + 1]
    BY <2>4, <2>5, TakenOut
  <2>9. ASSUME NEW n \in DOMAIN r PROVE \E k \in DOMAIN s : r[n] = s[k]
    <3>1. n \in 1 .. Len(s) - 1
      BY <2>8, LenProperties
    <3>2. n \in DOMAIN s /\ n + 1 \in DOMAIN s
      BY <1>1, <3>1
    <3> QED
      BY <2>8, <3>1, <3>2
  <2> QED
    BY <2>7, <2>9 DEF r
<1> QED
  BY <1>2, <1>3

LEMMA CancelFirstIsBeside ==
  ASSUME NEW w, Good(w), NEW id \in Timers \cup {"CONNECT_STOP_REQ"}
  PROVE  Beside(CancelFirst(w, id), w)
<1> DEFINE e == [id |-> id]
           r == CancelFirst(w, id)
           byTimer == id \in Timers /\ ~Contains(w.queue, e)
<1>1. w \in Worlds /\ w.queue \in Seq(Messages)
  BY DEF Good, Worlds
<1>2. CASE byTimer
  <2>1. r = [w EXCEPT !.later[id] = IF @ = 0 THEN 0 ELSE @ - 1]
    BY <1>2 DEF CancelFirst
  <2> HIDE DEF r
  <2>2. /\ r.queue = w.queue /\ r.hfp = w.hfp /\ r.slc = w.slc /\ r.panic = w.panic
        /\ r.connected = w.connected /\ r.pm = w.pm
    BY <1>1, <2>1 DEF Worlds
  <2> QED
    BY <2>2, SameQueueIsBeside DEF r
<1>3. CASE ~byTimer
  <2> DEFINE q == RemoveFirst(w.queue, e)
  <2>1. e.id \notin LibraryIds /\ e.id \notin HfpIds
    BY DEF Timers, LibraryIds, HfpIds
  <2>2. r = [w EXCEPT !.queue = q]
    BY <1>3 DEF CancelFirst
  <2> HIDE DEF e, r
  <2>3. /\ q \in Seq(Messages)
        /\ \A n \in DOMAIN w.queue : w.queue[n] # e => \E k \in DOMAIN q : q[k] = w.queue[n]
    BY <1>1, RemoveFirstIs
  <2>4. /\ Keep(q, LibraryMessages) = Keep(w.queue, LibraryMessages)
        /\ \A n \in DOMAIN q : \E k \in DOMAIN w.queue : q[n] = w.queue[k]
    BY <1>1, <2>1, RemoveFirstIsBeside
  <2> HIDE DEF q
  <2>5. /\ r.queue = q /\ r.hfp = w.hfp /\ r.slc = w.slc /\ r.panic = w.panic
        /\ r.connected = w.connected /\ r.pm = w.pm
    BY <1>1, <2>2 DEF Worlds
  <2>6. Heard(r) = Heard(w)
    BY <2>4, <2>5 DEF Heard
  <2>7. \A i \in HfpIds : Asked(r, i) <=> Asked(w, i)
    BY <2>1, <2>3, <2>4, <2>5 DEF Asked
  <2>8. Beside(r, w)
    BY <2>5, <2>6, <2>7 DEF Beside, Apart
  <2> QED
    BY <2>8 DEF r
<1> QED
  BY <1>2, <1>3

\* The records of the connection manager, the instance of the handset service,
\* its clients and the timers are beside the profile; the mark may be cleared.
LEMMA RecordsAreBeside ==
  ASSUME NEW w, Good(w), NEW x
  PROVE  /\ Beside([w EXCEPT !.conn = x], w) /\ Beside([w EXCEPT !.air = x], w)
         /\ Beside([w EXCEPT !.le = x], w) /\ Beside([w EXCEPT !.leAir = x], w)
         /\ Beside([w EXCEPT !.hs = x], w) /\ Beside([w EXCEPT !.waiting = x], w)
         /\ Beside([w EXCEPT !.later = x], w) /\ Beside([w EXCEPT !.connected = FALSE], w)
<1>1. w \in Worlds
  BY DEF Good
<1>2. ASSUME NEW r \in {[w EXCEPT !.conn = x], [w EXCEPT !.air = x], [w EXCEPT !.le = x],
                        [w EXCEPT !.leAir = x], [w EXCEPT !.hs = x], [w EXCEPT !.waiting = x],
                        [w EXCEPT !.later = x], [w EXCEPT !.connected = FALSE]}
      PROVE  Beside(r, w)
  <2>1. /\ r.queue = w.queue /\ r.hfp = w.hfp /\ r.slc = w.slc /\ r.panic = w.panic /\ r.pm = w.pm
        /\ r.connected => w.connected
    BY <1>1, <1>2 DEF Worlds
  <2> QED
    BY <2>1, SameQueueIsBeside
<1> QED
  BY <1>2

\* A message of others, with what it carries
LEMMA SendBeside ==
  ASSUME NEW w, Good(w), NEW m \in Messages, m.id \notin LibraryIds, m.id \notin HfpIds
  PROVE  Beside(Send(w, m), w)
BY SendIsBeside DEF Good

LEMMA SendOtherBeside ==
  ASSUME NEW w, Good(w), NEW id \in OtherIds
  PROVE  Beside(Send(w, [id |-> id]), w)
BY SendOther DEF Good

LEMMA OthersAre ==
  /\ "OPEN_ACL" \in OtherIds /\ "CONNECTED_PROFILE_IND" \in OtherIds
  /\ "DISCONNECTED_PROFILE_IND" \in OtherIds /\ "CONNECT_ACL_COMPLETE" \in OtherIds
  /\ "DISCONNECT_REQ" \in OtherIds /\ "CONNECT_STOP_REQ" \in OtherIds
  /\ "LE_OPENED_IND" \in OtherIds /\ "LE_CLOSED_IND" \in OtherIds
  /\ Timers \subseteq OtherIds
BY DEF OtherIds, PlainIds, Timers

LEMMA CancelBeside ==
  ASSUME NEW w, Good(w), NEW ids, ids \cap LibraryIds = {}, ids \cap HfpIds = {}
  PROVE  Beside(Cancel(w, ids), w)
BY CancelIsApart DEF Good

\* Something else than the profile is changed.
LEMMA OtherFieldsBeside ==
  ASSUME NEW w, Good(w), NEW r, r.queue = w.queue, r.hfp = w.hfp, r.slc = w.slc,
         r.panic = w.panic, r.pm = w.pm, r.connected = w.connected
  PROVE  Beside(r, w)
BY SameQueueIsBeside

LEMMA SendLaterBeside ==
  ASSUME NEW w, Good(w), NEW id
  PROVE  Beside(SendLater(w, id), w)
<1>1. w \in Worlds
  BY DEF Good
<1> DEFINE r == SendLater(w, id)
           x == [w.later EXCEPT ![id] = w.later[id] + 1]
<1>2. r = [w EXCEPT !.later = x]
  BY <1>1 DEF SendLater, Worlds
<1> HIDE DEF x
<1> QED
  BY <1>2, RecordsAreBeside

---------------------------------------------------------------------------
(* The connection manager is beside the profile.                           *)

LEMMA CreateAclBeside ==
  ASSUME NEW w, Good(w)
  PROVE  Beside(CreateAcl(w), w)
<1> DEFINE c     == w.conn
           one   == c.users + 1
           fresh == [state |-> "CONNECTING_INTERNAL", users |-> 1, local |-> TRUE]
           again == [c EXCEPT !.state = "CONNECTING_INTERNAL", !.users = one]
           more  == [c EXCEPT !.users = one]
           f     == [w EXCEPT !.conn = fresh]
           a     == [w EXCEPT !.conn = again]
<1>0. c \in Conns /\ w \in Worlds
  BY DEF Good, Worlds
<1>1. one \in Nat /\ fresh \in Conns
  BY <1>0 DEF Conns
<1>2. again \in Conns /\ more \in Conns
  <2> HIDE DEF one, c
  <2> QED
    BY <1>0, <1>1 DEF Conns
<1>3. CreateAcl(w) \in {Send(f, [id |-> "OPEN_ACL"]), Send(a, [id |-> "OPEN_ACL"]), [w EXCEPT !.conn = more]}
  <2>1. [w EXCEPT !.conn.state = "CONNECTING_INTERNAL", !.conn.users = @ + 1] = a
    BY <1>0 DEF Conns, Worlds
  <2>2. [w EXCEPT !.conn.users = @ + 1] = [w EXCEPT !.conn = more]
    BY <1>0
  <2>3. CASE c.state = "NONE"
    BY <2>3 DEF CreateAcl
  <2>4. CASE c.state = "LINK_LOSS"
    BY <2>1, <2>4 DEF CreateAcl
  <2>5. CASE c.state \notin {"NONE", "LINK_LOSS"}
    BY <2>2, <2>5 DEF CreateAcl
  <2> QED
    BY <2>3, <2>4, <2>5
<1> HIDE DEF fresh, again, more
<1>4. /\ Beside(f, w) /\ Beside(a, w) /\ Beside([w EXCEPT !.conn = more], w)
      /\ Good(f) /\ Good(a)
  BY <1>1, <1>2, RecordsAreBeside, ConnKeeps
<1> HIDE DEF f, a
<1>5. Beside(Send(f, [id |-> "OPEN_ACL"]), w) /\ Beside(Send(a, [id |-> "OPEN_ACL"]), w)
  BY <1>4, OthersAre, SendOtherBeside, Again
<1> QED
  BY <1>3, <1>4, <1>5

LEMMA OpenAclBeside ==
  ASSUME NEW w, Good(w)
  PROVE  Beside(HandleOpenAcl(w), w)
<1> DEFINE r == HandleOpenAcl(w)
           a == [state |-> IF w.air.state = "DOWN" THEN "PAGING" ELSE w.air.state, close |-> "no"]
           c == [w.conn EXCEPT !.state = "CONNECTING"]
<1>1. w \in Worlds
  BY DEF Good
<1>2. r \in {w, [w EXCEPT !.conn = c, !.air = a]}
  BY <1>1 DEF HandleOpenAcl, Worlds
<1> HIDE DEF r, a, c
<1>3. /\ r.queue = w.queue /\ r.hfp = w.hfp /\ r.slc = w.slc /\ r.panic = w.panic /\ r.pm = w.pm
      /\ r.connected = w.connected
  BY <1>1, <1>2 DEF Worlds
<1> QED
  BY <1>3, OtherFieldsBeside DEF r

LEMMA SendCloseAclBeside ==
  ASSUME NEW w, Good(w), NEW force
  PROVE  Beside(SendCloseAcl(w, force), w)
<1> DEFINE a == [w.air EXCEPT !.close = IF force THEN "force" ELSE "soft"]
<1>1. SendCloseAcl(w, force) \in {w, [w EXCEPT !.air = a]}
  BY DEF SendCloseAcl
<1> HIDE DEF a
<1> QED
  BY <1>1, RecordsAreBeside, Alone

LEMMA ReleaseAclBeside ==
  ASSUME NEW w, Good(w)
  PROVE  Beside(ReleaseAcl(w), w)
<1> DEFINE n    == IF w.conn.users > 0 THEN w.conn.users - 1 ELSE 0
           less == [w.conn EXCEPT !.users = n]
           last == [w.conn EXCEPT !.users = 0]
           l    == [w EXCEPT !.conn = last]
<1>1. w \in Worlds /\ w.conn \in Conns
  BY DEF Good, Worlds
<1>2. last \in Conns
  BY <1>1 DEF Conns
<1>3. ReleaseAcl(w) \in {w, [w EXCEPT !.conn = less], [w EXCEPT !.conn = NoConnection],
                         SendCloseAcl(l, FALSE)}
  <2> DEFINE close == SendCloseAcl(l, FALSE)
             gone  == [w EXCEPT !.conn = NoConnection]
             some  == [w EXCEPT !.conn = less]
  <2>1. ReleaseAcl(w) =
          CASE w.conn.state = "NONE" -> w
            [] w.conn.state # "NONE" /\ n > 0 -> some
            [] w.conn.state = "CONNECTING_INTERNAL" /\ n = 0 -> gone
            [] OTHER -> close
    BY DEF ReleaseAcl
  <2> HIDE DEF n, close, gone, some
  <2>2. ReleaseAcl(w) \in {w, some, gone, close}
    BY <2>1
  <2> QED
    BY <2>2 DEF close, gone, some
<1> HIDE DEF less, last
<1>4. /\ Beside([w EXCEPT !.conn = less], w) /\ Beside([w EXCEPT !.conn = NoConnection], w)
      /\ Beside(l, w) /\ Good(l)
  BY <1>2, RecordsAreBeside, ConnKeeps
<1> HIDE DEF l
<1>5. Beside(SendCloseAcl(l, FALSE), w)
  BY <1>4, SendCloseAclBeside, Again
<1> QED
  BY <1>3, <1>4, <1>5, Alone

LEMMA ReleaseTpAclBeside ==
  ASSUME NEW w, Good(w)
  PROVE  Beside(ReleaseTpAcl(w), w)
BY RecordsAreBeside, Alone DEF ReleaseTpAcl

LEMMA AclIndicationsBeside ==
  ASSUME NEW w, Good(w), NEW success \in BOOLEAN, NEW incoming \in BOOLEAN, NEW reason \in Reasons
  PROVE  Beside(HandleAclOpened(w, success, incoming), w) /\ Beside(HandleAclClosed(w, reason), w)
<1> DEFINE c  == [w.conn EXCEPT !.state = "CONNECTED", !.local = ~incoming]
           l  == IF reason = "timeout" THEN [NoConnection EXCEPT !.state = "LINK_LOSS"] ELSE NoConnection
           mo == [id |-> "TP_CONNECT_IND", transport |-> "BREDR", incoming |-> incoming]
           mc == [id |-> "TP_DISCONNECT_IND", transport |-> "BREDR", reason |-> reason]
           up == [w EXCEPT !.conn = c]
           dn == [w EXCEPT !.conn = l]
<1>1. w \in Worlds /\ w.conn \in Conns
  BY DEF Good, Worlds
<1>2. c \in Conns /\ l \in Conns
  BY <1>1 DEF Conns, NoConnection
<1>3. mo \in Messages /\ mc \in Messages
  BY DEF Messages, Reasons
<1>4. mo.id \notin LibraryIds \cup HfpIds /\ mc.id \notin LibraryIds \cup HfpIds
  BY DEF LibraryIds, HfpIds
<1>5. HandleAclClosed(w, reason) = Send(dn, mc)
  BY DEF HandleAclClosed
<1>6. HandleAclOpened(w, success, incoming) \in {[w EXCEPT !.conn = NoConnection], Send(up, mo)}
  BY <1>1 DEF HandleAclOpened, Worlds, Conns
<1> HIDE DEF c, l, mo, mc
<1>7. Good(up) /\ Good(dn) /\ Beside(up, w) /\ Beside(dn, w) /\ Beside([w EXCEPT !.conn = NoConnection], w)
  BY <1>2, ConnKeeps, RecordsAreBeside
<1> HIDE DEF up, dn
<1>8. Beside(Send(up, mo), w) /\ Beside(Send(dn, mc), w)
  BY <1>3, <1>4, <1>7, SendBeside, Again
<1> QED
  BY <1>5, <1>6, <1>7, <1>8

LEMMA LeIndicationsBeside ==
  ASSUME NEW w, Good(w)
  PROVE  Beside(HandleLeOpened(w), w) /\ Beside(HandleLeClosed(w), w)
<1> DEFINE up   == [w EXCEPT !.le = "CONNECTED"]
           down == [w EXCEPT !.le = "NONE"]
           mu   == [id |-> "TP_CONNECT_IND", transport |-> "BLE", incoming |-> TRUE]
           md   == [id |-> "TP_DISCONNECT_IND", transport |-> "BLE", reason |-> "local"]
<1>1. mu \in Messages /\ md \in Messages
  BY DEF Messages
<1>2. mu.id \notin LibraryIds \cup HfpIds /\ md.id \notin LibraryIds \cup HfpIds
  BY DEF LibraryIds, HfpIds
<1>3. HandleLeOpened(w) = Send(up, mu) /\ HandleLeClosed(w) = Send(down, md)
  BY DEF HandleLeOpened, HandleLeClosed
<1> HIDE DEF mu, md
<1>4. Beside(up, w) /\ Beside(down, w)
  BY RecordsAreBeside
<1>5. Good(up) /\ Good(down)
  <2>1. /\ up \in Worlds /\ up.queue = w.queue /\ up.waiting = w.waiting /\ up.hs = w.hs
        /\ down \in Worlds /\ down.queue = w.queue /\ down.waiting = w.waiting /\ down.hs = w.hs
    BY DEF Good, Worlds
  <2> QED
    BY <2>1, AsideKeeps
<1> HIDE DEF up, down
<1>6. Beside(Send(up, mu), w) /\ Beside(Send(down, md), w)
  BY <1>1, <1>2, <1>4, <1>5, SendBeside, Again
<1> QED
  BY <1>3, <1>6

LEMMA LinkUpBeside ==
  ASSUME NEW w, Good(w), NEW incoming \in BOOLEAN
  PROVE  Beside(LinkUp(w, incoming), w) /\ Beside(PageFails(w), w)
<1> DEFINE a  == [w.air EXCEPT !.state = "UP"]
           mu == [id |-> "ACL_OPENED_IND", success |-> TRUE, incoming |-> incoming]
           mf == [id |-> "ACL_OPENED_IND", success |-> FALSE, incoming |-> FALSE]
           up == [w EXCEPT !.air = a]
           dn == [w EXCEPT !.air = LinkDown]
<1>0. w.air \in Airs
  BY DEF Good, Worlds
<1>1. a \in Airs /\ LinkDown \in Airs
  BY <1>0 DEF Airs, LinkDown
<1>2. mu \in Messages /\ mf \in Messages
  BY DEF Messages
<1>3. mu.id \notin LibraryIds \cup HfpIds /\ mf.id \notin LibraryIds \cup HfpIds
  BY DEF LibraryIds, HfpIds
<1>4. LinkUp(w, incoming) = Send(up, mu) /\ PageFails(w) = Send(dn, mf)
  BY DEF LinkUp, PageFails
<1> HIDE DEF a, mu, mf
<1>5. Good(up) /\ Good(dn) /\ Beside(up, w) /\ Beside(dn, w)
  BY <1>1, AirKeeps, RecordsAreBeside
<1> HIDE DEF up, dn
<1>6. Beside(Send(up, mu), w) /\ Beside(Send(dn, mf), w)
  BY <1>2, <1>3, <1>5, SendBeside, Again
<1> QED
  BY <1>4, <1>6

---------------------------------------------------------------------------
(* The profile manager's request, and the profile's lists.                 *)

LEMMA SendConfirmationIs ==
  ASSUME NEW w, Good(w), NEW type \in Types, NEW result \in Results
  PROVE  LET r == SendConfirmation(w, type, result)
         IN  /\ Good(r) /\ Apart(r, w) /\ r.connected = w.connected
             /\ r.pm.order = w.pm.order /\ r.pm.index = w.pm.index
             /\ r.pm.clients = w.pm.clients \ {type}
<1> DEFINE v  == [w.pm EXCEPT !.clients = @ \ {type}]
           id == IF type = "connect" THEN "CONNECT_PROFILES_CFM" ELSE "DISCONNECT_PROFILES_CFM"
           m  == [id |-> id, result |-> result]
           r  == SendConfirmation(w, type, result)
           u  == [w EXCEPT !.pm = v]
<1>0. w.pm \in Pms /\ w \in Worlds
  BY DEF Good, Worlds
<1>1. /\ v \in Pms /\ (type \notin w.pm.clients => v = w.pm)
      /\ v.order = w.pm.order /\ v.index = w.pm.index /\ v.clients = w.pm.clients \ {type}
  BY <1>0 DEF Pms
<1>2. m \in Messages /\ m.id \notin LibraryIds /\ m.id \notin HfpIds
  <2>1. id \in {"CONNECT_PROFILES_CFM", "DISCONNECT_PROFILES_CFM"}
    OBVIOUS
  <2> HIDE DEF id
  <2> QED
    BY <2>1 DEF Messages, Results, LibraryIds, HfpIds
<1>3. r = IF type \notin w.pm.clients THEN w ELSE Send(u, m)
  BY DEF SendConfirmation
<1>4. Good(r)
  BY SendConfirmationKeeps
<1> HIDE DEF v, m, r
<1>5. Good(u) /\ u.pm = v /\ u.connected = w.connected /\ u.queue = w.queue /\ u.hfp = w.hfp
      /\ u.slc = w.slc /\ u.panic = w.panic
  BY <1>0, <1>1, PmKeeps DEF Worlds
<1> HIDE DEF u
<1>6. Apart(u, w)
  BY <1>5, SameQueueIsBeside
<1>7. Beside(Send(u, m), u) /\ Send(u, m).connected = u.connected
  BY <1>2, <1>5, SendBeside DEF Send, Good, Worlds
<1>8. CASE type \notin w.pm.clients
  <2>1. r = w /\ r.pm = v
    BY <1>1, <1>3, <1>8
  <2> QED
    BY <1>1, <1>4, <2>1, Alone DEF r
<1>9. CASE type \in w.pm.clients
  <2>1. r = Send(u, m)
    BY <1>3, <1>9
  <2>2. Apart(r, w) /\ r.pm = v /\ r.connected = w.connected
    BY <1>5, <1>6, <1>7, <2>1, Again DEF Beside
  <2> QED
    BY <1>1, <1>4, <2>2 DEF r
<1> QED
  BY <1>8, <1>9

LEMMA RemoveRequestIs ==
  ASSUME NEW w, Good(w), NEW type \in Types
  PROVE  LET r == RemoveRequest(w, type)
         IN  /\ Good(r) /\ Apart(r, w) /\ r.connected = w.connected
             /\ r.pm.order = w.pm.order \ {type} /\ r.pm.index = "none"
             /\ r.pm.clients = w.pm.clients
<1> DEFINE r == RemoveRequest(w, type)
<1>1. w \in Worlds /\ w.pm \in Pms
  BY DEF Good, Worlds
<1>2. Good(r)
  BY RemoveRequestKeeps
<1>3. /\ r.pm.order = w.pm.order \ {type} /\ r.pm.index = "none" /\ r.pm.clients = w.pm.clients
      /\ r.connected = w.connected /\ r.queue = w.queue /\ r.hfp = w.hfp /\ r.slc = w.slc
      /\ r.panic = w.panic
  BY <1>1 DEF RemoveRequest, Worlds, Pms
<1>4. Apart(r, w)
  <2> HIDE DEF r
  <2> QED
    BY <1>3, SameQueueIsBeside
<1> QED
  BY <1>2, <1>3, <1>4

\* The request of a type ends, and the one who asked is told.
LEMMA EndIs ==
  ASSUME NEW w, Good(w), NEW type \in Types, NEW result \in Results
  PROVE  LET r == SendConfirmation(RemoveRequest(w, type), type, result)
         IN  /\ Good(r) /\ Apart(r, w) /\ r.connected = w.connected
             /\ r.pm.order = w.pm.order \ {type} /\ r.pm.clients = w.pm.clients \ {type}
             /\ r.pm.index = "none"
<1> DEFINE v == RemoveRequest(w, type)
           r == SendConfirmation(v, type, result)
<1>2. /\ Good(v) /\ Apart(v, w) /\ v.connected = w.connected
      /\ v.pm.order = w.pm.order \ {type} /\ v.pm.index = "none" /\ v.pm.clients = w.pm.clients
  BY RemoveRequestIs
<1> HIDE DEF v
<1>3. /\ Good(r) /\ Apart(r, v) /\ r.connected = v.connected
      /\ r.pm.order = v.pm.order /\ r.pm.index = v.pm.index /\ r.pm.clients = v.pm.clients \ {type}
  BY <1>2, SendConfirmationIs
<1> HIDE DEF r
<1>4. /\ r.pm.order = w.pm.order \ {type} /\ r.pm.clients = w.pm.clients \ {type}
      /\ r.pm.index = "none"
  BY <1>2, <1>3
<1>5. Apart(r, w) /\ r.connected = w.connected
  BY <1>2, <1>3, Again
<1> QED
  BY <1>3, <1>4, <1>5 DEF r, v

LEMMA CompleteIs ==
  ASSUME NEW w, Good(w), NEW type \in Types
  PROVE  LET r == Complete(w, type)
         IN  /\ Good(r) /\ Apart(r, w) /\ r.connected = w.connected
             /\ r.pm.order = w.pm.order \ {type} /\ r.pm.clients = w.pm.clients \ {type}
             /\ r.pm.index = "none"
<1> DEFINE result == IF type = "disconnect" \/ w.connected THEN "success" ELSE "failed"
<1>1. Complete(w, type) = SendConfirmation(RemoveRequest(w, type), type, result)
  BY DEF Complete
<1>2. result \in Results
  BY DEF Results
<1> HIDE DEF result
<1> QED
  BY <1>1, <1>2, EndIs

LEMMA NoRequestIs ==
  /\ Single(NoRequest) /\ NoRequest.order = {} /\ NoRequest.clients = {} /\ NoRequest.index = "none"
  /\ \A p \in Pms : p.order = {} /\ p.clients = {} /\ p.index = "none" => p = NoRequest
BY DEF NoRequest, Single, Pms, Types

\* What the profile tells ends the one request there is.
LEMMA NextOnIndicationIs ==
  ASSUME NEW w, Good(w), NEW type \in Types, Single(w.pm)
  PROVE  LET r == NextOnIndication(w, type)
         IN  /\ Good(r) /\ Apart(r, w) /\ r.connected = w.connected
             /\ r.pm = IF type \in w.pm.order THEN NoRequest ELSE w.pm
<1> DEFINE r    == NextOnIndication(w, type)
           open == type \in w.pm.clients \cap w.pm.order
           stop == SendConfirmation(RemoveRequest(w, "connect"), "connect", "cancelled")
           done == Complete(w, type)
<1>1. w.pm \in Pms /\ Good(r)
  BY NextOnIndicationKeeps DEF Good, Worlds
<1>2. r = CASE ~open \/ w.pm.index = "none" -> w
            [] open /\ w.pm.index = "asked" -> done
            [] OTHER -> stop
  BY DEF NextOnIndication
<1>3. /\ open <=> type \in w.pm.order
      /\ w.pm.index = "none" => ~open
      /\ w.pm.index \in {"none", "asked", "cancelled"}
      /\ open => w.pm.order = {type} /\ w.pm.clients = {type}
      /\ open /\ w.pm.index = "cancelled" => type = "connect"
  BY <1>1 DEF Single, Pms, Types
<1>4. CASE ~open
  <2>1. r = w
    BY <1>2, <1>4
  <2> HIDE DEF r
  <2> QED
    BY <1>1, <1>3, <1>4, <2>1, Alone DEF r
<1>5. CASE open /\ w.pm.index = "asked"
  <2>1. r = done
    BY <1>2, <1>5
  <2> HIDE DEF open
  <2>2. /\ Good(done) /\ Apart(done, w) /\ done.connected = w.connected
        /\ done.pm.order = w.pm.order \ {type} /\ done.pm.clients = w.pm.clients \ {type}
        /\ done.pm.index = "none"
    BY CompleteIs
  <2>3. done.pm \in Pms
    BY <2>2 DEF Good, Worlds
  <2> HIDE DEF done, r
  <2>4. done.pm = NoRequest
    BY <1>3, <1>5, <2>2, <2>3, NoRequestIs
  <2> QED
    BY <1>3, <1>5, <2>1, <2>2, <2>4 DEF r
<1>6. CASE open /\ w.pm.index = "cancelled"
  <2>1. r = stop
    BY <1>2, <1>6
  <2> HIDE DEF open
  <2>2. /\ Good(stop) /\ Apart(stop, w) /\ stop.connected = w.connected
        /\ stop.pm.order = w.pm.order \ {"connect"} /\ stop.pm.clients = w.pm.clients \ {"connect"}
        /\ stop.pm.index = "none"
    BY EndIs DEF Types, Results
  <2>3. stop.pm \in Pms
    BY <2>2 DEF Good, Worlds
  <2> HIDE DEF stop, r
  <2>4. stop.pm = NoRequest
    BY <1>3, <1>6, <2>2, <2>3, NoRequestIs
  <2> QED
    BY <1>3, <1>6, <2>1, <2>2, <2>4 DEF r
<1> QED
  BY <1>3, <1>4, <1>5, <1>6

\* The indication to the clients of the profile manager goes last.
LEMMA ConnectedIndIs ==
  ASSUME NEW w, Good(w), Single(w.pm)
  PROVE  LET r == GenericConnectedInd(w)
         IN  /\ Good(r) /\ r.connected /\ r.hfp = w.hfp /\ r.slc = w.slc /\ r.panic = w.panic
             /\ Heard(r) = Heard(w) /\ \A id \in HfpIds : Asked(r, id) <=> Asked(w, id)
             /\ r.pm = IF "connect" \in w.pm.order THEN NoRequest ELSE w.pm
<1> DEFINE up == [w EXCEPT !.connected = TRUE]
           v  == NextOnIndication(up, "connect")
           r  == GenericConnectedInd(w)
<1>1. w \in Worlds
  BY DEF Good
<1>2. /\ Good(up) /\ up.pm = w.pm /\ up.connected /\ up.queue = w.queue /\ up.hfp = w.hfp
      /\ up.slc = w.slc /\ up.panic = w.panic
  BY <1>1, MarkKeeps DEF Worlds
<1>3. r = Send(v, [id |-> "CONNECTED_PROFILE_IND"]) /\ Good(r)
  BY GenericIndicationsKeep DEF GenericConnectedInd
<1> HIDE DEF up, r
<1>4. /\ Good(v) /\ Apart(v, up) /\ v.connected = up.connected
      /\ v.pm = IF "connect" \in w.pm.order THEN NoRequest ELSE w.pm
  BY <1>2, NextOnIndicationIs DEF Types
<1> HIDE DEF v
<1>5. Beside(r, v)
  BY <1>3, <1>4, OthersAre, SendOtherBeside
<1>6. r.connected = v.connected
  BY <1>3, <1>4 DEF Send, Good, Worlds
<1>7. /\ r.hfp = w.hfp /\ r.slc = w.slc /\ r.panic = w.panic /\ r.pm = v.pm
      /\ Heard(r) = Heard(up) /\ \A id \in HfpIds : Asked(r, id) <=> Asked(up, id)
  BY <1>2, <1>4, <1>5 DEF Beside, Apart
<1>8. Heard(up) = Heard(w) /\ \A id \in HfpIds : Asked(up, id) <=> Asked(w, id)
  BY <1>2 DEF Heard, Asked
<1> QED
  BY <1>2, <1>3, <1>4, <1>6, <1>7, <1>8 DEF r

LEMMA DisconnectedIndIs ==
  ASSUME NEW w, Good(w), Single(w.pm) \/ "disconnect" \notin w.pm.clients
  PROVE  LET r == GenericDisconnectedInd(w)
         IN  /\ Good(r) /\ ~r.connected /\ Apart(r, w)
             /\ r.pm = IF Single(w.pm) /\ "disconnect" \in w.pm.order THEN NoRequest ELSE w.pm
<1> DEFINE dn == [w EXCEPT !.connected = FALSE]
           v  == NextOnIndication(dn, "disconnect")
           r  == GenericDisconnectedInd(w)
<1>1. w \in Worlds /\ w.pm \in Pms
  BY DEF Good, Worlds
<1>2. Good(dn) /\ dn.pm = w.pm /\ ~dn.connected /\ Apart(dn, w)
  BY <1>1, MarkKeeps, RecordsAreBeside DEF Worlds, Beside
<1>3. r = Send(v, [id |-> "DISCONNECTED_PROFILE_IND"]) /\ Good(r)
  BY GenericIndicationsKeep DEF GenericDisconnectedInd
<1> HIDE DEF dn, r
<1>4. /\ Good(v) /\ Apart(v, dn) /\ v.connected = dn.connected
      /\ v.pm = IF Single(w.pm) /\ "disconnect" \in w.pm.order THEN NoRequest ELSE w.pm
  <2>1. CASE Single(w.pm)
    BY <1>2, <2>1, NextOnIndicationIs DEF Types
  <2>2. CASE ~Single(w.pm)
    <3>1. v = dn
      BY <1>2, <2>2 DEF NextOnIndication
    <3> QED
      BY <1>2, <2>2, <3>1, Alone
  <2> QED
    BY <2>1, <2>2
<1> HIDE DEF v
<1>5. Beside(r, v)
  BY <1>3, <1>4, OthersAre, SendOtherBeside
<1>6. r.connected = v.connected
  BY <1>3, <1>4 DEF Send, Good, Worlds
<1>7. Apart(r, w)
  BY <1>2, <1>4, <1>5, Again DEF Beside
<1>8. r.pm = v.pm
  BY <1>5 DEF Beside
<1> QED
  BY <1>2, <1>3, <1>4, <1>6, <1>7, <1>8 DEF r

---------------------------------------------------------------------------
(* The profile: disconnecting and connecting on request.                   *)

\* Only the lists of the profile change.
LEMMA ListsAre ==
  ASSUME NEW w, Good(w), NEW b \in BOOLEAN, NEW r \in {[w EXCEPT !.hfp.cn = b], [w EXCEPT !.hfp.dn = b]}
  PROVE  /\ Good(r) /\ r.hfp.state = w.hfp.state /\ r.slc = w.slc /\ r.panic = w.panic
         /\ r.connected = w.connected /\ r.pm = w.pm /\ r.queue = w.queue
         /\ Heard(r) = Heard(w) /\ \A id : Asked(r, id) <=> Asked(w, id)
         /\ r = [w EXCEPT !.hfp.cn = b] => r.hfp.cn = b /\ r.hfp.dn = w.hfp.dn
         /\ r = [w EXCEPT !.hfp.dn = b] => r.hfp.dn = b /\ r.hfp.cn = w.hfp.cn
<1>1. w \in Worlds /\ w.hfp \in Hfps
  BY DEF Good, Worlds
<1>2. Good(r)
  BY HfpKeeps DEF HfpStates
<1>3. /\ r.hfp.state = w.hfp.state /\ r.slc = w.slc /\ r.panic = w.panic
      /\ r.connected = w.connected /\ r.pm = w.pm /\ r.queue = w.queue
  BY <1>1 DEF Worlds, Hfps
<1>4. /\ r = [w EXCEPT !.hfp.cn = b] => r.hfp.cn = b /\ r.hfp.dn = w.hfp.dn
      /\ r = [w EXCEPT !.hfp.dn = b] => r.hfp.dn = b /\ r.hfp.cn = w.hfp.cn
  BY <1>1 DEF Worlds, Hfps
<1> QED
  BY <1>2, <1>3, <1>4 DEF Heard, Asked

\* A disconnection is confirmed at once or asked for.
LEMMA HfpDisconnectIs ==
  ASSUME NEW w, Good(w), Sound(w), w.hfp.state \in Off => "disconnect" \notin w.pm.clients
  PROVE  LET r == HfpDisconnect(w)
         IN  /\ Good(r) /\ Sound(r) /\ (Waits(w) => Waits(r))
             /\ r.hfp.state = w.hfp.state /\ r.hfp.cn = w.hfp.cn
             /\ r.slc = w.slc /\ r.panic = w.panic /\ r.connected = w.connected
             /\ r.pm.order = w.pm.order /\ r.pm.clients = w.pm.clients /\ r.pm.index = w.pm.index
             /\ Heard(r) = Heard(w)
             /\ w.hfp.state \in Marked => Disconnects(r)
<1> DEFINE asked == [w EXCEPT !.hfp.dn = TRUE]
           told  == GenericDisconnectedInd(asked)
           over  == [told EXCEPT !.hfp.dn = FALSE]
           sent  == Send(asked, [id |-> "HFP_DISCONNECT_REQ"])
           r     == HfpDisconnect(w)
<1>0. w \in Worlds /\ w.hfp \in Hfps /\ Good(r)
  BY HfpDisconnectKeeps DEF Good, Worlds
<1>1. /\ Good(asked) /\ asked.hfp.state = w.hfp.state /\ asked.slc = w.slc /\ asked.panic = w.panic
      /\ asked.connected = w.connected /\ asked.pm = w.pm
      /\ Heard(asked) = Heard(w) /\ \A id : Asked(asked, id) <=> Asked(w, id)
      /\ asked.hfp.dn /\ asked.hfp.cn = w.hfp.cn
  BY ListsAre
<1>2. r = IF w.hfp.state \in Off THEN over ELSE sent
  BY DEF HfpDisconnect, HfpIsDisconnected, Off
<1> HIDE DEF asked, r
<1>3. ASSUME w.hfp.state \in Off
      PROVE  /\ r.hfp.state = w.hfp.state /\ r.hfp.cn = w.hfp.cn
             /\ r.slc = w.slc /\ r.panic = w.panic /\ r.connected = w.connected /\ r.pm = w.pm
             /\ Heard(r) = Heard(w) /\ \A id \in HfpIds : Asked(r, id) <=> Asked(w, id)
  <2>1. ~w.connected
    BY <1>3 DEF Sound, Listed, Off, Marked
  <2>2. Good(told) /\ ~told.connected /\ Apart(told, asked)
    BY <1>1, <1>3, DisconnectedIndIs
  <2>3. told.pm = asked.pm
    <3>1. "disconnect" \in asked.pm.order => ~Single(asked.pm)
      BY <1>1, <1>3 DEF Single
    <3>2. told.pm = IF Single(asked.pm) /\ "disconnect" \in asked.pm.order THEN NoRequest ELSE asked.pm
      BY <1>1, <1>3, DisconnectedIndIs
    <3> QED
      BY <3>1, <3>2
  <2> HIDE DEF told
  <2>4. /\ over.hfp.state = told.hfp.state /\ over.slc = told.slc /\ over.panic = told.panic
        /\ over.connected = told.connected /\ over.pm = told.pm
        /\ Heard(over) = Heard(told) /\ \A id : Asked(over, id) <=> Asked(told, id)
        /\ over.hfp.cn = told.hfp.cn
    BY <2>2, ListsAre
  <2>5. told.connected = w.connected
    BY <1>0, <2>1, <2>2 DEF Good, Worlds
  <2> HIDE DEF over
  <2> QED
    BY <1>1, <1>2, <1>3, <2>2, <2>3, <2>4, <2>5 DEF Apart
<1>4. ASSUME w.hfp.state \notin Off
      PROVE  /\ r.hfp.state = w.hfp.state /\ r.hfp.cn = w.hfp.cn /\ r.hfp.dn
             /\ r.slc = w.slc /\ r.panic = w.panic /\ r.connected = w.connected /\ r.pm = w.pm
             /\ Heard(r) = Heard(w)
             /\ \A id : Asked(r, id) <=> Asked(w, id) \/ id = "HFP_DISCONNECT_REQ"
  <2> DEFINE m == [id |-> "HFP_DISCONNECT_REQ"]
  <2>1. m \in Messages /\ m.id \notin LibraryIds /\ m.id = "HFP_DISCONNECT_REQ"
    BY ProfileMessages, PlainIs DEF LibraryIds
  <2>2. r = Send(asked, m)
    BY <1>2, <1>4
  <2> HIDE DEF m
  <2>3. /\ Heard(Send(asked, m)) = Heard(asked)
        /\ \A id : Asked(Send(asked, m), id) <=> Asked(asked, id) \/ m.id = id
    BY <1>1, <2>1, SendIsBeside DEF Good
  <2>4. /\ r.hfp = asked.hfp /\ r.slc = asked.slc /\ r.panic = asked.panic
        /\ r.connected = asked.connected /\ r.pm = asked.pm
    BY <1>1, <2>2 DEF Send, Good, Worlds
  <2> QED
    BY <1>1, <2>1, <2>2, <2>3, <2>4
<1>5. r.hfp.state = w.hfp.state /\ r.hfp.cn = w.hfp.cn /\ r.slc = w.slc /\ r.connected = w.connected
      /\ Heard(r) = Heard(w) /\ r.pm = w.pm /\ r.panic = w.panic
  BY <1>3, <1>4
<1>6. Waits(w) => Waits(r)
  <2>1. Asked(w, "HFP_CONNECT_REQ") => Asked(r, "HFP_CONNECT_REQ")
    BY <1>3, <1>4 DEF HfpIds
  <2> QED
    BY <1>5, <2>1 DEF Waits, Connects
<1>7. Sound(r)
  <2>1. Follows(r.hfp.state, r.slc, Heard(r))
    BY <1>5 DEF Sound
  <2>2. Listed(r)
    BY <1>3, <1>4, <1>5 DEF Sound, Listed, Off, Marked, HfpIds
  <2> QED
    BY <2>1, <2>2 DEF Sound
<1>8. w.hfp.state \in Marked => Disconnects(r)
  BY <1>4, <1>5 DEF Marked, Off, Disconnects
<1> QED
  BY <1>0, <1>5, <1>6, <1>7, <1>8 DEF r

\* The answer to a connection when the profile is connected: it may have to be
\* disconnected again.
Back(p) == p.index = "asked" /\ "disconnect" \in p.order

LEMMA ConfirmConnectIs ==
  ASSUME NEW w, Good(w), Sound(w), w.hfp.state = "CONNECTED", Back(w.pm) \/ Single(w.pm)
  PROVE  LET r == ConfirmConnect(w, TRUE)
         IN  /\ Good(r) /\ Sound(r) /\ Waits(r) /\ r.hfp.state = "CONNECTED"
             /\ r.slc = w.slc /\ r.panic = w.panic
             /\ Back(w.pm) =>
                  /\ r.pm.order = w.pm.order /\ r.pm.clients = w.pm.clients /\ r.pm.index = w.pm.index
                  /\ r.connected = w.connected /\ Disconnects(r)
             /\ ~Back(w.pm) =>
                  /\ r.pm = IF "connect" \in w.pm.order THEN NoRequest ELSE w.pm
                  /\ r.connected
<1> DEFINE off == HfpDisconnect(w)
           up  == GenericConnectedInd(w)
           g   == IF Back(w.pm) THEN off ELSE up
           r   == ConfirmConnect(w, TRUE)
<1>1. r = [g EXCEPT !.hfp.cn = FALSE]
  BY DEF GenericConnectCfm, ConfirmConnect, Back
<1>2. Back(w.pm) =>
        /\ Good(off) /\ Sound(off) /\ off.hfp.state = "CONNECTED" /\ off.slc = w.slc
        /\ off.panic = w.panic /\ off.connected = w.connected /\ Disconnects(off)
        /\ off.pm.order = w.pm.order /\ off.pm.clients = w.pm.clients /\ off.pm.index = w.pm.index
  BY HfpDisconnectIs DEF Off, Marked
<1>3. ~Back(w.pm) =>
        /\ Good(up) /\ Sound(up) /\ up.hfp.state = "CONNECTED" /\ up.slc = w.slc
        /\ up.panic = w.panic /\ up.connected
        /\ up.pm = IF "connect" \in w.pm.order THEN NoRequest ELSE w.pm
  <2> SUFFICES ASSUME ~Back(w.pm)
               PROVE  /\ Good(up) /\ Sound(up) /\ up.hfp.state = "CONNECTED" /\ up.slc = w.slc
                      /\ up.panic = w.panic /\ up.connected
                      /\ up.pm = IF "connect" \in w.pm.order THEN NoRequest ELSE w.pm
    OBVIOUS
  <2>1. /\ Good(up) /\ up.connected /\ up.hfp = w.hfp /\ up.slc = w.slc /\ up.panic = w.panic
        /\ Heard(up) = Heard(w) /\ \A id \in HfpIds : Asked(up, id) <=> Asked(w, id)
        /\ up.pm = IF "connect" \in w.pm.order THEN NoRequest ELSE w.pm
    BY ConnectedIndIs
  <2> HIDE DEF up
  <2>2. Sound(up)
    BY <2>1 DEF Sound, Listed, Marked, HfpIds
  <2> QED
    BY <2>1, <2>2
<1> HIDE DEF off, up, r
<1>4. Good(g) /\ Sound(g) /\ g.hfp.state = "CONNECTED"
  BY <1>2, <1>3
<1>5. /\ Good(r) /\ r.hfp.state = g.hfp.state /\ r.slc = g.slc /\ r.panic = g.panic
      /\ r.connected = g.connected /\ r.pm = g.pm
      /\ Heard(r) = Heard(g) /\ \A id : Asked(r, id) <=> Asked(g, id)
      /\ ~r.hfp.cn /\ r.hfp.dn = g.hfp.dn
  <2> HIDE DEF g
  <2> QED
    BY <1>1, <1>4, ListsAre
<1>6. Sound(r) /\ Waits(r) /\ (Disconnects(g) => Disconnects(r))
  <2> HIDE DEF g
  <2> QED
    BY <1>4, <1>5 DEF Sound, Listed, Waits, Disconnects
<1> QED
  BY <1>2, <1>3, <1>4, <1>5, <1>6 DEF r

\* A connection is asked for, and the profile is on the list of who waits for it.
LEMMA HfpConnectIs ==
  ASSUME NEW w, Good(w), Sound(w), w.hfp.state # "CONNECTED"
  PROVE  LET r == HfpConnect(w)
         IN  /\ Good(r) /\ Sound(r) /\ Waits(r) /\ r.hfp.cn
             /\ r.panic = w.panic /\ r.hfp.state # "CONNECTED"
             /\ r.pm.order = w.pm.order /\ r.pm.clients = w.pm.clients /\ r.pm.index = w.pm.index
<1> DEFINE listed == [w EXCEPT !.hfp.cn = TRUE]
           s      == IF listed.hfp.state = "NONE" THEN "DISCONNECTED" ELSE listed.hfp.state
           there  == [listed EXCEPT !.hfp.state = s]
           held   == CreateAcl(there)
           m      == [id |-> "HFP_CONNECT_REQ", again |-> FALSE]
           r      == HfpConnect(w)
<1>0. w \in Worlds /\ w.hfp \in Hfps
  BY DEF Good, Worlds
<1>1. /\ Good(listed) /\ listed.hfp.state = w.hfp.state /\ listed.slc = w.slc
      /\ listed.panic = w.panic /\ listed.connected = w.connected /\ listed.pm = w.pm
      /\ Heard(listed) = Heard(w) /\ \A id : Asked(listed, id) <=> Asked(w, id)
      /\ listed.hfp.cn /\ listed.hfp.dn = w.hfp.dn
  BY ListsAre
<1>2. r = Send(held, m) /\ Good(r)
  BY HfpConnectKeeps DEF HfpConnect, HfpConnectWithBdAddr
<1> HIDE DEF listed, r
<1>3. s \in HfpStates /\ s # "NONE" /\ s # "CONNECTED"
      /\ (s = w.hfp.state \/ (w.hfp.state = "NONE" /\ s = "DISCONNECTED"))
  BY <1>0, <1>1 DEF Hfps, HfpStates
<1> HIDE DEF s
<1>4. /\ Good(there) /\ there.hfp.state = s /\ there.hfp.cn /\ there.hfp.dn = w.hfp.dn
      /\ there.slc = w.slc /\ there.panic = w.panic /\ there.connected = w.connected
      /\ there.pm = w.pm /\ there.queue = listed.queue
  BY <1>1, <1>3, HfpKeeps DEF Good, Worlds, Hfps
<1> HIDE DEF there
<1>5. Heard(there) = Heard(w) /\ \A id : Asked(there, id) <=> Asked(w, id)
  BY <1>1, <1>4 DEF Heard, Asked
<1>6. Good(held) /\ Beside(held, there)
  BY <1>4, CreateAclBeside, CreateAclKeeps
<1> HIDE DEF held
<1>7. m \in Messages /\ m.id \notin LibraryIds /\ m.id = "HFP_CONNECT_REQ"
  BY ProfileMessages DEF LibraryIds
<1> HIDE DEF m
<1>8. /\ Heard(r) = Heard(held)
      /\ \A id : Asked(r, id) <=> Asked(held, id) \/ m.id = id
  BY <1>2, <1>6, <1>7, SendIsBeside DEF Good
<1>9. /\ r.hfp = held.hfp /\ r.slc = held.slc /\ r.panic = held.panic
      /\ r.connected = held.connected /\ r.pm = held.pm
  BY <1>2, <1>6 DEF Send, Good, Worlds
<1>10. /\ r.hfp.state = s /\ r.hfp.cn /\ r.hfp.dn = w.hfp.dn /\ r.slc = w.slc /\ r.panic = w.panic
       /\ r.connected => w.connected
       /\ r.pm = w.pm /\ Heard(r) = Heard(w)
       /\ Asked(r, "HFP_CONNECT_REQ")
       /\ Asked(r, "HFP_DISCONNECT_REQ") <=> Asked(w, "HFP_DISCONNECT_REQ")
  BY <1>4, <1>5, <1>6, <1>7, <1>8, <1>9 DEF Beside, Apart, HfpIds
<1>11. Follows(s, w.slc, Heard(w))
  BY <1>3 DEF Sound, Follows, Rests, Off, Opening, Marked
<1>12. Listed(r)
  BY <1>3, <1>10 DEF Sound, Listed, Off, Marked
<1>13. Waits(r)
  BY <1>3, <1>10 DEF Waits, Connects, Opening, HfpStates
<1> QED
  BY <1>2, <1>3, <1>10, <1>11, <1>12, <1>13 DEF Sound, r

\* Whether the profile is connected or not
LEMMA HfpConnectEnds ==
  ASSUME NEW w, Good(w), Sound(w), Back(w.pm) \/ Single(w.pm)
  PROVE  LET r == HfpConnect(w)
         IN  /\ Good(r) /\ Sound(r) /\ Waits(r) /\ r.panic = w.panic
             /\ \/ /\ r.pm.order = w.pm.order /\ r.pm.clients = w.pm.clients /\ r.pm.index = w.pm.index
                   /\ r.hfp.cn \/ Back(w.pm)
                \/ ~Back(w.pm) /\ "connect" \in w.pm.order /\ r.pm = NoRequest
                \/ ~Back(w.pm) /\ "connect" \notin w.pm.order /\ r.pm = w.pm
<1>1. CASE w.hfp.state # "CONNECTED"
  BY <1>1, HfpConnectIs
<1>2. CASE w.hfp.state = "CONNECTED"
  <2> DEFINE listed == [w EXCEPT !.hfp.cn = TRUE]
             r      == ConfirmConnect(listed, TRUE)
  <2>1. HfpConnect(w) = r
    BY <1>2 DEF HfpConnect
  <2>2. /\ Good(listed) /\ listed.hfp.state = w.hfp.state /\ listed.slc = w.slc
        /\ listed.panic = w.panic /\ listed.connected = w.connected /\ listed.pm = w.pm
        /\ Heard(listed) = Heard(w) /\ \A id : Asked(listed, id) <=> Asked(w, id)
        /\ listed.hfp.dn = w.hfp.dn
    BY ListsAre
  <2> HIDE DEF listed
  <2>3. Sound(listed)
    BY <2>2 DEF Sound, Listed
  <2>4. /\ Good(r) /\ Sound(r) /\ Waits(r) /\ r.panic = w.panic
        /\ Back(w.pm) =>
             /\ r.pm.order = w.pm.order /\ r.pm.clients = w.pm.clients /\ r.pm.index = w.pm.index
        /\ ~Back(w.pm) => r.pm = IF "connect" \in w.pm.order THEN NoRequest ELSE w.pm
    BY <1>2, <2>2, <2>3, ConfirmConnectIs
  <2> HIDE DEF r
  <2> QED
    BY <2>1, <2>4
<1> QED
  BY <1>1, <1>2

\* The request that was under way is called off for the opposite.
LEMMA CallOff ==
  ASSUME NEW w, Good(w), Sound(w), Waits(w), NEW type \in Types,
         w.pm.index = "asked", w.pm.order = Types, w.pm.clients = {Opposite(type)}
  PROVE  LET r == CancelPending(w, type)
         IN  /\ Good(r) /\ Sound(r) /\ Waits(r) /\ r.panic = w.panic
             /\ r.pm.order = {type} /\ r.pm.clients = {} /\ r.pm.index = "none"
<1> DEFINE other == Opposite(type)
           v     == Issue(w, type)
           r     == SendConfirmation(RemoveRequest(v, other), other, "cancelled")
<1>1. CancelPending(w, type) = r
  BY DEF CancelPending, Opposite, Types
<1>2. /\ other \in Types /\ Types \ {other} = {type} /\ "cancelled" \in Results
  BY DEF Opposite, Types, Results
<1>3. /\ Good(v) /\ Sound(v) /\ Waits(v) /\ v.panic = w.panic
      /\ v.pm.order = Types /\ v.pm.clients = {other}
  <2>1. CASE type = "connect"
    <3>1. Back(w.pm) /\ v = HfpConnect(w)
      BY <2>1 DEF Back, Types, Issue
    <3> HIDE DEF v
    <3> QED
      BY <3>1, HfpConnectEnds
  <2>2. CASE type = "disconnect"
    <3>1. "disconnect" \notin w.pm.clients /\ v = HfpDisconnect(w)
      BY <2>2 DEF Opposite, Issue
    <3> HIDE DEF v
    <3> QED
      BY <3>1, HfpDisconnectIs
  <2> QED
    BY <2>1, <2>2 DEF Types
<1> HIDE DEF v, other
<1>4. /\ Good(r) /\ Apart(r, v) /\ r.pm.order = v.pm.order \ {other}
      /\ r.pm.clients = v.pm.clients \ {other} /\ r.pm.index = "none"
  BY <1>2, <1>3, EndIs
<1> HIDE DEF r
<1>5. Sound(r) /\ Waits(r) /\ r.panic = v.panic
  BY <1>3, <1>4, ApartKeeps DEF Apart
<1> QED
  BY <1>1, <1>2, <1>3, <1>4, <1>5

\* The request of the caller is on its way, or over at once.
LEMMA AskedFits ==
  ASSUME NEW w, Good(w), Sound(w), Waits(w), NEW type \in Types,
         w.pm.order = {type}, w.pm.clients = {type}, w.pm.index = "asked"
  PROVE  /\ Fit(Complete(w, type))
         /\ (type = "disconnect" => w.connected) => Fit(Issue(w, type))
<1>1. Fit(Complete(w, type))
  <2> DEFINE r == Complete(w, type)
  <2>1. /\ Good(r) /\ Apart(r, w) /\ r.pm.order = {} /\ r.pm.clients = {} /\ r.pm.index = "none"
    BY CompleteIs
  <2> HIDE DEF r
  <2>2. Sound(r) /\ Waits(r)
    BY <2>1, ApartKeeps
  <2>3. Requested(r)
    BY <2>1 DEF Requested, Single, Types
  <2> QED
    BY <2>2, <2>3 DEF Fit, r
<1>2. ASSUME type = "disconnect" => w.connected PROVE Fit(Issue(w, type))
  <2> DEFINE r == Issue(w, type)
  <2>1. Single(w.pm)
    BY DEF Single, Types
  <2>2. CASE type = "connect"
    <3>1. r = HfpConnect(w) /\ ~Back(w.pm)
      BY <2>2 DEF Issue, Back
    <3> HIDE DEF r
    <3>2. /\ Sound(r) /\ Waits(r)
          /\ \/ r.pm.order = w.pm.order /\ r.pm.clients = w.pm.clients /\ r.pm.index = w.pm.index
                /\ r.hfp.cn
             \/ r.pm = NoRequest
      BY <2>1, <2>2, <3>1, HfpConnectEnds
    <3>3. ASSUME r.pm = NoRequest PROVE Requested(r)
      BY <3>3, NoRequestIs DEF Requested
    <3>4. ASSUME r.pm # NoRequest PROVE Requested(r)
      <4>1. r.pm.order = {"connect"} /\ r.pm.clients = {"connect"} /\ r.pm.index = "asked" /\ r.hfp.cn
        BY <2>2, <3>2, <3>4
      <4> QED
        BY <4>1 DEF Requested, Single, Types
    <3>5. Requested(r)
      BY <3>3, <3>4
    <3> QED
      BY <3>2, <3>5 DEF Fit, r
  <2>3. CASE type = "disconnect"
    <3>1. r = HfpDisconnect(w)
      BY <2>3 DEF Issue
    <3>2. w.hfp.state \in Marked /\ w.hfp.state \notin Off
      BY <1>2, <2>3 DEF Sound, Listed, Off, Marked
    <3> HIDE DEF r
    <3>3. /\ Sound(r) /\ Waits(r) /\ Disconnects(r)
          /\ r.pm.order = w.pm.order /\ r.pm.clients = w.pm.clients /\ r.pm.index = w.pm.index
      BY <3>1, <3>2, HfpDisconnectIs
    <3>4. Requested(r)
      BY <2>3, <3>3 DEF Requested, Single, Types
    <3> QED
      BY <3>3, <3>4 DEF Fit, r
  <2> QED
    BY <2>2, <2>3 DEF Types
<1> QED
  BY <1>1, <1>2

\* Nothing but the request changes.
LEMMA RequestIs ==
  ASSUME NEW w, Good(w), NEW v \in Pms
  PROVE  LET r == [w EXCEPT !.pm = v]
         IN  Good(r) /\ r.pm = v /\ Apart(r, w) /\ r.connected = w.connected
<1>1. w \in Worlds
  BY DEF Good
<1> DEFINE r == [w EXCEPT !.pm = v]
<1>2. /\ Good(r) /\ r.pm = v /\ r.queue = w.queue /\ r.hfp = w.hfp /\ r.slc = w.slc
      /\ r.panic = w.panic /\ r.connected = w.connected
  BY <1>1, PmKeeps DEF Worlds
<1> HIDE DEF r
<1>3. Apart(r, w)
  BY <1>2, SameQueueIsBeside
<1> QED
  BY <1>2, <1>3 DEF r

\* An assertion stops everything.
LEMMA PanicIs ==
  ASSUME NEW w, Good(w)
  PROVE  LET r == Panic(w)
         IN  /\ Good(r) /\ r.panic /\ r.hfp = w.hfp /\ r.pm = w.pm
             /\ Sound(w) => Sound(r)
             /\ Waits(w) => Waits(r)
             /\ Fit(w) => Fit(r)
<1> DEFINE r == Panic(w)
<1>1. w \in Worlds
  BY DEF Good
<1>2. /\ Good(r) /\ r.panic /\ r.hfp = w.hfp /\ r.pm = w.pm /\ r.queue = w.queue /\ r.slc = w.slc
      /\ r.connected = w.connected
  BY <1>1, PanicKeeps DEF Worlds, Panic
<1> HIDE DEF r
<1>3. Heard(r) = Heard(w) /\ \A id : Asked(r, id) <=> Asked(w, id)
  BY <1>2 DEF Heard, Asked
<1>4. /\ Sound(w) => Sound(r)
      /\ Waits(w) => Waits(r)
      /\ Requested(w) => Requested(r)
  BY <1>2, <1>3 DEF Sound, Listed, Waits, Connects, Requested, Disconnects
<1> QED
  BY <1>2, <1>4 DEF Fit, r

LEMMA ProfilesRequestFits ==
  ASSUME NEW w, Good(w), Fit(w), ~w.panic, NEW type \in Types
  PROVE  Fit(ProfilesRequest(w, type))
<1> DEFINE v    == [w.pm EXCEPT !.order = w.pm.order \cup {type}]
           set  == [w EXCEPT !.pm.order = @ \cup {type}]
           free == CancelPending(set, type)
           new  == [free EXCEPT !.pm.clients = @ \cup {type}, !.pm.index = "asked"]
           r    == ProfilesRequest(w, type)
<1>0. w \in Worlds /\ w.pm \in Pms
  BY DEF Good, Worlds
<1>1. Sound(w) /\ Waits(w) /\ Requested(w) /\ Single(w.pm)
  BY DEF Fit, Requested
<1>2. r = IF type \in w.pm.clients THEN Panic(w)
          ELSE IF free.panic THEN free
          ELSE IF new.connected = (type = "connect") THEN Complete(new, type)
          ELSE Issue(new, type)
  BY DEF ProfilesRequest
<1>3. /\ Good(set) /\ set.pm.order = w.pm.order \cup {type} /\ set.pm.clients = w.pm.clients
      /\ set.pm.index = w.pm.index /\ Apart(set, w)
  <2>1. /\ v \in Pms /\ set = [w EXCEPT !.pm = v]
        /\ v.order = w.pm.order \cup {type} /\ v.clients = w.pm.clients /\ v.index = w.pm.index
    BY <1>0 DEF Pms
  <2> HIDE DEF v, set
  <2> QED
    BY <2>1, RequestIs
<1> HIDE DEF set, r
<1>4. Sound(set) /\ Waits(set) /\ set.hfp = w.hfp /\ ~set.panic
  BY <1>1, <1>3, ApartKeeps DEF Apart
<1>5. ASSUME type \in w.pm.clients PROVE Fit(r)
  BY <1>2, <1>5, PanicIs
<1>6. ASSUME type \notin w.pm.clients, w.pm.index = "cancelled"
      PROVE  Fit(r)
  <2>1. free = Panic(set)
    BY <1>3, <1>6 DEF CancelPending
  <2>2. w.hfp.cn
    BY <1>1, <1>6 DEF Requested, Single
  <2> HIDE DEF free, new
  <2>3. free.panic /\ free.hfp.cn /\ Sound(free) /\ Waits(free)
    BY <1>3, <1>4, <2>1, <2>2, PanicIs
  <2> QED
    BY <1>2, <1>6, <2>3 DEF Fit
<1>7. ASSUME type \notin w.pm.clients, w.pm.index # "cancelled"
      PROVE  Fit(r)
  <2>1. /\ Good(free) /\ Sound(free) /\ Waits(free) /\ ~free.panic
        /\ free.pm.order = {type} /\ free.pm.clients = {}
    <3>1. CASE w.pm.index = "none"
      <4>1. free = set
        BY <1>3, <3>1 DEF CancelPending
      <4>2. w.pm.order = {} /\ w.pm.clients = {}
        BY <1>1, <3>1 DEF Single
      <4> HIDE DEF free
      <4> QED
        BY <1>3, <1>4, <4>1, <4>2
    <3>2. CASE w.pm.index = "asked"
      <4>1. set.pm.order = Types /\ set.pm.clients = {Opposite(type)}
        BY <1>0, <1>1, <1>3, <1>7, <3>2 DEF Single, Pms, Types, Opposite
      <4> HIDE DEF free
      <4> QED
        BY <1>3, <1>4, <3>2, <4>1, CallOff DEF free
    <3> QED
      BY <1>0, <1>7, <3>1, <3>2 DEF Pms
  <2> HIDE DEF free
  <2> DEFINE u == [free.pm EXCEPT !.clients = free.pm.clients \cup {type}, !.index = "asked"]
  <2>2. /\ Good(new) /\ Apart(new, free) /\ new.pm.order = {type} /\ new.pm.clients = {type}
        /\ new.pm.index = "asked"
    <3>0. free.pm \in Pms /\ free \in Worlds
      BY <2>1 DEF Good, Worlds
    <3>1. u \in Pms /\ u.order = {type} /\ u.clients = {type} /\ u.index = "asked"
      BY <2>1, <3>0 DEF Pms
    <3>2. new = [free EXCEPT !.pm = u]
      BY <3>0 DEF Pms, Worlds
    <3> HIDE DEF u, new
    <3> QED
      BY <2>1, <3>1, <3>2, RequestIs
  <2> HIDE DEF new
  <2>3. Sound(new) /\ Waits(new) /\ new.connected \in BOOLEAN
    BY <2>1, <2>2, ApartKeeps DEF Good, Worlds
  <2>4. /\ Fit(Complete(new, type))
        /\ (type = "disconnect" => new.connected) => Fit(Issue(new, type))
    BY <2>2, <2>3, AskedFits
  <2>5. r = IF new.connected = (type = "connect") THEN Complete(new, type) ELSE Issue(new, type)
    BY <1>2, <1>7, <2>1
  <2>6. CASE new.connected = (type = "connect")
    BY <2>4, <2>5, <2>6
  <2>7. CASE new.connected # (type = "connect")
    <3>1. type = "disconnect" => new.connected
      BY <2>3, <2>7
    <3> QED
      BY <2>4, <2>5, <2>7, <3>1
  <2> QED
    BY <2>6, <2>7
<1> QED
  BY <1>5, <1>6, <1>7 DEF r

\* A connection request is stopped: the profile has it, and ends it.
LEMMA StopRequestFits ==
  ASSUME NEW w, Good(w), Fit(w), CanStopRequest(w)
  PROVE  Fit(StopRequest(w))
<1> DEFINE v == [w.pm EXCEPT !.index = "cancelled"]
           r == StopRequest(w)
<1>0. w.pm \in Pms
  BY DEF Good, Worlds
<1>1. v \in Pms /\ r = [w EXCEPT !.pm = v] /\ v.order = w.pm.order /\ v.clients = w.pm.clients
      /\ v.index = "cancelled"
  BY <1>0 DEF Pms, StopRequest
<1> HIDE DEF v, r
<1>2. Apart(r, w) /\ r.pm = v
  BY <1>1, RequestIs
<1>3. Sound(r) /\ Waits(r) /\ r.hfp = w.hfp /\ r.panic = w.panic
  BY <1>2, ApartKeeps DEF Fit, Apart
<1>4. Requested(w) => Requested(r)
  <2> SUFFICES ASSUME Requested(w) PROVE Requested(r)
    OBVIOUS
  <2>1. w.pm.order = {"connect"}
    BY <1>0 DEF Requested, Single, CanStopRequest, Pms, Types
  <2> QED
    BY <1>1, <1>2, <1>3, <2>1 DEF Requested, Single, Types
<1> QED
  BY <1>3, <1>4 DEF Fit, r

---------------------------------------------------------------------------
(* The profile changes its state.                                          *)

LEMMA HfpSetStateIs ==
  ASSUME NEW w, Good(w), NEW state \in HfpStates
  PROVE  LET r == HfpSetState(w, state)
         IN  /\ Good(r) /\ r.hfp.state = state /\ r.hfp.cn = w.hfp.cn /\ r.hfp.dn = w.hfp.dn
             /\ r.slc = w.slc /\ r.panic = w.panic /\ r.pm = w.pm /\ (r.connected => w.connected)
             /\ Heard(r) = Heard(w) /\ \A id \in HfpIds : Asked(r, id) <=> Asked(w, id)
<1> DEFINE v == IF w.hfp.state = "CONNECTING_LOCAL" THEN ReleaseAcl(w) ELSE w
           r == HfpSetState(w, state)
<1>1. Good(v) /\ Beside(v, w)
  BY ReleaseAclKeeps, ReleaseAclBeside, Alone
<1>2. r = [v EXCEPT !.hfp.state = state] /\ Good(r)
  BY HfpSetStateKeeps DEF HfpSetState
<1> HIDE DEF v, r
<1>3. v \in Worlds /\ v.hfp \in Hfps
  BY <1>1 DEF Good, Worlds
<1>4. /\ r.hfp.state = state /\ r.hfp.cn = v.hfp.cn /\ r.hfp.dn = v.hfp.dn
      /\ r.slc = v.slc /\ r.panic = v.panic /\ r.pm = v.pm /\ r.connected = v.connected
      /\ r.queue = v.queue
  BY <1>2, <1>3 DEF Worlds, Hfps
<1>5. Heard(r) = Heard(v) /\ \A id : Asked(r, id) <=> Asked(v, id)
  BY <1>4 DEF Heard, Asked
<1> QED
  BY <1>1, <1>2, <1>4, <1>5 DEF Beside, Apart, r

\* The connection is there: whoever waits for it is told, and the request ends.
LEMMA HfpEnterConnectedFits ==
  ASSUME NEW w, Good(w), Listed(w), Requested(w), w.hfp.state \in Opening,
         Follows("CONNECTED", w.slc, Heard(w))
  PROVE  Fit(HfpEnterConnected(w))
<1> DEFINE up == HfpSetState(w, "CONNECTED")
           r  == HfpEnterConnected(w)
<1>1. r = IF up.hfp.cn THEN ConfirmConnect(up, TRUE) ELSE GenericConnectedInd(up)
  BY DEF HfpEnterConnected
<1>2. /\ Good(up) /\ up.hfp.state = "CONNECTED" /\ up.hfp.cn = w.hfp.cn /\ up.hfp.dn = w.hfp.dn
      /\ up.slc = w.slc /\ up.panic = w.panic /\ up.pm = w.pm /\ (up.connected => w.connected)
      /\ Heard(up) = Heard(w) /\ \A id \in HfpIds : Asked(up, id) <=> Asked(w, id)
  BY HfpSetStateIs DEF HfpStates
<1>3. ~Disconnects(w)
  BY DEF Disconnects, Opening
<1>4. Single(w.pm) /\ "disconnect" \notin w.pm.order /\ ("connect" \in w.pm.order => w.hfp.cn)
  BY <1>3 DEF Requested
<1> HIDE DEF up, r
<1>5. Sound(up)
  BY <1>2 DEF Sound, Listed, Off, Marked, HfpIds
<1>6. ASSUME w.hfp.cn PROVE Fit(r)
  <2>1. r = ConfirmConnect(up, TRUE) /\ ~Back(up.pm)
    BY <1>1, <1>2, <1>4, <1>6 DEF Back
  <2>2. /\ Sound(r) /\ Waits(r)
        /\ r.pm = IF "connect" \in w.pm.order THEN NoRequest ELSE w.pm
    BY <1>2, <1>4, <1>5, <2>1, ConfirmConnectIs
  <2>3. Single(r.pm) /\ "connect" \notin r.pm.order /\ "disconnect" \notin r.pm.order
    BY <1>4, <2>2, NoRequestIs
  <2> QED
    BY <2>2, <2>3 DEF Fit, Requested
<1>7. ASSUME ~w.hfp.cn PROVE Fit(r)
  <2>1. r = GenericConnectedInd(up) /\ "connect" \notin up.pm.order
    BY <1>1, <1>2, <1>4, <1>7
  <2>2. /\ Good(r) /\ r.connected /\ r.hfp = up.hfp /\ r.slc = up.slc /\ r.panic = up.panic
        /\ Heard(r) = Heard(up) /\ \A id \in HfpIds : Asked(r, id) <=> Asked(up, id)
        /\ r.pm = w.pm
    BY <1>2, <1>4, <2>1, ConnectedIndIs
  <2>3. Sound(r)
    BY <1>2, <1>5, <2>2 DEF Sound, Listed, Marked, HfpIds
  <2>4. Waits(r)
    BY <1>2, <1>7, <2>2 DEF Waits
  <2>5. Requested(r)
    BY <1>2, <1>4, <2>1, <2>2 DEF Requested
  <2> QED
    BY <2>3, <2>4, <2>5 DEF Fit
<1> QED
  BY <1>6, <1>7 DEF r

\* The connection has ended, or has not come about: nothing is left of any request.
LEMMA HfpEnterDisconnectedFits ==
  ASSUME NEW w, Good(w), Requested(w), NEW reason, Follows("NONE", w.slc, Heard(w)),
         w.hfp.cn => w.hfp.state # "CONNECTED",
         w.hfp.state = "DISCONNECTING" => w.hfp.dn /\ reason = "normal",
         w.hfp.state \notin Marked => ~w.connected
  PROVE  Fit(HfpEnterDisconnected(w, reason))
<1> DEFINE down   == HfpSetState(w, "DISCONNECTED")
           next   == NextOnIndication(down, "connect")
           failed == IF down.hfp.cn THEN ConfirmConnect(down, FALSE) ELSE down
           asked  == failed.hfp.dn /\ reason = "normal"
           ended  == GenericDisconnectedInd(failed)
           told   == IF asked THEN [ended EXCEPT !.hfp.dn = FALSE]
                     ELSE IF down.hfp.cn THEN failed ELSE ended
           left   == Cancel(told, HfpIds)
           r      == HfpEnterDisconnected(w, reason)
<1>1. /\ Good(down) /\ down.hfp.cn = w.hfp.cn /\ down.hfp.dn = w.hfp.dn
      /\ down.slc = w.slc /\ down.pm = w.pm /\ (down.connected => w.connected)
      /\ Heard(down) = Heard(w)
  BY HfpSetStateIs DEF HfpStates
<1>2. r = [left EXCEPT !.hfp.state = "NONE"]
  BY DEF HfpEnterDisconnected, HfpIds
<1>3. failed = IF down.hfp.cn THEN [next EXCEPT !.hfp.cn = FALSE] ELSE down
  BY DEF ConfirmConnect, GenericConnectCfm
<1> HIDE DEF down, failed, r
<1>4. Single(w.pm)
  BY DEF Requested
<1>5. /\ Good(next) /\ Apart(next, down)
      /\ next.pm = IF "connect" \in w.pm.order THEN NoRequest ELSE w.pm
  BY <1>1, <1>4, NextOnIndicationIs DEF Types
<1> HIDE DEF next
<1>6. /\ Good(failed) /\ failed.slc = w.slc /\ Heard(failed) = Heard(w)
      /\ ~failed.hfp.cn /\ failed.hfp.dn = w.hfp.dn /\ (failed.connected => w.connected)
      /\ failed.pm = IF "connect" \in w.pm.order THEN NoRequest ELSE w.pm
  <2>1. CASE w.hfp.cn
    <3>1. failed = [next EXCEPT !.hfp.cn = FALSE]
      BY <1>1, <1>3, <2>1
    <3>2. /\ Good(failed) /\ failed.slc = next.slc /\ failed.connected = next.connected
          /\ failed.pm = next.pm /\ Heard(failed) = Heard(next)
          /\ ~failed.hfp.cn /\ failed.hfp.dn = next.hfp.dn
      BY <1>5, <3>1, ListsAre
    <3> QED
      BY <1>1, <1>5, <3>2 DEF Apart
  <2>2. CASE ~w.hfp.cn
    <3>1. failed = down /\ "connect" \notin w.pm.order
      BY <1>1, <1>3, <2>2 DEF Requested
    <3> QED
      BY <1>1, <2>2, <3>1
  <2> QED
    BY <2>1, <2>2
<1>7. Single(failed.pm)
  BY <1>4, <1>6, NoRequestIs
<1>8. /\ Good(ended) /\ ~ended.connected /\ Apart(ended, failed)
      /\ ended.pm = IF "disconnect" \in failed.pm.order THEN NoRequest ELSE failed.pm
  BY <1>6, <1>7, DisconnectedIndIs
<1> HIDE DEF ended
<1>9. /\ Good(told) /\ told.slc = w.slc /\ Heard(told) = Heard(w) /\ ~told.hfp.cn /\ ~told.connected
      /\ told.pm.order = {} /\ Single(told.pm)
  <2>1. "disconnect" \in w.pm.order => asked \/ ~w.hfp.cn
    <3>1. "disconnect" \in w.pm.order => w.hfp.state \in {"DISCONNECTING", "CONNECTED"}
      BY DEF Requested, Disconnects
    <3> QED
      BY <1>6, <3>1
  <2>2. /\ ended.pm.order = {} /\ Single(ended.pm)
    <3>1. w.pm.order \subseteq Types
      BY DEF Good, Worlds, Pms
    <3> QED
      BY <1>6, <1>7, <1>8, <3>1, NoRequestIs DEF Types
  <2>3. /\ ended.slc = w.slc /\ Heard(ended) = Heard(w) /\ ~ended.hfp.cn
    BY <1>6, <1>8 DEF Apart
  <2>4. CASE asked
    <3> DEFINE over == [ended EXCEPT !.hfp.dn = FALSE]
    <3>1. told = over
      BY <2>4
    <3>2. /\ Good(over) /\ over.slc = ended.slc /\ over.connected = ended.connected
          /\ over.pm = ended.pm /\ Heard(over) = Heard(ended) /\ over.hfp.cn = ended.hfp.cn
      BY <1>8, ListsAre
    <3> HIDE DEF over, told
    <3> QED
      BY <1>8, <2>2, <2>3, <3>1, <3>2
  <2>5. CASE ~asked /\ ~w.hfp.cn
    <3>1. told = ended
      BY <1>1, <2>5
    <3> HIDE DEF told
    <3> QED
      BY <1>8, <2>2, <2>3, <3>1
  <2>6. CASE ~asked /\ w.hfp.cn
    <3>1. told = failed
      BY <1>1, <2>6
    <3>2. ~w.connected
      <4>1. w.hfp.state \notin {"CONNECTED", "DISCONNECTING"}
        BY <1>6, <2>6
      <4> QED
        BY <4>1 DEF Marked
    <3>3. w.pm.order \subseteq {"connect"}
      BY <2>1, <2>6 DEF Good, Worlds, Pms, Types
    <3>4. failed.pm.order = {} /\ Single(failed.pm)
      BY <1>6, <1>7, <3>3, NoRequestIs
    <3> HIDE DEF told
    <3> QED
      BY <1>6, <3>1, <3>2, <3>4
  <2> QED
    BY <2>4, <2>5, <2>6
<1> HIDE DEF told
<1>10. /\ left.hfp = told.hfp /\ left.slc = told.slc /\ left.pm = told.pm
       /\ left.connected = told.connected /\ Heard(left) = Heard(told)
       /\ \A id \in HfpIds : ~Asked(left, id)
       /\ Good(left)
  <2>1. HfpIds \cap LibraryIds = {} /\ "DISCONNECT_CFM" \notin HfpIds
    BY DEF HfpIds, LibraryIds
  <2>2. Good(left)
    BY <1>9, <2>1, CancelKeeps
  <2> QED
    BY <1>9, <2>1, <2>2, CancelIsApart DEF Good
<1> HIDE DEF left
<1>11. /\ r.hfp.state = "NONE" /\ r.hfp.cn = left.hfp.cn /\ r.slc = left.slc /\ r.pm = left.pm
       /\ r.connected = left.connected /\ r.queue = left.queue
  BY <1>2, <1>10 DEF Good, Worlds, Hfps
<1>12. Heard(r) = Heard(w) /\ \A id \in HfpIds : ~Asked(r, id)
  BY <1>9, <1>10, <1>11 DEF Heard, Asked
<1>13. Sound(r)
  BY <1>9, <1>10, <1>11, <1>12 DEF Sound, Listed, HfpIds
<1>14. Waits(r)
  BY <1>9, <1>10, <1>11 DEF Waits
<1>15. Requested(r)
  BY <1>9, <1>10, <1>11 DEF Requested
<1> QED
  BY <1>13, <1>14, <1>15 DEF Fit, r

---------------------------------------------------------------------------
(* The handlers of the profile.                                            *)

\* What is left to hear when the first message has been taken
LEMMA FollowsNext ==
  ASSUME NEW h, NEW lib, NEW s, NEW t, Follows(h, lib, s), Len(t) \in Nat, Len(s) = Len(t) + 1,
         \A n \in 1 .. Len(t) : t[n] = s[n + 1]
  PROVE  /\ s[1].id = "SLC_CONNECT_IND" => lib = "REMOTE" /\ h \in Off \cup Opening /\ Len(t) = 0
         /\ s[1].id = "SLC_CONNECT_CFM" =>
              /\ h \in Opening
              /\ s[1].success => Follows("CONNECTED", lib, t)
              /\ ~s[1].success => Follows("NONE", lib, t)
         /\ s[1].id = "SLC_DISCONNECT_IND" => h \in Marked /\ Follows("NONE", lib, t)
<1> DEFINE n == Len(t)
<1>1. n > 0 => t[n] = s[n + 1] /\ t[1] = s[2]
  OBVIOUS
<1>2. Len(s) = n + 1 /\ n \in Nat /\ (n + 1) - 1 = n /\ n + 1 > 0
  OBVIOUS
<1>3. \/ lib = "DOWN" /\ Rests(h, s, n + 1)
      \/ lib = "REMOTE" /\ s[n + 1].id = "SLC_CONNECT_IND" /\ Rests(h, s, n)
      \/ lib = "REMOTE" /\ s[n + 1].id = "SLC_CONNECT_IND" /\ h \in Opening /\ n = 0
      \/ lib = "UP" /\ h \in Opening /\ n = 0 /\ s[1].id = "SLC_CONNECT_CFM" /\ s[1].success
  BY <1>2 DEF Follows
<1> HIDE DEF n
\* What there is before and after, in full
<1>4. \/ lib = "DOWN" /\ h \in Opening /\ n = 0 /\ s[1].id = "SLC_CONNECT_CFM" /\ ~s[1].success
      \/ /\ lib = "DOWN" /\ h \in Opening /\ n = 1 /\ s[1].id = "SLC_CONNECT_CFM" /\ s[1].success
         /\ s[2].id = "SLC_DISCONNECT_IND"
      \/ lib = "DOWN" /\ h \in Marked /\ n = 0 /\ s[1].id = "SLC_DISCONNECT_IND"
      \/ lib = "REMOTE" /\ h \in Off \cup Opening /\ n = 0 /\ s[1].id = "SLC_CONNECT_IND"
      \/ /\ lib = "REMOTE" /\ h \in Opening /\ n = 1 /\ s[1].id = "SLC_CONNECT_CFM" /\ ~s[1].success
         /\ s[2].id = "SLC_CONNECT_IND"
      \/ /\ lib = "REMOTE" /\ h \in Opening /\ n = 2 /\ s[1].id = "SLC_CONNECT_CFM" /\ s[1].success
         /\ s[2].id = "SLC_DISCONNECT_IND" /\ s[3].id = "SLC_CONNECT_IND"
      \/ /\ lib = "REMOTE" /\ h \in Marked /\ n = 1 /\ s[1].id = "SLC_DISCONNECT_IND"
         /\ s[2].id = "SLC_CONNECT_IND"
      \/ lib = "UP" /\ h \in Opening /\ n = 0 /\ s[1].id = "SLC_CONNECT_CFM" /\ s[1].success
  <2>1. CASE lib = "DOWN" /\ Rests(h, s, n + 1)
    BY <1>2, <2>1 DEF Rests
  <2>2. CASE lib = "REMOTE" /\ s[n + 1].id = "SLC_CONNECT_IND" /\ Rests(h, s, n)
    BY <1>2, <2>2 DEF Rests
  <2> QED
    BY <1>3, <2>1, <2>2
<1>5. n > 0 => t[1].id = s[2].id
  BY <1>1
<1>6. n = 2 => t[2].id = s[3].id
  BY <1>1
<1>7. ASSUME s[1].id = "SLC_CONNECT_CFM", s[1].success
      PROVE  Follows("CONNECTED", lib, t)
  <2>1. \/ lib = "DOWN" /\ n = 1 /\ t[1].id = "SLC_DISCONNECT_IND"
        \/ lib = "REMOTE" /\ n = 2 /\ t[1].id = "SLC_DISCONNECT_IND" /\ t[2].id = "SLC_CONNECT_IND"
        \/ lib = "UP" /\ n = 0
    BY <1>4, <1>5, <1>6, <1>7
  <2> QED
    BY <2>1 DEF Follows, Rests, Marked, n
<1>8. ASSUME \/ s[1].id = "SLC_CONNECT_CFM" /\ ~s[1].success
             \/ s[1].id = "SLC_DISCONNECT_IND"
      PROVE  Follows("NONE", lib, t)
  <2>1. \/ lib = "DOWN" /\ n = 0
        \/ lib = "REMOTE" /\ n = 1 /\ t[1].id = "SLC_CONNECT_IND"
    BY <1>4, <1>5, <1>8
  <2> QED
    BY <2>1 DEF Follows, Rests, Off, n
<1> QED
  BY <1>4, <1>7, <1>8 DEF n

LEMMA HfpConnectReqFits ==
  ASSUME NEW w, Good(w), Sound(w), Requested(w),
         w.hfp.cn => w.hfp.state \in Opening \cup {"DISCONNECTING", "DISCONNECTED"}
  PROVE  Fit(HandleHfpConnectReq(w))
<1> DEFINE up    == HfpSetState(w, "CONNECTING_LOCAL")
           s     == IF up.slc = "DOWN" THEN "LOCAL" ELSE up.slc
           begun == [up EXCEPT !.slc = s]
           gone  == HfpEnterDisconnected(w, "connect failed")
           m     == [id |-> "HFP_CONNECT_REQ", again |-> TRUE]
           again == Send(w, m)
           there == ConManagerIsConnected(w)
           r     == HandleHfpConnectReq(w)
<1>1. r = CASE w.hfp.state = "DISCONNECTED" /\ there -> begun
            [] w.hfp.state = "DISCONNECTED" /\ ~there -> gone
            [] w.hfp.state = "DISCONNECTING" -> again
            [] OTHER -> w
  BY DEF HandleHfpConnectReq
<1>2. there \in BOOLEAN
  BY DEF ConManagerIsConnected
<1> HIDE DEF r, there
<1>3. ASSUME w.hfp.state = "DISCONNECTED", there PROVE Fit(r)
  <2>1. /\ Good(up) /\ up.hfp.state = "CONNECTING_LOCAL" /\ up.hfp.cn = w.hfp.cn /\ up.hfp.dn = w.hfp.dn
        /\ up.slc = w.slc /\ up.panic = w.panic /\ up.pm = w.pm /\ (up.connected => w.connected)
        /\ Heard(up) = Heard(w) /\ \A id \in HfpIds : Asked(up, id) <=> Asked(w, id)
    BY HfpSetStateIs DEF HfpStates
  <2>2. r = begun
    BY <1>1, <1>3
  <2> HIDE DEF up
  <2>3. /\ r.hfp = up.hfp /\ r.pm = up.pm /\ r.connected = up.connected
        /\ r.queue = up.queue /\ r.slc = IF w.slc = "DOWN" THEN "LOCAL" ELSE w.slc
    BY <2>1, <2>2 DEF Good, Worlds
  <2>4. Heard(r) = Heard(w) /\ \A id \in HfpIds : Asked(r, id) <=> Asked(w, id)
    BY <2>1, <2>3 DEF Heard, Asked
  <2>5. Follows("CONNECTING_LOCAL", r.slc, Heard(w))
    BY <1>3, <2>3 DEF Sound, Follows, Rests, Off, Opening, Marked
  <2>6. Sound(r)
    BY <1>3, <2>1, <2>3, <2>4, <2>5 DEF Sound, Listed, Off, Marked, HfpIds
  <2>7. Waits(r)
    BY <2>1, <2>3 DEF Waits, Connects, Opening
  <2>8. Requested(r)
    BY <1>3, <2>1, <2>3 DEF Requested, Disconnects
  <2> QED
    BY <2>6, <2>7, <2>8 DEF Fit
<1>4. ASSUME w.hfp.state = "DISCONNECTED", ~there PROVE Fit(r)
  <2>1. r = gone
    BY <1>1, <1>4
  <2>2. Follows("NONE", w.slc, Heard(w)) /\ ~w.connected
    BY <1>4 DEF Sound, Listed, Follows, Rests, Off, Opening, Marked
  <2> QED
    BY <1>4, <2>1, <2>2, HfpEnterDisconnectedFits
<1>5. ASSUME w.hfp.state = "DISCONNECTING" PROVE Fit(r)
  <2>1. r = again
    BY <1>1, <1>5
  <2>2. m \in Messages /\ m.id \notin LibraryIds /\ m.id = "HFP_CONNECT_REQ"
    BY ProfileMessages DEF LibraryIds
  <2> HIDE DEF m
  <2>3. /\ Heard(r) = Heard(w) /\ \A id : Asked(r, id) <=> Asked(w, id) \/ m.id = id
    BY <2>1, <2>2, SendIsBeside DEF Good
  <2>4. /\ r.hfp = w.hfp /\ r.pm = w.pm /\ r.connected = w.connected /\ r.slc = w.slc
    BY <2>1 DEF Send, Good, Worlds
  <2>5. Sound(r)
    BY <2>2, <2>3, <2>4 DEF Sound, Listed
  <2>6. Waits(r)
    BY <1>5, <2>4 DEF Waits, Connects
  <2>7. Requested(r)
    BY <1>5, <2>4 DEF Requested, Disconnects
  <2> QED
    BY <2>5, <2>6, <2>7 DEF Fit
<1>6. ASSUME w.hfp.state \notin {"DISCONNECTED", "DISCONNECTING"} PROVE Fit(r)
  <2>1. r = w
    BY <1>1, <1>6
  <2>2. Waits(w)
    BY <1>6 DEF Waits, Connects
  <2> QED
    BY <2>1, <2>2 DEF Fit
<1> QED
  BY <1>2, <1>3, <1>4, <1>5, <1>6 DEF r

LEMMA HfpDisconnectReqFits ==
  ASSUME NEW w, Good(w), Sound(w), Waits(w), w.hfp.dn, Single(w.pm),
         "connect" \in w.pm.order => w.hfp.cn,
         "disconnect" \in w.pm.order => w.hfp.state \in Marked
  PROVE  Fit(HandleHfpDisconnectReq(w))
<1> DEFINE down == HfpSetState(w, "DISCONNECTING")
           s    == IF down.slc = "UP" THEN "CLOSING" ELSE down.slc
           r    == HandleHfpDisconnectReq(w)
<1>1. CASE w.hfp.state # "CONNECTED"
  <2>1. r = w
    BY <1>1 DEF HandleHfpDisconnectReq
  <2>2. Requested(w)
    BY <1>1 DEF Requested, Disconnects, Marked
  <2> QED
    BY <2>1, <2>2 DEF Fit
<1>2. CASE w.hfp.state = "CONNECTED"
  <2>1. /\ Good(down) /\ down.hfp.state = "DISCONNECTING" /\ down.hfp.cn = w.hfp.cn
        /\ down.hfp.dn = w.hfp.dn /\ down.slc = w.slc /\ down.panic = w.panic /\ down.pm = w.pm
        /\ Heard(down) = Heard(w)
    BY HfpSetStateIs DEF HfpStates
  <2>2. r = [down EXCEPT !.slc = s]
    BY <1>2 DEF HandleHfpDisconnectReq, HfpStartDisconnecting
  <2> HIDE DEF down, r
  <2>3. /\ r.hfp = down.hfp /\ r.pm = down.pm
        /\ r.queue = down.queue /\ r.slc = IF w.slc = "UP" THEN "CLOSING" ELSE w.slc
    BY <2>1, <2>2 DEF Good, Worlds
  <2>4. Heard(r) = Heard(w)
    BY <2>1, <2>3 DEF Heard
  <2>5. Follows("DISCONNECTING", r.slc, Heard(w))
    BY <1>2, <2>3 DEF Sound, Follows, Rests, Off, Opening, Marked
  <2>6. Sound(r)
    BY <2>1, <2>3, <2>4, <2>5 DEF Sound, Listed, Off, Marked
  <2>7. Waits(r) /\ Requested(r)
    BY <2>1, <2>3 DEF Waits, Connects, Requested, Disconnects
  <2> QED
    BY <2>6, <2>7 DEF Fit, r
<1> QED
  BY <1>1, <1>2

\* The library speaks: each message is the first of those that are left.
LEMMA SlcConnectIndFits ==
  ASSUME NEW w, Good(w), Listed(w), Waits(w), Requested(w), w.slc = "REMOTE",
         w.hfp.state \in Off \cup Opening, Len(Heard(w)) = 0
  PROVE  Fit(HandleSlcConnectInd(w))
<1> DEFINE r == HandleSlcConnectInd(w)
<1>1. CASE w.hfp.state \notin Off
  <2>1. r = w
    BY <1>1 DEF HandleSlcConnectInd, HfpIsDisconnected, Off
  <2>2. Follows(w.hfp.state, w.slc, Heard(w))
    BY <1>1 DEF Follows
  <2> QED
    BY <2>1, <2>2 DEF Fit, Sound
<1>2. CASE w.hfp.state \in Off
  <2>1. r = HfpSetState(w, "CONNECTING_REMOTE")
    BY <1>2 DEF HandleSlcConnectInd, HfpIsDisconnected, Off
  <2> HIDE DEF r
  <2>2. /\ Good(r) /\ r.hfp.state = "CONNECTING_REMOTE" /\ r.hfp.cn = w.hfp.cn /\ r.hfp.dn = w.hfp.dn
        /\ r.slc = w.slc /\ r.panic = w.panic /\ r.pm = w.pm /\ (r.connected => w.connected)
        /\ Heard(r) = Heard(w) /\ \A id \in HfpIds : Asked(r, id) <=> Asked(w, id)
    BY <2>1, HfpSetStateIs DEF HfpStates
  <2>3. Follows("CONNECTING_REMOTE", "REMOTE", Heard(w))
    BY DEF Follows, Opening
  <2>4. Sound(r)
    BY <1>2, <2>2, <2>3 DEF Sound, Listed, Off, Marked, HfpIds
  <2>5. Waits(r) /\ Requested(r)
    BY <1>2, <2>2 DEF Waits, Connects, Requested, Disconnects, Opening, Off
  <2> QED
    BY <2>4, <2>5 DEF Fit, r
<1> QED
  BY <1>1, <1>2

LEMMA SlcConnectCfmFits ==
  ASSUME NEW w, Good(w), Listed(w), Requested(w), NEW success \in BOOLEAN,
         w.hfp.state \in Opening,
         success => Follows("CONNECTED", w.slc, Heard(w)),
         ~success => Follows("NONE", w.slc, Heard(w))
  PROVE  Fit(HandleSlcConnectCfm(w, success))
<1> DEFINE up == HfpEnterConnected(w)
           gone == HfpEnterDisconnected(w, "connect failed")
<1>1. /\ success => HandleSlcConnectCfm(w, success) = up
      /\ ~success => HandleSlcConnectCfm(w, success) = gone
  BY DEF HandleSlcConnectCfm, HfpIsConnecting, Opening
<1>2. success => Fit(up)
  BY HfpEnterConnectedFits
<1>3. ~success => Fit(gone)
  <2>1. ~w.connected /\ w.hfp.state \notin {"CONNECTED", "DISCONNECTING"}
    BY DEF Listed, Opening, Marked
  <2> QED
    BY <2>1, HfpEnterDisconnectedFits
<1> HIDE DEF up, gone
<1> QED
  BY <1>1, <1>2, <1>3

LEMMA SlcDisconnectIndFits ==
  ASSUME NEW w, Good(w), Listed(w), Waits(w), Requested(w), NEW loss \in BOOLEAN,
         w.hfp.state \in Marked, Follows("NONE", w.slc, Heard(w))
  PROVE  Fit(HandleSlcDisconnectInd(w, loss))
<1> DEFINE reason == IF loss /\ w.hfp.state \in {"CONNECTING_LOCAL", "CONNECTING_REMOTE", "CONNECTED"}
                       THEN "link loss" ELSE "normal"
<1>1. HandleSlcDisconnectInd(w, loss) = HfpEnterDisconnected(w, reason)
  BY DEF HandleSlcDisconnectInd, Marked
<1>2. w.hfp.state = "DISCONNECTING" => w.hfp.dn /\ reason = "normal"
  BY DEF Listed
<1>3. w.hfp.cn => w.hfp.state # "CONNECTED"
  BY DEF Waits, Connects, Opening
<1> HIDE DEF reason
<1> QED
  BY <1>1, <1>2, <1>3, HfpEnterDisconnectedFits

---------------------------------------------------------------------------
(* What the handset service does beside the profile.                       *)

\* A world in which all is well, and the next one
Fine(w) == Good(w) /\ Fit(w) /\ ~w.panic

LEMMA FineIs ==
  ASSUME NEW w, Fine(w), NEW r, Beside(r, w)
  PROVE  Fit(r) /\ (Good(r) => Fine(r))
BY BesideKeeps DEF Fine, Beside, Apart

LEMMA HsBeside ==
  ASSUME NEW w \in Worlds, NEW x, NEW y
  PROVE  /\ Beside([w EXCEPT !.hs.state = x], w)
         /\ Beside([w EXCEPT !.hs.wants = x], w)
         /\ Beside([w EXCEPT !.hs.connects = x], w)
         /\ Beside([w EXCEPT !.hs.disconnects = x], w)
         /\ Beside([w EXCEPT !.hs.stop = x], w)
         /\ Beside([w EXCEPT !.hs.attempts = x], w)
         /\ Beside([w EXCEPT !.hs.le = x], w)
         /\ Beside([w EXCEPT !.hs.state = x, !.hs.created = y], w)
         /\ Beside([w EXCEPT !.hs.created = x, !.hs.attempts = y], w)
<1>1. ASSUME NEW h PROVE Beside([w EXCEPT !.hs = h], w)
  <2> DEFINE r == [w EXCEPT !.hs = h]
  <2>1. /\ r.queue = w.queue /\ r.hfp = w.hfp /\ r.slc = w.slc /\ r.panic = w.panic
        /\ r.connected = w.connected /\ r.pm = w.pm
    BY DEF Worlds
  <2> HIDE DEF r
  <2>2. Beside(r, w)
    BY <2>1, SameQueueIsBeside
  <2> QED
    BY <2>2 DEF r
<1>2. /\ Beside([w EXCEPT !.hs.state = x], w) /\ Beside([w EXCEPT !.hs.wants = x], w)
      /\ Beside([w EXCEPT !.hs.connects = x], w)
  BY <1>1
<1>3. /\ Beside([w EXCEPT !.hs.disconnects = x], w)
      /\ Beside([w EXCEPT !.hs.stop = x], w) /\ Beside([w EXCEPT !.hs.attempts = x], w)
  BY <1>1
<1>4. Beside([w EXCEPT !.hs.le = x], w)
  BY <1>1
<1>5. [w EXCEPT !.hs.state = x, !.hs.created = y]
        = [w EXCEPT !.hs = [w.hs EXCEPT !.state = x, !.created = y]]
  BY DEF Worlds
<1>6. [w EXCEPT !.hs.created = x, !.hs.attempts = y]
        = [w EXCEPT !.hs = [w.hs EXCEPT !.created = x, !.attempts = y]]
  BY DEF Worlds
<1> QED
  BY <1>1, <1>2, <1>3, <1>4, <1>5, <1>6

\* The answers leave the profile alone, too.
LEMMA AnsweredBeside ==
  ASSUME NEW w \in Worlds, NEW had, NEW what
  PROVE  Beside(Answered(w, had, what), w)
<1> DEFINE u == IF had THEN w.waiting \ {what} ELSE w.waiting
           r == Answered(w, had, what)
<1>1. r = [w EXCEPT !.waiting = u]
  BY DEF Answered
<1> HIDE DEF u, r
<1>2. /\ r.queue = w.queue /\ r.hfp = w.hfp /\ r.slc = w.slc /\ r.panic = w.panic
      /\ r.connected = w.connected /\ r.pm = w.pm
  BY <1>1 DEF Worlds
<1>3. Beside(r, w)
  BY <1>2, SameQueueIsBeside
<1> QED
  BY <1>3 DEF r

LEMMA CompleteConnectBeside ==
  ASSUME NEW w \in Worlds
  PROVE  Beside(CompleteConnectRequests(w), w)
<1> DEFINE u == IF w.hs.connects THEN w.waiting \ {"connect"} ELSE w.waiting
           h == [w.hs EXCEPT !.connects = FALSE]
           a == [w EXCEPT !.waiting = u, !.hs = h]
           ids == {"CONNECT_REQ", "CONNECT_ACL_RETRY_REQ"}
           r == Cancel(a, ids)
<1>1. CompleteConnectRequests(w) = r
  <2>1. [Answered(w, w.hs.connects, "connect") EXCEPT !.hs.connects = FALSE] = a
    BY DEF Answered, Worlds
  <2> HIDE DEF a
  <2> QED
    BY <2>1 DEF CompleteConnectRequests
<1>2. u \in SUBSET Users /\ h \in Hss
  BY DEF Worlds, Hss
<1>3. ids \cap LibraryIds = {} /\ ids \cap HfpIds = {}
  BY DEF LibraryIds, HfpIds
<1> HIDE DEF u, h, ids
<1>4. /\ a \in Worlds /\ a.queue = w.queue /\ a.hfp = w.hfp /\ a.slc = w.slc /\ a.panic = w.panic
      /\ a.connected = w.connected /\ a.pm = w.pm
  BY <1>2 DEF Worlds
<1> HIDE DEF a
<1>5. Beside(a, w)
  BY <1>4, SameQueueIsBeside
<1>6. Beside(r, a)
  BY <1>3, <1>4, CancelIsApart
<1> QED
  BY <1>1, <1>5, <1>6, Again

LEMMA CompleteStopBeside ==
  ASSUME NEW w, Good(w)
  PROVE  Beside(CompleteConnectStopRequests(w), w)
<1> DEFINE a == Answered(w, w.hs.stop, "stop")
           r == [a EXCEPT !.hs.stop = FALSE]
<1>1. w.hs.stop \in BOOLEAN /\ w \in Worlds
  BY DEF Good, Worlds, Hss
<1>2. Good(a) /\ Beside(a, w)
  BY <1>1, AnsweredKeeps, AnsweredBeside
<1>3. CompleteConnectStopRequests(w) = r
  BY DEF CompleteConnectStopRequests
<1> HIDE DEF a
<1>4. Beside(r, a)
  BY <1>2, HsBeside DEF Good
<1> QED
  BY <1>2, <1>3, <1>4, Again

LEMMA CompleteDisconnectBeside ==
  ASSUME NEW w, Good(w), NEW success \in BOOLEAN
  PROVE  Beside(CompleteDisconnectRequests(w, success), w)
<1> DEFINE h == [w.hs EXCEPT !.disconnects = FALSE]
           a == [w EXCEPT !.hs = h]
           m == [id |-> "DISCONNECT_CFM", success |-> success]
           s == IF w.hs.disconnects THEN Send(a, m) ELSE w
           ids == {"DISCONNECT_REQ"}
           r == Cancel(s, ids)
<1>0. w \in Worlds /\ w.hs \in Hss
  BY DEF Good, Worlds
<1>1. CompleteDisconnectRequests(w, success) = r
  BY DEF CompleteDisconnectRequests
<1>2. m \in Messages /\ m.id \notin LibraryIds /\ m.id \notin HfpIds
  BY DEF Messages, LibraryIds, HfpIds
<1>3. h \in Hss
  BY <1>0 DEF Hss
<1>4. Beside(a, w)
  BY <1>0, HsBeside
<1> HIDE DEF h
<1>5. a \in Worlds
  BY <1>0, <1>3 DEF Worlds
<1> HIDE DEF a, m
<1>6. Send(a, m) \in Worlds /\ Beside(Send(a, m), a)
  BY <1>2, <1>5, SendIs, SendIsBeside
<1>7. s \in Worlds /\ Beside(s, w)
  BY <1>0, <1>4, <1>6, Again, Alone
<1>8. ids \cap LibraryIds = {} /\ ids \cap HfpIds = {}
  BY DEF LibraryIds, HfpIds
<1> HIDE DEF s, ids
<1>9. Beside(r, s)
  BY <1>7, <1>8, CancelIsApart
<1> QED
  BY <1>1, <1>7, <1>9, Again

LEMMA DeInitBeside ==
  ASSUME NEW w, Good(w)
  PROVE  Beside(DeInit(w), w)
<1> DEFINE c == Cancel(w, SmMessages)
           r == [c EXCEPT !.hs = NoHandset]
<1>1. SmMessages \cap LibraryIds = {} /\ SmMessages \cap HfpIds = {} /\ "DISCONNECT_CFM" \notin SmMessages
  BY DEF SmMessages, LibraryIds, HfpIds
<1>2. Good(c) /\ Beside(c, w)
  BY <1>1, CancelKeeps, CancelBeside
<1>3. DeInit(w) = r
  BY DEF DeInit
<1> HIDE DEF c
<1>4. Beside(r, c)
  BY <1>2, RecordsAreBeside
<1> QED
  BY <1>2, <1>3, <1>4, Again

LEMMA FindOrCreateBeside ==
  ASSUME NEW w, Good(w)
  PROVE  Beside(FindOrCreate(w), w)
BY HsBeside, Alone DEF FindOrCreate, Good

LEMMA BleDisconnectBeside ==
  ASSUME NEW w, Good(w)
  PROVE  Beside(BleDisconnectIfConnected(w), w)
<1> DEFINE v == IF w.hs.le = "CONNECTED" THEN ReleaseTpAcl(w) ELSE w
           r == [v EXCEPT !.hs.le = "DISCONNECTING"]
<1>1. Good(v) /\ Beside(v, w)
  BY ReleaseTpAclKeeps, ReleaseTpAclBeside, Alone
<1>2. BleDisconnectIfConnected(w) \in {w, r}
  BY DEF BleDisconnectIfConnected
<1> HIDE DEF v
<1>3. Beside(r, v)
  BY <1>1, HsBeside DEF Good
<1>4. Beside(r, w)
  BY <1>1, <1>3, Again
<1> QED
  BY <1>2, <1>4, Alone

LEMMA ExitStateBeside ==
  ASSUME NEW w, Good(w), NEW state
  PROVE  Beside(ExitState(w, state), w)
<1> DEFINE ids  == {"CONNECT_ACL_RETRY_REQ"}
           acl  == Cancel(w, ids)
           free == [acl EXCEPT !.hs.attempts = 0]
           both == w.hs.state = "DISCONNECTING" /\ state = "DISCONNECTED"
           p1   == CancelFirst(w, "CONNECT_PROFILES_REQ")
           p2   == CancelFirst(w, "CONNECT_STOP_REQ")
           p3   == BleDisconnectIfConnected(w)
<1>1. Beside(free, w)
  <2>1. Good(acl) /\ Beside(acl, w)
    <3>1. "DISCONNECT_CFM" \notin ids /\ ids \cap LibraryIds = {} /\ ids \cap HfpIds = {}
      BY DEF LibraryIds, HfpIds
    <3> HIDE DEF ids
    <3> QED
      BY <3>1, CancelKeeps, CancelBeside
  <2> HIDE DEF acl
  <2>2. Beside(free, acl)
    BY <2>1, HsBeside DEF Good
  <2> QED
    BY <2>1, <2>2, Again
<1>2. ExitState(w, state) =
        CASE both -> BleDisconnectIfConnected(w)
          [] w.hs.state = "CONNECTING_ACL" -> free
          [] w.hs.state = "CONNECTING_PROFILES" -> CancelFirst(w, "CONNECT_PROFILES_REQ")
          [] w.hs.state = "STOP_CONNECTING_PROFILES" -> CancelFirst(w, "CONNECT_STOP_REQ")
          [] OTHER -> w
  BY DEF ExitState
<1>3. Beside(p1, w) /\ Beside(p2, w) /\ Beside(p3, w)
  BY CancelFirstIsBeside, BleDisconnectBeside DEF Timers
<1> HIDE DEF free, both, p1, p2, p3
<1>4. ExitState(w, state) \in {p3, free, p1, p2, w}
  BY <1>2 DEF p1, p2, p3
<1> QED
  BY <1>1, <1>3, <1>4, Alone

LEMMA LeaveBeside ==
  ASSUME NEW w, Good(w), NEW state \in HsStates
  PROVE  Good(Leave(w, state)) /\ Beside(Leave(w, state), w)
<1> DEFINE x == ExitState(w, state)
           y == ExitConnecting(x, state)
           b == y.hs.created /\ ~(w.hs.state \notin Connecting /\ state \in Connecting)
           r == [y EXCEPT !.hs.state = state, !.hs.created = b]
<1>1. Good(x) /\ Beside(x, w)
  BY ExitStateKeeps, ExitStateBeside
<1> HIDE DEF x
<1>2. Good(y) /\ Beside(y, x)
  BY <1>1, ReleaseAclKeeps, ReleaseAclBeside, Alone DEF ExitConnecting
<1> HIDE DEF y
<1>3. Leave(w, state) = r
  BY <1>2 DEF Leave, x, y, Good, Worlds, Hss
<1> HIDE DEF b
<1>4. Beside(r, y)
  BY <1>2, HsBeside DEF Good
<1> HIDE DEF r
<1>5. Beside(r, w)
  BY <1>1, <1>2, <1>4, Again
<1> QED
  BY <1>3, <1>5, LeaveKeeps

LEMMA EnterBeside ==
  ASSUME NEW w, Good(w)
  PROVE  Beside(EnterDisconnected(w), w) /\ Beside(EnterConnected(w), w)
<1> DEFINE s == CompleteConnectStopRequests(w)
           c == CompleteConnectRequests(s)
           d == CompleteDisconnectRequests(c, TRUE)
           f == CompleteDisconnectRequests(c, FALSE)
<1>1. Good(s) /\ Beside(s, w)
  BY CompleteConnectStopRequestsKeeps, CompleteStopBeside
<1> HIDE DEF s
<1>2. Good(c) /\ Beside(c, s)
  BY <1>1, CompleteConnectRequestsKeeps, CompleteConnectBeside DEF Good
<1> HIDE DEF c
<1>3. Good(d) /\ Beside(d, c) /\ Beside(f, c)
  BY <1>2, CompleteDisconnectRequestsIs, CompleteDisconnectBeside
<1> HIDE DEF d, f
<1>4. Beside(DeInit(d), d)
  BY <1>3, DeInitBeside
<1>5. EnterDisconnected(w) \in {DeInit(d), c}
  BY DEF EnterDisconnected, d, c, s
<1>6. EnterConnected(w) = f
  BY DEF EnterConnected, f, c, s
<1>7. Beside(c, w)
  BY <1>1, <1>2, Again
<1>8. Beside(f, w) /\ Beside(d, w)
  BY <1>3, <1>7, Again
<1>9. Beside(DeInit(d), w)
  BY <1>4, <1>8, Again
<1> QED
  BY <1>5, <1>6, <1>7, <1>8, <1>9

\* A state that is entered again stops the program, as it is.
LEMMA SettleFits ==
  ASSUME NEW w, Good(w), Fit(w), NEW state \in {"CONNECTED", "DISCONNECTED"}
  PROVE  Fit(Settle(w, state))
<1> DEFINE l == Leave(w, state)
           c == EnterConnected(l)
           d == EnterDisconnected(l)
<1>1. state \in HsStates
  BY DEF HsStates
<1>2. Good(l) /\ Beside(l, w)
  BY <1>1, LeaveBeside
<1>3. Settle(w, state) \in {Panic(w), c, d}
  BY DEF Settle
<1> HIDE DEF l
<1>4. Beside(c, l) /\ Beside(d, l)
  BY <1>2, EnterBeside
<1> HIDE DEF c, d
<1>5. Fit(c) /\ Fit(d)
  <2>1. Fit(l)
    BY <1>2, BesideKeeps
  <2> QED
    BY <1>4, <2>1, BesideKeeps
<1>6. Fit(Panic(w))
  BY PanicIs
<1> QED
  BY <1>3, <1>5, <1>6

LEMMA ConnectAclBeside ==
  ASSUME NEW w, Good(w)
  PROVE  Beside(ConnectAcl(w), w)
<1> DEFINE n == w.hs.attempts + 1
           a == [w EXCEPT !.hs.created = TRUE, !.hs.attempts = n]
           c == CreateAcl(a)
           r == Send(c, [id |-> "CONNECT_ACL_COMPLETE"])
<1>1. n \in Nat
  BY DEF Good, Worlds, Hss
<1>2. ConnectAcl(w) = r
  <2>1. [w EXCEPT !.hs.created = TRUE, !.hs.attempts = @ + 1] = a
    BY DEF Good, Worlds, Hss
  <2> HIDE DEF a
  <2> QED
    BY <2>1 DEF ConnectAcl
<1> HIDE DEF n
<1>3. Good(a) /\ Beside(a, w)
  BY <1>1, HsAttemptsKeep, HsBeside DEF Good
<1> HIDE DEF a
<1>4. Good(c) /\ Beside(c, a)
  BY <1>3, CreateAclKeeps, CreateAclBeside
<1> HIDE DEF c
<1>5. Beside(r, c)
  BY <1>4, SendOtherBeside, OthersAre
<1> HIDE DEF r
<1>6. Beside(r, w)
  BY <1>3, <1>4, <1>5, Again
<1> QED
  BY <1>2, <1>6

LEMMA BeginAclBeside ==
  ASSUME NEW w, Good(w)
  PROVE  Beside(BeginAcl(w), w)
<1> DEFINE l == Leave(w, "CONNECTING_ACL")
<1>1. Good(l) /\ Beside(l, w)
  BY LeaveBeside, StatesAre
<1>2. BeginAcl(w) = ConnectAcl(l)
  BY DEF BeginAcl
<1> HIDE DEF l
<1> QED
  BY <1>1, <1>2, ConnectAclBeside, Again

LEMMA RestartBeside ==
  ASSUME NEW w, Good(w)
  PROVE  Beside(RestartProfileTimeout(w), w)
<1> DEFINE c == CancelFirst(w, "CONNECT_PROFILES_REQ")
           l == SendLater(c, "CONNECT_PROFILES_REQ")
<1>1. Good(c) /\ Beside(c, w)
  BY CancelFirstKeeps, CancelFirstIsBeside, ServiceMessages
<1>2. RestartProfileTimeout(w) \in {l, w}
  BY DEF RestartProfileTimeout
<1> HIDE DEF c
<1>3. Beside(l, c)
  BY <1>1, SendLaterBeside
<1> HIDE DEF l
<1> QED
  BY <1>1, <1>2, <1>3, Again, Alone

---------------------------------------------------------------------------
(* The handset service: its handlers, and what they ask of the profiles.   *)

LEMMA HsFine ==
  ASSUME NEW w, Fine(w), NEW b \in BOOLEAN, NEW state \in HsStates
  PROVE  /\ Fine([w EXCEPT !.hs.wants = b]) /\ Fine([w EXCEPT !.hs.stop = b])
         /\ Fine([w EXCEPT !.hs.connects = b]) /\ Fine([w EXCEPT !.hs.state = state])
         /\ Fine([w EXCEPT !.connected = FALSE])
<1> DEFINE r1 == [w EXCEPT !.hs.wants = b]
           r2 == [w EXCEPT !.hs.stop = b]
           r3 == [w EXCEPT !.hs.connects = b]
           r4 == [w EXCEPT !.hs.state = state]
           r5 == [w EXCEPT !.connected = FALSE]
<1>1. Good(w) /\ w \in Worlds
  BY DEF Fine, Good
<1>2. Good(r1) /\ Good(r2) /\ Good(r3) /\ Good(r4) /\ Good(r5)
  BY <1>1, HsFlagsKeep, HsStateKeeps, MarkKeeps
<1>3. Beside(r1, w) /\ Beside(r2, w) /\ Beside(r3, w) /\ Beside(r4, w) /\ Beside(r5, w)
  BY <1>1, HsBeside, RecordsAreBeside
<1> HIDE DEF r1, r2, r3, r4, r5
<1>4. Fine(r1) /\ Fine(r2) /\ Fine(r3) /\ Fine(r4) /\ Fine(r5)
  BY <1>2, <1>3, FineIs
<1> QED
  BY <1>4 DEF r1, r2, r3, r4, r5

LEMMA ConnectProfilesFits ==
  ASSUME NEW w, Fine(w)
  PROVE  Fit(ConnectRequestedProfiles(w))
<1>1. "connect" \in Types
  BY DEF Types
<1>2. Fit(Settle(w, "CONNECTED")) /\ Fit(ProfilesRequest(w, "connect"))
  BY <1>1, SettleFits, ProfilesRequestFits DEF Fine
<1> QED
  BY <1>2 DEF ConnectRequestedProfiles

LEMMA BeginProfilesFits ==
  ASSUME NEW w, Fine(w)
  PROVE  Fit(BeginProfiles(w))
<1> DEFINE l   == Leave(w, "CONNECTING_PROFILES")
           b   == l.hs.wants /\ ~w.connected
           in  == [l EXCEPT !.hs.wants = b]
           c   == in.hs.wants \/ ~w.connected
           due == [in EXCEPT !.hs.wants = c]
           s   == SendLater(due, "CONNECT_PROFILES_REQ")
<1>1. Fine(l)
  BY LeaveBeside, StatesAre, FineIs DEF Fine
<1>2. BeginProfiles(w) \in {ConnectRequestedProfiles(in), s}
  <2>1. [l EXCEPT !.hs.wants = @ /\ ~w.connected] = in
    OBVIOUS
  <2>2. [in EXCEPT !.hs.wants = @ \/ ~w.connected] = due
    OBVIOUS
  <2> HIDE DEF in, due
  <2> QED
    BY <2>1, <2>2 DEF BeginProfiles
<1>3. b \in BOOLEAN
  <2>1. l.hs.wants \in BOOLEAN /\ w.connected \in BOOLEAN
    BY <1>1 DEF Fine, Good, Worlds, Hss
  <2> HIDE DEF l
  <2> QED
    BY <2>1
<1>0. "DISCONNECTED" \in HsStates
  BY StatesAre
<1> HIDE DEF l, b
<1>4. Fine(in)
  BY <1>0, <1>1, <1>3, HsFine
<1>5. c \in BOOLEAN
  <2>1. in.hs.wants \in BOOLEAN /\ w.connected \in BOOLEAN
    BY <1>4 DEF Fine, Good, Worlds, Hss
  <2> HIDE DEF in
  <2> QED
    BY <2>1
<1> HIDE DEF in, c
<1>6. Fine(due)
  BY <1>0, <1>4, <1>5, HsFine
<1> HIDE DEF due
<1>7. Beside(s, due)
  BY <1>6, SendLaterBeside DEF Fine
<1>8. Fit(s)
  BY <1>6, <1>7, FineIs
<1> HIDE DEF s
<1> QED
  BY <1>2, <1>4, <1>8, ConnectProfilesFits

LEMMA StopProfilesFits ==
  ASSUME NEW w, Fine(w)
  PROVE  Fit(StopProfiles(w))
<1> DEFINE in == Leave(w, "STOP_CONNECTING_PROFILES")
<1>1. Fine(in)
  BY LeaveBeside, StatesAre, FineIs DEF Fine
<1>2. \/ CanStopRequest(in) /\ StopProfiles(w) = StopRequest(in)
      \/ StopProfiles(w) \in {Settle(in, "CONNECTED"), Settle(in, "DISCONNECTED")}
  BY DEF StopProfiles
<1> HIDE DEF in
<1> QED
  BY <1>1, <1>2, StopRequestFits, SettleFits DEF Fine

LEMMA TryDisconnectingFits ==
  ASSUME NEW w, Fine(w)
  PROVE  Fit(TryDisconnecting(w))
<1> DEFINE p == ProfilesRequest(w, "disconnect")
           d == [p EXCEPT !.hs.wants = FALSE]
           c == SendCloseAcl(w, TRUE)
<1>1. "disconnect" \in Types /\ Good(w)
  BY DEF Types, Fine
<1>2. Good(p) /\ Fit(p)
  BY <1>1, ProfilesRequestKeeps, ProfilesRequestFits DEF Fine
<1>3. TryDisconnecting(w) \in {d, c, Settle(w, "DISCONNECTED")}
  BY DEF TryDisconnecting
<1> HIDE DEF p
<1>4. Beside(d, p)
  BY <1>2, HsBeside DEF Good
<1>5. Fit(d) /\ Fit(c)
  BY <1>1, <1>2, <1>4, SendCloseAclBeside, BesideKeeps DEF Fine
<1>6. Fit(Settle(w, "DISCONNECTED"))
  BY SettleFits DEF Fine
<1> QED
  BY <1>3, <1>5, <1>6

LEMMA BeginDisconnectingFits ==
  ASSUME NEW w, Fine(w)
  PROVE  Fit(BeginDisconnecting(w))
<1> DEFINE l == Leave(w, "DISCONNECTING")
<1>1. Fine(l)
  BY LeaveBeside, StatesAre, FineIs DEF Fine
<1>2. BeginDisconnecting(w) = TryDisconnecting(l)
  BY DEF BeginDisconnecting
<1> HIDE DEF l
<1> QED
  BY <1>1, <1>2, TryDisconnectingFits

LEMMA ConnectReqFits ==
  ASSUME NEW w, Fine(w), NEW wants \in BOOLEAN
  PROVE  Fit(HandleConnectReq(w, wants))
<1> DEFINE new == [w EXCEPT !.hs.wants = wants]
           set == [w EXCEPT !.hs.wants = TRUE]
<1>0. "DISCONNECTED" \in HsStates /\ TRUE \in BOOLEAN
  BY StatesAre
<1>1. Fine(new) /\ Fine(set)
  BY <1>0, HsFine
<1>2. HandleConnectReq(w, wants) \in
        {BeginAcl(new), BeginProfiles(new), Settle(new, "CONNECTED"), BeginProfiles(set),
         CompleteConnectRequests(w), w}
  BY DEF HandleConnectReq
<1> HIDE DEF new, set
<1>3. Fit(BeginAcl(new)) /\ Fit(BeginProfiles(new)) /\ Fit(BeginProfiles(set))
  BY <1>1, BeginAclBeside, BeginProfilesFits, BesideKeeps DEF Fine
<1>4. Fit(Settle(new, "CONNECTED")) /\ Fit(CompleteConnectRequests(w))
  BY <1>1, SettleFits, CompleteConnectBeside, BesideKeeps DEF Fine, Good
<1> QED
  BY <1>2, <1>3, <1>4 DEF Fine

LEMMA DisconnectReqFits ==
  ASSUME NEW w, Fine(w)
  PROVE  Fit(HandleDisconnectReq(w))
<1> DEFINE d == CompleteDisconnectRequests(w, TRUE)
           s == Settle(w, "DISCONNECTED")
           b == BeginDisconnecting(w)
           v == DisconnectBredr(w)
           r == BleDisconnectIfConnected(v)
<1>0. Good(w) /\ TRUE \in BOOLEAN
  BY DEF Fine
<1>1. Good(d) /\ Good(s) /\ Good(b)
  BY <1>0, CompleteDisconnectRequestsIs, SettleKeeps, BeginDisconnectingKeeps
<1>2. Fit(d) /\ Fit(s) /\ Fit(b)
  BY <1>0, CompleteDisconnectBeside, SettleFits, BeginDisconnectingFits, BesideKeeps DEF Fine
<1> HIDE DEF d, s, b
<1>3. v \in {w, d, s, b}
  BY DEF DisconnectBredr, d, s, b
<1>4. Good(v) /\ Fit(v)
  BY <1>1, <1>2, <1>3 DEF Fine
<1>5. HandleDisconnectReq(w) = r
  BY DEF HandleDisconnectReq
<1> HIDE DEF v
<1> QED
  BY <1>4, <1>5, BleDisconnectBeside, BesideKeeps

LEMMA AclCompleteFits ==
  ASSUME NEW w, Fine(w)
  PROVE  Fit(HandleConnectAclComplete(w))
<1> DEFINE c == [w EXCEPT !.connected = FALSE]
           l == SendLater(w, "CONNECT_ACL_RETRY_REQ")
<1>0. "DISCONNECTED" \in HsStates /\ TRUE \in BOOLEAN
  BY StatesAre
<1>1. Fine(c) /\ Fit(l)
  BY <1>0, HsFine, SendLaterBeside, BesideKeeps DEF Fine
<1>2. HandleConnectAclComplete(w) \in
        {w, BeginProfiles(c), Settle(w, "CONNECTED"), l, Settle(w, "DISCONNECTED")}
  BY DEF HandleConnectAclComplete
<1> HIDE DEF c, l
<1>3. Fit(Settle(w, "CONNECTED")) /\ Fit(Settle(w, "DISCONNECTED"))
  BY SettleFits DEF Fine
<1> QED
  BY <1>1, <1>2, <1>3, BeginProfilesFits DEF Fine

LEMMA ConnectStopFits ==
  ASSUME NEW w, Fine(w)
  PROVE  Fit(HandleConnectStop(w))
<1>1. HandleConnectStop(w) \in {Settle(w, "DISCONNECTED"), StopProfiles(w),
                                CompleteConnectStopRequests(w), w}
  BY DEF HandleConnectStop
<1>2. Fit(CompleteConnectStopRequests(w))
  BY CompleteStopBeside, BesideKeeps DEF Fine
<1> QED
  BY <1>1, <1>2, SettleFits, StopProfilesFits DEF Fine

LEMMA RetriesFit ==
  ASSUME NEW w, Fine(w)
  PROVE  Fit(HandleConnectAclRetry(w)) /\ Fit(HandleConnectProfilesReq(w))
<1>1. Fit(ConnectAcl(w)) /\ Fit(ConnectRequestedProfiles(w)) /\ Fit(w)
  BY ConnectAclBeside, ConnectProfilesFits, BesideKeeps DEF Fine
<1> QED
  BY <1>1 DEF HandleConnectAclRetry, HandleConnectProfilesReq

LEMMA ProfilesCfmsFit ==
  ASSUME NEW w, Fine(w), NEW result \in Results
  PROVE  Fit(HandleProfilesConnectCfm(w, result)) /\ Fit(HandleProfilesDisconnectCfm(w, result))
<1> DEFINE up   == Settle(w, "CONNECTED")
           down == Settle(w, "DISCONNECTED")
           gone == result # "success" /\ BredrDisconnected(w)
           open == w.hs.state \in {"STOP_CONNECTING_PROFILES", "CONNECTING_PROFILES"}
           shut == w.hs.state = "DISCONNECTING" /\ BredrDisconnected(w)
           next == CASE open -> Settle(w, IF gone THEN "DISCONNECTED" ELSE "CONNECTED")
                     [] shut -> down
                     [] OTHER -> w
           told == [next EXCEPT !.hs.wants = FALSE]
<1>1. Good(up) /\ Good(down) /\ Fit(up) /\ Fit(down)
  BY SettleKeeps, SettleFits DEF Fine
<1>2. Settle(w, IF gone THEN "DISCONNECTED" ELSE "CONNECTED") \in {up, down}
  BY Zenon
<1>3. next \in {up, down, w}
  <2> HIDE DEF open, shut, up, down, gone
  <2> QED
    BY <1>2
<1>4. HandleProfilesConnectCfm(w, result) = told
  BY DEF HandleProfilesConnectCfm
<1> HIDE DEF next, up, down
<1>5. Good(next) /\ Fit(next)
  BY <1>1, <1>3 DEF Fine
<1>6. Beside(told, next)
  BY <1>5, HsBeside DEF Good
<1>7. Fit(HandleProfilesConnectCfm(w, result))
  BY <1>4, <1>5, <1>6, BesideKeeps
<1>8. Fit(HandleProfilesDisconnectCfm(w, result))
  BY TryDisconnectingFits DEF HandleProfilesDisconnectCfm, Fine
<1> QED
  BY <1>7, <1>8

LEMMA FindOrCreateFine ==
  ASSUME NEW w, Fine(w)
  PROVE  Fine(FindOrCreate(w))
BY FindOrCreateKeeps, FindOrCreateBeside, FineIs DEF Fine

LEMMA ProfileIndsFit ==
  ASSUME NEW w, Fine(w)
  PROVE  Fit(HandleConnectedInd(w)) /\ Fit(HandleDisconnectedInd(w))
<1> DEFINE f    == FindOrCreate(w)
           up   == Settle(f, "CONNECTED")
           t    == RestartProfileTimeout(f)
           c    == CancelFirst(f, "CONNECT_PROFILES_REQ")
           l    == SendLater(c, "CONNECT_PROFILES_REQ")
           next == IF AreAllRequestedProfilesConnected(f) THEN up ELSE t
           told == [next EXCEPT !.hs.wants = FALSE]
<1>1. Fine(f)
  BY FindOrCreateFine
<1>2. HandleConnectedInd(w) \in {up, told, f}
  BY DEF HandleConnectedInd
<1> HIDE DEF f
<1>3. Good(up) /\ Fit(up)
  BY <1>1, SettleKeeps, SettleFits DEF Fine
<1>4. Good(t) /\ Fit(t)
  <2>1. t \in {l, f}
    BY DEF RestartProfileTimeout
  <2>2. Good(c)
    BY <1>1, CancelFirstKeeps, ServiceMessages DEF Fine
  <2> HIDE DEF c
  <2>3. Good(l)
    BY <2>2, SendLaterKeeps, ServiceMessages
  <2> HIDE DEF l
  <2> QED
    BY <1>1, <2>1, <2>3, RestartBeside, BesideKeeps DEF Fine
<1> HIDE DEF up, t
<1>5. Good(next) /\ Fit(next)
  BY <1>3, <1>4
<1> HIDE DEF next
<1>6. Fit(told)
  BY <1>5, HsBeside, BesideKeeps DEF Good
<1>7. Fit(HandleConnectedInd(w))
  BY <1>1, <1>2, <1>3, <1>6 DEF Fine
<1>8. Fit(HandleDisconnectedInd(w))
  BY SettleFits DEF HandleDisconnectedInd, Fine
<1> QED
  BY <1>7, <1>8

LEMMA BredrIndsFit ==
  ASSUME NEW w, Fine(w), NEW incoming, NEW reason \in Reasons
  PROVE  Fit(HandleBredrConnectInd(w, incoming)) /\ Fit(HandleBredrDisconnectInd(w, reason))
<1> DEFINE f == FindOrCreate(w)
           v == [f EXCEPT !.connected = FALSE]
           c == CancelFirst(v, "CONNECT_ACL_RETRY_REQ")
           s == Send(c, [id |-> "CONNECT_ACL_COMPLETE"])
           d == [w EXCEPT !.connected = FALSE]
<1>0. "DISCONNECTED" \in HsStates /\ TRUE \in BOOLEAN
  BY StatesAre
<1>1. Fine(f) /\ Fine(d)
  BY <1>0, FindOrCreateFine, HsFine
<1>2. HandleBredrConnectInd(w, incoming) \in {w, BeginProfiles(v), s, v}
  BY DEF HandleBredrConnectInd
<1>3. HandleBredrDisconnectInd(w, reason) \in
        {w, StopProfiles(w), Settle(w, "DISCONNECTED"), Settle(d, "DISCONNECTED")}
  BY DEF HandleBredrDisconnectInd
<1> HIDE DEF f, d
<1>4. Fine(v)
  BY <1>0, <1>1, HsFine
<1> HIDE DEF v
<1>5. Fine(c)
  BY <1>4, CancelFirstKeeps, CancelFirstIsBeside, FineIs, ServiceMessages DEF Fine
<1> HIDE DEF c
<1>6. Fit(s)
  BY <1>5, SendOtherBeside, OthersAre, BesideKeeps DEF Fine
<1> HIDE DEF s
<1>7. Fit(HandleBredrConnectInd(w, incoming))
  BY <1>2, <1>4, <1>6, BeginProfilesFits DEF Fine
<1>8. Fit(HandleBredrDisconnectInd(w, reason))
  BY <1>1, <1>3, StopProfilesFits, SettleFits DEF Fine
<1> QED
  BY <1>7, <1>8

LEMMA LeIndsFit ==
  ASSUME NEW w, Fine(w)
  PROVE  Fit(HandleLeConnectInd(w)) /\ Fit(HandleLeDisconnectInd(w))
<1> DEFINE f    == FindOrCreate(w)
           u    == [f EXCEPT !.hs.le = "CONNECTED"]
           down == [w EXCEPT !.hs.le = "DISCONNECTED"]
           d    == CompleteDisconnectRequests(down, TRUE)
           i    == DeInit(d)
<1>0. Good(w) /\ TRUE \in BOOLEAN
  BY DEF Fine
<1>1. Fine(f)
  BY FindOrCreateFine
<1>2. HandleLeConnectInd(w) = u
  BY DEF HandleLeConnectInd
<1>3. HandleLeDisconnectInd(w) \in {w, i, down}
  BY DEF HandleLeDisconnectInd
<1> HIDE DEF f
<1>4. Fit(u)
  BY <1>1, HsBeside, FineIs DEF Fine, Good
<1>5. Good(down) /\ Fit(down)
  BY <1>0, HsLeKeeps, HsBeside, FineIs DEF Good
<1> HIDE DEF down
<1>6. Good(d) /\ Fit(d)
  BY <1>0, <1>5, CompleteDisconnectRequestsIs, CompleteDisconnectBeside, BesideKeeps
<1> HIDE DEF d
<1>7. Fit(i)
  BY <1>6, DeInitBeside, BesideKeeps
<1> QED
  BY <1>2, <1>3, <1>4, <1>5, <1>7 DEF Fine

---------------------------------------------------------------------------
(* The services, beside the profile.                                       *)

LEMMA ConnectRequestFits ==
  ASSUME NEW w, Fine(w)
  PROVE  Fit(ConnectRequest(w))
<1> DEFINE f   == FindOrCreate(w)
           new == CompleteDisconnectRequests(f, FALSE)
           n   == [new EXCEPT !.hs.connects = TRUE]
           m   == [id |-> "CONNECT_REQ", wants |-> ~w.connected]
<1>0. FALSE \in BOOLEAN /\ TRUE \in BOOLEAN /\ "DISCONNECTED" \in HsStates
  BY StatesAre
<1>1. Fine(f)
  BY FindOrCreateFine
<1>2. ConnectRequest(w) = Send(n, m)
  BY DEF ConnectRequest
<1> HIDE DEF f
<1>3. Fine(new)
  BY <1>0, <1>1, CompleteDisconnectRequestsIs, CompleteDisconnectBeside, FineIs DEF Fine
<1> HIDE DEF new
<1>4. Fine(n)
  BY <1>0, <1>3, HsFine
<1> HIDE DEF n
<1>5. m \in Messages
  <2> DEFINE wants == ~w.connected
  <2>1. wants \in BOOLEAN
    BY Zenon
  <2> HIDE DEF wants
  <2>2. [id |-> "CONNECT_REQ", wants |-> wants] \in Messages
    BY <2>1 DEF Messages
  <2> QED
    BY <2>2 DEF wants
<1>6. m.id \notin LibraryIds /\ m.id \notin HfpIds
  BY DEF LibraryIds, HfpIds
<1> HIDE DEF m
<1> QED
  BY <1>2, <1>4, <1>5, <1>6, SendBeside, BesideKeeps DEF Fine

LEMMA StopConnectFits ==
  ASSUME NEW w, Fine(w)
  PROVE  Fit(StopConnect(w))
<1> DEFINE s   == [w EXCEPT !.hs.stop = TRUE]
           m   == Send(s, [id |-> "CONNECT_STOP_REQ"])
           ids == {"CONNECT_REQ", "CONNECT_ACL_RETRY_REQ"}
           r   == Cancel(m, ids)
<1>0. TRUE \in BOOLEAN /\ "DISCONNECTED" \in HsStates
  BY StatesAre
<1>1. StopConnect(w) = r
  BY DEF StopConnect
<1>2. ids \cap LibraryIds = {} /\ ids \cap HfpIds = {}
  BY DEF LibraryIds, HfpIds
<1>3. Fine(s)
  BY <1>0, HsFine
<1> HIDE DEF s, ids
<1>4. Good(m) /\ Fit(m)
  BY <1>3, SendPlain, ServiceMessages, SendOtherBeside, OthersAre, BesideKeeps DEF Fine
<1> HIDE DEF m
<1>5. Beside(r, m)
  BY <1>2, <1>4, CancelBeside
<1> HIDE DEF r
<1> QED
  BY <1>1, <1>4, <1>5, BesideKeeps

LEMMA DisconnectRequestBeside ==
  ASSUME NEW w \in Worlds
  PROVE  Beside(DisconnectRequest(w), w)
<1> DEFINE c == CompleteConnectRequests(w)
           h == [c.hs EXCEPT !.disconnects = TRUE]
           d == [c EXCEPT !.hs = h]
           r == Send(d, [id |-> "DISCONNECT_REQ"])
<1>1. c \in Worlds /\ Beside(c, w)
  BY CompleteConnectRequestsIs, CompleteConnectBeside
<1>2. DisconnectRequest(w) = r
  BY DEF DisconnectRequest
<1> HIDE DEF c
<1>3. h \in Hss
  BY <1>1 DEF Worlds, Hss
<1>4. Beside(d, c)
  BY <1>1, HsBeside
<1> HIDE DEF h
<1>5. d \in Worlds
  BY <1>1, <1>3 DEF Worlds
<1> HIDE DEF d
<1>6. Beside(r, d)
  BY <1>5, SendOther, OthersAre
<1> HIDE DEF r
<1>7. Beside(r, w)
  BY <1>1, <1>4, <1>6, Again
<1> QED
  BY <1>2, <1>7

LEMMA DisconnectNextBeside ==
  ASSUME NEW w \in Worlds, NEW success \in BOOLEAN
  PROVE  Beside(DisconnectNext(w, success), w)
BY DisconnectRequestBeside, AnsweredBeside DEF DisconnectNext

\* Every message that neither the library nor the profile has sent
LEMMA HandleFits ==
  ASSUME NEW w, Fine(w), NEW m \in Messages, m.id \notin LibraryIds, m.id \notin HfpIds,
         m.id # "DISCONNECT_CFM"
  PROVE  Fit(Handle(w, m))
<1>0. Good(w) /\ Fit(w)
  BY DEF Fine
<1>1. CASE m.id = "OPEN_ACL"
  <2>1. Fit(HandleOpenAcl(w))
    BY <1>0, OpenAclBeside, BesideKeeps
  <2> QED
    BY <1>1, <2>1 DEF Handle
<1>2. CASE m.id = "ACL_OPENED_IND"
  <2> DEFINE r == HandleAclOpened(w, m.success, m.incoming)
  <2>1. Beside(r, w)
    <3>1. m.success \in BOOLEAN /\ m.incoming \in BOOLEAN /\ "local" \in Reasons
      BY <1>2, MessageFields DEF Reasons
    <3> QED
      BY <1>0, <3>1, AclIndicationsBeside
  <2>2. Handle(w, m) = r
    BY <1>2 DEF Handle
  <2> HIDE DEF r
  <2> QED
    BY <1>0, <2>1, <2>2, BesideKeeps
<1>3. CASE m.id = "ACL_CLOSED_IND"
  <2> DEFINE r == HandleAclClosed(w, m.reason)
  <2>1. Beside(r, w)
    <3>1. TRUE \in BOOLEAN /\ m.reason \in Reasons
      BY <1>3, MessageFields
    <3> QED
      BY <1>0, <3>1, AclIndicationsBeside
  <2>2. Handle(w, m) = r
    BY <1>3 DEF Handle
  <2> HIDE DEF r
  <2> QED
    BY <1>0, <2>1, <2>2, BesideKeeps
<1>4. CASE m.id \in {"LE_OPENED_IND", "LE_CLOSED_IND"}
  <2>1. Fit(HandleLeOpened(w)) /\ Fit(HandleLeClosed(w))
    BY <1>0, LeIndicationsBeside, BesideKeeps
  <2> QED
    BY <1>4, <2>1 DEF Handle
<1>5. CASE m.id = "TP_CONNECT_IND"
  <2>1. "local" \in Reasons
    BY DEF Reasons
  <2>2. Fit(HandleLeConnectInd(w)) /\ Fit(HandleBredrConnectInd(w, m.incoming))
    BY <2>1, LeIndsFit, BredrIndsFit
  <2> QED
    BY <1>5, <2>2 DEF Handle
<1>6. CASE m.id = "TP_DISCONNECT_IND"
  <2>1. Fit(HandleLeDisconnectInd(w)) /\ Fit(HandleBredrDisconnectInd(w, m.reason))
    BY <1>6, LeIndsFit, BredrIndsFit, MessageFields
  <2> QED
    BY <1>6, <2>1 DEF Handle
<1>7. CASE m.id \in {"CONNECT_PROFILES_CFM", "DISCONNECT_PROFILES_CFM"}
  <2>1. Fit(HandleProfilesConnectCfm(w, m.result)) /\ Fit(HandleProfilesDisconnectCfm(w, m.result))
    BY <1>7, ProfilesCfmsFit, MessageFields
  <2> QED
    BY <1>7, <2>1 DEF Handle
<1>8. CASE m.id \in {"CONNECTED_PROFILE_IND", "DISCONNECTED_PROFILE_IND"}
  BY <1>8, ProfileIndsFit DEF Handle
<1>9. CASE m.id = "CONNECT_REQ"
  BY <1>9, ConnectReqFits, MessageFields DEF Handle
<1>10. CASE m.id = "DISCONNECT_REQ"
  BY <1>10, DisconnectReqFits DEF Handle
<1>11. CASE m.id = "CONNECT_STOP_REQ"
  BY <1>11, ConnectStopFits DEF Handle
<1>12. CASE m.id = "CONNECT_ACL_COMPLETE"
  BY <1>12, AclCompleteFits DEF Handle
<1>13. CASE m.id \in {"CONNECT_ACL_RETRY_REQ", "CONNECT_PROFILES_REQ"}
  BY <1>13, RetriesFit DEF Handle
<1> QED
  BY <1>1, <1>2, <1>3, <1>4, <1>5, <1>6, <1>7, <1>8, <1>9, <1>10, <1>11, <1>12, <1>13
     DEF Messages, LibraryIds, HfpIds

---------------------------------------------------------------------------
(* The steps, and the requests of the profile.                             *)

\* What a step takes over, with the profile
LEMMA BecomeFits ==
  ASSUME NEW w, Good(w), Fit(w), Become(w)
  PROVE  FInv'
<1>1. World' = w
  BY DEF Become, World, Good, Worlds
<1> QED
  BY <1>1 DEF FInv, IInv

\* What is taken from the queue, as far as the profile has not heard it
LEMMA TakingLeaves ==
  ASSUME NEW v, Good(v), NEW n \in DOMAIN v.queue
  PROVE  LET m == v.queue[n]
             q == SubSeq(v.queue, 1, n - 1) \o SubSeq(v.queue, n + 1, Len(v.queue))
             w == [v EXCEPT !.queue = q]
         IN  /\ \A id : Asked(w, id) => Asked(v, id)
             /\ \A id : m.id # id => (Asked(w, id) <=> Asked(v, id))
             /\ Asked(v, m.id)
             /\ m.id \notin LibraryIds => Heard(w) = Heard(v)
             /\ m.id \notin LibraryIds \cup HfpIds => Beside(w, v)
<1> DEFINE s == v.queue
           m == s[n]
           q == SubSeq(s, 1, n - 1) \o SubSeq(s, n + 1, Len(s))
           w == [v EXCEPT !.queue = q]
<1>1. s \in Seq(Messages) /\ n \in 1 .. Len(s)
  <2>1. s \in Seq(Messages)
    BY DEF Good, Worlds
  <2> QED
    BY <2>1, LenProperties
<1>2. /\ w.queue = q
      /\ w.hfp = v.hfp /\ w.slc = v.slc /\ w.panic = v.panic /\ w.pm = v.pm
      /\ w.connected = v.connected
      /\ \A k \in DOMAIN q : \E i \in DOMAIN s : q[k] = s[i]
      /\ \A i \in DOMAIN s : i # n => \E k \in DOMAIN q : q[k] = s[i]
  BY TakingIs
<1>3. m.id \notin LibraryIds => Keep(q, LibraryMessages) = Keep(s, LibraryMessages)
  <2>1. m.id \notin LibraryIds => m \notin LibraryMessages
    BY DEF LibraryMessages
  <2> QED
    BY <1>1, <2>1, KeepTakenOut
<1>4. n \in DOMAIN s
  OBVIOUS
<1> HIDE DEF q, w
<1>5. \A id : Asked(w, id) => Asked(v, id)
  BY <1>2 DEF Asked
<1>6. \A id : m.id # id => (Asked(w, id) <=> Asked(v, id))
  BY <1>2, <1>5 DEF Asked
<1>7. Asked(v, m.id)
  BY <1>4 DEF Asked
<1>8. m.id \notin LibraryIds => Heard(w) = Heard(v)
  BY <1>2, <1>3 DEF Heard
<1>9. m.id \notin LibraryIds \cup HfpIds => Beside(w, v)
  BY <1>2, <1>6, <1>8 DEF Beside, Apart
<1> QED
  BY <1>5, <1>6, <1>7, <1>8, <1>9 DEF q, w

\* What the profile asked itself for is done.
LEMMA TakenRequestFits ==
  ASSUME NEW v, Fine(v), NEW n \in DOMAIN v.queue, v.queue[n].id \in HfpIds
  PROVE  LET q == SubSeq(v.queue, 1, n - 1) \o SubSeq(v.queue, n + 1, Len(v.queue))
         IN  Fit(Handle([v EXCEPT !.queue = q], v.queue[n]))
<1> DEFINE m == v.queue[n]
           q == SubSeq(v.queue, 1, n - 1) \o SubSeq(v.queue, n + 1, Len(v.queue))
           w == [v EXCEPT !.queue = q]
<1>1. /\ Good(w) /\ w.hfp = v.hfp /\ w.slc = v.slc /\ w.panic = v.panic /\ w.pm = v.pm
      /\ w.connected = v.connected
  BY TakingIs DEF Fine, HfpIds
<1>2. /\ \A id : Asked(w, id) => Asked(v, id)
      /\ \A id : m.id # id => (Asked(w, id) <=> Asked(v, id))
      /\ Asked(v, m.id) /\ Heard(w) = Heard(v)
  BY TakingLeaves DEF Fine, HfpIds, LibraryIds
<1>3. Sound(v) /\ Waits(v) /\ Requested(v)
  BY DEF Fine, Fit
<1> HIDE DEF w
<1>4. Sound(w)
  BY <1>1, <1>2, <1>3 DEF Sound, Listed
<1>5. CASE m.id = "HFP_CONNECT_REQ"
  <2>1. Requested(w)
    BY <1>1, <1>2, <1>3, <1>5 DEF Requested, Disconnects
  <2>2. w.hfp.cn => w.hfp.state \in Opening \cup {"DISCONNECTING", "DISCONNECTED"}
    BY <1>1, <1>3 DEF Waits, Connects
  <2>3. Handle(w, m) = HandleHfpConnectReq(w)
    BY <1>5 DEF Handle
  <2>4. Fit(Handle(w, m))
    BY <1>1, <1>4, <2>1, <2>2, <2>3, HfpConnectReqFits
  <2> QED
    BY <2>4 DEF w
<1>6. CASE m.id = "HFP_DISCONNECT_REQ"
  <2>1. Waits(w)
    BY <1>1, <1>2, <1>3, <1>6 DEF Waits, Connects
  <2>2. w.hfp.dn
    BY <1>1, <1>2, <1>3, <1>6 DEF Sound, Listed
  <2>3. /\ Single(w.pm) /\ ("connect" \in w.pm.order => w.hfp.cn)
        /\ "disconnect" \in w.pm.order => w.hfp.state \in Marked
    BY <1>1, <1>3 DEF Requested, Disconnects, Marked
  <2>4. Handle(w, m) = HandleHfpDisconnectReq(w)
    BY <1>6 DEF Handle
  <2>5. Fit(Handle(w, m))
    BY <1>1, <1>4, <2>1, <2>2, <2>3, <2>4, HfpDisconnectReqFits
  <2> QED
    BY <2>5 DEF w
<1> QED
  BY <1>5, <1>6 DEF HfpIds

\* The library is heard in its order.
LEMMA TakenIndicationFits ==
  ASSUME NEW v, Fine(v), NEW n \in DOMAIN v.queue, v.queue[n].id \in LibraryIds,
         \A k \in 1 .. n - 1 : v.queue[k].id \notin LibraryIds
  PROVE  LET q == SubSeq(v.queue, 1, n - 1) \o SubSeq(v.queue, n + 1, Len(v.queue))
         IN  Fit(Handle([v EXCEPT !.queue = q], v.queue[n]))
<1> DEFINE m == v.queue[n]
           q == SubSeq(v.queue, 1, n - 1) \o SubSeq(v.queue, n + 1, Len(v.queue))
           w == [v EXCEPT !.queue = q]
           s == Keep(v.queue, LibraryMessages)
           t == Keep(q, LibraryMessages)
<1>1. /\ Good(w) /\ w.queue = q /\ w.hfp = v.hfp /\ w.slc = v.slc /\ w.panic = v.panic
      /\ w.pm = v.pm /\ w.connected = v.connected /\ m \in Messages
  BY TakingIs DEF Fine, LibraryIds
<1>2. \A id \in HfpIds : Asked(w, id) <=> Asked(v, id)
  BY TakingLeaves DEF Fine, HfpIds, LibraryIds
<1>3. Sound(v) /\ Waits(v) /\ Requested(v)
  BY DEF Fine, Fit
<1>4. /\ Len(s) = Len(t) + 1 /\ s[1] = m /\ Len(t) \in Nat
      /\ \A k \in 1 .. Len(t) : t[k] = s[k + 1]
  <2>1. v.queue \in Seq(Messages)
    BY DEF Fine, Good, Worlds
  <2>2. n \in 1 .. Len(v.queue) /\ DOMAIN v.queue = 1 .. Len(v.queue) /\ Len(v.queue) \in Nat
    BY <2>1, LenProperties
  <2>3. m \in LibraryMessages /\ \A k \in 1 .. n - 1 : v.queue[k] \notin LibraryMessages
    BY <1>1 DEF LibraryMessages
  <2> QED
    BY <2>1, <2>2, <2>3, KeepFirstTaken
<1>5. Heard(v) = s
  BY DEF Heard
<1>6. Heard(w) = t
  BY <1>1 DEF Heard
<1> HIDE DEF w, s, t, q
<1>7. Follows(v.hfp.state, v.slc, s)
  BY <1>3, <1>5 DEF Sound
<1> DEFINE h   == v.hfp.state
           lib == v.slc
<1>8. /\ s[1].id = "SLC_CONNECT_IND" => lib = "REMOTE" /\ h \in Off \cup Opening /\ Len(t) = 0
      /\ s[1].id = "SLC_CONNECT_CFM" =>
           /\ h \in Opening
           /\ s[1].success => Follows("CONNECTED", lib, t)
           /\ ~s[1].success => Follows("NONE", lib, t)
      /\ s[1].id = "SLC_DISCONNECT_IND" => h \in Marked /\ Follows("NONE", lib, t)
  BY <1>4, <1>7, FollowsNext
<1>9. Listed(w) /\ Waits(w) /\ Requested(w)
  BY <1>1, <1>2, <1>3 DEF Sound, Listed, Waits, Connects, Requested, Disconnects, HfpIds
<1>10. CASE m.id = "SLC_CONNECT_IND"
  <2>1. Fit(HandleSlcConnectInd(w))
    BY <1>1, <1>4, <1>6, <1>8, <1>9, <1>10, SlcConnectIndFits
  <2>2. Handle(w, m) = HandleSlcConnectInd(w)
    BY <1>10 DEF Handle
  <2> QED
    BY <2>1, <2>2 DEF w, q
<1>11. CASE m.id = "SLC_CONNECT_CFM"
  <2> DEFINE success == m.success
  <2>1. success \in BOOLEAN
    BY <1>1, <1>11, MessageFields
  <2>2. /\ w.hfp.state \in Opening
        /\ success => Follows("CONNECTED", w.slc, Heard(w))
        /\ ~success => Follows("NONE", w.slc, Heard(w))
    BY <1>1, <1>4, <1>6, <1>8, <1>11
  <2>3. Handle(w, m) = HandleSlcConnectCfm(w, success)
    BY <1>11 DEF Handle
  <2> HIDE DEF success, m
  <2>4. Fit(HandleSlcConnectCfm(w, success))
    BY <1>1, <1>9, <2>1, <2>2, SlcConnectCfmFits
  <2> QED
    BY <2>3, <2>4 DEF w, q, m
<1>12. CASE m.id = "SLC_DISCONNECT_IND"
  <2> DEFINE loss == m.loss
  <2>1. loss \in BOOLEAN
    BY <1>1, <1>12, MessageFields
  <2>2. w.hfp.state \in Marked /\ Follows("NONE", w.slc, Heard(w))
    BY <1>1, <1>4, <1>6, <1>8, <1>12
  <2>3. Handle(w, m) = HandleSlcDisconnectInd(w, loss)
    BY <1>12 DEF Handle
  <2> HIDE DEF loss, m
  <2>4. Fit(HandleSlcDisconnectInd(w, loss))
    BY <1>1, <1>9, <2>1, <2>2, SlcDisconnectIndFits
  <2> QED
    BY <2>3, <2>4 DEF w, q, m
<1> QED
  BY <1>10, <1>11, <1>12 DEF LibraryIds

\* A message is taken: the first whose lock is free, and the library's have none.
LEMMA DeliverFits ==
  ASSUME FInv, Deliver
  PROVE  FInv'
<1>1. PICK n \in DOMAIN queue :
        /\ \A k \in 1..(n - 1) : Blocked(queue[k])
        /\ Become(Handle([World EXCEPT !.queue = SubSeq(queue, 1, n - 1) \o SubSeq(queue, n + 1, Len(queue))],
                         queue[n]))
  BY DEF Deliver
<1> DEFINE m == queue[n]
           q == SubSeq(queue, 1, n - 1) \o SubSeq(queue, n + 1, Len(queue))
           w == [World EXCEPT !.queue = q]
<1>2. Fine(World) /\ World.queue = queue
  BY <1>1, WorldIs DEF FInv, Fine, Become, World
<1>3. w \in Worlds /\ m \in Messages /\ (m.id # "DISCONNECT_CFM" => Good(w))
  BY <1>2, TakingIs DEF Fine
<1>4. Become(Handle(w, m)) /\ n \in DOMAIN queue
  BY <1>1
<1>5. \A k \in 1 .. n - 1 : queue[k].id \notin LibraryIds
  BY <1>1 DEF Blocked, LibraryIds
<1>6. m.id \notin LibraryIds \cup HfpIds => Beside(w, World)
  BY <1>2, <1>4, TakingLeaves DEF Fine
<1>7. m.id \in HfpIds => Fit(Handle(w, m))
  BY <1>2, <1>4, TakenRequestFits
<1>8. m.id \in LibraryIds => Fit(Handle(w, m))
  BY <1>2, <1>4, <1>5, TakenIndicationFits
<1> HIDE DEF w, m
<1>9. Good(Handle(w, m)) /\ Fit(Handle(w, m))
  <2>1. CASE m.id = "DISCONNECT_CFM"
    <3> DEFINE success == m.success
               r == DisconnectNext(w, success)
    <3>1. success \in BOOLEAN
      BY <1>3, <2>1, MessageFields
    <3>2. Handle(w, m) = r
      BY <2>1 DEF Handle
    <3> HIDE DEF success
    <3>3. Good(r) /\ Beside(r, w)
      BY <1>3, <3>1, DisconnectNextKeeps, DisconnectNextBeside
    <3>4. Fit(w)
      BY <1>2, <1>6, <2>1, BesideKeeps DEF LibraryIds, HfpIds, Fine
    <3> HIDE DEF r
    <3> QED
      BY <3>2, <3>3, <3>4, BesideKeeps
  <2>2. CASE m.id # "DISCONNECT_CFM"
    <3>1. Good(w) /\ Good(Handle(w, m))
      BY <1>3, <2>2, HandleKeeps
    <3>2. ASSUME m.id \notin LibraryIds \cup HfpIds PROVE Fit(Handle(w, m))
      <4>1. Fine(w)
        BY <1>2, <1>6, <3>1, <3>2, FineIs
      <4> QED
        BY <1>3, <2>2, <3>2, <4>1, HandleFits
    <3> QED
      BY <1>7, <1>8, <3>1, <3>2
  <2> QED
    BY <2>1, <2>2
<1> QED
  BY <1>4, <1>9, BecomeFits

\* Somebody waits, and a timer comes due.
LEMMA WaitingFine ==
  ASSUME NEW w, Fine(w), NEW who \in {"connect", "stop"}
  PROVE  Fine([w EXCEPT !.waiting = @ \cup {who}])
<1> DEFINE u == w.waiting \cup {who}
           r == [w EXCEPT !.waiting = u]
<1>1. Good(r) /\ Beside(r, w)
  BY WaitKeeps, RecordsAreBeside DEF Fine
<1>2. [w EXCEPT !.waiting = @ \cup {who}] = r
  OBVIOUS
<1> HIDE DEF r
<1> QED
  BY <1>1, <1>2, FineIs

LEMMA UsersFit ==
  ASSUME FInv, Connect \/ Stop \/ DisconnectAll
  PROVE  FInv'
<1>1. Fine(World) /\ World \in Worlds
  BY WorldIs DEF FInv, Fine, Connect, Stop, DisconnectAll, Become, World
<1>2. CASE Connect
  <2> DEFINE w == [World EXCEPT !.waiting = @ \cup {"connect"}]
  <2>1. Become(ConnectRequest(w))
    BY <1>2 DEF Connect
  <2>2. Fine(w)
    BY <1>1, WaitingFine
  <2> HIDE DEF w
  <2> QED
    BY <2>1, <2>2, ConnectRequestKeeps, ConnectRequestFits, BecomeFits DEF Fine
<1>3. CASE Stop
  <2> DEFINE w == [World EXCEPT !.waiting = @ \cup {"stop"}]
  <2>1. Become(StopConnect(w))
    BY <1>3 DEF Stop
  <2>2. Fine(w)
    BY <1>1, WaitingFine
  <2> HIDE DEF w
  <2> QED
    BY <2>1, <2>2, StopConnectKeeps, StopConnectFits, BecomeFits DEF Fine
<1>4. CASE DisconnectAll
  <2> DEFINE u == World.waiting \cup {"all"}
             w == [World EXCEPT !.waiting = u]
             r == DisconnectRequest(w)
  <2>1. Become(r)
    BY <1>4 DEF DisconnectAll
  <2>2. u \in SUBSET Users
    BY <1>1 DEF Worlds, Users
  <2>3. Beside(w, World)
    BY <1>1, RecordsAreBeside DEF Fine
  <2> HIDE DEF u
  <2>4. w \in Worlds
    BY <1>1, <2>2 DEF Worlds
  <2> HIDE DEF w
  <2>5. Good(r) /\ Beside(r, w)
    BY <2>4, DisconnectRequestKeeps, DisconnectRequestBeside
  <2> HIDE DEF r
  <2>6. Fit(r)
    BY <1>1, <2>3, <2>5, BesideKeeps DEF Fine
  <2> QED
    BY <2>1, <2>5, <2>6, BecomeFits
<1> QED
  BY <1>2, <1>3, <1>4

LEMMA DueFits ==
  ASSUME FInv, Due
  PROVE  FInv'
<1>1. PICK id \in Timers : later[id] > 0 /\ Become(Send([World EXCEPT !.later[id] = @ - 1], [id |-> id]))
  BY DEF Due
<1> DEFINE n == later[id] - 1
           t == [later EXCEPT ![id] = n]
           w == [World EXCEPT !.later = t]
           r == Send(w, [id |-> id])
<1>2. /\ later \in [Timers -> Nat] /\ Good(World) /\ World \in Worlds /\ World.later = later
      /\ Fit(World)
  BY WorldIs DEF FInv
<1>3. n \in Nat
  <2>1. later[id] \in Nat /\ later[id] > 0
    BY <1>1, <1>2
  <2> QED
    BY <2>1
<1>4. Become(r)
  <2>1. [World EXCEPT !.later[id] = @ - 1] = w
    BY <1>2
  <2> HIDE DEF w
  <2> QED
    BY <1>1, <2>1
<1> HIDE DEF n
<1>5. t \in [Timers -> Nat]
  BY <1>2, <1>3
<1>6. Beside(w, World)
  BY <1>2, RecordsAreBeside
<1> HIDE DEF t
<1>7. w \in Worlds /\ w.queue = World.queue /\ w.waiting = World.waiting /\ w.hs = World.hs
  BY <1>2, <1>5 DEF Worlds
<1> HIDE DEF w
<1>8. Good(w)
  BY <1>2, <1>7, AsideKeeps
<1>9. id \in PlainIds /\ id \in OtherIds
  BY OthersAre DEF Timers, PlainIds
<1>10. Good(r) /\ Beside(r, w)
  BY <1>8, <1>9, SendPlain, SendOtherBeside
<1> HIDE DEF r
<1>11. Fit(r)
  BY <1>2, <1>6, <1>10, BesideKeeps
<1> QED
  BY <1>4, <1>10, <1>11, BecomeFits

\* The phone and Bluestack move.
LEMMA LinksFit ==
  ASSUME FInv, \/ PhoneOpens \/ CloseCarriedOut
               \/ \E success \in BOOLEAN : PageAnswered(success)
               \/ \E reason \in {"timeout", "remote"} : LinkDrops(reason)
  PROVE  FInv'
<1>1. Good(World) /\ World \in Worlds /\ Fit(World)
  BY WorldIs DEF FInv
<1>2. LinkDown \in Airs
  BY DEF LinkDown, Airs
<1> DEFINE down == [World EXCEPT !.air = LinkDown]
<1>3. Good(down) /\ Beside(down, World)
  BY <1>1, <1>2, AirKeeps, RecordsAreBeside
<1>4. ASSUME NEW reason \in Reasons, Become(Send(down, [id |-> "ACL_CLOSED_IND", reason |-> reason]))
      PROVE  FInv'
  <2> DEFINE m == [id |-> "ACL_CLOSED_IND", reason |-> reason]
             r == Send(down, m)
  <2>1. m \in Messages /\ m.id \notin LibraryIds /\ m.id \notin HfpIds
    BY DEF Messages, Reasons, LibraryIds, HfpIds
  <2> HIDE DEF m, down
  <2>2. Good(r) /\ Beside(r, down)
    BY <1>3, <2>1, SendKeeps, SendBeside
  <2>3. Become(r)
    BY <1>4 DEF m
  <2> HIDE DEF r
  <2>4. Fit(r)
    BY <1>1, <1>3, <2>2, BesideKeeps
  <2> QED
    BY <2>2, <2>3, <2>4, BecomeFits
<1>5. ASSUME Become(LinkUp(World, TRUE)) \/ Become(LinkUp(World, FALSE)) \/ Become(PageFails(World))
      PROVE  FInv'
  <2> DEFINE i == LinkUp(World, TRUE)
             o == LinkUp(World, FALSE)
             f == PageFails(World)
  <2>1. Good(i) /\ Good(o) /\ Good(f)
    BY <1>1, LinkUpKeeps
  <2>2. Beside(i, World) /\ Beside(o, World) /\ Beside(f, World)
    BY <1>1, LinkUpBeside
  <2>3. Become(i) \/ Become(o) \/ Become(f)
    BY <1>5
  <2> HIDE DEF i, o, f
  <2>4. Fit(i) /\ Fit(o) /\ Fit(f)
    BY <1>1, <2>2, BesideKeeps
  <2> QED
    BY <2>1, <2>3, <2>4, BecomeFits
<1>6. CASE PhoneOpens
  BY <1>5, <1>6 DEF PhoneOpens
<1>7. CASE CloseCarriedOut
  BY <1>4, <1>7 DEF CloseCarriedOut, Reasons
<1>8. ASSUME NEW success \in BOOLEAN, PageAnswered(success) PROVE FInv'
  <2>1. Become(LinkUp(World, FALSE)) \/ Become(PageFails(World))
    BY <1>8 DEF PageAnswered
  <2> QED
    BY <1>5, <2>1
<1>9. ASSUME NEW reason \in {"timeout", "remote"}, LinkDrops(reason) PROVE FInv'
  BY <1>4, <1>9 DEF LinkDrops, Reasons
<1> QED
  BY <1>6, <1>7, <1>8, <1>9

LEMMA LeFits ==
  ASSUME FInv, PhoneOpensLe \/ LeCloses
  PROVE  FInv'
<1>1. Good(World) /\ World \in Worlds /\ Fit(World)
  BY WorldIs DEF FInv
<1>2. ASSUME NEW l \in {"UP", "DOWN"}, NEW id \in {"LE_OPENED_IND", "LE_CLOSED_IND"},
             Become(Send([World EXCEPT !.leAir = l], [id |-> id]))
      PROVE  FInv'
  <2> DEFINE w == [World EXCEPT !.leAir = l]
             r == Send(w, [id |-> id])
  <2>1. w \in Worlds /\ w.queue = World.queue /\ w.waiting = World.waiting /\ w.hs = World.hs
    BY <1>1 DEF Worlds
  <2>2. Good(w) /\ Beside(w, World)
    BY <1>1, <2>1, AsideKeeps, RecordsAreBeside
  <2>3. Become(r)
    BY <1>2
  <2> HIDE DEF w
  <2>4. id \in PlainIds /\ id \in OtherIds
    BY OthersAre DEF PlainIds
  <2>5. Good(r) /\ Beside(r, w)
    BY <2>2, <2>4, SendPlain, SendOtherBeside
  <2> HIDE DEF r
  <2>6. Fit(r)
    BY <1>1, <2>2, <2>5, BesideKeeps
  <2> QED
    BY <2>3, <2>5, <2>6, BecomeFits
<1> QED
  BY <1>2 DEF PhoneOpensLe, LeCloses

\* The library moves, and says so behind all it has said before.
LEMMA SpeaksFits ==
  ASSUME FInv, ~panic, NEW s \in Slcs, NEW m \in Messages, m.id \in LibraryIds,
         Become(Send([World EXCEPT !.slc = s], m)),
         Follows(hfp.state, s, Append(Heard(World), m))
  PROVE  FInv'
<1> DEFINE w == [World EXCEPT !.slc = s]
           r == Send(w, m)
<1>1. Good(World) /\ World \in Worlds /\ Fit(World) /\ World.hfp = hfp /\ World.panic = panic
  BY WorldIs DEF FInv, World
<1>2. Good(w)
  BY <1>1, SlcKeeps
<1>3. /\ w.queue = World.queue /\ w.hfp = World.hfp /\ w.slc = s /\ w.panic = World.panic
      /\ w.pm = World.pm /\ w.connected = World.connected
  BY <1>1 DEF Worlds
<1>4. Become(r)
  OBVIOUS
<1> HIDE DEF w
<1>5. Heard(w) = Heard(World) /\ \A id : Asked(w, id) <=> Asked(World, id)
  BY <1>3 DEF Heard, Asked
<1>6. Good(r)
  BY <1>2, SendKeeps
<1>7. Heard(r) = Append(Heard(w), m) /\ \A id \in HfpIds : Asked(r, id) <=> Asked(w, id)
  BY <1>2, SendIsBeside DEF Good, LibraryIds, HfpIds
<1>8. /\ r.hfp = w.hfp /\ r.slc = w.slc /\ r.panic = w.panic /\ r.pm = w.pm
      /\ r.connected = w.connected
  BY <1>2 DEF Send, Good, Worlds
<1> HIDE DEF r
<1>9. Sound(World) /\ Waits(World) /\ Requested(World)
  BY <1>1 DEF Fit
<1>10. Sound(r)
  BY <1>1, <1>3, <1>5, <1>7, <1>8, <1>9 DEF Sound, Listed, HfpIds
<1>11. Waits(r) /\ Requested(r)
  BY <1>3, <1>5, <1>7, <1>8, <1>9 DEF Waits, Connects, Requested, Disconnects, HfpIds
<1> QED
  BY <1>4, <1>6, <1>10, <1>11, BecomeFits DEF Fit

\* What has been heard, and one message more
LEMMA OneMore ==
  ASSUME FInv, NEW m \in Messages
  PROVE  LET s == Heard(World)
             t == Append(s, m)
         IN  /\ Len(s) \in Nat /\ Len(t) = Len(s) + 1 /\ t[Len(s) + 1] = m
             /\ \A n \in 1 .. Len(s) : t[n] = s[n]
<1>1. World.queue \in Seq(Messages)
  BY WorldIs DEF FInv
<1>2. Heard(World) \in Seq(Messages)
  BY <1>1, KeepPart DEF Heard
<1> QED
  BY <1>2, AppendProperties, LenProperties

LEMMA LibraryFits ==
  ASSUME FInv, \/ PhoneConnectsHfp
               \/ \E success \in BOOLEAN : SlcOpened(success)
               \/ \E loss \in BOOLEAN : SlcClosed(loss)
  PROVE  FInv'
<1> DEFINE s == Heard(World)
           n == Len(s)
           h == hfp.state
<1>1. ~panic
  BY DEF PhoneConnectsHfp, SlcOpened, SlcClosed, Become
<1>2. Follows(h, slc, s)
  BY DEF FInv, Fit, Sound, World
<1>3. ASSUME NEW m \in Messages
      PROVE  /\ n \in Nat /\ Len(Append(s, m)) = n + 1 /\ Append(s, m)[n + 1] = m
             /\ \A k \in 1 .. n : Append(s, m)[k] = s[k]
  BY OneMore
<1>4. n > 0 => s[n].id \in LibraryIds /\ Posted(s[n].id)
  <2>1. World.queue = queue /\ queue \in Seq(Messages)
    BY WorldIs DEF FInv
  <2>2. s \in Seq(Messages) /\ s = Keep(queue, LibraryMessages)
    BY <2>1, KeepPart DEF Heard
  <2>3. ASSUME n > 0 PROVE n \in DOMAIN s
    BY <2>2, <2>3, LenProperties
  <2> HIDE DEF s, n
  <2>4. ASSUME n > 0 PROVE s[n] \in LibraryMessages /\ \E k \in DOMAIN queue : queue[k] = s[n]
    BY <2>1, <2>2, <2>3, <2>4, KeepFrom
  <2> QED
    BY <2>4 DEF LibraryMessages, Posted
<1> HIDE DEF s, n
<1>5. CASE PhoneConnectsHfp
  <2> DEFINE m == [id |-> "SLC_CONNECT_IND"]
             t == Append(s, m)
  <2>1. m \in Messages /\ "REMOTE" \in Slcs /\ m.id = "SLC_CONNECT_IND"
    BY DEF Messages, Slcs
  <2>2. Become(Send([World EXCEPT !.slc = "REMOTE"], m)) /\ slc = "DOWN"
    BY <1>5 DEF PhoneConnectsHfp
  <2> HIDE DEF m
  <2>3. n \in Nat /\ Len(t) = n + 1 /\ t[n + 1] = m /\ \A k \in 1 .. n : t[k] = s[k]
    BY <1>3, <2>1
  <2> HIDE DEF t
  <2>4. Rests(h, s, n)
    BY <1>2, <2>2 DEF Follows, n
  <2>5. Rests(h, t, n)
    <3>1. (n > 0 => t[1] = s[1]) /\ (n = 2 => t[2] = s[2])
      BY <2>3
    <3> QED
      BY <2>4, <3>1 DEF Rests
  <2>6. Follows(h, "REMOTE", t)
    <3>1. Len(t) > 0 /\ t[Len(t)].id = "SLC_CONNECT_IND" /\ Len(t) - 1 = n
      BY <2>1, <2>3
    <3> QED
      BY <2>5, <3>1 DEF Follows
  <2> QED
    BY <1>1, <2>1, <2>2, <2>6, SpeaksFits DEF LibraryIds, s, t
<1>6. ASSUME NEW success \in BOOLEAN, SlcOpened(success) PROVE FInv'
  <2> DEFINE m == [id |-> "SLC_CONNECT_CFM", success |-> success]
             l == IF success THEN "UP" ELSE "DOWN"
             t == Append(s, m)
  <2>1. m \in Messages /\ l \in Slcs /\ m.id = "SLC_CONNECT_CFM" /\ m.success = success
    BY DEF Messages, Slcs
  <2>2. Become(Send([World EXCEPT !.slc = l], m)) /\ slc \in {"LOCAL", "REMOTE"}
        /\ ~Posted("SLC_CONNECT_IND")
    BY <1>6 DEF SlcOpened, SlcDue
  <2>3. (success => l = "UP") /\ (~success => l = "DOWN")
    OBVIOUS
  <2> HIDE DEF m, l
  <2>4. n \in Nat /\ Len(t) = n + 1 /\ t[n + 1] = m
    BY <1>3, <2>1
  <2> HIDE DEF t
  <2>5. n = 0 /\ h \in Opening
    <3>1. n > 0 => s[n].id # "SLC_CONNECT_IND"
      BY <1>4, <2>2
    <3> QED
      BY <1>2, <2>2, <2>4, <3>1 DEF Follows, n
  <2>6. Len(t) = 1 /\ t[1].id = "SLC_CONNECT_CFM" /\ (success <=> t[1].success)
    BY <2>1, <2>4, <2>5
  <2>7. Follows(h, l, t)
    <3>1. ASSUME success PROVE Follows(h, l, t)
      BY <2>3, <2>5, <2>6, <3>1 DEF Follows
    <3>2. ASSUME ~success PROVE Follows(h, l, t)
      BY <2>3, <2>5, <2>6, <3>2 DEF Follows, Rests
    <3> QED
      BY <3>1, <3>2
  <2> QED
    BY <1>1, <2>1, <2>2, <2>7, SpeaksFits DEF LibraryIds, s, t
<1>7. ASSUME NEW loss \in BOOLEAN, SlcClosed(loss) PROVE FInv'
  <2> DEFINE m == [id |-> "SLC_DISCONNECT_IND", loss |-> loss]
             t == Append(s, m)
  <2>1. m \in Messages /\ "DOWN" \in Slcs /\ m.id = "SLC_DISCONNECT_IND"
    BY DEF Messages, Slcs
  <2>2. Become(Send([World EXCEPT !.slc = "DOWN"], m)) /\ slc \in {"UP", "CLOSING"}
    BY <1>7 DEF SlcClosed, SlcEndDue
  <2> HIDE DEF m
  <2>3. n \in Nat /\ Len(t) = n + 1 /\ t[n + 1] = m /\ \A k \in 1 .. n : t[k] = s[k]
    BY <1>3, <2>1
  <2> HIDE DEF t
  <2>4. \/ h \in Marked /\ n = 0
        \/ h \in Opening /\ n = 1 /\ s[1].id = "SLC_CONNECT_CFM" /\ s[1].success
    BY <1>2, <2>2 DEF Follows, n, Marked
  <2>5. Follows(h, "DOWN", t)
    <3>1. n = 1 => t[1] = s[1] /\ t[2] = m
      BY <2>3
    <3> QED
      BY <2>1, <2>3, <2>4, <3>1 DEF Follows, Rests
  <2> QED
    BY <1>1, <2>1, <2>2, <2>5, SpeaksFits DEF LibraryIds, s, t
<1> QED
  BY <1>5, <1>6, <1>7

LEMMA InitFits ==
  ASSUME Init
  PROVE  FInv
<1>1. IInv
  BY InitIsGood
<1>2. /\ World.hfp = NoHfp /\ World.pm = NoRequest /\ World.slc = "DOWN" /\ World.queue = << >>
      /\ ~World.connected
  BY DEF Init, World
<1>3. Heard(World) = << >>
  BY <1>2, KeepEmpty DEF Heard
<1>4. \A id : ~Asked(World, id)
  BY <1>2 DEF Asked
<1>5. Follows("NONE", "DOWN", << >>)
  BY DEF Follows, Rests, Off
<1>6. Sound(World)
  BY <1>2, <1>3, <1>4, <1>5 DEF Sound, Listed, NoHfp
<1>7. Waits(World) /\ Requested(World)
  BY <1>2, NoRequestIs DEF Waits, Requested, NoHfp
<1> QED
  BY <1>1, <1>6, <1>7 DEF FInv, Fit

LEMMA NextFits ==
  ASSUME FInv, [Next]_vars
  PROVE  FInv'
<1>1. CASE UNCHANGED vars
  <2>1. World' = World
    BY <1>1 DEF vars, World
  <2> QED
    BY <2>1 DEF FInv, IInv
<1>2. CASE Next
  BY <1>2, DeliverFits, DueFits, UsersFit, LinksFit, LibraryFits, LeFits DEF Next, Outside
<1> QED
  BY <1>1, <1>2

\* Whatever requests, stops, failures and losses of the link cross each other,
\* the profile is where the library is as far as it has heard, it has a message
\* coming for every client on its lists, and the one request of the profile
\* manager is one of those clients.
THEOREM ProfileInvariant == Spec => []FInv
<1>1. Init => FInv
  BY InitFits
<1>2. FInv /\ [Next]_vars => FInv'
  BY NextFits
<1> QED
  BY <1>1, <1>2, PTL DEF Spec

\* Every request to the profile manager is given an end, the stopped and the
\* cancelled ones too: when nothing is under way nothing is left of it.
THEOREM RequestsEnd == Spec => []ProfileRequestsEnd
<1>1. FInv => ProfileRequestsEnd
  <2> SUFFICES ASSUME FInv, Quiet PROVE pm = NoRequest /\ ~hfp.cn
    BY DEF ProfileRequestsEnd
  <2>1. /\ World.hfp = hfp /\ World.pm = pm /\ World.slc = slc /\ World.queue = queue
        /\ World.panic = panic /\ queue = << >> /\ Good(World)
    BY WorldIs DEF World, Quiet, FInv
  <2>2. Heard(World) = << >>
    BY <2>1, KeepEmpty DEF Heard
  <2>3. \A id : ~Asked(World, id)
    BY <2>1 DEF Asked
  <2>4. Follows(hfp.state, slc, << >>) /\ Waits(World)
    BY <2>1, <2>2 DEF FInv, Fit, Sound
  <2>5. hfp.state \notin Opening \cup {"DISCONNECTING"}
    <3>1. ~SlcDue /\ ~SlcEndDue /\ \A id : ~Posted(id)
      BY <2>1 DEF Quiet, Posted
    <3>2. slc \notin {"LOCAL", "REMOTE", "CLOSING"}
      BY <3>1 DEF SlcDue, SlcEndDue
    <3>3. Len(<< >>) = 0
      OBVIOUS
    <3> QED
      BY <2>4, <3>2, <3>3 DEF Follows, Rests, Opening, Off, Marked
  <2>6. ~hfp.cn
    BY <2>1, <2>3, <2>4, <2>5 DEF Waits, Connects
  <2>7. Requested(World)
    BY <2>1, <2>6 DEF FInv, Fit
  <2>8. "connect" \notin pm.order /\ "disconnect" \notin pm.order /\ Single(pm)
    BY <2>1, <2>3, <2>5, <2>6, <2>7 DEF Requested, Disconnects
  <2>9. pm \in Pms
    BY <2>1 DEF Good, Worlds
  <2>10. pm.order = {} /\ pm.clients = {} /\ pm.index = "none"
    BY <2>8, <2>9 DEF Single, Pms, Types
  <2> QED
    BY <2>6, <2>9, <2>10, NoRequestIs
<1> QED
  BY <1>1, ProfileInvariant, PTL

\* The profile is where the library is, and the mark is only on a connected
\* profile, when nothing is under way: two thirds of MarkFollowsProfile.
THEOREM ProfileFollowsLibrary ==
  Spec => [](Quiet => /\ (hfp.state = "CONNECTED") = (slc = "UP")
                      /\ connected => hfp.state = "CONNECTED")
<1>1. FInv => (Quiet => /\ (hfp.state = "CONNECTED") = (slc = "UP")
                        /\ connected => hfp.state = "CONNECTED")
  <2> SUFFICES ASSUME FInv, Quiet
               PROVE  /\ hfp.state = "CONNECTED" <=> slc = "UP"
                      /\ connected => hfp.state = "CONNECTED"
    OBVIOUS
  <2>1. /\ World.hfp = hfp /\ World.slc = slc /\ World.queue = queue /\ World.connected = connected
        /\ queue = << >>
    BY WorldIs DEF World, Quiet, FInv
  <2>2. Heard(World) = << >> /\ Len(<< >>) = 0
    BY <2>1, KeepEmpty DEF Heard
  <2>3. Follows(hfp.state, slc, << >>) /\ (connected => hfp.state \in Marked)
    BY <2>1, <2>2 DEF FInv, Fit, Sound, Listed
  <2>4. ~SlcDue /\ ~SlcEndDue /\ \A id : ~Posted(id)
    BY <2>1 DEF Quiet, Posted
  <2>5. slc \notin {"LOCAL", "REMOTE", "CLOSING"}
    BY <2>4 DEF SlcDue, SlcEndDue
  <2> QED
    BY <2>2, <2>3, <2>5 DEF Follows, Rests, Opening, Off, Marked
<1> QED
  BY <1>1, ProfileInvariant, PTL
=============================================================================
