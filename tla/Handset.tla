------------------------------ MODULE Handset ------------------------------
(***************************************************************************)
(* The connection to one phone: the handset service, the profile manager   *)
(* with the HFP profile and the connection manager above Bluestack and the *)
(* HFP library, driven by the phone, by the users of the handset service   *)
(* (the multipoint state machine and the topology) and by time.            *)
(*                                                                         *)
(* All of them run in one task loop: a message is taken from the queue at  *)
(* a time, the first one whose lock is free.                               *)
(***************************************************************************)
EXTENDS HandsetFlow

CONSTANTS
  Backlog,    \* how many messages wait when the world outside goes on
  LeLinks,    \* whether the phone also opens an LE link
  MaxUsers    \* how many users of the link there are when one more connection is asked for

VARIABLES
  conn, le,     \* the connection manager's records
  air, leAir,   \* Bluestack's links
  slc,          \* the HFP library's service level connection
  hfp,          \* the HFP instance
  pm,           \* the profile manager's request
  connected,    \* the HFP bit of the connected profiles
  hs,           \* the handset service's instance
  queue, later, \* the messages and the timers
  waiting,      \* the users who wait for an answer
  panic

vars == <<conn, le, air, leAir, slc, hfp, pm, connected, hs, queue, later, waiting, panic>>

World == [conn |-> conn, le |-> le, air |-> air, leAir |-> leAir, slc |-> slc, hfp |-> hfp,
          pm |-> pm, connected |-> connected, hs |-> hs, queue |-> queue, later |-> later,
          waiting |-> waiting, panic |-> panic]

Become(w) ==
  /\ ~panic
  /\ conn' = w.conn /\ le' = w.le /\ air' = w.air /\ leAir' = w.leAir
  /\ slc' = w.slc /\ hfp' = w.hfp /\ pm' = w.pm /\ connected' = w.connected
  /\ hs' = w.hs /\ queue' = w.queue /\ later' = w.later
  /\ waiting' = w.waiting /\ panic' = w.panic

Init ==
  /\ conn = NoConnection /\ le = "NONE" /\ air = LinkDown /\ leAir = "DOWN"
  /\ slc = "DOWN" /\ hfp = NoHfp /\ pm = NoRequest /\ connected = FALSE
  /\ hs = NoHandset /\ queue = << >> /\ later = NoTimers /\ waiting = {} /\ panic = FALSE

---------------------------------------------------------------------------
(* The task loop.                                                          *)

\* A message sent conditionally stays until its lock is free.
Blocked(m) ==
  CASE m.id = "CONNECT_ACL_COMPLETE" -> AclLocked(World)
    [] m.id = "HFP_CONNECT_REQ" -> IF m.again THEN HfpLocked(World) ELSE AclLocked(World)
    [] m.id = "HFP_DISCONNECT_REQ" -> HfpLocked(World)
    [] OTHER -> FALSE

Handle(w, m) ==
  CASE m.id = "OPEN_ACL" -> HandleOpenAcl(w)
    [] m.id = "ACL_OPENED_IND" -> HandleAclOpened(w, m.success, m.incoming)
    [] m.id = "ACL_CLOSED_IND" -> HandleAclClosed(w, m.reason)
    [] m.id = "LE_OPENED_IND" -> HandleLeOpened(w)
    [] m.id = "LE_CLOSED_IND" -> HandleLeClosed(w)
    [] m.id = "TP_CONNECT_IND" ->
         IF m.transport = "BLE" THEN HandleLeConnectInd(w) ELSE HandleBredrConnectInd(w, m.incoming)
    [] m.id = "TP_DISCONNECT_IND" ->
         IF m.transport = "BLE" THEN HandleLeDisconnectInd(w) ELSE HandleBredrDisconnectInd(w, m.reason)
    [] m.id = "SLC_CONNECT_IND" -> HandleSlcConnectInd(w)
    [] m.id = "SLC_CONNECT_CFM" -> HandleSlcConnectCfm(w, m.success)
    [] m.id = "SLC_DISCONNECT_IND" -> HandleSlcDisconnectInd(w, m.loss)
    [] m.id = "HFP_CONNECT_REQ" -> HandleHfpConnectReq(w)
    [] m.id = "HFP_DISCONNECT_REQ" -> HandleHfpDisconnectReq(w)
    [] m.id = "CONNECT_PROFILES_CFM" -> HandleProfilesConnectCfm(w, m.result)
    [] m.id = "DISCONNECT_PROFILES_CFM" -> HandleProfilesDisconnectCfm(w, m.result)
    [] m.id = "CONNECTED_PROFILE_IND" -> HandleConnectedInd(w)
    [] m.id = "DISCONNECTED_PROFILE_IND" -> HandleDisconnectedInd(w)
    [] m.id = "CONNECT_REQ" -> HandleConnectReq(w, m.wants)
    [] m.id = "DISCONNECT_REQ" -> HandleDisconnectReq(w)
    [] m.id = "CONNECT_STOP_REQ" -> HandleConnectStop(w)
    [] m.id = "CONNECT_ACL_COMPLETE" -> HandleConnectAclComplete(w)
    [] m.id = "CONNECT_ACL_RETRY_REQ" -> HandleConnectAclRetry(w)
    [] m.id = "CONNECT_PROFILES_REQ" -> HandleConnectProfilesReq(w)
    [] m.id = "DISCONNECT_CFM" -> DisconnectNext(w, m.success)

Deliver ==
  \E n \in DOMAIN queue :
    /\ ~Blocked(queue[n]) /\ \A k \in 1..(n - 1) : Blocked(queue[k])
    /\ Become(Handle([World EXCEPT !.queue = SubSeq(queue, 1, n - 1) \o SubSeq(queue, n + 1, Len(queue))],
                     queue[n]))

\* A timer runs out.
Due ==
  \E id \in Timers : later[id] > 0 /\ Become(Send([World EXCEPT !.later[id] = @ - 1], [id |-> id]))

---------------------------------------------------------------------------
(* The users, each with one request at a time.                             *)

Room == Len(queue) < Backlog

Posted(id) == \E n \in DOMAIN queue : queue[n].id = id

\* The firmware finishes what it began, whatever waits for a lock.
Soon == Room \/ (\A n \in DOMAIN queue : Blocked(queue[n]))

\* handsetServiceMultipointSm_EnterGetDeviceToConnect
Connect ==
  /\ Room /\ "connect" \notin waiting /\ conn.users < MaxUsers
  /\ hs.state \notin {"CONNECTING_ACL", "CONNECTING_PROFILES"}
  /\ Become(ConnectRequest([World EXCEPT !.waiting = @ \cup {"connect"}]))

\* handsetServiceMultipointSm_StopHandsetReconnectionInProgress
Stop ==
  /\ Room /\ "stop" \notin waiting
  /\ hs.state \in {"CONNECTING_ACL", "CONNECTING_PROFILES"}
  /\ Become(StopConnect([World EXCEPT !.waiting = @ \cup {"stop"}]))

\* HandsetService_DisconnectAll
DisconnectAll ==
  /\ Room /\ "all" \notin waiting
  /\ Connected(World)
  /\ Become(DisconnectRequest([World EXCEPT !.waiting = @ \cup {"all"}]))

---------------------------------------------------------------------------
(* Bluestack, the HFP library and the phone.                               *)

PhoneOpens ==
  /\ Room /\ air.state # "UP" /\ slc = "DOWN"
  /\ Become(LinkUp(World, TRUE))

\* The page that DM_ACL_OPEN_REQ started ends.
PageUnderWay == air.state = "PAGING" /\ slc = "DOWN"
PageAnswered(success) ==
  Soon /\ PageUnderWay /\ Become(IF success THEN LinkUp(World, FALSE) ELSE PageFails(World))

\* DM_ACL_CLOSE_REQ is carried out: at once when forced, else without a profile on the link.
CloseDue == air.state = "UP" /\ (air.close = "force" \/ (air.close = "soft" /\ slc = "DOWN"))
CloseCarriedOut ==
  /\ Soon /\ CloseDue
  /\ Become(Send([World EXCEPT !.air = LinkDown], [id |-> "ACL_CLOSED_IND", reason |-> "local"]))

LinkDrops(reason) ==
  /\ Room /\ air.state = "UP"
  /\ Become(Send([World EXCEPT !.air = LinkDown], [id |-> "ACL_CLOSED_IND", reason |-> reason]))

\* hfpHandleRfcommConnectInd: the library runs in the same task loop, so it
\* hears of the channel when the link's own indication has been handled, and of
\* the commands that follow when its own has.
PhoneConnectsHfp ==
  /\ Room /\ air.state = "UP" /\ slc = "DOWN" /\ ~Posted("ACL_OPENED_IND")
  /\ Become(Send([World EXCEPT !.slc = "REMOTE"], [id |-> "SLC_CONNECT_IND"]))

SlcDue == slc \in {"LOCAL", "REMOTE"} /\ ~Posted("SLC_CONNECT_IND")
SlcOpened(success) ==
  /\ Soon /\ SlcDue /\ (success => air.state = "UP")
  /\ Become(Send([World EXCEPT !.slc = IF success THEN "UP" ELSE "DOWN"],
                 [id |-> "SLC_CONNECT_CFM", success |-> success]))

\* By request, with the link (perhaps as a link loss), or by the phone.
SlcEndDue == slc = "CLOSING" \/ (slc = "UP" /\ air.state # "UP")
SlcClosed(loss) ==
  /\ ((Soon /\ SlcEndDue) \/ (Room /\ slc = "UP")) /\ (loss => air.state # "UP")
  /\ Become(Send([World EXCEPT !.slc = "DOWN"], [id |-> "SLC_DISCONNECT_IND", loss |-> loss]))

PhoneOpensLe ==
  /\ Room /\ LeLinks /\ leAir = "DOWN"
  /\ Become(Send([World EXCEPT !.leAir = "UP"], [id |-> "LE_OPENED_IND"]))

LeCloseDue == leAir = "CLOSING"
LeCloses ==
  /\ (Soon /\ LeCloseDue) \/ (Room /\ leAir = "UP")
  /\ Become(Send([World EXCEPT !.leAir = "DOWN"], [id |-> "LE_CLOSED_IND"]))

Outside ==
  \/ Connect \/ Stop \/ DisconnectAll
  \/ PhoneOpens \/ CloseCarriedOut \/ PhoneConnectsHfp
  \/ \E success \in BOOLEAN : PageAnswered(success) \/ SlcOpened(success)
  \/ \E reason \in {"timeout", "remote"} : LinkDrops(reason)
  \/ \E loss \in BOOLEAN : SlcClosed(loss)
  \/ PhoneOpensLe \/ LeCloses

Next == Deliver \/ Due \/ Outside

Spec == Init /\ [][Next]_vars

CanDeliver == \E n \in DOMAIN queue : ~Blocked(queue[n])
PageOver   == \E success \in BOOLEAN : PageAnswered(success)
SlcOver    == \E success \in BOOLEAN : SlcOpened(success)
SlcEnded   == \E loss \in BOOLEAN : SlcClosed(loss)

\* A message is taken, a timer runs out, Bluestack and the library finish what
\* they began.
FairSpec ==
  /\ Spec
  /\ <>[]CanDeliver => []<><<Deliver>>_vars
  /\ WF_vars(Due)
  /\ <>[]PageUnderWay => []<><<PageOver>>_vars
  /\ <>[]CloseDue => []<><<CloseCarriedOut>>_vars
  /\ <>[]SlcDue => []<><<SlcOver>>_vars
  /\ <>[]SlcEndDue => []<><<SlcEnded>>_vars
  /\ <>[]LeCloseDue => []<><<LeCloses>>_vars

---------------------------------------------------------------------------
(* Properties.                                                             *)

Messages ==
       [id : {"OPEN_ACL", "LE_OPENED_IND", "LE_CLOSED_IND", "SLC_CONNECT_IND", "HFP_DISCONNECT_REQ",
              "CONNECTED_PROFILE_IND", "DISCONNECTED_PROFILE_IND", "DISCONNECT_REQ",
              "CONNECT_STOP_REQ", "CONNECT_ACL_COMPLETE", "CONNECT_ACL_RETRY_REQ",
              "CONNECT_PROFILES_REQ"}]
  \cup [id : {"ACL_OPENED_IND"}, success : BOOLEAN, incoming : BOOLEAN]
  \cup [id : {"ACL_CLOSED_IND"}, reason : {"timeout", "remote", "local"}]
  \cup [id : {"TP_CONNECT_IND"}, transport : {"BREDR", "BLE"}, incoming : BOOLEAN]
  \cup [id : {"TP_DISCONNECT_IND"}, transport : {"BREDR", "BLE"}, reason : {"timeout", "remote", "local"}]
  \cup [id : {"SLC_CONNECT_CFM", "DISCONNECT_CFM"}, success : BOOLEAN]
  \cup [id : {"SLC_DISCONNECT_IND"}, loss : BOOLEAN]
  \cup [id : {"HFP_CONNECT_REQ"}, again : BOOLEAN]
  \cup [id : {"CONNECT_REQ"}, wants : BOOLEAN]
  \cup [id : {"CONNECT_PROFILES_CFM", "DISCONNECT_PROFILES_CFM"}, result : {"success", "failed", "cancelled"}]

\* The components keep to their states, the queue to the messages they know.
TypeOK ==
  /\ conn \in [state : {"NONE", "CONNECTING_INTERNAL", "CONNECTING", "CONNECTED", "LINK_LOSS"},
               users : Nat, local : BOOLEAN]
  /\ le \in {"NONE", "CONNECTED"} /\ leAir \in {"DOWN", "UP", "CLOSING"}
  /\ air \in [state : {"DOWN", "PAGING", "UP"}, close : {"no", "soft", "force"}]
  /\ slc \in {"DOWN", "LOCAL", "REMOTE", "UP", "CLOSING"}
  /\ hfp \in [state : {"NONE", "DISCONNECTED", "CONNECTING_LOCAL", "CONNECTING_REMOTE", "CONNECTED",
                       "DISCONNECTING"},
              cn : BOOLEAN, dn : BOOLEAN]
  /\ pm \in [order : SUBSET {"connect", "disconnect"}, index : {"none", "asked", "cancelled"},
             clients : SUBSET {"connect", "disconnect"}]
  /\ connected \in BOOLEAN /\ panic \in BOOLEAN
  /\ hs \in [state : {"NULL", "DISCONNECTED", "CONNECTED", "DISCONNECTING"} \cup Connecting,
             wants : BOOLEAN, created : BOOLEAN, attempts : Nat,
             le : {"DISCONNECTED", "CONNECTED", "DISCONNECTING"},
             connects : BOOLEAN, disconnects : BOOLEAN, stop : BOOLEAN]
  /\ \A n \in DOMAIN queue : queue[n] \in Messages
  /\ later \in [Timers -> Nat]
  /\ waiting \subseteq {"connect", "stop", "all"}

\* Nothing is under way: no message, no timer, no page, no opening or closing.
Quiet ==
  /\ queue = << >> /\ later = NoTimers /\ air.state # "PAGING" /\ ~SlcDue /\ ~SlcEndDue
  /\ leAir # "CLOSING" /\ (air.state = "UP" => air.close = "no")

\* Whatever requests, failures and link losses came across each other, once
\* nothing is under way the connected profiles, which the focus and the topology
\* read, agree with the profile, and the profile with the library.
MarkFollowsProfile ==
  Quiet => /\ connected = (hfp.state = "CONNECTED")
           /\ (hfp.state = "CONNECTED") = (slc = "UP")

\* A request to the profile manager is always given an end, also a stopped one
\* and one that another request cancelled: nothing of it is left, and nobody
\* waits on a list, once nothing is under way.
ProfileRequestsEnd ==
  Quiet => pm = NoRequest /\ ~hfp.cn

\* Who waits for the disconnection of the phone is on the list of its instance or
\* is being told: no new connection, stop or loss of a link forgets it.
DisconnectionRemembered ==
  "all" \in waiting =>
    hs.disconnects \/ (\E n \in DOMAIN queue : queue[n].id = "DISCONNECT_CFM")

\* The handset service says CONNECTED of a phone only while there is a link to
\* it, once nothing is under way.
ConnectedHasLink ==
  Quiet /\ hs.state = "CONNECTED" => ConManagerIsConnected(World) /\ air.state = "UP"

\* handset_service.h: when a connection request completes, for whatever reason,
\* the client is told so; and it always completes.
ConnectIsAnswered == []<>("connect" \notin waiting)

\* A phone without an LE link: pages that fail, links that drop, stops and
\* disconnections all end the request, and the attempts are limited (unless an
\* assertion resets the device, see NoPanic).
ConnectIsAnsweredWithoutLe == [](leAir = "DOWN" /\ ~panic) => ConnectIsAnswered

\* profileManager_checkForAndCancelPendingProfileRequest asserts that no request
\* it cancels was stopped before, HandsetServiceSm_SetState that a state is not
\* entered twice.
NoPanic == ~panic
=============================================================================
