---------------------------- MODULE HandsetFlow ----------------------------
(***************************************************************************)
(* services/handset for one phone: the state machine of its connection     *)
(* (handset_service_sm.c), the small one of its LE link                    *)
(* (handset_service_ble_sm.c) and the requests of handset_service.c.       *)
(*                                                                         *)
(* hs is the instance: its state, whether a profile is requested (wants),  *)
(* whether the connecting state opened the link (created), the attempts,   *)
(* the LE state, and the three kinds of client that wait for it: of a      *)
(* connection, of a disconnection, of a stop.  waiting is what those       *)
(* clients themselves still wait for.                                      *)
(***************************************************************************)
EXTENDS ProfileFlow

CONSTANT AttemptLimit   \* acl_connect_attempt_limit of the configuration

NoHandset == [state |-> "NULL", wants |-> FALSE, created |-> FALSE, attempts |-> 0,
              le |-> "DISCONNECTED", connects |-> FALSE, disconnects |-> FALSE, stop |-> FALSE]

\* handsetServiceSm_IsConnectingBredrState, HandsetServiceSm_IsBredrAclConnected
Connecting == {"CONNECTING_ACL", "CONNECTING_PROFILES", "STOP_CONNECTING_PROFILES"}
BredrAclConnected == {"CONNECTING_PROFILES", "CONNECTED", "DISCONNECTING"}

\* The messages of the instance's own task, which go with it.
SmMessages == {"CONNECT_REQ", "DISCONNECT_REQ", "CONNECT_STOP_REQ", "CONNECT_ACL_COMPLETE",
               "CONNECT_ACL_RETRY_REQ", "CONNECT_PROFILES_REQ",
               "CONNECT_PROFILES_CFM", "DISCONNECT_PROFILES_CFM"}

BleIsConnected(w) == w.hs.le \in {"CONNECTED", "DISCONNECTING"} /\ ConManagerIsTpConnected(w)

BredrDisconnected(w) == ~ConManagerIsConnected(w) /\ ~w.connected
AllConnectionsDisconnected(w) == BredrDisconnected(w) /\ ~BleIsConnected(w)

---------------------------------------------------------------------------
(* Answers to the clients.                                                 *)

Answered(w, had, what) == [w EXCEPT !.waiting = IF had THEN @ \ {what} ELSE @]

\* HandsetServiceSm_CompleteConnectRequests: requests not looked at yet go, too.
CompleteConnectRequests(w) ==
  Cancel([Answered(w, w.hs.connects, "connect") EXCEPT !.hs.connects = FALSE],
         {"CONNECT_REQ", "CONNECT_ACL_RETRY_REQ"})

\* HandsetServiceSm_CompleteDisconnectRequests
CompleteDisconnectRequests(w, success) ==
  Cancel(IF w.hs.disconnects
           THEN Send([w EXCEPT !.hs.disconnects = FALSE], [id |-> "DISCONNECT_CFM", success |-> success])
           ELSE w,
         {"DISCONNECT_REQ"})

CompleteConnectStopRequests(w) == [Answered(w, w.hs.stop, "stop") EXCEPT !.hs.stop = FALSE]

\* HandsetServiceSm_DeInit: the clients are forgotten, the messages flushed.
DeInit(w) == [Cancel(w, SmMessages) EXCEPT !.hs = NoHandset]

\* handsetService_CreateSm, handsetService_CreateLeSm
FindOrCreate(w) == IF w.hs.state = "NULL" THEN [w EXCEPT !.hs.state = "DISCONNECTED"] ELSE w

\* HandsetService_BleDisconnectIfConnected, handsetService_BleSmEnterDisconnecting
BleDisconnectIfConnected(w) ==
  IF ~BleIsConnected(w) THEN w
  ELSE [(IF w.hs.le = "CONNECTED" THEN ReleaseTpAcl(w) ELSE w) EXCEPT !.hs.le = "DISCONNECTING"]

---------------------------------------------------------------------------
(* HandsetServiceSm_SetState: the exit of the old state, then the entries. *)

\* The exit of a state on the way to another one.
ExitState(w, state) ==
  CASE w.hs.state = "DISCONNECTING" /\ state = "DISCONNECTED" -> BleDisconnectIfConnected(w)
    [] w.hs.state = "CONNECTING_ACL" ->
         [Cancel(w, {"CONNECT_ACL_RETRY_REQ"}) EXCEPT !.hs.attempts = 0]
    [] w.hs.state = "CONNECTING_PROFILES" -> CancelFirst(w, "CONNECT_PROFILES_REQ")
    [] w.hs.state = "STOP_CONNECTING_PROFILES" -> CancelFirst(w, "CONNECT_STOP_REQ")
    [] OTHER -> w

\* handsetServiceSm_ExitConnectingBredr: the three connecting states hold the link together.
ExitConnecting(w, state) ==
  IF w.hs.state \in Connecting /\ state \notin Connecting /\ w.hs.created THEN ReleaseAcl(w) ELSE w

\* Up to the entry of the new state, and handsetServiceSm_EnterConnectingBredr
Leave(w, state) ==
  [ExitConnecting(ExitState(w, state), state) EXCEPT
     !.hs.state   = state,
     !.hs.created = @ /\ ~(w.hs.state \notin Connecting /\ state \in Connecting)]

\* Mutant: the instance goes before the disconnection is confirmed.
EnterDisconnectedForgetting(w) ==
  LET told == CompleteConnectRequests(CompleteConnectStopRequests(w))
  IN IF AllConnectionsDisconnected(w) THEN DeInit(told) ELSE told

EnterDisconnected(w) ==
  LET told == CompleteConnectRequests(CompleteConnectStopRequests(w))
  IN IF AllConnectionsDisconnected(w) THEN DeInit(CompleteDisconnectRequests(told, TRUE)) ELSE told

EnterConnected(w) ==
  CompleteDisconnectRequests(CompleteConnectRequests(CompleteConnectStopRequests(w)), FALSE)

\* To DISCONNECTED or CONNECTED; the assertion is on entering the same state again.
Settle(w, state) ==
  IF w.hs.state = state THEN Panic(w)
  ELSE IF state = "CONNECTED" THEN EnterConnected(Leave(w, state))
  ELSE EnterDisconnected(Leave(w, state))

\* Mutant: the attempts are not counted.
ConnectAclUncounted(w) ==
  Send(CreateAcl([w EXCEPT !.hs.created = TRUE]), [id |-> "CONNECT_ACL_COMPLETE"])

\* handsetService_ConnectAcl
ConnectAcl(w) ==
  Send(CreateAcl([w EXCEPT !.hs.created = TRUE, !.hs.attempts = @ + 1]), [id |-> "CONNECT_ACL_COMPLETE"])

BeginAcl(w) == ConnectAcl(Leave(w, "CONNECTING_ACL"))

\* handsetServiceSm_ConnectRequestedProfiles
ConnectRequestedProfiles(w) ==
  IF ~w.hs.wants \/ w.connected THEN Settle(w, "CONNECTED") ELSE ProfilesRequest(w, "connect")

\* handsetServiceSm_EnterConnectingBredrProfiles: a phone that opened the link
\* gets some time to open its profiles.
BeginProfiles(w) ==
  LET in == [Leave(w, "CONNECTING_PROFILES") EXCEPT !.hs.wants = @ /\ ~w.connected]
  IN IF ConManagerIsAclLocal(w) THEN ConnectRequestedProfiles(in)
     ELSE SendLater([in EXCEPT !.hs.wants = @ \/ ~w.connected], "CONNECT_PROFILES_REQ")

\* handsetServiceSm_EnterStopConnectingBredrProfiles
StopProfiles(w) ==
  LET in == Leave(w, "STOP_CONNECTING_PROFILES")
  IN IF CanStopRequest(in) THEN StopRequest(in)
     ELSE Settle(in, IF ConManagerIsConnected(in) THEN "CONNECTED" ELSE "DISCONNECTED")

\* handsetServiceSm_TryDisconnectingBredr: the profiles first, then the link
TryDisconnecting(w) ==
  IF w.hs.wants \/ w.connected THEN [ProfilesRequest(w, "disconnect") EXCEPT !.hs.wants = FALSE]
  ELSE IF ConManagerIsConnected(w) THEN SendCloseAcl(w, TRUE)
  ELSE Settle(w, "DISCONNECTED")

BeginDisconnecting(w) == TryDisconnecting(Leave(w, "DISCONNECTING"))

---------------------------------------------------------------------------
(* The requests.                                                           *)

\* handsetServiceSm_HandleInternalConnectReq
HandleConnectReq(w, wants) ==
  CASE w.hs.state \in {"DISCONNECTED", "DISCONNECTING"} ->
         LET new == [w EXCEPT !.hs.wants = wants]
         IN IF ~ConManagerIsConnected(w) THEN BeginAcl(new)
            ELSE IF wants THEN BeginProfiles(new) ELSE Settle(new, "CONNECTED")
    [] w.hs.state = "CONNECTED" ->
         IF wants /\ ~w.connected THEN BeginProfiles([w EXCEPT !.hs.wants = TRUE])
         ELSE CompleteConnectRequests(w)
    [] OTHER -> w

\* handsetServiceSm_HandleInternalDisconnectReq, for the BR/EDR side
DisconnectBredr(w) ==
  CASE w.hs.state = "DISCONNECTED" ->
         IF BleIsConnected(w) THEN w ELSE CompleteDisconnectRequests(w, TRUE)
    [] w.hs.state = "CONNECTING_ACL" -> Settle(w, "DISCONNECTED")
    [] w.hs.state \in {"STOP_CONNECTING_PROFILES", "CONNECTING_PROFILES"} -> BeginDisconnecting(w)
    [] w.hs.state = "CONNECTED" ->
         IF BredrDisconnected(w) THEN Settle(w, "DISCONNECTED") ELSE BeginDisconnecting(w)
    [] OTHER -> w

HandleDisconnectReq(w) == BleDisconnectIfConnected(DisconnectBredr(w))

\* handsetServiceSm_HandleInternalConnectAclComplete: on a new link no profile
\* can be connected, so the mark is cleared.
HandleConnectAclComplete(w) ==
  IF w.hs.state # "CONNECTING_ACL" THEN w
  ELSE IF ConManagerIsConnected(w)
    THEN IF w.hs.wants THEN BeginProfiles([w EXCEPT !.connected = FALSE]) ELSE Settle(w, "CONNECTED")
  ELSE IF w.hs.attempts < AttemptLimit THEN SendLater(w, "CONNECT_ACL_RETRY_REQ")
  ELSE Settle(w, "DISCONNECTED")

\* handsetService_HandleInternalConnectStop
HandleConnectStop(w) ==
  CASE w.hs.state = "CONNECTING_ACL" -> Settle(w, "DISCONNECTED")
    [] w.hs.state = "CONNECTING_PROFILES" -> StopProfiles(w)
    [] w.hs.state \in {"DISCONNECTED", "CONNECTED"} -> CompleteConnectStopRequests(w)
    [] OTHER -> w

HandleConnectAclRetry(w) == IF w.hs.state = "CONNECTING_ACL" THEN ConnectAcl(w) ELSE w

HandleConnectProfilesReq(w) ==
  IF w.hs.state = "CONNECTING_PROFILES" THEN ConnectRequestedProfiles(w) ELSE w

---------------------------------------------------------------------------
(* What the profile manager says.                                          *)

\* handsetServiceSm_HandleProfileManagerConnectCfm
HandleProfilesConnectCfm(w, result) ==
  LET next == CASE w.hs.state \in {"STOP_CONNECTING_PROFILES", "CONNECTING_PROFILES"} ->
                     Settle(w, IF result # "success" /\ BredrDisconnected(w)
                                 THEN "DISCONNECTED" ELSE "CONNECTED")
                [] w.hs.state = "DISCONNECTING" /\ BredrDisconnected(w) -> Settle(w, "DISCONNECTED")
                [] OTHER -> w
  IN [next EXCEPT !.hs.wants = FALSE]

\* handsetServiceSm_HandleProfileManagerDisconnectCfm
HandleProfilesDisconnectCfm(w, result) ==
  IF w.hs.state = "DISCONNECTING" /\ result = "success" THEN TryDisconnecting(w) ELSE w

\* handsetServiceSm_RestartProfileConnectionTimeout
RestartProfileTimeout(w) ==
  IF Pending(w, "CONNECT_PROFILES_REQ")
    THEN SendLater(CancelFirst(w, "CONNECT_PROFILES_REQ"), "CONNECT_PROFILES_REQ")
    ELSE w

\* handsetServiceSm_AreAllRequestedProfilesConnected
AreAllRequestedProfilesConnected(w) == w.hs.state \in BredrAclConnected /\ ~(w.hs.wants /\ ~w.connected)

\* HandsetServiceSm_HandleProfileManagerConnectedInd, for a phone that is known
HandleConnectedInd(w0) ==
  LET w == FindOrCreate(w0)
  IN CASE w.hs.state = "DISCONNECTED" -> Settle(w, "CONNECTED")
       [] w.hs.state \in {"CONNECTING_PROFILES", "STOP_CONNECTING_PROFILES"} ->
            [(IF AreAllRequestedProfilesConnected(w) THEN Settle(w, "CONNECTED")
              ELSE RestartProfileTimeout(w)) EXCEPT !.hs.wants = FALSE]
       [] OTHER -> w

\* HandsetServiceSm_HandleProfileManagerDisconnectedInd
HandleDisconnectedInd(w) ==
  IF w.hs.state \in Connecting \cup {"CONNECTED"} /\ BredrDisconnected(w)
    THEN Settle(w, "DISCONNECTED") ELSE w

---------------------------------------------------------------------------
(* What the connection manager says.                                       *)

\* handsetService_HandleConManagerTpConnectInd for BR/EDR: only incoming links.
\* A wait for the next attempt is cut short.
HandleBredrConnectInd(w0, incoming) ==
  LET w == [FindOrCreate(w0) EXCEPT !.connected = FALSE]
  IN IF ~incoming THEN w0
     ELSE IF w.hs.state = "DISCONNECTED" THEN BeginProfiles(w)
     ELSE IF w.hs.state = "CONNECTING_ACL" /\ Pending(w, "CONNECT_ACL_RETRY_REQ")
       THEN Send(CancelFirst(w, "CONNECT_ACL_RETRY_REQ"), [id |-> "CONNECT_ACL_COMPLETE"])
     ELSE w

\* Mutant: the loss of the link is left to the profiles.
HandleBredrDisconnectIndByProfiles(w, reason) ==
  IF w.hs.state = "NULL" \/ ~(BredrDisconnected(w) \/ reason = "local") THEN w
  ELSE CASE w.hs.state = "CONNECTING_PROFILES" -> StopProfiles(w)
         [] w.hs.state = "CONNECTING_ACL" -> Settle(w, "DISCONNECTED")
         [] w.hs.state = "DISCONNECTING" -> Settle([w EXCEPT !.connected = FALSE], "DISCONNECTED")
         [] OTHER -> w

\* HandsetServiceSm_HandleConManagerBredrTpDisconnectInd
HandleBredrDisconnectInd(w, reason) ==
  IF w.hs.state = "NULL" \/ ~(BredrDisconnected(w) \/ reason = "local") THEN w
  ELSE CASE w.hs.state = "CONNECTING_PROFILES" -> StopProfiles(w)
         [] w.hs.state \in {"CONNECTING_ACL", "CONNECTED"} -> Settle(w, "DISCONNECTED")
         [] w.hs.state = "DISCONNECTING" -> Settle([w EXCEPT !.connected = FALSE], "DISCONNECTED")
         [] OTHER -> w

\* HandsetService_BleHandleConnected
HandleLeConnectInd(w) == [FindOrCreate(w) EXCEPT !.hs.le = "CONNECTED"]

\* handsetService_BleSmEnterDisconnected: the instance goes when nothing is connected
HandleLeDisconnectInd(w) ==
  LET down == [w EXCEPT !.hs.le = "DISCONNECTED"]
  IN IF w.hs.state = "NULL" \/ w.hs.le = "DISCONNECTED" THEN w
     ELSE IF AllConnectionsDisconnected(down) THEN DeInit(CompleteDisconnectRequests(down, TRUE))
     ELSE down

---------------------------------------------------------------------------
(* The services of handset_service.c.                                      *)

\* handsetService_ConnectReq: waiting disconnections are over.
ConnectRequest(w) ==
  LET new == CompleteDisconnectRequests(FindOrCreate(w), FALSE)
  IN Send([new EXCEPT !.hs.connects = TRUE], [id |-> "CONNECT_REQ", wants |-> ~w.connected])

\* HandsetService_StopConnect
StopConnect(w) ==
  Cancel(Send([w EXCEPT !.hs.stop = TRUE], [id |-> "CONNECT_STOP_REQ"]),
         {"CONNECT_REQ", "CONNECT_ACL_RETRY_REQ"})

\* HandsetService_DisconnectTpAddrRequest
DisconnectRequest(w) ==
  Send([CompleteConnectRequests(w) EXCEPT !.hs.disconnects = TRUE], [id |-> "DISCONNECT_REQ"])

\* handsetService_DisconnectOneConnectedHandset: BR/EDR links first, then LE
Connected(w) == w.hs.state \in BredrAclConnected \/ BleIsConnected(w)

DisconnectNext(w, success) ==
  IF success /\ Connected(w) THEN DisconnectRequest(w) ELSE Answered(w, TRUE, "all")
=============================================================================
