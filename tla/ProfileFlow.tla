---------------------------- MODULE ProfileFlow ----------------------------
(***************************************************************************)
(* domains/bt/profile_manager and the HFP profile it drives, for one phone *)
(* on which HFP is the only profile: the list of profiles a request names  *)
(* is <<HFP>>, so the request index is either unset, at HFP, or at HFP     *)
(* with the cancelled bit.                                                 *)
(*                                                                         *)
(* The world has connected, the HFP bit of the device's connected profiles;*)
(* pm, the device's request properties (the orders set, the index) and the *)
(* kinds of request the handset service waits for; hfp, the instance with  *)
(* its state and whether the manager is on its connect (cn) and disconnect *)
(* (dn) notify lists; slc, the service level connection in the library.    *)
(***************************************************************************)
EXTENDS ConnectionFlow

NoRequest == [order |-> {}, index |-> "none", clients |-> {}]
Opposite(type) == IF type = "connect" THEN "disconnect" ELSE "connect"

\* PanicFalse and assert: nothing runs any more.
Panic(w) == [w EXCEPT !.panic = TRUE]

NoHfp == [state |-> "NONE", cn |-> FALSE, dn |-> FALSE]
HfpIsDisconnected(w) == w.hfp.state \in {"NONE", "DISCONNECTED"}
HfpIsConnecting(w)   == w.hfp.state \in {"CONNECTING_LOCAL", "CONNECTING_REMOTE"}
HfpLocked(w)         == HfpIsConnecting(w) \/ w.hfp.state = "DISCONNECTING"

---------------------------------------------------------------------------
(* The profile manager hears from the profile.                             *)

\* profileManager_SendConfirmationToRequestor: whoever asked is told and leaves the list
SendConfirmation(w, type, result) ==
  IF type \notin w.pm.clients THEN w
  ELSE Send([w EXCEPT !.pm.clients = @ \ {type}],
            [id |-> IF type = "connect" THEN "CONNECT_PROFILES_CFM" ELSE "DISCONNECT_PROFILES_CFM",
             result |-> result])

\* profileManager_RemoveRequestDeviceProperties
RemoveRequest(w, type) == [w EXCEPT !.pm.index = "none", !.pm.order = @ \ {type}]

\* The end of profileManager_NextProfile: no profile is left in the list.
Complete(w, type) ==
  SendConfirmation(RemoveRequest(w, type), type,
                   IF type = "disconnect" \/ w.connected THEN "success" ELSE "failed")

\* Mutant: a stopped request is left open.
NextOnIndicationUnlessStopped(w, type) ==
  IF type \notin w.pm.clients \cap w.pm.order \/ w.pm.index # "asked" THEN w
  ELSE Complete(w, type)

\* profileManager_RequestNextProfileOnIndication, for the profile last requested
NextOnIndication(w, type) ==
  CASE type \notin w.pm.clients \cap w.pm.order \/ w.pm.index = "none" -> w
    [] type \in w.pm.clients \cap w.pm.order /\ w.pm.index = "asked" -> Complete(w, type)
    [] OTHER -> SendConfirmation(RemoveRequest(w, "connect"), "connect", "cancelled")

\* ProfileManager_GenericConnectedInd; a request goes on before the clients are told.
GenericConnectedInd(w) ==
  Send(NextOnIndication([w EXCEPT !.connected = TRUE], "connect"), [id |-> "CONNECTED_PROFILE_IND"])

\* Mutant: the profile stays marked as connected.
GenericDisconnectedIndKeepingMark(w) ==
  Send(NextOnIndication(w, "disconnect"), [id |-> "DISCONNECTED_PROFILE_IND"])

\* ProfileManager_GenericDisconnectedInd, and ProfileManager_GenericDisconnectCfm on success
GenericDisconnectedInd(w) ==
  Send(NextOnIndication([w EXCEPT !.connected = FALSE], "disconnect"),
       [id |-> "DISCONNECTED_PROFILE_IND"])

\* hfpProfile_Disconnect: confirmed at once when there is nothing to disconnect
HfpDisconnect(w) ==
  IF HfpIsDisconnected(w)
    THEN [GenericDisconnectedInd([w EXCEPT !.hfp.dn = TRUE]) EXCEPT !.hfp.dn = FALSE]
    ELSE Send([w EXCEPT !.hfp.dn = TRUE], [id |-> "HFP_DISCONNECT_REQ"])

\* ProfileManager_GenericConnectCfm: connecting while a disconnection is under way
\* is followed by another disconnection.
GenericConnectCfm(w, successful) ==
  IF ~successful THEN NextOnIndication(w, "connect")
  ELSE IF w.pm.index = "asked" /\ "disconnect" \in w.pm.order THEN HfpDisconnect(w)
  ELSE GenericConnectedInd(w)

\* ProfileManager_NotifyConfirmation for the profile's connect list: told, then removed
ConfirmConnect(w, successful) == [GenericConnectCfm(w, successful) EXCEPT !.hfp.cn = FALSE]

\* HfpProfile_ConnectWithBdAddr: the link gets one more user
HfpConnectWithBdAddr(w) ==
  Send(CreateAcl([w EXCEPT !.hfp.state = IF @ = "NONE" THEN "DISCONNECTED" ELSE @]),
       [id |-> "HFP_CONNECT_REQ", again |-> FALSE])

\* hfpProfile_Connect: confirmed at once when it is connected already
HfpConnect(w) ==
  LET listed == [w EXCEPT !.hfp.cn = TRUE]
  IN  IF w.hfp.state = "CONNECTED" THEN ConfirmConnect(listed, TRUE) ELSE HfpConnectWithBdAddr(listed)

---------------------------------------------------------------------------
(* Requests to the profile manager.                                        *)

Issue(w, type) == IF type = "connect" THEN HfpConnect(w) ELSE HfpDisconnect(w)

\* profileManager_checkForAndCancelPendingProfileRequest: the profile being
\* requested is asked for the opposite; a stopped request must have ended.
CancelPending(w, type) ==
  IF w.pm.index = "none" THEN w
  ELSE IF w.pm.index = "cancelled" THEN Panic(w)
  ELSE SendConfirmation(
         RemoveRequest(IF Opposite(type) \in w.pm.order THEN Issue(w, type) ELSE w,
                       Opposite(type)),
         Opposite(type), "cancelled")

\* profileManager_HandleRequest with the order property set by the caller, which
\* takes a refusal for an error.
ProfilesRequest(w, type) ==
  LET set  == [w EXCEPT !.pm.order = @ \cup {type}]
      free == CancelPending(set, type)
      new  == [free EXCEPT !.pm.clients = @ \cup {type}, !.pm.index = "asked"]
  IN IF type \in w.pm.clients THEN Panic(w)
     ELSE IF free.panic THEN free
     ELSE IF new.connected = (type = "connect") THEN Complete(new, type)
     ELSE Issue(new, type)

\* ProfileManager_StopConnectProfilesRequest: whether there is something to stop
CanStopRequest(w) == "connect" \in w.pm.clients /\ w.pm.index # "none"
StopRequest(w) == [w EXCEPT !.pm.index = "cancelled"]

---------------------------------------------------------------------------
(* The HFP state machine.                                                  *)

\* appHfpSetState up to the state entry: the connecting state gives its hold on the link back.
HfpSetState(w, state) ==
  [(IF w.hfp.state = "CONNECTING_LOCAL" THEN ReleaseAcl(w) ELSE w) EXCEPT !.hfp.state = state]

\* appHfpEnterConnected
HfpEnterConnected(w) ==
  LET up == HfpSetState(w, "CONNECTED")
  IN IF up.hfp.cn THEN ConfirmConnect(up, TRUE) ELSE GenericConnectedInd(up)

\* appHfpEnterDisconnected and HfpProfileInstance_Destroy, which flushes the instance's messages
HfpEnterDisconnected(w, reason) ==
  LET down   == HfpSetState(w, "DISCONNECTED")
      failed == IF down.hfp.cn THEN ConfirmConnect(down, FALSE) ELSE down
      asked  == failed.hfp.dn /\ reason = "normal"
      told   == IF asked THEN [GenericDisconnectedInd(failed) EXCEPT !.hfp.dn = FALSE]
                ELSE IF down.hfp.cn THEN failed
                ELSE GenericDisconnectedInd(failed)
  IN [Cancel(told, {"HFP_CONNECT_REQ", "HFP_DISCONNECT_REQ"}) EXCEPT !.hfp.state = "NONE"]

\* appHfpEnterDisconnecting: HfpSlcDisconnectRequest
HfpStartDisconnecting(w) ==
  [HfpSetState(w, "DISCONNECTING") EXCEPT !.slc = IF @ = "UP" THEN "CLOSING" ELSE @]

\* appHfpHandleInternalHfpConnectRequest
HandleHfpConnectReq(w) ==
  CASE w.hfp.state = "DISCONNECTED" /\ ConManagerIsConnected(w) ->
         [HfpSetState(w, "CONNECTING_LOCAL") EXCEPT !.slc = IF @ = "DOWN" THEN "LOCAL" ELSE @]
    [] w.hfp.state = "DISCONNECTED" /\ ~ConManagerIsConnected(w) ->
         HfpEnterDisconnected(w, "connect failed")
    [] w.hfp.state = "DISCONNECTING" -> Send(w, [id |-> "HFP_CONNECT_REQ", again |-> TRUE])
    [] OTHER -> w

HandleHfpDisconnectReq(w) == IF w.hfp.state = "CONNECTED" THEN HfpStartDisconnecting(w) ELSE w

HandleSlcConnectInd(w) ==
  IF HfpIsDisconnected(w) THEN HfpSetState(w, "CONNECTING_REMOTE") ELSE w

\* hfpProfile_HandleHfpSlcConnectCfm; an answer nobody waits for is an error
HandleSlcConnectCfm(w, success) ==
  CASE HfpIsConnecting(w) /\ success -> HfpEnterConnected(w)
    [] HfpIsConnecting(w) /\ ~success -> HfpEnterDisconnected(w, "connect failed")
    [] w.hfp.state = "CONNECTED" -> HfpStartDisconnecting(w)
    [] OTHER -> w

\* hfpProfile_HandleHfpSlcDisconnectInd, hfpProfile_HandleDisconnectComplete
HandleSlcDisconnectInd(w, loss) ==
  IF w.hfp.state = "NONE" THEN w
  ELSE HfpEnterDisconnected(w, IF loss /\ w.hfp.state \in {"CONNECTING_LOCAL", "CONNECTING_REMOTE", "CONNECTED"}
                                 THEN "link loss" ELSE "normal")
=============================================================================
