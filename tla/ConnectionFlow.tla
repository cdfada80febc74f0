--------------------------- MODULE ConnectionFlow ---------------------------
(***************************************************************************)
(* domains/bt/connection_manager for one phone: the record of its BR/EDR   *)
(* link, held by a number of users, and of its LE link, which the phone    *)
(* opens; the requests to Bluestack and its indications, as far as the     *)
(* manager depends on them.                                                *)
(*                                                                         *)
(* The world has the two records (conn, le), Bluestack's own idea of the   *)
(* links (air, leAir), the queue of messages and the timers (later).       *)
(* air.close says whether the manager gave the link up: "soft" closes it   *)
(* once no profile uses it.                                                *)
(***************************************************************************)
EXTENDS Keeping, Integers, SequencesExt

\* cm_connection_t; "NONE" is an unused record.
NoConnection == [state |-> "NONE", users |-> 0, local |-> FALSE]
LinkDown     == [state |-> "DOWN", close |-> "no"]

Send(w, m) == [w EXCEPT !.queue = Append(@, m)]
Timers == {"CONNECT_ACL_RETRY_REQ", "CONNECT_PROFILES_REQ"}
NoTimers == [id \in Timers |-> 0]

\* MessageSendLater, MessageCancelAll, MessageCancelFirst
SendLater(w, id) == [w EXCEPT !.later[id] = @ + 1]
Cancel(w, ids) == [w EXCEPT !.queue = Without(@, ids),
                            !.later = [id \in Timers |-> IF id \in ids THEN 0 ELSE @[id]]]
CancelFirst(w, id) ==
  IF id \in Timers /\ ~Contains(w.queue, [id |-> id])
    THEN [w EXCEPT !.later[id] = IF @ = 0 THEN 0 ELSE @ - 1]
    ELSE [w EXCEPT !.queue = RemoveFirst(@, [id |-> id])]
Pending(w, id) == w.later[id] > 0 \/ Contains(w.queue, [id |-> id])

ConManagerIsConnected(w) == w.conn.state = "CONNECTED"
ConManagerIsTpConnected(w) == w.le = "CONNECTED"
ConManagerIsAclLocal(w) == w.conn.local

\* The lock of the record: ACL_STATE_LOCK is a bit of both connecting states.
AclLocked(w) == w.conn.state \in {"CONNECTING_INTERNAL", "CONNECTING"}

---------------------------------------------------------------------------
(* Opening and giving up.                                                  *)

\* ConManagerCreateAclImpl: a new link is asked for by a message to itself; a
\* record left by a link loss is used again.  Every caller is one more user.
CreateAcl(w) ==
  CASE w.conn.state = "NONE" ->
         Send([w EXCEPT !.conn = [state |-> "CONNECTING_INTERNAL", users |-> 1, local |-> TRUE]],
              [id |-> "OPEN_ACL"])
    [] w.conn.state = "LINK_LOSS" ->
         Send([w EXCEPT !.conn.state = "CONNECTING_INTERNAL", !.conn.users = @ + 1],
              [id |-> "OPEN_ACL"])
    [] OTHER -> [w EXCEPT !.conn.users = @ + 1]

\* conManagerHandleInternalAclOpenReq: DM_ACL_OPEN_REQ, unless given up since
HandleOpenAcl(w) ==
  IF w.conn.state # "CONNECTING_INTERNAL" THEN w
  ELSE [w EXCEPT !.conn.state = "CONNECTING",
                 !.air = [state |-> IF @.state = "DOWN" THEN "PAGING" ELSE @.state,
                          close |-> "no"]]

\* conManagerSendCloseTpAclRequest: DM_ACL_CLOSE_REQ
SendCloseAcl(w, force) ==
  IF w.air.state = "DOWN" \/ w.air.close = "force" THEN w
  ELSE [w EXCEPT !.air.close = IF force THEN "force" ELSE "soft"]

\* Mutant: a release by nobody is counted.
ReleaseAclUncounted(w) ==
  LET users == w.conn.users - 1
  IN CASE w.conn.state = "NONE" -> w
       [] w.conn.state # "NONE" /\ users # 0 -> [w EXCEPT !.conn.users = users]
       [] w.conn.state = "CONNECTING_INTERNAL" /\ users = 0 -> [w EXCEPT !.conn = NoConnection]
       [] OTHER -> SendCloseAcl([w EXCEPT !.conn.users = 0], FALSE)

\* conManagerReleaseAclImpl for the BR/EDR link
ReleaseAcl(w) ==
  LET users == IF w.conn.users > 0 THEN w.conn.users - 1 ELSE 0
  IN CASE w.conn.state = "NONE" -> w
       [] w.conn.state # "NONE" /\ users > 0 -> [w EXCEPT !.conn.users = users]
       [] w.conn.state = "CONNECTING_INTERNAL" /\ users = 0 -> [w EXCEPT !.conn = NoConnection]
       [] OTHER -> SendCloseAcl([w EXCEPT !.conn.users = 0], FALSE)

\* ... and for the LE link, which has no users: a forced close
ReleaseTpAcl(w) == IF w.le = "NONE" THEN w ELSE [w EXCEPT !.leAir = "CLOSING"]

---------------------------------------------------------------------------
(* Indications from Bluestack.                                             *)

\* ConManagerHandleAclOpenedIndication
HandleAclOpened(w, success, incoming) ==
  IF ~success THEN [w EXCEPT !.conn = NoConnection]
  ELSE Send([w EXCEPT !.conn.state = "CONNECTED", !.conn.local = ~incoming],
            [id |-> "TP_CONNECT_IND", transport |-> "BREDR", incoming |-> incoming])

\* ConManagerHandleAclClosedIndication: the record goes with its users, only a
\* link loss is remembered.
HandleAclClosed(w, reason) ==
  Send([w EXCEPT !.conn = IF reason = "timeout" THEN [NoConnection EXCEPT !.state = "LINK_LOSS"]
                                                ELSE NoConnection],
       [id |-> "TP_DISCONNECT_IND", transport |-> "BREDR", reason |-> reason])

HandleLeOpened(w) ==
  Send([w EXCEPT !.le = "CONNECTED"],
       [id |-> "TP_CONNECT_IND", transport |-> "BLE", incoming |-> TRUE])

HandleLeClosed(w) ==
  Send([w EXCEPT !.le = "NONE"],
       [id |-> "TP_DISCONNECT_IND", transport |-> "BLE", reason |-> "local"])

---------------------------------------------------------------------------
(* Bluestack and the phone.                                                *)

\* The link comes up, paged by either side, or the page fails.
LinkUp(w, incoming) ==
  Send([w EXCEPT !.air = [@ EXCEPT !.state = "UP"]],
       [id |-> "ACL_OPENED_IND", success |-> TRUE, incoming |-> incoming])

PageFails(w) ==
  Send([w EXCEPT !.air = LinkDown],
       [id |-> "ACL_OPENED_IND", success |-> FALSE, incoming |-> FALSE])
=============================================================================
