------------------------------ MODULE ScanFlow ------------------------------
(***************************************************************************)
(* domains/bt/bredr_scan_manager: page scan and inquiry scan, shared by    *)
(* clients that each ask for a type of scanning.  Every change goes        *)
(* through the connection library to the controller and is confirmed       *)
(* later.  Page scan is a feature of the bandwidth manager.                *)
(*                                                                         *)
(* Besides the bandwidth manager's part, the world has a context for each  *)
(* kind of scan, the disabler and what it was answered, and the library:   *)
(* its counter, the commands it gave to the controller, and what the       *)
(* controller scans for.                                                   *)
(***************************************************************************)
EXTENDS BandwidthFlow, Keeping

\* The scan manager registers its feature before it is used.
ASSUME PageScanAssumption == "PAGE_SCAN" \in Features

\* bredr_scan_manager_scan_type_t, in its order; NoParams is the cleared memory
\* of a context, which equals the parameters of no type.
PENDING_RELEASE == 0
SLOW            == 1
FAST            == 2
THROTTLE        == 3
NoParams        == -1

Scans == {"page", "inquiry"}

\* bsm_scan_context_t; clients is the task list with its data.
IdleContext == [state |-> "DISABLED", clients |-> << >>,
                type |-> PENDING_RELEASE, params |-> NoParams]

---------------------------------------------------------------------------
(* The connection library.                                                 *)

Queued(w, id) == \E n \in DOMAIN w.queue : w.queue[n].id = id

\* Mutant: a request that replaces another one is counted as well.
ConnectionWriteScanEnableRecounting(w, mode) ==
  [w EXCEPT !.queue = Append(Without(@, {"WRITE_SCAN_ENABLE_REQ"}),
                             [id |-> "WRITE_SCAN_ENABLE_REQ", mode |-> mode]),
            !.outstanding = @ + 1]

\* ConnectionWriteScanEnable: a request that is still queued is replaced.
ConnectionWriteScanEnable(w, mode) ==
  [w EXCEPT !.queue = Append(Without(@, {"WRITE_SCAN_ENABLE_REQ"}),
                             [id |-> "WRITE_SCAN_ENABLE_REQ", mode |-> mode]),
            !.outstanding = @ + IF Queued(w, "WRITE_SCAN_ENABLE_REQ") THEN 0 ELSE 1]

\* connectionHandleWriteScanEnableRequest
HandleScanEnableRequest(w, mode) == [w EXCEPT !.commands = Append(@, mode)]

\* The controller carries out a command; connectionHandleWriteScanEnableCfm
\* tells the scan manager how many requests are left.
CarryOut(w) ==
  [w EXCEPT !.scanning = Head(w.commands), !.commands = Tail(@),
            !.outstanding = @ - 1,
            !.queue = Append(@, [id |-> "WRITE_SCAN_ENABLE_CFM",
                                 outstanding |-> w.outstanding - 1])]

---------------------------------------------------------------------------
(* bredr_scan_manager_instance.c                                           *)

\* Mutant: a scan that is being enabled is left out of the mode.
WriteScanEnableWhenEnabled(w) ==
  ConnectionWriteScanEnable(w, {c \in Scans : w.ctx[c].state = "ENABLED"})

\* bredrScanManager_ConnectionWriteScanEnable
WriteScanEnable(w) ==
  ConnectionWriteScanEnable(w, {c \in Scans : w.ctx[c].state \in {"ENABLED", "ENABLING"}})

\* bredrScanManager_InstanceSetState
SetState(w, c, new) ==
  LET set == [w EXCEPT !.ctx[c].state = new]
  IN  CASE new \in {"ENABLING", "DISABLING"}    -> WriteScanEnable(set)
        [] c = "page" /\ new = "ENABLED"        -> FeatureStart(set, "PAGE_SCAN")
        [] c = "page" /\ new = "DISABLED"       -> FeatureStop(set, "PAGE_SCAN")
        [] OTHER -> set

\* bredrScanManager_InstanceUpdateScanActivity: the parameters are those of a type.
UpdateScanActivity(w, c, type) == [w EXCEPT !.ctx[c].params = type]

\* Mutant: disabling that is under way is not turned back.
SetGoalIgnoringDisabling(w, c, enable, type) ==
  LET active == IF enable THEN [UpdateScanActivity(w, c, type) EXCEPT !.ctx[c].type = type] ELSE w
      state  == w.ctx[c].state
  IN  CASE enable /\ state = "DISABLED"               -> SetState(active, c, "ENABLING")
        [] ~enable /\ state \in {"ENABLED", "ENABLING"} -> SetState(active, c, "DISABLING")
        [] OTHER -> active

\* bredrScanManager_InstanceSetGoal
SetGoal(w, c, enable, type) ==
  LET active == IF enable THEN [UpdateScanActivity(w, c, type) EXCEPT !.ctx[c].type = type] ELSE w
      state  == w.ctx[c].state
  IN  CASE enable /\ state \in {"DISABLED", "DISABLING"} -> SetState(active, c, "ENABLING")
        [] ~enable /\ state \in {"ENABLED", "ENABLING"}   -> SetState(active, c, "DISABLING")
        [] OTHER -> active

\* The highest type that a client asks for
WantedType(ctx) == Max({PENDING_RELEASE} \cup {e.type : e \in ToSet(ctx.clients)})

\* Mutant: the pause is forgotten when a client comes or goes.
RefreshUnpaused(w, c) ==
  LET type == WantedType(w.ctx[c]) IN SetGoal(w, c, type # PENDING_RELEASE, type)

\* bredrScanManager_InstanceRefresh
Refresh(w, c) ==
  LET type == WantedType(w.ctx[c])
  IN  SetGoal(w, c, ~w.disabler /\ type # PENDING_RELEASE, type)

OnList(ctx, client) == \E n \in DOMAIN ctx.clients : ctx.clients[n].task = client

SetType(clients, client, type) ==
  [n \in DOMAIN clients |->
     IF clients[n].task = client THEN [clients[n] EXCEPT !.type = type] ELSE clients[n]]

\* bredrScanManager_InstanceClientAddOrUpdate
ClientAddOrUpdate(w, c, client, type) ==
  Refresh([w EXCEPT !.ctx[c].clients =
             IF OnList(w.ctx[c], client) THEN SetType(@, client, type)
                                         ELSE Append(@, [task |-> client, type |-> type])], c)

\* bredrScanManager_InstanceClientRemove
ClientRemove(w, c, client) ==
  IF OnList(w.ctx[c], client)
  THEN Refresh([w EXCEPT !.ctx[c].clients = SetType(@, client, PENDING_RELEASE)], c)
  ELSE w

\* bredrScanManager_RemovePendingReleaseClients: the iteration cannot go on
\* after the task it stands on is removed, so one client is removed.
RemovePendingRelease(clients) ==
  LET pending == {n \in DOMAIN clients : clients[n].type = PENDING_RELEASE}
  IN  IF pending = {} THEN clients ELSE RemoveAt(clients, Min(pending))

\* bredrScanManager_InstanceCompleteTransition
CompleteTransition(w, c) ==
  CASE w.ctx[c].state = "DISABLING" ->
         [SetState(w, c, "DISABLED") EXCEPT !.ctx[c].clients = RemovePendingRelease(@)]
    [] w.ctx[c].state = "ENABLING" -> SetState(w, c, "ENABLED")
    [] OTHER -> w

\* Mutant: the parameters are not restored when the throttling ends.
AdjustPageScanOnlyThrottling(w, throttle) ==
  IF throttle THEN UpdateScanActivity(w, "page", THROTTLE) ELSE w

\* bredrScanManager_InstanceAdjustPageScanBandwidth (the stereo topology
\* registers parameters for THROTTLE, and no client asks for that type).
AdjustPageScanBandwidth(w, throttle) ==
  UpdateScanActivity(w, "page", IF throttle THEN THROTTLE ELSE w.ctx["page"].type)

---------------------------------------------------------------------------
(* bredr_scan_manager.c                                                    *)

AllDisabled(w) == \A c \in Scans : w.ctx[c].state = "DISABLED"

\* BREDR_SCAN_MANAGER_DISABLE_CFM
DisableCfm(w, disabled) == [w EXCEPT !.answer = disabled]

ConfirmIfDisabled(w) == IF w.disabler /\ AllDisabled(w) THEN DisableCfm(w, "disabled") ELSE w

\* Mutant: the end of the disabling is not looked for.
HandleScanEnableCfmSilently(w, outstanding) ==
  IF outstanding > 0 THEN w
  ELSE CompleteTransition(CompleteTransition(w, "page"), "inquiry")

\* bredrScanManager_ConnectionHandleClDmWriteScanEnableCfm
HandleScanEnableCfm(w, outstanding) ==
  IF outstanding > 0 THEN w
  ELSE ConfirmIfDisabled(CompleteTransition(CompleteTransition(w, "page"), "inquiry"))

RefreshAll(w) == Refresh(Refresh(w, "page"), "inquiry")

\* BredrScanManager_ScanDisable
ScanDisable(w) == ConfirmIfDisabled(RefreshAll([w EXCEPT !.disabler = TRUE]))

\* BredrScanManager_ScanEnable
ScanEnable(w) ==
  LET told == IF ~AllDisabled(w) /\ w.disabler THEN DisableCfm(w, "enabled") ELSE w
  IN  RefreshAll([told EXCEPT !.disabler = FALSE])

\* The action message of the bandwidth manager, with page scan's callback
HandleBandwidthAction(w, action) ==
  LET acted == HandleAction(w, action)
      changed == ("PAGE_SCAN" \in w.throttled) # ("PAGE_SCAN" \in acted.throttled)
  IN  IF changed THEN AdjustPageScanBandwidth(acted, "PAGE_SCAN" \in acted.throttled) ELSE acted
=============================================================================
