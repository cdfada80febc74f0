---------------------------- MODULE RadioSharing ----------------------------
(***************************************************************************)
(* The BR/EDR scan manager and the bandwidth manager with their users:     *)
(* the handset service and pairing, which ask for page and inquiry scan,   *)
(* the audio, upgrade and voice features that take bandwidth, a task that  *)
(* pauses all scanning, the connection library and the controller.  One    *)
(* scheduler delivers the messages of all tasks in the order of sending.   *)
(***************************************************************************)
EXTENDS ScanFlow

CONSTANTS Others,    \* the features besides page scan that start and stop
          Backlog    \* bound on messages and commands when a user calls

\* The users of other features; page scan's is the scan manager.
ASSUME OthersAssumption == Others \subseteq Features \ {"PAGE_SCAN"}

VARIABLES slots, running, throttled,   \* the bandwidth manager's table
          ctx, disabler,               \* the scan manager
          outstanding, commands, scanning,   \* the library and the controller
          queue,                       \* the scheduler's queue
          answer                       \* what the disabler was told last (history)

vars == <<slots, running, throttled, ctx, disabler, outstanding, commands, scanning,
          queue, answer>>

World == [slots |-> slots, running |-> running, throttled |-> throttled, ctx |-> ctx,
          disabler |-> disabler, outstanding |-> outstanding, commands |-> commands,
          scanning |-> scanning, queue |-> queue, answer |-> answer]

Become(w) ==
  /\ slots' = w.slots /\ running' = w.running /\ throttled' = w.throttled
  /\ ctx' = w.ctx /\ disabler' = w.disabler
  /\ outstanding' = w.outstanding /\ commands' = w.commands /\ scanning' = w.scanning
  /\ queue' = w.queue /\ answer' = w.answer

Init ==
  /\ slots = Registered /\ running = {} /\ throttled = {}
  /\ ctx = [c \in Scans |-> IdleContext]
  /\ disabler = FALSE
  /\ outstanding = 0 /\ commands = << >> /\ scanning = {}
  /\ queue = << >>
  /\ answer = "none"

---------------------------------------------------------------------------
(* Messages.                                                               *)

Rest == [World EXCEPT !.queue = Tail(@)]

BandwidthAction ==
  /\ queue # << >> /\ Head(queue).id \in {"BANDWIDTH_START", "BANDWIDTH_STOP"}
  /\ Become(HandleBandwidthAction(Rest, Head(queue)))

ScanEnableRequest ==
  /\ queue # << >> /\ Head(queue).id = "WRITE_SCAN_ENABLE_REQ"
  /\ Become(HandleScanEnableRequest(Rest, Head(queue).mode))

ScanEnableConfirm ==
  /\ queue # << >> /\ Head(queue).id = "WRITE_SCAN_ENABLE_CFM"
  /\ Become(HandleScanEnableCfm(Rest, Head(queue).outstanding))

Controller ==
  /\ commands # << >>
  /\ Become(CarryOut(World))

---------------------------------------------------------------------------
(* The users, who call while they handle messages of their own.            *)

Outside(w) == Len(queue) + Len(commands) < Backlog /\ Become(w)

\* The handset service asks for slow page scan, the pairing module for fast
\* page and inquiry scan; both may ask and release again and again.
Asks(c, client) == IF client = "pairing" THEN FAST ELSE SLOW
Users(c) == IF c = "page" THEN {"handset", "pairing"} ELSE {"pairing"}

ScanRequest(c, client) == Outside(ClientAddOrUpdate(World, c, client, Asks(c, client)))
ScanRelease(c, client) ==
  /\ OnList(ctx[c], client)
  /\ Outside(ClientRemove(World, c, client))

Disable ==
  /\ ~disabler
  /\ Outside(ScanDisable([World EXCEPT !.answer = "none"]))
Enable == disabler /\ Outside(ScanEnable(World))

FeatureStarts(f) == f \notin running /\ Outside(FeatureStart(World, f))
FeatureStops(f)  == f \in running /\ Outside(FeatureStop(World, f))

Deliver == BandwidthAction \/ ScanEnableRequest \/ ScanEnableConfirm

Next ==
  \/ Deliver \/ Controller
  \/ \E c \in Scans : \E client \in Users(c) : ScanRequest(c, client) \/ ScanRelease(c, client)
  \/ Disable \/ Enable
  \/ \E f \in Others : FeatureStarts(f) \/ FeatureStops(f)

Spec == Init /\ [][Next]_vars

\* The scheduler delivers and the controller carries out (weak fairness: every
\* message has its action, a command is always carried out).  Nothing is
\* assumed of the users.
FairSpec ==
  /\ Spec
  /\ <>[](queue # << >>) => []<><<Deliver>>_vars
  /\ <>[](commands # << >>) => []<><<Controller>>_vars

---------------------------------------------------------------------------
(* Properties.                                                             *)

ScanTypes == {PENDING_RELEASE, SLOW, FAST}

\* Type correctness, and the library's counter agrees with what is on its way.
TypeOK ==
  /\ ToSet(slots) = Features /\ Len(slots) = Len(Registered)
  /\ throttled \subseteq running /\ running \subseteq Features
  /\ \A c \in Scans :
       /\ ctx[c].state \in {"DISABLED", "ENABLING", "DISABLING", "ENABLED"}
       /\ ctx[c].type \in ScanTypes /\ ctx[c].params \in ScanTypes \cup {THROTTLE, NoParams}
       /\ ToSet(ctx[c].clients) \subseteq [task : Users(c), type : ScanTypes]
       /\ \A n, k \in DOMAIN ctx[c].clients :
            ctx[c].clients[n].task = ctx[c].clients[k].task => n = k
  /\ outstanding = Len(commands) + Cardinality({n \in DOMAIN queue :
                                     queue[n].id = "WRITE_SCAN_ENABLE_REQ"})
  /\ answer \in {"none", "disabled", "enabled"}

\* Nothing is on its way.
Settled == queue = << >> /\ commands = << >>

\* When the bandwidth manager has handled its messages, a running feature is
\* throttled exactly when one of a higher priority runs.  The messages carry
\* slots, and starts and stops in between give a slot to another feature.
ThrottledByHigher ==
  queue = << >> =>
    throttled = {f \in running : \E g \in running : Priority(g) < Priority(f)}

\* When nothing is on its way, the controller does what the contexts say, and
\* the bandwidth manager counts page scan exactly while the controller pages.
\* Requests overtake the confirmations of earlier ones.
SettledAgree ==
  Settled =>
    /\ \A c \in Scans : ctx[c].state = IF c \in scanning THEN "ENABLED" ELSE "DISABLED"
    /\ "PAGE_SCAN" \in running <=> "page" \in scanning

\* Once nothing is on its way, a scan that need not throttle runs with the
\* highest type its clients ask for now, however often it was throttled and
\* whoever left meanwhile.
UnthrottledScansAsAsked ==
  Settled => \A c \in scanning :
    (c = "page" => "PAGE_SCAN" \notin throttled) => ctx[c].params = WantedType(ctx[c])

\* Whoever disabled scanning and was told so can rely on it until it enables
\* again: no request, release or late confirmation takes a context out of
\* DISABLED (BredrScanManager_ScanDisable).
DisableHolds == disabler /\ answer = "disabled" => AllDisabled(World)

\* What the clients want of a scan
Wanted(c) == ~disabler /\ WantedType(ctx[c]) # PENDING_RELEASE

\* The controller does what the clients want: it never refuses for ever a scan
\* that stays wanted, and never keeps up for ever one that nobody wants.
ScanFollowsClients ==
  \A c \in Scans :
    /\ []<>(Wanted(c) => c \in scanning)
    /\ []<>(c \in scanning => Wanted(c))

\* Whoever keeps scanning disabled is told so in the end
\* (BREDR_SCAN_MANAGER_DISABLE_CFM).
DisableIsAnswered == []<>(disabler => answer = "disabled")
=============================================================================
