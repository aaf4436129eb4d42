----------------------------- MODULE AppLifecycle -----------------------------
(***************************************************************************)
(* app.go with the node managers of pkg/tsnet (manager.go, real_manager.go)*)
(* and the peer list of pkg/im/chat.go: construction, Startup with its     *)
(* fallback, the polling of peers, Shutdown, and the API handlers that     *)
(* read what these write.                                                  *)
(*                                                                         *)
(* Wails (external) runs OnStartup beside the window that sends the API    *)
(* calls, and OnShutdown when the window has gone: the three overlap, and  *)
(* no lock protects the fields of App.  The lock rm.mu of the real node is *)
(* held through the up to 15 s of Up, and for reading through the status   *)
(* call of GetStatus.  The proxy is its isRunning flag: Start and Stop are *)
(* what SocksServer.tla shows of them.                                     *)
(*                                                                         *)
(* a.nodeMgr is an interface, two words that are written and read one by   *)
(* one: while Startup exchanges it, a reader may pair the old word with    *)
(* the new one.  Such a "torn" value runs the methods of one node on the   *)
(* data of the other.                                                      *)
(*                                                                         *)
(* Left out: the reasons, the names and latencies of peers, Listen (nobody *)
(* calls it), and the handlers that touch none of this state.              *)
(***************************************************************************)
EXTENDS Arbiter

CONSTANTS
  Files,       \* the contents of the candidate files that are considered
  Peers,       \* members of the tailnet
  Unaddressed, \* those without any address (real_manager.go:180-190)
  MockPeers    \* the three preset members of the simulation

ASSUME AppAssumption ==
  /\ Files \subseteq [Paths -> AppConfig \cup {NoConfig}]
  /\ Unaddressed \subseteq Peers
  /\ MockPeers \cap Peers = {} /\ MockPeers # {}

VARIABLES
  appConfig,    \* a.appConfig
  runtimeMode,  \* a.runtimeMode
  nodeMgr,      \* a.nodeMgr: "first" (of NewApp), "fallback", or "torn"
  kind,         \* node -> the mode its GetMode reports
  running,      \* the nodes whose isRunning is set
  boot,         \* where Startup is
  proxy,        \* a.proxySvr.IsRunning()
  peers,        \* the peers of a.chatMgr
  cancelSync,   \* a.cancelSync: "nil", "set", "called"
  poller,       \* where pollTailnetPeers is
  fetched,      \* the peers it has got from the node
  tailnet,      \* the members of the tailnet now
  view,         \* one call of GetSystemOverview and what it answers
  shut,         \* where Shutdown is
  stopOn,       \* the node it has called Stop on
  crashed,      \* a torn nodeMgr has brought the process down
  early,        \* history: Shutdown began before Startup had ended
  toggled       \* history: the proxy was switched after Shutdown had stopped it

appVars == <<appConfig, runtimeMode, nodeMgr, kind>>
pollVars == <<cancelSync, poller, fetched>>
histVars == <<early, toggled>>
shutVars == <<shut, stopOn>>
vars == <<appVars, running, boot, proxy, peers, pollVars, tailnet, view, shutVars,
          crashed, histVars>>

\* rm.mu of the node that NewApp made is held: by Start, for writing, or by
\* GetStatus, for reading.  The simulated node holds its lock for no time.
WriteLocked == boot = "registering"

MutNeverUnlocked == view.pc \in {"asking", "status", "answered"}

ReadLocked == view.pc = "asking"

Unlocked == ~WriteLocked /\ ~ReadLocked

NoView == [pc |-> "none", mgr |-> "none", node |-> "none", connected |-> FALSE,
           mode |-> "none"]

-----------------------------------------------------------------------------
\* Startup (app.go:116-139)

\* The simulated node is up at once (manager.go:66-80).
StartSimulated ==
  /\ kind["first"] = "SIMULATION"
  /\ running' = running \cup {"first"}
  /\ boot' = "proxy"

\* The real one asks the control server with its lock held
\* (real_manager.go:34-58).
StartReal ==
  /\ kind["first"] = "PRODUCTION"
  /\ boot' = "registering"
  /\ UNCHANGED running

StartNode ==
  /\ boot = "new"
  /\ StartSimulated \/ StartReal
  /\ UNCHANGED <<appVars, proxy, peers, pollVars, tailnet, view, shutVars, crashed, histVars>>

\* real_manager.go:64-72.
UpSucceeds ==
  /\ boot = "registering"
  /\ running' = running \cup {"first"}
  /\ boot' = "proxy"
  /\ UNCHANGED <<appVars, proxy, peers, pollVars, tailnet, view, shutVars, crashed, histVars>>

\* The control server refuses, or the 15 s pass.
UpFails ==
  /\ boot = "registering"
  /\ boot' = "failed"
  /\ UNCHANGED <<appVars, running, proxy, peers, pollVars, tailnet, view, shutVars, crashed,
                 histVars>>

\* app.go:120-125: the mode is written before the node is exchanged.
MutKeepsMode == UNCHANGED runtimeMode

DegradeMode == runtimeMode' = "SIMULATION"

FallBack ==
  /\ boot = "failed"
  /\ DegradeMode
  /\ running' = running \cup {"fallback"}
  /\ boot' = "swapping"
  /\ UNCHANGED <<appConfig, nodeMgr, kind, proxy, peers, pollVars, tailnet, view, shutVars,
                 crashed, histVars>>

\* app.go:126, the first and the second word.
SwapBegins ==
  /\ boot = "swapping"
  /\ nodeMgr = "first"
  /\ nodeMgr' = "torn"
  /\ UNCHANGED <<appConfig, runtimeMode, kind, running, boot, proxy, peers, pollVars,
                 tailnet, view, shutVars, crashed, histVars>>

SwapEnds ==
  /\ boot = "swapping"
  /\ nodeMgr = "torn"
  /\ nodeMgr' = "fallback"
  /\ boot' = "mocking"
  /\ UNCHANGED <<appConfig, runtimeMode, kind, running, proxy, peers, pollVars, tailnet,
                 view, shutVars, crashed, histVars>>

\* app.go:127, chat.go:112-144.
MutKeepsPeers == peers

ResetPeers == MockPeers

ResetToMockPeers ==
  /\ boot = "mocking"
  /\ peers' = ResetPeers
  /\ boot' = "proxy"
  /\ UNCHANGED <<appVars, running, proxy, pollVars, tailnet, view, shutVars, crashed, histVars>>

\* app.go:131; the error of a port that is taken, or of a proxy that the API
\* has started already, is dropped.
StartProxy ==
  /\ boot = "proxy"
  /\ proxy' \in {proxy, TRUE}
  /\ boot' = "sync"
  /\ UNCHANGED <<appVars, running, peers, pollVars, tailnet, view, shutVars, crashed, histVars>>

\* app.go:134-138.
Syncs == runtimeMode = "PRODUCTION"

StartSync ==
  /\ boot = "sync"
  /\ boot' = "done"
  /\ \/ /\ Syncs
        /\ cancelSync' = "set"
        /\ poller' = "asking"
     \/ /\ ~Syncs
        /\ UNCHANGED <<cancelSync, poller>>
  /\ UNCHANGED <<appVars, running, proxy, peers, fetched, tailnet, view, shutVars, crashed,
                 histVars>>

-----------------------------------------------------------------------------
\* pollTailnetPeers and syncPeersFromNode (app.go:142-178), of the real node:
\* no other is current when the goroutine is started.

\* real_manager.go:158-176: the lock is released before the node is asked.
GetPeersFails ==
  /\ poller = "asking"
  /\ ~WriteLocked
  /\ poller' = "waiting"
  /\ UNCHANGED <<appVars, running, boot, proxy, peers, cancelSync, fetched, tailnet, view,
                 shutVars, crashed, histVars>>

GetPeersAnswers ==
  /\ poller = "asking"
  /\ ~WriteLocked
  /\ "first" \in running
  /\ cancelSync # "called"
  /\ fetched' = tailnet
  /\ poller' = "fetched"
  /\ UNCHANGED <<appVars, running, boot, proxy, peers, cancelSync, tailnet, view, shutVars,
                 crashed, histVars>>

\* app.go:161 drops an empty answer, chat.go:104 a peer without an address.
MutKeepsFirstList(fresh) == IF peers = {} THEN fresh \ Unaddressed ELSE peers

MutKeepsUnaddressed(fresh) == IF fresh = {} THEN peers ELSE fresh

Synced(fresh) == IF fresh = {} THEN peers ELSE fresh \ Unaddressed

SyncPeers ==
  /\ poller = "fetched"
  /\ peers' = Synced(fetched)
  /\ fetched' = {}
  /\ poller' = "waiting"
  /\ UNCHANGED <<appVars, running, boot, proxy, cancelSync, tailnet, view, shutVars, crashed,
                 histVars>>

\* Lines 150-155: the select takes a tick even when the context is done.
PollTick ==
  /\ poller = "waiting"
  /\ poller' = "asking"
  /\ UNCHANGED <<appVars, running, boot, proxy, peers, cancelSync, fetched, tailnet, view,
                 shutVars, crashed, histVars>>

MutDeafPoller == FALSE

Cancelled == cancelSync = "called"

PollEnds ==
  /\ poller = "waiting"
  /\ Cancelled
  /\ poller' = "ended"
  /\ UNCHANGED <<appVars, running, boot, proxy, peers, cancelSync, fetched, tailnet, view,
                 shutVars, crashed, histVars>>

-----------------------------------------------------------------------------
\* Shutdown (app.go:181-187)

CancelSync ==
  /\ shut = "none"
  /\ cancelSync' = IF cancelSync = "set" THEN "called" ELSE cancelSync
  /\ early' = (boot # "done")
  /\ shut' = "proxy"
  /\ UNCHANGED <<appVars, running, boot, proxy, peers, poller, fetched, tailnet, view,
                 stopOn, crashed, toggled>>

StopProxy ==
  /\ shut = "proxy"
  /\ proxy' = FALSE
  /\ shut' = "node"
  /\ UNCHANGED <<appVars, running, boot, peers, pollVars, tailnet, view, stopOn, crashed,
                 histVars>>

\* The node is read before its lock is waited for.
MutStopsFirst == "first"

ToStop == nodeMgr

CallStop ==
  /\ shut = "node"
  /\ stopOn' = ToStop
  /\ shut' = "stopping"
  /\ UNCHANGED <<appVars, running, boot, proxy, peers, pollVars, tailnet, view, crashed,
                 histVars>>

\* manager.go:83-97.
StopSimulated ==
  /\ kind[stopOn] = "SIMULATION"
  /\ running' = running \ {stopOn}

\* real_manager.go:76-87, once the lock is free.
StopReal ==
  /\ kind[stopOn] = "PRODUCTION"
  /\ Unlocked
  /\ running' = running \ {stopOn}

StopNode ==
  /\ shut = "stopping"
  /\ stopOn # "torn"
  /\ StopSimulated \/ StopReal
  /\ shut' = "down"
  /\ UNCHANGED <<appVars, boot, proxy, peers, pollVars, tailnet, view, stopOn, crashed,
                 histVars>>

\* Stop of a torn node stops nothing, or brings the process down.
StopTornNode ==
  /\ shut = "stopping"
  /\ stopOn = "torn"
  /\ shut' = "down"
  /\ crashed' \in BOOLEAN
  /\ UNCHANGED <<appVars, running, boot, proxy, peers, pollVars, tailnet, view, stopOn,
                 histVars>>

-----------------------------------------------------------------------------
\* The API

\* ToggleSOCKS5Proxy (app.go:233-245).
Toggle(enable) ==
  /\ proxy # enable
  /\ proxy' = enable
  /\ toggled' = (toggled \/ shut \in {"node", "stopping", "down"})
  /\ UNCHANGED <<appVars, running, boot, peers, pollVars, tailnet, view, shutVars, crashed,
                 early>>

\* GetSystemOverview (app.go:190-206): the node is read first, then its
\* status under its lock (manager.go:135-149, real_manager.go:118-150), and
\* the mode last.
AskOverview ==
  /\ view.pc = "none"
  /\ view' = [NoView EXCEPT !.pc = "called", !.mgr = nodeMgr]
  /\ UNCHANGED <<appVars, running, boot, proxy, peers, pollVars, tailnet, shutVars, crashed,
                 histVars>>

Answer(pc, m, c) == view' = [view EXCEPT !.pc = pc, !.node = m, !.connected = c]

StatusOfSimulated ==
  /\ kind[view.mgr] = "SIMULATION"
  /\ Answer("status", "SIMULATION", view.mgr \in running)

StatusOfReal ==
  /\ kind[view.mgr] = "PRODUCTION"
  /\ ~WriteLocked
  /\ Answer(IF view.mgr \in running THEN "asking" ELSE "status", "PRODUCTION",
            view.mgr \in running)

ReadStatus ==
  /\ view.pc = "called"
  /\ view.mgr # "torn"
  /\ StatusOfSimulated \/ StatusOfReal
  /\ UNCHANGED <<appVars, running, boot, proxy, peers, pollVars, tailnet, shutVars, crashed,
                 histVars>>

\* The lock is held for reading until the local client has answered.
StatusAnswers ==
  /\ view.pc = "asking"
  /\ view' = [view EXCEPT !.pc = "status"]
  /\ UNCHANGED <<appVars, running, boot, proxy, peers, pollVars, tailnet, shutVars, crashed,
                 histVars>>

\* GetStatus of a torn node answers anything, or brings the process down.
ReadTornStatus ==
  /\ view.pc = "called"
  /\ view.mgr = "torn"
  /\ \/ /\ crashed' = TRUE
        /\ UNCHANGED view
     \/ /\ \E m \in RuntimeModes, c \in BOOLEAN : Answer("status", m, c)
        /\ UNCHANGED crashed
  /\ UNCHANGED <<appVars, running, boot, proxy, peers, pollVars, tailnet, shutVars, histVars>>

ReadMode ==
  /\ view.pc = "status"
  /\ view' = [view EXCEPT !.pc = "answered", !.mode = runtimeMode]
  /\ UNCHANGED <<appVars, running, boot, proxy, peers, pollVars, tailnet, shutVars, crashed,
                 histVars>>

AskAgain ==
  /\ view.pc = "answered"
  /\ view' = NoView
  /\ UNCHANGED <<appVars, running, boot, proxy, peers, pollVars, tailnet, shutVars, crashed,
                 histVars>>

\* External: members of the tailnet come and go.
TailnetChanges ==
  /\ tailnet' \in SUBSET Peers
  /\ UNCHANGED <<appVars, running, boot, proxy, peers, pollVars, view, shutVars, crashed,
                 histVars>>

-----------------------------------------------------------------------------
\* NewApp (app.go:53-113).
Init ==
  /\ \E files \in Files, reachable \in BOOLEAN :
       LET cfg == LoadAppConfig(files)
           made == CreateAdaptiveNodeManager(cfg, reachable)
       IN  /\ appConfig = cfg
           /\ runtimeMode = made.mode
           /\ kind = [first |-> made.kind, fallback |-> "SIMULATION"]
  /\ nodeMgr = "first"
  /\ running = {}
  /\ boot = "new"
  /\ proxy = FALSE
  /\ peers = IF runtimeMode = "SIMULATION" THEN MockPeers ELSE {}
  /\ cancelSync = "nil"
  /\ poller = "none"
  /\ fetched = {}
  /\ tailnet \in SUBSET Peers
  /\ view = NoView
  /\ shut = "none"
  /\ stopOn = "none"
  /\ crashed = FALSE
  /\ early = FALSE
  /\ toggled = FALSE

Startup ==
  \/ StartNode \/ UpSucceeds \/ UpFails \/ FallBack \/ SwapBegins \/ SwapEnds
  \/ ResetToMockPeers \/ StartProxy \/ StartSync

Poll == GetPeersFails \/ GetPeersAnswers \/ SyncPeers \/ PollTick \/ PollEnds

Shutdown == CancelSync \/ StopProxy \/ CallStop \/ StopNode \/ StopTornNode

API ==
  \/ \E enable \in BOOLEAN : Toggle(enable)
  \/ AskOverview \/ ReadStatus \/ StatusAnswers \/ ReadTornStatus \/ ReadMode \/ AskAgain

\* What main hands to wails.Run (main.go:24-46).
Next == ~crashed /\ (Startup \/ Poll \/ Shutdown \/ API \/ TailnetChanges)

Spec == Init /\ [][Next]_vars

(***************************************************************************)
(* Fairness: goroutines run when they can; Up ends within its 15 s and the *)
(* local client of a node answers.  Lock of a sync.RWMutex is not starved  *)
(* by readers, and a select that has two ready cases again and again takes *)
(* each of them, hence the strong fairness.  GetPeers of a node that runs  *)
(* does not fail for ever.  Nothing makes users close the window.          *)
(***************************************************************************)
Live(A) == ~crashed /\ A

Fairness ==
  /\ WF_vars(Live(Startup)) /\ WF_vars(Live(StopProxy \/ CallStop)) /\ WF_vars(Live(StatusAnswers))
  /\ SF_vars(Live(StopNode \/ StopTornNode))
  /\ WF_vars(Live(GetPeersFails \/ GetPeersAnswers)) /\ SF_vars(Live(GetPeersAnswers))
  /\ WF_vars(Live(SyncPeers)) /\ WF_vars(Live(PollTick)) /\ SF_vars(Live(PollEnds))

FairSpec == Spec /\ Fairness

-----------------------------------------------------------------------------
\* The proxy's dialer is the node of NewApp for good (app.go:63); a node that
\* is not running refuses to dial (manager.go:100-107, real_manager.go:90-98).
ProxyDialer == "first"

DialRefused == ProxyDialer \notin running

-----------------------------------------------------------------------------
\* Properties

Shown == MockPeers \cup (Peers \ Unaddressed)

\* The variables have their types; no peer without an address is shown
\* (chat.go:98-109, 112-144).
TypeOK ==
  /\ appConfig \in AppConfig \cup {NoConfig}
  /\ runtimeMode \in RuntimeModes
  /\ nodeMgr \in {"first", "fallback", "torn"}
  /\ kind \in [{"first", "fallback"} -> RuntimeModes]
  /\ running \subseteq {"first", "fallback"}
  /\ boot \in {"new", "registering", "failed", "swapping", "mocking", "proxy", "sync", "done"}
  /\ proxy \in BOOLEAN
  /\ peers \subseteq Shown
  /\ cancelSync \in {"nil", "set", "called"}
  /\ poller \in {"none", "asking", "fetched", "waiting", "ended"}
  /\ fetched \subseteq Peers
  /\ tailnet \subseteq Peers
  /\ view \in [pc : {"none", "called", "asking", "status", "answered"},
               mgr : {"none", "first", "fallback", "torn"},
               node : RuntimeModes \cup {"none"}, connected : BOOLEAN,
               mode : RuntimeModes \cup {"none"}]
  /\ shut \in {"none", "proxy", "node", "stopping", "down"}
  /\ stopOn \in {"none", "first", "fallback", "torn"}
  /\ crashed \in BOOLEAN /\ early \in BOOLEAN /\ toggled \in BOOLEAN

\* An overview that says PRODUCTION carries the status of the real node,
\* never that of the fallback: the two are read apart, while Startup
\* exchanges both (app.go:122-126 and 191-203).
OverviewNeverOverclaims ==
  (view.pc = "answered" /\ view.mode = "PRODUCTION") => view.node = "PRODUCTION"

\* Once Startup has ended, whichever way it went, and until Shutdown, the
\* current node runs and is of the mode that the program reports
\* (app.go:119-127).
ModeIsHonest ==
  (boot = "done" /\ shut = "none") => nodeMgr \in running /\ kind[nodeMgr] = runtimeMode

\* The members on show are the preset ones in simulation and never them in
\* production: no poll of the real node puts its list over the preset one
\* (app.go:95-98, 127, 134-137).
PeersMatchMode ==
  boot \in {"proxy", "sync", "done"} =>
    IF runtimeMode = "SIMULATION" THEN peers = MockPeers ELSE peers \cap MockPeers = {}

\* Unless it overtook Startup, Shutdown leaves no node running and no poller
\* uncancelled, nor the proxy, unless a late call of the API has switched it
\* on again (app.go:181-187).
CleanExit ==
  (shut = "down" /\ ~early /\ ~crashed) =>
    running = {} /\ cancelSync # "set" /\ (proxy => toggled)

\* However Startup and Shutdown overlap, the two nodes never run at once: no
\* real node is left behind the simulated one (app.go:119-127, 181-187).
OneNodeRuns == ~({"first", "fallback"} \subseteq running)

\* Whoever polls the tailnet polls the real node, which is still the current
\* one: no fallback happens under a poller (app.go:120-138).
PollerAsksRealNode ==
  poller # "none" =>
    nodeMgr = "first" /\ kind["first"] = "PRODUCTION" /\ runtimeMode = "PRODUCTION"

\* The exchange of a.nodeMgr can bring down only a program that was set up for
\* production and had to fall back (app.go:122-126).
CrashNeedsFallback ==
  crashed => kind["first"] = "PRODUCTION" /\ runtimeMode = "SIMULATION"

\* The lock of the real node is never held for writing and for reading: no
\* status call is under way while the node registers, whenever the window
\* asks (real_manager.go:35-36, 119-120).
LockIsExclusive == ~(WriteLocked /\ ReadLocked)

\* The mode changes once, downwards, when nothing but the simulated node runs
\* (app.go:118-127).
OnlyDegrades ==
  [][runtimeMode' # runtimeMode => runtimeMode' = "SIMULATION" /\ running' = {"fallback"}]_vars

\* Whatever files are found, production needs the one in use to name a usable
\* control server and a key of its own, or to insist (arbiter.go:66-131).
ProductionIsConfigured ==
  runtimeMode = "PRODUCTION" =>
    /\ appConfig # NoConfig /\ appConfig.mode # "simulation"
    /\ appConfig.controlURL = "usable"
    /\ appConfig.authKey = "own" \/ (appConfig.mode = "production" /\ appConfig.authKey = "sample")

\* Shutdown returns, and the poller it has cancelled exits, though Shutdown
\* may have to wait for the registration of the node or for status calls that
\* hold its lock, and the poller for its call (real_manager.go:35, 77, 119,
\* app.go:150-152).
ShutdownReturns ==
  (shut # "none") ~>
    (crashed \/ (shut = "down" /\ (cancelSync = "called" => poller = "ended")))

\* In production the members on show become those of the tailnet, once these
\* stay the same and are not none (app.go:159-178).
PeersFollow ==
  \A T \in SUBSET Peers \ {{}} :
    <>[](boot = "done" /\ runtimeMode = "PRODUCTION" /\ shut = "none" /\ tailnet = T)
      => <>[](peers = T \ Unaddressed)

\* docs/dual_mode_runtime_architecture_and_update_plan.md:44: in simulation
\* the proxy forwards requests with the host's own dialer.  After a fallback
\* its dialer still is the real node that failed, which refuses every dial.
ProxyDials == (boot = "done" /\ shut = "none" /\ proxy) => ~DialRefused
=============================================================================
