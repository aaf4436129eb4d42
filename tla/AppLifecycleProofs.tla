-------------------------- MODULE AppLifecycleProofs --------------------------
(***************************************************************************)
(* Safety of AppLifecycle.tla for any configuration files and any peers.   *)
(***************************************************************************)
EXTENDS AppLifecycle, TLAPS

Bools == proxy \in BOOLEAN /\ crashed \in BOOLEAN /\ early \in BOOLEAN /\ toggled \in BOOLEAN

Booted == boot \in {"proxy", "sync", "done"}

\* The program degrades once, before it exchanges the node.
ModeFollowsBoot ==
  /\ kind["fallback"] = "SIMULATION"
  /\ runtimeMode = "PRODUCTION" => nodeMgr = "first" /\ kind["first"] = "PRODUCTION"
  /\ boot \in {"new", "registering", "failed"} =>
       nodeMgr = "first" /\ runtimeMode = kind["first"] /\ running = {}
  /\ boot \in {"registering", "failed"} => runtimeMode = "PRODUCTION"
  /\ boot = "swapping" =>
       nodeMgr \in {"first", "torn"} /\ runtimeMode = "SIMULATION" /\ running \subseteq {"fallback"}
  /\ boot = "mocking" =>
       nodeMgr = "fallback" /\ runtimeMode = "SIMULATION" /\ running \subseteq {"fallback"}
  /\ Booted => nodeMgr # "torn" /\ kind[nodeMgr] = runtimeMode /\ running \subseteq {nodeMgr}

\* Until Stop is called the node that will be current runs.
RunsUntilStop ==
  shut \in {"none", "proxy", "node"} =>
    /\ boot \in {"swapping", "mocking"} => "fallback" \in running
    /\ Booted => nodeMgr \in running

\* What a call of GetSystemOverview has read while the mode was PRODUCTION
\* was of the real node.
ViewOfFirst ==
  /\ view.pc # "none" => view.mgr # "none"
  /\ (view.pc = "called" /\ runtimeMode = "PRODUCTION") => view.mgr = "first"
  /\ (view.pc \in {"asking", "status"} /\ runtimeMode = "PRODUCTION") => view.node = "PRODUCTION"

\* The members come from one source: the poller runs in production only.
PeersBySource ==
  /\ poller # "none" => boot = "done" /\ runtimeMode = "PRODUCTION"
  /\ runtimeMode = "PRODUCTION" => peers \cap MockPeers = {}
  /\ (boot = "new" \/ Booted) /\ runtimeMode = "SIMULATION" => peers = MockPeers

\* Shutdown, when it did not overtake Startup, takes down what is current.
Winding ==
  (shut # "none" /\ ~early) =>
    /\ boot = "done"
    /\ cancelSync # "set"
    /\ shut \in {"node", "stopping", "down"} => (proxy => toggled)
    /\ shut = "stopping" => stopOn = nodeMgr
    /\ shut = "down" => running = {}

Inv == /\ TypeOK /\ ModeFollowsBoot /\ RunsUntilStop /\ ViewOfFirst /\ OverviewNeverOverclaims
       /\ PeersBySource /\ Winding

-----------------------------------------------------------------------------
\* The configuration is one of the files, or none (arbiter.go:49-62).
LEMMA ConfigType ==
  ASSUME NEW files \in Files
  PROVE  LoadAppConfig(files) \in AppConfig \cup {NoConfig}
<1>1. /\ DOMAIN Candidates = 1..4
      /\ \A i \in 1..4 : Candidates[i] \in Paths
  BY DEF Candidates, Paths
<1>2. \A x \in Paths : files[x] \in AppConfig \cup {NoConfig}
  BY AppAssumption
<1>3. CASE \A i \in DOMAIN Candidates : files[Candidates[i]] = NoConfig
  BY <1>3 DEF LoadAppConfig
<1>4. CASE \E i \in DOMAIN Candidates : files[Candidates[i]] # NoConfig
  <2> DEFINE First(i) == /\ files[Candidates[i]] # NoConfig
                         /\ \A k \in 1..(i - 1) : files[Candidates[k]] = NoConfig
  <2>1. \E i \in 1..4 : First(i)
    BY <1>1, <1>4
  <2>2. (CHOOSE i \in DOMAIN Candidates : First(i)) \in 1..4
    BY <1>1, <2>1
  <2> QED
    BY <1>1, <1>2, <1>4, <2>2 DEF LoadAppConfig
<1> QED
  BY <1>3, <1>4

LEMMA InitInv == Init => Inv
<1> SUFFICES ASSUME Init PROVE Inv
  OBVIOUS
<1>1. appConfig \in AppConfig \cup {NoConfig}
  BY ConfigType DEF Init
<1>2. runtimeMode \in RuntimeModes
  BY DEF Init, CreateAdaptiveNodeManager, ArbitrateMode, RuntimeModes
<1>3. Bools
  BY DEF Init, Bools
<1> HIDE DEF Bools
<1>4. view = NoView /\ view.pc = "none"
  BY DEF Init, NoView
<1>5. TypeOK
  <2>1. kind \in [{"first", "fallback"} -> RuntimeModes]
    BY <1>2 DEF Init, CreateAdaptiveNodeManager, RuntimeModes
  <2>2. peers \subseteq Shown
    BY AppAssumption DEF Init, Shown
  <2>3. view \in [pc : {"none", "called", "asking", "status", "answered"},
                  mgr : {"none", "first", "fallback", "torn"},
                  node : RuntimeModes \cup {"none"}, connected : BOOLEAN,
                  mode : RuntimeModes \cup {"none"}]
    BY <1>4 DEF NoView
  <2>4. /\ nodeMgr \in {"first", "fallback", "torn"}
        /\ running \subseteq {"first", "fallback"}
        /\ boot \in {"new", "registering", "failed", "swapping", "mocking", "proxy", "sync", "done"}
        /\ cancelSync \in {"nil", "set", "called"}
        /\ poller \in {"none", "asking", "fetched", "waiting", "ended"}
        /\ fetched \subseteq Peers
        /\ tailnet \subseteq Peers
        /\ shut \in {"none", "proxy", "node", "stopping", "down"}
        /\ stopOn \in {"none", "first", "fallback", "torn"}
    BY DEF Init
  <2> QED
    BY <1>1, <1>2, <1>3, <2>1, <2>2, <2>3, <2>4 DEF TypeOK, Bools
<1>6. ModeFollowsBoot
  BY <1>2 DEF Init, CreateAdaptiveNodeManager, ModeFollowsBoot, Booted, RuntimeModes
<1>7. RunsUntilStop /\ ViewOfFirst /\ OverviewNeverOverclaims /\ Winding
  BY <1>4 DEF Init, RunsUntilStop, ViewOfFirst, OverviewNeverOverclaims, Winding, Booted
<1>8. PeersBySource
  BY AppAssumption DEF Init, PeersBySource, Booted
<1> QED
  BY <1>5, <1>6, <1>7, <1>8 DEF Inv

-----------------------------------------------------------------------------
\* Flags stay flags.
LEMMA BoolsStep == Bools /\ [Next]_vars => Bools'
<1> SUFFICES ASSUME Bools, [Next]_vars PROVE Bools'
  OBVIOUS
<1> USE DEF Bools, vars, appVars, pollVars, histVars, shutVars
<1>1. CASE StartNode
  BY <1>1, Zenon DEF StartNode, StartSimulated, StartReal
<1>2. CASE UpSucceeds
  BY <1>2, Zenon DEF UpSucceeds
<1>3. CASE UpFails
  BY <1>3, Zenon DEF UpFails
<1>4. CASE FallBack
  BY <1>4, Zenon DEF FallBack
<1>5. CASE SwapBegins
  BY <1>5, Zenon DEF SwapBegins
<1>6. CASE SwapEnds
  BY <1>6, Zenon DEF SwapEnds
<1>7. CASE ResetToMockPeers
  BY <1>7, Zenon DEF ResetToMockPeers
<1>8. CASE StartProxy
  BY <1>8, Zenon DEF StartProxy
<1>9. CASE StartSync
  BY <1>9, Zenon DEF StartSync
<1>10. CASE GetPeersFails
  BY <1>10, Zenon DEF GetPeersFails
<1>11. CASE GetPeersAnswers
  BY <1>11, Zenon DEF GetPeersAnswers
<1>12. CASE SyncPeers
  BY <1>12, Zenon DEF SyncPeers
<1>13. CASE PollTick
  BY <1>13, Zenon DEF PollTick
<1>14. CASE PollEnds
  BY <1>14, Zenon DEF PollEnds
<1>15. CASE CancelSync
  BY <1>15, Zenon DEF CancelSync
<1>16. CASE StopProxy
  BY <1>16, Zenon DEF StopProxy
<1>17. CASE CallStop
  BY <1>17, Zenon DEF CallStop
<1>18. CASE StopNode
  BY <1>18, Zenon DEF StopNode, StopSimulated, StopReal
<1>19. CASE StopTornNode
  BY <1>19, Zenon DEF StopTornNode
<1>20. CASE AskOverview
  BY <1>20, Zenon DEF AskOverview
<1>21. CASE ReadStatus
  BY <1>21, Zenon DEF ReadStatus, StatusOfSimulated, StatusOfReal
<1>22. CASE StatusAnswers
  BY <1>22, Zenon DEF StatusAnswers
<1>23. CASE ReadTornStatus
  BY <1>23, Zenon DEF ReadTornStatus
<1>24. CASE ReadMode
  BY <1>24, Zenon DEF ReadMode
<1>25. CASE AskAgain
  BY <1>25, Zenon DEF AskAgain
<1>26. CASE TailnetChanges
  BY <1>26, Zenon DEF TailnetChanges
<1>27. ASSUME NEW enable \in BOOLEAN, Toggle(enable) PROVE Bools'
  BY <1>27, Zenon DEF Toggle
<1>28. CASE UNCHANGED vars
  BY <1>28, Zenon
<1> QED
  BY <1>1, <1>2, <1>3, <1>4, <1>5, <1>6, <1>7, <1>8, <1>9, <1>10, <1>11, <1>12, <1>13, <1>14, <1>15, <1>16, <1>17, <1>18, <1>19, <1>20, <1>21, <1>22, <1>23, <1>24, <1>25, <1>26, <1>27, <1>28, Zenon
     DEF Next, Startup, Poll, Shutdown, API

-----------------------------------------------------------------------------
\* The values of view, and what the steps of a call make of them.
Views == [pc : {"none", "called", "asking", "status", "answered"},
          mgr : {"none", "first", "fallback", "torn"},
          node : RuntimeModes \cup {"none"}, connected : BOOLEAN,
          mode : RuntimeModes \cup {"none"}]

LEMMA ViewTypes ==
  ASSUME NEW v \in Views, NEW pc \in {"none", "called", "asking", "status", "answered"}
  PROVE  /\ \A g \in {"first", "fallback", "torn"} :
              [v EXCEPT !.pc = pc, !.mgr = g] \in Views
         /\ \A m \in RuntimeModes, c \in BOOLEAN :
              [v EXCEPT !.pc = pc, !.node = m, !.connected = c] \in Views
         /\ \A m \in RuntimeModes : [v EXCEPT !.pc = pc, !.mode = m] \in Views
  BY DEF Views

\* A call of GetSystemOverview keeps the type of what it has read.
LEMMA ViewStep == TypeOK /\ ViewOfFirst /\ [Next]_vars => view' \in Views
<1> SUFFICES ASSUME TypeOK, ViewOfFirst, [Next]_vars PROVE view' \in Views
  OBVIOUS
<1>1. /\ view \in Views /\ NoView \in Views
      /\ nodeMgr \in {"first", "fallback", "torn"} /\ runtimeMode \in RuntimeModes
      /\ kind \in [{"first", "fallback"} -> RuntimeModes]
  BY DEF TypeOK, Views, NoView
<1>2. CASE AskOverview
  BY <1>1, <1>2, ViewTypes DEF AskOverview
<1>3. CASE ReadStatus
  <2>1. view.mgr \in {"none", "first", "fallback", "torn"} /\ view.mgr \notin {"none", "torn"}
    BY <1>1, <1>3 DEF Views, ReadStatus, ViewOfFirst
  <2>2. CASE /\ kind[view.mgr] = "PRODUCTION" /\ view.mgr \in running
    BY <1>1, <1>3, <2>2, ViewTypes DEF ReadStatus, StatusOfSimulated, StatusOfReal, Answer, RuntimeModes
  <2>3. CASE ~(kind[view.mgr] = "PRODUCTION" /\ view.mgr \in running)
    <3>1. view' = [view EXCEPT !.pc = "status", !.node = kind[view.mgr],
                               !.connected = (view.mgr \in running)]
      BY <1>3, <2>3 DEF ReadStatus, StatusOfSimulated, StatusOfReal, Answer
    <3>2. kind[view.mgr] \in RuntimeModes
      BY <1>1, <2>1
    <3>3. (view.mgr \in running) \in BOOLEAN
      OBVIOUS
    <3> QED
      BY <1>1, <3>1, <3>2, <3>3, ViewTypes, Zenon
  <2> QED
    BY <2>2, <2>3
<1>4. CASE StatusAnswers
  BY <1>1, <1>4 DEF StatusAnswers, Views
<1>5. CASE ReadTornStatus
  <2>1. CASE UNCHANGED view
    BY <1>1, <2>1
  <2>2. CASE \E m \in RuntimeModes, c \in BOOLEAN : Answer("status", m, c)
    <3>1. PICK m \in RuntimeModes, c \in BOOLEAN : Answer("status", m, c)
      BY <2>2
    <3> QED
      BY <1>1, <3>1, ViewTypes DEF Answer
  <2> QED
    BY <1>5, <2>1, <2>2 DEF ReadTornStatus
<1>6. CASE ReadMode
  BY <1>1, <1>6, ViewTypes DEF ReadMode
<1>7. CASE AskAgain
  BY <1>1, <1>7 DEF AskAgain
<1>8. ASSUME \/ Startup \/ Poll \/ Shutdown \/ TailnetChanges \/ UNCHANGED vars
             \/ \E enable \in BOOLEAN : Toggle(enable)
      PROVE  view' = view
  BY <1>8 DEF Startup, StartNode, StartSimulated, StartReal, UpSucceeds, UpFails, FallBack, SwapBegins, SwapEnds,
              ResetToMockPeers, StartProxy, StartSync, Poll, GetPeersFails, GetPeersAnswers,
              SyncPeers, PollTick, PollEnds, Shutdown, CancelSync, StopProxy, CallStop,
              StopNode, StopSimulated, StopReal, StopTornNode, TailnetChanges, Toggle, vars
<1> QED
  BY <1>1, <1>2, <1>3, <1>4, <1>5, <1>6, <1>7, <1>8, Zenon DEF Next, API

\* What holds of every step.
LEMMA InvStep == Inv /\ [Next]_vars => Inv'
<1> SUFFICES ASSUME Inv, [Next]_vars PROVE Inv'
  OBVIOUS
<1> DEFINE Goal == /\ ModeFollowsBoot' /\ RunsUntilStop' /\ ViewOfFirst'
                   /\ OverviewNeverOverclaims' /\ PeersBySource' /\ Winding'
<1>0. Bools /\ Bools'
  BY BoolsStep DEF Bools, Inv, TypeOK
<1>29. view' \in Views
  BY ViewStep DEF Inv
<1> USE AppAssumption
    DEF Inv, TypeOK, ModeFollowsBoot, RunsUntilStop, ViewOfFirst, OverviewNeverOverclaims,
        PeersBySource, Winding, Booted, RuntimeModes, Shown,
        vars, appVars, pollVars, histVars, shutVars
<1>1. CASE StartNode
  <2>1. CASE kind["first"] = "SIMULATION"
    <3>1. running' = running \cup {"first"} /\ boot' = "proxy"
      BY <1>1, <2>1 DEF StartNode, StartSimulated, StartReal
    <3>2. TypeOK'
      BY <1>0, <1>1, <3>1 DEF StartNode, StartSimulated, StartReal, Bools
    <3>3. Goal
      BY <1>1, <2>1, <3>1 DEF StartNode, StartSimulated, StartReal
    <3> QED
      BY <3>2, <3>3
  <2>2. CASE kind["first"] = "PRODUCTION"
    <3>1. running' = running /\ boot' = "registering"
      BY <1>1, <2>2 DEF StartNode, StartSimulated, StartReal
    <3>2. TypeOK'
      BY <1>0, <1>1, <3>1 DEF StartNode, StartSimulated, StartReal, Bools
    <3>3. Goal
      BY <1>1, <2>2, <3>1 DEF StartNode, StartSimulated, StartReal
    <3> QED
      BY <3>2, <3>3
  <2> QED
    BY <2>1, <2>2
<1>2. CASE UpSucceeds
  <2>1. TypeOK'
    BY <1>0, <1>2 DEF UpSucceeds, Bools
  <2>2. Goal
    BY <1>2 DEF UpSucceeds
  <2> QED
    BY <2>1, <2>2
<1>3. CASE UpFails
  <2>1. TypeOK'
    BY <1>0, <1>3 DEF UpFails, Bools
  <2>2. Goal
    BY <1>3 DEF UpFails
  <2> QED
    BY <2>1, <2>2
<1>4. CASE FallBack
  <2>1. TypeOK'
    BY <1>0, <1>4 DEF FallBack, DegradeMode, Bools
  <2>2. Goal
    BY <1>4 DEF FallBack, DegradeMode
  <2> QED
    BY <2>1, <2>2
<1>5. CASE SwapBegins
  <2>1. TypeOK'
    BY <1>0, <1>5 DEF SwapBegins, Bools
  <2>2. Goal
    BY <1>5 DEF SwapBegins
  <2> QED
    BY <2>1, <2>2
<1>6. CASE SwapEnds
  <2>1. TypeOK'
    BY <1>0, <1>6 DEF SwapEnds, Bools
  <2>2. Goal
    BY <1>6 DEF SwapEnds
  <2> QED
    BY <2>1, <2>2
<1>7. CASE ResetToMockPeers
  <2>1. TypeOK'
    BY <1>0, <1>7 DEF ResetToMockPeers, ResetPeers, Bools
  <2>2. Goal
    BY <1>7 DEF ResetToMockPeers, ResetPeers
  <2> QED
    BY <2>1, <2>2
<1>8. CASE StartProxy
  <2>1. TypeOK'
    BY <1>0, <1>8 DEF StartProxy, Bools
  <2>2. Goal
    BY <1>8 DEF StartProxy
  <2> QED
    BY <2>1, <2>2
<1>9. CASE StartSync
  <2>1. TypeOK'
    BY <1>0, <1>9 DEF StartSync, Syncs, Bools
  <2>2. Goal
    BY <1>9 DEF StartSync, Syncs
  <2> QED
    BY <2>1, <2>2
<1>10. CASE GetPeersFails
  <2>1. TypeOK'
    BY <1>0, <1>10 DEF GetPeersFails, Bools
  <2>2. Goal
    BY <1>10 DEF GetPeersFails
  <2> QED
    BY <2>1, <2>2
<1>11. CASE GetPeersAnswers
  <2>1. TypeOK'
    BY <1>0, <1>11 DEF GetPeersAnswers, Bools
  <2>2. Goal
    BY <1>11 DEF GetPeersAnswers
  <2> QED
    BY <2>1, <2>2
<1>12. CASE SyncPeers
  <2>1. TypeOK'
    BY <1>0, <1>12 DEF SyncPeers, Synced, Bools
  <2>2. Goal
    BY <1>12 DEF SyncPeers, Synced
  <2> QED
    BY <2>1, <2>2
<1>13. CASE PollTick
  <2>1. TypeOK'
    BY <1>0, <1>13 DEF PollTick, Bools
  <2>2. Goal
    BY <1>13 DEF PollTick
  <2> QED
    BY <2>1, <2>2
<1>14. CASE PollEnds
  <2>1. TypeOK'
    BY <1>0, <1>14 DEF PollEnds, Cancelled, Bools
  <2>2. Goal
    BY <1>14 DEF PollEnds, Cancelled
  <2> QED
    BY <2>1, <2>2
<1>15. CASE CancelSync
  <2>1. TypeOK'
    BY <1>0, <1>15 DEF CancelSync, Bools
  <2>2. ~early' => boot = "done"
    BY <1>15 DEF CancelSync
  <2>3. /\ shut' = "proxy" /\ cancelSync' # "set"
        /\ UNCHANGED <<appVars, running, boot, peers, poller, fetched, view>>
    BY <1>15 DEF CancelSync
  <2>4. Goal
    BY <1>15, <2>2, <2>3 DEF CancelSync
  <2> QED
    BY <2>1, <2>4
<1>16. CASE StopProxy
  <2>1. TypeOK'
    BY <1>0, <1>16 DEF StopProxy, Bools
  <2>2. Goal
    BY <1>16 DEF StopProxy
  <2> QED
    BY <2>1, <2>2
<1>17. CASE CallStop
  <2>1. TypeOK'
    BY <1>0, <1>17 DEF CallStop, ToStop, Bools
  <2>2. Goal
    BY <1>17 DEF CallStop, ToStop
  <2> QED
    BY <2>1, <2>2
<1>18. CASE StopNode
  <2>1. /\ running' \subseteq running
        /\ shut = "stopping" /\ shut' = "down"
        /\ stopOn # "torn" /\ stopOn \notin running'
        /\ running \ {stopOn} \subseteq running'
        /\ UNCHANGED <<appVars, boot, proxy, peers, pollVars, tailnet, view, stopOn,
                       crashed, histVars>>
    BY <1>18 DEF StopNode, StopSimulated, StopReal
  <2>2. TypeOK'
    BY <1>0, <2>1 DEF Bools, appVars, pollVars, histVars
  <2>3. Goal
    BY <2>1 DEF appVars, pollVars, histVars
  <2> QED
    BY <2>2, <2>3
<1>19. CASE StopTornNode
  <2>1. TypeOK'
    BY <1>0, <1>19 DEF StopTornNode, Bools
  <2>2. Goal
    BY <1>19 DEF StopTornNode
  <2> QED
    BY <2>1, <2>2
<1>20. CASE AskOverview
  <2>1. TypeOK'
    BY <1>0, <1>20, <1>29 DEF AskOverview, Views, Bools
  <2>2. Goal
    BY <1>20 DEF AskOverview, NoView
  <2> QED
    BY <2>1, <2>2
<1>21. CASE ReadStatus
  <2>1. TypeOK'
    BY <1>0, <1>21, <1>29 DEF ReadStatus, StatusOfSimulated, StatusOfReal, Views, Bools
  <2>2. /\ view.pc = "called" /\ view'.pc \in {"asking", "status"} /\ view'.mgr = view.mgr
        /\ UNCHANGED <<appVars, running, boot, proxy, peers, pollVars, tailnet, shutVars, histVars>>
    BY <1>21 DEF ReadStatus, StatusOfSimulated, StatusOfReal, Answer
  <2>3. runtimeMode = "PRODUCTION" => view'.node = "PRODUCTION"
    <3>1. view'.node = kind[view.mgr]
      <4>1. CASE kind[view.mgr] = "PRODUCTION" /\ view.mgr \in running
        BY <1>21, <4>1 DEF ReadStatus, StatusOfSimulated, StatusOfReal, Answer
      <4>2. CASE ~(kind[view.mgr] = "PRODUCTION" /\ view.mgr \in running)
        BY <1>21, <4>2 DEF ReadStatus, StatusOfSimulated, StatusOfReal, Answer
      <4> QED
        BY <4>1, <4>2
    <3> QED
      BY <2>2, <3>1
  <2>4. Goal
    BY <2>2, <2>3
  <2> QED
    BY <2>1, <2>4
<1>22. CASE StatusAnswers
  <2>1. TypeOK'
    BY <1>0, <1>22 DEF StatusAnswers, Bools
  <2>2. Goal
    BY <1>22 DEF StatusAnswers
  <2> QED
    BY <2>1, <2>2
<1>23. CASE ReadTornStatus
  <2>1. TypeOK'
    BY <1>0, <1>23, <1>29 DEF ReadTornStatus, Views, Bools
  <2>2. Goal
    BY <1>23 DEF ReadTornStatus, NoView, Answer
  <2> QED
    BY <2>1, <2>2
<1>24. CASE ReadMode
  <2>1. TypeOK'
    BY <1>0, <1>24, <1>29 DEF ReadMode, Views, Bools
  <2>2. Goal
    BY <1>24 DEF ReadMode, NoView
  <2> QED
    BY <2>1, <2>2
<1>25. CASE AskAgain
  <2>1. TypeOK'
    BY <1>0, <1>25 DEF AskAgain, NoView, Bools
  <2>2. Goal
    BY <1>25 DEF AskAgain, NoView
  <2> QED
    BY <2>1, <2>2
<1>26. CASE TailnetChanges
  <2>1. TypeOK'
    BY <1>0, <1>26 DEF TailnetChanges, Bools
  <2>2. Goal
    BY <1>26 DEF TailnetChanges
  <2> QED
    BY <2>1, <2>2
<1>27. ASSUME NEW enable \in BOOLEAN, Toggle(enable) PROVE Inv'
  <2>1. TypeOK'
    BY <1>0, <1>27 DEF Toggle, Bools
  <2>2. Goal
    BY <1>27 DEF Toggle
  <2> QED
    BY <2>1, <2>2
<1>28. CASE UNCHANGED vars
  BY <1>28
<1> QED
  BY <1>1, <1>2, <1>3, <1>4, <1>5, <1>6, <1>7, <1>8, <1>9, <1>10, <1>11, <1>12, <1>13, <1>14, <1>15, <1>16, <1>17, <1>18, <1>19, <1>20, <1>21, <1>22, <1>23, <1>24, <1>25, <1>26, <1>27, <1>28, Zenon
     DEF Next, Startup, Poll, Shutdown, API

LEMMA Invariance == Spec => []Inv
  BY InitInv, InvStep, PTL DEF Spec

\* The variables have their types (app.go:38-50).
THEOREM TypeCorrect == Spec => []TypeOK
<1>1. Inv => TypeOK
  BY DEF Inv
<1> QED
  BY <1>1, Invariance, PTL

\* An overview that says PRODUCTION is of the real node, at whatever moment
\* of the fallback it was asked for (app.go:116-128, 190-206).
THEOREM NeverOverclaims == Spec => []OverviewNeverOverclaims
<1>1. Inv => OverviewNeverOverclaims
  BY DEF Inv
<1> QED
  BY <1>1, Invariance, PTL

\* After Startup the current node runs in the mode that is reported
\* (app.go:116-139).
THEOREM HonestMode == Spec => []ModeIsHonest
<1>1. Inv => ModeIsHonest
  BY DEF Inv, ModeFollowsBoot, RunsUntilStop, Booted, ModeIsHonest
<1> QED
  BY <1>1, Invariance, PTL

\* The members on show are those of the mode, for any tailnet and any preset
\* members (app.go:95-98, 127, 134-138).
THEOREM PeersOfMode == Spec => []PeersMatchMode
<1>1. Inv => PeersMatchMode
  BY DEF Inv, TypeOK, PeersBySource, Booted, PeersMatchMode, RuntimeModes
<1> QED
  BY <1>1, Invariance, PTL

\* Shutdown leaves nothing of the program running (app.go:181-187).
THEOREM ExitsClean == Spec => []CleanExit
<1>1. Inv => CleanExit
  BY DEF Inv, Winding, CleanExit
<1> QED
  BY <1>1, Invariance, PTL

-----------------------------------------------------------------------------
\* How the fallback shows: steps of the mode, of the boot and of the pairs of
\* words that a torn read may give.

\* The configuration and the kinds of the nodes never change, the mode only
\* when nothing but the simulated node runs.
LEMMA ModeSteps ==
  ASSUME Inv, [Next]_vars
  PROVE  /\ UNCHANGED <<appConfig, kind>>
         /\ runtimeMode' = runtimeMode \/ (runtimeMode' = "SIMULATION" /\ running' = {"fallback"})
<1>1. CASE FallBack
  BY <1>1 DEF Inv, ModeFollowsBoot, FallBack, DegradeMode
<1>2. ASSUME \/ StartNode \/ UpSucceeds \/ UpFails \/ SwapBegins \/ SwapEnds \/ ResetToMockPeers
             \/ StartProxy \/ StartSync \/ Poll \/ Shutdown \/ API \/ TailnetChanges
             \/ UNCHANGED vars
      PROVE  UNCHANGED <<appConfig, kind, runtimeMode>>
  BY <1>2, Zenon
  DEF StartNode, UpSucceeds, UpFails, SwapBegins, SwapEnds, ResetToMockPeers, StartProxy,
      StartSync, Poll, GetPeersFails, GetPeersAnswers, SyncPeers, PollTick, PollEnds, Shutdown,
      CancelSync, StopProxy, CallStop, StopNode, StopTornNode, API, Toggle, AskOverview,
      ReadStatus, StatusAnswers, ReadTornStatus, ReadMode, AskAgain, TailnetChanges, vars, appVars
<1> QED
  BY <1>1, <1>2 DEF Next, Startup

\* The program was set up for production and runs in simulation.
Fallen == kind["first"] = "PRODUCTION" /\ runtimeMode = "SIMULATION"

\* A torn pair is read, or kept by whoever has read it, only after the mode
\* was degraded; a node that registers has no status call under way.
TornInv ==
  /\ (nodeMgr = "torn" \/ view.mgr = "torn" \/ stopOn = "torn") => Fallen
  /\ boot = "swapping" => kind["first"] = "PRODUCTION"
  /\ view.pc = "asking" => boot \notin {"new", "registering"}

LEMMA TornStep == Inv /\ TornInv /\ [Next]_vars => TornInv'
<1> SUFFICES ASSUME Inv, TornInv, [Next]_vars PROVE TornInv'
  OBVIOUS
<1>0. Fallen => Fallen'
  BY ModeSteps DEF Fallen
<1> USE DEF TornInv, appVars, pollVars, histVars, shutVars
\* Steps that read no node and move no boot.
<1>1. ASSUME UNCHANGED <<nodeMgr, kind, boot>>,
             view'.mgr = view.mgr \/ view'.mgr = "none" \/ view'.mgr = nodeMgr,
             stopOn' = stopOn \/ stopOn' = nodeMgr,
             view'.pc = "asking" => view.pc = "asking" \/ boot \notin {"new", "registering"}
      PROVE  TornInv'
  BY <1>0, <1>1
<1>2. CASE StartNode
  <2>1. view.pc # "asking" /\ nodeMgr = "first" /\ boot' # "swapping"
    BY <1>2 DEF Inv, ModeFollowsBoot, StartNode, StartSimulated, StartReal
  <2> QED
    BY <1>0, <1>2, <2>1 DEF StartNode
<1>3. CASE FallBack
  <2>1. kind["first"] = "PRODUCTION" /\ nodeMgr = "first" /\ UNCHANGED <<kind, nodeMgr, view, stopOn>>
    BY <1>3 DEF Inv, ModeFollowsBoot, FallBack
  <2> QED
    BY <1>0, <1>3, <2>1 DEF FallBack
<1>4. CASE SwapBegins
  <2>1. Fallen
    BY <1>4 DEF Inv, ModeFollowsBoot, SwapBegins, Fallen
  <2> QED
    BY <1>0, <1>4, <2>1 DEF SwapBegins
<1>5. CASE UpSucceeds \/ UpFails \/ SwapEnds \/ ResetToMockPeers \/ StartProxy \/ StartSync
  BY <1>0, <1>5 DEF UpSucceeds, UpFails, SwapEnds, ResetToMockPeers, StartProxy, StartSync
<1>6. CASE Poll
  BY <1>1, <1>6 DEF Poll, GetPeersFails, GetPeersAnswers, SyncPeers, PollTick, PollEnds
<1>7. CASE Shutdown
  BY <1>1, <1>7 DEF Shutdown, CancelSync, StopProxy, CallStop, ToStop, StopNode, StopTornNode
<1>8. ASSUME NEW enable \in BOOLEAN, Toggle(enable) PROVE TornInv'
  BY <1>1, <1>8 DEF Toggle
<1>9. CASE AskOverview
  <2>1. view'.mgr = nodeMgr /\ view'.pc = "called"
    BY <1>9 DEF AskOverview, NoView
  <2> QED
    BY <1>1, <1>9, <2>1 DEF AskOverview
<1>10. CASE ReadStatus
  <2>1. view \in Views
    BY DEF Inv, TypeOK, Views
  <2>2. view'.mgr = view.mgr
    BY <1>10, <2>1 DEF ReadStatus, StatusOfSimulated, StatusOfReal, Answer, Views
  <2>3. view'.pc = "asking" => boot \notin {"new", "registering"}
    BY <1>10, <2>1 DEF ReadStatus, StatusOfSimulated, StatusOfReal, Answer, Views, WriteLocked,
                       Inv, ModeFollowsBoot
  <2> QED
    BY <1>1, <1>10, <2>2, <2>3 DEF ReadStatus
<1>11. CASE StatusAnswers \/ ReadTornStatus \/ ReadMode
  <2>1. view \in Views
    BY DEF Inv, TypeOK, Views
  <2>2. view'.mgr = view.mgr /\ (view'.pc = "asking" => view.pc = "asking")
    BY <1>11, <2>1 DEF StatusAnswers, ReadTornStatus, ReadMode, Answer, Views
  <2> QED
    BY <1>1, <1>11, <2>2 DEF StatusAnswers, ReadTornStatus, ReadMode
<1>12. CASE AskAgain
  BY <1>1, <1>12 DEF AskAgain, NoView
<1>13. CASE TailnetChanges \/ UNCHANGED vars
  BY <1>1, <1>13 DEF TailnetChanges, vars
<1> QED
  BY <1>2, <1>3, <1>4, <1>5, <1>6, <1>7, <1>8, <1>9, <1>10, <1>11, <1>12, <1>13
  DEF Next, Startup, API

LEMMA TornInvariance == Spec => []TornInv
<1>1. Init => TornInv
  BY DEF Init, TornInv, NoView
<1> QED
  BY <1>1, TornStep, Invariance, PTL DEF Spec

\* Only a program that had to fall back can be brought down by the exchange
\* of its node.
THEOREM CrashIsFallback == Spec => []CrashNeedsFallback
<1>1. CrashNeedsFallback <=> (crashed => Fallen)
  BY Zenon DEF CrashNeedsFallback, Fallen
<1>2. Init => CrashNeedsFallback
  BY Zenon DEF Init, CrashNeedsFallback
<1>3. ASSUME Inv, TornInv, CrashNeedsFallback, [Next]_vars PROVE CrashNeedsFallback'
  <2>1. Fallen => Fallen'
    BY <1>3, ModeSteps DEF Fallen
  <2>2. StopTornNode \/ ReadTornStatus => Fallen
    BY <1>3, Zenon DEF TornInv, StopTornNode, ReadTornStatus
  <2>3. ~(StopTornNode \/ ReadTornStatus) => UNCHANGED crashed
    BY <1>3, Zenon
    DEF Next, Startup, StartNode, UpSucceeds, UpFails, FallBack, SwapBegins, SwapEnds,
        ResetToMockPeers, StartProxy, StartSync, Poll, GetPeersFails, GetPeersAnswers, SyncPeers,
        PollTick, PollEnds, Shutdown, CancelSync, StopProxy, CallStop, StopNode, API, Toggle,
        AskOverview, ReadStatus, StatusAnswers, ReadMode, AskAgain, TailnetChanges, vars
  <2>4. crashed' => Fallen'
    BY <1>1, <1>3, <2>1, <2>2, <2>3, Zenon
  <2> QED
    BY <2>4, Zenon DEF CrashNeedsFallback, Fallen
<1> QED
  BY <1>2, <1>3, Invariance, TornInvariance, PTL DEF Spec

\* The lock of the real node is exclusive although its Start, in the model,
\* takes it without waiting: nothing can be reading then.
THEOREM ExclusiveLock == Spec => []LockIsExclusive
<1>1. TornInv => LockIsExclusive
  BY DEF TornInv, LockIsExclusive, WriteLocked, ReadLocked
<1> QED
  BY <1>1, TornInvariance, PTL

\* At most one of the two nodes runs, however Startup and Shutdown overlap.
THEOREM OneNode == Spec => []OneNodeRuns
<1>1. Inv => OneNodeRuns
  BY DEF Inv, TypeOK, ModeFollowsBoot, Booted, OneNodeRuns
<1> QED
  BY <1>1, Invariance, PTL

\* The poller's node is the real one and the current one.
THEOREM PollsRealNode == Spec => []PollerAsksRealNode
<1>1. Inv => PollerAsksRealNode
  BY DEF Inv, ModeFollowsBoot, PeersBySource, PollerAsksRealNode
<1> QED
  BY <1>1, Invariance, PTL

\* The mode never goes up again, and goes down with the real node not running.
THEOREM DegradesOnly == Spec => OnlyDegrades
<1>1. Inv /\ [Next]_vars =>
        [runtimeMode' # runtimeMode => runtimeMode' = "SIMULATION" /\ running' = {"fallback"}]_vars
  BY ModeSteps
<1> QED
  BY <1>1, Invariance, PTL DEF Spec, OnlyDegrades

-----------------------------------------------------------------------------
\* The configuration in use.

\* Which file is used, spelt out: config.json hides the two of the frontend,
\* and of these the first hides the second (arbiter.go:42-62).
LEMMA FirstFileWins ==
  ASSUME NEW files
  PROVE  LoadAppConfig(files) =
           IF files["config.json"] # NoConfig THEN files["config.json"]
           ELSE IF files["frontend/config.json"] # NoConfig THEN files["frontend/config.json"]
           ELSE files["frontend/public/config.json"]
<1> DEFINE First(i) == /\ files[Candidates[i]] # NoConfig
                       /\ \A k \in 1..(i - 1) : files[Candidates[k]] = NoConfig
           first == CHOOSE i \in DOMAIN Candidates : First(i)
<1>1. /\ DOMAIN Candidates = 1..4
      /\ Candidates[1] = "config.json" /\ Candidates[2] = "config.json"
      /\ Candidates[3] = "frontend/config.json" /\ Candidates[4] = "frontend/public/config.json"
  BY DEF Candidates
<1>2. CASE \A i \in 1..4 : files[Candidates[i]] = NoConfig
  BY <1>1, <1>2 DEF LoadAppConfig
<1>3. CASE \E i \in 1..4 : files[Candidates[i]] # NoConfig
  <2>1. \E i \in 1..4 : First(i)
    BY <1>1, <1>3
  <2>2. first \in 1..4 /\ First(first)
    BY <1>1, <2>1
  <2>3. LoadAppConfig(files) = files[Candidates[first]]
    BY <1>1, <1>3 DEF LoadAppConfig
  <2>4. first \in {1, 3, 4}
    <3>1. ~First(2)
      BY <1>1
    <3> HIDE DEF First, first
    <3> QED
      BY <2>2, <3>1
  <2> HIDE DEF first
  <2> QED
    BY <1>1, <2>2, <2>3, <2>4
<1> QED
  BY <1>2, <1>3

\* What it takes to start in production, and so to be in it.
THEOREM ConfiguredProduction == Spec => []ProductionIsConfigured
<1>1. Init => ProductionIsConfigured
  <2> SUFFICES ASSUME Init, runtimeMode = "PRODUCTION"
               PROVE  /\ appConfig # NoConfig /\ appConfig.mode # "simulation"
                      /\ appConfig.controlURL = "usable"
                      /\ \/ appConfig.authKey = "own"
                         \/ appConfig.mode = "production" /\ appConfig.authKey = "sample"
    BY DEF ProductionIsConfigured
  <2>1. PICK reachable \in BOOLEAN : ArbitrateMode(appConfig, reachable) = "PRODUCTION"
    BY DEF Init, CreateAdaptiveNodeManager
  <2>2. appConfig \in AppConfig \cup {NoConfig}
    BY ConfigType DEF Init
  <2> QED
    BY <2>1, <2>2 DEF ArbitrateMode, AppConfig, Modes, ControlURLs, AuthKeys
<1>2. Inv /\ ProductionIsConfigured /\ [Next]_vars => ProductionIsConfigured'
  BY ModeSteps DEF ProductionIsConfigured
<1> QED
  BY <1>1, <1>2, Invariance, PTL DEF Spec
=============================================================================
