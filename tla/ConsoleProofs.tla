---------------------------- MODULE ConsoleProofs ----------------------------
(***************************************************************************)
(* Proofs about Console.tla, for any members, any number of overlapping    *)
(* refreshes and clicks, and any bound on the requests in flight.          *)
(***************************************************************************)
EXTENDS Console, TLAPS

ToggleState == [pc : {"idle", "called", "binding", "closing", "ok", "failed", "answered"},
                enable : BOOLEAN, answer : {None, "running", "stopped", "error"}, lost : BOOLEAN]

RefreshState == [pc : {"idle", "asked", "answered"}, list : SUBSET Peers]

\* While no probe of another peer crosses the selection, every probe on its
\* way is of the peer in the header.
BadgeInv == ~crossed => badge = header /\ \A b \in Buttons : probe[b] \in {None, header}

PanelInv == SendsWhereShown /\ BadgeInv

Busy(c) == ~At(c, "idle")

\* What a lone click knows at each point of its handler.
Sure(c) ==
  /\ Busy(c) => ~toggle[c].lost /\ (toggle[c].enable <=> proxyRunning)
  /\ At(c, "binding") => toggle[c].enable
  /\ At(c, "closing") => ~toggle[c].enable
  /\ At(c, "ok") => port = IF toggle[c].enable THEN "serving" ELSE "free"
  /\ At(c, "answered") =>
       \/ toggle[c].answer = "error"
       \/ toggle[c].answer = "running" /\ toggle[c].enable /\ Serving
       \/ toggle[c].answer = "stopped" /\ ~toggle[c].enable /\ ~Serving

Settled == IF refused THEN ~display ELSE (display <=> Serving) /\ (proxyRunning <=> display)

SwitchInv ==
  ~unsure =>
    /\ boot = "done"
    /\ \A c, d \in Clicks : Busy(c) /\ Busy(d) => c = d
    /\ \A c \in Clicks : Sure(c)
    /\ (\A c \in Clicks : ~Busy(c)) => Settled

IInv == TypeOK /\ PanelInv /\ SwitchInv

-----------------------------------------------------------------------------
\* Steps of the list and of the probes leave the switch alone, and the other
\* way round.
PanelStep ==
  \/ \E r \in Refreshes : Refresh(r)
  \/ \E p \in Peers : Click(p)
  \/ RosterChanges
  \/ \E b \in Buttons : ProbeClicked(b) \/ ProbeShows(b)

SwitchStep ==
  \/ \E c \in Clicks : ToggleClicked(c) \/ Handle(c) \/ ToggleLost(c)
  \/ BootProxy

LEMMA InitHolds == Init => IInv
<1>1. SUFFICES ASSUME Init PROVE IInv
  OBVIOUS
<1>2. TypeOK
  BY <1>1, ConsoleAssumption DEF Init, PPInit, TypeOK, IdleRefresh, IdleToggle, None
<1>3. PanelInv
  BY <1>1 DEF Init, PanelInv, SendsWhereShown, SendTarget, BadgeInv
<1>4. SwitchInv
  BY <1>1 DEF Init, SwitchInv
<1>5. QED
  BY <1>2, <1>3, <1>4 DEF IInv

LEMMA PanelLeavesSwitch == PanelStep => UNCHANGED <<ppVars, switchVars>>
BY DEF PanelStep, Refresh, RefreshBegins, GetAllPeers, RefreshShows, RefreshFails, Click,
       RosterChanges, ProbeClicked, ProbeShows

LEMMA SwitchLeavesPanel == SwitchStep => UNCHANGED <<panelVars, refresh, probe>>
BY DEF SwitchStep, Handle, ToggleClicked, StartBinds, StartOpens, StartFails, StopCloses,
       StopReleases, StopsNothing, ToggleAnswers, ToggleShows, ToggleLost,
       BootProxy, BootBinds, BootOpens, BootFails

\* A selection is of a peer, and the badge follows it.
LEMMA Selecting ==
  ASSUME NEW p \in Peers, Select(p), PanelInv, UNCHANGED probe, p \in peersData'
  PROVE  /\ activePeer' \in Peers /\ header' \in Peers /\ badge' \in Peers /\ crossed' \in BOOLEAN
         /\ PanelInv'
<1>1. activePeer' = p /\ header' = p /\ badge' = p
  BY DEF Select, Labelled
<1>2. crossed' = \E b \in Probing : probe[b] # p
  BY DEF Select
<1>3. crossed' \in BOOLEAN
  BY <1>2, Zenon
<1>4. ASSUME ~crossed' PROVE \A b \in Buttons : probe[b] \in {None, p}
  BY <1>2, <1>4 DEF Probing
<1>5. BadgeInv'
  BY <1>1, <1>4 DEF BadgeInv
<1>6. QED
  BY <1>1, <1>3, <1>5 DEF PanelInv, SendsWhereShown, SendTarget

\* A list of peers that is shown keeps the selection in it.
LEMMA Rendering ==
  ASSUME NEW list \in SUBSET Peers, TypeOK, PanelInv, RenderPeerList(list), UNCHANGED probe
  PROVE  /\ peersData' \in SUBSET Peers
         /\ activePeer' \in Peers /\ header' \in Peers /\ badge' \in Peers /\ crossed' \in BOOLEAN
         /\ PanelInv'
<1>1. peersData' = list
  BY DEF RenderPeerList
<1>2. CASE HasLeft(list) /\ \E p \in list : Select(p)
  <2>1. PICK p \in list : Select(p)
    BY <1>2
  <2>2. p \in Peers /\ p \in peersData'
    BY <1>1
  <2>3. QED
    BY <1>1, <2>1, <2>2, Selecting
<1>3. CASE ~HasLeft(list) /\ UNCHANGED <<activePeer, header, badge, crossed>>
  <2>1. peersData' # {} => activePeer' \in peersData'
    BY <1>1, <1>3 DEF HasLeft
  <2>2. QED
    BY <1>1, <1>3, <2>1 DEF TypeOK, PanelInv, SendsWhereShown, SendTarget, BadgeInv
<1>4. QED
  BY <1>2, <1>3 DEF RenderPeerList

\* The panel's own variables have their types.
PanelTypes ==
  /\ roster \subseteq Peers
  /\ refresh \in [Refreshes -> RefreshState]
  /\ peersData \subseteq Peers
  /\ activePeer \in Peers /\ header \in Peers /\ badge \in Peers
  /\ probe \in [Buttons -> Peers \cup {None}]
  /\ crossed \in BOOLEAN

SwitchTypes ==
  /\ port \in {"free", "bound", "serving", "closing"}
  /\ proxyRunning \in BOOLEAN /\ display \in BOOLEAN
  /\ toggle \in [Clicks -> ToggleState]
  /\ boot \in {"due", "binding", "done"}
  /\ unsure \in BOOLEAN /\ refused \in BOOLEAN

LEMMA Types == TypeOK <=> PanelTypes /\ SwitchTypes
BY DEF TypeOK, PanelTypes, SwitchTypes, RefreshState, ToggleState

LEMMA PanelPreserves ==
  ASSUME TypeOK, PanelInv, PanelStep
  PROVE  PanelTypes' /\ PanelInv'
<1> USE Types DEF PanelTypes, RefreshState
<1>1. ASSUME NEW r \in Refreshes, RefreshBegins(r) \/ GetAllPeers(r) PROVE PanelTypes' /\ PanelInv'
  <2>1. refresh' \in [Refreshes -> RefreshState]
    BY <1>1 DEF RefreshBegins, GetAllPeers
  <2>2. UNCHANGED <<roster, peersData, activePeer, header, badge, crossed, probe>>
    BY <1>1 DEF RefreshBegins, GetAllPeers, panelVars
  <2>3. QED
    BY <2>1, <2>2 DEF PanelInv, SendsWhereShown, SendTarget, BadgeInv
<1>2. ASSUME NEW r \in Refreshes, RefreshShows(r) PROVE PanelTypes' /\ PanelInv'
  <2>1. refresh[r].list \in SUBSET Peers /\ RenderPeerList(refresh[r].list) /\ UNCHANGED <<probe, roster>>
    BY <1>2 DEF RefreshShows
  <2>2. refresh' \in [Refreshes -> RefreshState]
    BY <1>2 DEF RefreshShows, IdleRefresh
  <2>3. QED
    BY <2>1, <2>2, Rendering
<1>3. ASSUME NEW r \in Refreshes, RefreshFails(r) PROVE PanelTypes' /\ PanelInv'
  <2>1. refresh' \in [Refreshes -> RefreshState] /\ UNCHANGED probe
    BY <1>3 DEF RefreshFails, IdleRefresh
  <2>2. CASE RenderPeerList(Preset) /\ UNCHANGED roster
    BY <2>1, <2>2, Rendering, ConsoleAssumption
  <2>3. CASE UNCHANGED panelVars
    BY <2>1, <2>3 DEF panelVars, PanelInv, SendsWhereShown, SendTarget, BadgeInv
  <2>4. QED
    BY <1>3, <2>2, <2>3 DEF RefreshFails
<1>4. ASSUME NEW p \in Peers, Click(p) PROVE PanelTypes' /\ PanelInv'
  <2>1. Select(p) /\ p \in peersData' /\ UNCHANGED <<roster, peersData, refresh, probe>>
    BY <1>4 DEF Click
  <2>2. QED
    BY <2>1, Selecting
<1>5. CASE RosterChanges
  BY <1>5 DEF RosterChanges, PanelInv, SendsWhereShown, SendTarget, BadgeInv
<1>6. ASSUME NEW b \in Buttons, ProbeClicked(b) PROVE PanelTypes' /\ PanelInv'
  <2>1. probe' = [probe EXCEPT ![b] = activePeer] /\ UNCHANGED <<panelVars, refresh>>
    BY <1>6 DEF ProbeClicked
  <2>2. probe' \in [Buttons -> Peers \cup {None}]
    BY <2>1
  <2>3. ASSUME ~crossed, NEW d \in Buttons PROVE probe'[d] \in {None, header}
    BY <2>1, <2>3 DEF PanelInv, BadgeInv, SendsWhereShown, SendTarget
  <2>4. QED
    BY <2>1, <2>2, <2>3 DEF panelVars, PanelInv, SendsWhereShown, SendTarget, BadgeInv
<1>7. ASSUME NEW b \in Buttons, ProbeShows(b) PROVE PanelTypes' /\ PanelInv'
  <2>1. /\ probe[b] # None /\ badge' = probe[b] /\ probe' = [probe EXCEPT ![b] = None]
        /\ UNCHANGED <<roster, peersData, activePeer, header, crossed, refresh>>
    BY <1>7 DEF ProbeShows
  <2>2. probe' \in [Buttons -> Peers \cup {None}] /\ badge' \in Peers
    BY <2>1
  <2>3. BadgeInv'
    BY <2>1 DEF PanelInv, BadgeInv
  <2>4. QED
    BY <2>1, <2>2, <2>3 DEF PanelInv, SendsWhereShown, SendTarget
<1>8. QED
  BY <1>1, <1>2, <1>3, <1>4, <1>5, <1>6, <1>7 DEF PanelStep, Refresh

-----------------------------------------------------------------------------
\* The switch.

\* A click's step keeps the types of the switch.
LEMMA SwitchKeepsTypes ==
  ASSUME TypeOK, SwitchStep
  PROVE  SwitchTypes'
<1> USE Types DEF SwitchTypes, ToggleState, Move
<1>1. ASSUME NEW c \in Clicks, ToggleClicked(c) PROVE SwitchTypes'
  <2>1. toggle' \in [Clicks -> ToggleState] /\ proxyRunning' \in BOOLEAN
    BY <1>1 DEF ToggleClicked, IdleToggle
  <2>2. unsure' \in BOOLEAN
    <3>1. unsure' = (Toggling # {} \/ boot # "done")
      BY <1>1 DEF ToggleClicked
    <3>2. QED
      BY <3>1, Zenon
  <2>3. UNCHANGED <<ppVars, display, boot, refused>>
    BY <1>1 DEF ToggleClicked
  <2>4. QED
    BY <2>1, <2>2, <2>3 DEF ppVars
<1>2. ASSUME NEW c \in Clicks, Handle(c) PROVE SwitchTypes'
  <2>1. toggle' \in [Clicks -> ToggleState]
    <3>1. CASE \E pc \in {"binding", "closing", "ok", "failed"} : Goes(c, pc)
      BY <3>1 DEF Goes
    <3>2. CASE ToggleAnswers(c)
      <4>1. toggle' \in {[toggle EXCEPT ![c] = IdleToggle],
                          [toggle EXCEPT ![c].pc = "answered", ![c].answer = Outcome(c)]}
        BY <3>2 DEF ToggleAnswers
      <4>2. Outcome(c) \in {"running", "stopped", "error"}
        BY DEF Outcome
      <4>3. IdleToggle \in ToggleState
        BY DEF IdleToggle
      <4>4. [toggle EXCEPT ![c] = IdleToggle] \in [Clicks -> ToggleState]
        BY <4>3
      <4>5. [toggle EXCEPT ![c].pc = "answered", ![c].answer = Outcome(c)] \in [Clicks -> ToggleState]
        BY <4>2
      <4>6. QED
        BY <4>1, <4>4, <4>5
    <3>3. CASE ToggleShows(c)
      BY <3>3 DEF ToggleShows, IdleToggle
    <3>4. QED
      BY <1>2, <3>1, <3>2, <3>3 DEF Handle, StartBinds, StartOpens, StartFails, StopCloses,
                                    StopReleases, StopsNothing
  <2>2. port' \in {"free", "bound", "serving", "closing"} /\ UNCHANGED <<proxyRunning, boot, unsure>>
    BY <1>2 DEF Handle, StartBinds, StartOpens, StartFails, StopCloses, StopReleases,
                StopsNothing, ToggleAnswers, ToggleShows, Bind, Open, Close, Release, ppVars
  <2>3. display' \in BOOLEAN /\ refused' \in BOOLEAN
    <3>1. CASE ToggleShows(c)
      <4>1. display' = (toggle[c].answer = "running") /\ refused' = (toggle[c].answer = "error")
        BY <3>1 DEF ToggleShows
      <4>2. QED
        BY <4>1, Zenon
    <3>2. CASE ~ToggleShows(c)
      <4>1. UNCHANGED <<display, refused>>
        BY <1>2, <3>2 DEF Handle, StartBinds, StartOpens, StartFails, StopCloses, StopReleases,
                    StopsNothing, ToggleAnswers
      <4>2. QED
        BY <4>1
    <3>3. QED
      BY <3>1, <3>2
  <2>4. QED
    BY <2>1, <2>2, <2>3
<1>3. ASSUME NEW c \in Clicks, ToggleLost(c) PROVE SwitchTypes'
  <2>1. toggle' \in [Clicks -> ToggleState]
    <3>1. CASE toggle' = [toggle EXCEPT ![c] = IdleToggle]
      BY <3>1 DEF IdleToggle
    <3>2. CASE toggle' = [toggle EXCEPT ![c].lost = TRUE]
      BY <3>2
    <3>3. QED
      BY <1>3, <3>1, <3>2 DEF ToggleLost
  <2>2. QED
    BY <1>3, <2>1 DEF ToggleLost, ppVars
<1>4. CASE BootProxy
  BY <1>4 DEF BootProxy, BootBinds, BootOpens, BootFails, Bind, Open, ppVars
<1>5. QED
  BY <1>1, <1>2, <1>3, <1>4 DEF SwitchStep

LEMMA SwitchPreserves ==
  ASSUME TypeOK, SwitchInv, SwitchStep
  PROVE  SwitchInv'
<1> USE Types DEF SwitchTypes, ToggleState
<1>1. ASSUME NEW c \in Clicks, ToggleClicked(c) PROVE SwitchInv'
  <2>1. SUFFICES ASSUME ~unsure' PROVE SwitchInv'
    BY DEF SwitchInv
  <2>2. Toggling = {} /\ boot = "done"
    BY <1>1, <2>1 DEF ToggleClicked
  <2>3. \A d \in Clicks : toggle[d].pc = "idle"
    BY <2>2 DEF Toggling
  <2>4. /\ proxyRunning' = ~proxyRunning /\ boot' = boot
        /\ toggle' = [toggle EXCEPT ![c] = [IdleToggle EXCEPT !.pc = "called", !.enable = ~proxyRunning]]
    BY <1>1 DEF ToggleClicked
  <2>5. /\ toggle'[c].pc = "called" /\ toggle'[c].enable = ~proxyRunning /\ ~toggle'[c].lost
        /\ \A d \in Clicks \ {c} : toggle'[d].pc = "idle"
    BY <2>3, <2>4 DEF IdleToggle
  <2>6. \A d \in Clicks : Sure(d)'
    BY <2>4, <2>5 DEF Sure, Busy, At
  <2>7. Busy(c)' /\ \A d \in Clicks : Busy(d)' => d = c
    BY <2>5 DEF Busy, At
  <2>8. QED
    BY <2>2, <2>4, <2>6, <2>7 DEF SwitchInv
<1>2. ASSUME NEW c \in Clicks, Handle(c) PROVE SwitchInv'
  <2>1. SUFFICES ASSUME ~unsure' PROVE SwitchInv'
    BY DEF SwitchInv
  <2>2. UNCHANGED <<boot, unsure, proxyRunning>>
    BY <1>2 DEF Handle, StartBinds, StartOpens, StartFails, StopCloses, StopReleases,
                StopsNothing, ToggleAnswers, ToggleShows
  <2>3. ~At(c, "idle")
    BY <1>2 DEF Handle, StartBinds, StartOpens, StartFails, StopCloses, StopReleases,
                StopsNothing, ToggleAnswers, ToggleShows, At
  <2>4. boot = "done" /\ Sure(c) /\ \A d \in Clicks : Busy(d) => d = c
    BY <2>1, <2>2, <2>3 DEF SwitchInv, Busy
  <2>5. \A d \in Clicks \ {c} : toggle'[d] = toggle[d] /\ toggle[d].pc = "idle"
    BY <1>2, <2>4 DEF Handle, StartBinds, StartOpens, StartFails, StopCloses, StopReleases,
                StopsNothing, ToggleAnswers, ToggleShows, Goes, Busy, At
  <2>6. \A d \in Clicks \ {c} : Sure(d)' /\ ~Busy(d)'
    BY <2>5 DEF Sure, Busy, At
  <2>7. CASE ToggleShows(c)
    <3>1. toggle'[c].pc = "idle"
      BY <2>7 DEF ToggleShows, IdleToggle
    <3>2. Sure(c)'
      BY <3>1 DEF Sure, Busy, At
    <3>3. toggle[c].enable <=> proxyRunning
      BY <2>3, <2>4 DEF Sure, Busy
    <3>4. /\ toggle[c].pc = "answered" /\ UNCHANGED port
          /\ display' <=> (toggle[c].answer = "running")
          /\ refused' <=> (toggle[c].answer = "error")
      BY <2>7 DEF ToggleShows, At, ppVars
    <3>5. \/ toggle[c].answer = "error"
          \/ toggle[c].answer = "running" /\ toggle[c].enable /\ Serving
          \/ toggle[c].answer = "stopped" /\ ~toggle[c].enable /\ ~Serving
      BY <2>4, <3>4 DEF Sure, At
    <3>6. Serving' <=> Serving
      BY <3>4 DEF Serving
    <3>7. Settled'
      BY <2>2, <3>3, <3>4, <3>5, <3>6 DEF Settled
    <3>8. QED
      BY <2>2, <2>4, <2>6, <3>1, <3>2, <3>7 DEF SwitchInv, Busy, At
  <2>8. CASE ~ToggleShows(c)
    <3>0. ~toggle[c].lost
      BY <2>3, <2>4 DEF Sure, Busy
    <3>1. Busy(c)' /\ toggle'[c].enable = toggle[c].enable
      <4>1. CASE ToggleAnswers(c)
        <5>1. toggle' = [toggle EXCEPT ![c].pc = "answered", ![c].answer = Outcome(c)]
          BY <3>0, <4>1 DEF ToggleAnswers
        <5>2. QED
          BY <5>1 DEF Busy, At
      <4>2. CASE ~ToggleAnswers(c)
        BY <1>2, <2>8, <4>2 DEF Handle, StartBinds, StartOpens, StartFails, StopCloses,
                  StopReleases, StopsNothing, Goes, Busy, At
      <4>3. QED
        BY <4>1, <4>2
    <3>2. Sure(c)'
      <4>1. CASE ToggleAnswers(c)
        <5>1. /\ toggle'[c].pc = "answered" /\ toggle'[c].answer = Outcome(c) /\ UNCHANGED port
              /\ ~toggle'[c].lost /\ toggle[c].pc \in {"ok", "failed"}
          BY <2>3, <2>4, <4>1 DEF ToggleAnswers, At, Sure, Busy, ppVars
        <5>2. toggle[c].pc = "ok" => (toggle[c].enable <=> Serving)
          BY <2>4 DEF Sure, At, Serving
        <5>3. Serving' <=> Serving
          BY <5>1 DEF Serving
        <5>4. \/ Outcome(c) = "error"
              \/ Outcome(c) = "running" /\ toggle[c].enable /\ Serving
              \/ Outcome(c) = "stopped" /\ ~toggle[c].enable /\ ~Serving
          BY <5>1, <5>2 DEF Outcome, At
        <5>5. QED
          <6>1. toggle'[c].enable <=> proxyRunning'
            BY <2>2, <2>3, <2>4, <3>1 DEF Sure, Busy
          <6>2. \/ toggle'[c].answer = "error"
                \/ toggle'[c].answer = "running" /\ toggle'[c].enable /\ Serving'
                \/ toggle'[c].answer = "stopped" /\ ~toggle'[c].enable /\ ~Serving'
            BY <3>1, <5>1, <5>3, <5>4
          <6>3. QED
            BY <5>1, <6>1, <6>2 DEF Sure, Busy, At
      <4>2. CASE StartBinds(c) \/ StartOpens(c) \/ StartFails(c)
        BY <2>2, <2>4, <4>2 DEF StartBinds, StartOpens, StartFails, Goes, Sure, Busy, At, Open, Move
      <4>3. CASE StopCloses(c) \/ StopReleases(c) \/ StopsNothing(c)
        BY <2>2, <2>4, <4>3 DEF StopCloses, StopReleases, StopsNothing, Goes, Sure, Busy, At,
                                Release, ppVars
      <4>4. QED
        BY <1>2, <2>8, <4>1, <4>2, <4>3 DEF Handle
    <3>3. QED
      BY <2>2, <2>4, <2>6, <3>1, <3>2 DEF SwitchInv
  <2>9. QED
    BY <2>7, <2>8
<1>3. ASSUME NEW c \in Clicks, ToggleLost(c) PROVE SwitchInv'
  BY <1>3 DEF ToggleLost, SwitchInv
<1>4. CASE BootProxy
  BY <1>4 DEF BootProxy, BootBinds, BootOpens, BootFails, SwitchInv
<1>5. QED
  BY <1>1, <1>2, <1>3, <1>4 DEF SwitchStep

-----------------------------------------------------------------------------
LEMMA StepHolds == IInv /\ [Next]_vars => IInv'
<1>1. SUFFICES ASSUME IInv, [Next]_vars PROVE IInv'
  OBVIOUS
<1>2. CASE PanelStep
  <2>1. UNCHANGED <<ppVars, switchVars>>
    BY <1>2, PanelLeavesSwitch
  <2>2. SwitchTypes' /\ SwitchInv'
    BY <1>1, <2>1, Types DEF IInv, SwitchTypes, ppVars, switchVars, SwitchInv, Sure, Settled, Busy,
                            At, Serving
  <2>3. PanelTypes' /\ PanelInv'
    BY <1>1, <1>2, PanelPreserves DEF IInv
  <2>4. QED
    BY <2>2, <2>3 DEF IInv, TypeOK, PanelTypes, SwitchTypes, RefreshState, ToggleState
<1>3. CASE SwitchStep
  <2>1. UNCHANGED <<panelVars, refresh, probe>>
    BY <1>3, SwitchLeavesPanel
  <2>2. PanelTypes' /\ PanelInv'
    BY <1>1, <2>1, Types DEF IInv, PanelTypes, panelVars, PanelInv, SendsWhereShown, SendTarget,
                            BadgeInv
  <2>3. SwitchTypes' /\ SwitchInv'
    BY <1>1, <1>3, SwitchKeepsTypes, SwitchPreserves DEF IInv
  <2>4. QED
    BY <2>2, <2>3 DEF IInv, TypeOK, PanelTypes, SwitchTypes, RefreshState, ToggleState
<1>4. CASE UNCHANGED vars
  BY <1>1, <1>4 DEF vars, ppVars, panelVars, switchVars, IInv, TypeOK, PanelInv, SendsWhereShown,
                    SendTarget, BadgeInv, SwitchInv, Sure, Settled, Busy, At, Serving
<1>5. QED
  BY <1>1, <1>2, <1>3, <1>4 DEF Next, PanelStep, SwitchStep

LEMMA Invariance == Spec => []IInv
BY InitHolds, StepHolds, PTL DEF Spec

\* The variables have their types (main.js:3-4, 215).
THEOREM TypeCorrect == Spec => []TypeOK
<1>1. IInv => TypeOK
  BY DEF IInv
<1>2. QED
  BY <1>1, Invariance, PTL

\* A message goes to the peer above the chat, who is on the list when there
\* is one (main.js:299, 548-557, 576-582).
THEOREM SendsWhereShownHolds == Spec => []SendsWhereShown
<1>1. IInv => SendsWhereShown
  BY DEF IInv, PanelInv
<1>2. QED
  BY <1>1, Invariance, PTL

\* The badge is of the peer in the header unless a probe of another crossed
\* its selection (main.js:255, 271, 312-325).
THEOREM BadgeIsOfHeaderHolds == Spec => []BadgeIsOfHeader
<1>1. IInv => BadgeIsOfHeader
  BY DEF IInv, PanelInv, BadgeInv, BadgeIsOfHeader
<1>2. QED
  BY <1>1, Invariance, PTL

\* A lone click leaves the ribbon, the next click and the port in agreement
\* (main.js:217-237, app.go:233-245, 378-388).
THEOREM PortShownTrulyHolds == Spec => []PortShownTruly
<1>1. ASSUME IInv PROVE PortShownTruly
  <2>1. SUFFICES ASSUME Toggling = {}, ~unsure
                 PROVE  IF refused THEN ~display ELSE display = Serving /\ proxyRunning = display
    BY DEF PortShownTruly
  <2>2. \A c \in Clicks : ~Busy(c)
    BY <2>1 DEF Toggling, Busy, At
  <2>3. Settled
    BY <1>1, <2>1, <2>2 DEF IInv, SwitchInv
  <2>4. display \in BOOLEAN /\ proxyRunning \in BOOLEAN /\ Serving \in BOOLEAN
    BY <1>1 DEF IInv, TypeOK, Serving
  <2>5. QED
    BY <2>3, <2>4 DEF Settled
<1>2. QED
  BY <1>1, Invariance, PTL

-----------------------------------------------------------------------------
\* The port.

\* A step of a handler changes no click but its own, and comes from one of the
\* places between call and answer.
LEMMA HandleMoves ==
  ASSUME TypeOK, NEW c \in Clicks, Handle(c)
  PROVE  /\ \A d \in Clicks \ {c} : toggle'[d] = toggle[d]
         /\ UNCHANGED boot
<1>1. UNCHANGED boot
  BY DEF Handle, StartBinds, StartOpens, StartFails, StopCloses, StopReleases, StopsNothing,
         ToggleAnswers, ToggleShows
<1>2. ASSUME NEW pc, Goes(c, pc) PROVE \A d \in Clicks \ {c} : toggle'[d] = toggle[d]
  BY <1>2 DEF Goes, TypeOK
<1>3. CASE ToggleAnswers(c) \/ ToggleShows(c)
  BY <1>3 DEF ToggleAnswers, ToggleShows, TypeOK
<1>4. QED
  BY <1>1, <1>2, <1>3 DEF Handle, StartBinds, StartOpens, StartFails, StopCloses, StopReleases,
                          StopsNothing

LEMMA HandStep == TypeOK /\ OneHandOnPort /\ [Next]_vars => OneHandOnPort'
<1>1. SUFFICES ASSUME TypeOK, OneHandOnPort, [Next]_vars PROVE OneHandOnPort'
  OBVIOUS
<1> USE Types DEF SwitchTypes, ToggleState, OneHandOnPort, Holds, At, Unlocked
<1>2. ASSUME UNCHANGED <<port, boot, toggle>> PROVE OneHandOnPort'
  BY <1>1, <1>2
<1>3. ASSUME NEW c \in Clicks, UNCHANGED <<port, boot>>, ~Holds(c),
             \A d \in Clicks \ {c} : toggle'[d] = toggle[d],
             toggle'[c].pc \notin {"binding", "closing"}
      PROVE  OneHandOnPort'
  BY <1>1, <1>3
<1>4. CASE PanelStep
  BY <1>2, <1>4, PanelLeavesSwitch DEF ppVars, switchVars
<1>5. ASSUME NEW c \in Clicks, ToggleClicked(c) \/ ToggleLost(c) PROVE OneHandOnPort'
  <2>1. UNCHANGED <<port, boot>> /\ \A d \in Clicks \ {c} : toggle'[d] = toggle[d]
    BY <1>1, <1>5 DEF ToggleClicked, ToggleLost, ppVars
  <2>2. \/ toggle'[c].pc = toggle[c].pc
        \/ ~Holds(c) /\ toggle'[c].pc \notin {"binding", "closing"}
    <3>1. CASE ToggleClicked(c)
      <4>1. /\ toggle[c].pc = "idle"
            /\ toggle' = [toggle EXCEPT ![c] =
                            [IdleToggle EXCEPT !.pc = "called", !.enable = ~proxyRunning]]
        BY <3>1 DEF ToggleClicked
      <4>2. toggle'[c].pc = "called"
        BY <1>1, <4>1 DEF IdleToggle
      <4>3. QED
        BY <4>1, <4>2
    <3>2. CASE toggle[c].pc \in {"called", "answered"} /\ toggle' = [toggle EXCEPT ![c] = IdleToggle]
      <4>1. toggle'[c].pc = "idle"
        BY <1>1, <3>2 DEF IdleToggle
      <4>2. QED
        BY <3>2, <4>1
    <3>3. CASE toggle' = [toggle EXCEPT ![c].lost = TRUE]
      BY <1>1, <3>3
    <3>4. QED
      BY <1>5, <3>1, <3>2, <3>3 DEF ToggleLost
  <2>3. CASE toggle'[c].pc = toggle[c].pc
    <3>1. \A d \in Clicks : toggle'[d].pc = toggle[d].pc
      BY <2>1, <2>3
    <3>2. QED
      BY <1>1, <2>1, <3>1
  <2>4. QED
    BY <1>3, <2>1, <2>2, <2>3
<1>6. ASSUME NEW c \in Clicks, Handle(c) PROVE OneHandOnPort'
  <2>1. (\A d \in Clicks \ {c} : toggle'[d] = toggle[d]) /\ UNCHANGED boot
    BY <1>1, <1>6, HandleMoves
  <2>2. CASE StartBinds(c) \/ StopCloses(c)
    \* The port was unlocked, so nobody held it.
    <3>1. Unlocked /\ ~Unlocked' /\ Holds(c)'
      BY <1>1, <2>2 DEF StartBinds, StopCloses, Bind, Close, Move, Goes
    <3>2. boot # "binding" /\ \A d \in Clicks : ~Holds(d)
      BY <1>1, <3>1
    <3>3. /\ At(c, "binding")' => port' = "bound"
          /\ At(c, "closing")' => port' = "closing"
      BY <1>1, <2>2 DEF StartBinds, StopCloses, Bind, Close, Move, Goes
    <3>4. \A d \in Clicks \ {c} : ~Holds(d)'
      BY <2>1, <3>2
    <3>5. QED
      BY <2>1, <3>1, <3>2, <3>3, <3>4
  <2>3. CASE StartOpens(c) \/ StopReleases(c)
    \* The holder lets go, and nobody else held the port.
    <3>1. Holds(c) /\ ~Holds(c)' /\ Unlocked'
      BY <1>1, <2>3 DEF StartOpens, StopReleases, Open, Release, Move, Goes
    <3>2. boot # "binding" /\ \A d \in Clicks \ {c} : ~Holds(d)
      BY <1>1, <3>1
    <3>3. \A d \in Clicks : ~Holds(d)'
      BY <2>1, <3>1, <3>2
    <3>4. QED
      BY <2>1, <3>1, <3>2, <3>3
  <2>4. CASE StartFails(c) \/ StopsNothing(c) \/ ToggleAnswers(c) \/ ToggleShows(c)
    <3>1. UNCHANGED port /\ ~Holds(c)
      BY <2>4 DEF StartFails, StopsNothing, ToggleAnswers, ToggleShows, ppVars
    <3>2. toggle'[c].pc \notin {"binding", "closing"}
      <4>1. CASE StartFails(c) \/ StopsNothing(c)
        BY <1>1, <4>1 DEF StartFails, StopsNothing, Goes
      <4>2. CASE toggle' = [toggle EXCEPT ![c] = IdleToggle]
        BY <1>1, <4>2 DEF IdleToggle
      <4>3. CASE toggle' = [toggle EXCEPT ![c].pc = "answered", ![c].answer = Outcome(c)]
        BY <1>1, <4>3
      <4>4. QED
        BY <2>4, <4>1, <4>2, <4>3 DEF ToggleAnswers, ToggleShows
    <3>3. QED
      BY <1>3, <2>1, <3>1, <3>2
  <2>5. QED
    BY <1>6, <2>2, <2>3, <2>4 DEF Handle
<1>7. CASE BootProxy
  <2>1. UNCHANGED toggle
    BY <1>7 DEF BootProxy, BootBinds, BootOpens, BootFails
  <2>2. CASE BootBinds
    BY <1>1, <2>1, <2>2 DEF BootBinds, Bind, Move
  <2>3. CASE BootOpens \/ BootFails
    BY <1>1, <2>1, <2>3 DEF BootOpens, BootFails, Open, Move, ppVars
  <2>4. QED
    BY <1>7, <2>2, <2>3 DEF BootProxy
<1>8. CASE UNCHANGED vars
  BY <1>2, <1>8 DEF vars, ppVars, switchVars
<1>9. QED
  BY <1>1, <1>4, <1>5, <1>6, <1>7, <1>8 DEF Next, PanelStep

\* One Start or Stop at a time is between its halves, whoever asks for it
\* (socks5.go:93-114 and 117-129).
THEOREM OneHand == Spec => []OneHandOnPort
<1>1. Init => OneHandOnPort
  BY DEF Init, PPInit, OneHandOnPort, Holds, At, Unlocked, IdleToggle
<1>2. QED
  BY <1>1, HandStep, TypeCorrect, PTL DEF Spec
=============================================================================
