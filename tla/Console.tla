------------------------------- MODULE Console -------------------------------
(***************************************************************************)
(* frontend/src/main.js with the handlers of app.go that it calls: the     *)
(* list of peers and the peer that is selected in it, the badge of that    *)
(* peer's link, and the switch of the local proxy.                         *)
(*                                                                         *)
(* JavaScript runs one callback at a time, but each handler awaits its     *)
(* fetch, and meanwhile others run: a timer refreshes the list every 5 s   *)
(* whether or not the last refresh is over, the user clicks, and answers   *)
(* arrive in any order, since each request is served by a goroutine of its *)
(* own.  The port of the proxy is the abstract one of ProxyPort.tla, which *)
(* SocksServer.tla implements; Startup may be about to start it while the  *)
(* window is already there (app.go:119-131 starts the node first, which    *)
(* may take 15 s).                                                         *)
(*                                                                         *)
(* Left out: the texts and latencies, what a badge says (its link is what  *)
(* matters), the ribbon of the runtime mode, and the tabs, transfer bar    *)
(* and meeting grid, which are drawn from constants.                       *)
(***************************************************************************)
EXTENDS ProxyPort, FiniteSets, Naturals

CONSTANTS
  Peers,      \* peer IPs
  Default,    \* the peer that index.html and main.js:3 begin with
  Preset,     \* the list shown when nothing can be fetched (main.js:519-523)
  Refreshes,  \* refreshes that may overlap
  Buttons,    \* the two that probe the link of the selected peer
  Clicks,     \* clicks on the switch of the proxy that may overlap
  MaxInFlight \* bound on the requests in flight together

ASSUME ConsoleAssumption ==
  /\ Default \in Preset /\ Preset \subseteq Peers
  /\ MaxInFlight \in Nat

VARIABLES
  roster,       \* the peers of a.chatMgr
  refresh,      \* refresh -> where it is, and the list it was answered
  peersData,    \* the list on show
  activePeer,
  header,       \* the peer named above the chat
  badge,        \* the peer whose link the badge beside it states
  probe,        \* button -> the peer it is probing, or None
  proxyRunning, \* what the next click negates
  display,      \* the ribbon says that the proxy runs
  toggle,       \* click -> where it is, what it asks for, what it was answered,
                \*   and whether its fetch was rejected meanwhile
  boot,         \* Startup's own Start of the proxy: "due", "binding", "done"
  crossed,      \* history: a probe of another peer was on its way when this
                \*   peer was selected
  unsure,       \* history: the ribbon was not settled by a click of its own
  refused       \* history: the last click to be answered was refused

panelVars == <<roster, peersData, activePeer, header, badge, crossed>>
switchVars == <<proxyRunning, display, toggle, boot, unsure, refused>>
vars == <<ppVars, panelVars, refresh, probe, switchVars>>

None == "none"

IdleRefresh == [pc |-> "idle", list |-> {}]

IdleToggle == [pc |-> "idle", enable |-> FALSE, answer |-> None, lost |-> FALSE]

Probing == {b \in Buttons : probe[b] # None}

Toggling == {c \in Clicks : toggle[c].pc # "idle"}

HasRoom ==
  Cardinality(Probing) + Cardinality(Toggling)
    + Cardinality({r \in Refreshes : refresh[r].pc # "idle"}) < MaxInFlight

-----------------------------------------------------------------------------
\* The list (main.js:429-585, app.go:349-352)

\* The header and its badge are set from the entry of the peer (549-557,
\* 576-582).
MutKeepsBadge(p) == badge

MutUnfound(p) == None

Labelled(p) == p

Select(p) ==
  /\ activePeer' = p
  /\ header' = p
  /\ badge' = Labelled(p)
  /\ crossed' = \E b \in Probing : probe[b] # p

\* Lines 548-557: the selection moves when its peer has left, to whichever
\* peer the server lists first (a Go map has no order).
MutNeverLeft(list) == FALSE

HasLeft(list) == list # {} /\ activePeer \notin list

RenderPeerList(list) ==
  /\ peersData' = list
  /\ \/ HasLeft(list) /\ \E p \in list : Select(p)
     \/ ~HasLeft(list) /\ UNCHANGED <<activePeer, header, badge, crossed>>

\* The timer of line 469 does not wait for the refresh before.
RefreshBegins(r) ==
  /\ refresh[r].pc = "idle"
  /\ HasRoom
  /\ refresh' = [refresh EXCEPT ![r].pc = "asked"]
  /\ UNCHANGED <<ppVars, panelVars, probe, switchVars>>

\* ChatManager.GetAllPeers copies the peers under its lock (chat.go:86-95).
GetAllPeers(r) ==
  /\ refresh[r].pc = "asked"
  /\ refresh' = [refresh EXCEPT ![r] = [pc |-> "answered", list |-> roster]]
  /\ UNCHANGED <<ppVars, panelVars, probe, switchVars>>

RefreshShows(r) ==
  /\ refresh[r].pc = "answered"
  /\ RenderPeerList(refresh[r].list)
  /\ refresh' = [refresh EXCEPT ![r] = IdleRefresh]
  /\ UNCHANGED <<ppVars, roster, probe, switchVars>>

\* Lines 513-526: the fetch throws, and an empty list gets the preset
\* members; or its answer is not ok, and nothing happens.
RefreshFails(r) ==
  /\ refresh[r].pc # "idle"
  /\ refresh' = [refresh EXCEPT ![r] = IdleRefresh]
  /\ \/ peersData = {} /\ RenderPeerList(Preset) /\ UNCHANGED roster
     \/ UNCHANGED panelVars
  /\ UNCHANGED <<ppVars, probe, switchVars>>

\* The user selects a peer of the list.
Click(p) ==
  /\ p \in peersData
  /\ Select(p)
  /\ UNCHANGED <<ppVars, roster, peersData, refresh, probe, switchVars>>

\* External: the peers of the chat manager change (AppLifecycle.tla).
RosterChanges ==
  /\ roster' \in SUBSET Peers
  /\ UNCHANGED <<ppVars, peersData, activePeer, header, badge, crossed, refresh, probe,
                 switchVars>>

-----------------------------------------------------------------------------
\* The two probes (main.js:249-278, app.go:361-375)

\* A button is disabled until its own probe is over; the other is not.
ProbeClicked(b) ==
  /\ probe[b] = None
  /\ HasRoom
  /\ probe' = [probe EXCEPT ![b] = activePeer]
  /\ UNCHANGED <<ppVars, panelVars, refresh, switchVars>>

\* The answer, or the mock that replaces a failed one, goes to the badge of
\* whichever peer is in the header by now.
ProbeShows(b) ==
  /\ probe[b] # None
  /\ badge' = probe[b]
  /\ probe' = [probe EXCEPT ![b] = None]
  /\ UNCHANGED <<ppVars, roster, peersData, activePeer, header, crossed, refresh, switchVars>>

\* doSend posts to the selected peer (lines 281-299).
SendTarget == activePeer

-----------------------------------------------------------------------------
\* The switch of the proxy (main.js:213-239, app.go:233-245 and 378-388)

At(c, pc) == toggle[c].pc = pc

Goes(c, pc) == toggle' = [toggle EXCEPT ![c].pc = pc]

\* The lock of the server is free between the halves of Start and of Stop.
Unlocked == port \in {"free", "serving"}

\* The switch is not disabled meanwhile.
ToggleClicked(c) ==
  /\ At(c, "idle")
  /\ HasRoom
  /\ proxyRunning' = ~proxyRunning
  /\ toggle' = [toggle EXCEPT ![c] =
                   [IdleToggle EXCEPT !.pc = "called", !.enable = ~proxyRunning]]
  /\ unsure' = (Toggling # {} \/ boot # "done")
  /\ UNCHANGED <<ppVars, panelVars, refresh, probe, display, boot, refused>>

StartBinds(c) ==
  /\ At(c, "called") /\ toggle[c].enable
  /\ Bind
  /\ Goes(c, "binding")
  /\ UNCHANGED <<panelVars, refresh, probe, proxyRunning, display, boot, unsure, refused>>

StartOpens(c) ==
  /\ At(c, "binding")
  /\ Open
  /\ Goes(c, "ok")
  /\ UNCHANGED <<panelVars, refresh, probe, proxyRunning, display, boot, unsure, refused>>

\* It runs already, or the port is another program's.
StartFails(c) ==
  /\ At(c, "called") /\ toggle[c].enable
  /\ Unlocked
  /\ Goes(c, "failed")
  /\ UNCHANGED <<ppVars, panelVars, refresh, probe, proxyRunning, display, boot, unsure, refused>>

StopCloses(c) ==
  /\ At(c, "called") /\ ~toggle[c].enable
  /\ Close
  /\ Goes(c, "closing")
  /\ UNCHANGED <<panelVars, refresh, probe, proxyRunning, display, boot, unsure, refused>>

StopReleases(c) ==
  /\ At(c, "closing")
  /\ Release
  /\ Goes(c, "ok")
  /\ UNCHANGED <<panelVars, refresh, probe, proxyRunning, display, boot, unsure, refused>>

StopsNothing(c) ==
  /\ At(c, "called") /\ ~toggle[c].enable
  /\ port = "free"
  /\ Goes(c, "ok")
  /\ UNCHANGED <<ppVars, panelVars, refresh, probe, proxyRunning, display, boot, unsure, refused>>

\* IsRunning takes the lock again.  The body of an error has no "running",
\* and nobody waits for it after a rejected fetch.
MutAsAsked(c) == IF toggle[c].enable THEN "running" ELSE "stopped"

Outcome(c) == IF At(c, "failed") THEN "error" ELSE IF Serving THEN "running" ELSE "stopped"

ToggleAnswers(c) ==
  /\ At(c, "ok") \/ At(c, "failed")
  /\ Unlocked
  /\ toggle' = [toggle EXCEPT ![c] =
                   IF @.lost THEN IdleToggle
                   ELSE [@ EXCEPT !.pc = "answered", !.answer = Outcome(c)]]
  /\ UNCHANGED <<ppVars, panelVars, refresh, probe, proxyRunning, display, boot, unsure, refused>>

ToggleShows(c) ==
  /\ At(c, "answered")
  /\ display' = (toggle[c].answer = "running")
  /\ refused' = (toggle[c].answer = "error")
  /\ toggle' = [toggle EXCEPT ![c] = IdleToggle]
  /\ UNCHANGED <<ppVars, panelVars, refresh, probe, proxyRunning, boot, unsure>>

\* Lines 232-237: the fetch throws, before, within or after the handler, and
\* the ribbon is set to what was asked for last.  A request that has arrived
\* or is still on its way is carried out by itself.
ToggleLost(c) ==
  /\ ~At(c, "idle") /\ ~toggle[c].lost
  /\ display' = proxyRunning
  /\ unsure' = TRUE
  /\ \/ /\ At(c, "called") \/ At(c, "answered")
        /\ toggle' = [toggle EXCEPT ![c] = IdleToggle]
     \/ /\ ~At(c, "answered")
        /\ toggle' = [toggle EXCEPT ![c].lost = TRUE]
  /\ UNCHANGED <<ppVars, panelVars, refresh, probe, proxyRunning, boot, refused>>

\* Startup's Start (app.go:131), whose error is dropped.
BootBinds ==
  /\ boot = "due"
  /\ Bind
  /\ boot' = "binding"
  /\ UNCHANGED <<panelVars, refresh, probe, proxyRunning, display, toggle, unsure, refused>>

BootOpens ==
  /\ boot = "binding"
  /\ Open
  /\ boot' = "done"
  /\ UNCHANGED <<panelVars, refresh, probe, proxyRunning, display, toggle, unsure, refused>>

BootFails ==
  /\ boot = "due"
  /\ Unlocked
  /\ boot' = "done"
  /\ UNCHANGED <<ppVars, panelVars, refresh, probe, proxyRunning, display, toggle, unsure, refused>>

-----------------------------------------------------------------------------
\* index.html, main.js:1-8 and 215, before Startup has reached the proxy.
Init ==
  /\ PPInit
  /\ roster \in SUBSET Peers
  /\ refresh = [r \in Refreshes |-> IdleRefresh]
  /\ peersData = {}
  /\ activePeer = Default /\ header = Default /\ badge = Default
  /\ probe = [b \in Buttons |-> None]
  /\ proxyRunning = TRUE /\ display = TRUE
  /\ toggle = [c \in Clicks |-> IdleToggle]
  /\ boot = "due"
  /\ crossed = FALSE /\ unsure = TRUE /\ refused = FALSE

Refresh(r) == RefreshBegins(r) \/ GetAllPeers(r) \/ RefreshShows(r) \/ RefreshFails(r)

Handle(c) ==
  \/ StartBinds(c) \/ StartOpens(c) \/ StartFails(c)
  \/ StopCloses(c) \/ StopReleases(c) \/ StopsNothing(c)
  \/ ToggleAnswers(c) \/ ToggleShows(c)

BootProxy == BootBinds \/ BootOpens \/ BootFails

Next ==
  \/ \E r \in Refreshes : Refresh(r)
  \/ \E p \in Peers : Click(p)
  \/ RosterChanges
  \/ \E b \in Buttons : ProbeClicked(b) \/ ProbeShows(b)
  \/ \E c \in Clicks : ToggleClicked(c) \/ Handle(c) \/ ToggleLost(c)
  \/ BootProxy

Spec == Init /\ [][Next]_vars

-----------------------------------------------------------------------------
\* Properties

\* The variables have their types (main.js:3-4, 215).
TypeOK ==
  /\ port \in {"free", "bound", "serving", "closing"}
  /\ roster \subseteq Peers
  /\ refresh \in [Refreshes -> [pc : {"idle", "asked", "answered"}, list : SUBSET Peers]]
  /\ peersData \subseteq Peers
  /\ activePeer \in Peers /\ header \in Peers /\ badge \in Peers
  /\ probe \in [Buttons -> Peers \cup {None}]
  /\ proxyRunning \in BOOLEAN /\ display \in BOOLEAN
  /\ toggle \in [Clicks -> [pc : {"idle", "called", "binding", "closing", "ok", "failed", "answered"},
                            enable : BOOLEAN, answer : {None, "running", "stopped", "error"},
                            lost : BOOLEAN]]
  /\ boot \in {"due", "binding", "done"}
  /\ crossed \in BOOLEAN /\ unsure \in BOOLEAN /\ refused \in BOOLEAN

\* A message goes to the peer named above the chat, and to a member of the
\* list on show when there is one, however late the list it was chosen from
\* has been replaced (main.js:299, 548-557, 576-582).
SendsWhereShown ==
  /\ SendTarget = header
  /\ peersData # {} => SendTarget \in peersData

\* The badge states the link of the peer in the header, unless a probe of
\* another peer was on its way when this one was selected: its answer is
\* not checked against the selection (main.js:255, 271, 312-325).
BadgeIsOfHeader == ~crossed => badge = header

\* A click that overlapped neither another one nor Startup, and was not
\* lost, leaves the ribbon, the next click and the port in agreement; when
\* its request was refused, the ribbon says "stopped", and that is all
\* (main.js:217-237, app.go:233-245, 378-388).
PortShownTruly ==
  (Toggling = {} /\ ~unsure) =>
    IF refused THEN ~display ELSE display = Serving /\ proxyRunning = display

Holds(c) == At(c, "binding") \/ At(c, "closing")

\* However many clicks overlap each other and Startup, one of them at most
\* is between the halves of its Start or Stop, and its second half finds the
\* port as the first one left it; the server is locked just then, so the
\* others wait for somebody who is there (socks5.go:89-137).
OneHandOnPort ==
  /\ \A c, d \in Clicks : Holds(c) /\ Holds(d) => c = d
  /\ \A c \in Clicks : Holds(c) => boot # "binding"
  /\ \A c \in Clicks : /\ At(c, "binding") => port = "bound"
                       /\ At(c, "closing") => port = "closing"
  /\ boot = "binding" => port = "bound"
  /\ ~Unlocked => boot = "binding" \/ \E c \in Clicks : Holds(c)
=============================================================================
