------------------------- MODULE CircuitBreakerProofs -------------------------
(***************************************************************************)
(* Safety of CircuitBreaker.tla for any peers, any finite set of calls and *)
(* any arguments: types, one prober per peer, relayed links are probed,    *)
(* direct links are earned, and the refinement of LinkState.               *)
(***************************************************************************)
EXTENDS CircuitBreaker, FiniteSetTheorems, TLAPS

\* A goroutine exists only for a call that has begun.
StartedByCalls ==
  \A c \in Calls : ~Began(c) => (prober[c] = "none" /\ dial[c] = "none")

\* The stop map names exactly the peers a prober was started for.
StopMapCoherent ==
  /\ \A c \in Calls : prober[c] # "none" => req[c].peer \in probeStopMap
  /\ \A p \in probeStopMap : \E c \in CallsTo(p) : prober[c] # "none"

\* Entries are never deleted, so even a finished prober excludes a second.
OneProberEver ==
  \A c, d \in Calls :
    (prober[c] # "none" /\ prober[d] # "none" /\ req[c].peer = req[d].peer) => c = d

\* A success on its way to the link, in a dialing goroutine, in a success
\* channel or in a prober, is of a peer that was reached, or of a call that
\* had no dialer.
SuccessIsReached ==
  \A c \in Calls : (dial[c] = "ok" \/ c \in p2pSuccess \/ prober[c] = "restored") =>
    Began(c) /\ (req[c].peer \in reached \/ req[c].p2p = "nil")

\* A call that has begun finds an entry.
EntryExists == \A c \in Calls : Began(c) => statusMap[req[c].peer].mode # "ABSENT"

Inv ==
  /\ TypeOK
  /\ StartedByCalls
  /\ StopMapCoherent
  /\ OneProberEver
  /\ SuccessIsReached
  /\ EntryExists
  /\ RelayIsProbed
  /\ DirectIsEarned

LEMMA InitInv == Init => Inv
  BY RequestsAssumption
  DEF Init, Inv, TypeOK, StartedByCalls, StopMapCoherent, OneProberEver, SuccessIsReached,
      EntryExists, RelayIsProbed, DirectIsEarned, Undialed, Began, CallsTo, Alive

LEMMA TypeStep == TypeOK /\ StartedByCalls /\ [Next]_vars => TypeOK'
<1> SUFFICES ASSUME TypeOK, StartedByCalls, [Next]_vars PROVE TypeOK'
  OBVIOUS
<1> USE RequestsAssumption DEF TypeOK, Began, Alive, Request, callVars, dialVars, netVars, Learn
<1>1. ASSUME NEW c \in Calls, NEW r \in Requests, Begin(c, r) PROVE TypeOK'
  <2> USE <1>1 DEF Begin
  <2>1. r.peer \in Peers
    OBVIOUS
  <2>2. statusMap' \in [Peers -> [mode : {"ABSENT", "PROBING", "DIRECT_P2P", "DERP_RELAY"},
                                  switches : Nat]]
    BY <2>1 DEF EnsureEntry
  <2>3. pc' \in [Calls -> {"idle", "fastpath", "select", "spawn", "relaydial",
                          "returned", "failed"}]
    OBVIOUS
  <2>4. req' \in [Calls -> Requests \cup {NoRequest}]
        /\ \A d \in Calls : Began(d)' => req'[d] \in Requests
    OBVIOUS
  <2>5. dial' \in [Calls -> {"none", "dialing", "ok", "err"}]
    OBVIOUS
  <2> QED
    BY <2>2, <2>3, <2>4, <2>5
<1>2. ASSUME NEW c \in Calls, FastPath(c) PROVE TypeOK'
  BY <1>2 DEF FastPath, SetMode
<1>3. ASSUME NEW c \in Calls, ContextDone(c) PROVE TypeOK'
  BY <1>3 DEF ContextDone
<1>4. ASSUME NEW c \in Calls, SelectSuccess(c) PROVE TypeOK'
  BY <1>4 DEF SelectSuccess, SetMode, Return
<1>5. ASSUME NEW c \in Calls, SelectTimeout(c) PROVE TypeOK'
  BY <1>5 DEF SelectTimeout, SetMode
<1>6. ASSUME NEW c \in Calls, SelectErr(c) PROVE TypeOK'
  BY <1>6 DEF SelectErr, SetMode
<1>7. ASSUME NEW c \in Calls, StartUpgrade(c) PROVE TypeOK'
  BY <1>7 DEF StartUpgrade
<1>8. ASSUME NEW c \in Calls, NoRelayDial(c) \/ RelayDial(c) PROVE TypeOK'
  BY <1>8 DEF NoRelayDial, RelayDial, Return
<1>9. ASSUME NEW c \in Calls, DialStep(c) PROVE TypeOK'
  <2>1. CASE DialReturns(c)
    <3>1. req[c].peer \in Peers
      BY <2>1 DEF DialReturns, StartedByCalls
    <3> QED
      BY <2>1, <3>1 DEF DialReturns, Answers, Learn
  <2>2. CASE DialDelivers(c)
    BY <2>2 DEF DialDelivers
  <2> QED
    BY <1>9, <2>1, <2>2 DEF DialStep
<1>10. ASSUME NEW c \in Calls, ProberStep(c) PROVE TypeOK'
  <2>1. req[c].peer \in Peers
    BY <1>10 DEF ProberStep, ProberTick, ProbeReturns, Upgrade, StartedByCalls
  <2>2. CASE ProberTick(c)
    BY <2>2 DEF ProberTick
  <2>3. CASE ProbeReturns(c)
    BY <2>1, <2>3 DEF ProbeReturns, AfterProbe, Learn
  <2>4. CASE Upgrade(c)
    BY <2>1, <2>4 DEF Upgrade, SetMode
  <2> QED
    BY <1>10, <2>2, <2>3, <2>4 DEF ProberStep
<1>11. ASSUME NEW p \in Peers, PathChanges(p) PROVE TypeOK'
  BY <1>11 DEF PathChanges
<1>12. CASE UNCHANGED vars
  BY <1>12 DEF vars
<1> QED
  BY <1>1, <1>2, <1>3, <1>4, <1>5, <1>6, <1>7, <1>8, <1>9, <1>10, <1>11, <1>12
  DEF Next, CallStep, Select

LEMMA InvStep == Inv /\ [Next]_vars => Inv'
<1> SUFFICES ASSUME Inv, [Next]_vars PROVE Inv'
  OBVIOUS
<1>0. TypeOK'
  BY TypeStep DEF Inv
<1> USE <1>0, RequestsAssumption
    DEF Inv, TypeOK, StartedByCalls, StopMapCoherent, OneProberEver, SuccessIsReached,
        EntryExists, RelayIsProbed, DirectIsEarned, Undialed, Began, CallsTo, Request,
        callVars, dialVars, netVars, Learn
<1>1. ASSUME NEW c \in Calls, NEW r \in Requests, Begin(c, r) PROVE Inv'
  <2> USE <1>1 DEF Begin
  <2>1. /\ r.peer \in Peers
        /\ ~Began(c) /\ Began(c)' /\ req'[c] = r
        /\ \A d \in Calls \ {c} : req'[d] = req[d] /\ pc'[d] = pc[d] /\ dial'[d] = dial[d]
        /\ prober' = prober /\ probeStopMap' = probeStopMap /\ p2pSuccess' = p2pSuccess
        /\ reached' = reached /\ dial'[c] # "ok"
    OBVIOUS
  <2>2. \A p \in Peers : \/ statusMap'[p].mode = statusMap[p].mode
                          \/ statusMap'[p].mode = "PROBING"
    BY DEF EnsureEntry
  <2>3. /\ statusMap'[r.peer].mode # "ABSENT"
        /\ \A p \in Peers : statusMap[p].mode # "ABSENT" => statusMap'[p].mode # "ABSENT"
    BY <2>1 DEF EnsureEntry
  <2>4. \A p \in Peers : \A d \in CallsTo(p) : d # c /\ d \in CallsTo(p)'
    BY <2>1
  <2> HIDE <1>1 DEF Begin
  <2>5. prober[c] = "none" /\ dial[c] = "none"
    BY <2>1
  <2>6. StartedByCalls' /\ StopMapCoherent' /\ OneProberEver' /\ SuccessIsReached'
    BY <2>1, <2>4, <2>5
  <2>7. EntryExists'
    BY <2>1, <2>3
  <2>8. RelayIsProbed'
    <3> SUFFICES ASSUME NEW p \in Peers, statusMap'[p].mode = "DERP_RELAY"
                 PROVE  \E d \in Calls : /\ d \in CallsTo(p)'
                                         /\ pc'[d] = "spawn" \/ prober'[d] # "none"
      BY <2>1 DEF RelayIsProbed, CallsTo
    <3>1. PICK d \in CallsTo(p) : pc[d] = "spawn" \/ prober[d] # "none"
      BY <2>2
    <3> QED
      BY <2>1, <2>4, <3>1
  <2>9. DirectIsEarned'
    <3> SUFFICES ASSUME NEW p \in Peers, statusMap'[p].mode = "DIRECT_P2P",
                        \A d \in CallsTo(p)' : req'[d].p2p # "nil"
                 PROVE  p \in reached'
      BY DEF DirectIsEarned, Undialed
    <3>1. statusMap[p].mode = "DIRECT_P2P"
      BY <2>2
    <3>2. \A d \in CallsTo(p) : req[d].p2p # "nil"
      BY <2>1, <2>4
    <3> QED
      BY <2>1, <3>1, <3>2
  <2> QED
    BY <2>6, <2>7, <2>8, <2>9
<1>2. ASSUME NEW c \in Calls, FastPath(c) PROVE Inv'
  BY <1>2 DEF FastPath, SetMode
<1>3. ASSUME NEW c \in Calls, ContextDone(c) PROVE Inv'
  BY <1>3 DEF ContextDone
<1>4. ASSUME NEW c \in Calls, SelectSuccess(c) PROVE Inv'
  BY <1>4 DEF SelectSuccess, SetMode, Return
<1>5. ASSUME NEW c \in Calls, SelectTimeout(c) PROVE Inv'
  BY <1>5 DEF SelectTimeout, SetMode
<1>6. ASSUME NEW c \in Calls, SelectErr(c) PROVE Inv'
  BY <1>6 DEF SelectErr, SetMode
<1>7. ASSUME NEW c \in Calls, StartUpgrade(c) PROVE Inv'
  <2>1. CASE AlreadyProbed(req[c].peer)
    BY <1>7, <2>1 DEF StartUpgrade, AlreadyProbed
  <2>2. CASE ~AlreadyProbed(req[c].peer)
    <3>1. /\ Began(c) /\ req[c].peer \in Peers /\ req[c].peer \notin probeStopMap
          /\ probeStopMap' = probeStopMap \cup {req[c].peer}
          /\ prober' = [prober EXCEPT ![c] = "waiting"]
          /\ pc' = [pc EXCEPT ![c] = "relaydial"]
          /\ UNCHANGED <<statusMap, req, dial, p2pSuccess, reached>>
      BY <1>7, <2>2 DEF StartUpgrade, AlreadyProbed
    <3>2. \A p \in Peers : CallsTo(p)' = CallsTo(p)
      BY <3>1
    <3>3. StartedByCalls' /\ OneProberEver' /\ SuccessIsReached' /\ EntryExists'
      BY <3>1
    <3>4. StopMapCoherent'
      <4>1. \A d \in Calls : prober'[d] # "none" => req'[d].peer \in probeStopMap'
        BY <3>1
      <4>2. ASSUME NEW p \in probeStopMap' PROVE \E d \in CallsTo(p) : prober'[d] # "none"
        BY <3>1
      <4> QED
        BY <3>2, <4>1, <4>2, <3>1
    <3>5. RelayIsProbed'
      <4>1. ASSUME NEW p \in Peers, statusMap'[p].mode = "DERP_RELAY"
            PROVE  \E d \in CallsTo(p) : pc'[d] = "spawn" \/ prober'[d] # "none"
        <5>1. PICK d \in CallsTo(p) : pc[d] = "spawn" \/ prober[d] # "none"
          BY <3>1, <4>1
        <5> QED
          BY <3>1, <5>1
      <4> QED
        BY <3>2, <4>1
    <3>6. DirectIsEarned'
      BY <3>1, <3>2
    <3> QED
      BY <3>3, <3>4, <3>5, <3>6
  <2> QED
    BY <2>1, <2>2
<1>8. ASSUME NEW c \in Calls, NoRelayDial(c) \/ RelayDial(c) PROVE Inv'
  BY <1>8 DEF NoRelayDial, RelayDial, Return
<1>9. ASSUME NEW c \in Calls, DialStep(c) PROVE Inv'
  BY <1>9 DEF DialStep, DialReturns, DialDelivers, Answers
<1>10. ASSUME NEW c \in Calls, ProberStep(c) PROVE Inv'
  <2>1. CASE ProberTick(c)
    BY <2>1 DEF ProberTick
  <2>2. CASE ProbeReturns(c)
    <3>1. PICK a \in Answers(req[c].p2p, req[c].peer, path[req[c].peer] = "silent") :
            prober' = [prober EXCEPT ![c] = AfterProbe(a)] /\ Learn(c, a)
      BY <2>2 DEF ProbeReturns
    <3>2. /\ prober[c] = "probing" /\ AfterProbe(a) \in {"restored", "waiting"}
          /\ AfterProbe(a) = "restored" => a = "ok"
      BY <2>2 DEF ProbeReturns, AfterProbe
    <3> QED
      BY <2>2, <3>1, <3>2 DEF ProbeReturns
  <2>3. CASE Upgrade(c)
    BY <2>3 DEF Upgrade, SetMode
  <2> QED
    BY <1>10, <2>1, <2>2, <2>3 DEF ProberStep
<1>11. ASSUME NEW p \in Peers, PathChanges(p) PROVE Inv'
  BY <1>11 DEF PathChanges
<1>12. CASE UNCHANGED vars
  BY <1>12 DEF vars
<1> QED
  BY <1>1, <1>2, <1>3, <1>4, <1>5, <1>6, <1>7, <1>8, <1>9, <1>10, <1>11, <1>12
  DEF Next, CallStep, Select

LEMMA Invariance == Spec => []Inv
  BY InitInv, InvStep, PTL DEF Spec

\* Every variable keeps its type, for any peers, calls and arguments.
THEOREM TypeCorrect == Spec => []TypeOK
<1>1. Inv => TypeOK
  BY DEF Inv
<1> QED
  BY <1>1, Invariance, PTL

\* At most one background prober of a peer runs, however many calls to it
\* fall back at once.
THEOREM OneProber == Spec => []OneProberPerPeer
<1>1. Inv => OneProberPerPeer
  BY DEF Inv, OneProberEver, OneProberPerPeer, Alive
<1> QED
  BY <1>1, Invariance, PTL

\* No relayed link without a prober started or about to be started for it.
THEOREM RelayProbed == Spec => []RelayIsProbed
<1>1. Inv => RelayIsProbed
  BY DEF Inv
<1> QED
  BY <1>1, Invariance, PTL

\* A peer for which every call brought a dialer has a direct link only if one
\* of them, in a call or in a prober, has reached it.
THEOREM DirectEarned == Spec => []DirectIsEarned
<1>1. Inv => DirectIsEarned
  BY DEF Inv
<1> QED
  BY <1>1, Invariance, PTL

\* Only a call that begins can be one without a dialer.
LEMMA UndialedKept ==
  ASSUME req' = req, \A c \in Calls : Began(c)' <=> Began(c)
  PROVE  Undialed' = Undialed
BY DEF Undialed, CallsTo

\* A state step of the breaker is a step of the abstract link or leaves it.
LEMMA RefinementStep == Inv /\ [Next]_vars => [LS!LSNext]_(LS!lsVars)
<1> SUFFICES ASSUME Inv, [Next]_vars PROVE [LS!LSNext]_(LS!lsVars)
  OBVIOUS
<1> USE RequestsAssumption
    DEF Inv, TypeOK, EntryExists, Began, Request, callVars, dialVars, netVars, LS!lsVars
<1>0. ASSUME statusMap' = statusMap, reached' = reached, Undialed' = Undialed
      PROVE  [LS!LSNext]_(LS!lsVars)
  BY <1>0
<1>1. ASSUME NEW p \in Peers, statusMap' = statusMap, reached' = reached \cup {p},
             Undialed' = Undialed
      PROVE  [LS!LSNext]_(LS!lsVars)
  BY <1>1 DEF LS!LSNext, LS!Punch
<1>2. ASSUME NEW p \in Peers, statusMap[p].mode # "ABSENT", SetMode(p, "DERP_RELAY"),
             reached' = reached, Undialed' = Undialed
      PROVE  [LS!LSNext]_(LS!lsVars)
  BY <1>2 DEF LS!LSNext, LS!FallBack, LS!Switch, SetMode
<1>3. ASSUME NEW p \in Peers, statusMap[p].mode # "ABSENT", SetMode(p, "DIRECT_P2P"),
             p \in reached \cup Undialed, reached' = reached, Undialed' = Undialed
      PROVE  [LS!LSNext]_(LS!lsVars)
  BY <1>3 DEF LS!LSNext, LS!GoDirect, LS!Switch, SetMode
<1>4. ASSUME NEW c \in Calls, NEW r \in Requests, Begin(c, r) PROVE [LS!LSNext]_(LS!lsVars)
  <2>1. r.peer \in Peers /\ reached' = reached
    BY <1>4 DEF Begin
  <2>2. statusMap' = [statusMap EXCEPT ![r.peer].mode = IF @ = "ABSENT" THEN "PROBING" ELSE @]
    BY <1>4 DEF Begin, EnsureEntry
  <2>3. Undialed' \in {Undialed, Undialed \cup {r.peer}}
    <3>1. /\ ~Began(c) /\ Began(c)' /\ req'[c] = r
          /\ \A e \in Calls \ {c} : (Began(e)' <=> Began(e)) /\ req'[e] = req[e]
      BY <1>4 DEF Begin
    <3>2. \A p \in Peers : p \in Undialed' <=>
            p \in Undialed \/ (p = r.peer /\ r.p2p = "nil")
      BY <3>1 DEF Undialed, CallsTo
    <3>3. Undialed \subseteq Peers /\ Undialed' \subseteq Peers
      BY DEF Undialed
    <3>4. CASE r.p2p = "nil"
      <4>1. Undialed' = Undialed \cup {r.peer}
        BY <2>1, <3>2, <3>3, <3>4
      <4> QED
        BY <4>1
    <3>5. CASE r.p2p # "nil"
      <4>1. Undialed' = Undialed
        BY <3>2, <3>3, <3>5
      <4> QED
        BY <4>1
    <3> QED
      BY <3>4, <3>5
  <2>4. LS!Evaluate(r.peer)
    BY <2>1, <2>2, <2>3 DEF LS!Evaluate
  <2> QED
    BY <2>1, <2>4 DEF LS!LSNext
<1>5. ASSUME NEW c \in Calls, FastPath(c) \/ SelectTimeout(c) \/ SelectErr(c)
      PROVE  [LS!LSNext]_(LS!lsVars)
  <2>1. /\ req[c].peer \in Peers /\ statusMap[req[c].peer].mode # "ABSENT"
        /\ SetMode(req[c].peer, "DERP_RELAY") /\ reached' = reached
    BY <1>5 DEF FastPath, SelectTimeout, SelectErr
  <2>2. Undialed' = Undialed
    BY <1>5, UndialedKept DEF FastPath, SelectTimeout, SelectErr
  <2> QED
    BY <1>2, <2>1, <2>2
<1>6. ASSUME NEW c \in Calls, SelectSuccess(c) \/ Upgrade(c) PROVE [LS!LSNext]_(LS!lsVars)
  <2>1. Began(c) /\ req[c].peer \in Peers
        /\ (req[c].peer \in reached \/ req[c].p2p = "nil")
    BY <1>6 DEF SelectSuccess, Upgrade, SuccessIsReached
  <2>2. req[c].peer \in reached \cup Undialed
    BY <2>1 DEF Undialed, CallsTo
  <2>3. /\ statusMap[req[c].peer].mode # "ABSENT"
        /\ SetMode(req[c].peer, "DIRECT_P2P") /\ reached' = reached
    BY <1>6, <2>1 DEF SelectSuccess, Upgrade
  <2>4. Undialed' = Undialed
    BY <1>6, UndialedKept DEF SelectSuccess, Upgrade, Return
  <2> QED
    BY <1>3, <2>1, <2>2, <2>3, <2>4
<1>7. ASSUME NEW c \in Calls, DialReturns(c) \/ ProbeReturns(c) PROVE [LS!LSNext]_(LS!lsVars)
  <2>1. Began(c) /\ req[c].peer \in Peers
    BY <1>7 DEF DialReturns, ProbeReturns, StartedByCalls
  <2>2. /\ statusMap' = statusMap
        /\ reached' = reached \/ reached' = reached \cup {req[c].peer}
    BY <1>7 DEF DialReturns, ProbeReturns, Learn
  <2>3. Undialed' = Undialed
    BY <1>7, UndialedKept DEF DialReturns, ProbeReturns
  <2> QED
    BY <1>0, <1>1, <2>1, <2>2, <2>3
<1>8. ASSUME NEW c \in Calls,
             \/ ContextDone(c) \/ StartUpgrade(c) \/ NoRelayDial(c) \/ RelayDial(c)
             \/ DialDelivers(c) \/ ProberTick(c)
      PROVE  [LS!LSNext]_(LS!lsVars)
  <2>1. statusMap' = statusMap /\ reached' = reached
    BY <1>8 DEF ContextDone, StartUpgrade, NoRelayDial, RelayDial, DialDelivers, ProberTick
  <2>2. Undialed' = Undialed
    BY <1>8, UndialedKept
    DEF ContextDone, StartUpgrade, NoRelayDial, RelayDial, Return, DialDelivers, ProberTick
  <2> QED
    BY <1>0, <2>1, <2>2
<1>9. ASSUME (\E p \in Peers : PathChanges(p)) \/ UNCHANGED vars
      PROVE  [LS!LSNext]_(LS!lsVars)
  <2>1. statusMap' = statusMap /\ reached' = reached
    BY <1>9 DEF PathChanges, vars
  <2>2. Undialed' = Undialed
    BY <1>9, UndialedKept DEF PathChanges, vars
  <2> QED
    BY <1>0, <2>1, <2>2
<1> QED
  BY <1>4, <1>5, <1>6, <1>7, <1>8, <1>9 DEF Next, CallStep, Select, DialStep, ProberStep

\* The breaker implements the abstract link of LinkState.tla.
THEOREM Implements == Spec => ImplementsLinkState
<1>1. Init => LS!LSInit
  BY DEF Init, LS!LSInit, Undialed, CallsTo, Began
<1> QED
  BY <1>1, InitInv, InvStep, RefinementStep, PTL DEF Spec, ImplementsLinkState, LS!LSSpec

-----------------------------------------------------------------------------
\* The counting argument: a decision adds one call to DecidedTo(p), an upgrade
\* adds one to UpgradedTo(p), and both sets only grow.

DecidedTo(p) == {c \in CallsTo(p) : Decided(c)}

UpgradedTo(p) == {c \in CallsTo(p) : prober[c] = "upgraded"}

Counted(p) == statusMap[p].switches = Cardinality(DecidedTo(p)) + Cardinality(UpgradedTo(p))

LEMMA FiniteCounts ==
  ASSUME NEW p
  PROVE  /\ IsFiniteSet(DecidedTo(p)) /\ Cardinality(DecidedTo(p)) \in Nat
         /\ IsFiniteSet(UpgradedTo(p)) /\ Cardinality(UpgradedTo(p)) \in Nat
<1>1. DecidedTo(p) \subseteq Calls /\ UpgradedTo(p) \subseteq Calls
  BY DEF DecidedTo, UpgradedTo, CallsTo
<1> QED
  BY <1>1, CallsAssumption, FS_Subset, FS_CardinalityType

LEMMA CountStep == Inv /\ SwitchesCounted /\ [Next]_vars => SwitchesCounted'
<1> SUFFICES ASSUME Inv, \A p \in Peers : Counted(p), [Next]_vars,
                    NEW q \in Peers
             PROVE  Counted(q)'
  BY DEF SwitchesCounted, Counted, DecidedTo, UpgradedTo
<1> USE RequestsAssumption
    DEF Inv, TypeOK, StartedByCalls, Began, CallsTo, Decided, Request, callVars, dialVars
<1>1. ASSUME statusMap'[q].switches = statusMap[q].switches,
             DecidedTo(q)' = DecidedTo(q), UpgradedTo(q)' = UpgradedTo(q)
      PROVE  Counted(q)'
  BY <1>1 DEF Counted
<1>2. ASSUME NEW c \in Calls, statusMap'[q].switches = statusMap[q].switches + 1,
             c \notin DecidedTo(q), DecidedTo(q)' = DecidedTo(q) \cup {c},
             UpgradedTo(q)' = UpgradedTo(q)
      PROVE  Counted(q)'
  <2>1. Cardinality(DecidedTo(q) \cup {c}) = Cardinality(DecidedTo(q)) + 1
    BY <1>2, FiniteCounts, FS_AddElement
  <2>2. Counted(q) /\ Cardinality(DecidedTo(q)) \in Nat /\ Cardinality(UpgradedTo(q)) \in Nat
    BY FiniteCounts
  <2> QED
    BY <1>2, <2>1, <2>2 DEF Counted
<1>3. ASSUME NEW c \in Calls, statusMap'[q].switches = statusMap[q].switches + 1,
             c \notin UpgradedTo(q), UpgradedTo(q)' = UpgradedTo(q) \cup {c},
             DecidedTo(q)' = DecidedTo(q)
      PROVE  Counted(q)'
  <2>1. Cardinality(UpgradedTo(q) \cup {c}) = Cardinality(UpgradedTo(q)) + 1
    BY <1>3, FiniteCounts, FS_AddElement
  <2>2. Counted(q) /\ Cardinality(DecidedTo(q)) \in Nat /\ Cardinality(UpgradedTo(q)) \in Nat
    BY FiniteCounts
  <2> QED
    BY <1>3, <2>1, <2>2 DEF Counted
\* A step that decides nothing and upgrades nothing.
<1>4. ASSUME statusMap' = statusMap, req' = req,
             \A d \in Calls : /\ Began(d)' <=> Began(d)
                              /\ Decided(d)' <=> Decided(d)
                              /\ prober'[d] = "upgraded" <=> prober[d] = "upgraded"
      PROVE  Counted(q)'
  <2>1. CallsTo(q)' = CallsTo(q)
    BY <1>4
  <2>2. DecidedTo(q)' = DecidedTo(q)
    <3>1. \A d : d \in DecidedTo(q)' <=> d \in DecidedTo(q)
      BY <1>4, <2>1 DEF DecidedTo
    <3> QED
      BY <3>1
  <2>3. UpgradedTo(q)' = UpgradedTo(q)
    <3>1. \A d : d \in UpgradedTo(q)' <=> d \in UpgradedTo(q)
      BY <1>4, <2>1 DEF UpgradedTo
    <3> QED
      BY <3>1
  <2> QED
    BY <1>1, <1>4, <2>2, <2>3
<1>5. ASSUME NEW c \in Calls, NEW r \in Requests, Begin(c, r) PROVE Counted(q)'
  <2>1. /\ r.peer \in Peers /\ ~Began(c) /\ ~Decided(c)' /\ prober' = prober
        /\ prober[c] = "none"
        /\ \A d \in Calls \ {c} : req'[d] = req[d] /\ pc'[d] = pc[d]
    BY <1>5 DEF Begin
  <2>2. statusMap'[q].switches = statusMap[q].switches
    BY <1>5, <2>1 DEF Begin, EnsureEntry
  <2>3. DecidedTo(q)' = DecidedTo(q)
    BY <2>1 DEF DecidedTo
  <2>4. UpgradedTo(q)' = UpgradedTo(q)
    BY <2>1 DEF UpgradedTo
  <2> QED
    BY <1>1, <2>2, <2>3, <2>4
<1>6. ASSUME NEW c \in Calls,
             FastPath(c) \/ SelectSuccess(c) \/ SelectTimeout(c) \/ SelectErr(c)
      PROVE  Counted(q)'
  <2>1. /\ req[c].peer \in Peers /\ Began(c) /\ ~Decided(c)
        /\ \E m \in {"DIRECT_P2P", "DERP_RELAY"} : SetMode(req[c].peer, m)
        /\ pc' \in {[pc EXCEPT ![c] = "spawn"], [pc EXCEPT ![c] = "returned"]}
        /\ req' = req /\ prober' = prober
    BY <1>6 DEF FastPath, SelectSuccess, SelectTimeout, SelectErr, Return
  <2>2. CallsTo(q)' = CallsTo(q)
    BY <2>1
  <2>3. UpgradedTo(q)' = UpgradedTo(q)
    BY <2>1, <2>2 DEF UpgradedTo
  <2>4. CASE req[c].peer = q
    <3>1. statusMap'[q].switches = statusMap[q].switches + 1
      BY <2>1, <2>4 DEF SetMode
    <3>2. c \notin DecidedTo(q) /\ DecidedTo(q)' = DecidedTo(q) \cup {c}
      BY <2>1, <2>2, <2>4 DEF DecidedTo
    <3> QED
      BY <1>2, <2>3, <3>1, <3>2
  <2>5. CASE req[c].peer # q
    <3>1. statusMap'[q] = statusMap[q]
      BY <2>1, <2>5 DEF SetMode
    <3>2. DecidedTo(q)' = DecidedTo(q)
      BY <2>1, <2>2, <2>5 DEF DecidedTo
    <3> QED
      BY <1>1, <2>3, <3>1, <3>2
  <2> QED
    BY <2>4, <2>5
<1>7. ASSUME NEW c \in Calls, Upgrade(c) PROVE Counted(q)'
  <2>1. /\ req[c].peer \in Peers /\ Began(c) /\ prober[c] = "restored"
        /\ SetMode(req[c].peer, "DIRECT_P2P")
        /\ prober' = [prober EXCEPT ![c] = "upgraded"]
        /\ req' = req /\ pc' = pc
    BY <1>7 DEF Upgrade
  <2>2. CallsTo(q)' = CallsTo(q)
    BY <2>1
  <2>3. DecidedTo(q)' = DecidedTo(q)
    BY <2>1, <2>2 DEF DecidedTo
  <2>4. CASE req[c].peer = q
    <3>1. statusMap'[q].switches = statusMap[q].switches + 1
      BY <2>1, <2>4 DEF SetMode
    <3>2. c \notin UpgradedTo(q) /\ UpgradedTo(q)' = UpgradedTo(q) \cup {c}
      BY <2>1, <2>2, <2>4 DEF UpgradedTo
    <3> QED
      BY <1>3, <2>3, <3>1, <3>2
  <2>5. CASE req[c].peer # q
    <3>1. statusMap'[q] = statusMap[q]
      BY <2>1, <2>5 DEF SetMode
    <3>2. UpgradedTo(q)' = UpgradedTo(q)
      BY <2>1, <2>2, <2>5 DEF UpgradedTo
    <3> QED
      BY <1>1, <2>3, <3>1, <3>2
  <2> QED
    BY <2>4, <2>5
<1>8. ASSUME NEW c \in Calls, StartUpgrade(c) PROVE Counted(q)'
  <2>1. /\ statusMap' = statusMap /\ req' = req
        /\ \A d \in Calls : /\ Began(d)' <=> Began(d)
                            /\ Decided(d)' <=> Decided(d)
                            /\ prober'[d] = "upgraded" <=> prober[d] = "upgraded"
    BY <1>8 DEF StartUpgrade, AlreadyProbed, StopMapCoherent
  <2> QED
    BY <1>4, <2>1
<1>9. ASSUME NEW c \in Calls, ContextDone(c) \/ NoRelayDial(c) \/ RelayDial(c)
      PROVE  Counted(q)'
  <2>1. /\ statusMap' = statusMap /\ req' = req
        /\ \A d \in Calls : /\ Began(d)' <=> Began(d)
                            /\ Decided(d)' <=> Decided(d)
                            /\ prober'[d] = "upgraded" <=> prober[d] = "upgraded"
    BY <1>9 DEF ContextDone, NoRelayDial, RelayDial, Return
  <2> QED
    BY <1>4, <2>1
<1>10. ASSUME NEW c \in Calls, DialStep(c) PROVE Counted(q)'
  <2>1. /\ statusMap' = statusMap /\ req' = req
        /\ \A d \in Calls : /\ Began(d)' <=> Began(d)
                            /\ Decided(d)' <=> Decided(d)
                            /\ prober'[d] = "upgraded" <=> prober[d] = "upgraded"
    BY <1>10 DEF DialStep, DialReturns, DialDelivers
  <2> QED
    BY <1>4, <2>1
<1>11. ASSUME NEW c \in Calls, ProberTick(c) PROVE Counted(q)'
  <2>1. /\ statusMap' = statusMap /\ req' = req
        /\ \A d \in Calls : /\ Began(d)' <=> Began(d)
                            /\ Decided(d)' <=> Decided(d)
                            /\ prober'[d] = "upgraded" <=> prober[d] = "upgraded"
    BY <1>11 DEF ProberTick
  <2> QED
    BY <1>4, <2>1
<1>12. ASSUME NEW c \in Calls, ProbeReturns(c) PROVE Counted(q)'
  <2>1. prober[c] = "probing" /\ prober'[c] \in {"restored", "waiting"}
    BY <1>12 DEF ProbeReturns, AfterProbe
  <2>2. /\ statusMap' = statusMap /\ req' = req
        /\ \A d \in Calls : /\ Began(d)' <=> Began(d)
                            /\ Decided(d)' <=> Decided(d)
                            /\ prober'[d] = "upgraded" <=> prober[d] = "upgraded"
    BY <1>12, <2>1 DEF ProbeReturns
  <2> QED
    BY <1>4, <2>2
<1>13. ASSUME NEW p \in Peers, PathChanges(p) PROVE Counted(q)'
  <2>1. /\ statusMap' = statusMap /\ req' = req
        /\ \A d \in Calls : /\ Began(d)' <=> Began(d)
                            /\ Decided(d)' <=> Decided(d)
                            /\ prober'[d] = "upgraded" <=> prober[d] = "upgraded"
    BY <1>13 DEF PathChanges
  <2> QED
    BY <1>4, <2>1
<1>14. CASE UNCHANGED vars
  <2>1. /\ statusMap' = statusMap /\ req' = req
        /\ \A d \in Calls : /\ Began(d)' <=> Began(d)
                            /\ Decided(d)' <=> Decided(d)
                            /\ prober'[d] = "upgraded" <=> prober[d] = "upgraded"
    BY <1>14 DEF vars
  <2> QED
    BY <1>4, <2>1
<1> QED
  BY <1>5, <1>6, <1>7, <1>8, <1>9, <1>10, <1>11, <1>12, <1>13, <1>14
  DEF Next, CallStep, Select, ProberStep

\* SwitchCount of a peer is exactly the number of calls that decided and of
\* probers that upgraded: no interleaving loses an update.
THEOREM NoLostSwitch == Spec => []SwitchesCounted
<1>1. Init => SwitchesCounted
  BY FS_EmptySet DEF Init, SwitchesCounted, CallsTo, Began
<1> QED
  BY <1>1, Invariance, CountStep, PTL DEF Spec

-----------------------------------------------------------------------------
\* What a step can do to the probers: it ends them, moves them on, or starts
\* one for a peer the stop map does not name.  A call keeps its arguments.
LEMMA ProberSteps ==
  ASSUME Inv, [Next]_vars
  PROVE  \A c \in Calls :
           /\ Began(c) => Began(c)' /\ req'[c] = req[c]
           /\ ~Began(c) => prober'[c] = "none"
           /\ prober[c] # "none" => prober'[c] # "none"
           /\ prober'[c] \in Alive => \/ prober[c] \in Alive
                                      \/ Began(c) /\ req[c].peer \notin probeStopMap
<1> DEFINE Goal == \A c \in Calls :
             /\ Began(c) => Began(c)' /\ req'[c] = req[c]
             /\ ~Began(c) => prober'[c] = "none"
             /\ prober[c] # "none" => prober'[c] # "none"
             /\ prober'[c] \in Alive => \/ prober[c] \in Alive
                                        \/ Began(c) /\ req[c].peer \notin probeStopMap
<1> USE DEF Inv, TypeOK, StartedByCalls, Began, Alive, callVars, dialVars
<1>1. ASSUME NEW c \in Calls, NEW r \in Requests, Begin(c, r) PROVE Goal
  BY <1>1 DEF Begin
<1>2. ASSUME NEW c \in Calls, FastPath(c) \/ ContextDone(c) \/ Select(c) PROVE Goal
  BY <1>2 DEF FastPath, ContextDone, Select, SelectSuccess, SelectTimeout, SelectErr, Return
<1>3. ASSUME NEW c \in Calls, StartUpgrade(c) PROVE Goal
  BY <1>3 DEF StartUpgrade, AlreadyProbed
<1>4. ASSUME NEW c \in Calls, NoRelayDial(c) \/ RelayDial(c) PROVE Goal
  BY <1>4 DEF NoRelayDial, RelayDial, Return
<1>5. ASSUME NEW c \in Calls, DialStep(c) PROVE Goal
  BY <1>5 DEF DialStep, DialReturns, DialDelivers
<1>6. ASSUME NEW c \in Calls, ProberStep(c) PROVE Goal
  BY <1>6 DEF ProberStep, ProberTick, ProbeReturns, AfterProbe, Upgrade
<1>7. ASSUME (\E p \in Peers : PathChanges(p)) \/ UNCHANGED vars PROVE Goal
  BY <1>7 DEF PathChanges, vars
<1> QED
  BY <1>1, <1>2, <1>3, <1>4, <1>5, <1>6, <1>7 DEF Next, CallStep

\* A peer whose prober has ended is never given another: behind the finding
\* that a link which falls back again stays relayed.
THEOREM ProbedOnce == Spec => AbandonedForGood
<1>1. ASSUME Inv, [Next]_vars, NEW p \in Peers, Abandoned(p) PROVE Abandoned(p)'
  <2>1. PICK c \in CallsTo(p) : prober[c] # "none"
    BY <1>1 DEF Abandoned
  <2>2. p \in probeStopMap
    BY <1>1, <2>1 DEF Inv, StopMapCoherent, CallsTo
  <2>3. c \in CallsTo(p)' /\ prober'[c] # "none"
    BY <1>1, <2>1, ProberSteps DEF CallsTo
  <2>4. ASSUME NEW d \in CallsTo(p)' PROVE prober'[d] \notin Alive
    <3>1. CASE Began(d)
      <4>1. d \in CallsTo(p)
        BY <1>1, <2>4, <3>1, ProberSteps DEF CallsTo
      <4> QED
        BY <1>1, <2>2, <4>1, ProberSteps DEF Abandoned, CallsTo
    <3>2. CASE ~Began(d)
      BY <1>1, <2>4, <3>2, ProberSteps DEF CallsTo, Alive
    <3> QED
      BY <3>1, <3>2
  <2> QED
    BY <2>3, <2>4 DEF Abandoned
<1>2. Inv /\ [Next]_vars => [\A p \in Peers : Abandoned(p) => Abandoned(p)']_vars
  BY <1>1
<1> QED
  BY <1>2, Invariance, PTL DEF Spec, AbandonedForGood

\* A channel holds nothing that was not sent by its own goroutine, which
\* sends once.
SentOnce ==
  \A c \in Calls :
    /\ c \in p2pSuccess \cup p2pErr => c \in delivered
    /\ c \in delivered => dial[c] \in {"ok", "err"}

LEMMA SentOnceStep == Inv /\ SentOnce /\ [Next]_vars => SentOnce'
<1> SUFFICES ASSUME Inv, SentOnce, [Next]_vars PROVE SentOnce'
  OBVIOUS
<1> USE DEF SentOnce, Inv, TypeOK, StartedByCalls, Began, callVars, dialVars
<1>1. ASSUME UNCHANGED dialVars PROVE SentOnce'
  BY <1>1
<1>2. ASSUME NEW c \in Calls, NEW r \in Requests, Begin(c, r) PROVE SentOnce'
  BY <1>2 DEF Begin
<1>3. ASSUME NEW c \in Calls, SelectSuccess(c) \/ SelectErr(c) PROVE SentOnce'
  BY <1>3 DEF SelectSuccess, SelectErr, Return
<1>4. ASSUME NEW c \in Calls, DialStep(c) PROVE SentOnce'
  BY <1>4 DEF DialStep, DialReturns, DialDelivers, Answers
<1>5. ASSUME NEW c \in Calls,
             \/ FastPath(c) \/ ContextDone(c) \/ SelectTimeout(c) \/ StartUpgrade(c)
             \/ NoRelayDial(c) \/ RelayDial(c) \/ ProberStep(c)
      PROVE  UNCHANGED dialVars
  BY <1>5 DEF FastPath, ContextDone, SelectTimeout, StartUpgrade, NoRelayDial, RelayDial,
             ProberStep, ProberTick, ProbeReturns, Upgrade
<1>6. ASSUME (\E p \in Peers : PathChanges(p)) \/ UNCHANGED vars PROVE UNCHANGED dialVars
  BY <1>6 DEF PathChanges, vars
<1> QED
  BY <1>1, <1>2, <1>3, <1>4, <1>5, <1>6 DEF Next, CallStep, Select

\* The send of a dialing goroutine never blocks, so one whose dialer answers
\* can always exit.
THEOREM DialerRoom == Spec => []DialerHasRoom
<1>1. Init => SentOnce
  BY DEF Init, SentOnce
<1>2. SentOnce => DialerHasRoom
  BY DEF SentOnce, DialerHasRoom, RoomIn
<1> QED
  BY <1>1, <1>2, SentOnceStep, Invariance, PTL DEF Spec
=============================================================================
