---------------------------- MODULE CircuitBreaker ----------------------------
(***************************************************************************)
(* pkg/circuitbreaker/breaker.go: the per-peer choice between the direct   *)
(* hole-punched path and the DERP relay.                                   *)
(*                                                                         *)
(* Three kinds of goroutine share one CircuitBreaker:                      *)
(*   - a call of EvaluateAndDial (pc), any number of them at a time;       *)
(*   - the goroutine such a call starts to run the P2P dialer (dial);      *)
(*   - the background prober such a call may start (prober).               *)
(* An element of Calls names one call together with the two goroutines it  *)
(* may start.  A step is what runs between two points where another        *)
(* goroutine can intervene: a critical section of cb.mu, a channel         *)
(* operation, or the return of an external function.  The receive of a     *)
(* select and the locked write after it are one step: a receive only       *)
(* consumes what its own call's goroutine sent, so it can be delayed up to *)
(* the write.                                                              *)
(*                                                                         *)
(* Left out: latencies, the wording of Reason and the FallbackTime stamp   *)
(* (written with the mode under the same lock and read by no decision).    *)
(***************************************************************************)
EXTENDS Integers, FiniteSets

CONSTANTS
  Peers,      \* peer IPs, the keys of statusMap and probeStopMap
  Calls,      \* calls of EvaluateAndDial
  Requests,   \* the argument lists the calls may be made with
  NoRequest   \* the arguments of a call that has not been made

\* p2pDialer: absent, honouring its context, or ignoring it.
Dialers == {"nil", "ctx", "deaf"}

EndpointInfo == [nat : {"CONE", "SYMMETRIC"}, ipv6 : BOOLEAN]

Request == [peer : Peers, local : EndpointInfo, remote : EndpointInfo,
            p2p : Dialers, relay : BOOLEAN]

ASSUME RequestsAssumption ==
  /\ Requests \subseteq Request
  /\ NoRequest \notin Request

ASSUME CallsAssumption == IsFiniteSet(Calls)

VARIABLES
  statusMap,     \* peer -> [mode, switches]; mode "ABSENT" is a missing key
  probeStopMap,  \* the peers that have an entry
  pc,            \* call -> where it is in EvaluateAndDial
  req,           \* call -> its arguments
  ctxDone,       \* calls whose probeCtx is done (deadline, caller, cancel)
  dial,          \* call -> what its P2P dialer answered
  delivered,     \* calls whose dialing goroutine has sent and exited
  p2pSuccess,    \* calls whose p2pSuccess channel holds a value
  p2pErr,        \* calls whose p2pErr channel holds a value
  prober,        \* call -> the background prober it started
  path,          \* peer -> how the network treats hole punching now
  reached        \* history: the peers some P2P dialer has reached

callVars == <<pc, req, ctxDone>>
dialVars == <<dial, delivered, p2pSuccess, p2pErr>>
netVars == <<path, reached>>
vars == <<statusMap, probeStopMap, callVars, dialVars, prober, netVars>>

-----------------------------------------------------------------------------
\* Helpers

Began(c) == pc[c] # "idle"

CallsTo(p) == {c \in Calls : Began(c) /\ req[c].peer = p}

\* Both sides behind symmetric NATs and no IPv6 on either (lines 104-106).
Hopeless(r) ==
  /\ r.local.nat = "SYMMETRIC"
  /\ r.remote.nat = "SYMMETRIC"
  /\ ~r.local.ipv6
  /\ ~r.remote.ipv6

\* External: what a call of the dialer may answer now.  Without a dialer
\* nobody is dialed, but the code goes on as if one had answered "ok": after
\* a fixed sleep (lines 135-139), or at once (lines 234-237).
Answers(dialer, p, cancelled) ==
  {a \in {"ok", "err"} :
     \/ a = "ok" /\ (dialer = "nil" \/ path[p] = "up")
     \/ a = "err" /\ dialer # "nil" /\ path[p] = "down"
     \/ a = "err" /\ dialer = "ctx" /\ cancelled}

\* History: a dialer that returns without an error has reached the peer; a
\* missing one has reached nobody.
Learn(c, answer) ==
  reached' = IF answer = "ok" /\ req[c].p2p # "nil" THEN reached \cup {req[c].peer}
             ELSE reached

\* Lines 91-98: the entry of a peer is created once.
MutNewEntryEachCall(p) ==
  statusMap' = [statusMap EXCEPT ![p] = [mode |-> "PROBING", switches |-> 0]]

EnsureEntry(p) ==
  statusMap' = [statusMap EXCEPT ![p].mode = IF @ = "ABSENT" THEN "PROBING" ELSE @]

\* One locked write of a decision: the mode and the counter together.
MutUncounted(p, mode) ==
  statusMap' = [statusMap EXCEPT ![p].mode = mode]

SetMode(p, mode) ==
  statusMap' = [statusMap EXCEPT ![p] = [mode |-> mode, switches |-> @.switches + 1]]

\* Returning runs the deferred cancelProbe.
Return(c, how) ==
  /\ pc' = [pc EXCEPT ![c] = how]
  /\ ctxDone' = ctxDone \cup {c}
  /\ UNCHANGED req

-----------------------------------------------------------------------------
\* EvaluateAndDial

\* Lines 88-99, and 126-146 when there is a race to run: the entry is
\* created if it is missing, and the dialing goroutine is started.
Begin(c, r) ==
  /\ pc[c] = "idle"
  /\ req' = [req EXCEPT ![c] = r]
  /\ EnsureEntry(r.peer)
  /\ \/ /\ Hopeless(r)
        /\ pc' = [pc EXCEPT ![c] = "fastpath"]
        /\ UNCHANGED dial
     \/ /\ ~Hopeless(r)
        /\ pc' = [pc EXCEPT ![c] = "select"]
        /\ dial' = [dial EXCEPT ![c] = "dialing"]
  /\ UNCHANGED <<probeStopMap, ctxDone, delivered, p2pSuccess, p2pErr, prober, netVars>>

\* Lines 108-114.
FastPath(c) ==
  /\ pc[c] = "fastpath"
  /\ SetMode(req[c].peer, "DERP_RELAY")
  /\ pc' = [pc EXCEPT ![c] = "spawn"]
  /\ UNCHANGED <<probeStopMap, req, ctxDone, dialVars, prober, netVars>>

\* Lines 129 and 159: the deadline passes, or the caller's context ends.
MutNoDeadline(c) == FALSE

ContextDone(c) ==
  /\ pc[c] = "select"
  /\ c \notin ctxDone
  /\ ctxDone' = ctxDone \cup {c}
  /\ UNCHANGED <<statusMap, probeStopMap, pc, req, dialVars, prober, netVars>>

\* Lines 149-157.  When several cases of the select are ready Go picks any.
SelectSuccess(c) ==
  /\ pc[c] = "select"
  /\ c \in p2pSuccess
  /\ p2pSuccess' = p2pSuccess \ {c}
  /\ SetMode(req[c].peer, "DIRECT_P2P")
  /\ Return(c, "returned")
  /\ UNCHANGED <<probeStopMap, dial, delivered, p2pErr, prober, netVars>>

\* Lines 159-167.
SelectTimeout(c) ==
  /\ pc[c] = "select"
  /\ c \in ctxDone
  /\ SetMode(req[c].peer, "DERP_RELAY")
  /\ pc' = [pc EXCEPT ![c] = "spawn"]
  /\ UNCHANGED <<probeStopMap, req, ctxDone, dialVars, prober, netVars>>

\* Lines 179-187.
SelectErr(c) ==
  /\ pc[c] = "select"
  /\ c \in p2pErr
  /\ p2pErr' = p2pErr \ {c}
  /\ SetMode(req[c].peer, "DERP_RELAY")
  /\ pc' = [pc EXCEPT ![c] = "spawn"]
  /\ UNCHANGED <<probeStopMap, req, ctxDone, dial, delivered, p2pSuccess, prober, netVars>>

\* Lines 205-215: no second prober for a peer that has an entry.  Nothing
\* in the file closes a stop channel or deletes an entry.
MutNeverProbed(p) == FALSE

MutInverted(p) == p \notin probeStopMap

AlreadyProbed(p) == p \in probeStopMap

StartUpgrade(c) ==
  /\ pc[c] = "spawn"
  /\ pc' = [pc EXCEPT ![c] = "relaydial"]
  /\ \/ /\ AlreadyProbed(req[c].peer)
        /\ UNCHANGED <<probeStopMap, prober>>
     \/ /\ ~AlreadyProbed(req[c].peer)
        /\ probeStopMap' = probeStopMap \cup {req[c].peer}
        /\ prober' = [prober EXCEPT ![c] = "waiting"]
  /\ UNCHANGED <<statusMap, req, ctxDone, dialVars, netVars>>

\* Lines 117 and 172, 190: no relay dialer was given.
NoRelayDial(c) ==
  /\ pc[c] = "relaydial"
  /\ ~req[c].relay
  /\ Return(c, "returned")
  /\ UNCHANGED <<statusMap, probeStopMap, dialVars, prober, netVars>>

\* Lines 117-122: the relay dialer (external) returns, with or without an
\* error.  The mode stays DERP_RELAY either way.
RelayDial(c) ==
  /\ pc[c] = "relaydial"
  /\ req[c].relay
  /\ \E how \in {"returned", "failed"} : Return(c, how)
  /\ UNCHANGED <<statusMap, probeStopMap, dialVars, prober, netVars>>

-----------------------------------------------------------------------------
\* The goroutine of lines 134-146.  It may outlive the call.

DialReturns(c) ==
  /\ dial[c] = "dialing"
  /\ \E a \in Answers(req[c].p2p, req[c].peer, c \in ctxDone) :
       /\ dial' = [dial EXCEPT ![c] = a]
       /\ Learn(c, a)
  /\ UNCHANGED <<statusMap, probeStopMap, callVars, delivered, p2pSuccess, p2pErr, prober, path>>

\* Both channels have capacity 1 (lines 126-127).
MutUnbuffered(chan, c) == pc[c] = "select"

RoomIn(chan, c) == c \notin chan

DialDelivers(c) ==
  /\ c \notin delivered
  /\ \/ /\ dial[c] = "ok"
        /\ RoomIn(p2pSuccess, c)
        /\ p2pSuccess' = p2pSuccess \cup {c}
        /\ UNCHANGED p2pErr
     \/ /\ dial[c] = "err"
        /\ RoomIn(p2pErr, c)
        /\ p2pErr' = p2pErr \cup {c}
        /\ UNCHANGED p2pSuccess
  /\ delivered' = delivered \cup {c}
  /\ UNCHANGED <<statusMap, probeStopMap, callVars, dial, prober, netVars>>

-----------------------------------------------------------------------------
\* The background prober of lines 215-252.

\* Lines 223-230: a tick; the mode is read after the lock is released.
ProberTick(c) ==
  /\ prober[c] = "waiting"
  /\ prober' = [prober EXCEPT ![c] =
       IF statusMap[req[c].peer].mode = "DIRECT_P2P" THEN "stoodDown" ELSE "probing"]
  /\ UNCHANGED <<statusMap, probeStopMap, callVars, dialVars, netVars>>

\* Lines 233-240: one probe under a 2 s context.  A path that is up answers
\* within it, a silent one does not.
MutIgnoresErr(answer) == "restored"

MutProbeFails(answer) == IF answer = "ok" THEN "restored" ELSE "failed"

MutGivesUp(answer) == IF answer = "ok" THEN "restored" ELSE "stoodDown"

AfterProbe(answer) == IF answer = "ok" THEN "restored" ELSE "waiting"

ProbeReturns(c) ==
  /\ prober[c] = "probing"
  /\ \E a \in Answers(req[c].p2p, req[c].peer, path[req[c].peer] = "silent") :
       /\ prober' = [prober EXCEPT ![c] = AfterProbe(a)]
       /\ Learn(c, a)
  /\ UNCHANGED <<statusMap, probeStopMap, callVars, dialVars, path>>

\* Lines 242-248, whatever has been decided since the probe was started.
Upgrade(c) ==
  /\ prober[c] = "restored"
  /\ SetMode(req[c].peer, "DIRECT_P2P")
  /\ prober' = [prober EXCEPT ![c] = "upgraded"]
  /\ UNCHANGED <<probeStopMap, callVars, dialVars, netVars>>

-----------------------------------------------------------------------------
\* External: hole punching to a peer starts to work, to be refused, or to be
\* dropped in silence.
PathChanges(p) ==
  /\ path' \in [Peers -> {"up", "down", "silent"}]
  /\ \A q \in Peers \ {p} : path'[q] = path[q]
  /\ UNCHANGED <<statusMap, probeStopMap, callVars, dialVars, prober, reached>>

Init ==
  /\ statusMap = [p \in Peers |-> [mode |-> "ABSENT", switches |-> 0]]
  /\ probeStopMap = {}
  /\ pc = [c \in Calls |-> "idle"]
  /\ req = [c \in Calls |-> NoRequest]
  /\ ctxDone = {}
  /\ dial = [c \in Calls |-> "none"]
  /\ delivered = {}
  /\ p2pSuccess = {}
  /\ p2pErr = {}
  /\ prober = [c \in Calls |-> "none"]
  /\ path \in [Peers -> {"up", "down", "silent"}]
  /\ reached = {}

Select(c) == SelectSuccess(c) \/ SelectTimeout(c) \/ SelectErr(c)

CallStep(c) ==
  \/ FastPath(c) \/ ContextDone(c) \/ Select(c)
  \/ StartUpgrade(c) \/ NoRelayDial(c) \/ RelayDial(c)

DialStep(c) == DialReturns(c) \/ DialDelivers(c)

ProberStep(c) == ProberTick(c) \/ ProbeReturns(c) \/ Upgrade(c)

Next ==
  \/ \E c \in Calls :
       \/ \E r \in Requests : Begin(c, r)
       \/ CallStep(c) \/ DialStep(c) \/ ProberStep(c)
  \/ \E p \in Peers : PathChanges(p)

Spec == Init /\ [][Next]_vars

(***************************************************************************)
(* Fairness: the Go scheduler runs every runnable goroutine, and timers    *)
(* fire.  Nothing is assumed of the users (Begin), of the network          *)
(* (PathChanges) or of the relay dialer; a P2P dialer answers once an      *)
(* answer is there.                                                        *)
(***************************************************************************)
Fairness ==
  \A c \in Calls :
    /\ WF_vars(FastPath(c)) /\ WF_vars(ContextDone(c)) /\ WF_vars(Select(c))
    /\ WF_vars(StartUpgrade(c)) /\ WF_vars(NoRelayDial(c))
    /\ WF_vars(DialReturns(c)) /\ WF_vars(DialDelivers(c))
    /\ WF_vars(ProberTick(c)) /\ WF_vars(ProbeReturns(c)) /\ WF_vars(Upgrade(c))

FairSpec == Spec /\ Fairness

-----------------------------------------------------------------------------
\* Properties

Alive == {"waiting", "probing", "restored"}

\* The variables have their types, whatever the calls do (lines 51-57).
TypeOK ==
  /\ statusMap \in [Peers -> [mode : {"ABSENT", "PROBING", "DIRECT_P2P", "DERP_RELAY"},
                              switches : Nat]]
  /\ probeStopMap \subseteq Peers
  /\ pc \in [Calls -> {"idle", "fastpath", "select", "spawn", "relaydial",
                       "returned", "failed"}]
  /\ req \in [Calls -> Requests \cup {NoRequest}]
  /\ \A c \in Calls : Began(c) => req[c] \in Requests
  /\ ctxDone \subseteq Calls
  /\ dial \in [Calls -> {"none", "dialing", "ok", "err"}]
  /\ delivered \subseteq Calls
  /\ p2pSuccess \subseteq Calls
  /\ p2pErr \subseteq Calls
  /\ prober \in [Calls -> Alive \cup {"none", "stoodDown", "upgraded"}]
  /\ path \in [Peers -> {"up", "down", "silent"}]
  /\ reached \subseteq Peers

\* However many calls to a peer fall back at the same time, at most one
\* background prober of that peer runs (lines 206-213).
OneProberPerPeer ==
  \A c, d \in Calls :
    (prober[c] \in Alive /\ prober[d] \in Alive /\ req[c].peer = req[d].peer) => c = d

\* A relayed link is never left without anyone having tried to restore it:
\* a prober of that peer runs, has finished, or is about to be started by
\* the call that fell back (lines 116, 170, 189, 207).
RelayIsProbed ==
  \A p \in Peers : statusMap[p].mode = "DERP_RELAY" =>
    \E c \in CallsTo(p) : pc[c] = "spawn" \/ prober[c] # "none"

\* The peers that somebody has evaluated without a P2P dialer.
Undialed == {p \in Peers : \E c \in CallsTo(p) : req[c].p2p = "nil"}

\* When every evaluation of a peer brought a dialer, its link is direct only
\* if one of them, in a call or in a prober, has reached the peer: no
\* interleaving of timeouts, refusals, late answers and failed probes makes
\* it direct (lines 152 and 243).
DirectIsEarned ==
  \A p \in Peers \ Undialed : statusMap[p].mode = "DIRECT_P2P" => p \in reached

Decided(c) == pc[c] \in {"spawn", "relaydial", "returned", "failed"}

\* SwitchCount loses no update: it is the number of calls that have decided
\* and of probers that have upgraded, though none of them holds the lock
\* from its choice to its write (lines 112, 155, 166, 186, 246).
SwitchesCounted ==
  \A p \in Peers :
    statusMap[p].switches = Cardinality({c \in CallsTo(p) : Decided(c)})
                          + Cardinality({c \in CallsTo(p) : prober[c] = "upgraded"})

\* The breaker implements the abstract link: links are tracked once, and
\* change by counted switches, to direct only when the peer was reached or
\* was evaluated without a dialer.
LS == INSTANCE LinkState WITH link <- statusMap, punched <- reached, waived <- Undialed

ImplementsLinkState == LS!LSSpec

\* An evaluation without a relay dialer returns, even when its P2P dialer
\* ignores its context and never answers (the deadline of line 129).
EvaluationReturns ==
  \A c \in Calls : (Began(c) /\ ~req[c].relay) ~> (pc[c] = "returned")

\* The dialing goroutine exits once its dialer has answered, though the
\* call it answers to may have returned long ago (lines 126-127), and a
\* dialer that honours its context does answer.
NoDialerLeaks ==
  \A c \in Calls : (dial[c] = "dialing" /\ req[c].p2p # "deaf") ~> (c \in delivered)

\* When hole punching to a peer works for good, a relayed link that has a
\* prober goes direct (lines 219-249).
RelayHeals ==
  \A p \in Peers :
    <>[](path[p] = "up") =>
      ((statusMap[p].mode = "DERP_RELAY" /\ \E c \in CallsTo(p) : prober[c] \in Alive)
         ~> (statusMap[p].mode = "DIRECT_P2P"))

\* Every prober of this peer has ended.
Abandoned(p) ==
  /\ \E c \in CallsTo(p) : prober[c] # "none"
  /\ \A c \in CallsTo(p) : prober[c] \notin Alive

\* Once a peer's prober has upgraded or stood down no call ever gives the peer
\* another one, however often it falls back later (lines 206-213; nothing
\* deletes the entry).
AbandonedForGood == [][\A p \in Peers : Abandoned(p) => Abandoned(p)']_vars

\* A dialing goroutine that has its answer finds room for it, even when its
\* call timed out long before or another call of the peer overtook it
\* (lines 126-127, 134-146).
DialerHasRoom ==
  \A c \in Calls : (dial[c] \in {"ok", "err"} /\ c \notin delivered) =>
    RoomIn(p2pSuccess, c) /\ RoomIn(p2pErr, c)

\* README.md:50 and README_EN.md:50: while in relay mode a background probe
\* runs.  The stop-map entry of line 212 outlives its prober, so the second
\* fall-back of a peer gets none.
RelayAlwaysProbed ==
  \A p \in Peers : statusMap[p].mode = "DERP_RELAY" =>
    \E c \in CallsTo(p) : pc[c] = "spawn" \/ prober[c] \in Alive
=============================================================================
