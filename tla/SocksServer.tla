----------------------------- MODULE SocksServer -----------------------------
(***************************************************************************)
(* pkg/proxy/socks5.go, lines 64-165: starting and stopping the local      *)
(* SOCKS5 listener while its accept loops and handlers run.                *)
(*                                                                         *)
(* Start and Stop hold s.mu, but an accept loop reads s.listener and       *)
(* s.quitChan without it, so each locked section is split where such a     *)
(* read can fall.  The n-th Start to bind makes listener n, quit channel n *)
(* and accept loop n; the fields of the server hold the number of the one  *)
(* they refer to, 0 being what NewSOCKS5Server left there.                 *)
(*                                                                         *)
(* What a handler does for its client is SocksTunnel.tla.  Start on a      *)
(* running server, a failed bind and Stop on a stopped one change nothing  *)
(* and are stuttering steps.                                               *)
(***************************************************************************)
EXTENDS Integers, FiniteSets

CONSTANTS
  Callers,   \* goroutines that call Start and Stop: Startup, Shutdown, the API
  Conns,     \* client connections
  NoConn,    \* what a loop holds between two connections
  MaxStarts  \* bound on the successful Starts of a behaviour

ASSUME ServerAssumption ==
  /\ MaxStarts \in Nat
  /\ NoConn \notin Conns
  /\ IsFiniteSet(Conns)

Epochs == 1..MaxStarts

VARIABLES
  call,         \* caller -> where it is in Start or Stop
  isRunning,
  listener,     \* s.listener
  quitChan,     \* s.quitChan
  quitClosed,   \* quit channels that are closed
  lnClosed,     \* listeners that are closed
  loop,         \* accept loop -> where it is in serve
  on,           \* accept loop -> the listener its Accept was called on
  got,          \* accept loop -> the connection Accept gave it
  conn,         \* connection -> its stage
  activeConns

callerVars == <<call, isRunning, listener, quitChan, quitClosed, lnClosed>>
loopVars == <<loop, on, got>>
vars == <<callerVars, loopVars, conn, activeConns>>

\* s.mu is held by a caller between the two halves of its locked section.
Locked == \E c \in Callers : call[c] # "idle"

Listening == listener # 0 /\ listener \notin lnClosed

-----------------------------------------------------------------------------
\* Start and Stop

\* Lines 94-106.
StartBinds(c) ==
  /\ ~Locked
  /\ ~isRunning
  /\ listener < MaxStarts
  /\ listener' = listener + 1
  /\ call' = [call EXCEPT ![c] = "publishing"]
  /\ UNCHANGED <<isRunning, quitChan, quitClosed, lnClosed, loopVars, conn, activeConns>>

\* Lines 107-111: the loop is started after the unlock.
MutOldQuitChan == quitChan

FreshQuitChan == listener

StartPublishes(c) ==
  /\ call[c] = "publishing"
  /\ isRunning' = TRUE
  /\ quitChan' = FreshQuitChan
  /\ loop' = [loop EXCEPT ![listener] = "top"]
  /\ call' = [call EXCEPT ![c] = "idle"]
  /\ UNCHANGED <<listener, quitClosed, lnClosed, on, got, conn, activeConns>>

\* Lines 117-123.
MutNoSignal == quitClosed

Signalled == quitClosed \cup {quitChan}

StopSignals(c) ==
  /\ ~Locked
  /\ isRunning
  /\ isRunning' = FALSE
  /\ quitClosed' = Signalled
  /\ call' = [call EXCEPT ![c] = "closing"]
  /\ UNCHANGED <<listener, quitChan, lnClosed, loopVars, conn, activeConns>>

\* Lines 124-127: the connections nobody has accepted yet are reset.
MutLeavesListener == lnClosed

Unbound == lnClosed \cup {listener}

StopCloses(c) ==
  /\ call[c] = "closing"
  /\ lnClosed' = Unbound
  /\ conn' = [k \in Conns |-> IF conn[k] = "queued" THEN "gone" ELSE conn[k]]
  /\ call' = [call EXCEPT ![c] = "idle"]
  /\ UNCHANGED <<isRunning, listener, quitChan, quitClosed, loopVars, activeConns>>

-----------------------------------------------------------------------------
\* serve

\* Line 146 evaluates s.listener, without the lock.
ReadListener(l) ==
  /\ loop[l] = "top"
  /\ loop' = [loop EXCEPT ![l] = "accepting"]
  /\ on' = [on EXCEPT ![l] = listener]
  /\ UNCHANGED <<callerVars, got, conn, activeConns>>

Accept(l, k) ==
  /\ loop[l] = "accepting"
  /\ on[l] = listener /\ Listening
  /\ conn[k] = "queued"
  /\ conn' = [conn EXCEPT ![k] = "accepted"]
  /\ got' = [got EXCEPT ![l] = k]
  /\ loop' = [loop EXCEPT ![l] = "counting"]
  /\ UNCHANGED <<callerVars, on, activeConns>>

\* Lines 156-163.
MutUncounted == activeConns

Incremented == activeConns + 1

Count(l) ==
  /\ loop[l] = "counting"
  /\ activeConns' = Incremented
  /\ conn' = [conn EXCEPT ![got[l]] = "handling"]
  /\ got' = [got EXCEPT ![l] = NoConn]
  /\ loop' = [loop EXCEPT ![l] = "top"]
  /\ UNCHANGED <<callerVars, on>>

\* Accept on a closed listener fails.
AcceptFails(l) ==
  /\ loop[l] = "accepting"
  /\ on[l] \in lnClosed
  /\ loop' = [loop EXCEPT ![l] = "failed"]
  /\ UNCHANGED <<callerVars, on, got, conn, activeConns>>

\* External: Accept fails though the listener is open (an aborted handshake,
\* no descriptors left).
AcceptHiccup(l) ==
  /\ loop[l] = "accepting"
  /\ on[l] \notin lnClosed
  /\ loop' = [loop EXCEPT ![l] = "failed"]
  /\ UNCHANGED <<callerVars, on, got, conn, activeConns>>

\* Lines 148-153: s.quitChan is read again, without the lock.
CheckQuit(l) ==
  /\ loop[l] = "failed"
  /\ loop' = [loop EXCEPT ![l] = IF quitChan \in quitClosed THEN "ended" ELSE "top"]
  /\ UNCHANGED <<callerVars, on, got, conn, activeConns>>

-----------------------------------------------------------------------------
\* Clients and handlers

\* External: the kernel queues connections from net.Listen on.
Connect(k) ==
  /\ conn[k] = "outside"
  /\ Listening
  /\ conn' = [conn EXCEPT ![k] = "queued"]
  /\ UNCHANGED <<callerVars, loopVars, activeConns>>

\* Lines 159 and 162: handleConn has returned, the client is closed.
HandlerCloses(k) ==
  /\ conn[k] = "handling"
  /\ conn' = [conn EXCEPT ![k] = "closing"]
  /\ UNCHANGED <<callerVars, loopVars, activeConns>>

\* Line 160.
HandlerExits(k) ==
  /\ conn[k] = "closing"
  /\ conn' = [conn EXCEPT ![k] = "gone"]
  /\ activeConns' = activeConns - 1
  /\ UNCHANGED <<callerVars, loopVars>>

-----------------------------------------------------------------------------
Init ==
  /\ call = [c \in Callers |-> "idle"]
  /\ isRunning = FALSE
  /\ listener = 0
  /\ quitChan = 0
  /\ quitClosed = {}
  /\ lnClosed = {}
  /\ loop = [l \in Epochs |-> "none"]
  /\ on = [l \in Epochs |-> 0]
  /\ got = [l \in Epochs |-> NoConn]
  /\ conn = [k \in Conns |-> "outside"]
  /\ activeConns = 0

CallerStep(c) == StartBinds(c) \/ StartPublishes(c) \/ StopSignals(c) \/ StopCloses(c)

LoopStep(l) ==
  \/ ReadListener(l) \/ Count(l) \/ AcceptFails(l) \/ AcceptHiccup(l) \/ CheckQuit(l)
  \/ \E k \in Conns : Accept(l, k)

ConnStep(k) == Connect(k) \/ HandlerCloses(k) \/ HandlerExits(k)

Next ==
  \/ \E c \in Callers : CallerStep(c)
  \/ \E l \in Epochs : LoopStep(l)
  \/ \E k \in Conns : ConnStep(k)

Spec == Init /\ [][Next]_vars

(***************************************************************************)
(* Fairness: goroutines that can run do.  Accept is strongly fair: an      *)
(* aborted handshake may interrupt it again and again, but a connection    *)
(* that stays in the queue of a loop that keeps accepting is reached.      *)
(* Nothing makes users start or stop the proxy or a handler return.        *)
(***************************************************************************)
Fairness ==
  /\ \A c \in Callers : WF_vars(StartPublishes(c)) /\ WF_vars(StopCloses(c))
  /\ \A l \in Epochs :
       /\ WF_vars(ReadListener(l)) /\ WF_vars(Count(l))
       /\ WF_vars(AcceptFails(l)) /\ WF_vars(CheckQuit(l))
  /\ \A k \in Conns :
       /\ SF_vars(\E l \in Epochs : Accept(l, k))
       /\ WF_vars(HandlerExits(k))

FairSpec == Spec /\ Fairness

-----------------------------------------------------------------------------
\* Properties

Alive == {"top", "accepting", "counting", "failed"}

\* The variables have their types (lines 65-75).
TypeOK ==
  /\ call \in [Callers -> {"idle", "publishing", "closing"}]
  /\ isRunning \in BOOLEAN
  /\ listener \in 0..MaxStarts
  /\ quitChan \in 0..MaxStarts
  /\ quitClosed \subseteq 0..MaxStarts
  /\ lnClosed \subseteq Epochs
  /\ loop \in [Epochs -> Alive \cup {"none", "ended"}]
  /\ on \in [Epochs -> 0..MaxStarts]
  /\ got \in [Epochs -> Conns \cup {NoConn}]
  /\ conn \in [Conns -> {"outside", "queued", "accepted", "handling", "closing", "gone"}]
  /\ activeConns \in Nat

\* While IsRunning reports TRUE the port is bound and the accept loop of
\* this Start has not exited, nor would Stop's close of its quit channel
\* panic, whatever loops of earlier Starts still do and however its Accepts
\* fail (lines 106-111, 123, 147-153).
RunningIsServed ==
  isRunning => Listening /\ quitChan \notin quitClosed /\ loop[listener] \in Alive

\* Start never binds while a listener of an earlier Start is open: its
\* net.Listen would find the port taken (lines 95-100, 124-125).
OneOpenListener == \A m \in 1..listener : m \in lnClosed \/ m = listener

\* activeConns counts exactly the connections that have a live handler, with
\* several loops and handlers updating it (lines 156-160).
ActiveConnsExact ==
  activeConns = Cardinality({k \in Conns : conn[k] \in {"handling", "closing"}})

\* The server implements the abstract port: loops and listeners of earlier
\* Starts show in nothing a caller or a client can see.
Stage == [outside |-> "outside", queued |-> "waiting", accepted |-> "taken",
          handling |-> "taken", closing |-> "taken", gone |-> "gone"]

PortView ==
  IF ~Listening THEN "free"
  ELSE IF isRunning THEN "serving"
  ELSE IF quitChan = listener THEN "closing" ELSE "bound"

ClientView == [k \in Conns |-> Stage[conn[k]]]

PP == INSTANCE ProxyPort WITH Clients <- Conns, port <- PortView, client <- ClientView

ImplementsPort == PP!PPSpec

\* A connection in the kernel's queue is never forgotten: the port is bound,
\* and either this Start's loop lives and is not stuck in an Accept on another
\* listener, or a caller is inside Start or Stop (lines 94-111, 117-127, 146).
QueuedIsHeard ==
  \A k \in Conns : conn[k] = "queued" =>
    /\ Listening
    /\ isRunning => /\ loop[listener] \in Alive
                    /\ loop[listener] = "accepting" => on[listener] = listener
    /\ isRunning \/ Locked

\* Once Stop has returned, no loop of any Start is left waiting: the quit
\* channel it will read is closed, and so is the listener of its Accept
\* (lines 123-127, 146-151).
StoppedFreesLoops ==
  (~isRunning /\ ~Locked) =>
    \A l \in Epochs : loop[l] \in Alive =>
      quitChan \in quitClosed /\ (loop[l] = "accepting" => on[l] \in lnClosed)

\* When the proxy is stopped for good every accept loop exits, those that a
\* quick restart had kept alive on a newer listener included.
StoppedEnds ==
  <>[](~isRunning) => <>[](\A l \in Epochs : loop[l] \notin Alive)

\* A connection the kernel has queued is handed to a handler or reset.
QueuedIsAnswered ==
  \A k \in Conns : (conn[k] = "queued") ~> (conn[k] \in {"handling", "closing", "gone"})
=============================================================================
