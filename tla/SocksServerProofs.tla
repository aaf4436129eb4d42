-------------------------- MODULE SocksServerProofs --------------------------
(***************************************************************************)
(* Safety of SocksServer.tla for any callers, any finite set of            *)
(* connections and any number of restarts.                                 *)
(***************************************************************************)
EXTENDS SocksServer, FiniteSetTheorems, TLAPS

\* Every type but that of the counter, which needs the counting argument.
Types ==
  /\ call \in [Callers -> {"idle", "publishing", "closing"}]
  /\ isRunning \in BOOLEAN
  /\ listener \in 0..MaxStarts
  /\ quitChan \in 0..MaxStarts
  /\ quitClosed \subseteq 0..MaxStarts
  /\ lnClosed \subseteq Epochs
  /\ loop \in [Epochs -> Alive \cup {"none", "ended"}]
  /\ on \in [Epochs -> 0..MaxStarts]
  /\ got \in [Epochs -> Conns \cup {NoConn}]
  /\ conn \in [Conns -> {"outside", "queued", "accepted", "handling", "closing", "gone"}]
  /\ activeConns \in Int

\* The lock: one caller at a time is inside Start or Stop.
Mutex == \A c, d \in Callers : call[c] # "idle" /\ call[d] # "idle" => c = d

\* What the fields are while a caller is between the halves of its section.
Sections ==
  \A c \in Callers :
    /\ call[c] = "publishing" =>
         ~isRunning /\ Listening /\ quitChan = listener - 1 /\ listener \notin quitClosed
    /\ call[c] = "closing" => ~isRunning /\ Listening /\ quitChan = listener

\* What they are outside of it: bound exactly when running.
Resting ==
  ~Locked => /\ quitChan = listener
             /\ isRunning <=> Listening

\* No number is used before its Start.
Unused ==
  /\ \A n \in quitClosed : n <= quitChan
  /\ \A n \in lnClosed : n <= listener

RunningInv ==
  isRunning => quitChan \notin quitClosed /\ loop[listener] \in Alive /\ quitChan = listener

Inv == Types /\ Mutex /\ Sections /\ Resting /\ Unused /\ RunningInv /\ OneOpenListener

LEMMA InitInv == Init => Inv
<1> SUFFICES ASSUME Init PROVE Inv
  OBVIOUS
<1> USE ServerAssumption DEF Init, Epochs, Alive, Locked, Listening
<1>1. Types
  <2>1. 0 \in 0..MaxStarts
    OBVIOUS
  <2>2. listener \in 0..MaxStarts /\ quitChan \in 0..MaxStarts
    BY <2>1
  <2>3. on \in [Epochs -> 0..MaxStarts]
    BY <2>1
  <2>4. loop \in [Epochs -> Alive \cup {"none", "ended"}]
    OBVIOUS
  <2>5. /\ call \in [Callers -> {"idle", "publishing", "closing"}]
        /\ got \in [Epochs -> Conns \cup {NoConn}]
        /\ conn \in [Conns -> {"outside", "queued", "accepted", "handling", "closing", "gone"}]
    OBVIOUS
  <2>6. isRunning \in BOOLEAN
    BY Zenon
  <2>7. quitClosed = {} /\ lnClosed = {} /\ activeConns \in Int
    OBVIOUS
  <2> HIDE DEF Init, Alive
  <2> QED
    BY <2>2, <2>3, <2>4, <2>5, <2>6, <2>7 DEF Types
<1>2. Mutex /\ Sections /\ Resting
  BY DEF Mutex, Sections, Resting
<1>3. Unused /\ RunningInv /\ OneOpenListener
  BY DEF Unused, RunningInv, OneOpenListener
<1> QED
  BY <1>1, <1>2, <1>3 DEF Inv

LEMMA InvStep == Inv /\ [Next]_vars => Inv'
<1> SUFFICES ASSUME Inv, [Next]_vars PROVE Inv'
  OBVIOUS
<1> USE ServerAssumption
    DEF Inv, Types, Mutex, Sections, Resting, Unused, RunningInv, OneOpenListener,
        Epochs, Alive, Locked, Listening, callerVars, loopVars
<1>1. ASSUME NEW c \in Callers, StartBinds(c) PROVE Inv'
  BY <1>1 DEF StartBinds
<1>2. ASSUME NEW c \in Callers, StartPublishes(c) PROVE Inv'
  BY <1>2 DEF StartPublishes, FreshQuitChan
<1>3. ASSUME NEW c \in Callers, StopSignals(c) PROVE Inv'
  <2>1. /\ \A d \in Callers : call[d] = "idle"
        /\ isRunning /\ Listening /\ quitChan = listener /\ isRunning' = FALSE
        /\ quitClosed' = quitClosed \cup {quitChan}
        /\ call' = [call EXCEPT ![c] = "closing"]
        /\ UNCHANGED <<listener, quitChan, lnClosed, loopVars, conn, activeConns>>
    BY <1>3 DEF StopSignals, Signalled
  <2>2. Types' /\ Mutex'
    BY <2>1
  <2>3. Sections' /\ Resting'
    BY <2>1
  <2>4. Unused' /\ RunningInv' /\ OneOpenListener'
    BY <2>1
  <2> QED
    BY <2>2, <2>3, <2>4
<1>4. ASSUME NEW c \in Callers, StopCloses(c) PROVE Inv'
  BY <1>4 DEF StopCloses, Unbound
\* Steps of the loops and the connections leave what the callers write.
<1>5. ASSUME UNCHANGED callerVars, Types',
             \A l \in Epochs : loop[l] \in Alive /\ quitChan \notin quitClosed => loop'[l] \in Alive
      PROVE  Inv'
  <2>1. Mutex' /\ Sections' /\ Resting' /\ Unused' /\ OneOpenListener'
    BY <1>5
  <2>2. RunningInv'
    BY <1>5
  <2> QED
    BY <1>5, <2>1, <2>2
<1>6. ASSUME NEW l \in Epochs, LoopStep(l) PROVE Inv'
  <2>1. UNCHANGED callerVars
    BY <1>6 DEF LoopStep, ReadListener, Accept, Count, AcceptFails, AcceptHiccup, CheckQuit
  <2>2. \A m \in Epochs : loop[m] \in Alive /\ quitChan \notin quitClosed => loop'[m] \in Alive
    BY <1>6 DEF LoopStep, ReadListener, Accept, Count, AcceptFails, AcceptHiccup, CheckQuit
  <2>3. loop' \in [Epochs -> Alive \cup {"none", "ended"}]
    BY <1>6 DEF LoopStep, ReadListener, Accept, Count, AcceptFails, AcceptHiccup, CheckQuit
  <2>4. on' \in [Epochs -> 0..MaxStarts] /\ got' \in [Epochs -> Conns \cup {NoConn}]
    <3>1. CASE ReadListener(l)
      BY <3>1 DEF ReadListener
    <3>2. ASSUME NEW k \in Conns, Accept(l, k)
          PROVE  on' = on /\ got' \in [Epochs -> Conns \cup {NoConn}]
      BY <3>2 DEF Accept
    <3>3. CASE Count(l)
      BY <3>3 DEF Count
    <3>4. CASE AcceptFails(l) \/ AcceptHiccup(l) \/ CheckQuit(l)
      BY <3>4 DEF AcceptFails, AcceptHiccup, CheckQuit
    <3> QED
      BY <1>6, <3>1, <3>2, <3>3, <3>4 DEF LoopStep
  <2>5. conn' \in [Conns -> {"outside", "queued", "accepted", "handling", "closing", "gone"}]
    BY <1>6 DEF LoopStep, ReadListener, Accept, Count, AcceptFails, AcceptHiccup, CheckQuit
  <2>6. activeConns' \in Int
    BY <1>6 DEF LoopStep, ReadListener, Accept, Count, Incremented, AcceptFails, AcceptHiccup,
                CheckQuit
  <2>7. Types'
    BY <2>1, <2>3, <2>4, <2>5, <2>6
  <2> QED
    BY <1>5, <2>1, <2>2, <2>7
<1>7. ASSUME NEW k \in Conns, ConnStep(k) PROVE Inv'
  <2>1. UNCHANGED callerVars /\ UNCHANGED loopVars
    BY <1>7 DEF ConnStep, Connect, HandlerCloses, HandlerExits
  <2>2. conn' \in [Conns -> {"outside", "queued", "accepted", "handling", "closing", "gone"}]
    BY <1>7 DEF ConnStep, Connect, HandlerCloses, HandlerExits
  <2>3. activeConns' \in Int
    BY <1>7 DEF ConnStep, Connect, HandlerCloses, HandlerExits
  <2>4. Types'
    BY <2>1, <2>2, <2>3
  <2> QED
    BY <1>5, <2>1, <2>4
<1>8. CASE UNCHANGED vars
  BY <1>8 DEF vars
<1> QED
  BY <1>1, <1>2, <1>3, <1>4, <1>6, <1>7, <1>8 DEF Next, CallerStep

LEMMA Invariance == Spec => []Inv
  BY InitInv, InvStep, PTL DEF Spec

\* A running proxy is bound and has a live accept loop, for any number of
\* restarts and of concurrent callers.
THEOREM Served == Spec => []RunningIsServed
<1>1. Inv => RunningIsServed
  BY ServerAssumption
  DEF Inv, Types, Sections, Resting, RunningInv, RunningIsServed, Listening, Locked, Epochs
<1> QED
  BY <1>1, Invariance, PTL

\* No two listeners are open at once.
THEOREM OneListener == Spec => []OneOpenListener
<1>1. Inv => OneOpenListener
  BY DEF Inv
<1> QED
  BY <1>1, Invariance, PTL

-----------------------------------------------------------------------------
\* The counting argument: Count adds a connection to Counted, HandlerExits
\* removes one, and no other step touches the set.

Counted == {k \in Conns : conn[k] \in {"handling", "closing"}}

\* A loop that is about to count holds a connection nobody else holds.
Held ==
  /\ \A l \in Epochs : loop[l] = "counting" => got[l] \in Conns /\ conn[got[l]] = "accepted"
  /\ \A l, m \in Epochs : loop[l] = "counting" /\ loop[m] = "counting" /\ got[l] = got[m] => l = m

CountInv == Held /\ ActiveConnsExact

LEMMA FiniteCounted == IsFiniteSet(Counted) /\ Cardinality(Counted) \in Nat
<1>1. Counted \subseteq Conns
  BY DEF Counted
<1> QED
  BY <1>1, ServerAssumption, FS_Subset, FS_CardinalityType

LEMMA CountStep == Inv /\ CountInv /\ [Next]_vars => CountInv'
<1> SUFFICES ASSUME Inv, CountInv, [Next]_vars PROVE CountInv'
  OBVIOUS
<1> USE ServerAssumption DEF Inv, Types, CountInv, Held, Epochs, Alive, callerVars, loopVars
<1>1. ActiveConnsExact <=> activeConns = Cardinality(Counted)
  BY DEF ActiveConnsExact, Counted
<1>2. ActiveConnsExact' <=> activeConns' = Cardinality(Counted')
  BY DEF ActiveConnsExact, Counted
<1>3. ASSUME Held', activeConns' = activeConns, Counted' = Counted PROVE CountInv'
  BY <1>1, <1>2, <1>3
<1>4. ASSUME NEW l \in Epochs, Count(l) PROVE CountInv'
  <2>1. /\ got[l] \in Conns /\ conn[got[l]] = "accepted" /\ loop[l] = "counting"
        /\ conn' = [conn EXCEPT ![got[l]] = "handling"]
        /\ activeConns' = activeConns + 1
        /\ loop' = [loop EXCEPT ![l] = "top"] /\ got' = [got EXCEPT ![l] = NoConn]
    BY <1>4 DEF Count, Incremented
  <2>2. Held'
    BY <2>1
  <2>3. got[l] \notin Counted /\ Counted' = Counted \cup {got[l]}
    BY <2>1 DEF Counted
  <2>4. Cardinality(Counted \cup {got[l]}) = Cardinality(Counted) + 1
    BY <2>3, FiniteCounted, FS_AddElement
  <2> QED
    BY <1>1, <1>2, <2>1, <2>2, <2>3, <2>4
<1>5. ASSUME NEW k \in Conns, HandlerExits(k) PROVE CountInv'
  <2>1. /\ conn[k] = "closing" /\ conn' = [conn EXCEPT ![k] = "gone"]
        /\ activeConns' = activeConns - 1 /\ UNCHANGED loopVars
    BY <1>5 DEF HandlerExits
  <2>2. Held'
    BY <2>1
  <2>3. k \in Counted /\ Counted' = Counted \ {k}
    BY <2>1 DEF Counted
  <2>4. Cardinality(Counted \ {k}) = Cardinality(Counted) - 1
    BY <2>3, FiniteCounted, FS_RemoveElement
  <2> QED
    BY <1>1, <1>2, <2>1, <2>2, <2>3, <2>4
<1>6. ASSUME NEW l \in Epochs, NEW k \in Conns, Accept(l, k) PROVE CountInv'
  <2>1. /\ conn[k] = "queued" /\ conn' = [conn EXCEPT ![k] = "accepted"]
        /\ got' = [got EXCEPT ![l] = k] /\ loop' = [loop EXCEPT ![l] = "counting"]
        /\ activeConns' = activeConns
    BY <1>6 DEF Accept
  <2>2. Held'
    BY <2>1
  <2>3. Counted' = Counted
    BY <2>1 DEF Counted
  <2> QED
    BY <1>3, <2>1, <2>2, <2>3
<1>7. ASSUME NEW l \in Epochs,
             ReadListener(l) \/ AcceptFails(l) \/ AcceptHiccup(l) \/ CheckQuit(l)
      PROVE  CountInv'
  <2>1. /\ UNCHANGED <<conn, got, activeConns>>
        /\ \A m \in Epochs : loop'[m] = "counting" => loop[m] = "counting"
    BY <1>7 DEF ReadListener, AcceptFails, AcceptHiccup, CheckQuit
  <2>2. Held'
    BY <2>1
  <2>3. Counted' = Counted
    BY <2>1 DEF Counted
  <2> QED
    BY <1>3, <2>1, <2>2, <2>3
<1>8. ASSUME NEW k \in Conns, Connect(k) \/ HandlerCloses(k) PROVE CountInv'
  <2>1. /\ UNCHANGED loopVars /\ activeConns' = activeConns
        /\ \/ conn[k] = "outside" /\ conn' = [conn EXCEPT ![k] = "queued"]
           \/ conn[k] = "handling" /\ conn' = [conn EXCEPT ![k] = "closing"]
    BY <1>8 DEF Connect, HandlerCloses
  <2>2. Held'
    BY <2>1
  <2>3. Counted' = Counted
    BY <2>1 DEF Counted
  <2> QED
    BY <1>3, <2>1, <2>2, <2>3
<1>9. ASSUME NEW c \in Callers, CallerStep(c) PROVE CountInv'
  <2>1. /\ UNCHANGED <<got, activeConns>>
        /\ \A m \in Epochs : loop'[m] = "counting" => loop[m] = "counting"
    BY <1>9 DEF CallerStep, StartBinds, StartPublishes, StopSignals, StopCloses
  <2>2. \A k \in Conns : \/ conn'[k] = conn[k]
                         \/ conn[k] = "queued" /\ conn'[k] = "gone"
    BY <1>9 DEF CallerStep, StartBinds, StartPublishes, StopSignals, StopCloses
  <2>3. Held'
    <3>1. ASSUME NEW m \in Epochs, loop'[m] = "counting"
          PROVE  got'[m] \in Conns /\ conn'[got'[m]] = "accepted"
      <4>1. got'[m] = got[m] /\ got[m] \in Conns /\ conn[got[m]] = "accepted"
        BY <2>1, <3>1
      <4> QED
        BY <2>2, <4>1
    <3>2. \A l, m \in Epochs :
            loop'[l] = "counting" /\ loop'[m] = "counting" /\ got'[l] = got'[m] => l = m
      BY <2>1
    <3> QED
      BY <3>1, <3>2
  <2>4. Counted' = Counted
    BY <2>2 DEF Counted
  <2> QED
    BY <1>3, <2>1, <2>3, <2>4
<1>10. CASE UNCHANGED vars
  <2>1. Counted' = Counted
    BY <1>10 DEF vars, Counted
  <2> QED
    BY <1>3, <1>10, <2>1 DEF vars
<1> QED
  BY <1>4, <1>5, <1>6, <1>7, <1>8, <1>9, <1>10 DEF Next, LoopStep, ConnStep

LEMMA CountInvariance == Spec => []CountInv
<1>1. Init => CountInv
  <2>1. Init => Counted = {}
    BY DEF Init, Counted
  <2> QED
    BY <2>1, FS_EmptySet DEF Init, CountInv, Held, ActiveConnsExact, Counted
<1> QED
  BY <1>1, Invariance, CountStep, PTL DEF Spec

\* The connection counter is exact: however many loops and handlers run, no
\* update is lost and it returns to zero with the last handler.
THEOREM CounterExact == Spec => []ActiveConnsExact
<1>1. CountInv => ActiveConnsExact
  BY DEF CountInv
<1> QED
  BY <1>1, CountInvariance, PTL

-----------------------------------------------------------------------------
\* Where the loops of the different Starts are, and who hears a connection.

\* A loop never runs before its Start, nor accepts on a listener older than
\* its own; a quit channel that is current while the server does not run is
\* closed; connections wait only at an open listener.
LoopInv ==
  /\ \A l \in Epochs : loop[l] # "none" => l <= listener
  /\ \A l \in Epochs : loop[l] = "accepting" => l <= on[l] /\ on[l] <= listener
  /\ ~isRunning /\ quitChan # 0 => quitChan \in quitClosed
  /\ \A k \in Conns : conn[k] = "queued" => Listening

LEMMA LoopStepInv == Inv /\ LoopInv /\ [Next]_vars => LoopInv'
<1> SUFFICES ASSUME Inv, LoopInv, [Next]_vars PROVE LoopInv'
  OBVIOUS
<1> USE ServerAssumption
    DEF Inv, Types, LoopInv, Epochs, Alive, Listening, Locked, callerVars, loopVars
<1>1. ASSUME NEW c \in Callers, StartBinds(c) PROVE LoopInv'
  <2>1. /\ listener' = listener + 1 /\ listener' \notin lnClosed /\ listener' # 0
        /\ UNCHANGED <<isRunning, quitChan, quitClosed, lnClosed, loop, on, conn>>
    BY <1>1 DEF StartBinds, Unused
  <2> QED
    BY <2>1
<1>2. ASSUME NEW c \in Callers, StartPublishes(c) PROVE LoopInv'
  <2>1. /\ listener \in Epochs /\ isRunning' = TRUE /\ loop' = [loop EXCEPT ![listener] = "top"]
        /\ UNCHANGED <<listener, lnClosed, on, conn>>
    BY <1>2 DEF StartPublishes, Sections
  <2> QED
    BY <2>1
<1>3. ASSUME NEW c \in Callers, StopSignals(c) PROVE LoopInv'
  BY <1>3 DEF StopSignals, Signalled
<1>4. ASSUME NEW c \in Callers, StopCloses(c) PROVE LoopInv'
  <2>1. /\ \A k \in Conns : conn'[k] # "queued"
        /\ UNCHANGED <<isRunning, listener, quitChan, quitClosed, loop, on>>
    BY <1>4 DEF StopCloses
  <2> QED
    BY <2>1
<1>5. ASSUME NEW l \in Epochs, ReadListener(l) PROVE LoopInv'
  BY <1>5 DEF ReadListener
<1>6. ASSUME NEW l \in Epochs,
             Count(l) \/ AcceptFails(l) \/ AcceptHiccup(l) \/ CheckQuit(l)
             \/ \E k \in Conns : Accept(l, k)
      PROVE  LoopInv'
  <2>1. /\ UNCHANGED <<callerVars, on>> /\ loop[l] # "none"
        /\ \A m \in Epochs : m # l => loop'[m] = loop[m]
        /\ loop'[l] # "accepting"
        /\ \A k \in Conns : conn'[k] = "queued" => conn[k] = "queued"
    BY <1>6 DEF Count, AcceptFails, AcceptHiccup, CheckQuit, Accept
  <2> QED
    BY <2>1
<1>7. ASSUME NEW k \in Conns, ConnStep(k) PROVE LoopInv'
  <2>1. /\ UNCHANGED <<callerVars, loopVars>>
        /\ \A j \in Conns : conn'[j] = "queued" => conn[j] = "queued" \/ Listening
    BY <1>7 DEF ConnStep, Connect, HandlerCloses, HandlerExits
  <2> QED
    BY <2>1
<1>8. CASE UNCHANGED vars
  BY <1>8 DEF vars
<1> QED
  BY <1>1, <1>2, <1>3, <1>4, <1>5, <1>6, <1>7, <1>8 DEF Next, CallerStep, LoopStep

LEMMA LoopInvariance == Spec => []LoopInv
<1>1. Init => LoopInv
  BY DEF Init, LoopInv
<1> QED
  BY <1>1, Invariance, LoopStepInv, PTL DEF Spec

\* A queued connection is at an open port with a loop that can take it, or a
\* caller is about to serve or to reset it: the state in which an answer
\* depends on scheduling alone.
THEOREM QueuedHeard == Spec => []QueuedIsHeard
<1>1. Inv /\ LoopInv => QueuedIsHeard
  <2> SUFFICES ASSUME Inv, LoopInv, NEW k \in Conns, conn[k] = "queued"
               PROVE  /\ Listening
                      /\ isRunning => /\ loop[listener] \in Alive
                                      /\ loop[listener] = "accepting" => on[listener] = listener
                      /\ isRunning \/ Locked
    BY DEF QueuedIsHeard
  <2>1. Listening /\ listener \in Epochs
    BY ServerAssumption DEF LoopInv, Inv, Types, Listening, Epochs
  <2>2. isRunning \/ Locked
    BY <2>1, Zenon DEF Inv, Resting
  <2>3. ASSUME isRunning
        PROVE  loop[listener] \in Alive /\ (loop[listener] = "accepting" => on[listener] = listener)
    BY <2>1, <2>3, ServerAssumption DEF LoopInv, Inv, Types, RunningInv, Epochs
  <2> QED
    BY <2>1, <2>2, <2>3, Zenon
<1> QED
  BY <1>1, Invariance, LoopInvariance, PTL

\* After Stop nothing holds a loop back: whichever Start it belongs to, its
\* Accept fails and the quit channel it then reads is closed.
THEOREM StopFreesLoops == Spec => []StoppedFreesLoops
<1>1. Inv /\ LoopInv => StoppedFreesLoops
  <2> SUFFICES ASSUME Inv, LoopInv, ~isRunning, ~Locked, NEW l \in Epochs, loop[l] \in Alive
               PROVE  quitChan \in quitClosed /\ (loop[l] = "accepting" => on[l] \in lnClosed)
    BY DEF StoppedFreesLoops
  <2>1. quitChan = listener /\ ~Listening
    BY Zenon DEF Inv, Resting
  <2>2. 1 <= l /\ l <= listener /\ listener \in lnClosed
    BY <2>1, ServerAssumption DEF LoopInv, Inv, Types, Listening, Epochs, Alive
  <2>3. quitChan \in quitClosed
    BY <2>1, <2>2, ServerAssumption DEF LoopInv, Inv, Types, Epochs
  <2>4. loop[l] = "accepting" => on[l] \in 1..listener
    BY <2>2, ServerAssumption DEF LoopInv, Inv, Types, Epochs
  <2> QED
    BY <2>2, <2>3, <2>4 DEF Inv, OneOpenListener
<1> QED
  BY <1>1, Invariance, LoopInvariance, PTL

-----------------------------------------------------------------------------
\* The refinement of ProxyPort.

\* A step that leaves the view alone is a stutter of the port.
LEMMA Stutter ==
  ASSUME UNCHANGED <<isRunning, quitChan, Listening, listener>>, ClientView' = ClientView
  PROVE  [PP!PPNext]_PP!ppVars
  BY DEF PortView, PP!ppVars

LEMMA PortStep == Inv /\ Held /\ [Next]_vars => [PP!PPNext]_PP!ppVars
<1> SUFFICES ASSUME Inv, Held, [Next]_vars PROVE [PP!PPNext]_PP!ppVars
  OBVIOUS
<1> USE ServerAssumption
    DEF Inv, Types, Epochs, Locked, Listening, callerVars, loopVars, Stage
<1>1. ASSUME NEW c \in Callers, StartBinds(c) PROVE PP!Bind
  <2>1. ~Listening /\ Listening'
    BY <1>1 DEF StartBinds, Resting, Unused
  <2>2. quitChan' # listener' /\ ~isRunning'
    BY <1>1 DEF StartBinds, Resting
  <2>3. ClientView' = ClientView
    BY <1>1 DEF StartBinds, ClientView
  <2> QED
    BY <2>1, <2>2, <2>3 DEF PP!Bind, PP!Move, PortView
<1>2. ASSUME NEW c \in Callers, StartPublishes(c) PROVE PP!Open
  <2>1. Listening /\ Listening' /\ quitChan # listener /\ ~isRunning /\ isRunning'
    BY <1>2 DEF StartPublishes, Sections
  <2>2. ClientView' = ClientView
    BY <1>2 DEF StartPublishes, ClientView
  <2> QED
    BY <2>1, <2>2 DEF PP!Open, PP!Move, PortView
<1>3. ASSUME NEW c \in Callers, StopSignals(c) PROVE PP!Close
  <2>1. Listening /\ Listening' /\ isRunning /\ ~isRunning' /\ quitChan' = listener'
    BY <1>3 DEF StopSignals, Resting
  <2>2. ClientView' = ClientView
    BY <1>3 DEF StopSignals, ClientView
  <2> QED
    BY <2>1, <2>2 DEF PP!Close, PP!Move, PortView
<1>4. ASSUME NEW c \in Callers, StopCloses(c) PROVE PP!Release
  <2>1. Listening /\ ~Listening' /\ ~isRunning /\ quitChan = listener
    BY <1>4 DEF StopCloses, Sections, Unbound
  <2>2. ClientView' =
          [k \in Conns |-> IF ClientView[k] = "waiting" THEN "gone" ELSE ClientView[k]]
    BY <1>4 DEF StopCloses, ClientView
  <2> QED
    BY <2>1, <2>2 DEF PP!Release, PortView
<1>5. ASSUME NEW k \in Conns, UNCHANGED callerVars,
             NEW from \in {"outside", "queued", "handling", "closing"},
             NEW to \in {"queued", "accepted", "closing", "gone"},
             conn[k] = from, conn' = [conn EXCEPT ![k] = to]
      PROVE  /\ ClientView' = [ClientView EXCEPT ![k] = Stage[to]]
             /\ ClientView[k] = Stage[from]
             /\ PortView' = PortView /\ (Listening => PortView # "free")
  BY <1>5 DEF ClientView, PortView
<1>6. ASSUME NEW l \in Epochs, NEW k \in Conns, Accept(l, k) PROVE PP!Take(k)
  BY <1>5, <1>6 DEF Accept, PP!Take
<1>7. ASSUME NEW k \in Conns, Connect(k) PROVE PP!Arrive(k)
  BY <1>5, <1>7 DEF Connect, PP!Arrive
<1>8. ASSUME NEW k \in Conns, HandlerExits(k) PROVE PP!Leave(k)
  BY <1>5, <1>8 DEF HandlerExits, PP!Leave
<1>9. ASSUME NEW k \in Conns, HandlerCloses(k) PROVE [PP!PPNext]_PP!ppVars
  <2>1. ClientView' = ClientView
    BY <1>9 DEF HandlerCloses, ClientView
  <2> QED
    BY <1>9, <2>1, Stutter DEF HandlerCloses
<1>10. ASSUME NEW l \in Epochs, Count(l) PROVE [PP!PPNext]_PP!ppVars
  <2>1. ClientView' = ClientView
    BY <1>10 DEF Count, ClientView, Held
  <2> QED
    BY <1>10, <2>1, Stutter DEF Count
<1>11. ASSUME NEW l \in Epochs,
              ReadListener(l) \/ AcceptFails(l) \/ AcceptHiccup(l) \/ CheckQuit(l)
       PROVE  [PP!PPNext]_PP!ppVars
  <2>1. ClientView' = ClientView /\ UNCHANGED callerVars
    BY <1>11 DEF ReadListener, AcceptFails, AcceptHiccup, CheckQuit, ClientView
  <2> QED
    BY <2>1, Stutter
<1>12. CASE UNCHANGED vars
  <2>1. ClientView' = ClientView
    BY <1>12 DEF vars, ClientView
  <2> QED
    BY <1>12, <2>1, Stutter DEF vars
<1> QED
  BY <1>1, <1>2, <1>3, <1>4, <1>6, <1>7, <1>8, <1>9, <1>10, <1>11, <1>12
  DEF Next, CallerStep, LoopStep, ConnStep, PP!PPNext

\* The server refines the abstract port: nobody outside can tell which loop or
\* listener of which Start is at work.
THEOREM ImplementsProxyPort == Spec => ImplementsPort
<1>1. Init => PP!PPInit
  BY DEF Init, PP!PPInit, PortView, ClientView, Listening, Stage
<1>2. CountInv => Held
  BY DEF CountInv
<1> QED
  BY <1>1, <1>2, PortStep, Invariance, CountInvariance, PTL
  DEF Spec, ImplementsPort, PP!PPSpec

\* Every variable keeps its type; the counter is never negative.
THEOREM TypeCorrect == Spec => []TypeOK
<1>1. Inv /\ ActiveConnsExact => TypeOK
  BY FiniteCounted DEF Inv, Types, TypeOK, ActiveConnsExact, Counted
<1> QED
  BY <1>1, Invariance, CounterExact, PTL
=============================================================================
