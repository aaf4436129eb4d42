-------------------------------- MODULE Chat --------------------------------
(***************************************************************************)
(* The messages of pkg/im/chat.go and App.SendChatMessage (app.go), beside *)
(* the links of the circuit breaker, taken from LinkState.tla, which       *)
(* CircuitBreaker.tla implements.                                          *)
(*                                                                         *)
(* Each call is served by a goroutine of its own.  A message is stored and *)
(* labelled with the link to its peer; nothing is sent over the network.   *)
(* The label is taken from a copy of the link's entry, which GetStatus     *)
(* makes under the lock of the breaker: the link may switch again before   *)
(* the message is stored under another lock.                               *)
(*                                                                         *)
(* Left out: names, contents, IDs, timestamps and latencies.               *)
(***************************************************************************)
EXTENDS LinkState, Sequences

CONSTANTS
  Messages,    \* the calls of SendChatMessage
  None,
  MaxSwitches  \* bound on the switches of a link

ASSUME ChatAssumption == None \notin Peers /\ MaxSwitches \in Nat

VARIABLES
  stage,     \* message -> where its call is
  target,    \* message -> its peer
  label,     \* message -> IsDirectP2P, as "direct" or "relay"
  messages,  \* peer -> the messages stored under it
  history,   \* peer -> the list that GetChatHistory answered last
  seen,      \* history: the switches its link had made when the call began
  before     \* history: the messages whose calls had ended when it began

chatVars == <<stage, target, label, messages, history, seen, before>>
vars == <<lsVars, chatVars>>

Stages == {"idle", "called", "labelled", "stored", "answered"}

\* app.go:262: only the relay is not direct.
MutProbingIsRelay(mode) == IF mode = "DIRECT_P2P" THEN "direct" ELSE "relay"

Label(mode) == IF mode = "DERP_RELAY" THEN "relay" ELSE "direct"

Goes(m, to) == stage' = [stage EXCEPT ![m] = to]

-----------------------------------------------------------------------------
\* The handler has decoded a request (app.go:405-418).
Call(m, p) ==
  /\ stage[m] = "idle"
  /\ Goes(m, "called")
  /\ target' = [target EXCEPT ![m] = p]
  /\ seen' = [seen EXCEPT ![m] = link[p].switches]
  /\ before' = [before EXCEPT ![m] = {b \in Messages : stage[b] = "answered"}]
  /\ UNCHANGED <<lsVars, label, messages, history>>

\* Line 261: without an entry the message counts as direct.
LabelOf(p) == IF link[p].mode = "ABSENT" THEN "direct" ELSE Label(link[p].mode)

\* Line 260 copies the entry under the lock (breaker.go:256-265); what
\* follows, up to line 279, looks at the copy.
GetStatus(m) ==
  /\ stage[m] = "called"
  /\ label' = [label EXCEPT ![m] = LabelOf(target[m])]
  /\ Goes(m, "labelled")
  /\ UNCHANGED <<lsVars, target, messages, history, seen, before>>

\* chat.go:59-63.
MutPrepends(list, m) == <<m>> \o list

MutKeepsLast(list, m) == <<m>>

Added(list, m) == Append(list, m)

AppendMessage(m) ==
  /\ stage[m] = "labelled"
  /\ messages' = [messages EXCEPT ![target[m]] = Added(@, m)]
  /\ Goes(m, "stored")
  /\ UNCHANGED <<lsVars, target, label, history, seen, before>>

\* app.go:281-282 and 418-420.
MutAnswersFirst(m) == stage[m] \in {"labelled", "stored"}

MayAnswer(m) == stage[m] = "stored"

Answer(m) ==
  /\ MayAnswer(m)
  /\ Goes(m, "answered")
  /\ UNCHANGED <<lsVars, target, label, messages, history, seen, before>>

\* Lines 71-75: make and copy.
MutAppendsToMade(list) == [i \in 1..Len(list) |-> None] \o list

CopyOf(list) == list

\* A copy, made under the lock (chat.go:66-76, app.go:286-288).
GetMessages(p) ==
  /\ history' = [history EXCEPT ![p] = CopyOf(messages[p])]
  /\ UNCHANGED <<lsVars, stage, target, label, messages, seen, before>>

\* A step of the breaker.
LinkStep(p) ==
  /\ link[p].switches < MaxSwitches
  /\ Evaluate(p) \/ Punch(p) \/ FallBack(p) \/ GoDirect(p)
  /\ UNCHANGED chatVars

-----------------------------------------------------------------------------
\* NewChatManager (chat.go:51-56).
Init ==
  /\ LSInit
  /\ stage = [m \in Messages |-> "idle"]
  /\ target = [m \in Messages |-> None]
  /\ label = [m \in Messages |-> "none"]
  /\ messages = [p \in Peers |-> <<>>]
  /\ history = [p \in Peers |-> <<>>]
  /\ seen = [m \in Messages |-> 0]
  /\ before = [m \in Messages |-> {}]

Send(m) == GetStatus(m) \/ AppendMessage(m) \/ Answer(m)

Next ==
  \/ \E m \in Messages : (\E p \in Peers : Call(m, p)) \/ Send(m)
  \/ \E p \in Peers : GetMessages(p) \/ LinkStep(p)

Spec == Init /\ [][Next]_vars

-----------------------------------------------------------------------------
\* The log of MessageLog.tla: GetStatus leaves it alone.
Phase == [idle |-> "new", called |-> "asked", labelled |-> "asked", stored |-> "put",
          answered |-> "answered"]

CallView == [m \in Messages |-> [phase |-> Phase[stage[m]], peer |-> target[m]]]

ML == INSTANCE MessageLog WITH log <- messages, call <- CallView

-----------------------------------------------------------------------------
\* Properties

\* The variables have their types; a call that has begun has a peer.
TypeOK ==
  /\ link \in [Peers -> LinkStatus]
  /\ stage \in [Messages -> Stages]
  /\ target \in [Messages -> Peers \cup {None}]
  /\ \A m \in Messages : stage[m] # "idle" => target[m] \in Peers
  /\ label \in [Messages -> {"none", "direct", "relay"}]
  /\ messages \in [Peers -> Seq(Messages)]
  /\ history \in [Peers -> Seq(Messages)]
  /\ seen \in [Messages -> Nat]
  /\ before \in [Messages -> SUBSET Messages]

Kept(m) == stage[m] \in {"stored", "answered"}

Labelled(m) == stage[m] = "labelled" \/ Kept(m)

\* A label may contradict the link only if the link has made a counted switch
\* since the call began: neither an entry that is missing, nor one that is
\* created or probed meanwhile, nor a message that is stored late makes a
\* label stale, and no switch goes uncounted (app.go:258-281, and 112, 155,
\* 166, 186, 246 of breaker.go).
StaleOnlyAfterSwitch ==
  \A m \in Messages :
    (Labelled(m) /\ (label[m] = "relay") # (link[target[m]].mode = "DERP_RELAY"))
      => seen[m] < link[target[m]].switches

\* However many calls overlap, a message is stored once, under its peer and
\* before its call is answered (chat.go:59-63).
StoredOnce ==
  \A m \in Messages, p \in Peers :
    IF Kept(m) /\ target[m] = p
    THEN \E i \in 1..Len(messages[p]) :
           \A j \in 1..Len(messages[p]) : messages[p][j] = m <=> j = i
    ELSE \A j \in 1..Len(messages[p]) : messages[p][j] # m

\* A message that is sent after another one was answered is stored after it.
OrderKept ==
  \A p \in Peers : \A j \in 1..Len(messages[p]) :
    \A b \in before[messages[p][j]] :
      target[b] = p => \E i \in 1..(j - 1) : messages[p][i] = b

\* What GetChatHistory has answered remains the beginning of the list
\* (chat.go:66-76).
HistoryIsPrefix ==
  \A p \in Peers :
    /\ Len(history[p]) <= Len(messages[p])
    /\ \A i \in 1..Len(history[p]) : history[p][i] = messages[p][i]

\* A message that is marked as relayed is to a peer whose link has been
\* switched: not having heard of the peer, or having only begun to probe it,
\* marks nothing as relayed (app.go:260-265).
RelayWasSwitched ==
  \A m \in Messages : label[m] = "relay" => link[target[m]].switches > 0

\* The chat implements the log of MessageLog.tla.
ImplementsLog == ML!MLSpec
=============================================================================
