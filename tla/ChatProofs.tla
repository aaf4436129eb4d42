------------------------------ MODULE ChatProofs ------------------------------
(***************************************************************************)
(* Proofs about Chat.tla, for any messages, peers and number of switches.  *)
(***************************************************************************)
EXTENDS Chat, TLAPS

\* A call began with no more switches than its link has made by now, and a
\* label that was right may have become stale only by one more.
SeenInv ==
  /\ \A m \in Messages : stage[m] # "idle" => seen[m] <= link[target[m]].switches
  /\ StaleOnlyAfterSwitch

\* The messages a call came after are answered for good.
BeforeInv == \A m \in Messages : \A b \in before[m] : stage[b] = "answered"

ListInv == StoredOnce /\ BeforeInv /\ OrderKept /\ HistoryIsPrefix

IInv == TypeOK /\ SeenInv /\ ListInv

-----------------------------------------------------------------------------
LEMMA LabelType == \A mode : Label(mode) \in {"direct", "relay"}
BY DEF Label

\* A peer without an entry is labelled as one that is being probed.
LEMMA LabelOfMode == \A p \in Peers : LabelOf(p) = Label(link[p].mode)
BY DEF LabelOf, Label

\* A step of the breaker keeps the type of the links.
LEMMA LinkType ==
  ASSUME NEW p \in Peers, TypeOK, Evaluate(p) \/ Punch(p) \/ FallBack(p) \/ GoDirect(p)
  PROVE  link' \in [Peers -> LinkStatus] /\ \A q \in Peers \ {p} : link'[q] = link[q]
<1>1. link \in [Peers -> LinkStatus]
  BY DEF TypeOK
<1>2. CASE Evaluate(p)
  <2>1. PICK mode \in LinkMode : link' = [link EXCEPT ![p].mode = mode]
    BY <1>1, <1>2 DEF Evaluate, LinkStatus, LinkMode
  <2>2. QED
    BY <1>1, <2>1 DEF LinkStatus, LinkMode
<1>3. CASE Punch(p)
  BY <1>1, <1>3 DEF Punch
<1>4. ASSUME NEW mode \in {"DERP_RELAY", "DIRECT_P2P"}, Switch(p, mode)
      PROVE  link' \in [Peers -> LinkStatus] /\ \A q \in Peers \ {p} : link'[q] = link[q]
  <2>1. link' = [link EXCEPT ![p] = [mode |-> mode, switches |-> link[p].switches + 1]]
    BY <1>4 DEF Switch
  <2>2. [mode |-> mode, switches |-> link[p].switches + 1] \in LinkStatus
    BY <1>1 DEF LinkStatus, LinkMode
  <2>3. QED
    BY <1>1, <2>1, <2>2
<1>5. QED
  BY <1>2, <1>3, <1>4 DEF FallBack, GoDirect

\* A list with a message appended.
LEMMA Appended ==
  ASSUME NEW m \in Messages, TypeOK, AppendMessage(m)
  PROVE  /\ target[m] \in Peers
         /\ messages' \in [Peers -> Seq(Messages)]
         /\ \A p \in Peers \ {target[m]} : messages'[p] = messages[p]
         /\ Len(messages'[target[m]]) = Len(messages[target[m]]) + 1
         /\ messages'[target[m]][Len(messages[target[m]]) + 1] = m
         /\ \A i \in 1..Len(messages[target[m]]) :
              messages'[target[m]][i] = messages[target[m]][i]
<1>1. target[m] \in Peers
  BY DEF AppendMessage, TypeOK
<1>2. messages' = [messages EXCEPT ![target[m]] = Append(messages[target[m]], m)]
  BY DEF AppendMessage, Added
<1>3. messages \in [Peers -> Seq(Messages)]
  BY DEF TypeOK
<1>4. messages'[target[m]] = Append(messages[target[m]], m)
  BY <1>1, <1>2, <1>3
<1>5. messages' \in [Peers -> Seq(Messages)]
  BY <1>1, <1>2, <1>3
<1>6. QED
  BY <1>1, <1>2, <1>3, <1>4, <1>5

-----------------------------------------------------------------------------
LEMMA InitHolds == Init => IInv
<1>1. SUFFICES ASSUME Init PROVE IInv
  OBVIOUS
<1>2. TypeOK
  BY <1>1 DEF Init, LSInit, TypeOK, LinkStatus, LinkMode, Stages
<1>3. SeenInv
  BY <1>1 DEF Init, SeenInv, StaleOnlyAfterSwitch, Labelled, Kept
<1>4. \A p \in Peers : messages[p] = <<>> /\ history[p] = <<>> /\ Len(messages[p]) = 0
  BY <1>1 DEF Init
<1>5. ListInv
  BY <1>1, <1>4 DEF Init, ListInv, StoredOnce, BeforeInv, OrderKept, HistoryIsPrefix, Kept
<1>6. QED
  BY <1>2, <1>3, <1>5 DEF IInv

LEMMA TypeStep == TypeOK /\ [Next]_vars => TypeOK'
<1>1. SUFFICES ASSUME TypeOK, [Next]_vars PROVE TypeOK'
  OBVIOUS
<1> USE DEF TypeOK, Stages, Goes
<1>2. ASSUME NEW m \in Messages, NEW p \in Peers, Call(m, p) PROVE TypeOK'
  <2>1. link[p].switches \in Nat
    BY <1>1 DEF LinkStatus
  <2>2. QED
    BY <1>1, <1>2, <2>1 DEF Call, lsVars
<1>3. ASSUME NEW m \in Messages, GetStatus(m) PROVE TypeOK'
  <2>1. LabelOf(target[m]) \in {"direct", "relay"}
    BY LabelType DEF LabelOf
  <2>2. QED
    BY <1>1, <1>3, <2>1 DEF GetStatus, lsVars
<1>4. ASSUME NEW m \in Messages, AppendMessage(m) PROVE TypeOK'
  <2>1. messages' \in [Peers -> Seq(Messages)]
    BY <1>1, <1>4, Appended
  <2>2. QED
    BY <1>1, <1>4, <2>1 DEF AppendMessage, lsVars
<1>5. ASSUME NEW m \in Messages, Answer(m) PROVE TypeOK'
  BY <1>1, <1>5 DEF Answer, MayAnswer, lsVars
<1>6. ASSUME NEW p \in Peers, GetMessages(p) PROVE TypeOK'
  BY <1>1, <1>6 DEF GetMessages, CopyOf, lsVars
<1>7. ASSUME NEW p \in Peers, LinkStep(p) PROVE TypeOK'
  <2>1. link' \in [Peers -> LinkStatus]
    BY <1>1, <1>7, LinkType DEF LinkStep
  <2>2. QED
    BY <1>1, <1>7, <2>1 DEF LinkStep, chatVars
<1>8. CASE UNCHANGED vars
  BY <1>1, <1>8 DEF vars, lsVars, chatVars
<1>9. QED
  BY <1>1, <1>2, <1>3, <1>4, <1>5, <1>6, <1>7, <1>8 DEF Next, Send

-----------------------------------------------------------------------------
\* A step of the breaker takes no switch back, and moves a link to or from the
\* relay only by one more.
LEMMA SwitchesGrow ==
  ASSUME TypeOK, NEW p \in Peers, Evaluate(p) \/ Punch(p) \/ FallBack(p) \/ GoDirect(p)
  PROVE  \A q \in Peers :
           /\ link'[q].switches >= link[q].switches
           /\ (link'[q].mode = "DERP_RELAY") # (link[q].mode = "DERP_RELAY")
                => link'[q].switches > link[q].switches
<1>1. \A q \in Peers : link[q] \in LinkStatus
  BY DEF TypeOK
<1>2. CASE Evaluate(p)
  <2>1. link' = [link EXCEPT ![p].mode = IF link[p].mode = "ABSENT" THEN "PROBING" ELSE link[p].mode]
    BY <1>2 DEF Evaluate
  <2>2. /\ link'[p].switches = link[p].switches
        /\ link'[p].mode = "DERP_RELAY" <=> link[p].mode = "DERP_RELAY"
    BY <2>1 DEF TypeOK, LinkStatus
  <2>3. \A q \in Peers \ {p} : link'[q] = link[q]
    BY <2>1 DEF TypeOK
  <2>4. QED
    BY <1>1, <2>2, <2>3 DEF LinkStatus
<1>3. CASE Punch(p)
  BY <1>1, <1>3 DEF Punch, LinkStatus
<1>4. ASSUME NEW mode \in {"DERP_RELAY", "DIRECT_P2P"}, Switch(p, mode)
      PROVE  \A q \in Peers :
               /\ link'[q].switches >= link[q].switches
               /\ (link'[q].mode = "DERP_RELAY") # (link[q].mode = "DERP_RELAY")
                    => link'[q].switches > link[q].switches
  <2>1. link' = [link EXCEPT ![p] = [mode |-> mode, switches |-> link[p].switches + 1]]
    BY <1>4 DEF Switch
  <2>2. link'[p].switches = link[p].switches + 1 /\ \A q \in Peers \ {p} : link'[q] = link[q]
    BY <2>1 DEF TypeOK
  <2>3. QED
    BY <1>1, <2>2 DEF LinkStatus
<1>5. QED
  BY <1>2, <1>3, <1>4 DEF FallBack, GoDirect

LEMMA SeenStep == TypeOK /\ SeenInv /\ [Next]_vars => SeenInv'
<1>1. SUFFICES ASSUME TypeOK, SeenInv, [Next]_vars PROVE SeenInv'
  OBVIOUS
<1> USE DEF SeenInv, StaleOnlyAfterSwitch, Labelled, Kept
<1>2. ASSUME NEW m \in Messages, NEW p \in Peers, Call(m, p) PROVE SeenInv'
  <2>1. /\ stage[m] = "idle" /\ stage' = [stage EXCEPT ![m] = "called"]
        /\ target' = [target EXCEPT ![m] = p]
        /\ seen' = [seen EXCEPT ![m] = link[p].switches]
        /\ UNCHANGED <<link, label>>
    BY <1>2 DEF Call, Goes, lsVars
  <2>2. link[p].switches \in Nat
    BY <1>1 DEF TypeOK, LinkStatus
  <2>3. /\ stage'[m] = "called" /\ target'[m] = p /\ seen'[m] = link[p].switches
        /\ \A d \in Messages \ {m} :
             stage'[d] = stage[d] /\ target'[d] = target[d] /\ seen'[d] = seen[d]
    BY <1>1, <2>1 DEF TypeOK
  <2>4. QED
    BY <1>1, <2>1, <2>2, <2>3
<1>3. ASSUME NEW m \in Messages, GetStatus(m) PROVE SeenInv'
  <2>1. /\ stage[m] = "called" /\ stage' = [stage EXCEPT ![m] = "labelled"]
        /\ label' = [label EXCEPT ![m] = LabelOf(target[m])]
        /\ UNCHANGED <<link, target, seen>>
    BY <1>3 DEF GetStatus, Goes, lsVars
  <2>2. label'[m] = Label(link[target[m]].mode)
    BY <1>1, <2>1, LabelOfMode DEF TypeOK
  <2>3. label'[m] = "relay" <=> link[target[m]].mode = "DERP_RELAY"
    BY <2>2 DEF Label
  <2>4. \A d \in Messages \ {m} : stage'[d] = stage[d] /\ label'[d] = label[d]
    BY <1>1, <2>1 DEF TypeOK
  <2>5. QED
    BY <1>1, <2>1, <2>3, <2>4
<1>4. ASSUME NEW m \in Messages, AppendMessage(m) \/ Answer(m) PROVE SeenInv'
  <2>1. /\ stage[m] \in {"labelled", "stored"}
        /\ \E to \in {"stored", "answered"} : Goes(m, to)
        /\ link' = link /\ target' = target /\ label' = label /\ seen' = seen
    BY <1>4 DEF AppendMessage, Answer, MayAnswer, lsVars
  <2>2. ASSUME NEW d \in Messages
        PROVE  /\ stage'[d] # "idle" => stage[d] # "idle"
               /\ Labelled(d)' => Labelled(d)
    BY <1>1, <2>1 DEF Goes, TypeOK
  <2>3. \A d \in Messages : stage'[d] # "idle" => seen'[d] <= link'[target'[d]].switches
    BY <1>1, <2>1, <2>2
  <2>4. ASSUME NEW d \in Messages, Labelled(d)',
               (label'[d] = "relay") # (link'[target'[d]].mode = "DERP_RELAY")
        PROVE  seen'[d] < link'[target'[d]].switches
    <3>1. Labelled(d)
      BY <2>2, <2>4
    <3>2. QED
      BY <1>1, <2>1, <2>4, <3>1
  <2>5. QED
    BY <2>3, <2>4
<1>5. ASSUME NEW p \in Peers, LinkStep(p) PROVE SeenInv'
  <2>1. UNCHANGED <<stage, target, label, seen>>
    BY <1>5 DEF LinkStep, chatVars
  <2>2. \A q \in Peers :
          /\ link'[q].switches >= link[q].switches
          /\ (link'[q].mode = "DERP_RELAY") # (link[q].mode = "DERP_RELAY")
               => link'[q].switches > link[q].switches
    BY <1>1, <1>5, SwitchesGrow DEF LinkStep
  <2>3. \A q \in Peers : link[q].switches \in Nat /\ link'[q].switches \in Nat
    BY <1>1, <1>5, LinkType DEF LinkStep, TypeOK, LinkStatus
  <2>4. ASSUME NEW m \in Messages, stage[m] # "idle"
        PROVE  /\ seen[m] <= link'[target[m]].switches
               /\ Labelled(m) /\ (label[m] = "relay") # (link'[target[m]].mode = "DERP_RELAY")
                    => seen[m] < link'[target[m]].switches
    <3>1. target[m] \in Peers /\ seen[m] \in Nat /\ seen[m] <= link[target[m]].switches
      BY <1>1, <2>4 DEF TypeOK
    <3>2. Labelled(m) /\ (label[m] = "relay") # (link[target[m]].mode = "DERP_RELAY")
            => seen[m] < link[target[m]].switches
      BY <1>1
    <3>3. QED
      BY <2>2, <2>3, <3>1, <3>2
  <2>5. QED
    BY <2>1, <2>4
<1>6. CASE (\E p \in Peers : GetMessages(p)) \/ UNCHANGED vars
  BY <1>1, <1>6 DEF GetMessages, vars, lsVars, chatVars
<1>7. QED
  BY <1>1, <1>2, <1>3, <1>4, <1>5, <1>6 DEF Next, Send

-----------------------------------------------------------------------------
\* A message in the list of a peer is kept, and is to that peer.
LEMMA Listed ==
  ASSUME TypeOK, StoredOnce, NEW p \in Peers, NEW j \in 1..Len(messages[p])
  PROVE  messages[p][j] \in Messages /\ Kept(messages[p][j]) /\ target[messages[p][j]] = p
<1>1. messages[p][j] \in Messages
  BY DEF TypeOK
<1>2. QED
  BY <1>1 DEF StoredOnce

\* Steps that move calls without storing anything.
LEMMA QuietStep ==
  ASSUME TypeOK, ListInv, UNCHANGED messages,
         \A m \in Messages :
           /\ Kept(m)' <=> Kept(m)
           /\ Kept(m) => target'[m] = target[m] /\ before'[m] = before[m],
         BeforeInv', HistoryIsPrefix'
  PROVE  ListInv'
<1>1. StoredOnce'
  <2>1. SUFFICES ASSUME NEW m \in Messages, NEW p \in Peers
                 PROVE  IF Kept(m)' /\ target'[m] = p
                        THEN \E i \in 1..Len(messages'[p]) :
                               \A j \in 1..Len(messages'[p]) : messages'[p][j] = m <=> j = i
                        ELSE \A j \in 1..Len(messages'[p]) : messages'[p][j] # m
    BY DEF StoredOnce
  <2>2. Kept(m)' /\ target'[m] = p <=> Kept(m) /\ target[m] = p
    OBVIOUS
  <2>3. QED
    BY <2>2 DEF ListInv, StoredOnce
<1>2. OrderKept'
  <2>1. SUFFICES ASSUME NEW p \in Peers, NEW j \in 1..Len(messages[p]),
                        NEW b \in before'[messages[p][j]], target'[b] = p
                 PROVE  \E i \in 1..(j - 1) : messages[p][i] = b
    BY DEF OrderKept
  <2>2. messages[p][j] \in Messages /\ Kept(messages[p][j])
    BY Listed DEF ListInv
  <2>3. b \in before[messages[p][j]] /\ b \in Messages
    BY <2>2 DEF TypeOK
  <2>4. stage[b] = "answered"
    BY <2>2, <2>3 DEF ListInv, BeforeInv
  <2>5. target[b] = p
    BY <2>1, <2>3, <2>4 DEF Kept
  <2>6. QED
    BY <2>3, <2>5 DEF ListInv, OrderKept
<1>3. QED
  BY <1>1, <1>2 DEF ListInv

LEMMA AppendStep ==
  ASSUME TypeOK, ListInv, NEW m \in Messages, AppendMessage(m)
  PROVE  ListInv'
<1> DEFINE p == target[m]
           n == Len(messages[p])
<1>1. p \in Peers /\ n \in Nat
  <2>1. target[m] \in Peers
    BY Appended
  <2>2. messages[target[m]] \in Seq(Messages)
    BY <2>1 DEF TypeOK
  <2>3. QED
    BY <2>1, <2>2
<1>2. /\ \A q \in Peers \ {p} : messages'[q] = messages[q]
      /\ Len(messages'[p]) = n + 1 /\ messages'[p][n + 1] = m
      /\ \A i \in 1..n : messages'[p][i] = messages[p][i]
  BY Appended
<1>3. /\ stage[m] = "labelled" /\ stage'[m] = "stored"
      /\ \A d \in Messages \ {m} : stage'[d] = stage[d]
      /\ UNCHANGED <<target, before, history>>
  BY DEF AppendMessage, Goes, TypeOK
<1>4. ~Kept(m) /\ Kept(m)' /\ \A d \in Messages \ {m} : Kept(d)' <=> Kept(d)
  BY <1>3 DEF Kept
<1>5. \A i \in 1..n : messages[p][i] # m
  BY <1>1, <1>4 DEF ListInv, StoredOnce
<1> HIDE DEF p, n
<1>6. StoredOnce'
  <2>1. SUFFICES ASSUME NEW d \in Messages, NEW q \in Peers
                 PROVE  IF Kept(d)' /\ target'[d] = q
                        THEN \E i \in 1..Len(messages'[q]) :
                               \A j \in 1..Len(messages'[q]) : messages'[q][j] = d <=> j = i
                        ELSE \A j \in 1..Len(messages'[q]) : messages'[q][j] # d
    BY DEF StoredOnce
  <2>2. IF Kept(d) /\ target[d] = q
        THEN \E i \in 1..Len(messages[q]) :
               \A j \in 1..Len(messages[q]) : messages[q][j] = d <=> j = i
        ELSE \A j \in 1..Len(messages[q]) : messages[q][j] # d
    BY DEF ListInv, StoredOnce
  <2>3. CASE q # p
    <3>1. messages'[q] = messages[q]
      BY <1>2, <2>3
    <3>2. Kept(d)' /\ target'[d] = q <=> Kept(d) /\ target[d] = q
      BY <1>3, <1>4, <2>3 DEF p
    <3>3. QED
      BY <2>2, <3>1, <3>2
  <2>4. CASE q = p /\ d = m
    <3>1. \A j \in 1..(n + 1) : messages'[p][j] = m <=> j = n + 1
      BY <1>1, <1>2, <1>5
    <3>2. Kept(d)' /\ target'[d] = q
      BY <1>3, <1>4, <2>4 DEF p
    <3>3. QED
      BY <1>1, <1>2, <2>4, <3>1, <3>2
  <2>5. CASE q = p /\ d # m
    <3>1. Kept(d)' /\ target'[d] = q <=> Kept(d) /\ target[d] = q
      BY <1>3, <1>4, <2>5
    <3>2. /\ Len(messages'[q]) = n + 1 /\ messages'[q][n + 1] # d
          /\ \A j \in 1..n : messages'[q][j] = messages[q][j]
      BY <1>2, <2>5
    <3>3. Len(messages[q]) = n
      BY <2>5 DEF n
    <3>4. CASE Kept(d) /\ target[d] = q
      <4>1. PICK i \in 1..n : \A j \in 1..n : messages[q][j] = d <=> j = i
        BY <2>2, <3>3, <3>4
      <4>2. \A j \in 1..(n + 1) : messages'[q][j] = d <=> j = i
        BY <1>1, <3>2, <4>1
      <4>3. i \in 1..Len(messages'[q])
        BY <1>1, <3>2, <4>1
      <4>4. \A j \in 1..Len(messages'[q]) : messages'[q][j] = d <=> j = i
        BY <3>2, <4>2
      <4>5. QED
        BY <3>1, <3>4, <4>3, <4>4
    <3>5. CASE ~(Kept(d) /\ target[d] = q)
      <4>1. \A j \in 1..n : messages[q][j] # d
        BY <2>2, <3>3, <3>5
      <4>2. \A j \in 1..(n + 1) : messages'[q][j] # d
        BY <1>1, <3>2, <4>1
      <4>3. QED
        BY <3>1, <3>2, <3>5, <4>2
    <3>6. QED
      BY <3>4, <3>5
  <2>6. QED
    BY <2>3, <2>4, <2>5
<1>7. BeforeInv'
  BY <1>3 DEF TypeOK, ListInv, BeforeInv
<1>8. OrderKept'
  <2>1. SUFFICES ASSUME NEW q \in Peers, NEW j \in 1..Len(messages'[q]),
                        NEW b \in before[messages'[q][j]], target[b] = q
                 PROVE  \E i \in 1..(j - 1) : messages'[q][i] = b
    BY <1>3 DEF OrderKept
  <2>2. CASE q # p
    BY <1>2, <2>1, <2>2 DEF ListInv, OrderKept
  <2>3. CASE q = p /\ j = n + 1
    <3>1. b \in Messages /\ Kept(b)
      BY <1>2, <2>1, <2>3 DEF TypeOK, ListInv, BeforeInv, Kept
    <3>2. PICK i \in 1..n : messages[p][i] = b
      BY <1>1, <2>1, <2>3, <3>1 DEF ListInv, StoredOnce, n
    <3>3. i \in 1..(j - 1) /\ messages'[q][i] = b
      BY <1>1, <1>2, <2>3, <3>2
    <3>4. QED
      BY <3>3
  <2>4. CASE q = p /\ j # n + 1
    <3>1. j \in 1..n /\ messages'[q][j] = messages[p][j]
      BY <1>1, <1>2, <2>1, <2>4
    <3>2. PICK i \in 1..(j - 1) : messages[p][i] = b
      BY <1>1, <2>1, <2>4, <3>1 DEF ListInv, OrderKept, n
    <3>3. messages'[q][i] = b
      BY <1>1, <1>2, <2>4, <3>1, <3>2
    <3>4. QED
      BY <3>3
  <2>5. QED
    BY <2>2, <2>3, <2>4
<1>9. HistoryIsPrefix'
  <2>1. SUFFICES ASSUME NEW q \in Peers
                 PROVE  /\ Len(history[q]) <= Len(messages'[q])
                        /\ \A i \in 1..Len(history[q]) : history[q][i] = messages'[q][i]
    BY <1>3 DEF HistoryIsPrefix
  <2>2. /\ Len(history[q]) <= Len(messages[q]) /\ Len(history[q]) \in Nat
        /\ \A i \in 1..Len(history[q]) : history[q][i] = messages[q][i]
    BY DEF ListInv, HistoryIsPrefix, TypeOK
  <2>3. CASE q # p
    BY <1>2, <2>2, <2>3
  <2>4. CASE q = p
    <3>1. Len(messages[q]) = n
      BY <2>4 DEF n
    <3>2. QED
      BY <1>1, <1>2, <2>2, <2>4, <3>1
  <2>5. QED
    BY <2>3, <2>4
<1>10. QED
  BY <1>6, <1>7, <1>8, <1>9 DEF ListInv

LEMMA ListStep == TypeOK /\ ListInv /\ [Next]_vars => ListInv'
<1>1. SUFFICES ASSUME TypeOK, ListInv, [Next]_vars PROVE ListInv'
  OBVIOUS
<1>2. ASSUME UNCHANGED <<messages, history>> PROVE HistoryIsPrefix'
  BY <1>1, <1>2 DEF ListInv, HistoryIsPrefix
<1>3. ASSUME NEW m \in Messages, NEW p \in Peers, Call(m, p) PROVE ListInv'
  <2>1. /\ stage[m] = "idle" /\ stage' = [stage EXCEPT ![m] = "called"]
        /\ target' = [target EXCEPT ![m] = p]
        /\ before' = [before EXCEPT ![m] = {b \in Messages : stage[b] = "answered"}]
        /\ UNCHANGED <<messages, history>>
    BY <1>3 DEF Call, Goes
  <2>2. BeforeInv'
    BY <1>1, <2>1 DEF TypeOK, ListInv, BeforeInv
  <2>3. \A d \in Messages : /\ Kept(d)' <=> Kept(d)
                            /\ Kept(d) => target'[d] = target[d] /\ before'[d] = before[d]
    BY <1>1, <2>1 DEF TypeOK, Kept
  <2>4. QED
    BY <1>1, <1>2, <2>1, <2>2, <2>3, QuietStep
<1>4. ASSUME NEW m \in Messages, GetStatus(m) \/ Answer(m) PROVE ListInv'
  <2>1. UNCHANGED <<target, before, messages, history>>
    BY <1>4 DEF GetStatus, Answer
  <2>2. \E to \in Stages : /\ Goes(m, to) /\ stage[m] # "answered"
                           /\ to \in {"stored", "answered"} <=> stage[m] = "stored"
    BY <1>4 DEF GetStatus, Answer, MayAnswer, Stages
  <2>3. \A d \in Messages : Kept(d)' <=> Kept(d)
    BY <1>1, <2>2 DEF Goes, TypeOK, Kept
  <2>4. BeforeInv'
    BY <1>1, <2>1, <2>2 DEF Goes, TypeOK, ListInv, BeforeInv
  <2>5. QED
    BY <1>1, <1>2, <2>1, <2>3, <2>4, QuietStep
<1>5. ASSUME NEW m \in Messages, AppendMessage(m) PROVE ListInv'
  BY <1>1, <1>5, AppendStep
<1>6. ASSUME NEW p \in Peers, GetMessages(p) PROVE ListInv'
  <2>1. UNCHANGED <<stage, target, before, messages>> /\ history' = [history EXCEPT ![p] = messages[p]]
    BY <1>6 DEF GetMessages, CopyOf
  <2>2. HistoryIsPrefix'
    BY <1>1, <2>1 DEF TypeOK, ListInv, HistoryIsPrefix
  <2>3. QED
    BY <1>1, <2>1, <2>2, QuietStep DEF Kept, ListInv, BeforeInv
<1>7. CASE (\E p \in Peers : LinkStep(p)) \/ UNCHANGED vars
  <2>1. UNCHANGED <<stage, target, before, messages, history>>
    BY <1>7 DEF LinkStep, vars, chatVars
  <2>2. QED
    BY <1>1, <1>2, <2>1, QuietStep DEF Kept, ListInv, BeforeInv
<1>8. QED
  BY <1>1, <1>3, <1>4, <1>5, <1>6, <1>7 DEF Next, Send

LEMMA Invariance == Spec => []IInv
<1>1. IInv /\ [Next]_vars => IInv'
  BY TypeStep, SeenStep, ListStep DEF IInv
<1>2. QED
  BY <1>1, InitHolds, PTL DEF Spec

\* The variables have their types (chat.go:43-56).
THEOREM TypeCorrect == Spec => []TypeOK
<1>1. IInv => TypeOK
  BY DEF IInv
<1>2. QED
  BY <1>1, Invariance, PTL

\* A label contradicts the link only after a switch that was counted since the
\* call began, however late the message is stored (app.go:258-281).
THEOREM StaleOnlyAfterSwitchHolds == Spec => []StaleOnlyAfterSwitch
<1>1. IInv => StaleOnlyAfterSwitch
  BY DEF IInv, SeenInv
<1>2. QED
  BY <1>1, Invariance, PTL

\* A message is stored once, under its peer, before its call is answered
\* (chat.go:59-63).
THEOREM StoredOnceHolds == Spec => []StoredOnce
<1>1. IInv => StoredOnce
  BY DEF IInv, ListInv
<1>2. QED
  BY <1>1, Invariance, PTL

\* The lists keep the order of calls that do not overlap (chat.go:59-63).
THEOREM OrderKeptHolds == Spec => []OrderKept
<1>1. IInv => OrderKept
  BY DEF IInv, ListInv
<1>2. QED
  BY <1>1, Invariance, PTL

\* A history that was answered remains the beginning of the list
\* (chat.go:66-76).
THEOREM HistoryIsPrefixHolds == Spec => []HistoryIsPrefix
<1>1. IInv => HistoryIsPrefix
  BY DEF IInv, ListInv
<1>2. QED
  BY <1>1, Invariance, PTL

-----------------------------------------------------------------------------
\* A relayed link has been switched, and a call without a label has not looked
\* yet.
RelayInv ==
  /\ \A p \in Peers : link[p].mode = "DERP_RELAY" => link[p].switches > 0
  /\ \A m \in Messages : stage[m] \in {"idle", "called"} => label[m] = "none"
  /\ RelayWasSwitched

LEMMA RelayStep == TypeOK /\ RelayInv /\ [Next]_vars => RelayInv'
<1>1. SUFFICES ASSUME TypeOK, RelayInv, [Next]_vars PROVE RelayInv'
  OBVIOUS
<1> USE DEF RelayInv, RelayWasSwitched
<1>2. ASSUME NEW m \in Messages, NEW p \in Peers, Call(m, p) PROVE RelayInv'
  BY <1>1, <1>2 DEF Call, Goes, TypeOK, lsVars
<1>3. ASSUME NEW m \in Messages, GetStatus(m) PROVE RelayInv'
  <2>1. /\ stage[m] = "called" /\ stage' = [stage EXCEPT ![m] = "labelled"]
        /\ label' = [label EXCEPT ![m] = LabelOf(target[m])]
        /\ UNCHANGED <<link, target>>
    BY <1>3 DEF GetStatus, Goes, lsVars
  <2>2. target[m] \in Peers
    BY <1>1, <2>1 DEF TypeOK
  <2>3. LabelOf(target[m]) = "relay" => link[target[m]].switches > 0
    BY <1>1, <2>2 DEF LabelOf, Label
  <2>4. QED
    BY <1>1, <2>1, <2>3 DEF TypeOK
<1>4. ASSUME NEW m \in Messages, AppendMessage(m) \/ Answer(m) PROVE RelayInv'
  <2>1. PICK to \in {"stored", "answered"} : Goes(m, to)
    BY <1>4 DEF AppendMessage, Answer
  <2>2. UNCHANGED <<link, label, target>>
    BY <1>4 DEF AppendMessage, Answer, lsVars
  <2>3. QED
    BY <1>1, <2>1, <2>2 DEF Goes, TypeOK
<1>5. ASSUME NEW p \in Peers, LinkStep(p) PROVE RelayInv'
  <2>1. \A q \in Peers :
          /\ link'[q].switches >= link[q].switches
          /\ (link'[q].mode = "DERP_RELAY") # (link[q].mode = "DERP_RELAY")
               => link'[q].switches > link[q].switches
    BY <1>1, <1>5, SwitchesGrow DEF LinkStep
  <2>2. \A q \in Peers : link[q].switches \in Nat /\ link'[q].switches \in Nat
    BY <1>1, <1>5, LinkType DEF LinkStep, TypeOK, LinkStatus
  <2>3. UNCHANGED <<stage, label, target>>
    BY <1>5 DEF LinkStep, chatVars
  <2>4. ASSUME NEW m \in Messages, label[m] = "relay" PROVE link'[target[m]].switches > 0
    <3>1. target[m] \in Peers /\ link[target[m]].switches > 0
      BY <1>1, <2>4 DEF TypeOK
    <3>2. QED
      BY <2>1, <2>2, <3>1
  <2>5. ASSUME NEW q \in Peers, link'[q].mode = "DERP_RELAY" PROVE link'[q].switches > 0
    BY <1>1, <2>1, <2>2, <2>5
  <2>6. QED
    BY <1>1, <2>3, <2>4, <2>5
<1>6. CASE (\E p \in Peers : GetMessages(p)) \/ UNCHANGED vars
  BY <1>1, <1>6 DEF GetMessages, vars, lsVars, chatVars
<1>7. QED
  BY <1>1, <1>2, <1>3, <1>4, <1>5, <1>6 DEF Next, Send

\* A message that is marked as relayed is to a peer whose link was switched
\* (app.go:261-265).
THEOREM RelayedAfterSwitch == Spec => []RelayWasSwitched
<1>1. Init => RelayInv
  BY DEF Init, LSInit, RelayInv, RelayWasSwitched
<1>2. RelayInv => RelayWasSwitched
  BY DEF RelayInv
<1>3. QED
  BY <1>1, <1>2, RelayStep, TypeCorrect, PTL DEF Spec

-----------------------------------------------------------------------------
\* The refinement.

\* A call that moves changes its own entry of CallView, and no other one.
LEMMA ViewMoves ==
  ASSUME TypeOK, NEW m \in Messages, NEW to \in Stages, Goes(m, to),
         \A d \in Messages \ {m} : target'[d] = target[d]
  PROVE  CallView' = [CallView EXCEPT ![m] = [phase |-> Phase[to], peer |-> target'[m]]]
<1>1. /\ stage'[m] = to
      /\ \A d \in Messages \ {m} : stage'[d] = stage[d]
  BY DEF TypeOK, Goes
<1>2. CallView' = [d \in Messages |-> [phase |-> Phase[stage'[d]], peer |-> target'[d]]]
  BY DEF CallView, Phase
<1>3. QED
  BY <1>1, <1>2 DEF CallView

LEMMA ViewEntry ==
  ASSUME NEW m \in Messages
  PROVE  CallView[m] = [phase |-> Phase[stage[m]], peer |-> target[m]]
BY DEF CallView

LEMMA LogStep == TypeOK /\ [Next]_vars => [ML!MLNext]_(ML!mlVars)
<1>1. SUFFICES ASSUME TypeOK, [Next]_vars PROVE [ML!MLNext]_(ML!mlVars)
  OBVIOUS
<1>2. /\ Phase["idle"] = "new" /\ Phase["called"] = "asked"
      /\ Phase["labelled"] = "asked" /\ Phase["stored"] = "put"
      /\ Phase["answered"] = "answered"
  BY DEF Phase
<1>3. ASSUME NEW m \in Messages, NEW p \in Peers, Call(m, p) PROVE ML!Ask(m, p)
  <2>1. /\ stage[m] = "idle" /\ Goes(m, "called") /\ UNCHANGED messages
        /\ target' = [target EXCEPT ![m] = p] /\ target \in [Messages -> Peers \cup {None}]
    BY <1>1, <1>3 DEF Call, TypeOK
  <2>2. target'[m] = p /\ \A d \in Messages \ {m} : target'[d] = target[d]
    BY <2>1
  <2>3. CallView' = [CallView EXCEPT ![m] = [phase |-> "asked", peer |-> p]]
    BY <1>1, <1>2, <2>1, <2>2, ViewMoves DEF Stages
  <2>4. CallView[m].phase = "new"
    <3>1. CallView[m] = [phase |-> Phase[stage[m]], peer |-> target[m]]
      BY ViewEntry
    <3>2. Phase[stage[m]] = "new"
      BY <1>2, <2>1
    <3>3. QED
      BY <3>1, <3>2
  <2>5. QED
    BY <2>1, <2>3, <2>4 DEF ML!Ask
<1>4. ASSUME NEW m \in Messages, GetStatus(m) PROVE UNCHANGED ML!mlVars
  <2>1. stage[m] = "called" /\ Goes(m, "labelled") /\ UNCHANGED <<messages, target>>
    BY <1>4 DEF GetStatus
  <2>2. CallView' = [CallView EXCEPT ![m] = [phase |-> "asked", peer |-> target[m]]]
    BY <1>1, <1>2, <2>1, ViewMoves DEF Stages
  <2>3. CallView[m] = [phase |-> "asked", peer |-> target[m]]
    BY <1>2, <2>1, ViewEntry
  <2>4. CallView' = CallView
    BY <2>2, <2>3 DEF CallView
  <2>5. QED
    BY <2>1, <2>4 DEF ML!mlVars
<1>5. ASSUME NEW m \in Messages, AppendMessage(m) PROVE ML!Put(m)
  <2>1. /\ stage[m] = "labelled" /\ Goes(m, "stored") /\ UNCHANGED target
        /\ messages' = [messages EXCEPT ![target[m]] = Append(@, m)]
    BY <1>5 DEF AppendMessage, Added
  <2>2. CallView[m] = [phase |-> "asked", peer |-> target[m]]
    BY <1>2, <2>1, ViewEntry
  <2>3. CallView' = [CallView EXCEPT ![m] = [phase |-> "put", peer |-> target[m]]]
    BY <1>1, <1>2, <2>1, ViewMoves DEF Stages
  <2>4. CallView' = [CallView EXCEPT ![m].phase = "put"]
    BY <2>2, <2>3 DEF CallView
  <2>5. CallView[m].phase = "asked" /\ CallView[m].peer = target[m]
    BY <2>2
  <2>6. QED
    BY <2>1, <2>4, <2>5 DEF ML!Put
<1>6. ASSUME NEW m \in Messages, Answer(m) PROVE ML!Reply(m)
  <2>1. stage[m] = "stored" /\ Goes(m, "answered") /\ UNCHANGED <<target, messages>>
    BY <1>6 DEF Answer, MayAnswer
  <2>2. CallView[m] = [phase |-> "put", peer |-> target[m]]
    BY <1>2, <2>1, ViewEntry
  <2>3. CallView' = [CallView EXCEPT ![m] = [phase |-> "answered", peer |-> target[m]]]
    BY <1>1, <1>2, <2>1, ViewMoves DEF Stages
  <2>4. CallView' = [CallView EXCEPT ![m].phase = "answered"]
    BY <2>2, <2>3 DEF CallView
  <2>5. QED
    BY <2>1, <2>2, <2>4 DEF ML!Reply
<1>7. CASE (\E p \in Peers : GetMessages(p) \/ LinkStep(p)) \/ UNCHANGED vars
  <2>1. UNCHANGED <<stage, target, messages>>
    BY <1>7 DEF GetMessages, LinkStep, vars, chatVars
  <2>2. CallView' = CallView
    BY <2>1 DEF CallView, Phase
  <2>3. QED
    BY <2>1, <2>2 DEF ML!mlVars
<1>8. QED
  BY <1>1, <1>3, <1>4, <1>5, <1>6, <1>7 DEF Next, Send, ML!MLNext

\* The chat implements the log of MessageLog.tla: every message is added once,
\* between its call and its answer (app.go:256-283, chat.go:59-63).
THEOREM ImplementsMessageLog == Spec => ImplementsLog
<1>1. Init => ML!MLInit
  BY DEF Init, CallView, Phase, ML!MLInit
<1>2. QED
  BY <1>1, LogStep, TypeCorrect, PTL DEF Spec, ImplementsLog, ML!MLSpec
=============================================================================
