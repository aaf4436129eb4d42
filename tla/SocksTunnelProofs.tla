-------------------------- MODULE SocksTunnelProofs --------------------------
(***************************************************************************)
(* Safety of SocksTunnel.tla for any amount of data.                       *)
(***************************************************************************)
EXTENDS SocksTunnel, TLAPS

Over == {"ended", "counted", "exited"}

\* Which copier states go with which stage.
Stages ==
  /\ reply = "success" => stage \in {"tunnel", "closing", "returning", "done"}
  /\ reply # "success" =>
       copy = [d \in Directions |-> "none"] /\ stage # "tunnel" /\ errChan = 0
  /\ stage \in {"greeting", "request", "dialing"} => "client" \in open
  /\ stage = "replying" => open = Ends
  /\ stage = "tunnel" => open = Ends /\ reply = "success"

\* What was read was sent, and was written but for the chunk in hand.
InOrder ==
  \A d \in Directions :
    /\ taken[d] <= sent[d]
    /\ copy[d] \in {"none", "reading"} => written[d] = taken[d]
    /\ copy[d] = "holding" => written[d] + 1 = taken[d]
    /\ copy[d] \in Over => written[d] <= taken[d]
    /\ copy[d] \in {"none", "reading", "holding", "ended"} => bytes[d] = 0

\* While the tunnel stands and nobody has left, a direction ends only when it
\* is complete: the key of the induction.
EndsWhenComplete ==
  (stage = "tunnel" /\ NobodyLeft) => \A d \in Directions : copy[d] \in Over => Complete(d)

ErrIsFromExit ==
  (stage = "tunnel" /\ errChan > 0) => \E d \in Directions : copy[d] = "exited"

Inv == /\ TypeOK /\ Stages /\ InOrder /\ EndsWhenComplete /\ ErrIsFromExit
       /\ TornDownWhenComplete

LEMMA InitInv == Init => Inv
  BY MaxSentAssumption
  DEF Init, Inv, TypeOK, Stages, InOrder, EndsWhenComplete, ErrIsFromExit,
      TornDownWhenComplete, Over, Ends, Directions

LEMMA InvStep == Inv /\ [Next]_vars => Inv'
<1> SUFFICES ASSUME Inv, [Next]_vars PROVE Inv'
  OBVIOUS
<1> USE MaxSentAssumption
    DEF Inv, TypeOK, Stages, InOrder, EndsWhenComplete, ErrIsFromExit, TornDownWhenComplete,
        Over, NobodyLeft, Complete, Ends, Directions, From, To, netVars, copyVars
<1>1. CASE Handshake
  BY <1>1 DEF Handshake, Greet, ReadRequest, HandshakeFails, Refuse
<1>2. CASE Dial
  <2>1. CASE DialOk
    <3>1. open' = Ends
      BY <2>1 DEF DialOk
    <3> QED
      BY <2>1, <3>1 DEF DialOk
  <2>2. CASE DialFails
    BY <2>2 DEF DialFails
  <2> QED
    BY <1>2, <2>1, <2>2 DEF Dial
<1>3. CASE Reply
  <2>1. CASE ReplyOk
    BY <2>1 DEF ReplyOk
  <2>2. CASE ReplyFails
    BY <2>2 DEF ReplyFails
  <2> QED
    BY <1>3, <2>1, <2>2 DEF Reply
<1>4. CASE ReceiveErr
  BY <1>4 DEF ReceiveErr, FirstEnded
<1>5. CASE RunDefers \/ CloseClient
  BY <1>5 DEF RunDefers, CloseDest, CloseClient
<1>6. ASSUME NEW d \in Directions, Read(d) PROVE Inv'
  BY <1>6 DEF Read, SetCopy
<1>7. ASSUME NEW d \in Directions, ReadEnds(d) PROVE Inv'
  BY <1>7 DEF ReadEnds, SetCopy
<1>8. ASSUME NEW d \in Directions, Write(d) PROVE Inv'
  BY <1>8 DEF Write, SetCopy
<1>9. ASSUME NEW d \in Directions, WriteFails(d) PROVE Inv'
  BY <1>9 DEF WriteFails, SetCopy
<1>10. ASSUME NEW d \in Directions, AddBytes(d) PROVE Inv'
  BY <1>10 DEF AddBytes, Copied, SetCopy
<1>11. ASSUME NEW d \in Directions, SendErr(d) PROVE Inv'
  BY <1>11 DEF SendErr, Room, SetCopy
<1>12. ASSUME NEW d \in Directions, Send(d) PROVE Inv'
  BY <1>12 DEF Send
<1>13. ASSUME NEW e \in Ends, Finish(e) \/ Leave(e) \/ Stall(e) PROVE Inv'
  <2>1. CASE Finish(e)
    BY <2>1 DEF Finish
  <2>2. CASE Leave(e)
    BY <2>2 DEF Leave
  <2>3. CASE Stall(e)
    BY <2>3 DEF Stall
  <2> QED
    BY <1>13, <2>1, <2>2, <2>3
<1>14. CASE UNCHANGED vars
  BY <1>14 DEF vars
<1> QED
  BY <1>1, <1>2, <1>3, <1>4, <1>5, <1>6, <1>7, <1>8, <1>9, <1>10, <1>11, <1>12, <1>13, <1>14
  DEF Next, Finale, CopyStep

LEMMA Invariance == Spec => []Inv
  BY InitInv, InvStep, PTL DEF Spec

\* Every variable keeps its type; errChan never holds more than two values.
THEOREM TypeCorrect == Spec => []TypeOK
<1>1. Inv => TypeOK
  BY DEF Inv
<1> QED
  BY <1>1, Invariance, PTL

\* A tunnel nobody broke is torn down only after one direction is complete,
\* for any amount of data.
THEOREM TornDown == Spec => []TornDownWhenComplete
<1>1. Inv => TornDownWhenComplete
  BY DEF Inv
<1> QED
  BY <1>1, Invariance, PTL

-----------------------------------------------------------------------------
\* What the end of the handler leaves for its copying goroutines.

Sends(d) == IF copy[d] = "exited" THEN 1 ELSE 0

\* Every value in errChan is from a goroutine that has exited, and the handler
\* gives up its connections one after the other.
EndInv ==
  /\ errChan <= Sends("up") + Sends("down")
  /\ stage \in {"returning", "done"} => "dest" \notin open
  /\ stage = "done" => open = {}
  /\ CountedOnce

LEMMA EndStep == Inv /\ EndInv /\ [Next]_vars => EndInv'
<1> SUFFICES ASSUME Inv, EndInv, [Next]_vars PROVE EndInv'
  OBVIOUS
<1> USE MaxSentAssumption
    DEF Inv, TypeOK, Stages, InOrder, EndInv, CountedOnce, Sends, Ends, Directions,
        netVars, copyVars
<1>1. CASE Handshake
  BY <1>1 DEF Handshake, Greet, ReadRequest, HandshakeFails, Refuse
<1>2. CASE Dial
  BY <1>2 DEF Dial, DialOk, DialFails
<1>3. CASE Reply
  BY <1>3 DEF Reply, ReplyOk, ReplyFails
<1>4. CASE ReceiveErr
  BY <1>4 DEF ReceiveErr, FirstEnded
<1>5. CASE RunDefers \/ CloseClient
  <2>1. CASE RunDefers
    BY <2>1 DEF RunDefers, CloseDest
  <2>2. CASE CloseClient
    <3>1. open' = {}
      BY <2>2 DEF CloseClient
    <3> QED
      BY <2>2, <3>1 DEF CloseClient
  <2> QED
    BY <1>5, <2>1, <2>2
<1>6. ASSUME NEW d \in Directions, Read(d) \/ ReadEnds(d) \/ Write(d) \/ WriteFails(d)
      PROVE  EndInv'
  <2>1. /\ UNCHANGED <<stage, open, errChan, bytes>>
        /\ copy[d] \in {"reading", "holding"} /\ copy'[d] \in {"reading", "holding", "ended"}
        /\ \A e \in Directions : e # d => copy'[e] = copy[e] /\ written'[e] = written[e]
    <3>1. CASE Read(d) \/ ReadEnds(d)
      BY <3>1 DEF Read, ReadEnds, SetCopy
    <3>2. CASE Write(d) \/ WriteFails(d)
      BY <3>2 DEF Write, WriteFails, SetCopy
    <3> QED
      BY <1>6, <3>1, <3>2
  <2>2. Sends("up")' = Sends("up") /\ Sends("down")' = Sends("down")
    BY <2>1
  <2>3. CountedOnce'
    BY <2>1
  <2> QED
    BY <2>1, <2>2, <2>3
<1>7. ASSUME NEW d \in Directions, AddBytes(d) PROVE EndInv'
  BY <1>7 DEF AddBytes, Copied, SetCopy
<1>8. ASSUME NEW d \in Directions, SendErr(d) PROVE EndInv'
  BY <1>8 DEF SendErr, Room, SetCopy
<1>9. ASSUME NEW d \in Directions, Send(d) PROVE EndInv'
  BY <1>9 DEF Send
<1>10. ASSUME NEW e \in Ends, Finish(e) \/ Leave(e) \/ Stall(e) PROVE EndInv'
  BY <1>10 DEF Finish, Leave, Stall
<1>11. CASE UNCHANGED vars
  BY <1>11 DEF vars
<1> QED
  BY <1>1, <1>2, <1>3, <1>4, <1>5, <1>6, <1>7, <1>8, <1>9, <1>10, <1>11
  DEF Next, Finale, CopyStep

LEMMA EndInvariance == Spec => []EndInv
<1>1. Init => EndInv
  BY DEF Init, EndInv, CountedOnce, Sends, Directions
<1> QED
  BY <1>1, EndStep, Invariance, PTL DEF Spec

\* A handler that has returned leaves no goroutine that could block for ever.
THEOREM NoCopierBlocks == Spec => []CopiersFreed
<1>1. Inv /\ EndInv => CopiersFreed
  BY DEF Inv, TypeOK, EndInv, CopiersFreed, Sends, Room, Directions
<1> QED
  BY <1>1, Invariance, EndInvariance, PTL

\* As long as the tunnel stands nothing is lost, for any amount of data.
THEOREM LosslessTunnel == Spec => []NoLossBeforeTeardown
<1>1. Inv => NoLossBeforeTeardown
  BY DEF Inv, EndsWhenComplete, NoLossBeforeTeardown, Over
<1> QED
  BY <1>1, Invariance, PTL

\* The byte counters hold what was written, once.
THEOREM BytesExact == Spec => []CountedOnce
<1>1. EndInv => CountedOnce
  BY DEF EndInv
<1> QED
  BY <1>1, EndInvariance, PTL
=============================================================================
