----------------------------- MODULE SocksTunnel -----------------------------
(***************************************************************************)
(* pkg/proxy/socks5.go, handleConn (lines 167-267): one SOCKS5 connection  *)
(* from its greeting to its end, with the two copying goroutines of its    *)
(* tunnel.  Handlers share nothing but the byte counters, which they add   *)
(* to atomically: this module is one handler and what it adds.             *)
(*                                                                         *)
(* Bytes are counted in chunks, one Read and one Write of io.Copy each.    *)
(* SocksServer.tla's "handling" is every stage here before "done".         *)
(***************************************************************************)
EXTENDS Integers, FiniteSets

CONSTANT MaxSent  \* bound on the chunks an end sends

ASSUME MaxSentAssumption == MaxSent \in Nat

Ends == {"client", "dest"}

\* Direction "up" copies from the client to the destination (line 255),
\* "down" the other way (line 260).
Directions == {"up", "down"}

From(d) == IF d = "up" THEN "client" ELSE "dest"

To(d) == IF d = "up" THEN "dest" ELSE "client"

VARIABLES
  stage,    \* where handleConn is
  reply,    \* what sendReply has told the client
  open,     \* the ends whose connection the proxy holds open
  peer,     \* end -> "open", "fin" (it has sent all it will), "gone" (closed)
  stalled,  \* the ends that do not read at present
  sent,     \* direction -> chunks sent into the tunnel
  taken,    \* direction -> chunks io.Copy has read
  written,  \* direction -> chunks io.Copy has written
  copy,     \* direction -> the state of its goroutine
  errChan,  \* how many values errChan holds
  bytes     \* direction -> what was added to bytesTx ("up") or bytesRx

netVars == <<peer, stalled, sent>>
copyVars == <<taken, written, copy, bytes>>
vars == <<stage, reply, open, netVars, copyVars, errChan>>

-----------------------------------------------------------------------------
\* The handshake.  No read has a deadline: a silent client keeps its stage.

\* Lines 170-186.
Greet ==
  /\ stage = "greeting"
  /\ stage' = "request"
  /\ UNCHANGED <<reply, open, netVars, copyVars, errChan>>

\* Lines 189-203 and 205-234.
ReadRequest ==
  /\ stage = "request"
  /\ stage' = "dialing"
  /\ UNCHANGED <<reply, open, netVars, copyVars, errChan>>

\* Lines 171-186, 190-196, 207-232: a read or write fails, or the version is
\* not 5.
HandshakeFails ==
  /\ stage \in {"greeting", "request"}
  /\ stage' = "closing"
  /\ UNCHANGED <<reply, open, netVars, copyVars, errChan>>

\* Lines 197-201 and 224-226.
Refuse ==
  /\ stage = "request"
  /\ stage' = "closing"
  /\ reply' = "unsupported"
  /\ UNCHANGED <<open, netVars, copyVars, errChan>>

\* Lines 237-245: the dialer answers, or its 10 s context ends.
DialOk ==
  /\ stage = "dialing"
  /\ stage' = "replying"
  /\ open' = open \cup {"dest"}
  /\ UNCHANGED <<reply, netVars, copyVars, errChan>>

DialFails ==
  /\ stage = "dialing"
  /\ stage' = "closing"
  /\ reply' = "unreachable"
  /\ UNCHANGED <<open, netVars, copyVars, errChan>>

\* Lines 248-263.
ReplyOk ==
  /\ stage = "replying"
  /\ stage' = "tunnel"
  /\ reply' = "success"
  /\ copy' = [d \in Directions |-> "reading"]
  /\ UNCHANGED <<open, netVars, taken, written, bytes, errChan>>

ReplyFails ==
  /\ stage = "replying"
  /\ peer["client"] = "gone"
  /\ stage' = "closing"
  /\ UNCHANGED <<reply, open, netVars, copyVars, errChan>>

-----------------------------------------------------------------------------
\* The copying goroutines

SetCopy(d, s) == copy' = [copy EXCEPT ![d] = s]

Read(d) ==
  /\ copy[d] = "reading"
  /\ From(d) \in open
  /\ taken[d] < sent[d]
  /\ taken' = [taken EXCEPT ![d] = @ + 1]
  /\ SetCopy(d, "holding")
  /\ UNCHANGED <<stage, reply, open, netVars, written, bytes, errChan>>

\* End of file once everything was read; an error when the end is gone or the
\* handler has closed the connection.
ReadEnds(d) ==
  /\ copy[d] = "reading"
  /\ \/ From(d) \notin open
     \/ peer[From(d)] = "gone"
     \/ peer[From(d)] = "fin" /\ taken[d] = sent[d]
  /\ SetCopy(d, "ended")
  /\ UNCHANGED <<stage, reply, open, netVars, taken, written, bytes, errChan>>

\* A write to an end that is gone may still be taken by the kernel.
Write(d) ==
  /\ copy[d] = "holding"
  /\ To(d) \in open
  /\ To(d) \notin stalled
  /\ written' = [written EXCEPT ![d] = @ + 1]
  /\ SetCopy(d, "reading")
  /\ UNCHANGED <<stage, reply, open, netVars, taken, bytes, errChan>>

WriteFails(d) ==
  /\ copy[d] = "holding"
  /\ To(d) \notin open \/ peer[To(d)] = "gone"
  /\ SetCopy(d, "ended")
  /\ UNCHANGED <<stage, reply, open, netVars, taken, written, bytes, errChan>>

\* Lines 255-256 and 260-261: io.Copy returns what it has written.
MutCountsReads(d) == taken[d] + written[d]

Copied(d) == written[d]

AddBytes(d) ==
  /\ copy[d] = "ended"
  /\ bytes' = [bytes EXCEPT ![d] = @ + Copied(d)]
  /\ SetCopy(d, "counted")
  /\ UNCHANGED <<stage, reply, open, netVars, taken, written, errChan>>

\* Lines 253, 257 and 262: errChan holds two values.
MutUnbuffered == stage = "tunnel" /\ errChan = 0

Room == errChan < 2

SendErr(d) ==
  /\ copy[d] = "counted"
  /\ Room
  /\ errChan' = errChan + 1
  /\ SetCopy(d, "exited")
  /\ UNCHANGED <<stage, reply, open, netVars, taken, written, bytes>>

-----------------------------------------------------------------------------
\* The end of the handler

\* Line 265: the first direction to end ends the tunnel.
MutNoWait == TRUE

MutWaitsForBoth == errChan = 2

FirstEnded == errChan > 0

ReceiveErr ==
  /\ stage = "tunnel"
  /\ FirstEnded
  /\ errChan' = IF errChan > 0 THEN errChan - 1 ELSE 0
  /\ stage' = "closing"
  /\ UNCHANGED <<reply, open, netVars, copyVars>>

\* Line 245, deferred once the dial has succeeded.
CloseDest == open' = open \ {"dest"}

RunDefers ==
  /\ stage = "closing"
  /\ CloseDest
  /\ stage' = "returning"
  /\ UNCHANGED <<reply, netVars, copyVars, errChan>>

\* Line 159.
CloseClient ==
  /\ stage = "returning"
  /\ open' = open \ {"client"}
  /\ stage' = "done"
  /\ UNCHANGED <<reply, netVars, copyVars, errChan>>

-----------------------------------------------------------------------------
\* External: the two ends.

Send(d) ==
  /\ stage \notin {"greeting", "request"}
  /\ From(d) \in open
  /\ peer[From(d)] = "open"
  /\ sent[d] < MaxSent
  /\ sent' = [sent EXCEPT ![d] = @ + 1]
  /\ UNCHANGED <<stage, reply, open, peer, stalled, copyVars, errChan>>

\* An end has no more to send but still reads.
Finish(e) ==
  /\ e \in open
  /\ peer[e] = "open"
  /\ peer' = [peer EXCEPT ![e] = "fin"]
  /\ UNCHANGED <<stage, reply, open, stalled, sent, copyVars, errChan>>

Leave(e) ==
  /\ e \in open
  /\ peer[e] # "gone"
  /\ peer' = [peer EXCEPT ![e] = "gone"]
  /\ UNCHANGED <<stage, reply, open, stalled, sent, copyVars, errChan>>

\* An end stops to read, or reads again.
Stall(e) ==
  /\ e \in open
  /\ stalled' = IF e \in stalled THEN stalled \ {e} ELSE stalled \cup {e}
  /\ UNCHANGED <<stage, reply, open, peer, sent, copyVars, errChan>>

-----------------------------------------------------------------------------
Init ==
  /\ stage = "greeting"
  /\ reply = "none"
  /\ open = {"client"}
  /\ peer = [e \in Ends |-> "open"]
  /\ stalled = {}
  /\ sent = [d \in Directions |-> 0]
  /\ taken = [d \in Directions |-> 0]
  /\ written = [d \in Directions |-> 0]
  /\ copy = [d \in Directions |-> "none"]
  /\ errChan = 0
  /\ bytes = [d \in Directions |-> 0]

Handshake == Greet \/ ReadRequest \/ HandshakeFails \/ Refuse

Dial == DialOk \/ DialFails

Reply == ReplyOk \/ ReplyFails

CopyStep(d) ==
  Read(d) \/ ReadEnds(d) \/ Write(d) \/ WriteFails(d) \/ AddBytes(d) \/ SendErr(d)

Finale == ReceiveErr \/ RunDefers \/ CloseClient

Next ==
  \/ Handshake \/ Dial \/ Reply \/ Finale
  \/ \E d \in Directions : CopyStep(d) \/ Send(d)
  \/ \E e \in Ends : Finish(e) \/ Leave(e) \/ Stall(e)

Spec == Init /\ [][Next]_vars

(***************************************************************************)
(* Fairness: the handler and its goroutines run when they can, and the     *)
(* dial ends within its 10 s.  A write is strongly fair: an end that reads *)
(* again and again takes it.  Nothing is assumed of the two ends, nor of   *)
(* the handshake, which waits for the client.                              *)
(***************************************************************************)
Fairness ==
  /\ WF_vars(Dial) /\ WF_vars(Reply) /\ WF_vars(Finale)
  /\ \A d \in Directions :
       /\ WF_vars(Read(d)) /\ WF_vars(ReadEnds(d)) /\ WF_vars(WriteFails(d))
       /\ SF_vars(Write(d)) /\ WF_vars(AddBytes(d)) /\ WF_vars(SendErr(d))

FairSpec == Spec /\ Fairness

-----------------------------------------------------------------------------
\* Properties

\* The variables have their types (the locals of handleConn).
TypeOK ==
  /\ stage \in {"greeting", "request", "dialing", "replying", "tunnel", "closing",
               "returning", "done"}
  /\ reply \in {"none", "unsupported", "unreachable", "success"}
  /\ open \subseteq Ends
  /\ peer \in [Ends -> {"open", "fin", "gone"}]
  /\ stalled \subseteq Ends
  /\ sent \in [Directions -> 0..MaxSent]
  /\ taken \in [Directions -> 0..MaxSent]
  /\ written \in [Directions -> 0..MaxSent]
  /\ copy \in [Directions -> {"none", "reading", "holding", "ended", "counted", "exited"}]
  /\ errChan \in 0..2
  /\ bytes \in [Directions -> 0..MaxSent]

NobodyLeft == \A e \in Ends : peer[e] # "gone"

Complete(d) == peer[From(d)] = "fin" /\ written[d] = sent[d]

\* As long as neither end has broken its connection, the tunnel is torn down
\* only when one end has sent all it had and all of it was passed on
\* (lines 253-265).
TornDownWhenComplete ==
  (reply = "success" /\ stage # "tunnel" /\ NobodyLeft) => \E d \in Directions : Complete(d)

\* When the handler has returned nothing can block a copying goroutine: not
\* its Read, its Write or its send to errChan, whichever of them it was in
\* when the other direction ended (lines 245, 253-263, 159).
CopiersFreed ==
  stage = "done" => \A d \in Directions :
    /\ copy[d] = "reading" => From(d) \notin open
    /\ copy[d] = "holding" => To(d) \notin open
    /\ copy[d] = "counted" => Room

\* While the tunnel stands and nobody has broken it, a direction that has
\* ended had passed on all it was given: only the teardown loses data, and
\* only of the direction that had not ended (lines 252-265).
NoLossBeforeTeardown ==
  (stage = "tunnel" /\ NobodyLeft) =>
    \A d \in Directions : copy[d] \in {"ended", "counted", "exited"} => Complete(d)

\* A direction is in the byte counters once, with all it has written and
\* nothing it only read, and nothing is written after it was counted
\* (lines 255-256, 260-261).
CountedOnce ==
  \A d \in Directions :
    bytes[d] = IF copy[d] \in {"counted", "exited"} THEN written[d] ELSE 0

\* Once the handler of a tunnel has returned, both copying goroutines exit,
\* also the one that was blocked when the other ended, and what they wrote
\* is in the byte counters (lines 253-263).
CopiersExit ==
  (stage = "done" /\ reply = "success") ~>
    (\A d \in Directions : copy[d] = "exited" /\ bytes[d] = written[d])

\* When an end of a tunnel leaves, the handler returns, however silent the
\* other end is, if only that end reads from time to time (line 265).
LeavingEndsTunnel ==
  \A d \in Directions :
    []<>(To(d) \notin stalled) =>
      ((stage = "tunnel" /\ peer[From(d)] = "gone") ~> (stage = "done"))

\* Line 252: the tunnel copies without loss in both directions.  The handler
\* returns when one direction has ended, so an end that finishes sending
\* loses what the other has yet to answer.
LosslessBothWays ==
  (reply = "success" /\ NobodyLeft /\ \A d \in Directions : copy[d] = "exited") =>
    \A d \in Directions : written[d] = sent[d]
=============================================================================
