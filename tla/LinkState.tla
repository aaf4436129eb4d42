------------------------------ MODULE LinkState ------------------------------
(***************************************************************************)
(* What the circuit breaker promises about the link to each peer, without  *)
(* saying how: a link is tracked once, then falls back to the relay or     *)
(* goes direct, each time counting one switch, and it goes direct only to  *)
(* a peer that some hole-punching attempt has reached, or for which        *)
(* somebody asked without bringing the means to attempt it.                *)
(*                                                                         *)
(* CircuitBreaker.tla implements this specification; the refinement        *)
(* mapping is there.                                                       *)
(***************************************************************************)
EXTENDS Naturals

CONSTANT Peers

VARIABLES
  link,     \* peer -> [mode, switches]
  punched,  \* the peers an attempt has reached at least once
  waived    \* the peers evaluated at least once without a way to punch

lsVars == <<link, punched, waived>>

\* LinkMode of the code, and "ABSENT" for a peer that has no entry yet.
LinkMode == {"ABSENT", "PROBING", "DIRECT_P2P", "DERP_RELAY"}

LinkStatus == [mode : LinkMode, switches : Nat]

LSInit ==
  /\ link = [p \in Peers |-> [mode |-> "ABSENT", switches |-> 0]]
  /\ punched = {}
  /\ waived = {}

\* The first evaluation of a peer starts to track its link, and any of them
\* may come without a way to punch.
Evaluate(p) ==
  /\ link' = [link EXCEPT ![p].mode = IF @ = "ABSENT" THEN "PROBING" ELSE @]
  /\ waived' \in {waived, waived \cup {p}}
  /\ UNCHANGED punched

\* A hole-punching attempt gets through to the peer.
Punch(p) ==
  /\ punched' = punched \cup {p}
  /\ UNCHANGED <<link, waived>>

Switch(p, mode) ==
  /\ link[p].mode # "ABSENT"
  /\ link' = [link EXCEPT ![p] = [mode |-> mode, switches |-> @.switches + 1]]
  /\ UNCHANGED <<punched, waived>>

FallBack(p) == Switch(p, "DERP_RELAY")

GoDirect(p) ==
  /\ p \in punched \cup waived
  /\ Switch(p, "DIRECT_P2P")

LSNext == \E p \in Peers : Evaluate(p) \/ Punch(p) \/ FallBack(p) \/ GoDirect(p)

LSSpec == LSInit /\ [][LSNext]_lsVars
=============================================================================
