-------------------------- MODULE MCCircuitBreaker --------------------------
(***************************************************************************)
(* Instances of CircuitBreaker for TLC.                                    *)
(***************************************************************************)
EXTENDS CircuitBreaker

CONSTANTS c1, c2, p1

Ends(nat, v6) == [nat |-> nat, ipv6 |-> v6]

Args(p, end, p2p, relay) ==
  [peer |-> p, local |-> end, remote |-> end, p2p |-> p2p, relay |-> relay]

\* The two argument lists of App.TriggerP2PProbe (app.go:209-230), and the
\* only ones the program itself uses.
AppRequests ==
  {Args(p, end, "nil", FALSE) :
     p \in Peers, end \in {Ends("CONE", TRUE), Ends("SYMMETRIC", FALSE)}}

\* What a caller of the package may pass, as breaker_test.go does: a dialer
\* that hangs, with or without a relay dialer, and none at all.
LibraryRequests ==
  UNION {{Args(p, Ends("CONE", TRUE), "ctx", TRUE),
          Args(p, Ends("SYMMETRIC", TRUE), "deaf", FALSE),
          Args(p, Ends("SYMMETRIC", FALSE), "nil", FALSE)} : p \in Peers}
=============================================================================
