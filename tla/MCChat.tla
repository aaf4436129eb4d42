------------------------------- MODULE MCChat -------------------------------
(***************************************************************************)
(* Two messages to two peers, whose links switch up to three times.        *)
(***************************************************************************)
EXTENDS Chat, TLC

CONSTANTS p1, p2, m1, m2

TwoPeers == {p1, p2}
TwoMessages == {m1, m2}

ChatSymmetry == Permutations(TwoPeers) \cup Permutations(TwoMessages)
=============================================================================
