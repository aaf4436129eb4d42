------------------------------ MODULE MCConsole ------------------------------
(***************************************************************************)
(* Two members, one of them the preset one, two overlapping refreshes and  *)
(* two overlapping clicks on the switch.                                   *)
(***************************************************************************)
EXTENDS Console

CONSTANTS p1, p2

TwoPeers == {p1, p2}
PresetPeer == {p1}
NoClients == {}
=============================================================================
