---------------------------- MODULE MCSocksServer ----------------------------
(***************************************************************************)
(* Instances of SocksServer for TLC.                                       *)
(***************************************************************************)
EXTENDS SocksServer

CONSTANTS a1, a2, k1, k2, k3
=============================================================================
