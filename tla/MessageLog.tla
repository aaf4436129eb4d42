----------------------------- MODULE MessageLog -----------------------------
(***************************************************************************)
(* What the chat promises: one log per peer, to which every message sent   *)
(* to that peer is added once, at one moment between the call that sends   *)
(* it and the answer of that call, and which nothing else changes.         *)
(*                                                                         *)
(* Chat.tla implements this specification.                                 *)
(***************************************************************************)
EXTENDS Sequences

CONSTANTS Peers, Messages, None

VARIABLES
  log,   \* peer -> the messages sent to it, the oldest first
  call   \* message -> [phase, peer]

mlVars == <<log, call>>

MLInit ==
  /\ log = [p \in Peers |-> <<>>]
  /\ call = [m \in Messages |-> [phase |-> "new", peer |-> None]]

Ask(m, p) ==
  /\ call[m].phase = "new"
  /\ call' = [call EXCEPT ![m] = [phase |-> "asked", peer |-> p]]
  /\ UNCHANGED log

Put(m) ==
  /\ call[m].phase = "asked"
  /\ call' = [call EXCEPT ![m].phase = "put"]
  /\ log' = [log EXCEPT ![call[m].peer] = Append(@, m)]

Reply(m) ==
  /\ call[m].phase = "put"
  /\ call' = [call EXCEPT ![m].phase = "answered"]
  /\ UNCHANGED log

MLNext == \E m \in Messages : (\E p \in Peers : Ask(m, p)) \/ Put(m) \/ Reply(m)

MLSpec == MLInit /\ [][MLNext]_mlVars
=============================================================================
