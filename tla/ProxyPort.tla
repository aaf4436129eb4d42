------------------------------ MODULE ProxyPort ------------------------------
(***************************************************************************)
(* What the SOCKS5 server promises to those who switch it and to those who *)
(* connect to it, without its accept loops, quit channels and successive   *)
(* listeners: there is one port, which is bound before the proxy reports   *)
(* that it runs and until after it reports that it does not; a client that *)
(* waits at the port is taken, or reset with the port, and one that has    *)
(* been taken is served to its own end, whatever happens to the port.      *)
(*                                                                         *)
(* SocksServer.tla implements this specification; Console.tla builds on it.*)
(***************************************************************************)
CONSTANT Clients

VARIABLES
  port,     \* "free", "bound", "serving", "closing"
  client    \* client -> "outside", "waiting", "taken", "gone"

ppVars == <<port, client>>

\* What IsRunning answers.
Serving == port = "serving"

PPInit ==
  /\ port = "free"
  /\ client = [k \in Clients |-> "outside"]

\* Start is Bind and then Open, Stop is Close and then Release.
Move(from, to) ==
  /\ port = from
  /\ port' = to
  /\ UNCHANGED client

Bind == Move("free", "bound")

Open == Move("bound", "serving")

Close == Move("serving", "closing")

Release ==
  /\ port = "closing"
  /\ port' = "free"
  /\ client' = [k \in Clients |-> IF client[k] = "waiting" THEN "gone" ELSE client[k]]

Arrive(k) ==
  /\ port # "free"
  /\ client[k] = "outside"
  /\ client' = [client EXCEPT ![k] = "waiting"]
  /\ UNCHANGED port

Take(k) ==
  /\ port # "free"
  /\ client[k] = "waiting"
  /\ client' = [client EXCEPT ![k] = "taken"]
  /\ UNCHANGED port

Leave(k) ==
  /\ client[k] = "taken"
  /\ client' = [client EXCEPT ![k] = "gone"]
  /\ UNCHANGED port

PPNext ==
  \/ Bind \/ Open \/ Close \/ Release
  \/ \E k \in Clients : Arrive(k) \/ Take(k) \/ Leave(k)

PPSpec == PPInit /\ [][PPNext]_ppVars
=============================================================================
