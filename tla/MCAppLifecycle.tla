--------------------------- MODULE MCAppLifecycle ---------------------------
(***************************************************************************)
(* Instances of AppLifecycle for TLC.                                      *)
(***************************************************************************)
EXTENDS AppLifecycle

CONSTANTS p, q, mock

Cfg(mode, url, key) == [mode |-> mode, controlURL |-> url, authKey |-> key]

\* The sample that is shipped, a filled-in one, one that is forced, and one
\* whose address is wrong; each may be hidden by an unreadable file or by
\* another before it.
FewConfigs ==
  {NoConfig, Cfg("auto", "placeholder", "sample"), Cfg("auto", "usable", "own"),
   Cfg("production", "usable", "sample"), Cfg("auto", "malformed", "own")}

FewFiles == [Paths -> FewConfigs]
=============================================================================
