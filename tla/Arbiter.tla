------------------------------- MODULE Arbiter -------------------------------
(***************************************************************************)
(* pkg/tsnet/arbiter.go: which config.json is used, and whether the        *)
(* program starts in production or in simulation mode.  Pure functions of  *)
(* the candidate files and of one probe of the control server.             *)
(*                                                                         *)
(* A field of the configuration is one of the classes the code tells       *)
(* apart, after TrimSpace and ToLower.  Reasons and the fields of          *)
(* NodeConfig are left out.                                                *)
(***************************************************************************)
EXTENDS Integers, Sequences

CONSTANT NoConfig  \* the nil *AppConfig; a file that is absent or unparsable

\* cfg.Mode: "mock" is a synonym of "simulation", and every other value
\* ("auto", "", a typing error) means auto.
Modes == {"simulation", "production", "auto"}

\* cfg.Server.ControlURL: empty, a sample address, one that url.Parse or
\* http.NewRequest rejects, or a usable one.
ControlURLs == {"empty", "placeholder", "malformed", "usable"}

\* cfg.Client.AuthKey: empty, the key of the sample file or one that says
\* so, or another.
AuthKeys == {"empty", "sample", "own"}

AppConfig == [mode : Modes, controlURL : ControlURLs, authKey : AuthKeys]

ASSUME NoConfigAssumption == NoConfig \notin AppConfig

RuntimeModes == {"SIMULATION", "PRODUCTION"}

\* Lines 42-47, without search paths as NewApp calls it (app.go:54): the
\* second candidate is the first file again.
Paths == {"config.json", "frontend/config.json", "frontend/public/config.json"}

Candidates == <<"config.json", "config.json", "frontend/config.json",
                "frontend/public/config.json">>

\* Lines 49-62: the first candidate that can be read and parsed.
LoadAppConfig(files) ==
  IF \A i \in DOMAIN Candidates : files[Candidates[i]] = NoConfig
  THEN NoConfig
  ELSE LET first == CHOOSE i \in DOMAIN Candidates :
                      /\ files[Candidates[i]] # NoConfig
                      /\ \A k \in 1..(i - 1) : files[Candidates[k]] = NoConfig
       IN  files[Candidates[first]]

\* Lines 66-131.  The probe is made last, and only for a usable address.
ArbitrateMode(cfg, reachable) ==
  IF \/ cfg = NoConfig
     \/ cfg.mode = "simulation"
     \/ cfg.controlURL \in {"empty", "placeholder"}
     \/ cfg.authKey = "empty"
     \/ cfg.authKey = "sample" /\ cfg.mode # "production"
     \/ cfg.controlURL = "malformed"
     \/ ~reachable
  THEN "SIMULATION" ELSE "PRODUCTION"

\* Lines 134-172: a node of the kind whose mode is reported.
CreateAdaptiveNodeManager(cfg, reachable) ==
  [kind |-> ArbitrateMode(cfg, reachable), mode |-> ArbitrateMode(cfg, reachable)]
=============================================================================
