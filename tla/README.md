# ReatiWire: specifications, model checking and proofs

ReatiWire is a desktop client (Go and Wails, package `main` with `pkg/...`) for
a small private network: it picks direct or relayed links to peers, serves a
local SOCKS5 proxy, sends files in 2 MB chunks, and runs either on a real
`tsnet` node or in a simulation of one.  This directory holds TLA+ modules
translated from that code, the TLC configurations that check them on small
instances, and theorems about them that TLAPS checks for every value of the
constants.

`src/` in what follows is the root of the repository.  Line numbers refer to
the commit the modules were written from; `PROJECT.json` maps each definition
to the lines it stands for.

## 1. The system

| Part | State it keeps | Operations | What is hard about it |
|---|---|---|---|
| Circuit breaker, `pkg/circuitbreaker/breaker.go` | `statusMap` (mode, switch count per peer), `probeStopMap` | `EvaluateAndDial`, its dialing goroutine, the background prober, `GetStatus` | calls of one peer overlap; each decides before it takes `cb.mu`; dialers that answer late or never; probers outlive calls |
| SOCKS5 server, `pkg/proxy/socks5.go` 64-165 | `isRunning`, `listener`, `quitChan`, counters | `Start`, `Stop`, the accept loop `serve`, `GetStats`, `IsRunning` | `serve` reads `listener` and `quitChan` without the lock, so a quick restart can keep an old loop alive |
| SOCKS5 handler, `pkg/proxy/socks5.go` 167-267 | one connection: stage, two copying goroutines, `errChan` | greeting, request, dial, reply, two `io.Copy`, deferred closes | the first direction to end tears down the other; goroutines must not block for ever |
| Transfer engine, `pkg/transfer/engine.go` | `manifests`, `stats`, `activeFiles`, files on disk | `PrepareUpload`, `StoreIncomingChunk`, `GetSessionStats` | hashing without the lock; chunks lost, repeated, reordered; failing writes; empty files |
| App controller, `app.go` | `nodeMgr`, `runtimeMode`, `cancelSync`, the parts above | `NewApp`, `Startup` (with fallback), peer polling, `Shutdown`, the API handlers | Wails runs Startup, Shutdown and the API handlers side by side; no lock protects the fields |
| Node managers, `pkg/tsnet/{interfaces,manager,real_manager}.go` | `isRunning`, `server` under `mu` | `Start`, `Stop`, `DialContext`, `Listen`, `GetStatus`, `GetPeers`, `GetMode` | the real node registers for up to 15 s, and answers status calls, with its lock held |
| Arbiter, `pkg/tsnet/arbiter.go` | none | `LoadAppConfig`, `ArbitrateMode`, `CreateAdaptiveNodeManager` | a long list of conditions |
| Chat manager, `pkg/im/chat.go` | peers, messages per peer | `SyncPeers`, `ResetToMockPeers`, `AppendMessage`, `GetMessages`, `GetAllPeers`, `UpdatePeerStatus` | overlapping calls that append; labels from a link that switches meanwhile; two writers of the peer list |
| LiveKit tokens, `pkg/livekit/token.go` | none | `CreateJoinToken` | nothing |
| Console, `frontend/src/main.js` | the rendered state, `proxyRunning`, `activePeer` | fetches of `/api/...`, a refresh every 5 s | refreshes, probes and clicks overlap; answers come out of order, late or never |
| Shell and deployment, `main.go`, `deploy/` | none | window set-up, third-party configuration | - |

How they interact: the console calls the API handlers of the app controller,
each in a goroutine of its own.  The controller owns one breaker, one proxy,
one transfer engine and one chat manager; the proxy dials through the node
manager it was given in `NewApp`; the poller copies the peers of the node to
the chat manager; the mode arbiter decides at start which node manager there
is, and `Startup` may replace it.

What makes each part correct:

- breaker: among calls that bring a dialer a link is direct only if one of them
  reached the peer; a fallen-back
  link gets a prober, and one only; no switch goes uncounted; calls return and
  goroutines exit whatever dialers do; a link heals when the path does;
- server: while `IsRunning` says so, the port is bound and served; stopping
  ends every loop; counters are exact; queued connections are answered;
- handler: a healthy tunnel ends only when a direction is complete, and both
  goroutines always exit;
- engine: what is counted and marked complete agrees with what is on disk;
- chat: each message is stored once and in order, and a label contradicts
  its link only after a switch that was counted;
- console: messages and badges are of the peer that is named, and the switch
  shows the port as it is;
- controller: mode, node, overview and member list agree through the fallback,
  and the program winds down;
- arbiter: production only with a configuration that allows it.

## 2. The modules

| Module | Models | Notes |
|---|---|---|
| `LinkState` | what the breaker promises of a link | abstract: track once, then counted switches, direct only when reached or evaluated without a dialer |
| `CircuitBreaker` | breaker.go | one action per critical section of `cb.mu`, channel operation or return of a dialer |
| `CircuitBreakerProofs` | - | theorems, with the refinement of `LinkState` |
| `ProxyPort` | what the server promises its users | abstract: one port, taken clients are served to their end |
| `SocksServer` | socks5.go 64-165 | `Start` and `Stop` in two halves each, since `serve` reads between them |
| `SocksServerProofs` | - | theorems, with the refinement of `ProxyPort` |
| `SocksTunnel` | socks5.go 167-267 | one handler; the proxy's connections share only atomic counters |
| `SocksTunnelProofs` | - | theorems |
| `VerifiedFiles` | what the engine promises of the files it writes | abstract: verified chunks per manifest, no sessions, hashing or clock |
| `VerifiedFilesProofs` | - | what the abstract specification alone guarantees |
| `TransferEngine` | engine.go | hashing chunk by chunk, storing in one step (the lock is held throughout), restarts |
| `TransferEngineProofs` | - | theorems, with the refinement of `VerifiedFiles` |
| `Arbiter` | arbiter.go | pure operators |
| `AppLifecycle` | app.go, pkg/tsnet, the peers of chat.go | extends `Arbiter`, whose choice makes its initial states |
| `AppLifecycleProofs` | - | theorems |
| `MessageLog` | what the chat promises | abstract: one log per peer |
| `Chat` | the messages of chat.go, app.go 256-288 | extends `LinkState`: links switch while messages are labelled |
| `ChatProofs` | - | theorems, with the refinement of `MessageLog` |
| `Console` | main.js with the handlers it calls | extends `ProxyPort`: the switch acts on the abstract port |
| `ConsoleProofs` | - | theorems |
| `MCCircuitBreaker`, `MCSocksServer`, `MCTransferEngine`, `MCAppLifecycle`, `MCChat`, `MCConsole` | - | instances for TLC |

Operators called `Mut...` stand beside the definition they vary: each is a
plausible slip in the code (a dropped guard, a counter not reset) that some
property is meant to catch.  No specification uses them.

**CircuitBreaker.** A member of `Calls` is one call of `EvaluateAndDial`
together with the goroutine that runs its dialer (`dial`) and the prober it may
start (`prober`).  `Begin` is the entry with its first critical section and the
`go` statement; `FastPath`, `SelectSuccess`, `SelectTimeout` and `SelectErr`
are the four places that write a mode; `StartUpgrade` is
`startBackgroundSeamlessUpgrade`; `DialReturns`/`DialDelivers` are the dialing
goroutine, which may outlive the call; `ProberTick`, `ProbeReturns` and
`Upgrade` are one turn of the prober, which releases the lock between reading
the mode, probing and writing.  Dialers are of three kinds (`nil`, honouring
the context, ignoring it); `nil` dials nobody but succeeds, and never adds to
`reached`; and `path` says how the network treats hole punching
at the moment.  All of this is an input the caller or the network chooses.

**SocksServer.** The n-th successful `Start` makes listener n, quit channel n
and loop n; the fields hold a number.  A loop reads `s.listener` in
`ReadListener` and `s.quitChan` in `CheckQuit`, without the lock, at any moment
between the halves of `Start` and `Stop`.  Counting a connection and spawning
its handler is `Count`; the handler's end is `HandlerCloses`, `HandlerExits`.
Seen from outside it is the port of `ProxyPort`: free, bound but not yet
reported, serving, or closing; loops, generations and quit channels disappear.

**SocksTunnel.** `stage` is the program counter of `handleConn`, `copy[d]` that
of the goroutine copying in direction `d`; a chunk is one `Read` and one
`Write` of `io.Copy`.  The ends may send, half-close, break off or stop
reading.

**TransferEngine.** A chunk stands for its own SHA-256 and a file is a
sequence of chunks.  `Stat`, `HashChunk`, `Register` are the steps of
`PrepareUpload`, between which the file may be edited; `StoreChunk`,
`WriteFails` and `IndexPanics` are the outcomes of `StoreIncomingChunk` that
change something.  `Restart` is the end of the program and a new start: what
is on disk stays, everything else is gone, and the clock has moved on.
`stored` and `skipped` are history variables.  Seen from the disk it is
`VerifiedFiles`: `Register` is `Announce`, `StoreChunk` is `Write`,
`WriteFails` is `Spoil` or nothing, `Restart` is `Forget`, and the rest shows
in nothing.

**AppLifecycle.** `boot` is where `Startup` is, `poller` where
`pollTailnetPeers` is, `shut` where `Shutdown` is, and `view` is one call of
`GetSystemOverview` with what it has read so far.  Node `first` is that of
`NewApp`, `fallback` the simulated one of a failed start.  `a.nodeMgr` is an
interface value of two words written without a lock, so while it is exchanged
a reader may see a mixture: `torn`, on which a method does anything, a crash
included.  The lock of the real node is held while `boot` is `registering` and
while a status call waits for the local client.  `Start`, `Stop` and `GetStatus`
of the two kinds of node are actions of their own (`StartSimulated`,
`StartReal`, ...), chosen by the kind that `CreateAdaptiveNodeManager` made.

**Chat.** A member of `Messages` is one call of `SendChatMessage`; `stage` is
where it is.  `GetStatus` labels it by the copy of the link's entry that the
breaker makes under its lock; `AppendMessage` is the critical section of
chat.go, `GetMessages` the copy a reader gets.  The links move by
the actions of `LinkState`, which `CircuitBreaker` implements.  `seen` and
`before` are history variables: how many switches the link had counted, and who
had been answered, when a call began.

**Console.** JavaScript runs one callback at a time, so each stretch between
two `await`s is one action: `RefreshBegins`, `RefreshShows`, `RefreshFails`;
`ProbeClicked`, `ProbeShows`; `ToggleClicked`, `ToggleShows`, `ToggleLost`.
The handlers between them run in goroutines of the program: `GetAllPeers`, and
`StartBinds` ... `ToggleAnswers`, which move the port of `ProxyPort` together
with the `Start` that `Startup` makes (`BootBinds` ...).  A fetch that is
rejected while its handler is under way leaves the handler to run on by itself
(`lost`).  The badge is the peer whose link it states.  `crossed`, `unsure` and `refused` are history variables.

## 3. What the runs show

Twelve runs; each finishes within about two and a half minutes.

| Run | Question and outcome |
|---|---|
| `breaker` | Two concurrent calls to a peer with every kind of dialer. `OneProberPerPeer`, `RelayIsProbed`, `DirectIsEarned`, `SwitchesCounted`, `EvaluationReturns`, `NoDialerLeaks`, `RelayHeals` hold, and the breaker implements `LinkState` (`ImplementsLinkState`). |
| `breaker_relay_probed` | **violated**: `RelayAlwaysProbed` (finding 1). |
| `server` | Two callers, two connections, three starts: `RunningIsServed`, `ActiveConnsExact`, `StoppedEnds`, `QueuedIsAnswered` hold, and the server implements `ProxyPort` (`ImplementsPort`). |
| `tunnel` | Two chunks each way: `TornDownWhenComplete`, `CopiersExit`, `LeavingEndsTunnel` hold. |
| `tunnel_lossless` | **violated**: `LosslessBothWays` (finding 2). |
| `transfer` | Two preparations of two files, with a restart of the program: `OpenWhileActive`, `StoredIsOnDisk`, `ProgressCoversStored`, `InOrderIsWhole` hold. |
| `transfer_whole` | **violated**: `CompletedIsWhole` (finding 3). |
| `transfer_hashes` | **violated**: `EveryChunkHasHash` (finding 4). |
| `app` | `OverviewNeverOverclaims`, `ModeIsHonest`, `PeersMatchMode`, `CleanExit`, `ShutdownReturns`, `PeersFollow` hold. |
| `app_proxy_dials` | **violated**: `ProxyDials` (finding 5). |
| `console` | Two members, two refreshes, two probes and two clicks on the switch under way together: `SendsWhereShown`, `BadgeIsOfHeader`, `PortShownTruly` hold. |
| `chat` | Two messages to two peers whose links switch up to three times: `StaleOnlyAfterSwitch`, `OrderKept`, `HistoryIsPrefix` hold, and the chat implements `MessageLog` (`ImplementsLog`). |

Each passing run also checks the module's `TypeOK`.

### Bounds, and why they suffice

- Breaker: every hazard is between two calls of one peer (two fall-backs, a
  call and an older prober, a timeout and a late answer), so the run has two
  calls and one peer: peers share nothing but the lock and the two maps, and
  the theorems hold for any number of them.  Calls are never reused, so two
  calls allow two probers.
- Server: three starts give an old loop two generations to live on, and two
  callers race `Start` against `Stop`; two connections let one be queued while
  the other is handled.
- Tunnel: with two chunks a direction may be empty, half and fully copied when
  the other ends; `errChan` has two places.
- Engine: files of one and two chunks, of which the second differs in its
  first chunk, so that edits between the reads make files that grow, shrink and
  mix; the empty file, whose announced chunk has no hash, is in
  `transfer_hashes`.  Two names and two preparations make IDs collide
  (`MaxSecond = 1` lets them also differ, or lets the program restart once),
  and `MaxBytes = 3` leaves room for one duplicate of a two-chunk session.
- App: two members, one of whom has no address, one preset member, and every
  combination of three candidate files with five contents.  The size of the
  peer list plays no role.  One call of `GetSystemOverview` at a time, repeated.
- Console: an answer can be crossed by one other thing at a time, so two
  requests in flight (`MaxInFlight = 2`) of two refreshes, two probe buttons
  and two clicks show every pair of them; two members, one of them preset, are
  one that is selected and one that is not.
- Chat: every property relates two messages at most, of which one is sent
  before, beside or after the other; two peers keep the lists apart; a link
  that may switch three times (`MaxSwitches = 3`) can be relayed, go direct and
  be relayed again, before, during and after one call.

The bounds `MaxStarts`, `MaxSent`, `MaxSecond`, `MaxBytes`,
`MaxChunks`, `MaxInFlight` and `MaxSwitches` are
constants and stay parameters of the theorems.

`CHECK_DEADLOCK FALSE` stands where the system may stop for good: a handler
that has returned, a proxy with no starts left, a program that has come down.

### Fairness

- Go's scheduler runs every goroutine that can run, and timers fire: weak
  fairness on the steps of goroutines.  `ContextDone` is the 3 s timer of
  breaker.go:129.
- A `P2P` dialer that has an answer gives it; the deaf one only when the path
  answers.  Nothing is assumed of relay dialers: `EvaluationReturns` speaks of
  calls without one.
- `Accept` is strongly fair in each connection: failures in between do not keep
  it from a queued connection for ever.  `Write` of a tunnel is strongly fair:
  an end that reads time and again takes a write.
- `Lock` of a `sync.RWMutex` blocks later readers, so it is not starved:
  strong fairness on `StopNode` and `StopTornNode`.  A `select` with two ready cases picks at
  random, so the cancelled poller does not pick its ticker for ever: strong
  fairness on `PollEnds`.  A running node's `GetPeers` does not fail for ever,
  and its local client answers (real_manager.go:136 gives it no deadline).
- `Chat` and `Console` state no fairness: they check safety only.
- Nothing is assumed of users, clients, the network, or of the handshake of a
  SOCKS client.

### Disagreements between the code and what it says of itself

1. After one seamless upgrade a peer is never probed again: `probeStopMap`
   keeps its entry (breaker.go:207; README_EN.md:50 says that a relayed link
   has a background probe every 10 s).
2. The tunnel ends with its first direction, losing what the other still
   carries (socks5.go:265; the comment at 252 says lossless).
3. A session is `COMPLETED` by its last index whatever is missing
   (engine.go:201; README_EN.md:84, main.js:385).
4. An empty file has one chunk and no hash: storing it panics with the lock
   held (engine.go:98 and 167; the comment at 30).
5. After a fallback the proxy still dials through the node that failed
   (app.go:63 and 126; docs/dual_mode_runtime_architecture_and_update_plan.md:44).

Observations that no run states:

- without a P2P dialer, which is how app.go:228 always calls, the first
  background tick makes a relayed link direct though nobody was probed
  (breaker.go:234), where README_EN.md:50 wants the recovery of the path
  detected.  So it does between two symmetric NATs, which the comment at
  breaker.go:102 and README_EN.md:49 give a success rate of 0%.
  `DirectIsEarned` says nothing of peers evaluated in this way (`Undialed`),
  and `LinkState` lets their links go direct (`waived`);
- a link that was never evaluated labels its messages as direct (app.go:261),
  and `Acknowledged` is always true though nothing leaves the program
  (app.go:278); IDs and timestamps are taken before the list is locked, so
  overlapping messages may be stored out of the order of their timestamps;
- when a start of the proxy is refused, because it runs already or its port is
  taken, the ribbon says "stopped" and the next click means the opposite of
  what the button says (main.js:218 and 226-231);
- the answer of a probe goes to whichever peer is selected by then (main.js:255
  and 271): `BadgeIsOfHeader` excludes that case by `crossed`;
- of clicks on the switch that overlap each other or Startup, or whose request
  is lost, the last answer to arrive decides the ribbon and the last click the
  next one, so ribbon, button and port may stay apart (main.js:218-237):
  `PortShownTruly` excludes those by `unsure`;
- a repeated chunk is counted again, and reopens a completed session
  (engine.go:195): `ProgressCoversStored` bounds the count from below only;
- two files of equal content that are prepared within a second share an ID, and
  the second session goes on writing where the first one's file was opened
  (engine.go:119): `StoredIsOnDisk` is stated for sessions that share neither ID
  nor name;
- `serve` retries without a pause while `Accept` fails on an open listener
  (socks5.go:152); `Shutdown` may read a half-written `nodeMgr` (app.go:185);
- refreshes overlap, so an older list may replace a newer one until the next;
- a fetch that throws while the list is empty shows three preset members, in
  production too (main.js:518);
- a file in the download folder that is longer than the one that is written
  over it keeps its tail, since it is opened without truncation
  (engine.go:179);
- the member list is kept when the tailnet becomes empty (app.go:161), while
  the same document, line 225, wants departures to show within 10 s; for this
  reason `PeersFollow` speaks of non-empty tailnets only;
- the sample key is accepted when the mode is `production` (arbiter.go:93),
  while line 32 of the document rejects placeholders unconditionally;
- `Shutdown` that overtakes `Startup` finds no `cancelSync` and an unstarted
  proxy, so what Startup starts afterwards stays up until the process ends
  (app.go:182); `CleanExit` excludes that case by the history variable `early`;
- data races: `nodeMgr` and `runtimeMode`, `s.listener` and `s.quitChan`, and
  the status pointer returned by `EvaluateAndDial` that app.go:374 encodes.
  The first two pairs are modelled as the choices they allow; the third reaches
  the text of one answer only, and `SendChatMessage` reads a copy;
- an unparsable `config.json` falls through to the next candidate (arbiter.go:49).

## 4. What is proved

The eight `...Proofs` modules hold theorems that TLAPS checks for every value of
the constants; `PROJECT.json` lists them with what each establishes.  On the
left, the properties that a passing run checks too; on the right, what goes
beyond the runs.

| Module | Of the runs | Beyond them |
|---|---|---|
| `CircuitBreakerProofs` | `TypeCorrect`, `OneProber`, `RelayProbed`, `DirectEarned`, `NoLostSwitch`, and `Implements`: the breaker refines `LinkState` | `ProbedOnce`, `DialerRoom` |
| `SocksServerProofs` | `TypeCorrect`, `Served`, `CounterExact`, and `ImplementsProxyPort`: the server refines `ProxyPort` | `OneListener`, `QueuedHeard`, `StopFreesLoops` |
| `SocksTunnelProofs` | `TypeCorrect`, `TornDown` | `NoCopierBlocks`, `LosslessTunnel`, `BytesExact` |
| `VerifiedFilesProofs` | - | `KeptAlways` |
| `TransferEngineProofs` | `TypeCorrect`, `OpenFiles`, `OnDisk`, `ProgressCovers`, `InOrderWhole` | `ImplementsVerifiedFiles`: the engine refines `VerifiedFiles`; `UndisturbedArrives` |
| `AppLifecycleProofs` | `TypeCorrect`, `NeverOverclaims`, `HonestMode`, `PeersOfMode`, `ExitsClean` | `OneNode`, `PollsRealNode`, `CrashIsFallback`, `ExclusiveLock`, `DegradesOnly`, `ConfiguredProduction` |
| `ConsoleProofs` | `TypeCorrect`, `SendsWhereShownHolds`, `BadgeIsOfHeaderHolds`, `PortShownTrulyHolds` | `OneHand` |
| `ChatProofs` | `TypeCorrect`, `StaleOnlyAfterSwitchHolds`, `OrderKeptHolds`, `HistoryIsPrefixHolds`, and `ImplementsMessageLog`: the chat refines `MessageLog` | `StoredOnceHolds`, `RelayedAfterSwitch` |

So every safety property that a passing run checks is also a theorem, and
every refinement.  What the right column adds:

- *The safety half of what only runs check.*  That something eventually happens
  is out of the prover's reach, that nothing can be in its way is not:
  `DialerRoom` for `NoDialerLeaks`, `QueuedHeard` for `QueuedIsAnswered`,
  `StopFreesLoops` for `StoppedEnds`, `NoCopierBlocks` for `CopiersExit`,
  `OneHand` for a click that waits for the lock of the server.
- *What is behind a disagreement.*  `ProbedOnce` shows that finding 1 is no
  accident of one schedule: once the prober of a peer has ended, no call ever
  starts another.  `LosslessTunnel` shows where finding 2 loses data: not
  before the teardown, and only of the direction that had not ended.
  `UndisturbedArrives` names what findings 3 and 4 need: without empty files,
  edits and skipped chunks, what a completed session leaves on disk is the file.
- *What the models rely on.*  `AppLifecycle` has one view of the node for the
  poller and one lock for both kinds of waiting: `PollsRealNode` and
  `ExclusiveLock` justify it.

`Console` is built from the actions of `ProxyPort`, and `Chat` from those of
`LinkState`, so they keep to these specifications by construction;
`ImplementsProxyPort` and `Implements` are what shows that the server and the
breaker provide them.

To see the properties of the right column on the instance of a run, add them to
its `INVARIANTS` or `PROPERTIES` (`FileArrives` with `SPECIFICATION
Undisturbed`).  They hold there; `ImplementsFiles` takes about four minutes.

Assumptions are those of the modules on their constants, and TLC evaluates
each: `RequestsAssumption` and `CallsAssumption` (the calls of a behaviour are
finitely many, which only `NoLostSwitch` needs), `ServerAssumption`,
`MaxSentAssumption`, `EngineAssumption` (files are sequences of at most
`MaxChunks` chunks), `NoConfigAssumption`, `AppAssumption`,
`ConsoleAssumption` and `ChatAssumption`.

The properties are not inductive, and each module adds what is missing:

- **Breaker.** `OneProberPerPeer` needs `OneProberEver` and `StopMapCoherent`:
  an entry of `probeStopMap` exists exactly when a prober was ever started for
  the peer, and is never removed.  That is what makes a second prober
  impossible, and also finding 1.  `DirectIsEarned` needs `SuccessIsReached`
  (a success on its way, in a goroutine, a channel or a prober, is of a peer
  that was reached, or of a call that brought no dialer; `reached` is a history
  variable, to which only a dialer that returns without an error adds).
  `SwitchesCounted` is a counting argument: each step adds one call to the set
  of those that decided, or of those whose prober upgraded, or to neither, and
  the counter follows.  For `Implements` each action maps to a step of the
  abstract link or to a stutter; `punched` is mapped to `reached`
  and `waived` to `Undialed`, the peers of calls without a dialer.
  `ProbedOnce` needs `StopMapCoherent` again; `DialerRoom` that a channel holds
  a value only when its goroutine has delivered it (`SentOnce`).
- **Server.** `RunningIsServed` needs `Mutex` (the lock), `Sections` and
  `Resting` (what the fields are inside and outside the critical sections) and
  `Unused` (a number has no listener, channel or loop before its `Start`).
  The loops enter through one fact only: a loop that finds the current quit
  channel open goes on, so while that channel is open every live loop lives.  `ActiveConnsExact` needs `Held`: what a loop
  is about to count is held by that loop alone.
  `LoopInv` adds which listener and which quit channel a loop can have read,
  from which `QueuedHeard` and `StopFreesLoops` follow.
- **Tunnel.** `EndsWhenComplete` (as long as the tunnel stands and nobody left,
  a direction ends only when it is complete) is the key, and `LosslessTunnel`
  follows from it; `Stages` and `InOrder` relate the copiers to the handler and
  what was written to what was sent.  `EndInv` says which connections are open
  at each stage and that `errChan` has a place for each copier still to come.
- **Engine.** `Origins` says that each session and each open file was
  announced by a call of `PrepareUpload` under that very ID.  With it every
  step of the engine is a step of `VerifiedFiles` or a stutter: a chunk reaches
  a file only under an ID that was announced for it.  There, `Kept` is
  inductive with types alone, and `OnDisk` is `Kept` read through the
  refinement.  `NoGaps` and `LastIsStored` give `InOrderIsWhole`.
  `Faithful` says that without edits a manifest lists exactly the file; with
  `OnDisk` and `InOrderIsWhole` it gives `FileArrives`.
- **Controller.** `ModeFollowsBoot` and `RunsUntilStop` tie mode, node and
  what runs to the place of `Startup`; `ViewOfFirst` says that an overview
  begun while the mode was `PRODUCTION` looked at the real node; `TornInv` that
  whoever holds a torn node got it from a fallback;
  `PeersBySource` that only a production start has a poller; `Winding` how far
  `Shutdown` is.
- **Engine, restarts.** A restart empties the domain of everything the
  invariant speaks of, so it needs no new conjunct.
- **Server, refinement.** `PortView` reads the abstract port off `isRunning`,
  the listener and its quit channel.  The two halves of `Start` and of `Stop`
  are the four moves of the port; every step of a loop is a stutter but for
  the connection it takes.
- **Console.** `BadgeInv` says that an uncrossed selection has only probes of
  its own peer in flight.  `SwitchInv` is what a lone click knows at each point
  of its handler (`Sure`), and what holds between clicks (`Settled`): a click
  that finds others, or Startup, under way gives up all of it by `unsure`.
  Steps of the list leave the switch alone and the other way round, which
  splits the proof in two.
- **Console, port.** `OneHandOnPort` is inductive with the types alone, and
  holds of any clicks, not only of those that meet nobody.
- **Chat.** `SeenInv` says that a call began with no more switches than its
  link has counted by now, and that a label which differs from the link began
  with fewer; it rests on every change to or from the relay being counted.
  `RelayInv` that a relayed link has been
  switched; `BeforeInv` says that an answered call
  stays answered, so what was stored before a call began precedes it in the
  list.  For the refinement `GetStatus` is a stutter, and `AppendMessage` is
  the moment of `Put`.

Only model-checked: everything under fairness (`EvaluationReturns`,
`NoDialerLeaks`, `RelayHeals`, `StoppedEnds`, `QueuedIsAnswered`,
`CopiersExit`, `LeavingEndsTunnel`, `ShutdownReturns`, `PeersFollow`), since the prover reasons about neither `ENABLED` nor fairness.
The disagreements of section 3 are counterexamples and need TLC only.

To check: `tlc -config Server.cfg MCSocksServer` and likewise for each run of
`PROJECT.json`; `tlapm SocksServerProofs.tla` and likewise for each module.

## 5. What is not modelled

- LiveKit tokens: one pure function of its arguments, which signs them.
- The rest of `main.go` (window options, the embedded assets, the second
  instance that shows the window) and `deploy/`: third-party configuration.
  That the shell runs Startup, Shutdown and the handlers side by side is the
  `Next` of `AppLifecycle`.
- The tabs, the transfer bar, the meeting grid, the toolbox and the
  configuration form of the console: they draw constants, or copy text.
- That the list of the console comes to agree with the program's: a later
  refresh repairs it, but with fairness the state space of `Console` is out of
  reach of TLC.
- `Listen` of both node managers has no caller, nor has `UpdatePeerStatus`;
  `GetPeers` of the simulated node is never reached, for only a production start
  has a poller.  `GetSessionStats`, `GetStats` and the handlers for development
  servers, SSH lines and configuration only read.
- Latencies, speeds, percentages, wording, log lines and JSON: no property is
  about them, and no decision in the code depends on them.
- What the network does beyond losing, delaying, repeating or reordering what
  passes between two programs; what a disk does beyond failing a write.

## 6. How the project grew, and what is left

First `CircuitBreaker` with the abstract `LinkState`; `SocksServer` and
`SocksTunnel`; `TransferEngine`; `Arbiter`, which `AppLifecycle` extends; and
the proofs of each.  Then `ProxyPort`, which the server implements; `Console`
over it; `Chat` over `LinkState` with the abstract `MessageLog`; both kinds of
node, with the constructor that chooses one, in `AppLifecycle`; restarts in
`TransferEngine`; and the proofs of each.  The two runs of the breaker became
one.  Then `VerifiedFiles`, which the engine implements, and the theorems
that go beyond the runs.

Left: liveness of the console on an instance small enough for TLC, and what the
two hazards without a property need, a poller that empties its list
(app.go:161) and a handshake with a deadline (socks5.go:170), which the code
does not have.
