# EchoForge in TLA+

A model of the coordination in EchoForge: how a trade on the wire becomes a signal, a
signal an order, who executes it, what happens to one that fails, and how the safety
workers stop and restart trading.  The modules are translated from the source; TLC checks
them on small instances, and TLAPS proves their safety properties for every value of the
constants.  Line numbers refer to `src/`; files named alone are in `browser/`,
`browser/workers/` or `daemon/src/`.

Contents: 1 the system, 2 the modules, 3 the runs, 4 fairness, 5 the proofs,
6 disagreements between code and documents, 7 what is not modelled, 8 what remains.

## 1. The system

EchoForge runs a node in a browser tab (`browser/`) or in a Node.js daemon
(`daemon/`).  A node is a page (`index.html`, or `runner.js`) that starts one web
worker per task and relays the messages between them: everything between two workers
passes through the page, by `postMessage`, except the trades, which go through a ring
buffer in shared memory.  Each worker is single-threaded, but lets other handlers run at
every `await`.  Tabs and daemons of a room gossip over WebRTC and, within one browser,
over a BroadcastChannel.  A Python bridge distributes the PHIC configuration; exchanges
are reached over HTTP and WebSocket.

```
exchange --> order book --ring--> nociceptor --> echoforge --> guardian --> execution --> exchange
   ^ adapter                          |             ^  peers      |            | queue
   |                                  +---- hub (page or daemon) -+------------+
                                             |  freeze, PHIC, sovereign
                                           mesh --> other tabs, daemon
```

| component | state it keeps | operations | modelled in |
|---|---|---|---|
| execution worker: queue (`execution_worker.js` 369-734, 923-987, 1325-1358) | the `saf_queue` store in indexedDB, `_replaying`, `_online` | submit an intent, enqueue a failure, replay pass, TTL, network status | ExecutionQueue |
| execution worker: balances and positions | `_portfolio`, reservations | intents, stops, caps, exits, cash-out, answers, sync | Portfolio |
| mesh: sovereignty (`mesh.js` 126-270, 463-812) | `_peerScores`, `_sovereignId`, `_electionHeld`, `_daemonAlive` | gossip, election, prune, daemon probe, intent routing | SovereignElection |
| mesh: regime quorum (`mesh.js` 374-494, 598-672) | `_regimeVotes`, `_committedVoteIds`, `_peerIds`, `_dedup` | propose, vote, commit, expire, presence | RegimeQuorum |
| echoforge worker | `_echoes`, ghost trades, reports of peers | signal, ghost, outcome, veto, clear skies, prune | EchoLifecycle |
| guardian (`guardian_worker.js`) | `_state`, seven clocks, windows of losses, wins and stop-losses | judge an intent, outcomes, portfolio, VPIN, macro state, reset, tab visibility, freeze | Guardian, SafetySignals |
| page hub (`index.html`) | `_phicState`, last sovereign, regime detector, heartbeats | dispatch intents, relay vault and freeze messages, restart silent workers | VaultProtocol, and the modules of its partners |
| daemon hub (`runner.js`) | `_phic`, the saved copy, `_daemonAutoThawSince`, its workers | configs, freezes, cash-out, automatic thaw, intents, restarts | DaemonHub |
| order book and nociceptor workers | book, volume averages, `_currentRegime`, `_passiveOnly` | write ticks, poll, latency, filter signals | Nociceptor, TickRing |
| VALR adapter (`adapters/valr-ws.js`) | socket, two timers | connect, time out, watch, reconnect | MarketFeed |
| bridge and Python (`src/ruvon_echoforge/`) | PHIC configuration, SQLite queue, statistics | serve configs, analyse | as a source of configs, in DaemonHub |
| dashboard, tracker, recorder, wire formats | presentation, configuration, logs | - | - |

What is hard, and what makes each part correct:

- **Queue.**  A replay pass spans many awaits; meanwhile intents fail,
  the entry expires, the tab crashes, another tab replays the same store.  A lost reply
  hides a fill.  Correct: an order is queued at most once, ends SUBMITTED or EXPIRED, is
  SUBMITTED only if filled, is executed again only if the first execution could not be
  known of, is retried at most so often, and does not stay queued.
- **Balances.**  Intents are decided on a mirror that lags behind the orders in flight, and
  ten kinds of sells compete for one position.  Correct: what is reserved is what is in
  flight, but for what a rejected store request keeps; the exposure cap holds, a cash-out
  leaves only what was still being bought.
- **Sovereignty.**  Three sources of truth (what the page was told last, what the
  execution worker claims, what the mesh follows) change on timers, gossip and probes while
  an intent is under way, and the page may be stopped and started meanwhile.  Correct: one
  executor per intent, no intent is lost by the tab that routes it, nobody waits for a silent
  sovereign, the daemon silences the tabs.
- **Regime quorum.**  Every tab counts votes for itself, among the peers it happens to
  know, over two transports of which one repeats messages.  Correct: a commit has real
  votes behind it, and votes come to rest.
- **Echoes.**  Outcomes, ghosts, peers, vetoes and clear skies all move an echo between
  its states.  Correct: a quorum of reports kills, with its cascade, and what is dead stays
  dead.
- **Guardian.**  Fifteen messages and timers move a five-state machine that keeps
  timestamps of when it may move back.  Correct: no timestamp outlives the state it was
  taken for, holds and retreats end without help, the others are told.
- **Vault and freeze in the page.**  Guardian, page and execution worker each keep an idea
  of the vault and the freeze; their messages cross, and any of them may be replaced.
- **Freeze in the daemon.**  Configs, alarms and operators freeze and thaw; workers act on
  copies.  Correct: copies follow the hub, an intent is judged under the freeze it was
  handed over under, a freeze by hand stands, an alarm ends.
- **Sensing.**  A lock-free ring, a worker that is started late, hidden or replaced, a
  socket that dies silently.  Correct: ticks stay whole, an alternating market raises
  no false crisis, signals pass only when they may, reading and the feed recover.

`PROJECT.json` lists the hazards one by one, each at its line, with the properties
that would catch it or the reason why none does.

## 2. The modules

```
SafLifecycle <-- refined by -- ExecutionQueue <-- ExecutionQueueProofs
SafetySignals <- refined by -- Guardian <-- GuardianProofs
      ^------- composed in --- VaultProtocol   }
                                DaemonHub      } <-- HostProofs
TickRing, MarketFeed <-- composed in -- Nociceptor <-- NociceptorProofs
SovereignElection <-- SovereignElectionProofs      RegimeQuorum <-- RegimeQuorumProofs
EchoLifecycle <-- EchoLifecycleProofs              Portfolio <-- PortfolioProofs
```

`MC<module>` adds to a module what only TLC needs (symmetry), and the `.cfg` files give
the constants.  Definitions named as a "Mutant of" another are plausible bugs, kept to
show that each property can fail; no specification uses them.

**ExecutionQueue** — an order from the intent to its fill or expiry.  Every handler is
cut at its awaits: `HandleIntent` or `SubmitDefensively` (stop-loss and other sells,
which bypass the intent path), the request on the `wire`, `ReplyToCall`, `AddEntry`
(`store.add`); a pass goes `BeginReplay`, `LoadPending`, `TakeEntry`, `ReplyToPass`,
`MarkEntry`, `EndReplay` with `phase` as its program counter and `todo`, `cur`, `seen`
as its locals.  The exchange may fill, refuse or lose a reply, and a request of a dead
worker may still arrive (`StrayArrives`).  `Crash` keeps the store and drops
everything else; `FailPass` and `FailAdd` are rejected indexedDB requests.  Prices,
quantities, the freeze and the other checks that drop an intent before it becomes an order
are left to Portfolio; a replay pass asks none of them (section 6).
`unrecorded`, `fills` and `attempts` are observers: nothing reads them.

**SafLifecycle** — the promise of the queue for one order: NONE, PENDING, then
SUBMITTED after a fill, or EXPIRED, and never back.

**Portfolio** — the same worker, seen from its balances.  One unit of BTC costs one unit
of USDT, so that a single number is a whole portfolio.  `BuyIntent` and `SellIntent`
compute what is available and the headroom as the code does, from mirror and reservations;
eight further sells are actions of their own, because they differ in whether they look at
the freeze and how much they sell.  The exchange fills orders in any order and answers with the
portfolio of that moment; `Receive` takes answers in any order.  When the store rejects the
entry of an order that has failed, its reservation stays for good (`KeepsReservation`), and
`keptUsdt` and `keptBtc` observe how much.  `stale` marks that the
mirror or the reservations have lost track, `loose` that a buy has gone past the cap by a
way the code leaves open (section 6); the properties are about states where neither is
set.

**SovereignElection** — elections and the route of an intent.  A score is a small
number and its exponential average any value between the old one and the measurement;
the clock is reduced to whether a peer is `stale` and a tab is `cooling`.  Peers that
are not under study are sources of scores.  `HandleEcho`, `ElectSovereign` (with the
prune loop that stops at the sovereign), `ProbeAnswered`, `ProbeFailed`, `Stop`, `Start` and
`Respawn` interleave with `Approve`, `HandBack`, `DaemonHandles`, `Reply`,
`PostFails`.  "Executed" means handed to an execution worker: from there on it is
ExecutionQueue's.  A tab is assumed to have its own execution enabled.  STOP empties
`_workers` and leaves the mesh alone, so between `Stop` and `Start` a tab elects, probes and
waits for its POST without a worker (`staffed`); START wires new workers in one step, as the
page awaits the mesh before it does (`index.html` 1988-2000).  The heartbeat outlives STOP, and
puts an execution worker back six seconds later (`Respawn`).  `interrupted` observes that an
intent was on its way when its tab lost its worker.

**RegimeQuorum** — `Sample` is what a detector reads, `Propose` a proposal (with the
proposer's own vote), `Deliver` a vote, which may answer with a vote and complete a quorum
(`CheckRegimeQuorum`).  Presence is per transport, because `_peerIds` counts a peer reached
both ways twice.  `Leave` drops a peer whether it is closed or not: a throttled tab is silent
for 20 s, a WebRTC connection breaks.  `Lose` is a vote lost on WebRTC.  Regimes are
severities; vote_ids are used again when no trace of them is left, which keeps the model
finite.  `cast` observes who has voted.

**EchoLifecycle** — the echoes of one pattern, one for each regime.  An echo is a record;
aliveness is one of three levels, cut by the thresholds the code compares it with, and how
far an outcome moves it is left open within what the formulas allow.  Each message of the
worker is an action; it follows the worker's contract, so every message may come.

**Guardian** — the state machine of `guardian_worker.js`, all messages and timers.
The record `g` holds the state and the clocks that change with it; transitions are
functions on it (`Enter` is `_transitionState`, `Evaluate` is `_evaluate` with the
lenses), so a handler that makes several in a row is their composition.  Thresholds,
and the counters of losses, wins, stop-losses and trims, enter as the outcome of the
comparison made with them, as a parameter of the action.  `vault_enabled` keeps its default.

**SafetySignals** — what the guardian promises about holds and freezes: which changes
of them are announced to the page.  It is the abstract specification Guardian
implements (`holding <- g.state = "VAULT_HOLD"`, `freezing <- g.freeze # "off"`), and
at the same time the guardian that **VaultProtocol** composes with the page and the
execution worker: what is shown of the protocol holds for the guardian of the code.
VaultProtocol has the two channels from the page, the page's relay, its reset button,
clear-skies reset, freeze and thaw, and the replacement of either worker.

**DaemonHub** — governance in the daemon: four ways a config arrives (HTTP, WebSocket,
NATS, Python host), freezes by hand and by alarm, cash-outs, the automatic thaw, intents
from tabs, the five-minute save, a restart of the daemon and of the execution worker.
Each worker has an inbox and a copy of the freeze.  The nociceptor measures (`Measure`) and the
hub hears of it later (`HearVpin`); of a measurement the hub asks only whether it is below
`vpin_highvol_threshold`.  Nothing is assumed of how the thresholds compare, since all of them
are free PHIC fields.  The approval of the guardian ends an
intent (`GuardianJudges`), since the hub does not know the message it is sent by.

**TickRing**, **MarketFeed**, **Nociceptor** — TickRing has the writer's and the reader's
steps on the shared memory one by one, with heads that wrap where the code's wrap.
MarketFeed is the socket of the VALR adapter with its two timers.  Nociceptor composes both
with the order-book worker, which writes some trades twice, the two averages of volume, the
regime with its hysteresis, the latency check and the filter of signals (`Filter` is
`_runMetabolic`); its host is a page, which may be hidden and may replace it, or the daemon.
An average is `Decay` times the code's and rounded, `Decay` being 1 / `vpin_ewma_alpha`, so
that it stays an integer; a tick adds its volume, which may be any from `MinVolume` to
`MaxVolume` and is chosen when the tick is read.

## 3. The runs

All runs pass; `PROJECT.json` names for each property a mutant that breaks it.

| run | instance | question and why the bounds suffice |
|---|---|---|
| orders | 1 worker, 2 orders, 2 retries, 1 crash or rejected store request | Does the queue implement SafLifecycle, is every repeated fill explained by an outcome it could not see, and are attempts bounded?  Two orders share a pass, so one fails or is added while the pass handles the other; the failure hits every await. |
| drain | 2 workers, 1 order, 1 retry, 1 crash or rejected store request | Does every queued order end although two tabs replay one store, one of them may crash, and one may be left with a pass that never ends?  SUBMITTED means filled, and an order is never in two hands before it is queued.  The order of other entries plays no role in the end of one. |
| balances | 3 units of cash, cap 2, 2 orders in flight or queued, 2 units kept reserved | Do reservations, mirror, cap and cash-out survive fills, refusals, lost and overtaking answers, rejected store requests, replays and a sync?  Two orders are what it takes to compete; three units let a buy be partly covered, clamped and scaled; two kept units are both orders' reservations gone, or one and another. |
| election | 1 tab between 2 peers, scores 0-2, margin 2 | Whom the tab follows, and that a silent sovereign is replaced.  Peers on both sides of the tab's node_id exercise both tie-breaks; scores reach, touch and miss the margin. |
| intents | 1 tab and a better peer, with and without WebRTC, 2 intents | Is an approved intent executed, and only once unless a reply was lost, whatever elections, probes, STOP and START, replaced workers and the daemon do meanwhile?  A tab hands its intents to its own worker, the daemon or the peer, so other tabs matter only as peers; two intents share a worker, a stop and a daemon. |
| quorum | 3 tabs, 2 of them by BroadcastChannel, 2 by WebRTC, 1 vote_id, 1 closed tab | Has every commit real votes of half of the nodes known, while open peers are dropped and found again and votes are lost?  Three tabs give a node that is reached by either transport, one that hears of a vote second-hand, and a quorum that the proposer alone is not. |
| regimes | 2 tabs of one browser, 2 vote_ids, 1 forced regime | Do the votes about a proposal cease?  Two proposals at a time may contradict each other.  The question is about the echo of votes, which two tabs are enough for. |
| echoes | HighVol and Crisis, 2 reporting nodes, quorum 2, queue and record of 1 | Can an echo outlive a quorum of reports, or come back from the dead?  The two regimes are those a cascade joins; Clear Skies lifts to the level below the gate, as 0.50 is below 0.60. |
| machine | 1 message in the channel | The guardian under every order of messages and timers: clocks, contract, and that holds and retreats end.  The machine is finite; only the channel needed a bound, and the contract is about the step that posts. |
| channels | 3 messages per channel | Vault and freeze messages that cross.  Three is enough for an old message, a crossing one and a new one; the proofs cover every length. |
| governance | inboxes of 2 | Do the workers follow the daemon's hub, do intents obey the freeze they were handed over under, does a hand freeze stand and an alarm end?  Two messages are enough for an intent and the word it crosses; the proofs cover every length. |
| sensing | ring of 2 slots, heads wrap at 5, lag 2, averages that halve, one volume, 3 ticks of warm-up; thresholds and band of the code (70, 40, 8) | Do ticks stay whole until the writer laps the reader, is an alternating market no crisis, do signals pass only when they may, do reading and feed recover?  Slots and wrap are so small that every alignment of the two heads is reached; the lag lets the writer lap the reader.  Averages that halve are the hardest case for the thresholds and keep the run small; the theorem covers the code's weight and unequal volumes. |

The properties, beyond types:

- orders, drain: `RepeatFillsExplained`, `AttemptsBounded`, `ImplementsLifecycle` (these
  hold for one worker on the store only), `SubmittedWasFilled`, `OneHand`,
  `QueueDrains`.  `QueueDrains` lets the queue stand still only when a store request has failed
  for every worker.
- balances: `ReservationsMatch`, `MirrorCatchesUp`, `ExposureKept`, `CashoutKept`.
- election, intents: `FollowsKnownPeer`, `DaemonSilencesTabs`, `SilentSovereignReplaced`,
  `SovereignDecided`, `RunsExplained`, `IntentsKept`, `IntentsRun`.  `IntentsRun` names the ways
  an intent may die: refused by a daemon in observe mode, forwarded over WebRTC, or on its way
  when its tab was stopped or its worker replaced.  `IntentsKept` says that there is no other
  way to reach no worker, and that what was settled as done was handed to one.
- quorum, regimes: `CommitsBacked`, `VotesCease`.
- echoes: `NoQuorumSurvived`, `DeadStays`, `CascadeComplete`.
- machine, channels: `ClocksBelong`, `ImplementsSignals`, `RetreatEnds`, `HoldEnds`,
  `HoldAnnounced`, `FreezeAgrees`.
- governance: `CopiesAgree`, `FreezeGovernsIntents`, `ObservesUntilEnabled`, `HoldKept`,
  `AlarmsEnd`.
- sensing: `TicksIntact`, `NoFalseCrisis`, `PassesWarranted`, `FeedRead`, `FeedRecovers`.

The type invariant of every component is proved (section 5), so no run spends itself on it.

Bounds, all named constants: `MaxFailures` (queue: crashes and rejected store requests),
`MaxOrders`, `MaxKept` (balances), `MaxScore` (election), `MaxForced`, `MaxClosed` (regime
quorum), `MaxOut`, `MaxIn`, `MaxBox` (messages in a channel), `MaxLag` (unread ticks).
`MaxRetries`, `Quorum`, `MaxQueue`, `MinTrades`, `Capacity`, `Width`, `Batch`, `Warmup`,
`Decay` are the code's constants, made smaller.  Orders and reporting nodes are symmetric in
the safety runs that use it; node_ids are not, because ties are broken by them.  Stops,
starts and the heartbeat are not bounded.  Every run checks for deadlock.

## 4. Fairness

- Queue: the event loop runs what is ready, the drain timer fires every 30 s, fetches
  settle, requests to the store complete, an offline browser comes back.  Not assumed:
  that intents, expiry or failures ever happen.  Nor that
  the store serves every request: after one it rejects, no later pass of that worker starts
  (section 6), and `QueueDrains` then rests on another worker.
- Election: the 5 s timer, the end of the cooldown, messages within a page, and fetches
  that settle one way or the other.  Not assumed: gossip, probes, a live daemon.
- Regime quorum: a vote under way is delivered, on the BroadcastChannel of the run.  Not
  assumed: proposals, timeouts, or that peers are found.
- Guardian: its two `setInterval` timers, the passing of time, and the page taking its
  messages.  Nothing is assumed of the messages it receives.
- Daemon hub: the poll of the nociceptor, the hub's handling of its updates, workers that read
  their inboxes, and the passing of time, strong because the bound on messages interrupts it.
  `AlarmsEnd` is conditional on VPIN staying calm and on the daemon not restarting any more.
- Sensing: the 8 ms poll of a living worker, a write that is begun ends, the timers
  and events of the socket.  Not assumed: trades, latency samples, or a healthy network
  (`FeedRecovers` is conditional on the outages ending).
- Portfolio and EchoLifecycle state safety only: without a promise about how soon an
  answer or an outcome comes, the code promises no progress of its own.

## 5. The proofs

Every safety property of the runs, every action property, both refinements and the types of
every component are proved for all values of the constants, from the named assumptions
on them alone (`ConstantsAssumption`, `PortfolioAssumption`, `NodesAssumption`,
`QuorumAssumption`, `EchoAssumption`, `MaxOutAssumption`, `MaxInAssumption`,
`HubAssumption`, `RingAssumption`, `NociceptorAssumption`), with two exceptions named below:
three theorems about the queue assume that one worker uses the store, and one about VPIN
assumes something of its constants and of the volumes.

- **ExecutionQueueProofs**, for any number of workers on the store: types;
  `SubmittedWasFilled`; `OneHand`.  They need to know what each `phase` of a
  pass implies about the entry in hand, and that an order whose first call runs is in no pass
  and in no request but its caller's.  From that follows also that a pass and a first
  submission never share a request, so that no one takes the answer another awaits: the
  safety part of `QueueDrains`.
  For one worker (`SoleWorker`): `ImplementsLifecycle`, `RepeatFillsExplained`,
  `AttemptsBounded`.  The key of the first is that a sole worker's list is never stale:
  what it still holds is PENDING (`PassPending`).  The second is a balance: executions
  done or still possible are at most the unrecorded ones plus the one the worker knows
  of or waits for (`Balanced`).  The third balances attempts against `retry_count` likewise.
  With two workers on a store all three fail, and section 6 says how.
- **PortfolioProofs**: types, `ReservationsMatch`, `MirrorCatchesUp`, `ExposureKept`,
  `CashoutKept`, for any cash, cap and number of orders.  The ledgers are sums over bags of
  orders and sequences of answers; what a sum becomes when one order comes or goes is proved
  from the library's fold first, by the smallest counterexample, as the library's induction
  theorems cannot be used.  `ReservationsMatch` is inductive with the types; it counts what is
  kept along with what is in flight.  `ExposureKept` is not: a buy is decided on the mirror,
  so one must know that the account is at no time beyond what any portfolio under way will say
  plus the buys behind it (`MirrorBounds`), that every buy under way is reserved
  (`BuysByIntents`) and that the reservations fit under the cap.  `CashoutKept` rests on there
  being one cash-out order at a time (`OneCashout`), which covers the position but for what is
  coming (`CashoutCovers`).
- **SovereignElectionProofs**: types, `DaemonSilencesTabs`, `FollowsKnownPeer`,
  `RunsExplained`; for the last, executions are at most the replies lost plus one if the
  intent has left the stages in which nobody has executed it.  For the liveness
  properties, what the steps they wait for achieve: an election step of a tab whose sovereign
  is silent replaces it (`SilentSovereignYields`); one of a tab that has been told nothing
  tells it, since `_electionHeld` is never set before it is told (`FirstElectionDecides`);
  and `IntentsKept`, whose invariant says that a tab lacks a worker only after STOP, and that an
  intent still on its way then was on its way at STOP.
- **RegimeQuorumProofs**: types and `CommitsBacked`, for any number of tabs, links and
  votes.  The invariant says where a vote can be: whoever is counted, or is on the way to
  be, has voted, and a closed tab counts nobody.  That `_peerIds` may count a peer twice
  does no harm: half of too many is still half of those there are (`KnownBound`).
- **EchoLifecycleProofs**: types, `NoQuorumSurvived`, `DeadStays`, `CascadeComplete`, for
  any peers, quorum and bounds.  Most messages replace one echo; `Fits` says what its
  successor may be, and there is one lemma for each message.  Clear skies and a veto
  replace several and are treated on their own.
- **GuardianProofs**: types, `ClocksBelong`, and `ImplementsSignals` step by step.  The
  invariant is about the record: `Fits` (its type, and its clocks against its state) is
  preserved by each transition function, one lemma each, so a handler's proof is the
  composition of lemmas.  `Calms` says that a transition does not enter VAULT_HOLD and
  keeps the freeze; a handler made of such transitions maps to `Abandon` or a stutter.
- **HostProofs**, the two hosts of the workers.  VaultProtocol, the page: types,
  `HoldAnnounced`, `FreezeAgrees` for channels of any length.  `FreezeAgrees` alone is not
  inductive: the invariant adds that, while news of the freeze is under way to the guardian,
  the last of it is what the page believes (`NewsMatches`).
  DaemonHub: types, `CopiesAgree`, `FreezeGovernsIntents`, `ObservesUntilEnabled`,
  `HoldKept`, for inboxes of any length.  A copy is only as new as the
  messages its worker has read, so the invariant is about what a worker will have `Heard` after
  n of the messages that wait: after all of them, the hub's word (`Finally`); before an
  intent, the word the intent was handed over under (`Ordered`).
- **NociceptorProofs**: types, `TicksIntact`, `NoFalseCrisis`, `PassesWarranted`, and
  `SocketsWatched`, the safety part of `FeedRecovers`: what waits for the exchange has a timer
  armed.  The reader follows the writer at the distance of the ticks it is owed, modulo
  `Width`, and, as `Width % Capacity = 1`, slots follow one another over the wrap but for one
  repetition: hence `TicksIntact` for every ring and lag.  `NoFalseCrisis` comes from
  `Sound`: while ticks alternate, each once or twice, neither average exceeds five times the
  other, so VPIN stays below 67 % — by how the averages stand to each other after a tick of the
  one side, after two, and before any tick of the other.  It assumes `Decay >= 8`, `Warmup >= 3`,
  `CrisisAt >= 67` and `245 * MinVolume >= 218 * MaxVolume + 600`: volumes that differ by up to a
  tenth, where the 600 pay for rounding and vanish as the unit of volume becomes small.  The
  code's 50, 100 and 70 satisfy the first three.  Of the fourth nothing in the code makes
  sure (section 6).

Only model-checked: the liveness properties (`QueueDrains`, `SilentSovereignReplaced`,
`SovereignDecided`, `IntentsRun`, `VotesCease`, `RetreatEnds`, `HoldEnds`,
`AlarmsEnd`, `FeedRead`, `FeedRecovers`), since the proof system handles neither fairness nor
ENABLED.  No module uses a RECURSIVE operator, and no proof an induction theorem.

## 6. Disagreements

What the code does and a comment or document says otherwise, or what a reader would not
expect.  The models do what the code does; no property asks for the opposite.

Queue and balances:

- An order that fails during a replay pass is not queued: `_enqueueSAF` returns while
  `_replaying` is set (`execution_worker.js` 940), for every caller, though
  `TRADING_MANUAL.md` 752 describes the queue without this exception (`AfterEnqueue`).
- `_replaySAF` ignores `emergency_freeze`; `TRADING_MANUAL.md` 739 says the freeze stops
  all order submission (`TakeEntry` has no such guard).  A cash-out leaves queued buys, and the
  freeze then disables the stop-loss for them.
- With two tabs on a store, a pass with an old list overwrites the final status, or the
  `retry_count`, another tab has written (`MarkEntry`; `echo_logic.md` 798-799).
- A rejected request to the store leaves `_replaying` set for good (`FailPass`).  When it is the
  entry of a failed order that the store rejects (950-956), `_enqueueSAF` throws past the
  "Release reservation regardless of outcome" (588), and the reservation stays until the balances
  are fetched or the position is flat (`KeepsReservation`).
- "Cannot push total exposure past max_total_exposure_pct" (515-516) has five gaps: answers
  that overtake each other, a sell that the buy counted on and that fails, replayed buys
  (neither reserved nor gated), a sync that clears the reservations of orders in flight (899),
  and the arbitrage scale of up to 2 that comes after the clamp (528-532).  `stale` and
  `loose` mark exactly these.
- `CAP_TRIM` adds to `_lockedUsdt` before the sale, and when it fails (784), though "profit is
  only credited once the exchange confirms the fill" (1127-1128).  `_checkRegimeExit` sets
  `_entryRegime` after its await (1033), also when the position is flat by then.

Sovereignty and regimes:

- When a peer is sovereign and best, the election timer elects the tab itself
  (`mesh.js` 703-710; "defers to any incumbent with a higher score", 231), so that
  sovereignty alternates.
- An intent forwarded to a peer is addressed by node_id, which Trystero does not know, and
  vanishes (`mesh.js` 797; `TRADING_MANUAL.md` 233).
- An intent whose POST the daemon handled but whose reply was lost runs twice
  (`PostFails`; `RunsExplained` bounds it).
- An intent whose POST fails after STOP goes to `_workers.execution?.`, which is nobody
  (`index.html` 5170-5172, `mesh.js` 782-786), and is lost without a trace.
- `onPeerLeave` compares a Trystero identifier with `_sovereignId`, a node_id: a sovereign
  that leaves is noticed only by its silence.
- A quorum is "majority of all currently known nodes", but half is enough (644-648), and a
  peer reached over both transports is two of them.  Known is who was heard of lately: a
  throttled tab and a broken WebRTC connection leave `_peerIds` (374-386, 415-421), and the quorum
  is counted among those that remain.  When a commit is suppressed, its
  vote_id is not remembered (649-656): over WebRTC, which repeats messages, late votes are
  answered by votes; `VotesCease` is checked on the BroadcastChannel, which drops repeats.

Echoes:

- Gossip never reaches the peers: the page spreads the message over its own type
  (`index.html` 4460), and so with strain reports and pain maps; shadow_pass is not relayed at
  all.  In the present wiring neither a contested echo nor a quorum kill can come about.
  EchoLifecycle follows the worker's contract instead.
- "Dead: terminal until explicit PHIC un-veto" (`echoforge_worker.js` 17), but after 48 h the
  echo is pruned and made anew at the next signal (`Prune`).  Clear Skies lifts an echo to 0.50,
  "enough to clear execution threshold" (488-489), which is 0.60.

Guardian and page:

- HALTED never ends by a lower latency: `_evaluate` returns for HALTED (355) before the
  latency is read (1168 says it needs the latency to drop).  `reset_state`, a hidden tab
  or a stop-loss end it.
- VAULT_HOLD left otherwise than by recovery or reset leaves `_vaultMode` set in the
  execution worker (868; `execution_worker.js` 372).
- REDUCE_ONLY entered while the position is already flat, and without a duration, never ends by
  the timer (the flat clock starts only when the position becomes flat; comment at
  1199-1202); `_tabRestoreAt` of an earlier stay may cut a retreat of 15 minutes short
  (895; `echo_logic.md` 903); freeze recovery runs only when an intent arrives (280), while a
  frozen echoforge worker sends none (`echoforge_worker.js` 524); it also thaws a manual
  freeze (`index.html` 2931 says it does not); a freeze that crosses its thaw is undone;
  shadow mode still posts `vault_liquidate`.
- A worker replaced by the page's heartbeat gets `phic_update` but no `init`
  (`index.html` 2083-2090): an execution worker's store stays closed, and it takes itself for
  sovereign (`Respawn`); a nociceptor has no ring and measures nothing any more, and is not
  told that the tab is hidden (`Replace`).  In the queue model every restarted worker is
  initialised, as after a reload.

Daemon:

- The guardian approves with `guardian_forward`, the hub waits for `intent_route`
  (`runner.js` 920; comment 1131): the daemon's own intents end there.  Intents of tabs go by
  `/api/v1/intent`, past the guardian.
- `_manual_freeze` is set and never cleared: a thaw from the dashboard posts only
  `emergency_freeze: false` (`dashboard/src/lib/api.ts` 19-27), so that later alarms are
  never thawed automatically, contrary to `runner.js` 1240.
- The automatic thaw compares VPIN with `vpin_highvol_threshold` alone.  That and
  `vpin_crisis_threshold`, `vpin_hysteresis` and the override are free PHIC fields, which
  calibration sets too (`runner.js` 630-649), and an update may be older than what the nociceptor
  has measured since: the hub may thaw while the nociceptor is in Crisis.
- A freeze by HTTP, NATS or WebSocket is not saved before the five-minute timer and may be
  lost at a restart.  A config posted to the bridge is replaced as a whole, with defaults
  for what it does not name.  The daemon's freeze does not reach browser tabs.
- `runner.js` spreads a message over its own type in four places (1230, 1235, 1257, 1305):
  the guardian gets no `stop_loss_fired`, the nociceptor no inference signals.

Sensing:

- "Block signal pass" for a hidden tab (`nociceptor_worker.js` 202) lasts until the next good
  latency sample (`LatencySample`, `healthy`).
- Each BTC trade is written to the ring twice once there is a book (`orderbook_worker.js` 187,
  296), and other pairs with BTC's mid price, though "do NOT update … ring buffer" (175).
- VPIN weighs trades by volume, so a market whose sides alternate is a crisis if the buys are
  enough larger than the sells; the proof has a bound below which it is not.
- A reader is never told that it was lapped; 2^32 is 1 modulo 65535, so the last index
  before the wrap and the first after it share slot 0 (`Slot`).  Trades out of order let the
  averages grow instead of decay.
- The Binance adapter has neither the connect timer nor the watchdog of the VALR adapter.

## 7. What is not modelled

- Numeric signal processing (inference, correlation, macro state, Python analytics and echo
  engine): windows and floating-point statistics without protocol state.  What others decide
  from it is left open in their models.
- The Python queue: nothing but its tests calls it.
- The page's own automatic thaw as a clock (VaultProtocol lets it happen at any time), its
  periodic review, presentation, dashboard, corpus and replay endpoints, REST wrappers,
  session recorder, generated code, test doubles, third-party code: no state others depend on.
- The Python bridge's state is one configuration that each request replaces; the daemon's
  model takes any configuration at any time.
- Of the modelled parts: prices, profits, sizes and the ledgers per pattern; the strain and
  post-crisis gates beyond refusing an intent; `guardian_mode` (it changes whether a verdict is
  enforced, not the state machine); `vault_enabled = false`; connection set-up of WebRTC; the
  drawdown window and the suggestion engine of the echoforge worker; the alerts and the pain
  map of the nociceptor; the fields of PHIC other than freeze, manual freeze and
  `execution_disabled`.
- The exchange, the network and the daemon process are external actions, modelled from how the
  code uses them; the exchange of Portfolio from the mock exchange the repository brings.

## 8. What remains

In this order of worth: an abstract lossy queue that TickRing implements; the page's automatic
thaw and review in one model with Guardian's freeze recovery; DaemonHub composed with
SovereignElection, whose daemon is now only live or observing; the optimizer's feed in the
bridge.
