----------------------------- MODULE Nociceptor -----------------------------
(***************************************************************************)
(* From a trade on the wire to a signal let through: the order-book worker *)
(* (browser/workers/orderbook_worker.js) that writes trades to the ring    *)
(* buffer, and the nociceptor (browser/workers/nociceptor_worker.js) that  *)
(* reads them, measures the toxicity of the order flow (VPIN), keeps the   *)
(* regime, watches the latency and filters the signals.  Its host is a     *)
(* page, which may be hidden and replaces a nociceptor it takes for dead,  *)
(* or the daemon, which gets its trades from MarketFeed.                   *)
(*                                                                         *)
(* The averages of the two sides are integers, Decay times those of the    *)
(* code and rounded; the volume of a tick is left open until it is read;   *)
(* VPIN is in percent.  Whether an edge is above its hurdle is left open   *)
(* except where the hurdle is infinite, and so is the macro state, which   *)
(* other workers may change between any two signals.  Alerts, reports and  *)
(* the pain map leave the worker without an effect on it and are left out. *)
(***************************************************************************)
EXTENDS TickRing, MarketFeed

CONSTANTS
  MinVolume,  \* volumes of trades
  MaxVolume,
  Decay,      \* 1 / vpin_ewma_alpha, 50
  Warmup,     \* VPIN_WARMUP_TICKS
  CrisisAt,   \* vpin_crisis_threshold, in percent
  HighVolAt,  \* vpin_highvol_threshold: free fields, in either order
  Band        \* vpin_hysteresis

ASSUME NociceptorAssumption ==
  /\ Tick = {"buy", "sell"}
  /\ MinVolume \in Nat \ {0} /\ MaxVolume \in Nat /\ MinVolume <= MaxVolume
  /\ Decay \in Nat \ {0}
  /\ Warmup \in Nat
  /\ {CrisisAt, HighVolAt, Band} \subseteq Nat

VARIABLES
  host,      \* "page" or "daemon"
  \* The order-book worker
  booked,    \* it has a book: _bids or _asks is not empty
  again,     \* the trade it handles is still to be written a second time
  \* The nociceptor
  buyVol,    \* _buyVol and _sellVol, Decay times
  sellVol,
  warm,      \* _warmupTicks, up to Warmup
  regime,    \* _currentRegime
  passive,   \* _passiveOnly
  frozen,    \* _phic.emergency_freeze
  \* The page
  hidden,    \* the tab is hidden
  replaced,  \* the heartbeat has replaced the nociceptor
  \* Observers
  lastSide,  \* side of the last trade
  clean,     \* trades have alternated and were read as they were made
  healthy,   \* a good latency sample since the tab was hidden
  passed     \* the last step let a signal pass

marketVars == <<booked, again, lastSide>>
vpinVars   == <<buyVol, sellVol, warm, regime>>
modeVars   == <<passive, frozen, hidden, replaced, healthy>>
workerVars == <<marketVars, vpinVars, modeVars, clean>>
vars == <<host, feedVars, ringVars, workerVars, passed>>

Regime == {"LowVol", "HighVol", "Crisis"}

TypeOK ==
  /\ RingTypeOK
  /\ FeedTypeOK
  /\ host \in {"page", "daemon"}
  /\ booked \in BOOLEAN /\ again \in BOOLEAN
  /\ lastSide \in Tick \cup {None}
  /\ buyVol \in Nat /\ sellVol \in Nat
  /\ warm \in 0..Warmup
  /\ regime \in Regime
  /\ {passive, frozen, hidden, replaced, healthy, clean, passed} \subseteq BOOLEAN

Init ==
  /\ RingInit
  /\ \/ host = "page" /\ link = "none" /\ armed = {}
     \/ host = "daemon" /\ link = "connecting" /\ armed = {"connect"}
  /\ dead = FALSE
  /\ booked = FALSE /\ again = FALSE
  /\ lastSide = None
  /\ buyVol = 0 /\ sellVol = 0
  /\ warm = 0
  /\ regime = "LowVol"
  /\ passive = FALSE /\ frozen = FALSE
  /\ hidden = FALSE /\ replaced = FALSE /\ healthy = FALSE
  /\ clean = TRUE /\ passed = FALSE

-----------------------------------------------------------------------------
(* The order-book worker                                                   *)

\* A page has feeds of its own, and makes trades up when they fail.
Fed == host = "page" \/ Live

\* A BTC trade is written once by its handler, and once more by _emitTick if
\* there is a book.
Trade(side) ==
  /\ Fed
  /\ Len(owed) < MaxLag
  /\ ~again
  /\ BeginWrite(side)
  /\ again' = booked
  /\ lastSide' = side
  /\ clean' = (clean /\ side # lastSide)
  /\ UNCHANGED <<booked, vpinVars, modeVars>>

WriteAgain ==
  /\ again
  /\ BeginWrite(lastSide)
  /\ again' = FALSE
  /\ UNCHANGED <<booked, lastSide, vpinVars, modeVars, clean>>

\* A trade of another pair, which only the daemon hands on: _emitTick writes it
\* if there is a book.
OtherTrade(side) ==
  /\ Fed
  /\ host = "daemon"
  /\ Len(owed) < MaxLag
  /\ ~again
  /\ booked
  /\ BeginWrite(side)
  /\ clean' = FALSE
  /\ UNCHANGED <<marketVars, vpinVars, modeVars>>

FinishWrite ==
  /\ Publish
  /\ UNCHANGED <<marketVars, vpinVars, modeVars, clean>>

\* l2_snapshot and l2_delta fill or empty the book, a reset of the feed
\* empties it.
ChangeBook ==
  /\ Fed
  /\ filling = None /\ ~again
  /\ booked' = ~booked
  /\ UNCHANGED <<ringVars, again, lastSide, vpinVars, modeVars, clean>>

-----------------------------------------------------------------------------
(* VPIN and the regime                                                     *)

\* What a tick leaves of a moving average, to the nearest integer.
Decayed(average) == (average * (Decay - 1) + Decay \div 2) \div Decay

\* Mutant of Vpin: no warm-up.
VpinAtOnce(b, s, w) ==
  IF b + s = 0 THEN 0
  ELSE (100 * (IF b > s THEN b - s ELSE s - b)) \div (b + s)

Vpin(b, s, w) ==
  IF w < Warmup \/ b + s = 0 THEN 0
  ELSE (100 * (IF b > s THEN b - s ELSE s - b)) \div (b + s)

\* _getRegime: a regime is entered at its threshold and left a band below it.
NextRegime(v) ==
  CASE regime # "Crisis" /\ v >= CrisisAt -> "Crisis"
    [] regime = "LowVol" /\ HighVolAt <= v /\ v < CrisisAt -> "HighVol"
    [] regime = "HighVol" /\ v + Band < HighVolAt -> "LowVol"
    [] regime = "Crisis" /\ v + Band < CrisisAt -> "HighVol"
    [] OTHER -> regime

\* _pollRingBuffer, every 8 ms: a batch is begun if there are ticks.
BeginPoll ==
  /\ BeginRead
  /\ UNCHANGED <<marketVars, vpinVars, modeVars, clean>>

\* A tick of the batch goes into the averages; after the last one the worker
\* takes VPIN and the regime from them.
PollTick(side, volume) ==
  /\ side \in Readable
  /\ ReadSlot
  /\ buyVol' = Decayed(buyVol) + IF side = "buy" THEN volume ELSE 0
  /\ sellVol' = Decayed(sellVol) + IF side = "sell" THEN volume ELSE 0
  /\ warm' = Min({warm + 1, Warmup})
  /\ regime' = IF left = 1 THEN NextRegime(Vpin(buyVol', sellVol', warm'))
                           ELSE regime
  /\ clean' = (clean /\ side = Head(owed))
  /\ UNCHANGED <<marketVars, modeVars>>

-----------------------------------------------------------------------------
(* The proprioceptor, the page and the operator                            *)

\* A handler runs between polls.
Idle == left = 0

\* Mutant of LatencySample: a sample below the ceiling is good enough.
LatencyBelowCeiling ==
  /\ Idle
  /\ \E level \in {"bad", "between", "good"} :
       /\ passive' = (level = "bad")
       /\ healthy' = (healthy \/ (hidden /\ level = "good"))
  /\ UNCHANGED <<ringVars, marketVars, vpinVars, frozen, hidden, replaced, clean>>

\* _checkProprioceptor: above a ceiling, below 70 % of both, or between.
LatencySample ==
  /\ Idle
  /\ \E level \in {"bad", "between", "good"} :
       /\ passive' = CASE level = "bad" -> TRUE
                       [] level = "good" -> FALSE
                       [] OTHER -> passive
       /\ healthy' = (healthy \/ (hidden /\ level = "good"))
  /\ UNCHANGED <<ringVars, marketVars, vpinVars, frozen, hidden, replaced, clean>>

Hide ==
  /\ host = "page"
  /\ Idle
  /\ ~hidden
  /\ hidden' = TRUE
  /\ passive' = TRUE
  /\ healthy' = FALSE
  /\ UNCHANGED <<ringVars, marketVars, vpinVars, frozen, replaced, clean>>

\* tab_visible changes nothing in the worker.
Show ==
  /\ Idle
  /\ hidden
  /\ hidden' = FALSE
  /\ healthy' = FALSE
  /\ UNCHANGED <<ringVars, marketVars, vpinVars, passive, frozen, replaced, clean>>

\* phic_update.
SetFreeze ==
  /\ Idle
  /\ frozen' = ~frozen
  /\ UNCHANGED <<ringVars, marketVars, vpinVars, passive, hidden, replaced,
                 healthy, clean>>

\* "init" brings the ring buffer and starts the polls.
StartNociceptor ==
  /\ ~reader
  /\ ~replaced
  /\ Attach
  /\ UNCHANGED <<marketVars, vpinVars, modeVars, clean>>

\* Three pings without an answer: the page starts a new nociceptor and sends
\* it the settings, but not the ring buffer, nor that the tab is hidden.
Replace ==
  /\ host = "page"
  /\ reader
  /\ replaced' = TRUE
  /\ Detach
  /\ buyVol' = 0 /\ sellVol' = 0 /\ warm' = 0
  /\ regime' = "LowVol"
  /\ passive' = FALSE
  /\ UNCHANGED <<marketVars, frozen, hidden, healthy, clean>>

-----------------------------------------------------------------------------
(* The metabolic filter                                                    *)

\* STRATEGY_TYPE, one pattern of each type.
Pattern == {"MOMENTUM_V1", "DEPTH_GRAB", "SUPERTREND_CROSS", "WHALE_WAKE",
            "ARBI_CROSS_EXCHANGE", "REVERSION_A", "VOLATILITY_BREAKOUT"}
Directional == {"MOMENTUM_V1", "SUPERTREND_CROSS", "REVERSION_A"}
Maker == "DEPTH_GRAB"
Arb == "ARBI_CROSS_EXCHANGE"

\* A signal: the regime is the one its sender believes in, against says that
\* its direction is against the trend it carries, lagged that the lead it
\* exploits is at least 10 ms.
Signal == [pattern : Pattern, tag : Regime, against : BOOLEAN, lagged : BOOLEAN]

\* _macroState with macro_enabled: a trending market, a thin book.
Macro == [trending : BOOLEAN, thin : BOOLEAN]

\* REGIME_REQUIREMENTS.
Allowed(pattern) ==
  IF pattern = "VOLATILITY_BREAKOUT" THEN {"HighVol", "Crisis"} ELSE Regime

\* Only patterns that trade on direction are kept from fighting the trend.
FightsTrend(sig, macro) ==
  macro.trending /\ sig.against /\ sig.pattern \in Directional

\* _macroPreFactor vetoes resting orders in a thin book: no edge is enough.
HurdleInfinite(sig, macro) == macro.thin /\ sig.pattern = Maker

\* _runMetabolic.  A gated or vetoed pattern is traded on paper even while the
\* worker is frozen or passive; clears says that the net edge reaches the
\* hurdle.
Filter(sig, macro, vetoed, clears, freeze, wait) ==
  IF sig.tag \notin Allowed(sig.pattern) \/ vetoed THEN "shadow"
  ELSE IF \/ freeze \/ wait
          \/ FightsTrend(sig, macro) \/ HurdleInfinite(sig, macro)
          \/ sig.pattern = Arb /\ ~sig.lagged
          \/ ~clears
       THEN "drop" ELSE "pass"

\* The answers a worker may give that is frozen, or passive, or not.
Answers ==
  [freeze \in BOOLEAN |-> [wait \in BOOLEAN |->
     {a \in {"pass", "drop", "shadow"} :
        \E sig \in Signal, macro \in Macro, vetoed, clears \in BOOLEAN :
          a = Filter(sig, macro, vetoed, clears, freeze, wait)}]]

OnSignal ==
  /\ Idle
  /\ passed' \in {a = "pass" : a \in Answers[frozen][passive]}
  /\ UNCHANGED <<host, feedVars, ringVars, workerVars>>

-----------------------------------------------------------------------------
Trades ==
  \/ \E side \in Tick : Trade(side) \/ OtherTrade(side)
  \/ WriteAgain
  \/ FinishWrite
  \/ ChangeBook

Poll ==
  \/ BeginPoll
  \/ \E side \in Tick, volume \in MinVolume..MaxVolume : PollTick(side, volume)

Worker ==
  \/ Trades
  \/ Poll
  \/ LatencySample
  \/ Hide \/ Show
  \/ SetFreeze
  \/ StartNociceptor \/ Replace

\* What is no signal lets none pass; the worker and the socket step apart.
Apart == passed' = FALSE /\ UNCHANGED <<host, feedVars>>
Wire == passed' = FALSE /\ UNCHANGED <<host, ringVars, workerVars>>

Next ==
  \/ OnSignal
  \/ Worker /\ Apart
  \/ (Reconnection \/ Outage) /\ Wire

Spec == Init /\ [][Next]_vars

\* The poll is a timer of a living worker, a write that is begun ends, and the
\* timers and events of the socket come.
Fairness ==
  /\ WF_ringVars(Poll)
  /\ WF_ringVars(FinishWrite \/ WriteAgain)
  /\ WF_feedVars(Reconnection)

FairSpec == Spec /\ Fairness

-----------------------------------------------------------------------------
(* Properties                                                              *)

\* A market in which buys and sells of like volume alternate is not taken for
\* a crisis, though trades are written once or twice, the first ones meet empty
\* averages and the nociceptor may be started at any time, as long as no other
\* pair is traded and the reader is not overtaken (nociceptor_worker.js 129-134,
\* 231-263).  How much volumes may differ, NociceptorProofs says.
NoFalseCrisis == clean => regime # "Crisis"

\* No signal passes a frozen worker, nor one in a hidden tab unless a good
\* latency sample has come since the tab was hidden or the heartbeat has
\* replaced the worker (nociceptor_worker.js 201-208, 279-301, 404-408).
PassesWarranted ==
  [][passed' =>
       /\ ~frozen'
       /\ hidden' => healthy' \/ replaced']_vars

\* When the feed pauses the nociceptor reads what is left, unless it has been
\* replaced.
FeedRead == <>[][UNCHANGED <<head, filling>>]_vars => []<>(owed = <<>>)

\* Once the exchange stops failing, the daemon gets its trades again, whatever
\* state the outage left its socket in (valr-ws.js 66-130).
FeedRecovers ==
  <>[][~Outage]_vars => []<>(host = "daemon" => Live)
=============================================================================
