------------------------------ MODULE Portfolio ------------------------------
(***************************************************************************)
(* The balances of the execution worker (execution_worker.js): its mirror  *)
(* of the portfolio, the reservations for orders in flight, and the sells  *)
(* by which intents, stops, caps, vetoes and a cash-out compete for one    *)
(* position.                                                               *)
(*                                                                         *)
(* The worker sends any number of orders before the first is answered.     *)
(* The exchange fills them in an order of its own and answers each with    *)
(* the portfolio as it stands then; answers can overtake each other, and   *)
(* the mirror takes over whichever comes last.  An order that fails goes   *)
(* to the store-and-forward queue and is sent again, without a             *)
(* reservation; if the store rejects it, the error skips the release and   *)
(* the units stay reserved.                                                *)
(*                                                                         *)
(* One unit of BTC costs one unit of USDT, so that cash and BTC together   *)
(* are always Cash and one number is a whole portfolio: price moves,       *)
(* profits and locked profits are left out.  When a stop, a cap or a       *)
(* profit is reached, and which fraction is sold, is left open.  So is     *)
(* whether an intent passes the gates that only refuse it: rate limit,     *)
(* cooldowns, penalty box, re-entry, averaging down, pattern cap.          *)
(***************************************************************************)
EXTENDS Naturals, Sequences, Bags, SequencesExt, FiniteSetsExt

CONSTANTS
  Cash,      \* USDT at the start
  Cap,       \* max_total_exposure_pct, in units
  MaxOrders, \* bound: orders in flight or queued at a time
  MaxKept    \* bound: units that rejected requests to the store leave reserved

ASSUME PortfolioAssumption ==
  /\ Cash \in Nat \ {0} /\ MaxOrders \in Nat \ {0}
  /\ MaxKept \in Nat
  /\ Cap \in 1..Cash

VARIABLES
  \* The exchange
  held,     \* BTC of the account; the rest of Cash is USDT
  sent,     \* orders under way to it, a bag
  answers,  \* its answers, in the order of the fills
  \* The worker
  btc,      \* _portfolio.btc
  rUsdt,    \* _reservedUsdt
  rBtc,     \* _reservedBtc
  queue,    \* the store-and-forward queue, a bag
  frozen,   \* _phic.emergency_freeze
  \* Observers
  cashout,  \* the first cash-out of this freeze: "no", "asked", "sold", or
            \* "lapsed" while the order of one before a thaw is on its way
  late,     \* BTC still being bought when it was asked for
  keptUsdt, \* units that stay reserved for buys that have failed
  keptBtc,  \* and for sells
  stale,    \* the mirror or the reservations have lost track, see LosesTrack
  loose     \* a buy has gone past the cap, see Loosens

account == <<held, sent, answers>>
mirror == <<btc, rUsdt, rBtc>>
kept == <<keptUsdt, keptBtc>>
observers == <<cashout, late, kept, stale, loose>>
vars == <<account, mirror, queue, frozen, observers>>

Sides == {"buy", "sell"}

\* What an order is for decides whether its units are reserved.
Purposes == {"intent", "defence", "cashout", "replay"}

Orders(sides, purposes) == [side : sides, qty : 1..(2 * Cash), by : purposes]
Order == Orders(Sides, Purposes)
Queued == [side : Sides, qty : 1..(2 * Cash)]

\* An answer, with the portfolio after the fill, and an answer about balances.
Answer == [order : Order, btc : 0..Cash]
Balance == [btc : 0..Cash]

TypeOK ==
  /\ held \in 0..Cash
  /\ IsABag(sent) /\ BagToSet(sent) \subseteq Order
  /\ answers \in Seq(Answer \cup Balance)
  /\ btc \in 0..Cash
  /\ rUsdt \in Nat /\ rBtc \in Nat
  /\ IsABag(queue) /\ BagToSet(queue) \subseteq Queued
  /\ frozen \in BOOLEAN
  /\ cashout \in {"no", "asked", "sold", "lapsed"}
  /\ late \in Nat
  /\ keptUsdt \in Nat /\ keptBtc \in Nat
  /\ stale \in BOOLEAN /\ loose \in BOOLEAN

-----------------------------------------------------------------------------
(* Sums                                                                    *)

Least(a, b) == IF a <= b THEN a ELSE b
Less(a, b) == IF a >= b THEN a - b ELSE 0

\* The quantities of those orders of a bag that are of a kind.
Total(bag, kind) == SumFunction([o \in BagToSet(bag) \cap kind |-> o.qty * bag[o]])

IsAnswered(a) == "order" \in DOMAIN a

\* The same of a sequence of answers, from the i-th on.
Quantity(a, kind) == IF IsAnswered(a) /\ a.order \in kind THEN a.order.qty ELSE 0

TotalFrom(seq, i, kind) ==
  SumFunctionOnSet([j \in 1..Len(seq) |-> Quantity(seq[j], kind)], i..Len(seq))

Buys == Orders({"buy"}, Purposes)
QueuedBuys == [side : {"buy"}, qty : 1..(2 * Cash)]

\* Units of an intent's orders in flight on one side.
Intents(side) == Orders({side}, {"intent"})
Reserved(side) == Total(sent, Intents(side)) + TotalFrom(answers, 1, Intents(side))

Room == BagCardinality(sent) + Len(answers) + BagCardinality(queue) < MaxOrders

-----------------------------------------------------------------------------

Init ==
  /\ held = 0 /\ btc = 0
  /\ sent = EmptyBag /\ answers = <<>> /\ queue = EmptyBag
  /\ rUsdt = 0 /\ rBtc = 0
  /\ frozen = FALSE
  /\ cashout = "no" /\ late = 0
  /\ keptUsdt = 0 /\ keptBtc = 0
  /\ stale = FALSE /\ loose = FALSE

With(bag, o) == bag (+) SetToBag({o})
Without(bag, o) == bag (-) SetToBag({o})

Submit(side, qty, purpose) ==
  sent' = With(sent, [side |-> side, qty |-> qty, by |-> purpose])

Enqueue(side, qty) == queue' = With(queue, [side |-> side, qty |-> qty])

-----------------------------------------------------------------------------
(* Intents                                                                 *)

\* Mutant of Exposure: the buys in flight are forgotten.
ExposureOfFills == Less(btc, rBtc)

\* The exposure that counts against the cap: sells in flight are taken off,
\* buys in flight added.
Exposure == Less(btc, rBtc) + rUsdt

AvailUsdt == Less(Cash - btc, rUsdt)
AvailBtc == Less(btc, rBtc)
Headroom == Less(Cap, Exposure)

\* What a buy may amount to: it is clamped to the headroom, and only then is the
\* cross-exchange arbitrage scaled, up to twice.
Sizes(arbitrage) ==
  LET most == Least(AvailUsdt, Headroom) IN
  1..(IF arbitrage THEN 2 * most ELSE most)

BuyIntent ==
  /\ Room /\ ~frozen
  /\ AvailUsdt > 0 /\ Headroom > 0
  /\ \E arbitrage \in BOOLEAN :
       \E qty \in Sizes(arbitrage) :
         /\ loose' = (loose \/ qty > Headroom)
         /\ \/ /\ Submit("buy", qty, "intent")
               /\ rUsdt' = rUsdt + qty
               /\ UNCHANGED queue
            \/ /\ Enqueue("buy", qty)      \* offline
               /\ UNCHANGED <<sent, rUsdt>>
  /\ UNCHANGED <<held, answers, btc, rBtc, frozen, cashout, late, kept, stale>>

SellIntent ==
  /\ Room /\ ~frozen
  /\ \E qty \in 1..AvailBtc :
       \/ /\ Submit("sell", qty, "intent")
          /\ rBtc' = rBtc + qty
          /\ UNCHANGED queue
       \/ /\ Enqueue("sell", qty)
          /\ UNCHANGED <<sent, rBtc>>
  /\ UNCHANGED <<held, answers, btc, rUsdt, frozen, observers>>

-----------------------------------------------------------------------------
(* Sells in defence: none is reserved, none asks what is in flight.        *)

Defend(qty) ==
  /\ Room
  /\ btc > 0
  /\ Submit("sell", qty, "defence")
  /\ UNCHANGED <<held, answers, mirror, queue, frozen, observers>>

\* A buy was refused at the cap.
CapTrim == ~frozen /\ Exposure >= Cap /\ \E qty \in 1..btc : Defend(qty)

StopLoss == ~frozen /\ \E qty \in 1..btc : Defend(qty)

TrailingStop == ~frozen /\ \E qty \in 1..btc : Defend(qty)

RegimeExit == ~frozen /\ \E qty \in 1..btc : Defend(qty)

VaultSweep == ~frozen /\ Defend(btc)

\* These do not ask for the freeze.
PatternVeto == Defend(btc)

FloorBreach == Defend(btc)

BankExtract == \E qty \in 1..Less(btc, 1) : Defend(qty)

-----------------------------------------------------------------------------
(* The cash-out                                                            *)

Freeze ==
  /\ ~frozen
  /\ frozen' = TRUE
  /\ UNCHANGED <<account, mirror, queue, observers>>

Thaw ==
  /\ frozen
  /\ frozen' = FALSE
  /\ cashout' = IF cashout \in {"asked", "lapsed"} THEN "lapsed" ELSE "no"
  /\ late' = 0
  /\ UNCHANGED <<account, mirror, queue, kept, stale, loose>>

\* What is under way: buys not filled, or filled and not yet in the mirror.
UnderWay ==
  Less(held, btc) + Total(sent, Buys) + Total(queue, QueuedBuys)

\* The first cash-out of a freeze is the one that is observed.
Flatten(qty) ==
  /\ Room
  /\ IF cashout # "no"
     THEN /\ IF qty = 0 THEN UNCHANGED sent ELSE Submit("sell", qty, "defence")
          /\ UNCHANGED <<cashout, late>>
     ELSE /\ IF qty = 0 THEN UNCHANGED sent ELSE Submit("sell", qty, "cashout")
          /\ cashout' = IF qty = 0 THEN "sold" ELSE "asked"
          /\ late' = UnderWay
  /\ UNCHANGED <<held, answers, mirror, queue, frozen, kept, stale, loose>>

\* Mutant of HandleCashout: what other sells have reserved is left to them.
CashoutAvailable == frozen /\ Flatten(AvailBtc)

\* The hub freezes the worker before it sends the cash-out.
HandleCashout == frozen /\ Flatten(btc)

-----------------------------------------------------------------------------
(* The exchange                                                            *)

\* A buy is filled as far as the cash goes, a sell as far as the BTC does.
Filled(o) == IF o.side = "buy" THEN Least(o.qty, Cash - held) ELSE Least(o.qty, held)

\* The cash-out's order has come to an end.
After(o, end) ==
  IF o.by # "cashout" THEN cashout ELSE IF cashout = "asked" THEN end ELSE "no"

Fill(o) ==
  /\ Filled(o) > 0
  /\ held' = IF o.side = "buy" THEN held + Filled(o) ELSE held - Filled(o)
  /\ sent' = Without(sent, o)
  /\ answers' = Append(answers, [order |-> o, btc |-> held'])
  /\ cashout' = After(o, "sold")
  /\ UNCHANGED <<mirror, queue, frozen, late, kept, stale, loose>>

\* GET /v1/account/balances
Balances ==
  /\ Room
  /\ answers' = Append(answers, [btc |-> held])
  /\ UNCHANGED <<held, sent, mirror, queue, frozen, observers>>

-----------------------------------------------------------------------------
(* Answers                                                                 *)

\* Mutant of Release: only the cash is released.
ReleaseUsdt(o, rb) ==
  /\ rUsdt' = IF o.by = "intent" /\ o.side = "buy" THEN Less(rUsdt, o.qty) ELSE rUsdt
  /\ rBtc' = rb

\* After the answer the reservation of an intent's order is released.
Release(o, rb) ==
  /\ rUsdt' = IF o.by = "intent" /\ o.side = "buy" THEN Less(rUsdt, o.qty) ELSE rUsdt
  /\ rBtc' = IF o.by = "intent" /\ o.side = "sell" THEN Less(rb, o.qty) ELSE rb

\* Mutant of Receive: the mirror counts on orders being filled in full.
ReceiveInFull(i) ==
  LET a == answers[i] IN
  /\ IsAnswered(a)
  /\ btc' = IF a.order.side = "buy" THEN btc + a.order.qty ELSE Less(btc, a.order.qty)
  /\ Release(a.order, IF a.btc = 0 THEN 0 ELSE rBtc)
  /\ keptBtc' = IF a.btc = 0 THEN 0 ELSE keptBtc
  /\ answers' = RemoveAt(answers, i)
  /\ stale' = (stale \/ i > 1)
  /\ UNCHANGED <<held, sent, queue, frozen, cashout, late, keptUsdt, loose>>

\* LosesTrack: an answer overtakes another, or is lost, or the reservations are
\* cleared under the orders in flight.
Receive(i) ==
  LET a == answers[i] IN
  /\ IsAnswered(a)
  /\ btc' = a.btc
  /\ Release(a.order, IF a.btc = 0 THEN 0 ELSE rBtc)
  /\ keptBtc' = IF a.btc = 0 THEN 0 ELSE keptBtc
  /\ answers' = RemoveAt(answers, i)
  /\ stale' = (stale \/ i > 1)
  /\ UNCHANGED <<held, sent, queue, frozen, cashout, late, keptUsdt, loose>>

\* _syncFromExchange
Sync(i) ==
  LET a == answers[i] IN
  /\ ~IsAnswered(a)
  /\ btc' = a.btc
  /\ rUsdt' = 0 /\ rBtc' = 0 /\ keptUsdt' = 0 /\ keptBtc' = 0
  /\ answers' = RemoveAt(answers, i)
  /\ stale' = (stale \/ BagToSet(sent) # {} \/ Len(answers) > 1)
  /\ UNCHANGED <<held, sent, queue, frozen, cashout, late, loose>>

\* The store rejects the failed order of an intent: _enqueueSAF throws, and
\* _handleIntent does not come to the release.
KeepsReservation(o) ==
  /\ o.by = "intent"
  /\ keptUsdt + keptBtc + o.qty <= MaxKept
  /\ keptUsdt' = IF o.side = "buy" THEN keptUsdt + o.qty ELSE keptUsdt
  /\ keptBtc' = IF o.side = "sell" THEN keptBtc + o.qty ELSE keptBtc
  /\ UNCHANGED <<rUsdt, rBtc, queue>>

\* Loosens: an intent's sell, which a buy may have counted on, has failed.
Fails(o) ==
  /\ \/ /\ Release(o, rBtc)
        /\ \/ Enqueue(o.side, o.qty)
           \/ UNCHANGED queue      \* a replay was running
        /\ UNCHANGED kept
     \/ KeepsReservation(o)
  /\ cashout' = After(o, "no")
  /\ loose' = (loose \/ (o.side = "sell" /\ o.by = "intent"))

\* 429, an error, nothing to fill it with, or no connection
Refuse(o) ==
  /\ sent' = Without(sent, o)
  /\ Fails(o)
  /\ UNCHANGED <<held, answers, btc, frozen, late, stale>>

\* The connection breaks after the fill.
LoseAnswer(i) ==
  /\ IsAnswered(answers[i])
  /\ Fails(answers[i].order)
  /\ answers' = RemoveAt(answers, i)
  /\ stale' = TRUE
  /\ UNCHANGED <<held, sent, btc, frozen, late>>

-----------------------------------------------------------------------------
(* The queue                                                               *)

\* _replaySAF: Loosens, if it is a buy, for the cap is not asked again.
Replay(q) ==
  /\ queue' = Without(queue, q)
  /\ Submit(q.side, q.qty, "replay")
  /\ loose' = (loose \/ q.side = "buy")
  /\ UNCHANGED <<held, answers, mirror, frozen, cashout, late, kept, stale>>

Expire(q) ==
  /\ queue' = Without(queue, q)
  /\ UNCHANGED <<account, mirror, frozen, observers>>

-----------------------------------------------------------------------------

Next ==
  \/ BuyIntent \/ SellIntent
  \/ CapTrim \/ StopLoss \/ TrailingStop \/ RegimeExit
  \/ VaultSweep \/ PatternVeto \/ FloorBreach \/ BankExtract
  \/ Freeze \/ Thaw \/ HandleCashout
  \/ \E o \in BagToSet(sent) : Fill(o) \/ Refuse(o)
  \/ Balances
  \/ \E i \in 1..Len(answers) : Receive(i) \/ Sync(i) \/ LoseAnswer(i)
  \/ \E q \in BagToSet(queue) : Replay(q) \/ Expire(q)

Spec == Init /\ [][Next]_vars

-----------------------------------------------------------------------------
(* Properties                                                              *)

\* An order's units are reserved until it ends and no longer, whatever the order
\* of fills, failures and releases (execution_worker.js 581-593, 686, 899-900).
\* "Release reservation regardless of outcome" (588) does not hold for orders that
\* fail and that the store rejects; those and no others stay reserved, until the
\* balances are fetched.  A flat position clears the BTC reservations of sells
\* that are still in flight.
ReservationsMatch ==
  ~stale => /\ rUsdt = Reserved("buy") + keptUsdt
            /\ rBtc <= Reserved("sell") + keptBtc

\* The mirror lags behind the account only by the answers still under way: orders
\* filled in part, refused or queued leave no difference between them that would
\* last (execution_worker.js 629-637, 726-733, 890-897).
MirrorCatchesUp == ~stale /\ answers = <<>> => btc = held

\* "cannot push total exposure past max_total_exposure_pct" (execution_worker.js
\* 515-516): what is held and being bought stays within the cap, the intents' sells
\* under way taken off, although intents are decided on a mirror that lags behind.
ExposureKept ==
  ~stale /\ ~loose =>
    held + Total(sent, Buys) <= Cap + Total(sent, Intents("sell"))

\* A cash-out leaves nothing but what was being bought when it was asked for,
\* however many other sells compete with it (execution_worker.js 819-847).
CashoutKept ==
  ~stale /\ cashout = "sold" => held <= late
=============================================================================
