------------------------------ MODULE Guardian ------------------------------
(* The safety state machine of the guardian worker                          *)
(* (src/browser/workers/guardian_worker.js).  Every message the worker        *)
(* handles and every timer it sets is an action.  Prices, Sharpe ratios and   *)
(* the like, and the counts of losses, wins, stop-losses and cap trims in     *)
(* their sliding windows, appear as the outcome of the comparison the code    *)
(* makes with them: an input of the action.  A timestamp appears as a clock   *)
(* that is off, running, or over once the time the code waits for has passed. *)
(* guardian_mode is left out: it decides whether a verdict is enforced or     *)
(* logged, and the state machine runs the same in both modes.  vault_enabled  *)
(* keeps its default, true.                                                   *)
EXTENDS Naturals, Sequences

CONSTANT MaxOut   \* bound: messages waiting on their way to the page

ASSUME MaxOutAssumption == MaxOut \in Nat \ {0}

States == {"NOMINAL", "CAUTIOUS", "REDUCE_ONLY", "VAULT_HOLD", "HALTED"}
Clocks == {"off", "running", "over"}
Macros == {"clear", "grey", "compromised"}

VARIABLES
  g,      \* the state and the clocks that change with it, a Machine
  calm,   \* clock: VPIN has been below the HighVol threshold
  flat,   \* the portfolio, as last reported, holds no BTC
  macro,  \* the macro signals, as the vault governor reads them
  ready,  \* _macroReadyUnlocked
  slow,   \* _latencyMs exceeds halted_latency_ms
  out     \* messages posted to the page

vars == <<g, calm, flat, macro, ready, slow, out>>

Machine ==
  [state : States,
   retreat : Clocks,                           \* _tacticalRetreatUntil
   flatFor : Clocks,                           \* _positionFlatAt, 30 s
   restoring : Clocks,                         \* _tabRestoreAt, 60 s
   held : {"off", "running", "short", "full"}, \* _vaultHoldEnteredAt, 3, 15 min
   freeze : Clocks,                            \* _emergencyFreezeDetectedAt
   warm : BOOLEAN]                             \* _recoveryWarmupUntil is ahead

TypeOK ==
  /\ g \in Machine
  /\ calm \in Clocks
  /\ flat \in BOOLEAN
  /\ macro \in Macros
  /\ ready \in BOOLEAN
  /\ slow \in BOOLEAN
  /\ out \in Seq({"vault_liquidate", "vault_cleared", "thaw"})

Fresh ==
  [state |-> "NOMINAL", retreat |-> "off", flatFor |-> "off",
   restoring |-> "off", held |-> "off", freeze |-> "off", warm |-> FALSE]

Init ==
  /\ g = Fresh
  /\ calm = "off"
  /\ flat = TRUE
  /\ macro = "clear"
  /\ ready = FALSE
  /\ slow = FALSE
  /\ out = <<>>

Post(message) == /\ Len(out) < MaxOut
                 /\ out' = Append(out, message)

-----------------------------------------------------------------------------
(* Transitions.                                                             *)

\* Mutant of Enter: the end of a timed retreat is not reset.
EnterKeepingRetreat(m, new, timed) ==
  IF m.state = new
  THEN m
  ELSE [m EXCEPT
          !.state = new,
          !.retreat = IF timed THEN "running" ELSE @,
          !.flatFor = IF new # "REDUCE_ONLY" THEN "off" ELSE @,
          !.held = IF new = "VAULT_HOLD" THEN "running"
                   ELSE IF m.state = "VAULT_HOLD" THEN "off" ELSE @]

(* `_transitionState`, given the machine, the new state and whether a        *)
(* duration for REDUCE_ONLY is passed.                                       *)
Enter(m, new, timed) ==
  IF m.state = new
  THEN m
  ELSE [m EXCEPT
          !.state = new,
          !.retreat = IF new # "REDUCE_ONLY" THEN "off"
                      ELSE IF timed THEN "running" ELSE @,
          !.flatFor = IF new # "REDUCE_ONLY" THEN "off" ELSE @,
          !.held = IF new = "VAULT_HOLD" THEN "running"
                   ELSE IF m.state = "VAULT_HOLD" THEN "off" ELSE @]

Worried(m, sign) ==
  IF sign /\ m.state = "NOMINAL" THEN Enter(m, "CAUTIOUS", FALSE) ELSE m

CheckTacticalRetreat(m) ==
  IF m.state # "REDUCE_ONLY"
  THEN m
  ELSE IF m.retreat = "over" \/ (flat /\ m.flatFor = "over")
       THEN Enter(m, "CAUTIOUS", FALSE)
       ELSE IF m.restoring = "over"
            THEN Enter([m EXCEPT !.restoring = "off"], "CAUTIOUS", FALSE)
            ELSE m

(* slipped: the portfolio has lost more than the tolerance since the freeze. *)
CheckFreezeRecovery(m, slipped) ==
  IF m.freeze # "over" \/ calm # "over"
  THEN m
  ELSE IF slipped
       THEN [m EXCEPT !.freeze = "running"]
       ELSE Enter([m EXCEPT !.freeze = "off", !.warm = TRUE],
                  "CAUTIOUS", FALSE)

MayRetreat(m) == ~m.warm /\ m.state \notin {"REDUCE_ONLY", "HALTED"}

RetreatOn(m, sign) ==
  IF sign /\ MayRetreat(m) THEN Enter(m, "REDUCE_ONLY", TRUE) ELSE m

-----------------------------------------------------------------------------
(* Messages from the page.                                                  *)

(* The part of `_evaluate` that decides before the lenses: by the state, for *)
(* want of a position, or by the post-crisis and strain gates.               *)
GatedEarly(m, buy, gated) ==
  \/ m.state = "HALTED"
  \/ buy /\ m.state \in {"VAULT_HOLD", "REDUCE_ONLY"}
  \/ ~buy /\ flat
  \/ gated

(* losing: velocity_loss_n losses in a row.                                  *)
LensB(m, buy, losing, drawdown) ==
  LET w == Worried(m, losing)
      r == RetreatOn(w, drawdown)
  IN IF (r # w /\ buy) \/ ~slow THEN r ELSE Enter(r, "HALTED", FALSE)

(* conflict: another pattern has just asked for the opposite direction.      *)
(* settled: the direction lock or the thundering herd rule decides.          *)
Evaluate(m, buy, gated, conflict, settled, losing, drawdown) ==
  IF GatedEarly(m, buy, gated)
  THEN m
  ELSE IF buy /\ conflict
       THEN Worried(m, TRUE)
       ELSE IF settled THEN m ELSE LensB(m, buy, losing, drawdown)

Judged(buy, slipped, gated, conflict, settled, losing, drawdown) ==
  Evaluate(CheckFreezeRecovery(CheckTacticalRetreat(g), slipped),
           buy, gated, conflict, settled, losing, drawdown)

HandleIntent ==
  /\ \E buy, slipped, gated, conflict, settled, losing, drawdown \in BOOLEAN :
       /\ buy => ready
       /\ g' = Judged(buy, slipped, gated, conflict, settled, losing, drawdown)
  /\ IF g.freeze # "off" /\ g'.freeze = "off"
     THEN Post("thaw")
     ELSE UNCHANGED out
  /\ UNCHANGED <<calm, flat, macro, ready, slow>>

(* Any outcome but the win that completes auto_recover_wins in a row leaves  *)
(* the state as it is.                                                       *)
OnOutcome ==
  /\ g.state = "CAUTIOUS"
  /\ g' = Enter(g, "NOMINAL", FALSE)
  /\ UNCHANGED <<calm, flat, macro, ready, slow, out>>

(* The jury disagrees by more than the threshold.                            *)
OnJuryResult ==
  /\ g' = Worried(g, TRUE)
  /\ UNCHANGED <<calm, flat, macro, ready, slow, out>>

SeePosition(m, nowFlat) ==
  [m EXCEPT !.flatFor = IF ~nowFlat THEN "off"
                        ELSE IF flat THEN @ ELSE "running"]

(* The equity curve: three lower highs in a row, and the rolling Sharpe.     *)
OnPortfolioUpdate(nowFlat, lowerHighs, poorSharpe) ==
  /\ flat' = nowFlat
  /\ g' = Worried(RetreatOn(SeePosition(g, nowFlat), lowerHighs), poorSharpe)
  /\ UNCHANGED <<calm, macro, ready, slow, out>>

(* The episodes in the window reach the number n of the circuit breaker, or  *)
(* more than n.                                                              *)
OnStopLossFired(episodes) ==
  /\ g' = IF g.state = "REDUCE_ONLY"
          THEN g
          ELSE Enter(g, IF episodes = "n" THEN "CAUTIOUS" ELSE "REDUCE_ONLY",
                     FALSE)
  /\ UNCHANGED <<calm, flat, macro, ready, slow, out>>

(* Only the trim that reaches the count of the circuit breaker has an effect. *)
OnCapTrimFired ==
  /\ g' = Worried(g, TRUE)
  /\ UNCHANGED <<calm, flat, macro, ready, slow, out>>

OnMetricsUpdate(latencyHigh) ==
  /\ slow' = latencyHigh
  /\ UNCHANGED <<g, calm, flat, macro, ready, out>>

OnVpinUpdate(elevated) ==
  /\ calm' = IF elevated THEN "off"
             ELSE IF calm = "off" THEN "running" ELSE calm
  /\ UNCHANGED <<g, flat, macro, ready, slow, out>>

(* The browser's or the daemon's macro worker is ready, or 30 s have passed. *)
MacroReady ==
  /\ ~ready
  /\ ready' = TRUE
  /\ UNCHANGED <<g, calm, flat, macro, slow, out>>

\* Mutant of Compromised: a vault that is held is compromised again.
CompromisedAgain(m, signals) == ready /\ signals = "compromised"

Compromised(m, signals) ==
  ready /\ m.state \notin {"VAULT_HOLD", "HALTED"} /\ signals = "compromised"

\* Mutant of Recovered: a hold ends only when the position is flat.
RecoveredFlat(m, signals) ==
  /\ m.state = "VAULT_HOLD"
  /\ m.held \in {"short", "full"} /\ flat
  /\ signals = "clear"

Recovered(m, signals) ==
  /\ m.state = "VAULT_HOLD"
  /\ m.held = "full" \/ (flat /\ m.held = "short")
  /\ signals = "clear"

(* `_onMacroState`: the thin book gate, `_evaluateVaultSecurity` and         *)
(* `_checkVaultRecovery`, in this order.  A hold that has just begun has not *)
(* lasted long enough to end.                                                *)
OnMacroState(signals, thinAndQuiet) ==
  LET w == Worried(g, thinAndQuiet)
  IN /\ macro' = signals
     /\ \/ /\ Compromised(w, signals)
           /\ g' = Enter(w, "VAULT_HOLD", FALSE)
           /\ Post("vault_liquidate")
        \/ /\ Recovered(w, signals)
           /\ g' = Enter(w, "CAUTIOUS", FALSE)
           /\ Post("vault_cleared")
        \/ /\ ~Compromised(w, signals) /\ ~Recovered(w, signals)
           /\ g' = w
           /\ UNCHANGED out
     /\ UNCHANGED <<calm, flat, ready, slow>>

ResetState ==
  /\ g' = [g EXCEPT !.state = "NOMINAL", !.retreat = "off", !.held = "off"]
  /\ IF g.state = "VAULT_HOLD" THEN Post("vault_cleared") ELSE UNCHANGED out
  /\ UNCHANGED <<calm, flat, macro, ready, slow>>

TabHidden ==
  /\ g' = [Enter(g, "REDUCE_ONLY", FALSE) EXCEPT !.restoring = "off"]
  /\ UNCHANGED <<calm, flat, macro, ready, slow, out>>

TabVisible ==
  /\ g' = [g EXCEPT !.restoring = "running"]
  /\ UNCHANGED <<calm, flat, macro, ready, slow, out>>

(* A change of preset, seen as a jump of autonomy_level.                     *)
PresetChange ==
  /\ g.state = "REDUCE_ONLY" /\ g.freeze = "off"
  /\ g' = Enter(g, "CAUTIOUS", FALSE)
  /\ UNCHANGED <<calm, flat, macro, ready, slow, out>>

FreezeUpdate ==
  /\ g' = IF g.freeze = "off"
          THEN Enter([g EXCEPT !.freeze = "running"], "REDUCE_ONLY", FALSE)
          ELSE g
  /\ UNCHANGED <<calm, flat, macro, ready, slow, out>>

ThawUpdate ==
  /\ g' = [g EXCEPT !.freeze = "off"]
  /\ UNCHANGED <<calm, flat, macro, ready, slow, out>>

-----------------------------------------------------------------------------
(* Timers and the passing of time.                                          *)

\* Mutant of RetreatTimer: the timer looks after flat positions only.
FlatTimer ==
  /\ flat
  /\ g' = CheckTacticalRetreat(g)
  /\ UNCHANGED <<calm, flat, macro, ready, slow, out>>

RetreatTimer ==
  /\ g' = CheckTacticalRetreat(g)
  /\ UNCHANGED <<calm, flat, macro, ready, slow, out>>

VaultTimer ==
  /\ Recovered(g, macro)
  /\ g' = Enter(g, "CAUTIOUS", FALSE)
  /\ Post("vault_cleared")
  /\ UNCHANGED <<calm, flat, macro, ready, slow>>

Elapse(clock) ==
  /\ g[clock] = "running"
  /\ g' = [g EXCEPT ![clock] = "over"]
  /\ UNCHANGED <<calm, flat, macro, ready, slow, out>>

HoldLasts ==
  /\ \/ g.held = "running" /\ g' = [g EXCEPT !.held = "short"]
     \/ g.held = "short" /\ g' = [g EXCEPT !.held = "full"]
  /\ UNCHANGED <<calm, flat, macro, ready, slow, out>>

CalmLasts ==
  /\ calm = "running"
  /\ calm' = "over"
  /\ UNCHANGED <<g, flat, macro, ready, slow, out>>

WarmupOver ==
  /\ g.warm
  /\ g' = [g EXCEPT !.warm = FALSE]
  /\ UNCHANGED <<calm, flat, macro, ready, slow, out>>

Messages ==
  \/ HandleIntent
  \/ OnOutcome
  \/ OnJuryResult
  \/ \E nowFlat, lower, poor \in BOOLEAN : OnPortfolioUpdate(nowFlat, lower, poor)
  \/ \E episodes \in {"n", "more"} : OnStopLossFired(episodes)
  \/ OnCapTrimFired
  \/ \E latencyHigh \in BOOLEAN : OnMetricsUpdate(latencyHigh)
  \/ \E elevated \in BOOLEAN : OnVpinUpdate(elevated)
  \/ \E signals \in Macros, thin \in BOOLEAN : OnMacroState(signals, thin)
  \/ ResetState \/ TabHidden \/ TabVisible
  \/ PresetChange \/ FreezeUpdate \/ ThawUpdate

TimerClocks == {"retreat", "flatFor", "restoring", "freeze"}

Timers ==
  \/ RetreatTimer \/ VaultTimer \/ MacroReady
  \/ \E clock \in TimerClocks : Elapse(clock)
  \/ HoldLasts \/ CalmLasts \/ WarmupOver

-----------------------------------------------------------------------------
(* The page.                                                                *)

Deliver ==
  /\ out # <<>>
  /\ out' = Tail(out)
  /\ UNCHANGED <<g, calm, flat, macro, ready, slow>>

(* The heartbeat replaces a guardian that does not answer.  What it had      *)
(* posted may still be delivered.                                            *)
Respawn ==
  /\ g' = Fresh
  /\ calm' = "off" /\ flat' = TRUE
  /\ macro' = "clear" /\ ready' = FALSE /\ slow' = FALSE
  /\ out' \in {out, <<>>}

Next == Messages \/ Timers \/ Deliver \/ Respawn

Spec == Init /\ [][Next]_vars

(* The timers fire again and again, time passes, and the page takes what is  *)
(* posted to it.  Nothing is assumed about the messages the worker receives. *)
Fairness ==
  /\ WF_vars(RetreatTimer)
  /\ WF_vars(VaultTimer)
  /\ \A clock \in TimerClocks : WF_vars(Elapse(clock))
  /\ WF_vars(HoldLasts)
  /\ WF_vars(Deliver)

FairSpec == Spec /\ Fairness

-----------------------------------------------------------------------------
(* Properties.                                                              *)

(* A retreat is timed only in REDUCE_ONLY, a hold exactly in VAULT_HOLD,     *)
(* whichever of the ways in and out of a state was taken, the reset that     *)
(* bypasses _transitionState included.  A clock that survived would end the  *)
(* next retreat at once or let the next hold recover without its dwell.      *)
ClocksBelong ==
  /\ g.retreat # "off" => g.state = "REDUCE_ONLY"
  /\ g.held # "off" <=> g.state = "VAULT_HOLD"
  /\ g.flatFor # "off" => flat

(* What the page can rely on: which changes of holding and freezing are      *)
(* announced by a message, and in which order.                               *)
Signals == INSTANCE SafetySignals
             WITH holding <- g.state = "VAULT_HOLD", freezing <- g.freeze # "off"
ImplementsSignals == Signals!SignalsSpec

(* A retreat whose time is over comes to an end by the 30 s timer alone,     *)
(* without intents, or begins anew with one that finds the drawdown still    *)
(* there.                                                                    *)
RetreatEnds == g.retreat = "over" ~> g.retreat # "over"

(* Once the macro signals stay clear a hold ends, even if no macro state is  *)
(* reported any more.                                                        *)
HoldEnds == <>[](macro = "clear") => []<>(g.state # "VAULT_HOLD")

=============================================================================
