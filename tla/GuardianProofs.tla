--------------------------- MODULE GuardianProofs ---------------------------
(* Proofs about Guardian, for any length of its channel to the page: its      *)
(* types, the clocks that belong to its states, and that it implements        *)
(* SafetySignals.  Each of its steps is a chain of transitions of the record  *)
(* g; two facts go along such a chain.  Fits says that a machine is one the   *)
(* worker may be in, given whether the portfolio is flat, and Calms that a    *)
(* machine came from another without entering VAULT_HOLD.                     *)
EXTENDS Guardian, TLAPS

Fits(m, isFlat) ==
  /\ m \in Machine
  /\ m.retreat # "off" => m.state = "REDUCE_ONLY"
  /\ m.held # "off" <=> m.state = "VAULT_HOLD"
  /\ m.flatFor # "off" => isFlat

Calms(m, r) ==
  /\ r.state = "VAULT_HOLD" => m.state = "VAULT_HOLD"
  /\ r.freeze = m.freeze

IInv == TypeOK /\ Fits(g, flat)

-----------------------------------------------------------------------------
(* The transitions.                                                         *)

(* A transition leads to the state it names, takes the clocks that do not    *)
(* belong there away, and touches nothing else.                              *)
LEMMA EnterFits ==
  ASSUME NEW m, NEW isFlat \in BOOLEAN, Fits(m, isFlat),
         NEW new \in States, NEW timed \in BOOLEAN
  PROVE  /\ Fits(Enter(m, new, timed), isFlat)
         /\ Enter(m, new, timed).state = new
         /\ Enter(m, new, timed).freeze = m.freeze
<1> DEFINE e == Enter(m, new, timed)
<1>1. CASE m.state = new
  BY <1>1 DEF Enter
<1>2. CASE m.state # new
  <2> DEFINE b == IF new # "REDUCE_ONLY" THEN "off"
                  ELSE IF timed THEN "running" ELSE m.retreat
             c == IF new # "REDUCE_ONLY" THEN "off" ELSE m.flatFor
             d == IF new = "VAULT_HOLD" THEN "running"
                  ELSE IF m.state = "VAULT_HOLD" THEN "off" ELSE m.held
  <2>1. e = [m EXCEPT !.state = new, !.retreat = b, !.flatFor = c, !.held = d]
    BY <1>2 DEF Enter
  <2>2. m \in Machine
    BY DEF Fits
  <2>3. b \in Clocks /\ c \in Clocks /\ d \in {"off", "running", "short", "full"}
    BY <2>2 DEF Machine, Clocks
  <2>4. /\ e \in Machine
        /\ e.state = new /\ e.retreat = b /\ e.flatFor = c /\ e.held = d
        /\ e.freeze = m.freeze
    <3> HIDE DEF b, c, d, e
    <3> QED BY <2>1, <2>2, <2>3 DEF Machine
  <2> HIDE DEF e
  <2> QED BY <1>2, <2>4 DEF Fits, e
<1> QED BY <1>1, <1>2

LEMMA WorriedFits ==
  ASSUME NEW m, NEW isFlat \in BOOLEAN, Fits(m, isFlat), NEW sign \in BOOLEAN
  PROVE  /\ Fits(Worried(m, sign), isFlat)
         /\ Calms(m, Worried(m, sign))
         /\ m.state = "VAULT_HOLD" => Worried(m, sign) = m
<1>1. "CAUTIOUS" \in States
  BY DEF States
<1>2. CASE sign /\ m.state = "NOMINAL"
  BY <1>1, <1>2, EnterFits DEF Worried, Calms
<1>3. CASE ~(sign /\ m.state = "NOMINAL")
  BY <1>3 DEF Worried, Calms
<1> QED BY <1>2, <1>3

LEMMA RetreatOnFits ==
  ASSUME NEW m, NEW isFlat \in BOOLEAN, Fits(m, isFlat), NEW sign \in BOOLEAN
  PROVE  /\ Fits(RetreatOn(m, sign), isFlat)
         /\ Calms(m, RetreatOn(m, sign))
<1>1. "REDUCE_ONLY" \in States
  BY DEF States
<1>2. CASE sign /\ MayRetreat(m)
  BY <1>1, <1>2, EnterFits DEF RetreatOn, Calms
<1>3. CASE ~(sign /\ MayRetreat(m))
  BY <1>3 DEF RetreatOn, Calms
<1> QED BY <1>2, <1>3

LEMMA CheckTacticalRetreatFits ==
  ASSUME NEW m, flat \in BOOLEAN, Fits(m, flat)
  PROVE  /\ Fits(CheckTacticalRetreat(m), flat)
         /\ Calms(m, CheckTacticalRetreat(m))
<1> DEFINE n == [m EXCEPT !.restoring = "off"]
<1>1. "CAUTIOUS" \in States
  BY DEF States
<1>2. Fits(n, flat) /\ n.freeze = m.freeze
  BY DEF Fits, Machine, Clocks
<1>3. /\ Fits(Enter(m, "CAUTIOUS", FALSE), flat)
      /\ Calms(m, Enter(m, "CAUTIOUS", FALSE))
  BY <1>1, EnterFits DEF Calms
<1>4. /\ Fits(Enter(n, "CAUTIOUS", FALSE), flat)
      /\ Calms(m, Enter(n, "CAUTIOUS", FALSE))
  BY <1>1, <1>2, EnterFits DEF Calms
<1> HIDE DEF n
<1>5. \/ CheckTacticalRetreat(m) = m
      \/ CheckTacticalRetreat(m) = Enter(m, "CAUTIOUS", FALSE)
      \/ CheckTacticalRetreat(m) = Enter(n, "CAUTIOUS", FALSE)
  BY DEF CheckTacticalRetreat, n
<1>6. Calms(m, m)
  BY DEF Calms
<1> QED BY <1>3, <1>4, <1>5, <1>6

(* The check that thaws: a machine that was frozen and is not any more is in *)
(* CAUTIOUS.                                                                 *)
LEMMA CheckFreezeRecoveryFits ==
  ASSUME NEW m, flat \in BOOLEAN, Fits(m, flat), NEW slipped \in BOOLEAN
  PROVE  LET r == CheckFreezeRecovery(m, slipped)
         IN  /\ Fits(r, flat)
             /\ r.state = "VAULT_HOLD" => m.state = "VAULT_HOLD"
             /\ m.freeze = "off" => r.freeze = "off"
             /\ m.freeze # "off" /\ r.freeze = "off" => r.state = "CAUTIOUS"
<1> DEFINE again == [m EXCEPT !.freeze = "running"]
           n == [m EXCEPT !.freeze = "off", !.warm = TRUE]
           thawed == Enter(n, "CAUTIOUS", FALSE)
<1>1. "CAUTIOUS" \in States
  BY DEF States
<1>2. Fits(n, flat)
  BY DEF Fits, Machine, Clocks
<1>3. Fits(again, flat) /\ again.state = m.state /\ again.freeze = "running"
  BY DEF Fits, Machine, Clocks
<1>4. Fits(thawed, flat) /\ thawed.state = "CAUTIOUS"
  BY <1>1, <1>2, EnterFits
<1> HIDE DEF again, thawed
<1>5. CASE m.freeze # "over" \/ calm # "over"
  BY <1>5 DEF CheckFreezeRecovery
<1>6. CASE m.freeze = "over" /\ calm = "over" /\ slipped
  <2>1. CheckFreezeRecovery(m, slipped) = again
    BY <1>6 DEF CheckFreezeRecovery, again
  <2> QED BY <2>1, <1>3, <1>6
<1>7. CASE m.freeze = "over" /\ calm = "over" /\ ~slipped
  <2>1. CheckFreezeRecovery(m, slipped) = thawed
    BY <1>7 DEF CheckFreezeRecovery, thawed
  <2> QED BY <2>1, <1>4, <1>7
<1> QED BY <1>5, <1>6, <1>7

LEMMA LensBFits ==
  ASSUME NEW m, flat \in BOOLEAN, Fits(m, flat), NEW buy \in BOOLEAN,
         NEW losing \in BOOLEAN, NEW drawdown \in BOOLEAN
  PROVE  /\ Fits(LensB(m, buy, losing, drawdown), flat)
         /\ Calms(m, LensB(m, buy, losing, drawdown))
<1> DEFINE w == Worried(m, losing)
           r == RetreatOn(w, drawdown)
           h == Enter(r, "HALTED", FALSE)
<1>1. Fits(w, flat) /\ Calms(m, w)
  BY WorriedFits
<1>2. Fits(r, flat) /\ Calms(w, r)
  BY <1>1, RetreatOnFits
<1>3. Fits(h, flat) /\ h.state = "HALTED" /\ h.freeze = r.freeze
  <2>1. "HALTED" \in States
    BY DEF States
  <2> QED BY <2>1, <1>2, EnterFits
<1>4. LensB(m, buy, losing, drawdown) \in {r, h}
  BY DEF LensB
<1> HIDE DEF w, r, h
<1> QED BY <1>1, <1>2, <1>3, <1>4 DEF Calms

-----------------------------------------------------------------------------
(* The steps.                                                               *)

SignalStep == [Signals!SignalsNext]_(Signals!signalVars)

Inputs == <<calm, flat, macro, ready, slow>>

(* A step that posts nothing, keeps the freeze and does not enter VAULT_HOLD *)
(* at most abandons a hold, which SafetySignals lets it do in silence.       *)
LEMMA QuietStep ==
  ASSUME UNCHANGED out,
         g'.freeze = "off" <=> g.freeze = "off",
         g'.state = "VAULT_HOLD" => g.state = "VAULT_HOLD"
  PROVE  SignalStep
<1>1. CASE g'.state # "VAULT_HOLD" /\ g.state = "VAULT_HOLD"
  BY <1>1 DEF SignalStep, Signals!SignalsNext, Signals!Abandon
<1>2. CASE g'.state = "VAULT_HOLD" <=> g.state = "VAULT_HOLD"
  BY <1>2 DEF SignalStep, Signals!signalVars
<1> QED BY <1>1, <1>2

(* The same for a step that changes g alone, by transitions.                *)
LEMMA CalmStep ==
  ASSUME IInv, UNCHANGED <<Inputs, out>>, Fits(g', flat), Calms(g, g')
  PROVE  IInv' /\ SignalStep
<1>1. IInv'
  BY DEF IInv, TypeOK, Inputs, Fits
<1>2. SignalStep
  BY QuietStep DEF Calms
<1> QED BY <1>1, <1>2

LEMMA EmptySeq == ASSUME NEW S PROVE <<>> \in Seq(S)
OBVIOUS

LEMMA OutPosted ==
  ASSUME TypeOK, NEW message \in {"vault_liquidate", "vault_cleared", "thaw"},
         Post(message)
  PROVE  out' \in Seq({"vault_liquidate", "vault_cleared", "thaw"})
BY DEF TypeOK, Post

LEMMA HandleIntentStep == IInv /\ HandleIntent => IInv' /\ SignalStep
<1> SUFFICES ASSUME IInv, HandleIntent
             PROVE  IInv' /\ SignalStep
  OBVIOUS
<1>1. /\ Fits(g', flat)
      /\ g'.state = "VAULT_HOLD" => g.state = "VAULT_HOLD"
      /\ g.freeze = "off" => g'.freeze = "off"
      /\ g.freeze # "off" /\ g'.freeze = "off" => g'.state # "VAULT_HOLD"
  <2>1. PICK buy, slipped, gated, conflict, settled, losing, drawdown \in BOOLEAN :
          /\ buy => ready
          /\ g' = Judged(buy, slipped, gated, conflict, settled, losing, drawdown)
    BY Zenon DEF HandleIntent
  <2> DEFINE t == CheckTacticalRetreat(g)
             f == CheckFreezeRecovery(t, slipped)
             r == Evaluate(f, buy, gated, conflict, settled, losing, drawdown)
  <2>2. flat \in BOOLEAN /\ Fits(g, flat)
    BY DEF IInv, TypeOK
  <2>3. Fits(t, flat) /\ Calms(g, t)
    BY <2>2, CheckTacticalRetreatFits
  <2>4. /\ Fits(f, flat)
        /\ f.state = "VAULT_HOLD" => t.state = "VAULT_HOLD"
        /\ t.freeze = "off" => f.freeze = "off"
        /\ t.freeze # "off" /\ f.freeze = "off" => f.state = "CAUTIOUS"
    BY <2>2, <2>3, CheckFreezeRecoveryFits
  <2> HIDE DEF t, f
  <2>5. Fits(r, flat) /\ Calms(f, r)
    <3>1. r \in {f, Worried(f, TRUE), LensB(f, buy, losing, drawdown)}
      BY DEF Evaluate
    <3>2. Fits(Worried(f, TRUE), flat) /\ Calms(f, Worried(f, TRUE))
      BY <2>2, <2>4, WorriedFits
    <3>3. /\ Fits(LensB(f, buy, losing, drawdown), flat)
          /\ Calms(f, LensB(f, buy, losing, drawdown))
      BY <2>2, <2>4, LensBFits
    <3>4. Calms(f, f)
      BY DEF Calms
    <3> HIDE DEF r
    <3> QED BY <2>4, <3>1, <3>2, <3>3, <3>4
  <2>6. g' = r
    BY <2>1 DEF Judged, t, f
  <2> HIDE DEF r
  <2> QED BY <2>3, <2>4, <2>5, <2>6 DEF Calms
<1>2. UNCHANGED Inputs
  BY DEF HandleIntent, Inputs
<1>3. CASE g.freeze # "off" /\ g'.freeze = "off"
  <2>1. Post("thaw")
    BY <1>3 DEF HandleIntent
  <2>2. IInv'
    BY <1>1, <1>2, <2>1, OutPosted DEF IInv, TypeOK, Inputs, Fits
  <2>3. Signals!Thaw
    BY <1>1, <1>3, <2>1 DEF Signals!Thaw, Signals!Announce, Post
  <2> QED BY <2>2, <2>3 DEF SignalStep, Signals!SignalsNext
<1>4. CASE ~(g.freeze # "off" /\ g'.freeze = "off")
  <2>1. UNCHANGED out
    BY <1>4 DEF HandleIntent
  <2>2. IInv'
    BY <1>1, <1>2, <2>1 DEF IInv, TypeOK, Inputs, Fits
  <2>3. SignalStep
    BY <1>1, <1>4, <2>1, QuietStep
  <2> QED BY <2>2, <2>3
<1> QED BY <1>3, <1>4

LEMMA OnPortfolioUpdateStep ==
  ASSUME IInv, NEW nowFlat \in BOOLEAN, NEW lower \in BOOLEAN,
         NEW poor \in BOOLEAN, OnPortfolioUpdate(nowFlat, lower, poor)
  PROVE  IInv' /\ SignalStep
<1> DEFINE s == SeePosition(g, nowFlat)
           r == RetreatOn(s, lower)
<1>1. Fits(s, nowFlat) /\ Calms(g, s)
  BY DEF IInv, SeePosition, Fits, Machine, Clocks, Calms
<1> HIDE DEF s
<1>2. Fits(r, nowFlat) /\ Calms(s, r)
  BY <1>1, RetreatOnFits
<1> HIDE DEF r
<1>3. Fits(Worried(r, poor), nowFlat) /\ Calms(r, Worried(r, poor))
  BY <1>2, WorriedFits
<1>4. g' = Worried(r, poor) /\ flat' = nowFlat /\ UNCHANGED <<calm, macro, ready, slow, out>>
  BY DEF OnPortfolioUpdate, r, s
<1>5. Calms(g, g') /\ Fits(g', nowFlat)
  BY <1>1, <1>2, <1>3, <1>4 DEF Calms
<1>6. IInv'
  BY <1>4, <1>5 DEF IInv, TypeOK, Fits
<1>7. SignalStep
  BY <1>4, <1>5, QuietStep DEF Calms
<1> QED BY <1>6, <1>7

LEMMA OnMacroStateStep ==
  ASSUME IInv, NEW signals \in Macros, NEW thin \in BOOLEAN,
         OnMacroState(signals, thin)
  PROVE  IInv' /\ SignalStep
<1> DEFINE w == Worried(g, thin)
<1>1. /\ Fits(w, flat) /\ Calms(g, w)
      /\ g.state = "VAULT_HOLD" => w = g
  BY WorriedFits DEF IInv, TypeOK
<1>2. macro' = signals /\ UNCHANGED <<calm, flat, ready, slow>>
  BY DEF OnMacroState
<1>3. "VAULT_HOLD" \in States /\ "CAUTIOUS" \in States
  BY DEF States
<1>4. CASE /\ Compromised(w, signals)
           /\ g' = Enter(w, "VAULT_HOLD", FALSE)
           /\ Post("vault_liquidate")
  <2>1. Fits(g', flat) /\ g'.state = "VAULT_HOLD" /\ g'.freeze = w.freeze
    <3>1. Fits(w, flat) /\ flat \in BOOLEAN
      BY <1>1 DEF IInv, TypeOK
    <3>2. g' = Enter(w, "VAULT_HOLD", FALSE)
      BY <1>4
    <3> HIDE DEF w
    <3> QED BY <1>3, <3>1, <3>2, EnterFits
  <2>2. IInv'
    BY <1>2, <1>4, <2>1, OutPosted DEF IInv, TypeOK, Fits
  <2>3. g.state # "VAULT_HOLD"
    BY <1>1, <1>4 DEF Compromised
  <2>4. Signals!Hold
    BY <1>1, <1>4, <2>1, <2>3 DEF Signals!Hold, Signals!Announce, Post, Calms
  <2> QED BY <2>2, <2>4 DEF SignalStep, Signals!SignalsNext
<1>5. CASE /\ Recovered(w, signals)
           /\ g' = Enter(w, "CAUTIOUS", FALSE)
           /\ Post("vault_cleared")
  <2>1. Fits(g', flat) /\ g'.state = "CAUTIOUS" /\ g'.freeze = w.freeze
    <3>1. Fits(w, flat) /\ flat \in BOOLEAN
      BY <1>1 DEF IInv, TypeOK
    <3>2. g' = Enter(w, "CAUTIOUS", FALSE)
      BY <1>5
    <3> HIDE DEF w
    <3> QED BY <1>3, <3>1, <3>2, EnterFits
  <2>2. IInv'
    BY <1>2, <1>5, <2>1, OutPosted DEF IInv, TypeOK, Fits
  <2>3. g.state = "VAULT_HOLD"
    BY <1>1, <1>5 DEF Recovered, Calms
  <2>4. Signals!Recover
    BY <1>1, <1>5, <2>1, <2>3 DEF Signals!Recover, Signals!Announce, Post, Calms
  <2> QED BY <2>2, <2>4 DEF SignalStep, Signals!SignalsNext
<1>6. CASE g' = w /\ UNCHANGED out
  <2>1. IInv'
    BY <1>1, <1>2, <1>6 DEF IInv, TypeOK, Fits
  <2>2. SignalStep
    BY <1>1, <1>6, QuietStep DEF Calms
  <2> QED BY <2>1, <2>2
<1> QED BY <1>4, <1>5, <1>6 DEF OnMacroState

LEMMA MessagesStep == IInv /\ Messages => IInv' /\ SignalStep
<1> SUFFICES ASSUME IInv, Messages
             PROVE  IInv' /\ SignalStep
  OBVIOUS
<1> USE DEF Inputs
<1>1. flat \in BOOLEAN /\ Fits(g, flat)
  BY DEF IInv, TypeOK
<1>2. States = {"NOMINAL", "CAUTIOUS", "REDUCE_ONLY", "VAULT_HOLD", "HALTED"}
  BY DEF States
<1>3. CASE HandleIntent
  BY <1>3, HandleIntentStep
<1>4. CASE OnOutcome
  <2>1. Fits(g', flat) /\ Calms(g, g')
    BY <1>1, <1>2, <1>4, EnterFits DEF OnOutcome, Calms
  <2> QED BY <1>4, <2>1, CalmStep DEF OnOutcome
<1>5. CASE OnJuryResult \/ OnCapTrimFired
  <2>1. g' = Worried(g, TRUE) /\ UNCHANGED <<Inputs, out>>
    BY <1>5 DEF OnJuryResult, OnCapTrimFired
  <2>2. Fits(g', flat) /\ Calms(g, g')
    BY <1>1, <2>1, WorriedFits
  <2> QED BY <2>1, <2>2, CalmStep
<1>6. CASE \E nowFlat, lower, poor \in BOOLEAN : OnPortfolioUpdate(nowFlat, lower, poor)
  BY <1>6, OnPortfolioUpdateStep
<1>7. ASSUME NEW episodes \in {"n", "more"}, OnStopLossFired(episodes)
      PROVE  IInv' /\ SignalStep
  <2>1. \/ g' = g
        \/ g' = Enter(g, "CAUTIOUS", FALSE)
        \/ g' = Enter(g, "REDUCE_ONLY", FALSE)
    BY <1>7 DEF OnStopLossFired
  <2>2. Fits(g', flat) /\ Calms(g, g')
    <3>1. ASSUME NEW new \in {"CAUTIOUS", "REDUCE_ONLY"}, g' = Enter(g, new, FALSE)
          PROVE  Fits(g', flat) /\ Calms(g, g')
      <4>1. new \in States /\ new # "VAULT_HOLD"
        BY <1>2, <3>1
      <4>2. Fits(g', flat) /\ g'.state = new /\ g'.freeze = g.freeze
        BY <1>1, <3>1, <4>1, EnterFits
      <4> QED BY <4>1, <4>2 DEF Calms
    <3>2. CASE g' = g
      BY <1>1, <3>2 DEF Calms
    <3> QED BY <2>1, <3>1, <3>2
  <2> QED BY <1>7, <2>2, CalmStep DEF OnStopLossFired
<1>8. CASE \E latencyHigh \in BOOLEAN : OnMetricsUpdate(latencyHigh)
  <2>1. slow' \in BOOLEAN /\ UNCHANGED <<g, calm, flat, macro, ready, out>>
    BY <1>8 DEF OnMetricsUpdate
  <2> QED BY <2>1, QuietStep DEF IInv, TypeOK, Fits
<1>9. CASE \E elevated \in BOOLEAN : OnVpinUpdate(elevated)
  <2>1. calm' \in Clocks /\ UNCHANGED <<g, flat, macro, ready, slow, out>>
    BY <1>9 DEF OnVpinUpdate, IInv, TypeOK, Clocks
  <2> QED BY <2>1, QuietStep DEF IInv, TypeOK, Fits
<1>10. CASE \E signals \in Macros, thin \in BOOLEAN : OnMacroState(signals, thin)
  BY <1>10, OnMacroStateStep
<1>11. CASE ResetState
  <2>1. /\ g' = [g EXCEPT !.state = "NOMINAL", !.retreat = "off", !.held = "off"]
        /\ UNCHANGED Inputs
    BY <1>11 DEF ResetState
  <2>2. Fits(g', flat) /\ g'.state = "NOMINAL" /\ g'.freeze = g.freeze
    BY <1>1, <2>1 DEF Fits, Machine, States, Clocks
  <2>3. CASE g.state = "VAULT_HOLD"
    <3>1. Post("vault_cleared")
      BY <1>11, <2>3 DEF ResetState
    <3>2. IInv'
      BY <2>1, <2>2, <3>1, OutPosted DEF IInv, TypeOK, Fits
    <3>3. Signals!Recover
      BY <2>2, <2>3, <3>1 DEF Signals!Recover, Signals!Announce, Post
    <3> QED BY <3>2, <3>3 DEF SignalStep, Signals!SignalsNext
  <2>4. CASE g.state # "VAULT_HOLD"
    <3>1. UNCHANGED out
      BY <1>11, <2>4 DEF ResetState
    <3> QED BY <2>1, <2>2, <3>1, CalmStep DEF Calms
  <2> QED BY <2>3, <2>4
<1>12. CASE TabHidden
  <2> DEFINE e == Enter(g, "REDUCE_ONLY", FALSE)
  <2>1. Fits(e, flat) /\ e.state = "REDUCE_ONLY" /\ e.freeze = g.freeze
    BY <1>1, <1>2, EnterFits
  <2> HIDE DEF e
  <2>2. g' = [e EXCEPT !.restoring = "off"] /\ UNCHANGED <<Inputs, out>>
    BY <1>12 DEF TabHidden, e
  <2>3. Fits(g', flat) /\ Calms(g, g')
    BY <2>1, <2>2 DEF Fits, Machine, Clocks, Calms
  <2> QED BY <2>2, <2>3, CalmStep
<1>13. CASE TabVisible
  <2>1. g' = [g EXCEPT !.restoring = "running"] /\ UNCHANGED <<Inputs, out>>
    BY <1>13 DEF TabVisible
  <2>2. Fits(g', flat) /\ Calms(g, g')
    BY <1>1, <2>1 DEF Fits, Machine, Clocks, Calms
  <2> QED BY <2>1, <2>2, CalmStep
<1>14. CASE PresetChange
  <2>1. Fits(g', flat) /\ Calms(g, g')
    BY <1>1, <1>2, <1>14, EnterFits DEF PresetChange, Calms
  <2> QED BY <1>14, <2>1, CalmStep DEF PresetChange
<1>15. CASE FreezeUpdate
  <2>1. UNCHANGED <<Inputs, out>>
    BY <1>15 DEF FreezeUpdate
  <2>2. CASE g.freeze = "off"
    <3> DEFINE n == [g EXCEPT !.freeze = "running"]
    <3>1. Fits(n, flat) /\ n.freeze = "running"
      BY <1>1 DEF Fits, Machine, Clocks
    <3>2. g' = Enter(n, "REDUCE_ONLY", FALSE)
      BY <1>15, <2>2 DEF FreezeUpdate
    <3> HIDE DEF n
    <3>3. Fits(g', flat) /\ g'.state = "REDUCE_ONLY" /\ g'.freeze = "running"
      BY <1>1, <1>2, <3>1, <3>2, EnterFits
    <3>4. IInv'
      BY <2>1, <3>3 DEF IInv, TypeOK, Fits
    <3>5. Signals!FreezeUpdate
      BY <2>1, <2>2, <3>3 DEF Signals!FreezeUpdate
    <3> QED BY <3>4, <3>5 DEF SignalStep, Signals!SignalsNext
  <2>3. CASE g.freeze # "off"
    <3>1. g' = g
      BY <1>15, <2>3 DEF FreezeUpdate
    <3> QED BY <1>1, <2>1, <3>1, CalmStep DEF Calms
  <2> QED BY <2>2, <2>3
<1>16. CASE ThawUpdate
  <2>1. g' = [g EXCEPT !.freeze = "off"] /\ UNCHANGED <<Inputs, out>>
    BY <1>16 DEF ThawUpdate
  <2>2. Fits(g', flat) /\ g'.state = g.state /\ g'.freeze = "off"
    BY <1>1, <2>1 DEF Fits, Machine, Clocks
  <2>3. IInv'
    BY <2>1, <2>2 DEF IInv, TypeOK, Fits
  <2>4. SignalStep
    <3>1. CASE g.freeze = "off"
      BY <2>1, <2>2, <3>1, QuietStep
    <3>2. CASE g.freeze # "off"
      BY <2>1, <2>2, <3>2 DEF SignalStep, Signals!SignalsNext, Signals!ThawUpdate
    <3> QED BY <3>1, <3>2
  <2> QED BY <2>3, <2>4
<1> QED BY <1>3, <1>4, <1>5, <1>6, <1>7, <1>8, <1>9, <1>10, <1>11, <1>12,
           <1>13, <1>14, <1>15, <1>16 DEF Messages

LEMMA TimersStep == IInv /\ Timers => IInv' /\ SignalStep
<1> SUFFICES ASSUME IInv, Timers
             PROVE  IInv' /\ SignalStep
  OBVIOUS
<1> USE DEF Inputs
<1>1. flat \in BOOLEAN /\ Fits(g, flat)
  BY DEF IInv, TypeOK
<1>2. CASE RetreatTimer
  <2>1. Fits(g', flat) /\ Calms(g, g')
    BY <1>1, <1>2, CheckTacticalRetreatFits DEF RetreatTimer
  <2> QED BY <1>2, <2>1, CalmStep DEF RetreatTimer
<1>3. CASE VaultTimer
  <2>1. Fits(g', flat) /\ g'.state = "CAUTIOUS" /\ g'.freeze = g.freeze
    BY <1>1, <1>3, EnterFits DEF VaultTimer, States
  <2>2. Post("vault_cleared") /\ g.state = "VAULT_HOLD"
    BY <1>3 DEF VaultTimer, Recovered
  <2>3. IInv'
    BY <1>3, <2>1, <2>2, OutPosted DEF VaultTimer, IInv, TypeOK, Fits
  <2>4. Signals!Recover
    BY <2>1, <2>2 DEF Signals!Recover, Signals!Announce, Post
  <2> QED BY <2>3, <2>4 DEF SignalStep, Signals!SignalsNext
<1>4. CASE MacroReady
  <2>1. ready' = TRUE /\ UNCHANGED <<g, calm, flat, macro, slow, out>>
    BY <1>4 DEF MacroReady
  <2> QED BY <2>1, QuietStep DEF IInv, TypeOK, Fits
<1>5. ASSUME NEW clock \in TimerClocks, Elapse(clock)
      PROVE  IInv' /\ SignalStep
  <2>1. /\ g[clock] = "running"
        /\ g' = [g EXCEPT ![clock] = "over"]
        /\ UNCHANGED <<Inputs, out>>
    BY <1>5 DEF Elapse
  <2>2. /\ Fits(g', flat) /\ g'.state = g.state
        /\ g'.freeze = "off" <=> g.freeze = "off"
    BY <1>1, <1>5, <2>1 DEF Fits, Machine, Clocks, TimerClocks
  <2>3. IInv'
    BY <2>1, <2>2 DEF IInv, TypeOK, Fits
  <2> QED BY <2>1, <2>2, <2>3, QuietStep
<1>6. CASE HoldLasts
  <2>1. /\ \/ g.held = "running" /\ g' = [g EXCEPT !.held = "short"]
           \/ g.held = "short" /\ g' = [g EXCEPT !.held = "full"]
        /\ UNCHANGED <<Inputs, out>>
    BY <1>6 DEF HoldLasts
  <2>2. Fits(g', flat) /\ Calms(g, g')
    BY <1>1, <2>1 DEF Fits, Machine, Calms
  <2> QED BY <2>1, <2>2, CalmStep
<1>7. CASE CalmLasts
  <2>1. calm' = "over" /\ UNCHANGED <<g, flat, macro, ready, slow, out>>
    BY <1>7 DEF CalmLasts
  <2> QED BY <2>1, QuietStep DEF IInv, TypeOK, Fits, Clocks
<1>8. CASE WarmupOver
  <2>1. g' = [g EXCEPT !.warm = FALSE] /\ UNCHANGED <<Inputs, out>>
    BY <1>8 DEF WarmupOver
  <2>2. Fits(g', flat) /\ Calms(g, g')
    BY <1>1, <2>1 DEF Fits, Machine, Calms
  <2> QED BY <2>1, <2>2, CalmStep
<1> QED BY <1>2, <1>3, <1>4, <1>5, <1>6, <1>7, <1>8 DEF Timers

LEMMA StepCorrect == IInv /\ [Next]_vars => IInv' /\ SignalStep
<1> SUFFICES ASSUME IInv, [Next]_vars
             PROVE  IInv' /\ SignalStep
  OBVIOUS
<1>1. CASE Messages
  BY <1>1, MessagesStep
<1>2. CASE Timers
  BY <1>2, TimersStep
<1>3. CASE Deliver
  <2>1. IInv'
    BY <1>3 DEF Deliver, IInv, TypeOK, Fits
  <2>2. Signals!Deliver
    BY <1>3 DEF Deliver, Signals!Deliver
  <2> QED BY <2>1, <2>2 DEF SignalStep, Signals!SignalsNext
<1>4. CASE Respawn
  <2>1. g' = Fresh /\ calm' = "off" /\ flat' = TRUE /\ macro' = "clear"
    BY <1>4 DEF Respawn
  <2>2. Fits(g', TRUE) /\ g'.state = "NOMINAL" /\ g'.freeze = "off"
    BY <2>1 DEF Fresh, Fits, Machine, States, Clocks
  <2>3. ready' = FALSE /\ slow' = FALSE /\ out' \in {out, <<>>}
    BY <1>4 DEF Respawn
  <2>4. out' \in Seq({"vault_liquidate", "vault_cleared", "thaw"})
    BY <2>3, EmptySeq DEF IInv, TypeOK
  <2>5. IInv'
    BY <2>1, <2>2, <2>3, <2>4 DEF IInv, TypeOK, Fits, Clocks, Macros
  <2>6. Signals!Respawn
    BY <2>2, <2>3 DEF Signals!Respawn
  <2> QED BY <2>5, <2>6 DEF SignalStep, Signals!SignalsNext
<1>5. CASE UNCHANGED vars
  <2>1. IInv'
    BY <1>5 DEF vars, IInv, TypeOK, Fits
  <2>2. SignalStep
    BY <1>5 DEF vars, SignalStep, Signals!signalVars
  <2> QED BY <2>1, <2>2
<1> QED BY <1>1, <1>2, <1>3, <1>4, <1>5 DEF Next

LEMMA InitCorrect == Init => IInv /\ Signals!SignalsInit
<1> SUFFICES ASSUME Init
             PROVE  IInv /\ Signals!SignalsInit
  OBVIOUS
<1>1. Fits(g, flat) /\ g.state = "NOMINAL" /\ g.freeze = "off"
  BY DEF Init, Fresh, Fits, Machine, States, Clocks
<1>2. IInv
  <2>1. out \in Seq({"vault_liquidate", "vault_cleared", "thaw"})
    BY EmptySeq DEF Init
  <2> QED BY <1>1, <2>1 DEF Init, IInv, TypeOK, Fits, Clocks, Macros
<1>3. Signals!SignalsInit
  BY <1>1 DEF Init, Signals!SignalsInit
<1> QED BY <1>2, <1>3

THEOREM Invariant == Spec => []IInv
<1>1. Init => IInv
  BY InitCorrect
<1>2. IInv /\ [Next]_vars => IInv'
  BY StepCorrect
<1> QED BY <1>1, <1>2, PTL DEF Spec

-----------------------------------------------------------------------------
(* The theorems.                                                            *)

(* Every variable of the guardian keeps its type.                            *)
THEOREM GuardianTypeCorrect == Spec => []TypeOK
<1>1. IInv => TypeOK
  BY DEF IInv
<1> QED BY <1>1, Invariant, PTL

(* Whichever message or timer entered or left a state, the retreat is timed  *)
(* only in REDUCE_ONLY and the hold exactly in VAULT_HOLD.                   *)
THEOREM ClocksCorrect == Spec => []ClocksBelong
<1>1. IInv => ClocksBelong
  BY DEF IInv, Fits, ClocksBelong
<1> QED BY <1>1, Invariant, PTL

(* The guardian implements SafetySignals: a hold is announced in the step    *)
(* that begins it, a recovery in the step that ends it, a thaw in the step   *)
(* that forgets the freeze, and no other step announces anything.            *)
THEOREM SignalsImplemented == Spec => ImplementsSignals
<1>1. Init => Signals!SignalsInit
  BY InitCorrect
<1>2. IInv /\ [Next]_vars => [Signals!SignalsNext]_(Signals!signalVars)
  BY StepCorrect DEF SignalStep
<1> QED BY <1>1, <1>2, Invariant, PTL DEF Spec, ImplementsSignals, Signals!SignalsSpec

=============================================================================
