--------------------------- MODULE EchoLifecycle ---------------------------
(***************************************************************************)
(* The life of one pattern's echoes (browser/workers/echoforge_worker.js): *)
(* one echo for each regime, with its aliveness, its ghost trades and the  *)
(* reports of other nodes about it.                                        *)
(*                                                                         *)
(*   active      may send execution intents, if it is alive enough         *)
(*   hibernating paper-trades until its ghosts have proved it              *)
(*   dead        vetoed by a quorum of nodes; pruned after 48 h            *)
(*                                                                         *)
(* net_aliveness is one of three levels: below MIN_ALIVENESS (0.30), below *)
(* the gate (min_consensus_pct, 0.60 unless set otherwise), and above it;  *)
(* shadow_aliveness is below MIN_ALIVENESS or not.  By how much an outcome,*)
(* a peer or a correlation moves them is left open within what the         *)
(* formulas allow, and so is whether peers contest an echo, which raises   *)
(* its gate to 0.70.  paper_resolved is counted up to PAPER_MIN_TRADES.    *)
(* Time only decides which reports and ghosts are old.                     *)
(*                                                                         *)
(* The module follows the worker's message contract: any message may come. *)
(* signal_log, suggestions, gossip, snapshots and veto insights are output *)
(* that nothing here reads.                                                *)
(***************************************************************************)
EXTENDS Naturals, FiniteSets, FiniteSetsExt

CONSTANTS
  Regime,      \* regimes the pattern is seeded for
  Peer,        \* nodes that report
  Quorum,      \* QUORUM_STRAIN_N and PAIN_MAP_QUORUM_N
  ClearSkiesLevel, \* level of the 0.50 that _onClearSkies sets
  MaxQueue,    \* PAPER_MAX_QUEUE
  MinTrades    \* PAPER_MIN_TRADES

ASSUME EchoAssumption ==
  /\ Regime \subseteq {"LowVol", "HighVol", "Crisis"}
  /\ IsFiniteSet(Peer)
  /\ Quorum \in Nat \ {0}
  /\ ClearSkiesLevel \in 1..2
  /\ MaxQueue \in Nat \ {0}
  /\ MinTrades \in Nat \ {0}

Levels == 0..2
MinAlive == 1
Gate == 2

VARIABLES
  echo,        \* _echoes
  regime,      \* _currentRegime
  barred       \* what _phic says: "no", "veto" (in vetoed_patterns), "freeze"

vars == <<echo, regime, barred>>

State == {"absent", "active", "hibernating", "dead"}

Echo == [state : State, net : Levels, shadow : 0..1, queue : 0..MaxQueue,
         resolved : 0..MinTrades, strain : SUBSET Peer, pain : SUBSET Peer]

NewEcho == [state |-> "active", net |-> 0, shadow |-> 0, queue |-> 0,
            resolved |-> 0, strain |-> {}, pain |-> {}]

Absent == [NewEcho EXCEPT !.state = "absent"]

TypeOK ==
  /\ echo \in [Regime -> Echo]
  /\ regime \in Regime
  /\ barred \in {"no", "veto", "freeze"}

-----------------------------------------------------------------------------
(* Helpers                                                                 *)

\* _getOrCreate
Found(r) == IF echo[r].state = "absent" THEN NewEcho ELSE echo[r]

Min2(a, b) == IF a < b THEN a ELSE b
Max2(a, b) == IF a < b THEN b ELSE a

Alive(e) == e.state \in {"active", "hibernating"}

\* One more ghost trade; the oldest makes room (_recordGhostTrade).
WithGhost(e) == [e EXCEPT !.queue = Min2(@ + 1, MaxQueue)]

\* Back to trading: the paper record starts again.
ComeBack(e, level) ==
  [e EXCEPT !.state = "active", !.net = level, !.shadow = 0, !.queue = 0,
            !.resolved = 0]

Killed(e) == [e EXCEPT !.state = "dead", !.net = 0, !.shadow = 0, !.queue = 0]

\* Regimes whose echo falls with that of r (VETO_CASCADE).
Cascade(r) == IF r = "Crisis" THEN {"HighVol"} \cap Regime ELSE {}

\* The level after a small rise.
Raised(n) == {n, Min2(n + 1, 2)}

Put(r, e) == echo' = [echo EXCEPT ![r] = e]

Same == UNCHANGED <<regime, barred>>

-----------------------------------------------------------------------------
(* Signals                                                                 *)

\* init seeds every known echo at MIN_ALIVENESS.
Init ==
  /\ echo = [r \in Regime |-> [NewEcho EXCEPT !.net = MinAlive]]
  /\ regime \in Regime
  /\ barred = "no"

\* What becomes of a signal for an echo that is alive enough: an intent, a ghost
\* trade or nothing, depending on the position, which is left open.
Fired(e) ==
  {IF e.state = "hibernating" THEN ComeBack(e, n) ELSE [e EXCEPT !.net = n]
     : n \in Raised(e.net)}

\* signal_pass: a contested echo may be refused although it is above the gate.
SignalPass(r) ==
  LET e == Found(r) IN
  /\ e.state # "dead"
  /\ regime = r
  /\ barred # "freeze"
  /\ \/ barred = "veto" /\ Put(r, WithGhost(e))
     \/ barred = "no" /\ Put(r, WithGhost([e EXCEPT !.state = "hibernating"]))
     \/ /\ barred = "no"
        /\ e.net >= Gate
        /\ \E f \in Fired(e) : Put(r, f) \/ Put(r, WithGhost(f))
  /\ Same

\* shadow_pass: a ghost trade whatever the regime.
ShadowPass(r) ==
  /\ echo[r].state # "dead"
  /\ Put(r, WithGhost(Found(r)))
  /\ Same

-----------------------------------------------------------------------------
(* Ghost trades                                                            *)

MayRevive(r, e) ==
  /\ e.state = "hibernating"
  /\ e.shadow >= 1
  /\ e.resolved >= MinTrades
  /\ barred = "no"
  /\ regime = r

\* The k oldest ghosts are resolved, won or lost.
Resolved(e, k, s) ==
  [e EXCEPT !.queue = @ - k, !.shadow = s, !.resolved = Min2(@ + k, MinTrades)]

Revive(e) == ComeBack(e, Gate)

\* _resolveGhostTrades, for one echo.
Resolve(r) ==
  /\ Alive(echo[r])
  /\ \E k \in 1..echo[r].queue, s \in 0..1 :
       LET e == Resolved(echo[r], k, s)
       IN Put(r, IF MayRevive(r, e) THEN Revive(e) ELSE e)
  /\ Same

\* clear_skies_reset
Cleared(e) ==
  LET n == IF e.net < MinAlive THEN ClearSkiesLevel ELSE e.net IN
  IF e.state = "hibernating"
  THEN [e EXCEPT !.state = "active", !.net = n, !.shadow = 0, !.queue = 0]
  ELSE [e EXCEPT !.net = n]

\* Mutant of ClearSkies: echoes that are not active are made anew.
ClearSkiesAfresh ==
  /\ echo' = [r \in Regime |->
                IF echo[r].state = "active" THEN Cleared(echo[r])
                ELSE [NewEcho EXCEPT !.net = ClearSkiesLevel]]
  /\ Same

ClearSkies ==
  /\ echo' = [r \in Regime |->
                IF Alive(echo[r]) THEN Cleared(echo[r]) ELSE echo[r]]
  /\ Same

-----------------------------------------------------------------------------
(* Outcomes                                                                *)

\* The echo an outcome is about: that of its regime, or any of the pattern.
Judged(r) ==
  IF echo[r].state # "absent" THEN {r}
  ELSE {q \in Regime : echo[q].state # "absent"}

\* The levels a win can lead to (towards 0.5 or more), and those after a loss.
AfterWin(n) == Min2(n, MinAlive)..2
AfterLoss(n) == 0..Max2(n, MinAlive)

\* execution_result, decisive: a loss that hurts sends an active echo to sleep.
ExecutionResult(r) ==
  /\ \E q \in Judged(r) :
       \/ \E n \in AfterWin(echo[q].net) : Put(q, [echo[q] EXCEPT !.net = n])
       \/ \E n \in AfterLoss(echo[q].net) :
            \/ Put(q, [echo[q] EXCEPT !.net = n])
            \/ /\ n < MinAlive
               /\ echo[q].state = "active"
               /\ Put(q, [echo[q] EXCEPT !.net = n, !.state = "hibernating"])
  /\ Same

\* cross_pair_signal lifts the echoes of the current regime.
CrossPairSignal ==
  LET e == echo[regime] IN
  /\ Alive(e)
  /\ \E n \in Raised(e.net) : Put(regime, [e EXCEPT !.net = n])
  /\ Same

-----------------------------------------------------------------------------
(* Reports of other nodes                                                  *)

\* Mutant of HasQuorum: one report more is needed.
HasMoreThanQuorum(reports) == Cardinality(reports) > Quorum

HasQuorum(reports) == Cardinality(reports) >= Quorum

\* Mutant of QuorumVeto: no cascade.
QuorumVetoAlone(r, e) == Put(r, Killed(e))

\* _applyQuorumVeto: the echo and, after a crisis, its HighVol sibling.
QuorumVeto(r, e) ==
  echo' = [q \in Regime |->
             IF q = r THEN Killed(e)
             ELSE IF q \in Cascade(r) /\ Alive(echo[q]) THEN Killed(echo[q])
             ELSE echo[q]]

\* metabolic_strain: reports that are too old go.
MetabolicStrain(r, n) ==
  LET e == Found(r) IN
  /\ e.state # "dead"
  /\ \E fresh \in SUBSET e.strain :
       LET reports == fresh \cup {n}
           f == [e EXCEPT !.strain = reports]
       IN IF HasQuorum(reports) THEN QuorumVeto(r, f) ELSE Put(r, f)
  /\ Same

\* pain_map: each costs some aliveness; those that came at high VPIN count.
PainMap(r, n) ==
  LET e == Found(r) IN
  /\ e.state # "dead"
  /\ \E fresh \in SUBSET e.pain, loss \in 0..1, severe \in BOOLEAN :
       LET reports == IF severe THEN fresh \cup {n} ELSE fresh \ {n}
           f == [e EXCEPT !.pain = reports, !.net = IF loss <= @ THEN @ - loss ELSE 0]
       IN IF HasQuorum(reports) THEN Put(r, Killed(f)) ELSE Put(r, f)
  /\ Same

\* peer_echo: the two alivenesses are mixed.
PeerEcho(r) ==
  LET e == Found(r) IN
  /\ e.state # "dead"
  /\ \E n \in Levels : Put(r, [e EXCEPT !.net = n])
  /\ Same

\* _pruneDeadEchoes
Prune(r) ==
  /\ echo[r].state = "dead"
  /\ Put(r, Absent)
  /\ Same

-----------------------------------------------------------------------------
(* Governance                                                              *)

RegimeChange(r) ==
  /\ regime # r
  /\ regime' = r
  /\ UNCHANGED <<echo, barred>>

\* phic_update, and the freezes the worker applies by itself.
PhicUpdate(b) ==
  /\ b # barred
  /\ barred' = b
  /\ UNCHANGED <<echo, regime>>

Next ==
  \/ \E r \in Regime :
       \/ SignalPass(r) \/ ShadowPass(r) \/ Resolve(r) \/ ExecutionResult(r)
       \/ PeerEcho(r) \/ Prune(r) \/ RegimeChange(r)
  \/ \E r \in Regime, n \in Peer : MetabolicStrain(r, n) \/ PainMap(r, n)
  \/ ClearSkies \/ CrossPairSignal
  \/ \E b \in {"no", "veto", "freeze"} : PhicUpdate(b)

Spec == Init /\ [][Next]_vars

-----------------------------------------------------------------------------
(* Properties                                                              *)

\* No echo that may still trade has a quorum of reports against it: whichever
\* message completes the quorum kills the echo in the same step
\* (echoforge_worker.js 791-809, 849-879).
NoQuorumSurvived ==
  \A r \in Regime :
    Alive(echo[r]) => /\ Cardinality(echo[r].strain) < Quorum
                      /\ Cardinality(echo[r].pain) < Quorum

\* A dead echo stays dead until it is pruned: no signal, ghost, peer, outcome or
\* clear sky brings it back (the lifecycle of echoforge_worker.js 15-19).
DeadStays ==
  [][\A r \in Regime :
       echo[r].state = "dead" => echo'[r].state \in {"dead", "absent"}]_vars

\* When a quorum kills the echo of a crisis for strain, no echo of the pattern
\* lives on in a regime the veto cascades to (echoforge_worker.js 814-830).
CascadeComplete ==
  [][\A r \in Regime :
       /\ Alive(echo[r])
       /\ echo'[r].state = "dead"
       /\ HasQuorum(echo'[r].strain)
       => \A q \in Cascade(r) : ~Alive(echo'[q])]_vars
=============================================================================
