------------------------- MODULE EchoLifecycleProofs -------------------------
(* Proofs about EchoLifecycle, for any set of peers, quorum and bounds.  Most *)
(* messages replace one echo: Fits says what the successor of an echo may be, *)
(* and a lemma for each message that it is so.  Clear skies and the veto of a *)
(* quorum replace several.                                                    *)
EXTENDS EchoLifecycle, FiniteSetTheorems, TLAPS

IInv == TypeOK /\ NoQuorumSurvived

Unreported(e) == Cardinality(e.strain) < Quorum /\ Cardinality(e.pain) < Quorum

\* e may take the place of the echo of r.
Fits(r, e) ==
  /\ e \in Echo
  /\ echo[r].state = "dead" => e.state \in {"dead", "absent"}
  /\ Alive(e) => Unreported(e)
  /\ Alive(echo[r]) /\ e.state = "dead" => ~HasQuorum(e.strain)


DeadRemains ==
  \A r \in Regime : echo[r].state = "dead" => echo'[r].state \in {"dead", "absent"}

CascadeReaches ==
  \A r \in Regime :
    /\ Alive(echo[r])
    /\ echo'[r].state = "dead"
    /\ HasQuorum(echo'[r].strain)
    => \A q \in Cascade(r) : ~Alive(echo'[q])

-----------------------------------------------------------------------------
(* Reports.                                                                 *)

LEMMA CountOfReports ==
  ASSUME NEW reports \in SUBSET Peer
  PROVE  /\ Cardinality(reports) \in Nat
         /\ ~HasQuorum(reports) <=> Cardinality(reports) < Quorum
<1>1. IsFiniteSet(reports)
  BY EchoAssumption, FS_Subset
<1> QED BY <1>1, EchoAssumption, FS_CardinalityType DEF HasQuorum

LEMMA NewEchoFits == NewEcho \in Echo /\ Unreported(NewEcho)
<1>1. Cardinality({}) = 0
  BY FS_EmptySet
<1> QED BY <1>1, EchoAssumption DEF NewEcho, Echo, State, Levels, Unreported

(* An echo that is there, and one that is made for the message.              *)
LEMMA FoundFits ==
  ASSUME IInv, NEW r \in Regime, Found(r).state # "dead"
  PROVE  /\ Found(r) \in Echo
         /\ Alive(Found(r))
         /\ Unreported(Found(r))
         /\ echo[r].state # "dead"
         /\ Alive(echo[r]) => Found(r) = echo[r]
<1>1. echo[r] \in Echo
  BY DEF IInv, TypeOK
<1>2. CASE echo[r].state = "absent"
  <2>1. Found(r) = NewEcho
    BY <1>2 DEF Found
  <2>2. Alive(NewEcho) /\ ~Alive(echo[r])
    BY <1>2 DEF NewEcho, Alive
  <2> QED BY <1>2, <2>1, <2>2, NewEchoFits
<1>3. CASE echo[r].state # "absent"
  <2>1. Found(r) = echo[r]
    BY <1>3 DEF Found
  <2>2. Alive(echo[r])
    BY <1>1, <1>3, <2>1 DEF Echo, State, Alive
  <2> QED BY <1>1, <2>1, <2>2 DEF IInv, NoQuorumSurvived, Unreported
<1> QED BY <1>2, <1>3

(* The successor of an echo that keeps its reports and does not die.         *)
LEMMA AliveFits ==
  ASSUME IInv, NEW r \in Regime, NEW e \in Echo, NEW f \in Echo,
         Unreported(e), echo[r].state # "dead",
         f.strain = e.strain, f.pain = e.pain, f.state # "dead"
  PROVE  Fits(r, f)
BY DEF Fits, Unreported

-----------------------------------------------------------------------------
(* Echoes as the helpers change them.                                       *)

LEMMA GhostKeeps ==
  ASSUME NEW e \in Echo
  PROVE  /\ WithGhost(e) \in Echo
         /\ WithGhost(e).strain = e.strain /\ WithGhost(e).pain = e.pain
         /\ WithGhost(e).state = e.state
<1>1. e.queue \in 0..MaxQueue
  BY DEF Echo
<1>2. Min2(e.queue + 1, MaxQueue) \in 0..MaxQueue
  BY <1>1, EchoAssumption DEF Min2
<1> QED BY <1>2 DEF WithGhost, Echo

LEMMA ComeBackKeeps ==
  ASSUME NEW e \in Echo, NEW n \in Levels
  PROVE  /\ ComeBack(e, n) \in Echo
         /\ ComeBack(e, n).strain = e.strain /\ ComeBack(e, n).pain = e.pain
         /\ ComeBack(e, n).state = "active"
<1>1. "active" \in State /\ 0 \in 0..MaxQueue /\ 0 \in 0..MinTrades /\ 0 \in 0..1
  BY EchoAssumption DEF State
<1>2. ComeBack(e, n) \in Echo
  BY <1>1 DEF ComeBack, Echo
<1>3. ComeBack(e, n).strain = e.strain /\ ComeBack(e, n).pain = e.pain
  BY DEF ComeBack, Echo
<1>4. ComeBack(e, n).state = "active"
  BY DEF ComeBack, Echo
<1> QED BY <1>2, <1>3, <1>4

LEMMA KilledFits ==
  ASSUME NEW e \in Echo
  PROVE  /\ Killed(e) \in Echo
         /\ Killed(e).state = "dead" /\ Killed(e).strain = e.strain
<1>1. "dead" \in State /\ 0 \in Levels /\ 0 \in 0..MaxQueue /\ 0 \in 0..1
  BY EchoAssumption DEF State, Levels
<1>2. Killed(e) \in Echo
  BY <1>1 DEF Killed, Echo
<1>3. Killed(e).state = "dead"
  BY DEF Killed, Echo
<1>4. Killed(e).strain = e.strain
  BY DEF Killed, Echo
<1> QED BY <1>2, <1>3, <1>4

LEMMA RaisedType == ASSUME NEW n \in Levels PROVE Raised(n) \subseteq Levels
BY DEF Raised, Levels, Min2

LEMMA FiredKeeps ==
  ASSUME NEW e \in Echo, NEW f \in Fired(e), Alive(e)
  PROVE  f \in Echo /\ f.strain = e.strain /\ f.pain = e.pain /\ f.state # "dead"
<1>1. e.net \in Levels
  BY DEF Echo
<1>2. PICK n \in Raised(e.net) :
        f = IF e.state = "hibernating" THEN ComeBack(e, n) ELSE [e EXCEPT !.net = n]
  BY DEF Fired
<1>3. n \in Levels
  BY <1>1, <1>2, RaisedType
<1>4. CASE e.state = "hibernating"
  BY <1>2, <1>3, <1>4, ComeBackKeeps
<1>5. CASE e.state # "hibernating"
  BY <1>2, <1>3, <1>5 DEF Echo, Alive
<1> QED BY <1>4, <1>5

-----------------------------------------------------------------------------
(* Messages that replace one echo.                                          *)

LEMMA SignalFits ==
  ASSUME IInv, NEW r \in Regime, SignalPass(r)
  PROVE  \E f : Put(r, f) /\ Fits(r, f)
<1> DEFINE e == Found(r)
<1>1. e \in Echo /\ Alive(e) /\ Unreported(e) /\ echo[r].state # "dead" /\ e.state # "dead"
  BY FoundFits DEF SignalPass
<1> HIDE DEF e
<1>2. CASE Put(r, WithGhost(e))
  BY <1>1, <1>2, GhostKeeps, AliveFits
<1>3. CASE Put(r, WithGhost([e EXCEPT !.state = "hibernating"]))
  <2> DEFINE s == [e EXCEPT !.state = "hibernating"]
  <2>1. s \in Echo /\ s.strain = e.strain /\ s.pain = e.pain /\ s.state = "hibernating"
    BY <1>1 DEF Echo, State
  <2> HIDE DEF s
  <2>2. Fits(r, WithGhost(s))
    BY <1>1, <2>1, GhostKeeps, AliveFits
  <2> QED BY <1>3, <2>2 DEF s
<1>4. CASE \E f \in Fired(e) : Put(r, f) \/ Put(r, WithGhost(f))
  <2>1. PICK f \in Fired(e) : Put(r, f) \/ Put(r, WithGhost(f))
    BY <1>4
  <2>2. f \in Echo /\ f.strain = e.strain /\ f.pain = e.pain /\ f.state # "dead"
    BY <1>1, FiredKeeps
  <2>3. Fits(r, f) /\ Fits(r, WithGhost(f))
    BY <1>1, <2>2, GhostKeeps, AliveFits
  <2> QED BY <2>1, <2>3
<1> QED BY <1>2, <1>3, <1>4 DEF SignalPass, e

LEMMA ShadowFits ==
  ASSUME IInv, NEW r \in Regime, ShadowPass(r)
  PROVE  \E f : Put(r, f) /\ Fits(r, f)
<1>1. Found(r).state # "dead"
  BY DEF ShadowPass, Found, NewEcho
<1>2. Fits(r, WithGhost(Found(r)))
  BY <1>1, FoundFits, GhostKeeps, AliveFits
<1> QED BY <1>2 DEF ShadowPass

LEMMA LivingFits ==
  ASSUME IInv, NEW r \in Regime, Alive(echo[r])
  PROVE  echo[r] \in Echo /\ Unreported(echo[r]) /\ echo[r].state # "dead"
BY DEF IInv, TypeOK, NoQuorumSurvived, Unreported, Alive

LEMMA ResolveFits ==
  ASSUME IInv, NEW r \in Regime, Resolve(r)
  PROVE  \E f : Put(r, f) /\ Fits(r, f)
<1>1. Alive(echo[r]) /\ echo[r] \in Echo /\ Unreported(echo[r]) /\ echo[r].state # "dead"
  BY LivingFits DEF Resolve
<1>2. PICK k \in 1..echo[r].queue, s \in 0..1 :
        LET e == Resolved(echo[r], k, s)
        IN Put(r, IF MayRevive(r, e) THEN Revive(e) ELSE e)
  BY DEF Resolve
<1> DEFINE e == Resolved(echo[r], k, s)
<1>3. /\ echo[r].queue \in 0..MaxQueue /\ echo[r].resolved \in 0..MinTrades
  BY <1>1 DEF Echo
<1>4. /\ echo[r].queue - k \in 0..MaxQueue
      /\ Min2(echo[r].resolved + k, MinTrades) \in 0..MinTrades
  BY <1>2, <1>3, EchoAssumption DEF Min2
<1>5. /\ e \in Echo /\ e.strain = echo[r].strain /\ e.pain = echo[r].pain
      /\ e.state = echo[r].state
  BY <1>1, <1>2, <1>4 DEF Resolved, Echo
<1> HIDE DEF e
<1>6. Fits(r, e)
  BY <1>1, <1>5, AliveFits
<1>7. Fits(r, Revive(e))
  <2>1. Gate \in Levels
    BY DEF Gate, Levels
  <2> QED BY <1>1, <1>5, <2>1, ComeBackKeeps, AliveFits DEF Revive
<1> QED BY <1>2, <1>6, <1>7 DEF e

LEMMA LevelFits ==
  ASSUME IInv, NEW q \in Regime, echo[q].state # "absent", NEW n \in Levels
  PROVE  /\ Fits(q, [echo[q] EXCEPT !.net = n])
         /\ echo[q].state = "active"
              => Fits(q, [echo[q] EXCEPT !.net = n, !.state = "hibernating"])
<1>1. echo[q] \in Echo
  BY DEF IInv, TypeOK
<1>2. CASE echo[q].state = "dead"
  BY <1>1, <1>2 DEF Fits, Echo, Alive
<1>3. CASE echo[q].state # "dead"
  <2>1. Alive(echo[q])
    BY <1>1, <1>3 DEF Echo, State, Alive
  <2>2. Unreported(echo[q])
    BY <2>1, LivingFits
  <2> QED BY <1>1, <1>3, <2>2 DEF Fits, Echo, State, Unreported
<1> QED BY <1>2, <1>3

LEMMA ResultFits ==
  ASSUME IInv, NEW r \in Regime, ExecutionResult(r)
  PROVE  \E q \in Regime : \E f : Put(q, f) /\ Fits(q, f)
<1>1. PICK q \in Judged(r) :
       \/ \E n \in AfterWin(echo[q].net) : Put(q, [echo[q] EXCEPT !.net = n])
       \/ \E n \in AfterLoss(echo[q].net) :
            \/ Put(q, [echo[q] EXCEPT !.net = n])
            \/ /\ n < MinAlive
               /\ echo[q].state = "active"
               /\ Put(q, [echo[q] EXCEPT !.net = n, !.state = "hibernating"])
  BY DEF ExecutionResult
<1>2. q \in Regime /\ echo[q].state # "absent"
  BY DEF Judged
<1>3. echo[q].net \in Levels
  BY <1>2 DEF IInv, TypeOK, Echo
<1>4. AfterWin(echo[q].net) \subseteq Levels /\ AfterLoss(echo[q].net) \subseteq Levels
  BY <1>3 DEF AfterWin, AfterLoss, Levels, MinAlive, Min2, Max2
<1> QED BY <1>1, <1>2, <1>4, LevelFits

LEMMA CrossFits ==
  ASSUME IInv, CrossPairSignal
  PROVE  \E q \in Regime : \E f : Put(q, f) /\ Fits(q, f)
<1>1. regime \in Regime /\ Alive(echo[regime])
  BY DEF CrossPairSignal, IInv, TypeOK
<1>2. PICK n \in Raised(echo[regime].net) : Put(regime, [echo[regime] EXCEPT !.net = n])
  BY DEF CrossPairSignal
<1>3. echo[regime].net \in Levels
  BY <1>1 DEF IInv, TypeOK, Echo
<1>4. n \in Levels /\ echo[regime].state # "absent"
  BY <1>1, <1>3, RaisedType DEF Alive
<1> QED BY <1>1, <1>2, <1>4, LevelFits

LEMMA PainFits ==
  ASSUME IInv, NEW r \in Regime, NEW n \in Peer, PainMap(r, n)
  PROVE  \E f : Put(r, f) /\ Fits(r, f)
<1> DEFINE e == Found(r)
<1>1. /\ e \in Echo /\ Alive(e) /\ Unreported(e) /\ echo[r].state # "dead"
      /\ Alive(echo[r]) => e = echo[r]
  BY FoundFits DEF PainMap
<1> HIDE DEF e
<1>2. PICK fresh \in SUBSET e.pain, loss \in 0..1, severe \in BOOLEAN :
        LET reports == IF severe THEN fresh \cup {n} ELSE fresh \ {n}
            f == [e EXCEPT !.pain = reports, !.net = IF loss <= @ THEN @ - loss ELSE 0]
        IN IF HasQuorum(reports) THEN Put(r, Killed(f)) ELSE Put(r, f)
  BY DEF PainMap, e
<1> DEFINE reports == IF severe THEN fresh \cup {n} ELSE fresh \ {n}
           level == IF loss <= e.net THEN e.net - loss ELSE 0
           f == [e EXCEPT !.pain = reports, !.net = level]
<1>3. e.net \in Levels /\ e.pain \in SUBSET Peer /\ e.strain \in SUBSET Peer
  BY <1>1 DEF Echo
<1>4. reports \in SUBSET Peer
  BY <1>2, <1>3
<1>5. level \in Levels
  BY <1>2, <1>3 DEF Levels
<1>6. IF HasQuorum(reports) THEN Put(r, Killed(f)) ELSE Put(r, f)
  BY <1>2
<1> HIDE DEF reports, level
<1>7. f \in Echo /\ f.strain = e.strain /\ f.pain = reports /\ f.state = e.state
  BY <1>1, <1>4, <1>5 DEF Echo
<1> HIDE DEF f
<1>8. ~HasQuorum(f.strain) /\ Cardinality(f.strain) < Quorum
  BY <1>1, <1>3, <1>7, CountOfReports DEF Unreported
<1>9. Fits(r, Killed(f))
  BY <1>1, <1>7, <1>8, KilledFits DEF Fits, Alive
<1>10. ASSUME ~HasQuorum(reports) PROVE Fits(r, f)
  <2>1. Unreported(f)
    BY <1>4, <1>7, <1>8, <1>10, CountOfReports DEF Unreported
  <2> QED BY <1>1, <1>7, <2>1 DEF Fits, Alive
<1> QED BY <1>6, <1>9, <1>10

LEMMA PeerFits ==
  ASSUME IInv, NEW r \in Regime, PeerEcho(r)
  PROVE  \E f : Put(r, f) /\ Fits(r, f)
<1> DEFINE e == Found(r)
<1>1. e \in Echo /\ Alive(e) /\ Unreported(e) /\ echo[r].state # "dead"
  BY FoundFits DEF PeerEcho
<1> HIDE DEF e
<1>2. PICK n \in Levels : Put(r, [e EXCEPT !.net = n])
  BY DEF PeerEcho, e
<1>3. Fits(r, [e EXCEPT !.net = n])
  BY <1>1 DEF Fits, Echo, Alive, Unreported
<1> QED BY <1>2, <1>3

LEMMA PruneFits ==
  ASSUME NEW r \in Regime, Prune(r)
  PROVE  \E f : Put(r, f) /\ Fits(r, f)
<1>1. Absent \in Echo /\ Absent.state = "absent"
  BY NewEchoFits DEF Absent, NewEcho, Echo, State
<1> QED BY <1>1 DEF Prune, Fits, Alive

-----------------------------------------------------------------------------
(* What follows for the whole pattern.                                      *)

LEMMA PutCorrect ==
  ASSUME IInv, NEW r \in Regime, NEW f, Put(r, f), Fits(r, f)
  PROVE  echo' \in [Regime -> Echo] /\ NoQuorumSurvived' /\ DeadRemains /\ CascadeReaches
<1>1. echo \in [Regime -> Echo] /\ f \in Echo
  BY DEF IInv, TypeOK, Fits
<1>2. \A q \in Regime : echo'[q] = IF q = r THEN f ELSE echo[q]
  BY <1>1 DEF Put
<1>3. echo' \in [Regime -> Echo]
  BY <1>1 DEF Put
<1>4. NoQuorumSurvived'
  BY <1>2 DEF NoQuorumSurvived, IInv, Fits, Unreported, Alive
<1>5. DeadRemains
  BY <1>2 DEF DeadRemains, Fits
<1>6. CascadeReaches
  BY <1>2 DEF CascadeReaches, Fits, Alive
<1> QED BY <1>3, <1>4, <1>5, <1>6

LEMMA ClearedFits ==
  ASSUME IInv, NEW r \in Regime, Alive(echo[r])
  PROVE  Fits(r, Cleared(echo[r])) /\ Alive(Cleared(echo[r]))
<1>1. echo[r] \in Echo /\ Unreported(echo[r])
  BY LivingFits
<1>2. ClearSkiesLevel \in Levels
  BY EchoAssumption DEF Levels
<1>3. /\ Cleared(echo[r]) \in Echo
      /\ Cleared(echo[r]).strain = echo[r].strain
      /\ Cleared(echo[r]).pain = echo[r].pain
      /\ Cleared(echo[r]).state = "active"
  <2> DEFINE n == IF echo[r].net < MinAlive THEN ClearSkiesLevel ELSE echo[r].net
             up == [echo[r] EXCEPT !.net = n]
             woken == [echo[r] EXCEPT !.state = "active", !.net = n, !.shadow = 0,
                                      !.queue = 0]
  <2>1. n \in Levels
    BY <1>1, <1>2 DEF Echo
  <2>2. "active" \in State /\ 0 \in 0..MaxQueue /\ 0 \in 0..1
    BY EchoAssumption DEF State
  <2>3. Cleared(echo[r]) = IF echo[r].state = "hibernating" THEN woken ELSE up
    BY DEF Cleared
  <2> HIDE DEF n
  <2>4. woken \in Echo
    BY <1>1, <2>1, <2>2 DEF Echo
  <2>5. woken.strain = echo[r].strain /\ woken.pain = echo[r].pain
    BY <1>1 DEF Echo
  <2>6. woken.state = "active"
    BY <1>1 DEF Echo
  <2>7. up \in Echo /\ up.strain = echo[r].strain /\ up.pain = echo[r].pain
    BY <1>1, <2>1 DEF Echo
  <2>8. echo[r].state # "hibernating" => up.state = "active"
    BY <1>1 DEF Echo, Alive
  <2> HIDE DEF woken, up
  <2> QED BY <2>3, <2>4, <2>5, <2>6, <2>7, <2>8
<1> QED BY <1>1, <1>3 DEF Fits, Unreported, Alive

LEMMA ClearSkiesCorrect ==
  ASSUME IInv, ClearSkies
  PROVE  echo' \in [Regime -> Echo] /\ NoQuorumSurvived' /\ DeadRemains /\ CascadeReaches
<1>1. echo \in [Regime -> Echo]
  BY DEF IInv, TypeOK
<1>2. \A r \in Regime :
        echo'[r] = IF Alive(echo[r]) THEN Cleared(echo[r]) ELSE echo[r]
  BY DEF ClearSkies
<1>3. \A r \in Regime : Alive(echo[r]) => Fits(r, Cleared(echo[r])) /\ Alive(Cleared(echo[r]))
  BY ClearedFits
<1>4. \A r \in Regime : echo'[r] \in Echo
  BY <1>1, <1>2, <1>3 DEF Fits
<1>5. echo' \in [Regime -> Echo]
  BY <1>4 DEF ClearSkies
<1>6. NoQuorumSurvived'
  BY <1>2, <1>3 DEF NoQuorumSurvived, Fits, Unreported
<1>7. DeadRemains
  BY <1>2 DEF DeadRemains, Alive
<1>8. CascadeReaches
  BY <1>2, <1>3 DEF CascadeReaches, Alive
<1> QED BY <1>5, <1>6, <1>7, <1>8

LEMMA StrainCorrect ==
  ASSUME IInv, NEW r \in Regime, NEW n \in Peer, MetabolicStrain(r, n)
  PROVE  echo' \in [Regime -> Echo] /\ NoQuorumSurvived' /\ DeadRemains /\ CascadeReaches
<1> DEFINE e == Found(r)
<1>1. e \in Echo /\ Alive(e) /\ Unreported(e) /\ echo[r].state # "dead"
  BY FoundFits DEF MetabolicStrain
<1> HIDE DEF e
<1>2. PICK fresh \in SUBSET e.strain :
        LET reports == fresh \cup {n}
            f == [e EXCEPT !.strain = reports]
        IN IF HasQuorum(reports) THEN QuorumVeto(r, f) ELSE Put(r, f)
  BY DEF MetabolicStrain, e
<1> DEFINE f == [e EXCEPT !.strain = fresh \cup {n}]
<1>3. fresh \cup {n} \in SUBSET Peer
  BY <1>1, <1>2 DEF Echo
<1>4. f \in Echo /\ f.strain = fresh \cup {n} /\ f.pain = e.pain /\ f.state = e.state
  BY <1>1, <1>3 DEF Echo
<1>5. IF HasQuorum(f.strain) THEN QuorumVeto(r, f) ELSE Put(r, f)
  BY <1>2, <1>4
<1> HIDE DEF f
<1>6. CASE ~HasQuorum(f.strain)
  <2>1. Fits(r, f)
    BY <1>1, <1>3, <1>4, <1>6, CountOfReports DEF Fits, Alive, Unreported
  <2> QED BY <1>5, <1>6, <2>1, PutCorrect
<1>7. CASE HasQuorum(f.strain)
  <2>1. \A q \in Regime :
          echo'[q] = IF q = r THEN Killed(f)
                     ELSE IF q \in Cascade(r) /\ Alive(echo[q]) THEN Killed(echo[q])
                     ELSE echo[q]
    BY <1>5, <1>7 DEF QuorumVeto
  <2>2. echo \in [Regime -> Echo]
    BY DEF IInv, TypeOK
  <2>3. \A q \in Regime : Killed(echo[q]) \in Echo /\ Killed(echo[q]).state = "dead"
    BY <2>2, KilledFits
  <2>4. Killed(f) \in Echo /\ Killed(f).state = "dead"
    BY <1>4, KilledFits
  <2>5. echo' \in [Regime -> Echo]
    <3>1. \A q \in Regime : echo'[q] \in Echo
      BY <2>1, <2>2, <2>3, <2>4
    <3> QED BY <1>5, <1>7, <3>1 DEF QuorumVeto
  <2>6. \A q \in Regime : Alive(echo'[q]) => echo'[q] = echo[q]
    BY <2>1, <2>3, <2>4 DEF Alive
  <2>7. NoQuorumSurvived'
    BY <2>6 DEF IInv, NoQuorumSurvived
  <2>8. DeadRemains
    BY <1>1, <2>1, <2>3, <2>4 DEF DeadRemains
  <2>9. CascadeReaches
    <3> SUFFICES ASSUME NEW q \in Regime, Alive(echo[q]), echo'[q].state = "dead",
                        NEW p \in Cascade(q)
                 PROVE  ~Alive(echo'[p])
      BY DEF CascadeReaches
    <3>1. q = "Crisis" /\ p = "HighVol" /\ p \in Regime
      BY DEF Cascade
    <3>2. q = r \/ q \in Cascade(r)
      BY <2>1 DEF Alive
    <3>3. q = r
      BY <3>1, <3>2 DEF Cascade
    <3> QED BY <2>1, <2>3, <2>4, <3>1, <3>3 DEF Alive
  <2> QED BY <2>5, <2>7, <2>8, <2>9
<1> QED BY <1>6, <1>7

LEMMA StillCorrect ==
  ASSUME IInv, UNCHANGED echo
  PROVE  echo' \in [Regime -> Echo] /\ NoQuorumSurvived' /\ DeadRemains /\ CascadeReaches
<1>1. NoQuorumSurvived' /\ echo' \in [Regime -> Echo]
  BY DEF IInv, TypeOK, NoQuorumSurvived
<1>2. DeadRemains /\ CascadeReaches
  BY DEF DeadRemains, CascadeReaches, Alive
<1> QED BY <1>1, <1>2

LEMMA StepCorrect ==
  ASSUME IInv, [Next]_vars
  PROVE  echo' \in [Regime -> Echo] /\ NoQuorumSurvived' /\ DeadRemains /\ CascadeReaches
<1>1. ASSUME NEW r \in Regime,
             SignalPass(r) \/ ShadowPass(r) \/ Resolve(r) \/ PeerEcho(r) \/ Prune(r)
      PROVE  echo' \in [Regime -> Echo] /\ NoQuorumSurvived' /\ DeadRemains /\ CascadeReaches
  BY <1>1, SignalFits, ShadowFits, ResolveFits, PeerFits, PruneFits, PutCorrect
<1>2. ASSUME NEW r \in Regime, NEW n \in Peer, PainMap(r, n)
      PROVE  echo' \in [Regime -> Echo] /\ NoQuorumSurvived' /\ DeadRemains /\ CascadeReaches
  BY <1>2, PainFits, PutCorrect
<1>3. ASSUME CrossPairSignal \/ \E r \in Regime : ExecutionResult(r)
      PROVE  echo' \in [Regime -> Echo] /\ NoQuorumSurvived' /\ DeadRemains /\ CascadeReaches
  BY <1>3, ResultFits, CrossFits, PutCorrect
<1>4. ASSUME NEW r \in Regime, NEW n \in Peer, MetabolicStrain(r, n)
      PROVE  echo' \in [Regime -> Echo] /\ NoQuorumSurvived' /\ DeadRemains /\ CascadeReaches
  BY <1>4, StrainCorrect
<1>5. CASE ClearSkies
  BY <1>5, ClearSkiesCorrect
<1>6. CASE UNCHANGED echo
  BY <1>6, StillCorrect
<1> QED BY <1>1, <1>2, <1>3, <1>4, <1>5, <1>6 DEF Next, RegimeChange, PhicUpdate, vars

-----------------------------------------------------------------------------

LEMMA InitCorrect == Init => IInv
<1> SUFFICES ASSUME Init
             PROVE  IInv
  OBVIOUS
<1> DEFINE e == [NewEcho EXCEPT !.net = MinAlive]
<1>1. e \in Echo /\ Unreported(e)
  BY NewEchoFits DEF NewEcho, Echo, Levels, MinAlive, Unreported
<1>2. \A r \in Regime : echo[r] = e
  BY DEF Init
<1>3. echo \in [Regime -> Echo]
  BY <1>1 DEF Init
<1> HIDE DEF e
<1>4. NoQuorumSurvived
  BY <1>1, <1>2 DEF NoQuorumSurvived, Unreported
<1> QED BY <1>3, <1>4 DEF Init, IInv, TypeOK

LEMMA NextCorrect == IInv /\ [Next]_vars => IInv'
<1> SUFFICES ASSUME IInv, [Next]_vars
             PROVE  IInv'
  OBVIOUS
<1>1. echo' \in [Regime -> Echo] /\ NoQuorumSurvived'
  BY StepCorrect
<1>2. regime' \in Regime /\ barred' \in {"no", "veto", "freeze"}
  BY DEF IInv, TypeOK, Next, vars, Same, SignalPass, ShadowPass, Resolve,
         ExecutionResult, PeerEcho, Prune, RegimeChange, MetabolicStrain, PainMap,
         ClearSkies, CrossPairSignal, PhicUpdate
<1> QED BY <1>1, <1>2 DEF IInv, TypeOK

THEOREM Invariant == Spec => []IInv
BY InitCorrect, NextCorrect, PTL DEF Spec

-----------------------------------------------------------------------------
(* The theorems.                                                            *)

(* Every echo keeps its type: its ghost queue never passes PAPER_MAX_QUEUE,  *)
(* whatever is recorded and resolved.                                        *)
THEOREM TypeCorrect == Spec => []TypeOK
<1>1. IInv => TypeOK
  BY DEF IInv
<1> QED BY <1>1, Invariant, PTL

(* No echo that may trade has a quorum of reports against it.                *)
THEOREM NoQuorumSurvivedCorrect == Spec => []NoQuorumSurvived
<1>1. IInv => NoQuorumSurvived
  BY DEF IInv
<1> QED BY <1>1, Invariant, PTL

(* Nothing but the pruning takes an echo out of its death.                   *)
THEOREM DeadStaysCorrect == Spec => DeadStays
<1>1. IInv /\ [Next]_vars
        => [\A r \in Regime :
              echo[r].state = "dead" => echo'[r].state \in {"dead", "absent"}]_vars
  BY StepCorrect DEF DeadRemains
<1> QED BY <1>1, Invariant, PTL DEF Spec, DeadStays

(* A quorum that ends a Crisis echo for strain ends the HighVol echo too.    *)
THEOREM CascadeCompleteCorrect == Spec => CascadeComplete
<1>1. IInv /\ [Next]_vars
        => [\A r \in Regime :
              /\ Alive(echo[r])
              /\ echo'[r].state = "dead"
              /\ HasQuorum(echo'[r].strain)
              => \A q \in Cascade(r) : ~Alive(echo'[q])]_vars
  BY StepCorrect DEF CascadeReaches
<1> QED BY <1>1, Invariant, PTL DEF Spec, CascadeComplete
=============================================================================
