---------------------- MODULE SovereignElectionProofs ----------------------
(***************************************************************************)
(* Safety of SovereignElection for any number of tabs, peers and intents:  *)
(* typing, a followed peer is known, an alive daemon silences its tabs,    *)
(* executions of an intent beyond the first are lost replies, none is done *)
(* that was not executed, and what an election step achieves for a tab     *)
(* with no sovereign or a silent one.                                      *)
(***************************************************************************)
EXTENDS SovereignElection, TLAPS

\* An election leaves the scores and the peers alone, names a node of the
\* tab's candidates, and tells the tab what it now follows.
LEMMA ElectedIsCandidate ==
  ASSUME NEW n \in Tab, NEW K \in SUBSET Node, TypeOK, ForceReelect(n, K)
  PROVE  \E c \in K \cup {n} : ApplyElection(n, c)
BY DEF ForceReelect, IsBest

\* What the election step of a tab can do: delete stale peers, and either
\* leave the sovereign alone or name one that is known and not deleted.
LEMMA ElectionOutcome ==
  ASSUME NEW n \in Tab, TypeOK, ElectSovereign(n)
  PROVE  \E D \in SUBSET stale[n] :
           /\ Delete(n, D)
           /\ \/ /\ following[n] \notin D
                 /\ UNCHANGED <<held, following, cooling, told, claims>>
              \/ \E c \in (known[n] \ D) \cup {n} : ApplyElection(n, c)
<1>1. CASE PruneIncumbent(n)
  <2>1. PICK D \in SUBSET stale[n] : Delete(n, D) /\ ForceReelect(n, known[n] \ D)
    BY <1>1 DEF PruneIncumbent
  <2>2. known[n] \ D \in SUBSET Node
    BY DEF TypeOK
  <2>3. \E c \in (known[n] \ D) \cup {n} : ApplyElection(n, c)
    BY <2>1, <2>2, ElectedIsCandidate
  <2> QED BY <2>1, <2>3
<1>2. CASE PruneAndElect(n)
  <2>1. Delete(n, stale[n]) /\ following[n] \notin stale[n]
    BY <1>2 DEF PruneAndElect
  <2>2. \/ UNCHANGED <<held, following, cooling, told, claims>>
        \/ \E c \in (known[n] \ stale[n]) \cup {n} : ApplyElection(n, c)
    <3>1. PICK best \in Node :
             /\ IsBest(n, known[n] \ stale[n], best)
             /\ \/ ApplyElection(n, n)
                \/ ApplyElection(n, best)
                \/ UNCHANGED <<held, following, cooling, told, claims>>
      BY <1>2 DEF PruneAndElect, toldVars
    <3>2. best \in (known[n] \ stale[n]) \cup {n}
      BY <3>1 DEF IsBest
    <3> QED BY <3>1, <3>2
  <2> QED BY <2>1, <2>2
<1> QED BY <1>1, <1>2 DEF ElectSovereign

-----------------------------------------------------------------------------
(* Typing                                                                  *)

LEMMA ElectTypes ==
  ASSUME NEW n \in Tab, TypeOK, NEW c \in Node, ApplyElection(n, c)
  PROVE  /\ held' \in [Tab -> BOOLEAN]
         /\ following' \in [Tab -> Node]
         /\ cooling' \in [Tab -> BOOLEAN]
         /\ told' \in [Tab -> Node \cup {Daemon, Nobody}]
         /\ claims' \in [Tab -> BOOLEAN]
BY DEF ApplyElection, TypeOK

LEMMA DeleteTypes ==
  ASSUME NEW n \in Tab, TypeOK, NEW D, Delete(n, D)
  PROVE  /\ known' \in [Tab -> SUBSET Node]
         /\ stale' \in [Tab -> SUBSET Node]
         /\ score' \in [Tab -> [Node -> Score]]
<1>1. known' \in [Tab -> SUBSET Node] /\ stale' \in [Tab -> SUBSET Node]
  BY DEF Delete, TypeOK
<1>2. [p \in Node |-> IF p \in D THEN 0 ELSE score[n][p]] \in [Node -> Score]
  <2>1. 0 \in Score
    BY NodesAssumption DEF Score
  <2>2. score[n] \in [Node -> Score]
    BY DEF TypeOK
  <2> QED BY <2>1, <2>2
<1>3. score' \in [Tab -> [Node -> Score]]
  BY <1>2 DEF Delete, TypeOK
<1> QED BY <1>1, <1>3

\* Executions and lost replies are counted in Nat.
LEMMA Count ==
  ASSUME NEW S, NEW f \in [S -> Nat], NEW i \in S
  PROVE  [f EXCEPT ![i] = @ + 1] \in [S -> Nat]
OBVIOUS

LEMMA RunTypes ==
  ASSUME NEW i \in Intent, TypeOK, NEW s \in Stage, Run(i, s) \/ Settle(i, s)
  PROVE  /\ runs' \in [Intent -> Nat]
         /\ stage' \in [Intent -> Stage]
<1>1. runs \in [Intent -> Nat] /\ stage \in [Intent -> Stage]
  BY DEF TypeOK
<1>2. [runs EXCEPT ![i] = @ + 1] \in [Intent -> Nat]
  BY <1>1, Count
<1> QED BY <1>1, <1>2 DEF Run, Settle

LEMMA RouteTypes ==
  ASSUME NEW n \in Tab, NEW i \in Intent, TypeOK, RouteIntent(n, i)
  PROVE  /\ runs' \in [Intent -> Nat]
         /\ stage' \in [Intent -> Stage]
         /\ following' \in [Tab -> Node]
<1>1. \E s \in Stage : Run(i, s) \/ Settle(i, s)
  BY DEF RouteIntent, Stage
<1>2. following' \in [Tab -> Node]
  BY DEF RouteIntent, TypeOK, Node
<1> QED BY <1>1, <1>2, RunTypes

LEMMA SovereignTypeStep == TypeOK /\ [Next]_vars => TypeOK'
<1> SUFFICES ASSUME TypeOK, [Next]_vars PROVE TypeOK'
  OBVIOUS
<1>1. ASSUME NEW n \in Tab, NEW s \in Score, OwnScore(n, s)
      PROVE  TypeOK'
  <2>1. PICK v \in Between(own[n], s) : own' = [own EXCEPT ![n] = v]
    BY <1>1 DEF OwnScore
  <2>2. own' \in [Tab -> Score]
    BY <2>1 DEF Between, TypeOK
  <2> QED BY <1>1, <2>2 DEF OwnScore, TypeOK, toldVars, pageVars, daemonVars, intentVars
<1>2. ASSUME NEW n \in Tab, NEW p \in Node, NEW s \in Score, HandleEcho(n, p, s)
      PROVE  TypeOK'
  <2>1. PICK v \in Score : score' = [score EXCEPT ![n][p] = v]
    BY <1>2 DEF HandleEcho, Between
  <2>2. score' \in [Tab -> [Node -> Score]]
    BY <2>1 DEF TypeOK
  <2>3. known' \in [Tab -> SUBSET Node] /\ stale' \in [Tab -> SUBSET Node]
    BY <1>2 DEF HandleEcho, TypeOK
  <2> QED BY <1>2, <2>2, <2>3 DEF HandleEcho, TypeOK, toldVars, pageVars, daemonVars, intentVars
<1>3. ASSUME NEW n \in Tab, NEW p \in Node, FallSilent(n, p)
      PROVE  TypeOK'
  BY <1>3 DEF FallSilent, TypeOK, toldVars, pageVars, daemonVars, intentVars
<1>4. ASSUME NEW n \in Tab, CooldownOver(n)
      PROVE  TypeOK'
  BY <1>4 DEF CooldownOver, TypeOK, toldVars, pageVars, daemonVars, intentVars
<1>5. ASSUME NEW n \in Tab, ElectSovereign(n)
      PROVE  TypeOK'
  <2>1. PICK D \in SUBSET stale[n] :
           /\ Delete(n, D)
           /\ \/ UNCHANGED <<held, following, cooling, told, claims>>
              \/ \E c \in (known[n] \ D) \cup {n} : ApplyElection(n, c)
    BY <1>5, ElectionOutcome
  <2>2. /\ known' \in [Tab -> SUBSET Node]
        /\ stale' \in [Tab -> SUBSET Node]
        /\ score' \in [Tab -> [Node -> Score]]
    BY <2>1, DeleteTypes
  <2>3. \/ UNCHANGED <<held, following, cooling, told, claims>>
        \/ \E c \in Node : ApplyElection(n, c)
    <3>1. (known[n] \ D) \cup {n} \subseteq Node
      BY DEF TypeOK, Node
    <3> QED BY <2>1, <3>1
  <2>4. /\ held' \in [Tab -> BOOLEAN]
        /\ following' \in [Tab -> Node]
        /\ cooling' \in [Tab -> BOOLEAN]
        /\ told' \in [Tab -> Node \cup {Daemon, Nobody}]
        /\ claims' \in [Tab -> BOOLEAN]
    BY <2>3, ElectTypes DEF TypeOK
  <2> QED
    BY <1>5, <2>2, <2>4 DEF ElectSovereign, TypeOK, toldVars, pageVars, daemonVars, intentVars
<1>6. ASSUME NEW n \in Tab, Start(n)
      PROVE  TypeOK'
  <2>1. sendIntent' \in [Tab -> BOOLEAN]
    BY <1>6 DEF Start, TypeOK
  <2>2. following' \in [Tab -> Node] /\ told' \in [Tab -> Node \cup {Daemon, Nobody}]
    BY <1>6 DEF Start, TypeOK, Node
  <2> QED BY <1>6, <2>1, <2>2 DEF Start, TypeOK, daemonVars, intentVars
<1>7. ASSUME NEW n \in Tab, ProbeAnswered(n)
      PROVE  TypeOK'
  BY <1>7 DEF ProbeAnswered, TypeOK, pageVars, electionVars, intentVars
<1>8. ASSUME NEW n \in Tab, ProbeFailed(n)
      PROVE  TypeOK'
  <2>1. PICK c \in Node : ApplyElection(n, c)
    BY <1>8 DEF ProbeFailed, ForceReelect
  <2> QED BY <1>8, <2>1, ElectTypes DEF ProbeFailed, TypeOK, toldVars, pageVars, daemonVars, intentVars
<1>9. ASSUME NEW n \in Tab, NEW i \in Intent, Approve(n, i)
      PROVE  TypeOK'
  <2>1. /\ runs' \in [Intent -> Nat]
        /\ stage' \in [Intent -> Stage]
        /\ following' \in [Tab -> Node]
    <3>1. CASE RouteIntent(n, i)
      BY <3>1, RouteTypes
    <3>2. CASE UNCHANGED following /\ (Run(i, "done") \/ Settle(i, "asked"))
      <4>1. "done" \in Stage /\ "asked" \in Stage
        BY DEF Stage
      <4> QED BY <3>2, <4>1, RunTypes DEF TypeOK
    <3> QED BY <1>9, <3>1, <3>2 DEF Approve
  <2> QED BY <1>9, <2>1 DEF Approve, TypeOK, toldVars, pageVars, daemonVars
<1>10. ASSUME NEW n \in Tab, NEW i \in Intent, HandBack(n, i)
       PROVE  TypeOK'
  BY <1>10, RouteTypes DEF HandBack, TypeOK, toldVars, pageVars, daemonVars
<1>11. ASSUME NEW i \in Intent, DaemonHandles(i) \/ Reply(i) \/ PostFails(i)
       PROVE  TypeOK'
  <2>1. \E s \in Stage : Run(i, s) \/ Settle(i, s)
    BY <1>11 DEF DaemonHandles, Reply, PostFails, Stage
  <2>2. runs' \in [Intent -> Nat] /\ stage' \in [Intent -> Stage]
    BY <2>1, RunTypes
  <2>3. lost' \in [Intent -> Nat]
    <3>1. lost \in [Intent -> Nat]
      BY DEF TypeOK
    <3>2. lost' = lost \/ lost' = [lost EXCEPT ![i] = @ + 1]
      BY <1>11 DEF DaemonHandles, Reply, PostFails
    <3> QED BY <3>1, <3>2, Count
  <2>4. stray' \in [Intent -> BOOLEAN]
    BY <1>11 DEF DaemonHandles, Reply, PostFails, TypeOK
  <2> QED
    BY <1>11, <2>2, <2>3, <2>4
    DEF DaemonHandles, Reply, PostFails, TypeOK, toldVars, pageVars, electionVars, daemonVars
<1>12. ASSUME NEW i \in Intent, StrayArrives(i)
       PROVE  TypeOK'
  <2>1. runs' \in [Intent -> Nat]
    <3>1. runs \in [Intent -> Nat]
      BY DEF TypeOK
    <3> QED BY <1>12, <3>1, Count DEF StrayArrives
  <2> QED BY <1>12, <2>1 DEF StrayArrives, TypeOK, toldVars, pageVars, electionVars, daemonVars
<1>13. CASE DaemonStarts \/ DaemonStops
  BY <1>13 DEF DaemonStarts, DaemonStops, TypeOK, toldVars, pageVars, electionVars, intentVars
<1>14. CASE UNCHANGED vars
  BY <1>14 DEF vars, TypeOK, toldVars, pageVars, electionVars, daemonVars, intentVars
<1>15. ASSUME NEW n \in Tab, Stop(n) \/ Respawn(n)
       PROVE  TypeOK'
  <2>1. PICK D : LoseWorker(n, D)
    BY <1>15 DEF Stop, Respawn
  <2>2. stage' \in [Intent -> Stage] /\ interrupted' \in [Intent -> BOOLEAN]
    BY <2>1 DEF LoseWorker, TypeOK, Stage
  <2>3. UNCHANGED <<origin, stray, runs, lost>>
    BY <2>1 DEF LoseWorker
  <2> QED BY <1>15, <2>2, <2>3 DEF Stop, Respawn, TypeOK, electionVars, daemonVars
<1> QED
  BY <1>1, <1>2, <1>3, <1>4, <1>5, <1>6, <1>7, <1>8, <1>9, <1>10, <1>11, <1>12,
     <1>13, <1>14, <1>15
  DEF Next, Elections, Handling

\* Every variable of the election keeps its type, for every room.
THEOREM SovereignTypeCorrect == Spec => []TypeOK
<1>1. Init => TypeOK
  <2>1. 0 \in Score /\ MaxScore \in Score
    BY NodesAssumption DEF Score
  <2>2. Tab \subseteq Node
    BY DEF Node
  <2> SUFFICES ASSUME Init PROVE TypeOK
    OBVIOUS
  <2>3. [p \in Node |-> 0] \in [Node -> Score]
    BY <2>1
  <2>4. own \in [Tab -> Score] /\ score \in [Tab -> [Node -> Score]]
    BY <2>1, <2>3 DEF Init
  <2>5. /\ known \in [Tab -> SUBSET Node]
        /\ stale \in [Tab -> SUBSET Node]
        /\ following \in [Tab -> Node]
        /\ told \in [Tab -> Node \cup {Daemon, Nobody}]
    BY <2>2 DEF Init
  <2>6. /\ stage \in [Intent -> Stage]
        /\ origin \in [Intent -> Tab \cup {Nobody}]
        /\ stray \in [Intent -> BOOLEAN]
        /\ runs \in [Intent -> Nat]
        /\ lost \in [Intent -> Nat]
        /\ interrupted \in [Intent -> BOOLEAN]
    BY DEF Init, Stage
  <2> QED BY <2>4, <2>5, <2>6 DEF Init, TypeOK
<1>2. TypeOK /\ [Next]_vars => TypeOK'
  BY SovereignTypeStep
<1> QED BY <1>1, <1>2, PTL DEF Spec

-----------------------------------------------------------------------------
(* Who is told to execute                                                  *)

\* While a tab believes the daemon alive, what it last told its workers is
\* that the daemon is sovereign (_emitDaemonSovereign), and only then.
THEOREM DaemonSilencesCorrect == Spec => []DaemonSilencesTabs
<1>1. Init => DaemonSilencesTabs
  BY NodesAssumption DEF Init, DaemonSilencesTabs
<1>2. TypeOK /\ DaemonSilencesTabs /\ [Next]_vars => DaemonSilencesTabs'
  <2> SUFFICES ASSUME TypeOK, DaemonSilencesTabs, [Next]_vars
               PROVE  DaemonSilencesTabs'
    OBVIOUS
  <2> USE DEF DaemonSilencesTabs
  <2>1. ASSUME NEW n \in Tab, NEW c \in Node, ApplyElection(n, c),
               \/ ~daemonAlive[n] /\ UNCHANGED daemonAlive
               \/ daemonAlive' = [daemonAlive EXCEPT ![n] = FALSE]
        PROVE  DaemonSilencesTabs'
    BY <2>1, NodesAssumption DEF ApplyElection, TypeOK
  <2>2. ASSUME NEW n \in Tab, ElectSovereign(n)
        PROVE  DaemonSilencesTabs'
    <3>1. \/ UNCHANGED told
          \/ \E c \in Node : ApplyElection(n, c)
      <4>1. known[n] \cup {n} \subseteq Node
        BY DEF TypeOK, Node
      <4> QED BY <2>2, <4>1, ElectionOutcome
    <3>2. ~daemonAlive[n] /\ UNCHANGED daemonAlive
      BY <2>2 DEF ElectSovereign
    <3> QED BY <2>1, <3>1, <3>2
  <2>3. ASSUME NEW n \in Tab, ProbeFailed(n)
        PROVE  DaemonSilencesTabs'
    BY <2>1, <2>3 DEF ProbeFailed, ForceReelect
  <2>4. ASSUME NEW n \in Tab, ProbeAnswered(n) \/ Start(n)
        PROVE  DaemonSilencesTabs'
    <3>1. daemonAlive \in [Tab -> BOOLEAN] /\ told \in [Tab -> Node \cup {Daemon, Nobody}]
      BY DEF TypeOK
    <3>2. \/ /\ daemonAlive' = [daemonAlive EXCEPT ![n] = TRUE]
             /\ told' = [told EXCEPT ![n] = Daemon]
          \/ /\ daemonAlive' = [daemonAlive EXCEPT ![n] = FALSE]
             /\ told' = [told EXCEPT ![n] = Nobody]
      BY <2>4 DEF ProbeAnswered, Start
    <3> QED BY <3>1, <3>2, NodesAssumption
  <2>5. CASE UNCHANGED <<daemonAlive, told>>
    BY <2>5
  <2> QED
    BY <2>2, <2>3, <2>4, <2>5
    DEF Next, Elections, Handling, OwnScore, HandleEcho, FallSilent, CooldownOver,
        Stop, Respawn, Approve, HandBack, DaemonHandles, Reply, PostFails, StrayArrives,
        DaemonStarts, DaemonStops, toldVars, pageVars, vars
<1> QED BY <1>1, <1>2, SovereignTypeCorrect, PTL DEF Spec

\* A tab never follows a peer whose score it has deleted.
THEOREM FollowsKnownCorrect == Spec => []FollowsKnownPeer
<1>1. Init => FollowsKnownPeer
  BY DEF Init, FollowsKnownPeer
<1>2. TypeOK /\ FollowsKnownPeer /\ [Next]_vars => FollowsKnownPeer'
  <2> SUFFICES ASSUME TypeOK, FollowsKnownPeer, [Next]_vars
               PROVE  FollowsKnownPeer'
    OBVIOUS
  <2> USE DEF FollowsKnownPeer
  <2>1. ASSUME NEW n \in Tab, ElectSovereign(n)
        PROVE  FollowsKnownPeer'
    <3>1. PICK D \in SUBSET stale[n] :
             /\ Delete(n, D)
             /\ \/ following[n] \notin D /\ UNCHANGED following
                \/ \E c \in (known[n] \ D) \cup {n} : ApplyElection(n, c)
      BY <2>1, ElectionOutcome
    <3>2. known' = [known EXCEPT ![n] = @ \ D]
      BY <3>1 DEF Delete
    <3>3. CASE following[n] \notin D /\ UNCHANGED following
      BY <3>2, <3>3 DEF TypeOK
    <3>4. ASSUME NEW c \in (known[n] \ D) \cup {n}, ApplyElection(n, c)
          PROVE  FollowsKnownPeer'
      <4>1. following' = [following EXCEPT ![n] = c]
        BY <3>4 DEF ApplyElection
      <4> QED BY <3>2, <4>1 DEF TypeOK
    <3> QED BY <3>1, <3>3, <3>4
  <2>2. ASSUME NEW n \in Tab, ProbeFailed(n)
        PROVE  FollowsKnownPeer'
    <3>1. ForceReelect(n, known[n]) /\ known[n] \in SUBSET Node
      BY <2>2 DEF ProbeFailed, TypeOK
    <3>2. PICK c \in known[n] \cup {n} : ApplyElection(n, c)
      BY <3>1, ElectedIsCandidate
    <3>3. following' = [following EXCEPT ![n] = c] /\ UNCHANGED known
      BY <2>2, <3>2 DEF ApplyElection, ProbeFailed
    <3> QED BY <3>2, <3>3 DEF TypeOK
  <2>3. ASSUME NEW n \in Tab, NEW p \in Node, NEW s \in Score, HandleEcho(n, p, s)
        PROVE  FollowsKnownPeer'
    BY <2>3 DEF HandleEcho, TypeOK
  <2>4. ASSUME NEW n \in Tab, NEW i \in Intent, Approve(n, i) \/ HandBack(n, i)
        PROVE  FollowsKnownPeer'
    <3>1. UNCHANGED following \/ following' = [following EXCEPT ![n] = n]
      BY <2>4 DEF Approve, HandBack, RouteIntent
    <3>2. UNCHANGED known
      BY <2>4 DEF Approve, HandBack
    <3> QED BY <3>1, <3>2 DEF TypeOK
  <2>5. ASSUME NEW n \in Tab, Start(n)
        PROVE  FollowsKnownPeer'
    BY <2>5 DEF Start, TypeOK
  <2>6. CASE UNCHANGED <<following, known>>
    BY <2>6
  <2> QED
    BY <2>1, <2>2, <2>3, <2>4, <2>5, <2>6
    DEF Next, Elections, Handling, OwnScore, FallSilent, CooldownOver, ProbeAnswered,
        Stop, Respawn,
        DaemonHandles, Reply, PostFails, StrayArrives, DaemonStarts, DaemonStops,
        toldVars, pageVars, electionVars, vars
<1> QED BY <1>1, <1>2, SovereignTypeCorrect, PTL DEF Spec

-----------------------------------------------------------------------------
(* How often an intent is executed                                         *)

One(b) == IF b THEN 1 ELSE 0

\* The executions of an intent that its stage, its stray POST and its lost
\* replies account for: before it is settled none but a lost one, and a stray
\* POST is one that a lost reply already stands for.
AccountedFor(i) ==
  runs[i] + One(stray[i]) + One(stage[i] \in {"new", "asked", "posted", "declined"})
    <= 1 + lost[i]

Accounted == \A i \in Intent : AccountedFor(i)

\* An intent is executed again only after a reply of the daemon was lost.
THEOREM RunsCorrect == Spec => []RunsExplained
<1>1. Init => Accounted
  BY DEF Init, Accounted, AccountedFor, One
<1>2. TypeOK /\ Accounted /\ [Next]_vars => Accounted'
  <2> SUFFICES ASSUME TypeOK, Accounted, [Next]_vars, NEW j \in Intent
               PROVE  AccountedFor(j)'
    BY DEF Accounted
  <2>0. /\ runs[j] \in Nat /\ lost[j] \in Nat /\ stray[j] \in BOOLEAN
        /\ AccountedFor(j)
    BY DEF TypeOK, Accounted
  <2>1. ASSUME NEW n \in Tab, NEW i \in Intent, Approve(n, i) \/ HandBack(n, i)
        PROVE  AccountedFor(j)'
    <3>1. stage[i] \in {"new", "asked"} /\ UNCHANGED <<stray, lost>>
      BY <2>1 DEF Approve, HandBack
    <3>2. \/ Run(i, "done")
          \/ Settle(i, "posted") \/ Settle(i, "lost") \/ Settle(i, "asked")
      BY <2>1 DEF Approve, HandBack, RouteIntent
    <3>3. CASE Run(i, "done")
      BY <2>0, <3>1, <3>3 DEF Run, One, TypeOK, AccountedFor
    <3>4. CASE Settle(i, "posted") \/ Settle(i, "lost") \/ Settle(i, "asked")
      BY <2>0, <3>1, <3>4 DEF Settle, One, TypeOK, AccountedFor
    <3> QED BY <3>2, <3>3, <3>4
  <2>2. ASSUME NEW i \in Intent, DaemonHandles(i)
        PROVE  AccountedFor(j)'
    BY <2>0, <2>2 DEF DaemonHandles, Run, Settle, One, TypeOK, AccountedFor
  <2>3. ASSUME NEW i \in Intent, Reply(i)
        PROVE  AccountedFor(j)'
    BY <2>0, <2>3 DEF Reply, Settle, One, TypeOK, AccountedFor
  <2>4. ASSUME NEW i \in Intent, PostFails(i)
        PROVE  AccountedFor(j)'
    <3>1. CASE UNCHANGED stray
      BY <2>0, <2>4, <3>1 DEF PostFails, Run, Settle, One, TypeOK, AccountedFor
    <3>2. CASE stage[i] = "posted" /\ stray' = [stray EXCEPT ![i] = TRUE]
      BY <2>0, <2>4, <3>2 DEF PostFails, Run, Settle, One, TypeOK, AccountedFor
    <3> QED BY <2>4, <3>1, <3>2 DEF PostFails
  <2>5. ASSUME NEW i \in Intent, StrayArrives(i)
        PROVE  AccountedFor(j)'
    BY <2>0, <2>5 DEF StrayArrives, One, TypeOK, AccountedFor
  <2>6. ASSUME NEW n \in Tab, Stop(n) \/ Respawn(n)
        PROVE  AccountedFor(j)'
    <3>1. /\ stage'[j] \in {stage[j], "dropped"}
          /\ UNCHANGED <<runs, lost, stray>>
      BY <2>6 DEF Stop, Respawn, LoseWorker, TypeOK
    <3> QED BY <2>0, <3>1 DEF One, AccountedFor
  <2>7. CASE UNCHANGED <<stage, stray, runs, lost>>
    BY <2>0, <2>7 DEF AccountedFor, One
  <2> QED
    BY <2>1, <2>2, <2>3, <2>4, <2>5, <2>6, <2>7
    DEF Next, Elections, Handling, OwnScore, HandleEcho, FallSilent, CooldownOver,
        ElectSovereign, Start, ProbeAnswered, ProbeFailed, DaemonStarts, DaemonStops,
        intentVars, toldVars, pageVars, vars
<1>3. TypeOK /\ Accounted => RunsExplained
  <2> SUFFICES ASSUME TypeOK, Accounted, NEW i \in Intent PROVE runs[i] <= 1 + lost[i]
    BY DEF RunsExplained
  <2>1. runs[i] \in Nat /\ lost[i] \in Nat
    BY DEF TypeOK
  <2> QED BY <2>1 DEF Accounted, AccountedFor, One
<1> QED BY <1>1, <1>2, <1>3, SovereignTypeCorrect, PTL DEF Spec

-----------------------------------------------------------------------------
(* The steps the liveness properties depend on.  TLC checks that they are     *)
(* taken; that they achieve what the properties ask for is proved.            *)

\* A sovereign peer that has fallen silent is sovereign no longer after the
\* next election step of the tab, whatever the scores are: the step in
\* SilentSovereignReplaced.
SilentSovereignYields ==
  [][\A n \in Tab, p \in Peer :
       ElectSovereign(n) /\ following[n] = p /\ p \in stale[n] => following'[n] # p]_vars

THEOREM SilentSovereignCorrect == Spec => SilentSovereignYields
<1>1. ASSUME TypeOK, NEW n \in Tab, NEW p \in Peer,
             ElectSovereign(n), following[n] = p, p \in stale[n]
      PROVE  following'[n] # p
  <2>1. PruneIncumbent(n)
    BY <1>1 DEF ElectSovereign, PruneAndElect
  <2>2. PICK D \in SUBSET stale[n] : following[n] \in D /\ ForceReelect(n, known[n] \ D)
    BY <2>1 DEF PruneIncumbent
  <2>3. known[n] \ D \in SUBSET Node
    BY <1>1 DEF TypeOK
  <2>4. PICK c \in (known[n] \ D) \cup {n} : ApplyElection(n, c)
    BY <1>1, <2>2, <2>3, ElectedIsCandidate
  <2>5. c # p
    BY <1>1, <2>2, <2>4, NodesAssumption
  <2> QED BY <1>1, <2>4, <2>5 DEF ApplyElection, TypeOK
<1>2. TypeOK /\ [Next]_vars =>
        [\A n \in Tab, p \in Peer :
           ElectSovereign(n) /\ following[n] = p /\ p \in stale[n] => following'[n] # p]_vars
  BY <1>1
<1> QED BY <1>2, SovereignTypeCorrect, PTL DEF Spec, SilentSovereignYields

\* A tab that has not been told who is sovereign has not held an election since
\* it started: neither half of Blocked but the cooldown can hold it up.
Undecided == \A n \in Tab : told[n] = Nobody => ~held[n]

LEMMA UndecidedStep == TypeOK /\ Undecided /\ [Next]_vars => Undecided'
<1> SUFFICES ASSUME TypeOK, Undecided, [Next]_vars PROVE Undecided'
  OBVIOUS
<1> USE DEF Undecided
<1>0. told \in [Tab -> Node \cup {Daemon, Nobody}] /\ held \in [Tab -> BOOLEAN]
  BY DEF TypeOK
<1>1. ASSUME NEW n \in Tab, NEW c \in Node, ApplyElection(n, c) PROVE Undecided'
  BY <1>0, <1>1, NodesAssumption DEF ApplyElection
<1>2. CASE UNCHANGED <<told, held>>
  BY <1>2
<1>3. ASSUME NEW n \in Tab, ElectSovereign(n) PROVE Undecided'
  <2>1. known[n] \cup {n} \subseteq Node
    BY DEF TypeOK, Node
  <2>2. UNCHANGED <<told, held>> \/ \E c \in Node : ApplyElection(n, c)
    BY <1>3, <2>1, ElectionOutcome
  <2> QED BY <1>1, <1>2, <2>2
<1>4. ASSUME NEW n \in Tab, ProbeFailed(n) PROVE Undecided'
  BY <1>1, <1>4 DEF ProbeFailed, ForceReelect
<1>5. ASSUME NEW n \in Tab, ProbeAnswered(n) PROVE Undecided'
  BY <1>0, <1>5, NodesAssumption DEF ProbeAnswered, electionVars
<1>6. ASSUME NEW n \in Tab, Start(n) PROVE Undecided'
  BY <1>0, <1>6 DEF Start
<1> QED
  BY <1>2, <1>3, <1>4, <1>5, <1>6
  DEF Next, Elections, Handling, OwnScore, HandleEcho, FallSilent, CooldownOver,
      Stop, Respawn, Approve, HandBack, DaemonHandles, Reply, PostFails, StrayArrives,
      DaemonStarts, DaemonStops, electionVars, toldVars, pageVars, vars

\* A tab that has not been told who is sovereign is told by its first election
\* step after the cooldown, even if it is best itself and by any margin: the
\* step in SovereignDecided.
FirstElectionDecides ==
  [][\A n \in Tab :
       ElectSovereign(n) /\ told[n] = Nobody /\ ~cooling[n] => told'[n] # Nobody]_vars

THEOREM FirstElectionCorrect == Spec => FirstElectionDecides
<1>1. ASSUME TypeOK, Undecided, NEW n \in Tab,
             ElectSovereign(n), told[n] = Nobody, ~cooling[n]
      PROVE  told'[n] # Nobody
  <2>1. ~held[n] /\ n \in Node /\ Nobody \notin Node
    BY <1>1, NodesAssumption DEF Undecided, Node
  <2>2. \A c : ~Blocked(n, c)
    BY <1>1, <2>1 DEF Blocked
  <2>3. \E c \in Node : ApplyElection(n, c)
    <3>1. CASE PruneIncumbent(n)
      BY <3>1 DEF PruneIncumbent, ForceReelect
    <3>2. CASE PruneAndElect(n)
      BY <2>1, <2>2, <3>2 DEF PruneAndElect, Reconfirms
    <3> QED BY <1>1, <3>1, <3>2 DEF ElectSovereign
  <2> QED BY <1>1, <2>1, <2>3 DEF ApplyElection, TypeOK
<1>2. Init => Undecided
  BY DEF Init, Undecided
<1>3. TypeOK /\ Undecided /\ [Next]_vars =>
        [\A n \in Tab :
           ElectSovereign(n) /\ told[n] = Nobody /\ ~cooling[n] => told'[n] # Nobody]_vars
  BY <1>1
<1> QED
  BY <1>2, <1>3, UndecidedStep, SovereignTypeCorrect, PTL DEF Spec, FirstElectionDecides

-----------------------------------------------------------------------------
(* What becomes of an intent                                               *)

\* Between STOP and START, or until the heartbeat replaces it, a tab has no
\* execution worker; an intent on its way then was on its way before.
WorkersKnown ==
  /\ \A n \in Tab : running[n] => staffed[n]
  /\ \A i \in Intent :
       /\ stage[i] \in {"asked", "posted", "answered", "declined"} => origin[i] \in Tab
       /\ stage[i] = "asked" => staffed[origin[i]]
       /\ stage[i] \in {"posted", "answered", "declined"} /\ ~staffed[origin[i]]
            => interrupted[i]

KeptInv == WorkersKnown /\ IntentsKept

LEMMA KeptStep == TypeOK /\ KeptInv /\ [Next]_vars => KeptInv'
<1> SUFFICES ASSUME TypeOK, KeptInv, [Next]_vars PROVE KeptInv'
  OBVIOUS
<1> USE DEF KeptInv, WorkersKnown, IntentsKept
<1>0. /\ stage \in [Intent -> Stage] /\ runs \in [Intent -> Nat]
      /\ origin \in [Intent -> Tab \cup {Nobody}] /\ interrupted \in [Intent -> BOOLEAN]
      /\ running \in [Tab -> BOOLEAN] /\ staffed \in [Tab -> BOOLEAN]
  BY DEF TypeOK
<1>1. ASSUME NEW i \in Intent, NEW s \in Stage, Run(i, s), UNCHANGED <<origin, interrupted>>,
             s \in {"answered", "done"}, s = "answered" => stage[i] = "posted",
             UNCHANGED <<running, staffed>>
      PROVE  KeptInv'
  BY <1>0, <1>1 DEF Run
<1>2. ASSUME NEW n \in Tab, NEW i \in Intent, origin' = [origin EXCEPT ![i] = n],
             staffed[n], UNCHANGED <<interrupted, running, staffed>>,
             RouteIntent(n, i) \/ Run(i, "done") \/ Settle(i, "asked")
      PROVE  KeptInv'
  <2>1. CASE Run(i, "done")
    BY <1>0, <1>2, <2>1 DEF Run
  <2>2. CASE Settle(i, "asked") \/ Settle(i, "posted") \/ Settle(i, "lost")
    BY <1>0, <1>2, <2>2 DEF Settle
  <2> QED BY <1>2, <2>1, <2>2 DEF RouteIntent
<1>3. ASSUME NEW n \in Tab, NEW i \in Intent, Approve(n, i) PROVE KeptInv'
  <2>1. /\ origin' = [origin EXCEPT ![i] = n] /\ staffed[n]
        /\ UNCHANGED <<interrupted, running, staffed>>
    BY <1>3 DEF Approve, pageVars
  <2> QED BY <1>2, <1>3, <2>1 DEF Approve
<1>4. ASSUME NEW n \in Tab, NEW i \in Intent, HandBack(n, i) PROVE KeptInv'
  <2>1. /\ origin' = [origin EXCEPT ![i] = n] /\ staffed[n]
        /\ UNCHANGED <<interrupted, running, staffed>>
    BY <1>0, <1>4 DEF HandBack, pageVars
  <2> QED BY <1>2, <1>4, <2>1 DEF HandBack
<1>5. ASSUME NEW i \in Intent, DaemonHandles(i) \/ Reply(i)
      PROVE  KeptInv'
  <2>1. UNCHANGED <<origin, interrupted, running, staffed>>
    BY <1>5 DEF DaemonHandles, Reply, pageVars
  <2>2. CASE stage[i] = "posted" /\ Run(i, "answered")
    BY <1>1, <2>1, <2>2 DEF Stage
  <2>3. CASE stage[i] = "posted" /\ Settle(i, "declined")
    BY <1>0, <2>1, <2>3 DEF Settle
  <2>4. CASE \/ stage[i] = "answered" /\ Settle(i, "done")
             \/ stage[i] = "declined" /\ Settle(i, "refused")
    BY <1>0, <2>1, <2>4 DEF Settle
  <2> QED BY <1>5, <2>2, <2>3, <2>4 DEF DaemonHandles, Reply
<1>6. ASSUME NEW i \in Intent, PostFails(i)
      PROVE  KeptInv'
  <2>1. UNCHANGED <<origin, interrupted, running, staffed>>
    BY <1>6 DEF PostFails, pageVars
  <2>2. CASE Run(i, "done")
    BY <1>1, <2>1, <2>2 DEF Stage
  <2>3. CASE /\ stage[i] \in {"posted", "answered", "declined"}
             /\ ~staffed[origin[i]]
             /\ Settle(i, "dropped")
    BY <1>0, <2>1, <2>3 DEF Settle
  <2> QED BY <1>6, <2>2, <2>3 DEF PostFails
<1>7. ASSUME NEW i \in Intent, StrayArrives(i) PROVE KeptInv'
  BY <1>0, <1>7 DEF StrayArrives, pageVars
<1>8. ASSUME NEW n \in Tab, Stop(n) PROVE KeptInv'
  <2>1. /\ running' = [running EXCEPT ![n] = FALSE]
        /\ staffed' = [staffed EXCEPT ![n] = FALSE]
        /\ UNCHANGED <<origin, runs>>
        /\ stage' = [i \in Intent |-> IF i \in Asked(n) THEN "dropped" ELSE stage[i]]
        /\ interrupted' = [i \in Intent |-> interrupted[i] \/ i \in UnderWay(n)]
    BY <1>8 DEF Stop, LoseWorker
  <2> QED BY <1>0, <2>1 DEF Asked, UnderWay
<1>9. ASSUME NEW n \in Tab, Respawn(n) PROVE KeptInv'
  <2>1. PICK D \in SUBSET Asked(n) :
          /\ stage' = [i \in Intent |-> IF i \in D THEN "dropped" ELSE stage[i]]
          /\ interrupted' = [i \in Intent |-> interrupted[i] \/ i \in UnderWay(n)]
          /\ UNCHANGED <<origin, runs>>
    BY <1>9 DEF Respawn, LoseWorker
  <2>2. staffed' = [staffed EXCEPT ![n] = TRUE] /\ UNCHANGED running
    BY <1>9 DEF Respawn
  <2> QED BY <1>0, <2>1, <2>2 DEF Asked, UnderWay
<1>10. ASSUME NEW n \in Tab, Start(n) PROVE KeptInv'
  <2>1. /\ running' = [running EXCEPT ![n] = TRUE]
        /\ staffed' = [staffed EXCEPT ![n] = TRUE]
        /\ UNCHANGED <<stage, origin, runs, interrupted>>
    BY <1>10 DEF Start, intentVars
  <2> QED BY <1>0, <2>1
<1>11. CASE UNCHANGED <<stage, origin, runs, interrupted, running, staffed>>
  BY <1>11
<1> QED
  BY <1>3, <1>4, <1>5, <1>6, <1>7, <1>8, <1>9, <1>10, <1>11
  DEF Next, Elections, Handling, OwnScore, HandleEcho, FallSilent, CooldownOver,
      ElectSovereign, ProbeAnswered, ProbeFailed, DaemonStarts, DaemonStops,
      intentVars, pageVars, vars

\* An intent settled as done was handed to an execution worker, and one that
\* reaches no worker was on its way when its tab was stopped or its worker replaced, for any room
\* and any number of intents.
THEOREM IntentsKeptCorrect == Spec => []IntentsKept
<1>1. Init => KeptInv
  BY DEF Init, KeptInv, WorkersKnown, IntentsKept
<1>2. KeptInv => IntentsKept
  BY DEF KeptInv
<1> QED BY <1>1, <1>2, KeptStep, SovereignTypeCorrect, PTL DEF Spec
=============================================================================
