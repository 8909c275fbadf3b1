------------------------- MODULE RegimeQuorumProofs -------------------------
(* Proofs about RegimeQuorum, for any number of tabs, links and votes: its    *)
(* types, and that a tab changes its regime only for a proposal that half of  *)
(* the nodes it knows of have voted for.  The invariant says where a vote can *)
(* be: whoever is counted, or is on the way to be, has voted; a closed tab    *)
(* counts nobody.                                                             *)
EXTENDS RegimeQuorum, FunctionTheorems, FiniteSetTheorems, TLAPS

\* A tab counts only voters that have voted.
VotersVoted == \A n \in Tab, v \in Vote : voters[n][v] \subseteq cast[v]

\* A vote under way was cast, and its addressee is open.
BallotsCast == \A m \in net : m.voter \in cast[m.vote] /\ m.to \in alive

\* A closed tab has no entry.
ClosedEmpty == \A n \in Tab \ alive, v \in Vote : voters[n][v] = {}

IInv == TypeOK /\ VotersVoted /\ BallotsCast /\ ClosedEmpty

-----------------------------------------------------------------------------
(* The operators of the model.                                              *)

LEMMA LinkTabFinite == IsFiniteSet(Link \X Tab)
<1>1. IsFiniteSet({"bc"} \cup {"rtc"})
  BY FS_Singleton, FS_AddElement
<1>2. Link = {"bc"} \cup {"rtc"}
  BY DEF Link
<1> QED BY <1>1, <1>2, FS_Product, QuorumAssumption

(* However many links lead to a peer, the nodes known are at most one more   *)
(* than the entries of _peerIds.                                             *)
LEMMA KnownBound ==
  ASSUME NEW S \in SUBSET (Link \X Tab), NEW n \in Tab
  PROVE  LET K == {n} \cup {p \in Tab : \E l \in Link : <<l, p>> \in S}
         IN  /\ IsFiniteSet(S) /\ IsFiniteSet(K)
             /\ Cardinality(K) <= Cardinality(S) + 1
<1> DEFINE T == {p \in Tab : \E l \in Link : <<l, p>> \in S}
           f == [x \in S |-> x[2]]
<1>1. IsFiniteSet(S)
  BY LinkTabFinite, FS_Subset
<1>2. f \in Surjection(S, T)
  <2>1. \A x \in S : f[x] \in T
    OBVIOUS
  <2>2. \A p \in T : \E x \in S : f[x] = p
    OBVIOUS
  <2> QED BY <2>1, <2>2, Zenon DEF Surjection
<1>3. IsFiniteSet(T) /\ Cardinality(T) <= Cardinality(S)
  BY <1>1, <1>2, FS_Surjection
<1>4. /\ IsFiniteSet(T \cup {n})
      /\ Cardinality(T \cup {n}) = IF n \in T THEN Cardinality(T) ELSE Cardinality(T) + 1
  BY <1>3, FS_AddElement
<1>5. Cardinality(T) \in Nat /\ Cardinality(S) \in Nat
  BY <1>1, <1>3, FS_CardinalityType
<1> HIDE DEF T
<1>6. Cardinality(T \cup {n}) <= Cardinality(S) + 1
  BY <1>3, <1>4, <1>5
<1>7. {n} \cup T = T \cup {n}
  OBVIOUS
<1>8. IsFiniteSet({n} \cup T) /\ Cardinality({n} \cup T) <= Cardinality(S) + 1
  BY <1>4, <1>6, <1>7, Zenon
<1> QED BY <1>1, <1>8 DEF T

(* A quorum among the voters counted is at least half of the nodes known.   *)
LEMMA QuorumIsHalf ==
  ASSUME NEW n \in Tab, peerIds' \in [Tab -> SUBSET (Link \X Tab)],
         NEW counted, NEW voted \in SUBSET Tab,
         counted \subseteq voted,
         2 * Cardinality(counted) >= Cardinality(peerIds'[n]) + 1
  PROVE  2 * Cardinality(voted) >= Cardinality(KnownTo(n)')
<1>1. IsFiniteSet(voted) /\ IsFiniteSet(counted)
  BY QuorumAssumption, FS_Subset
<1>2. Cardinality(counted) <= Cardinality(voted)
  BY <1>1, FS_Subset
<1>3. peerIds'[n] \in SUBSET (Link \X Tab)
  OBVIOUS
<1>4. /\ IsFiniteSet(peerIds'[n]) /\ IsFiniteSet(KnownTo(n)')
      /\ Cardinality(KnownTo(n)') <= Cardinality(peerIds'[n]) + 1
  BY <1>3, KnownBound, Zenon DEF KnownTo
<1>5. /\ Cardinality(counted) \in Nat /\ Cardinality(voted) \in Nat
      /\ Cardinality(peerIds'[n]) \in Nat /\ Cardinality(KnownTo(n)') \in Nat
  BY <1>1, <1>4, FS_CardinalityType
<1> QED BY <1>2, <1>4, <1>5

LEMMA BallotsType ==
  ASSUME NEW n, NEW v
  PROVE  /\ Ballots(n, v) \subseteq Message
         /\ \A m \in Ballots(n, v) : m.voter = n /\ m.vote = v /\ m.to \in alive
BY DEF Ballots

(* A check of the quorum: what it may change, and what a commit needs.      *)
LEMMA CheckFits ==
  ASSUME TypeOK, NEW n \in Tab, NEW v \in Vote, NEW counted \in SUBSET Tab,
         NEW about \in Regime, CheckRegimeQuorum(n, v, counted, about)
  PROVE  /\ voters' \in [Tab -> [Vote -> SUBSET Tab]]
         /\ \A p \in Tab, w \in Vote :
              voters'[p][w] \in IF p = n /\ w = v THEN {{}, counted} ELSE {voters[p][w]}
         /\ regime' \in [Tab -> Regime]
         /\ dwelling' \in [Tab -> BOOLEAN]
         /\ remembered' \in [Tab -> SUBSET Vote]
<1> DEFINE quorum == HasQuorum(n, counted)
           commits == quorum /\ about # regime[n] /\ ~dwelling[n]
<1>1. voters' = [voters EXCEPT ![n][v] = IF quorum THEN {} ELSE counted]
  BY DEF CheckRegimeQuorum
<1>2. commits => /\ regime' = [regime EXCEPT ![n] = about]
                 /\ dwelling' = [dwelling EXCEPT ![n] = TRUE]
                 /\ remembered' = [remembered EXCEPT ![n] = @ \cup {v}]
  BY DEF CheckRegimeQuorum
<1>3. ~commits => UNCHANGED <<regime, dwelling, remembered>>
  BY DEF CheckRegimeQuorum
<1>4. voters \in [Tab -> [Vote -> SUBSET Tab]] /\ regime \in [Tab -> Regime]
      /\ dwelling \in [Tab -> BOOLEAN] /\ remembered \in [Tab -> SUBSET Vote]
  BY DEF TypeOK
<1> HIDE DEF commits
<1>5. /\ regime' \in [Tab -> Regime] /\ dwelling' \in [Tab -> BOOLEAN]
      /\ remembered' \in [Tab -> SUBSET Vote]
  <2>1. CASE commits
    <3>1. regime' \in [Tab -> Regime]
      BY <1>2, <1>4, <2>1
    <3>2. dwelling' \in [Tab -> BOOLEAN]
      BY <1>2, <1>4, <2>1
    <3>3. remembered' \in [Tab -> SUBSET Vote]
      BY <1>2, <1>4, <2>1
    <3> QED BY <3>1, <3>2, <3>3
  <2>2. CASE ~commits
    BY <1>3, <1>4, <2>2
  <2> QED BY <2>1, <2>2
<1> HIDE DEF quorum
<1>7. /\ voters' \in [Tab -> [Vote -> SUBSET Tab]]
      /\ \A p \in Tab, w \in Vote :
           voters'[p][w] \in IF p = n /\ w = v THEN {{}, counted} ELSE {voters[p][w]}
  BY <1>1, <1>4
<1> QED BY <1>5, <1>7

(* A commit comes from a quorum among the voters counted.                    *)
LEMMA CommitFits ==
  ASSUME TypeOK, NEW n \in Tab, NEW v \in Vote, NEW counted, NEW about,
         CheckRegimeQuorum(n, v, counted, about),
         NEW p \in Tab, regime'[p] # regime[p]
  PROVE  /\ p = n /\ regime'[p] = about /\ v \in remembered'[p]
         /\ 2 * Cardinality(counted) >= Cardinality(peerIds'[n]) + 1
<1>1. regime \in [Tab -> Regime] /\ remembered \in [Tab -> SUBSET Vote]
  BY DEF TypeOK
<1>2. ~UNCHANGED <<regime, dwelling, remembered>>
  OBVIOUS
<1>3. /\ HasQuorum(n, counted)
      /\ regime' = [regime EXCEPT ![n] = about]
      /\ remembered' = [remembered EXCEPT ![n] = @ \cup {v}]
  BY <1>2 DEF CheckRegimeQuorum
<1>4. 2 * Cardinality(counted) >= Cardinality(peerIds'[n]) + 1
  BY <1>3 DEF HasQuorum
<1> QED BY <1>1, <1>3, <1>4

-----------------------------------------------------------------------------
(* The actions.                                                             *)

\* What a step that changes a regime must show, and what CommitsBacked says of it.
Backed(n) ==
  \E v \in Vote : /\ topic'[v] = regime'[n]
                  /\ v \in remembered'[n] \ remembered[n]
                  /\ 2 * Cardinality(cast'[v]) >= Cardinality(KnownTo(n)')

CommitStep ==
  \A n \in alive' : regime'[n] # regime[n] => forced' # forced \/ Backed(n)

LEMMA InitHolds == Init => IInv
<1> SUFFICES ASSUME Init PROVE IInv
  OBVIOUS
<1>1. 0 \in Regime /\ 0 \in 0..MaxForced
  BY QuorumAssumption DEF Regime
<1>2. TypeOK
  BY <1>1 DEF Init, TypeOK
<1> QED BY <1>2 DEF Init, IInv, VotersVoted, BallotsCast, ClosedEmpty

(* Peers come and go, timers run out and the detector samples: no entry is   *)
(* opened, no vote cast, no regime changed.                                  *)
LEMMA JoinLeaveStep ==
  ASSUME IInv, NEW l \in Link, NEW n \in Tab, NEW p \in Tab, Join(l, n, p) \/ Leave(l, n, p)
  PROVE  IInv' /\ CommitStep
<1> USE DEF IInv
<1>1. peerIds' \in [Tab -> SUBSET (Link \X Tab)]
  <2>1. <<l, p>> \in Link \X Tab
    OBVIOUS
  <2> DEFINE Pairs == Link \X Tab
  <2>2. peerIds \in [Tab -> SUBSET Pairs]
    BY DEF TypeOK
  <2> HIDE DEF Pairs
  <2>3. CASE Join(l, n, p)
    <3>1. peerIds' = [peerIds EXCEPT ![n] = @ \cup {<<l, p>>}]
      BY <2>3 DEF Join
    <3>2. <<l, p>> \in Pairs
      BY <2>1 DEF Pairs
    <3> QED BY <2>2, <3>1, <3>2 DEF Pairs
  <2>4. CASE Leave(l, n, p)
    <3>1. peerIds' = [peerIds EXCEPT ![n] = @ \ {<<l, p>>}]
      BY <2>4 DEF Leave
    <3> QED BY <2>2, <3>1 DEF Pairs
  <2> QED BY <2>3, <2>4
<1> QED BY <1>1 DEF TypeOK, Join, Leave, VotersVoted, BallotsCast, ClosedEmpty, CommitStep

LEMMA TimeoutStep ==
  ASSUME IInv, NEW n \in Tab, NEW v \in Vote, Expire(n, v) \/ Forget(n, v)
  PROVE  IInv' /\ CommitStep
<1> USE DEF IInv
<1>1. CASE Expire(n, v)
  <2>1. /\ voters' \in [Tab -> [Vote -> SUBSET Tab]]
        /\ \A q \in Tab, w \in Vote : voters'[q][w] \subseteq voters[q][w]
    BY <1>1 DEF TypeOK, Expire
  <2>2. TypeOK'
    BY <1>1, <2>1 DEF TypeOK, Expire
  <2>3. VotersVoted' /\ ClosedEmpty'
    BY <1>1, <2>1 DEF Expire, VotersVoted, ClosedEmpty
  <2>4. BallotsCast' /\ CommitStep
    BY <1>1 DEF Expire, BallotsCast, CommitStep
  <2> QED BY <2>2, <2>3, <2>4
<1>2. CASE Forget(n, v)
  <2>1. remembered' \in [Tab -> SUBSET Vote]
    BY <1>2 DEF TypeOK, Forget
  <2> QED BY <1>2, <2>1 DEF TypeOK, Forget, VotersVoted, BallotsCast, ClosedEmpty, CommitStep
<1> QED BY <1>1, <1>2

LEMMA SampleStep ==
  ASSUME IInv, NEW n \in Tab, NEW r \in Regime, Sample(n, r)
  PROVE  IInv' /\ CommitStep
<1>1. reading' \in [Tab -> Regime]
  BY DEF IInv, TypeOK, Sample
<1> QED BY <1>1 DEF IInv, TypeOK, Sample, VotersVoted, BallotsCast, ClosedEmpty, CommitStep

LEMMA DwellStep ==
  ASSUME IInv, NEW n \in Tab, DwellOver(n)
  PROVE  IInv' /\ CommitStep
<1>1. dwelling' \in [Tab -> BOOLEAN]
  BY DEF IInv, TypeOK, DwellOver
<1> QED BY <1>1 DEF IInv, TypeOK, DwellOver, VotersVoted, BallotsCast, ClosedEmpty, CommitStep

LEMMA ForceStep ==
  ASSUME IInv, NEW n \in Tab, NEW r \in Regime, ForceRegime(n, r)
  PROVE  IInv' /\ CommitStep
<1>1. regime' \in [Tab -> Regime]
  BY DEF IInv, TypeOK, ForceRegime
<1>2. forced' \in 0..MaxForced /\ forced' # forced
  BY QuorumAssumption DEF IInv, TypeOK, ForceRegime
<1> QED BY <1>1, <1>2
        DEF IInv, TypeOK, ForceRegime, VotersVoted, BallotsCast, ClosedEmpty, CommitStep

LEMMA CloseStep ==
  ASSUME IInv, NEW n \in Tab, Close(n)
  PROVE  IInv' /\ CommitStep
<1> USE DEF IInv
<1>1. 0 \in Regime
  BY QuorumAssumption DEF Regime
<1>2. /\ voters' \in [Tab -> [Vote -> SUBSET Tab]]
      /\ \A q \in Tab, w \in Vote :
           voters'[q][w] = IF q = n THEN {} ELSE voters[q][w]
  BY DEF TypeOK, Close
<1>3. /\ reading' \in [Tab -> Regime] /\ regime' \in [Tab -> Regime]
      /\ \A q \in Tab \ {n} : regime'[q] = regime[q]
  BY <1>1 DEF TypeOK, Close
<1>4. /\ dwelling' \in [Tab -> BOOLEAN]
      /\ remembered' \in [Tab -> SUBSET Vote]
      /\ peerIds' \in [Tab -> SUBSET (Link \X Tab)]
      /\ seen' \in [Tab -> SUBSET (Tab \X Vote)]
  BY DEF TypeOK, Close
<1>5. TypeOK'
  BY <1>2, <1>3, <1>4 DEF TypeOK, Close
<1>6. VotersVoted' /\ ClosedEmpty'
  BY <1>2 DEF Close, VotersVoted, ClosedEmpty
<1>7. BallotsCast' /\ CommitStep
  BY <1>3 DEF TypeOK, Close, BallotsCast, CommitStep
<1> QED BY <1>5, <1>6, <1>7

(* A commit in a step that counts cast voters is backed.                     *)
LEMMA CommitBacked ==
  ASSUME TypeOK, NEW n \in Tab, NEW v \in Vote, NEW counted \in SUBSET Tab,
         NEW about \in Regime, CheckRegimeQuorum(n, v, counted, about),
         v \notin remembered[n], topic'[v] = about,
         cast' \in [Vote -> SUBSET Tab], counted \subseteq cast'[v],
         alive' \subseteq Tab, peerIds' \in [Tab -> SUBSET (Link \X Tab)]
  PROVE  CommitStep
<1>1. CheckRegimeQuorum(n, v, counted, about)
  OBVIOUS
<1>2. \A p \in Tab : regime'[p] # regime[p] =>
        /\ p = n /\ regime'[p] = about /\ v \in remembered'[p]
        /\ 2 * Cardinality(counted) >= Cardinality(peerIds'[n]) + 1
  BY <1>1, CommitFits
<1>3. 2 * Cardinality(counted) >= Cardinality(peerIds'[n]) + 1
        => 2 * Cardinality(cast'[v]) >= Cardinality(KnownTo(n)')
  <2>1. cast'[v] \in SUBSET Tab
    OBVIOUS
  <2> QED BY <2>1, QuorumIsHalf
<1> SUFFICES ASSUME NEW q \in alive', regime'[q] # regime[q]
             PROVE  Backed(q)
  BY DEF CommitStep
<1>4. q \in Tab
  OBVIOUS
<1> QED BY <1>2, <1>3, <1>4 DEF Backed

LEMMA ProposeStep ==
  ASSUME IInv, NEW n \in Tab, NEW v \in Vote, Propose(n, v)
  PROVE  IInv' /\ CommitStep
<1> USE DEF IInv
<1> DEFINE about == reading[n]
<1>1. /\ n \in alive /\ about \in Regime /\ Unused(v)
      /\ topic' = [topic EXCEPT ![v] = about]
      /\ cast' = [cast EXCEPT ![v] = {n}]
      /\ seen' = [p \in Tab |-> {s \in seen[p] : s[2] # v}]
      /\ net' = net \cup Ballots(n, v)
      /\ peerIds' = peerIds
      /\ CheckRegimeQuorum(n, v, {n}, about)
      /\ UNCHANGED <<alive, reading, forced>>
  BY DEF Propose, TypeOK
<1> HIDE DEF about
<1>2. /\ voters' \in [Tab -> [Vote -> SUBSET Tab]]
      /\ \A p \in Tab, w \in Vote :
           voters'[p][w] \in IF p = n /\ w = v THEN {{}, {n}} ELSE {voters[p][w]}
      /\ regime' \in [Tab -> Regime]
      /\ dwelling' \in [Tab -> BOOLEAN]
      /\ remembered' \in [Tab -> SUBSET Vote]
  BY <1>1, CheckFits
<1>3. topic' \in [Vote -> Regime] /\ topic'[v] = about
  BY <1>1 DEF TypeOK
<1>4. /\ cast' \in [Vote -> SUBSET Tab] /\ cast'[v] = {n}
      /\ \A w \in Vote \ {v} : cast'[w] = cast[w]
  BY <1>1 DEF TypeOK
<1>5. seen' \in [Tab -> SUBSET (Tab \X Vote)]
  BY <1>1 DEF TypeOK
<1>6. net' \subseteq Message
  BY <1>1, BallotsType DEF TypeOK
<1>7. TypeOK'
  BY <1>1, <1>2, <1>3, <1>4, <1>5, <1>6 DEF TypeOK
<1>8. \A p \in Tab : voters[p][v] = {}
  BY <1>1 DEF Unused, ClosedEmpty
<1>9. VotersVoted' /\ ClosedEmpty'
  <2>1. \A p \in Tab, w \in Vote : ~(p = n /\ w = v) => voters'[p][w] = voters[p][w]
    BY <1>2
  <2>2. voters'[n][v] \subseteq {n}
    BY <1>2
  <2>3. VotersVoted'
    BY <1>4, <1>8, <2>1, <2>2 DEF VotersVoted
  <2>4. ClosedEmpty'
    BY <1>1, <2>1 DEF ClosedEmpty
  <2> QED BY <2>3, <2>4
<1>10. BallotsCast'
  <2> SUFFICES ASSUME NEW m \in net' PROVE m.voter \in cast'[m.vote] /\ m.to \in alive'
    BY DEF BallotsCast
  <2>1. CASE m \in net
    <3>1. m.vote \in Vote \ {v}
      BY <1>1, <2>1 DEF Unused, TypeOK, Message
    <3>2. cast'[m.vote] = cast[m.vote]
      BY <1>4, <3>1
    <3> QED BY <1>1, <2>1, <3>2 DEF BallotsCast
  <2>2. CASE m \in Ballots(n, v)
    <3>1. m.voter = n /\ m.vote = v /\ m.to \in alive
      BY <2>2, BallotsType
    <3>2. cast'[m.vote] = {n}
      BY <1>4, <3>1
    <3> QED BY <1>1, <3>1, <3>2
  <2> QED BY <1>1, <2>1, <2>2
<1>11. CommitStep
  BY <1>1, <1>3, <1>4, <1>7, CommitBacked DEF Unused, TypeOK
<1> QED BY <1>7, <1>9, <1>10, <1>11

(* Where a vote goes that is dropped or counted.                             *)
LEMMA HandleStep ==
  ASSUME IInv, NEW m \in net, HandleRegimeVote(m), UNCHANGED <<alive, reading, topic, forced>>,
         peerIds' \in [Tab -> SUBSET (Link \X Tab)],
         seen' \in [Tab -> SUBSET (Tab \X Vote)]
  PROVE  IInv' /\ CommitStep
<1> USE DEF IInv
<1> DEFINE n == m.to
           v == m.vote
           first == voters[n][v] = {}
           counted == voters[n][v] \cup {m.voter} \cup IF first THEN {n} ELSE {}
           about == topic[v]
<1>1. n \in Tab /\ v \in Vote /\ m.voter \in Tab /\ about \in Regime
  BY DEF TypeOK, Message
<1>2. CASE v \in remembered[n]
  <2>1. net' = net \ {m} /\ UNCHANGED <<cast, voters, regime, dwelling, remembered>>
    BY <1>2 DEF HandleRegimeVote
  <2> QED BY <2>1 DEF TypeOK, VotersVoted, BallotsCast, ClosedEmpty, CommitStep
<1>3. CASE v \notin remembered[n]
  <2>1. CheckRegimeQuorum(n, v, counted, about)
    BY <1>3 DEF HandleRegimeVote
  <2>2. first => net' = (net \ {m}) \cup Ballots(n, v) /\ CastVote(n, v)
    BY <1>3 DEF HandleRegimeVote
  <2>3. ~first => net' = net \ {m} /\ cast' = cast
    BY <1>3 DEF HandleRegimeVote
  <2>4. /\ counted \in SUBSET Tab
        /\ counted \subseteq voters[n][v] \cup {m.voter} \cup {n}
        /\ ~first => counted = voters[n][v] \cup {m.voter}
    BY <1>1 DEF TypeOK
  <2> HIDE DEF n, v, first, counted, about
  <2>5. /\ voters' \in [Tab -> [Vote -> SUBSET Tab]]
        /\ \A p \in Tab, w \in Vote :
             voters'[p][w] \in IF p = n /\ w = v THEN {{}, counted} ELSE {voters[p][w]}
        /\ regime' \in [Tab -> Regime]
        /\ dwelling' \in [Tab -> BOOLEAN]
        /\ remembered' \in [Tab -> SUBSET Vote]
    BY <1>1, <2>1, <2>4, CheckFits
  <2>6. net' \subseteq Message
    BY <2>2, <2>3, BallotsType DEF TypeOK
  <2>7. /\ cast' \in [Vote -> SUBSET Tab]
        /\ \A w \in Vote : cast[w] \subseteq cast'[w]
        /\ first => n \in cast'[v]
    <3>1. cast \in [Vote -> SUBSET Tab]
      BY DEF TypeOK
    <3>2. CASE first
      <4>1. cast' = [cast EXCEPT ![v] = @ \cup {n}]
        BY <2>2, <3>2 DEF CastVote
      <4>2. /\ cast'[v] = cast[v] \cup {n}
            /\ \A w \in Vote \ {v} : cast'[w] = cast[w]
        BY <1>1, <3>1, <4>1
      <4>3. cast' \in [Vote -> SUBSET Tab]
        BY <1>1, <3>1, <4>1
      <4> QED BY <1>1, <4>2, <4>3
    <3>3. CASE ~first
      BY <2>3, <3>1, <3>3
    <3> QED BY <3>2, <3>3
  <2>8. TypeOK'
    BY <2>5, <2>6, <2>7 DEF TypeOK
  <2>9. m.voter \in cast[v] /\ voters[n][v] \subseteq cast[v]
    BY <1>1 DEF BallotsCast, VotersVoted, v
  <2>10. counted \subseteq cast'[v]
    BY <1>1, <2>4, <2>7, <2>9
  <2>11. VotersVoted'
    BY <2>5, <2>7, <2>10 DEF VotersVoted
  <2>12. BallotsCast'
    <3> SUFFICES ASSUME NEW b \in net' PROVE b.voter \in cast'[b.vote] /\ b.to \in alive'
      BY DEF BallotsCast
    <3>1. CASE b \in net
      BY <2>7, <3>1 DEF BallotsCast, TypeOK, Message
    <3>2. CASE first /\ b \in Ballots(n, v)
      BY <2>7, <3>2, BallotsType
    <3> QED BY <2>2, <2>3, <3>1, <3>2
  <2>13. ClosedEmpty'
    <3>1. n \in alive
      BY DEF BallotsCast, n
    <3> QED BY <2>5, <3>1 DEF ClosedEmpty
  <2>14. CommitStep
    BY <1>1, <1>3, <2>1, <2>4, <2>7, <2>8, <2>10, CommitBacked DEF TypeOK, n, v, about
  <2> QED BY <2>8, <2>11, <2>12, <2>13, <2>14
<1> QED BY <1>2, <1>3

LEMMA DeliverStep ==
  ASSUME IInv, NEW m \in net, Deliver(m)
  PROVE  IInv' /\ CommitStep
<1>1. /\ peerIds' \in [Tab -> SUBSET (Link \X Tab)]
      /\ seen' \in [Tab -> SUBSET (Tab \X Vote)]
  <2>1. m \in Message
    BY DEF IInv, TypeOK
  <2>2. CASE m.link = "bc"
    <3>1. <<"bc", m.voter>> \in Link \X Tab /\ <<m.voter, m.vote>> \in Tab \X Vote
      BY <2>1 DEF Message, Link
    <3>2. peerIds' = [peerIds EXCEPT ![m.to] = @ \cup {<<"bc", m.voter>>}]
      BY <2>2 DEF Deliver
    <3>3. seen' = [seen EXCEPT ![m.to] = @ \cup {<<m.voter, m.vote>>}]
      BY <2>2 DEF Deliver
    <3> DEFINE Pairs == Link \X Tab
               Votes == Tab \X Vote
    <3>4. <<"bc", m.voter>> \in Pairs /\ <<m.voter, m.vote>> \in Votes
      BY <3>1
    <3>5. peerIds \in [Tab -> SUBSET Pairs] /\ seen \in [Tab -> SUBSET Votes]
      BY DEF IInv, TypeOK
    <3> HIDE DEF Pairs, Votes
    <3>6. peerIds' \in [Tab -> SUBSET Pairs]
      BY <3>2, <3>4, <3>5
    <3>7. seen' \in [Tab -> SUBSET Votes]
      BY <3>3, <3>4, <3>5
    <3> QED BY <3>6, <3>7 DEF Pairs, Votes
  <2>3. CASE m.link # "bc"
    BY <2>3 DEF Deliver, IInv, TypeOK
  <2> QED BY <2>2, <2>3
<1>2. UNCHANGED <<alive, reading, topic, forced>>
  BY DEF Deliver
<1>3. CASE HandleRegimeVote(m)
  BY <1>1, <1>2, <1>3, HandleStep
<1>4. CASE ~HandleRegimeVote(m)
  <2>1. net' = net \ {m} /\ UNCHANGED <<cast, voters, regime, dwelling, remembered>>
    BY <1>4 DEF Deliver
  <2> QED BY <1>1, <1>2, <2>1
          DEF IInv, TypeOK, VotersVoted, BallotsCast, ClosedEmpty, CommitStep
<1> QED BY <1>3, <1>4

-----------------------------------------------------------------------------
(* The theorems.                                                            *)

LEMMA StepHolds == IInv /\ [Next]_vars => IInv' /\ CommitStep
<1> SUFFICES ASSUME IInv, [Next]_vars PROVE IInv' /\ CommitStep
  OBVIOUS
<1>1. ASSUME NEW l \in Link, NEW n \in Tab, NEW p \in Tab, Join(l, n, p) \/ Leave(l, n, p)
      PROVE  IInv' /\ CommitStep
  <2>1. CASE Join(l, n, p)
    BY <2>1, JoinLeaveStep
  <2>2. CASE Leave(l, n, p)
    BY <2>2, JoinLeaveStep
  <2> QED BY <1>1, <2>1, <2>2
<1>2. ASSUME NEW n \in Tab, Close(n) \/ DwellOver(n)
      PROVE  IInv' /\ CommitStep
  BY <1>2, CloseStep, DwellStep
<1>3. ASSUME NEW n \in Tab, NEW v \in Vote, Propose(n, v) \/ Expire(n, v) \/ Forget(n, v)
      PROVE  IInv' /\ CommitStep
  BY <1>3, ProposeStep, TimeoutStep
<1>4. ASSUME NEW n \in Tab, NEW r \in Regime, Sample(n, r) \/ ForceRegime(n, r)
      PROVE  IInv' /\ CommitStep
  BY <1>4, SampleStep, ForceStep
<1>5. ASSUME NEW m \in net, Deliver(m) \/ Lose(m)
      PROVE  IInv' /\ CommitStep
  <2>1. CASE Lose(m)
    BY <2>1 DEF Lose, IInv, TypeOK, VotersVoted, BallotsCast, ClosedEmpty, CommitStep
  <2> QED BY <1>5, <2>1, DeliverStep
<1>6. CASE UNCHANGED vars
  BY <1>6 DEF vars, IInv, TypeOK, VotersVoted, BallotsCast, ClosedEmpty, CommitStep
<1> QED BY <1>1, <1>2, <1>3, <1>4, <1>5, <1>6 DEF Next

(* Every variable of the room keeps its type.                                *)
THEOREM TypeCorrect == Spec => []TypeOK
<1>1. Init => IInv
  BY InitHolds
<1>2. IInv /\ [Next]_vars => IInv'
  BY StepHolds
<1>3. IInv => TypeOK
  BY DEF IInv
<1> QED BY <1>1, <1>2, <1>3, PTL DEF Spec

(* A regime is changed by hand, or by a proposal not committed before that at *)
(* least half of the nodes the tab knows of have voted for.                   *)
THEOREM CommitsCorrect == Spec => CommitsBacked
<1>1. Init => IInv
  BY InitHolds
<1>2. IInv /\ [Next]_vars => IInv'
  BY StepHolds
<1>3. IInv /\ [Next]_vars =>
        [\A n \in alive' :
           regime'[n] # regime[n] =>
             \/ forced' # forced
             \/ \E v \in Vote :
                  /\ topic'[v] = regime'[n]
                  /\ v \in remembered'[n] \ remembered[n]
                  /\ 2 * Cardinality(cast'[v]) >= Cardinality(KnownTo(n)')]_vars
  BY StepHolds DEF CommitStep, Backed
<1> QED BY <1>1, <1>2, <1>3, PTL DEF Spec, CommitsBacked
=============================================================================
