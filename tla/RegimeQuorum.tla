---------------------------- MODULE RegimeQuorum ----------------------------
(***************************************************************************)
(* How the tabs of a room agree on the market regime (browser/mesh.js, the *)
(* regime quorum and the presence of peers; browser/index.html, the regime *)
(* detector).                                                              *)
(*                                                                         *)
(* A tab whose detector has seen another regime often enough proposes it.  *)
(* Whoever hears of a proposal votes for it, and every tab commits it on   *)
(* its own as soon as half of the nodes it knows of have voted.            *)
(*                                                                         *)
(* Votes travel over a BroadcastChannel among the tabs of one browser,     *)
(* which drops repeated messages, and over WebRTC, which does not.  A peer *)
(* reached both ways counts as two: _peerIds holds its node_id and its     *)
(* Trystero identifier.                                                    *)
(*                                                                         *)
(* A regime is its severity.  A vote_id is used again once no trace of it  *)
(* is left.  Of the clocks only the dwell time is kept, as whether it is over; *)
(* the pace of the detector is left open.                                  *)
(***************************************************************************)
EXTENDS Naturals, FiniteSets, FiniteSetsExt

CONSTANTS
  Tab,          \* node_ids of the tabs
  SameBrowser,  \* tabs that share a BroadcastChannel
  Connected,    \* tabs in which Trystero could be loaded
  Vote,         \* vote_ids
  MaxSeverity,  \* severity of the worst regime
  MaxForced,    \* bound: regimes forced by hand
  MaxClosed     \* bound: tabs closed

ASSUME QuorumAssumption ==
  /\ IsFiniteSet(Tab)
  /\ SameBrowser \subseteq Tab
  /\ Connected \subseteq Tab
  /\ MaxSeverity \in Nat
  /\ MaxForced \in Nat
  /\ MaxClosed \in Nat

Regime == 0..MaxSeverity
Link == {"bc", "rtc"}

VARIABLES
  alive,       \* tabs that are open
  reading,     \* the candidate of each detector
  regime,      \* _currentRegime of the mesh and of _regimeDet
  dwelling,    \* less than REGIME_DWELL_MS since _lastRegimeCommitAt
  peerIds,     \* _peerIds: pairs of link and peer
  topic,       \* the regime each vote_id is about
  voters,      \* _regimeVotes: the voters counted, {} without an entry
  remembered,  \* _committedVoteIds
  seen,        \* votes in _dedup
  net,         \* votes under way
  cast,        \* observer: who has voted
  forced       \* regimes forced so far

vars == <<alive, reading, regime, dwelling, peerIds, topic, voters,
          remembered, seen, net, cast, forced>>

Message == [link : Link, voter : Tab, to : Tab, vote : Vote]

TypeOK ==
  /\ alive \subseteq Tab
  /\ reading \in [Tab -> Regime]
  /\ regime \in [Tab -> Regime]
  /\ dwelling \in [Tab -> BOOLEAN]
  /\ peerIds \in [Tab -> SUBSET (Link \X Tab)]
  /\ topic \in [Vote -> Regime]
  /\ voters \in [Tab -> [Vote -> SUBSET Tab]]
  /\ remembered \in [Tab -> SUBSET Vote]
  /\ seen \in [Tab -> SUBSET (Tab \X Vote)]
  /\ net \subseteq Message
  /\ cast \in [Vote -> SUBSET Tab]
  /\ forced \in 0..MaxForced

Init ==
  /\ alive = Tab
  /\ reading = [n \in Tab |-> 0]
  /\ regime = [n \in Tab |-> 0]
  /\ dwelling = [n \in Tab |-> FALSE]
  /\ peerIds = [n \in Tab |-> {}]
  /\ topic = [v \in Vote |-> 0]
  /\ voters = [n \in Tab |-> [v \in Vote |-> {}]]
  /\ remembered = [n \in Tab |-> {}]
  /\ seen = [n \in Tab |-> {}]
  /\ net = {}
  /\ cast = [v \in Vote |-> {}]
  /\ forced = 0

-----------------------------------------------------------------------------
(* Presence                                                                *)

Linked(l, n, p) ==
  /\ n # p
  /\ {n, p} \subseteq IF l = "bc" THEN SameBrowser ELSE Connected

\* A message of p on the channel, or onPeerJoin.
Join(l, n, p) ==
  /\ n \in alive /\ p \in alive
  /\ Linked(l, n, p)
  /\ <<l, p>> \notin peerIds[n]
  /\ peerIds' = [peerIds EXCEPT ![n] = @ \cup {<<l, p>>}]
  /\ UNCHANGED <<alive, reading, regime, dwelling, topic, voters,
                 remembered, seen, net, cast, forced>>

\* BC_TTL_MS without a message of p, or onPeerLeave: p is closed, or it is open
\* and its timers are throttled or its connection has broken.
Leave(l, n, p) ==
  /\ n \in alive
  /\ <<l, p>> \in peerIds[n]
  /\ peerIds' = [peerIds EXCEPT ![n] = @ \ {<<l, p>>}]
  /\ UNCHANGED <<alive, reading, regime, dwelling, topic, voters,
                 remembered, seen, net, cast, forced>>

\* A tab is closed: what it knew, and what was under way to it, is gone.
Close(n) ==
  /\ n \in alive
  /\ Cardinality(Tab \ alive) < MaxClosed
  /\ alive' = alive \ {n}
  /\ net' = {m \in net : m.to # n}
  /\ reading' = [reading EXCEPT ![n] = 0]
  /\ regime' = [regime EXCEPT ![n] = 0]
  /\ dwelling' = [dwelling EXCEPT ![n] = FALSE]
  /\ peerIds' = [peerIds EXCEPT ![n] = {}]
  /\ voters' = [voters EXCEPT ![n] = [v \in Vote |-> {}]]
  /\ remembered' = [remembered EXCEPT ![n] = {}]
  /\ seen' = [seen EXCEPT ![n] = {}]
  /\ UNCHANGED <<topic, cast, forced>>

-----------------------------------------------------------------------------
(* Votes                                                                   *)

\* What _sendVote sends.
Ballots(n, v) ==
  {m \in Message : /\ m.voter = n /\ m.vote = v
                   /\ m.to \in alive
                   /\ Linked(m.link, n, m.to)}

\* _startRegimeVote and _handleRegimeVote vote and tell everybody.
CastVote(n, v) ==
  cast' = [cast EXCEPT ![v] = @ \cup {n}]

\* Mutant of HasQuorum: the voters are compared with the peers only.
HasQuorumOfPeers(n, counted) == 2 * Cardinality(counted) >= Cardinality(peerIds'[n]) - 1

\* totalNodes / 2, rounded up; a message has refreshed _peerIds before.
HasQuorum(n, counted) == 2 * Cardinality(counted) >= Cardinality(peerIds'[n]) + 1

\* _checkRegimeQuorum, with the voters counted by now; the page applies a
\* commit at once (_applyRegimeCommit).
CheckRegimeQuorum(n, v, counted, about) ==
  LET quorum  == HasQuorum(n, counted)
      commits == quorum /\ about # regime[n] /\ ~dwelling[n]
  IN  /\ voters' = [voters EXCEPT ![n][v] = IF quorum THEN {} ELSE counted]
      /\ IF commits
         THEN /\ regime' = [regime EXCEPT ![n] = about]
              /\ dwelling' = [dwelling EXCEPT ![n] = TRUE]
              /\ remembered' = [remembered EXCEPT ![n] = @ \cup {v}]
         ELSE UNCHANGED <<regime, dwelling, remembered>>

\* A vote_id no tab and no message knows of.
Unused(v) ==
  /\ \A n \in alive : voters[n][v] = {} /\ v \notin remembered[n]
  /\ \A m \in net : m.vote # v

\* _detectRegime has seen reading[n] often enough, and long enough after the
\* last proposal or change: _startRegimeVote.
Propose(n, v) ==
  /\ n \in alive
  /\ reading[n] # regime[n]
  /\ Unused(v)
  /\ topic' = [topic EXCEPT ![v] = reading[n]]
  /\ cast' = [cast EXCEPT ![v] = {n}]
  /\ seen' = [p \in Tab |-> {s \in seen[p] : s[2] # v}]
  /\ net' = net \cup Ballots(n, v)
  /\ peerIds' = peerIds
  /\ CheckRegimeQuorum(n, v, {n}, reading[n])
  /\ UNCHANGED <<alive, reading, forced>>

\* _handleRegimeVote.
HandleRegimeVote(m) ==
  LET n     == m.to
      v     == m.vote
      first == voters[n][v] = {}
  IN  IF v \in remembered[n]
      THEN /\ net' = net \ {m}
           /\ UNCHANGED <<cast, voters, regime, dwelling, remembered>>
      ELSE /\ IF first
              THEN /\ net' = (net \ {m}) \cup Ballots(n, v)
                   /\ CastVote(n, v)
              ELSE net' = net \ {m} /\ UNCHANGED cast
           /\ CheckRegimeQuorum(n, v, voters[n][v] \cup {m.voter} \cup IF first THEN {n} ELSE {},
                                topic[v])

\* Mutant of Deliver: repeated messages are not dropped.
DeliverAgain(m) ==
  /\ IF m.link = "bc"
     THEN /\ peerIds' = [peerIds EXCEPT ![m.to] = @ \cup {<<"bc", m.voter>>}]
          /\ seen' = [seen EXCEPT ![m.to] = @ \cup {<<m.voter, m.vote>>}]
     ELSE UNCHANGED <<peerIds, seen>>
  /\ HandleRegimeVote(m)
  /\ UNCHANGED <<alive, reading, topic, forced>>

\* ch.onmessage and _onData, where _dedup knows the vote or not; or onVote.
Deliver(m) ==
  /\ IF m.link = "bc"
     THEN /\ peerIds' = [peerIds EXCEPT ![m.to] = @ \cup {<<"bc", m.voter>>}]
          /\ seen' = [seen EXCEPT ![m.to] = @ \cup {<<m.voter, m.vote>>}]
     ELSE UNCHANGED <<peerIds, seen>>
  /\ IF m.link = "bc" /\ <<m.voter, m.vote>> \in seen[m.to]
     THEN /\ net' = net \ {m}
          /\ UNCHANGED <<cast, voters, regime, dwelling, remembered>>
     ELSE HandleRegimeVote(m)
  /\ UNCHANGED <<alive, reading, topic, forced>>

\* A WebRTC connection breaks with a vote under way.
Lose(m) ==
  /\ m.link = "rtc"
  /\ net' = net \ {m}
  /\ UNCHANGED <<alive, reading, regime, dwelling, peerIds, topic, voters,
                 remembered, seen, cast, forced>>

\* The timeouts of an entry (QUORUM_TIMEOUT_MS) and of a committed vote_id; the
\* latter (30 s) is long after the votes cast in time have arrived.
Expire(n, v) ==
  /\ n \in alive
  /\ voters[n][v] # {}
  /\ voters' = [voters EXCEPT ![n][v] = {}]
  /\ UNCHANGED <<alive, reading, regime, dwelling, peerIds, topic,
                 remembered, seen, net, cast, forced>>

Forget(n, v) ==
  /\ n \in alive
  /\ v \in remembered[n]
  /\ \A m \in net : m.vote # v
  /\ remembered' = [remembered EXCEPT ![n] = @ \ {v}]
  /\ UNCHANGED <<alive, reading, regime, dwelling, peerIds, topic, voters,
                 seen, net, cast, forced>>

-----------------------------------------------------------------------------
(* The detector and its clocks                                             *)

Sample(n, r) ==
  /\ n \in alive
  /\ r # reading[n]
  /\ reading' = [reading EXCEPT ![n] = r]
  /\ UNCHANGED <<alive, regime, dwelling, peerIds, topic,
                 voters, remembered, seen, net, cast, forced>>

\* _forceRegime: the page applies the regime and tells the mesh.
ForceRegime(n, r) ==
  /\ n \in alive
  /\ forced < MaxForced
  /\ forced' = forced + 1
  /\ regime' = [regime EXCEPT ![n] = r]
  /\ UNCHANGED <<alive, reading, dwelling, peerIds, topic, voters, remembered,
                 seen, net, cast>>

DwellOver(n) ==
  /\ dwelling[n]
  /\ dwelling' = [dwelling EXCEPT ![n] = FALSE]
  /\ UNCHANGED <<alive, reading, regime, peerIds, topic, voters,
                 remembered, seen, net, cast, forced>>

Next ==
  \/ \E l \in Link, n, p \in Tab : Join(l, n, p) \/ Leave(l, n, p)
  \/ \E n \in Tab : Close(n) \/ DwellOver(n)
  \/ \E n \in Tab, v \in Vote : Propose(n, v) \/ Expire(n, v) \/ Forget(n, v)
  \/ \E n \in Tab, r \in Regime : Sample(n, r) \/ ForceRegime(n, r)
  \/ \E m \in net : Deliver(m) \/ Lose(m)

Spec == Init /\ [][Next]_vars

\* Messages arrive.  Nothing else has to happen: tabs may go on proposing,
\* timing out and losing sight of each other.
Fairness == \A m \in Message : WF_vars(m \in net /\ Deliver(m))

FairSpec == Spec /\ Fairness

-----------------------------------------------------------------------------
(* Properties                                                              *)

\* The distinct nodes a tab knows of, itself included.
KnownTo(n) == {n} \cup {p \in Tab : \E l \in Link : <<l, p>> \in peerIds[n]}

\* A tab changes its regime only by hand or for a proposal of that regime which
\* it has not committed before, and for which at least half of the nodes it
\* knows of have really voted: not more tabs than there are, however many ways
\* a peer is reached (mesh.js 637-672).
CommitsBacked ==
  [][\A n \in alive' :
       regime'[n] # regime[n] =>
         \/ forced' # forced
         \/ \E v \in Vote :
              /\ topic'[v] = regime'[n]
              /\ v \in remembered'[n] \ remembered[n]
              /\ 2 * Cardinality(cast'[v]) >= Cardinality(KnownTo(n)')]_vars

\* The votes about a proposal come to rest again and again.
VotesCease == \A v \in Vote : []<>(\A m \in net : m.vote # v)
=============================================================================
