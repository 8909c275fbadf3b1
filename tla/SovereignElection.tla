------------------------- MODULE SovereignElection -------------------------
(***************************************************************************)
(* Which node of a room executes an intent (browser/mesh.js, with the      *)
(* dispatch of approved intents in browser/index.html, the routing in      *)
(* execution_worker.js and the daemon's /api/v1/intent).                   *)
(*                                                                         *)
(* A tab elects a sovereign from the scores its peers gossip, unless a     *)
(* daemon answers its health probe: then the daemon is the sovereign.  An  *)
(* intent is executed by the tab, posted to the daemon or forwarded to the *)
(* sovereign peer.                                                         *)
(*                                                                         *)
(* A tab knows its peers by their gossip only, so peers that are not under *)
(* study (Peer) are just sources of scores.  S(Ex) scores are small        *)
(* numbers, a node_id is a number because ties are broken by node_id, and  *)
(* the clock is reduced to what the code asks of it: whether a peer was    *)
(* silent for SOVEREIGN_STALE_MS, whether ELECTION_COOLDOWN_MS is over.    *)
(***************************************************************************)
EXTENDS Naturals

CONSTANTS
  Tab,        \* node_ids of the tabs under study
  Peer,       \* node_ids of the other nodes of the room
  Intent,     \* intents the guardian may approve
  Daemon,     \* "daemon" as a sovereign_node_id
  Nobody,     \* the sovereign_node_id before the first election
  MaxScore,   \* the best S(Ex)
  Margin      \* HYSTERESIS_MARGIN

Node == Tab \cup Peer
Score == 0..MaxScore

ASSUME NodesAssumption ==
  /\ Tab \subseteq Nat
  /\ Peer \subseteq Nat
  /\ Tab \cap Peer = {}
  /\ Daemon \notin Node
  /\ Nobody \notin Node \cup {Daemon}
  /\ MaxScore \in Nat
  /\ Margin \in Nat

VARIABLES
  \* The mesh of each tab
  own,          \* _ownScoreSmoothed
  known,        \* the keys of _peerScores
  score,        \* s_ex_smoothed of the peers in _peerScores
  stale,        \* peers not heard of for SOVEREIGN_STALE_MS
  following,    \* _sovereignId, the tab itself when it is null
  held,         \* _electionHeld
  cooling,      \* less than ELECTION_COOLDOWN_MS since _lastElectionAt
  daemonAlive,  \* _daemonAlive
  sendIntent,   \* _sendIntent is set: Trystero could be loaded
  told,         \* sovereign_node_id of the tab's last sovereign_update
  \* The page of each tab
  running,      \* between START and STOP: _workers.mesh is set
  staffed,      \* _workers.execution is set
  claims,       \* _isSovereign of the execution worker; FALSE when there is none
  \* The daemon
  daemonUp,     \* it can be reached
  enabled,      \* ~_phic.execution_disabled
  \* The intents
  stage,        \* how far the intent has come
  origin,       \* the tab whose guardian approved it
  stray,        \* a POST of it that nobody awaits is under way
  runs,         \* times an execution worker was handed it
  lost,         \* POSTs of it whose reply never came
  interrupted   \* its tab was stopped, or its execution worker replaced,
                \* while the intent was on its way (read by the properties only)

electionVars == <<own, known, score, stale, following, held, cooling>>
toldVars     == <<told, claims>>
pageVars     == <<running, staffed, sendIntent>>
daemonVars   == <<daemonUp, enabled>>
intentVars   == <<stage, origin, stray, runs, lost, interrupted>>
vars == <<electionVars, daemonAlive, toldVars, pageVars, daemonVars, intentVars>>

Stage == {"new", "asked", "posted", "answered", "declined", "done",
          "refused", "lost", "dropped"}

TypeOK ==
  /\ own \in [Tab -> Score]
  /\ known \in [Tab -> SUBSET Node]
  /\ score \in [Tab -> [Node -> Score]]
  /\ stale \in [Tab -> SUBSET Node]
  /\ following \in [Tab -> Node]
  /\ held \in [Tab -> BOOLEAN]
  /\ cooling \in [Tab -> BOOLEAN]
  /\ daemonAlive \in [Tab -> BOOLEAN]
  /\ told \in [Tab -> Node \cup {Daemon, Nobody}]
  /\ running \in [Tab -> BOOLEAN]
  /\ staffed \in [Tab -> BOOLEAN]
  /\ sendIntent \in [Tab -> BOOLEAN]
  /\ claims \in [Tab -> BOOLEAN]
  /\ daemonUp \in BOOLEAN
  /\ enabled \in BOOLEAN
  /\ stage \in [Intent -> Stage]
  /\ origin \in [Intent -> Tab \cup {Nobody}]
  /\ stray \in [Intent -> BOOLEAN]
  /\ runs \in [Intent -> Nat]
  /\ lost \in [Intent -> Nat]
  /\ interrupted \in [Intent -> BOOLEAN]

\* A room just after every tab's START.
Init ==
  /\ own = [n \in Tab |-> MaxScore]
  /\ known = [n \in Tab |-> {}]
  /\ score = [n \in Tab |-> [p \in Node |-> 0]]
  /\ stale = [n \in Tab |-> {}]
  /\ following = [n \in Tab |-> n]
  /\ held = [n \in Tab |-> FALSE]
  /\ cooling = [n \in Tab |-> FALSE]
  /\ daemonAlive = [n \in Tab |-> FALSE]
  /\ told = [n \in Tab |-> Nobody]
  /\ running = [n \in Tab |-> TRUE]
  /\ staffed = [n \in Tab |-> TRUE]
  /\ sendIntent \in [Tab -> BOOLEAN]
  /\ claims = [n \in Tab |-> FALSE]
  /\ daemonUp = FALSE
  /\ enabled = FALSE
  /\ stage = [i \in Intent |-> "new"]
  /\ origin = [i \in Intent |-> Nobody]
  /\ stray = [i \in Intent |-> FALSE]
  /\ runs = [i \in Intent |-> 0]
  /\ lost = [i \in Intent |-> 0]
  /\ interrupted = [i \in Intent |-> FALSE]

-----------------------------------------------------------------------------
(* Scores                                                                  *)

\* Where an exponentially weighted average can move.
Between(a, b) == {s \in Score : (a <= s /\ s <= b) \/ (b <= s /\ s <= a)}

\* "own_score": the smoothed score moves towards the new measurement.
OwnScore(n, raw) ==
  /\ running[n]
  /\ \E s \in Between(own[n], raw) : own' = [own EXCEPT ![n] = s]
  /\ UNCHANGED <<known, score, stale, following, held, cooling, daemonAlive,
                 toldVars, pageVars, daemonVars, intentVars>>

\* An echo of p arrives with the measurement raw of p's exchange connection.
HandleEcho(n, p, raw) ==
  /\ p # n
  /\ known' = [known EXCEPT ![n] = @ \cup {p}]
  /\ stale' = [stale EXCEPT ![n] = @ \ {p}]
  /\ \E s \in IF p \in known[n] THEN Between(score[n][p], raw) ELSE {raw} :
       score' = [score EXCEPT ![n][p] = s]
  /\ UNCHANGED <<own, following, held, cooling, daemonAlive, toldVars, pageVars,
                 daemonVars, intentVars>>

\* Fifteen seconds without an echo of p.
FallSilent(n, p) ==
  /\ p \in known[n] \ stale[n]
  /\ stale' = [stale EXCEPT ![n] = @ \cup {p}]
  /\ UNCHANGED <<own, known, score, following, held, cooling, daemonAlive,
                 toldVars, pageVars, daemonVars, intentVars>>

CooldownOver(n) ==
  /\ cooling[n]
  /\ cooling' = [cooling EXCEPT ![n] = FALSE]
  /\ UNCHANGED <<own, known, score, stale, following, held, daemonAlive, toldVars,
                 pageVars, daemonVars, intentVars>>

-----------------------------------------------------------------------------
(* Elections                                                               *)

Worth(n, c) == IF c = n THEN own[n] ELSE score[n][c]

Beats(n, c, d) ==
  Worth(n, c) > Worth(n, d) \/ (Worth(n, c) = Worth(n, d) /\ c > d)

\* c is the best of a tab and the peers in K: by score, ties by node_id.
IsBest(n, K, c) ==
  /\ c \in K \cup {n}
  /\ \A d \in (K \cup {n}) \ {c} : Beats(n, c, d)

ApplyElection(n, c) ==
  /\ held' = [held EXCEPT ![n] = TRUE]
  /\ following' = [following EXCEPT ![n] = c]
  /\ cooling' = [cooling EXCEPT ![n] = TRUE]
  /\ told' = [told EXCEPT ![n] = c]
  /\ claims' = [claims EXCEPT ![n] = c = n /\ staffed[n]]

ForceReelect(n, K) ==
  \E c \in Node : IsBest(n, K, c) /\ ApplyElection(n, c)

\* _peerScores.delete for the peers in D.
Delete(n, D) ==
  /\ known' = [known EXCEPT ![n] = @ \ D]
  /\ stale' = [stale EXCEPT ![n] = @ \ D]
  /\ score' = [score EXCEPT ![n] = [p \in Node |-> IF p \in D THEN 0 ELSE @[p]]]

\* Mutant of PruneIncumbent: the sovereign is deleted without a new election.
PruneSilently(n) ==
  \E D \in SUBSET stale[n] :
    /\ following[n] \in D
    /\ Delete(n, D)
    /\ UNCHANGED <<held, following, cooling, toldVars>>

\* Mutant of PruneIncumbent: the sovereign is never pruned.
PruneAround(n) ==
  /\ following[n] \in stale[n]
  /\ Delete(n, stale[n] \ {following[n]})
  /\ UNCHANGED <<held, following, cooling, toldVars>>

\* The loop that deletes stale peers meets the sovereign: it stops there and
\* re-elects among what is left, other stale peers included.
PruneIncumbent(n) ==
  \E D \in SUBSET stale[n] :
    /\ following[n] \in D
    /\ Delete(n, D)
    /\ ForceReelect(n, known[n] \ D)

\* The challenger c does not replace the incumbent yet.
Blocked(n, c) ==
  \/ cooling[n]
  \/ held[n] /\ Worth(n, c) < Worth(n, following[n]) + Margin

\* Mutant of Reconfirms: the first election is not held.
ReconfirmsPeer(n) == following[n] # n

\* The incumbent is the best candidate, and an election is held all the same:
\* the first one, or, when it is a peer, one that the tab itself wins (the
\* code takes a _sovereignId that is not null for "peer left").
Reconfirms(n) == ~held[n] \/ following[n] # n

PruneAndElect(n) ==
  /\ following[n] \notin stale[n]
  /\ Delete(n, stale[n])
  /\ \E best \in Node :
       /\ IsBest(n, known[n] \ stale[n], best)
       /\ \/ /\ best = following[n]
             /\ Reconfirms(n)
             /\ ApplyElection(n, n)
          \/ /\ best # following[n]
             /\ ~Blocked(n, best)
             /\ ApplyElection(n, best)
          \/ /\ IF best = following[n] THEN ~Reconfirms(n) ELSE Blocked(n, best)
             /\ UNCHANGED <<held, following, cooling, toldVars>>

\* Mutant of ElectSovereign: the daemon is not asked for first.
ElectRegardless(n) ==
  /\ PruneIncumbent(n) \/ PruneAndElect(n)
  /\ UNCHANGED <<own, daemonAlive, pageVars, daemonVars, intentVars>>

ElectSovereign(n) ==
  /\ ~daemonAlive[n]
  /\ PruneIncumbent(n) \/ PruneAndElect(n)
  /\ UNCHANGED <<own, daemonAlive, pageVars, daemonVars, intentVars>>

\* Intents of n that have not come to their end.
UnderWay(n) ==
  {i \in Intent : origin[i] = n /\ stage[i] \in {"asked", "posted", "answered", "declined"}}

\* The execution worker of n goes, and with it the intents D of its inbox.
LoseWorker(n, D) ==
  /\ stage' = [i \in Intent |-> IF i \in D THEN "dropped" ELSE stage[i]]
  /\ interrupted' = [i \in Intent |-> interrupted[i] \/ i \in UnderWay(n)]
  /\ UNCHANGED <<origin, stray, runs, lost>>

Asked(n) == {i \in Intent : stage[i] = "asked" /\ origin[i] = n}

\* STOP terminates the workers and forgets them.  The mesh is not one of them:
\* its timers, its probes and a POST under way live on.
Stop(n) ==
  /\ running[n]
  /\ running' = [running EXCEPT ![n] = FALSE]
  /\ staffed' = [staffed EXCEPT ![n] = FALSE]
  /\ claims' = [claims EXCEPT ![n] = FALSE]
  /\ LoseWorker(n, Asked(n))
  /\ UNCHANGED <<electionVars, daemonAlive, sendIntent, told, daemonVars>>

\* START: new workers, and the init of the mesh.  What the tab knows of its
\* peers and the time of its last election survive; Trystero is joined again, or
\* not.
Start(n) ==
  /\ ~running[n]
  /\ running' = [running EXCEPT ![n] = TRUE]
  /\ staffed' = [staffed EXCEPT ![n] = TRUE]
  /\ \E joined \in BOOLEAN : sendIntent' = [sendIntent EXCEPT ![n] = joined]
  /\ held' = [held EXCEPT ![n] = FALSE]
  /\ following' = [following EXCEPT ![n] = n]
  /\ daemonAlive' = [daemonAlive EXCEPT ![n] = FALSE]
  /\ told' = [told EXCEPT ![n] = Nobody]
  /\ claims' = [claims EXCEPT ![n] = FALSE]
  /\ UNCHANGED <<own, known, score, stale, cooling, daemonVars, intentVars>>

\* The page's heartbeat replaces an execution worker that does not answer, and
\* since STOP does not clear the heartbeat, six seconds after STOP the worker
\* that is not there.  The new worker takes itself for sovereign until the next
\* sovereign_update; intents the old one still had in its inbox are gone.
Respawn(n) ==
  /\ staffed' = [staffed EXCEPT ![n] = TRUE]
  /\ claims' = [claims EXCEPT ![n] = TRUE]
  /\ \E D \in SUBSET Asked(n) : LoseWorker(n, D)
  /\ UNCHANGED <<electionVars, daemonAlive, sendIntent, told, running, daemonVars>>

-----------------------------------------------------------------------------
(* The daemon                                                              *)

\* _checkDaemon succeeds.  The tab tells a newly sovereign daemon to execute;
\* that request may be lost.
ProbeAnswered(n) ==
  /\ daemonUp
  /\ ~daemonAlive[n]
  /\ daemonAlive' = [daemonAlive EXCEPT ![n] = TRUE]
  /\ told' = [told EXCEPT ![n] = Daemon]
  /\ claims' = [claims EXCEPT ![n] = FALSE]
  /\ enabled' \in {enabled, TRUE}
  /\ UNCHANGED <<electionVars, pageVars, daemonUp, intentVars>>

\* _checkDaemon fails or times out, the daemon being up or not.
ProbeFailed(n) ==
  /\ daemonAlive[n]
  /\ daemonAlive' = [daemonAlive EXCEPT ![n] = FALSE]
  /\ ForceReelect(n, known[n])
  /\ UNCHANGED <<own, known, score, stale, pageVars, daemonVars, intentVars>>

\* A daemon boots with execution_disabled.
DaemonStarts ==
  /\ ~daemonUp
  /\ daemonUp' = TRUE
  /\ enabled' = FALSE
  /\ UNCHANGED <<electionVars, daemonAlive, toldVars, pageVars, intentVars>>

DaemonStops ==
  /\ daemonUp
  /\ daemonUp' = FALSE
  /\ UNCHANGED <<electionVars, daemonAlive, toldVars, pageVars, enabled, intentVars>>

-----------------------------------------------------------------------------
(* Intents                                                                 *)

\* The tab's execution worker is handed i, and i is settled as s.
Run(i, s) ==
  /\ runs' = [runs EXCEPT ![i] = @ + 1]
  /\ stage' = [stage EXCEPT ![i] = s]

Settle(i, s) ==
  /\ stage' = [stage EXCEPT ![i] = s]
  /\ UNCHANGED runs

\* Mutant of RouteIntent: an intent posted to the daemon is executed as well.
RouteToAll(n, i) ==
  \/ /\ daemonAlive[n]
     /\ Run(i, "posted")
     /\ UNCHANGED following
  \/ /\ ~daemonAlive[n]
     /\ Run(i, "done")
     /\ following' = [following EXCEPT ![n] = n]

\* Mutant of RouteIntent: a tab without Trystero does not fall back on itself.
RouteUnconnected(n, i) ==
  /\ UNCHANGED following
  /\ \/ daemonAlive[n] /\ Settle(i, "posted")
     \/ ~daemonAlive[n] /\ following[n] = n /\ Run(i, "done")
     \/ ~daemonAlive[n] /\ following[n] # n /\ Settle(i, IF sendIntent[n] THEN "lost" ELSE "dropped")

\* _routeIntent: to the daemon; to oneself; or to the sovereign peer.  A
\* forwarded intent is addressed by node_id, Trystero knows its peers by
\* identifiers of its own: it warns "no peer with id" and sends nothing.
RouteIntent(n, i) ==
  \/ /\ daemonAlive[n]
     /\ Settle(i, "posted")
     /\ UNCHANGED following
  \/ /\ ~daemonAlive[n]
     /\ following[n] = n
     /\ Run(i, "done")
     /\ UNCHANGED following
  \/ /\ ~daemonAlive[n]
     /\ following[n] # n
     /\ sendIntent[n]
     /\ Settle(i, "lost")
     /\ UNCHANGED following
  \/ /\ ~daemonAlive[n]
     /\ following[n] # n
     /\ ~sendIntent[n]
     /\ Run(i, "done")
     /\ following' = [following EXCEPT ![n] = n]

\* _dispatchApprovedIntent: past the execution worker when the daemon is
\* sovereign; otherwise the worker executes it, or hands it back to the mesh.
Approve(n, i) ==
  /\ running[n]
  /\ stage[i] = "new"
  /\ origin' = [origin EXCEPT ![i] = n]
  /\ \/ /\ told[n] = Daemon
        /\ RouteIntent(n, i)
     \/ /\ told[n] # Daemon
        /\ claims[n]
        /\ Run(i, "done")
        /\ UNCHANGED following
     \/ /\ told[n] # Daemon
        /\ ~claims[n]
        /\ Settle(i, "asked")
        /\ UNCHANGED following
  /\ UNCHANGED <<own, known, score, stale, held, cooling, daemonAlive, toldVars,
                 pageVars, daemonVars, stray, lost, interrupted>>

\* The "intent_route" of the execution worker reaches the mesh.
HandBack(n, i) ==
  /\ stage[i] = "asked"
  /\ origin[i] = n
  /\ RouteIntent(n, i)
  /\ UNCHANGED <<own, known, score, stale, held, cooling, daemonAlive, toldVars,
                 pageVars, daemonVars, origin, stray, lost, interrupted>>

\* POST /api/v1/intent.  A daemon that does not execute says so with a 200; a
\* daemon whose execution worker is being restarted says 202 all the same.
DaemonHandles(i) ==
  /\ daemonUp
  /\ stage[i] = "posted"
  /\ \/ enabled /\ Run(i, "answered")
     \/ Settle(i, "declined")
  /\ UNCHANGED <<electionVars, daemonAlive, toldVars, pageVars, daemonVars, origin,
                 stray, lost, interrupted>>

Reply(i) ==
  /\ \/ stage[i] = "answered" /\ Settle(i, "done")
     \/ stage[i] = "declined" /\ Settle(i, "refused")
  /\ UNCHANGED <<electionVars, daemonAlive, toldVars, pageVars, daemonVars, origin,
                 stray, lost, interrupted>>

\* Mutant of PostFails: the tab does not execute the intent itself.
PostFailsSilently(i) ==
  /\ stage[i] \in {"posted", "answered", "declined"}
  /\ Settle(i, "done")
  /\ lost' = [lost EXCEPT ![i] = @ + 1]
  /\ UNCHANGED <<electionVars, daemonAlive, toldVars, pageVars, daemonVars, origin,
                 stray, interrupted>>

\* The fetch of the POST rejects: the daemon was not reached, is still to be
\* reached, or its reply was lost.  The tab executes the intent itself, if it
\* has an execution worker: the page of a stopped tab hands it to nobody.
PostFails(i) ==
  /\ stage[i] \in {"posted", "answered", "declined"}
  /\ IF staffed[origin[i]] THEN Run(i, "done") ELSE Settle(i, "dropped")
  /\ lost' = [lost EXCEPT ![i] = @ + 1]
  /\ \/ UNCHANGED stray
     \/ stage[i] = "posted" /\ stray' = [stray EXCEPT ![i] = TRUE]
  /\ UNCHANGED <<electionVars, daemonAlive, toldVars, pageVars, daemonVars, origin,
                 interrupted>>

\* The POST nobody awaits reaches the daemon.
StrayArrives(i) ==
  /\ stray[i]
  /\ daemonUp
  /\ stray' = [stray EXCEPT ![i] = FALSE]
  /\ \/ enabled /\ runs' = [runs EXCEPT ![i] = @ + 1]
     \/ UNCHANGED runs
  /\ UNCHANGED <<electionVars, daemonAlive, toldVars, pageVars, daemonVars, stage,
                 origin, lost, interrupted>>

-----------------------------------------------------------------------------
Elections(n) ==
  \/ \E s \in Score : OwnScore(n, s)
  \/ \E p \in Node, s \in Score : HandleEcho(n, p, s)
  \/ \E p \in Node : FallSilent(n, p)
  \/ CooldownOver(n)
  \/ ElectSovereign(n)
  \/ Stop(n)
  \/ Start(n)
  \/ Respawn(n)
  \/ ProbeAnswered(n)
  \/ ProbeFailed(n)

Handling(i) ==
  \/ DaemonHandles(i)
  \/ Reply(i)
  \/ PostFails(i)
  \/ StrayArrives(i)

Next ==
  \/ \E n \in Tab : Elections(n)
  \/ \E n \in Tab, i \in Intent : Approve(n, i) \/ HandBack(n, i)
  \/ \E i \in Intent : Handling(i)
  \/ DaemonStarts
  \/ DaemonStops

Spec == Init /\ [][Next]_vars

\* The election timer fires every 5 s, time passes, messages between the
\* workers of a page arrive, and a fetch settles one way or the other.
Fairness ==
  /\ \A n \in Tab : WF_vars(ElectSovereign(n)) /\ WF_vars(CooldownOver(n))
  /\ \A n \in Tab, i \in Intent : WF_vars(HandBack(n, i))
  /\ \A i \in Intent : WF_vars(DaemonHandles(i) \/ Reply(i) \/ PostFails(i))

FairSpec == Spec /\ Fairness

-----------------------------------------------------------------------------
(* Properties                                                              *)

\* While a tab believes the daemon alive, what it last told its execution
\* worker and its page is that the daemon is sovereign: no election, timed
\* out cooldown or stale peer makes it claim an intent for itself.
DaemonSilencesTabs ==
  \A n \in Tab : daemonAlive[n] <=> told[n] = Daemon

\* A tab never follows a peer it has no score of: a sovereign that is pruned
\* as stale is replaced in the same step.
FollowsKnownPeer ==
  \A n \in Tab : following[n] # n => following[n] \in known[n]

\* An intent is executed more than once only if a reply of the daemon was
\* lost, whatever elections and probes happen while it is on its way.
RunsExplained ==
  \A i \in Intent : runs[i] <= 1 + lost[i]

\* A sovereign peer that has fallen silent does not stay sovereign.
SilentSovereignReplaced ==
  \A n \in Tab, p \in Peer :
    following[n] = p /\ p \in stale[n] ~>
      following[n] # p \/ p \notin stale[n] \/ daemonAlive[n]

\* After START, and after every restart, a tab learns who is sovereign.
SovereignDecided ==
  \A n \in Tab : told[n] = Nobody ~> told[n] # Nobody

\* No intent is settled as done that nobody was handed, and one that reaches no
\* worker was on its way when its tab was stopped or its worker replaced: in
\* every other case a POST that fails finds a worker to execute its intent.
IntentsKept ==
  \A i \in Intent :
    /\ stage[i] \in {"answered", "done"} => runs[i] > 0
    /\ stage[i] = "dropped" => interrupted[i]

\* An approved intent is executed unless a daemon refuses it, it is forwarded
\* over WebRTC, or its tab is stopped or its worker replaced while it is on its
\* way.
IntentsRun ==
  \A i \in Intent :
    stage[i] # "new" ~>
      runs[i] > 0 \/ stage[i] \in {"refused", "lost"} \/ interrupted[i]
=============================================================================
