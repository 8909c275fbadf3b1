--------------------------- MODULE ExecutionQueue ---------------------------
(***************************************************************************)
(* The life of an order in the execution worker                            *)
(* (browser/workers/execution_worker.js, run in every browser tab and, on  *)
(* a SQLite-backed indexedDB, in the daemon): submission over HTTP, the    *)
(* store-and-forward (SAF) queue that keeps an order whose submission      *)
(* failed, and the replay passes that submit the queued orders again.      *)
(*                                                                         *)
(* A worker is single-threaded, but every await of _submitOrder,           *)
(* _enqueueSAF and _replaySAF lets its other handlers run, so each handler *)
(* is split at its awaits.  Workers of one origin share one indexedDB.     *)
(* Quantities, prices, the freeze and the other guards that drop an intent *)
(* before it becomes an order are those of Portfolio; here an intent that  *)
(* is dropped is a step that is not taken.  A replay pass asks none of     *)
(* them.                                                                   *)
(***************************************************************************)
EXTENDS Naturals, FiniteSets

CONSTANTS
  Order,           \* orders the program may decide to submit
  Worker,          \* execution workers (tabs) that share the queue
  None,            \* no order, no worker
  MaxRetries,      \* SAF_MAX_RETRIES
  MaxFailures      \* bound: crashed or restarted workers and failed indexedDB requests

ASSUME ConstantsAssumption ==
  /\ None \notin Order
  /\ None \notin Worker
  /\ MaxRetries \in Nat
  /\ MaxFailures \in Nat

VARIABLES
  \* The store, shared by the workers of an origin
  status,      \* status[o] : the "status" field of o's entry
  retries,     \* retries[o] : its "retry_count" field
  expired,     \* entries whose expires_at has passed
  \* The memory of each worker
  dbOpen,      \* _db is set
  online,      \* _online
  phase,       \* where _replaySAF is; _replaying is phase # "off"
  late,        \* the entries past their TTL at the "now" of the pass
  todo,        \* entries of the pass still to be handled
  seen,        \* retry counts as read by the pass
  cur,         \* the entry the pass is handling
  verdict,     \* what the pass is writing to it
  \* Coroutines of _handleIntent and of the defensive sells
  call,        \* call[o] : how far o's first submission is
  caller,      \* the worker that runs it
  \* Outside the worker
  wire,        \* wire[w][o] : the HTTP request w awaits for o
  stray,       \* requests under way that nobody awaits
  fills,       \* times the exchange has executed o
  \* History, read by the properties only
  attempts,    \* requests sent for o
  unrecorded,  \* requests of o that may fill or have filled, unseen by the queue
  crashes, storeFaults

storeVars == <<status, retries, expired>>
passVars  == <<phase, late, todo, seen, cur, verdict>>
callVars  == <<call, caller>>
netVars   == <<wire, stray, fills, attempts, unrecorded>>
faultVars == <<crashes, storeFaults>>
modeVars  == <<dbOpen, online>>
vars == <<storeVars, passVars, callVars, netVars, faultVars, modeVars>>

Status   == {"NONE", "PENDING", "SUBMITTED", "EXPIRED"}
Phase    == {"off", "load", "next", "submit", "mark", "stuck"}
Verdict  == {"SUBMITTED", "EXPIRED", "RETRY"}
CallAt   == {"idle", "submit", "enqueue", "limited", "filled", "failed"}
Running  == {"submit", "enqueue", "limited"}
Request  == {"none", "sent", "filled", "refused", "error"}

Replaying(w) == phase[w] # "off"

TypeOK ==
  /\ status \in [Order -> Status]
  /\ retries \in [Order -> Nat]
  /\ expired \in SUBSET Order
  /\ dbOpen \in [Worker -> BOOLEAN]
  /\ online \in [Worker -> BOOLEAN]
  /\ phase \in [Worker -> Phase]
  /\ late \in [Worker -> SUBSET Order]
  /\ todo \in [Worker -> SUBSET Order]
  /\ seen \in [Worker -> [Order -> Nat]]
  /\ cur \in [Worker -> Order \cup {None}]
  /\ verdict \in [Worker -> Verdict]
  /\ call \in [Order -> CallAt]
  /\ caller \in [Order -> Worker \cup {None}]
  /\ wire \in [Worker -> [Order -> Request]]
  /\ stray \in [Order -> Nat]
  /\ fills \in [Order -> Nat]
  /\ attempts \in [Order -> Nat]
  /\ unrecorded \in [Order -> Nat]
  /\ crashes \in Nat
  /\ storeFaults \in Nat

Init ==
  /\ status = [o \in Order |-> "NONE"]
  /\ retries = [o \in Order |-> 0]
  /\ expired = {}
  /\ dbOpen = [w \in Worker |-> FALSE]
  /\ online = [w \in Worker |-> TRUE]
  /\ phase = [w \in Worker |-> "off"]
  /\ late = [w \in Worker |-> {}]
  /\ todo = [w \in Worker |-> {}]
  /\ seen = [w \in Worker |-> [o \in Order |-> 0]]
  /\ cur = [w \in Worker |-> None]
  /\ verdict = [w \in Worker |-> "RETRY"]
  /\ call = [o \in Order |-> "idle"]
  /\ caller = [o \in Order |-> None]
  /\ wire = [w \in Worker |-> [o \in Order |-> "none"]]
  /\ stray = [o \in Order |-> 0]
  /\ fills = [o \in Order |-> 0]
  /\ attempts = [o \in Order |-> 0]
  /\ unrecorded = [o \in Order |-> 0]
  /\ crashes = 0
  /\ storeFaults = 0

-----------------------------------------------------------------------------
(* Submission                                                              *)

\* _submitOrder up to its fetch.
Send(w, o) ==
  /\ wire' = [wire EXCEPT ![w][o] = "sent"]
  /\ attempts' = [attempts EXCEPT ![o] = @ + 1]
  /\ UNCHANGED <<stray, fills, unrecorded>>

\* Where a call goes on when it hands its order to _enqueueSAF, which returns
\* at once when the store is not open or a replay pass is running.
AfterEnqueue(w) == IF dbOpen[w] /\ ~Replaying(w) THEN "enqueue" ELSE "failed"

\* An intent that passes its guards becomes an order; an offline worker queues
\* it without trying it.
HandleIntent(w, o) ==
  /\ call[o] = "idle"
  /\ caller' = [caller EXCEPT ![o] = w]
  /\ \/ /\ online[w]
        /\ call' = [call EXCEPT ![o] = "submit"]
        /\ Send(w, o)
     \/ /\ ~online[w]
        /\ call' = [call EXCEPT ![o] = AfterEnqueue(w)]
        /\ UNCHANGED netVars
  /\ UNCHANGED <<storeVars, passVars, faultVars, modeVars>>

\* Mutant of SubmitDefensively: the order is written to the queue before its
\* outcome is known.
SubmitWriteAhead(w, o) ==
  /\ call[o] = "idle"
  /\ caller' = [caller EXCEPT ![o] = w]
  /\ call' = [call EXCEPT ![o] = "submit"]
  /\ Send(w, o)
  /\ status' = [status EXCEPT ![o] = "PENDING"]
  /\ UNCHANGED <<retries, expired, passVars, faultVars, modeVars>>

\* Stop-loss, cash-out, trailing stop, vault sweep, veto, cap trim, bank
\* extract, floor breach: these call _submitOrder directly, whatever _online is.
SubmitDefensively(w, o) ==
  /\ call[o] = "idle"
  /\ caller' = [caller EXCEPT ![o] = w]
  /\ call' = [call EXCEPT ![o] = "submit"]
  /\ Send(w, o)
  /\ UNCHANGED <<storeVars, passVars, faultVars, modeVars>>

\* The awaited reply of a first submission: a fill, or else the order is
\* handed to _enqueueSAF, after a 429 from inside the try block ("limited"),
\* after any other HTTP error or a network error from its catch.
ReplyToCall(w, o) ==
  /\ call[o] = "submit"
  /\ caller[o] = w
  /\ \/ /\ wire[w][o] = "filled"
        /\ call' = [call EXCEPT ![o] = "filled"]
     \/ /\ wire[w][o] \in {"refused", "error"}
        /\ call' = [call EXCEPT ![o] = AfterEnqueue(w)]
     \/ /\ wire[w][o] = "refused"
        /\ AfterEnqueue(w) = "enqueue"
        /\ call' = [call EXCEPT ![o] = "limited"]
  /\ wire' = [wire EXCEPT ![w][o] = "none"]
  /\ UNCHANGED <<storeVars, passVars, caller, stray, fills, attempts,
                 unrecorded, faultVars, modeVars>>

\* The store.add of _enqueueSAF succeeds.
AddEntry(w, o) ==
  /\ call[o] \in {"enqueue", "limited"}
  /\ caller[o] = w
  /\ call' = [call EXCEPT ![o] = "failed"]
  /\ status' = [status EXCEPT ![o] = "PENDING"]
  /\ retries' = [retries EXCEPT ![o] = 0]
  /\ UNCHANGED <<expired, passVars, caller, netVars, faultVars, modeVars>>

-----------------------------------------------------------------------------
(* Replay                                                                  *)

\* _replaySAF up to its first await: "now" is read here, once for the pass.
StartPass(w) ==
  /\ phase' = [phase EXCEPT ![w] = "load"]
  /\ late' = [late EXCEPT ![w] = expired]
  /\ UNCHANGED <<todo, seen, cur, verdict>>

MayReplay(w) == dbOpen[w] /\ ~Replaying(w)

\* The 30 s timer, or a "saf_replay" message.
BeginReplay(w) ==
  /\ online[w]
  /\ MayReplay(w)
  /\ StartPass(w)
  /\ UNCHANGED <<storeVars, callVars, netVars, faultVars, modeVars>>

\* _getAllPending answers.
LoadPending(w) ==
  /\ phase[w] = "load"
  /\ todo' = [todo EXCEPT ![w] = {o \in Order : status[o] = "PENDING"}]
  /\ seen' = [seen EXCEPT ![w] = retries]
  /\ phase' = [phase EXCEPT ![w] = "next"]
  /\ UNCHANGED <<storeVars, late, cur, verdict, callVars, netVars, faultVars,
                 modeVars>>

\* Mutant of GivenUp: no limit on the retries.
GivenUpByTTL(w, o) == o \in late[w]

\* An entry is given up when it is past its TTL or out of retries.
GivenUp(w, o) == o \in late[w] \/ seen[w][o] >= MaxRetries

\* The next entry of the pass, in the order of its random entry_id.
TakeEntry(w, o) ==
  /\ phase[w] = "next"
  /\ o \in todo[w]
  /\ cur' = [cur EXCEPT ![w] = o]
  /\ todo' = [todo EXCEPT ![w] = @ \ {o}]
  /\ \/ /\ GivenUp(w, o)
        /\ phase' = [phase EXCEPT ![w] = "mark"]
        /\ verdict' = [verdict EXCEPT ![w] = "EXPIRED"]
        /\ UNCHANGED netVars
     \/ /\ ~GivenUp(w, o)
        /\ phase' = [phase EXCEPT ![w] = "submit"]
        /\ Send(w, o)
        /\ UNCHANGED verdict
  /\ UNCHANGED <<storeVars, late, seen, callVars, faultVars, modeVars>>

\* Mutant of ReplyToPass: any reply that is not a network error counts as ok.
ReplyUnchecked(w) ==
  /\ phase[w] = "submit"
  /\ wire[w][cur[w]] \in {"filled", "refused", "error"}
  /\ phase' = [phase EXCEPT ![w] = "mark"]
  /\ verdict' = [verdict EXCEPT ![w] =
                   IF wire[w][cur[w]] = "error" THEN "RETRY" ELSE "SUBMITTED"]
  /\ wire' = [wire EXCEPT ![w][cur[w]] = "none"]
  /\ UNCHANGED <<storeVars, late, todo, seen, cur, callVars, stray, fills,
                 attempts, unrecorded, faultVars, modeVars>>

\* The awaited reply of a resubmission.  A failure is not queued again:
\* _enqueueSAF does nothing while the worker is replaying.
ReplyToPass(w) ==
  /\ phase[w] = "submit"
  /\ wire[w][cur[w]] \in {"filled", "refused", "error"}
  /\ phase' = [phase EXCEPT ![w] = "mark"]
  /\ verdict' = [verdict EXCEPT ![w] =
                   IF wire[w][cur[w]] = "filled" THEN "SUBMITTED" ELSE "RETRY"]
  /\ wire' = [wire EXCEPT ![w][cur[w]] = "none"]
  /\ UNCHANGED <<storeVars, late, todo, seen, cur, callVars, stray, fills,
                 attempts, unrecorded, faultVars, modeVars>>

\* Mutant of MarkEntry: a filled entry is not taken off the queue.
MarkFailuresOnly(w) ==
  /\ phase[w] = "mark"
  /\ phase' = [phase EXCEPT ![w] = "next"]
  /\ cur' = [cur EXCEPT ![w] = None]
  /\ verdict' = [verdict EXCEPT ![w] = "RETRY"]
  /\ status' = IF verdict[w] = "EXPIRED"
                 THEN [status EXCEPT ![cur[w]] = "EXPIRED"] ELSE status
  /\ retries' = IF verdict[w] = "RETRY"
                  THEN [retries EXCEPT ![cur[w]] = seen[w][cur[w]] + 1] ELSE retries
  /\ UNCHANGED <<expired, late, todo, seen, callVars, netVars, faultVars,
                 modeVars>>

\* The read-modify-write transaction of _updateSAFEntry: the fields that are
\* not updated keep their stored values, retry_count is the value read by the
\* pass plus one.
MarkEntry(w) ==
  /\ phase[w] = "mark"
  /\ phase' = [phase EXCEPT ![w] = "next"]
  /\ cur' = [cur EXCEPT ![w] = None]
  /\ verdict' = [verdict EXCEPT ![w] = "RETRY"]
  /\ IF verdict[w] = "RETRY"
       THEN /\ retries' = [retries EXCEPT ![cur[w]] = seen[w][cur[w]] + 1]
            /\ UNCHANGED status
       ELSE /\ status' = [status EXCEPT ![cur[w]] = verdict[w]]
            /\ UNCHANGED retries
  /\ UNCHANGED <<expired, late, todo, seen, callVars, netVars, faultVars,
                 modeVars>>

\* The locals of _replaySAF go out of scope.
ForgetPass(w) ==
  /\ late' = [late EXCEPT ![w] = {}]
  /\ todo' = [todo EXCEPT ![w] = {}]
  /\ seen' = [seen EXCEPT ![w] = [o \in Order |-> 0]]
  /\ cur' = [cur EXCEPT ![w] = None]
  /\ verdict' = [verdict EXCEPT ![w] = "RETRY"]

\* Mutant of EndReplay: _replaying is not cleared.
EndReplayStillReplaying(w) ==
  /\ phase[w] = "next"
  /\ todo[w] = {}
  /\ phase' = [phase EXCEPT ![w] = "stuck"]
  /\ ForgetPass(w)
  /\ UNCHANGED <<storeVars, callVars, netVars, faultVars, modeVars>>

EndReplay(w) ==
  /\ phase[w] = "next"
  /\ todo[w] = {}
  /\ phase' = [phase EXCEPT ![w] = "off"]
  /\ ForgetPass(w)
  /\ UNCHANGED <<storeVars, callVars, netVars, faultVars, modeVars>>

-----------------------------------------------------------------------------
(* The exchange and the network                                            *)

Fill(w, o) ==
  /\ wire[w][o] = "sent"
  /\ wire' = [wire EXCEPT ![w][o] = "filled"]
  /\ fills' = [fills EXCEPT ![o] = @ + 1]
  /\ UNCHANGED <<storeVars, passVars, callVars, stray, attempts, unrecorded,
                 faultVars, modeVars>>

\* Rate limited (429) or rejected (any other status that is not ok).
Refuse(w, o) ==
  /\ wire[w][o] = "sent"
  /\ wire' = [wire EXCEPT ![w][o] = "refused"]
  /\ UNCHANGED <<storeVars, passVars, callVars, stray, fills, attempts,
                 unrecorded, faultVars, modeVars>>

\* fetch rejects: the request never left, is still under way, or was
\* executed and its reply is lost.
LoseReply(w, o) ==
  /\ wire' = [wire EXCEPT ![w][o] = "error"]
  /\ \/ /\ wire[w][o] = "sent"
        /\ UNCHANGED <<stray, unrecorded>>
     \/ /\ wire[w][o] = "sent"
        /\ stray' = [stray EXCEPT ![o] = @ + 1]
        /\ unrecorded' = [unrecorded EXCEPT ![o] = @ + 1]
     \/ /\ wire[w][o] = "filled"
        /\ unrecorded' = [unrecorded EXCEPT ![o] = @ + 1]
        /\ UNCHANGED stray
  /\ UNCHANGED <<storeVars, passVars, callVars, fills, attempts, faultVars,
                 modeVars>>

\* A request nobody awaits any more reaches the exchange.
StrayArrives(o) ==
  /\ stray[o] > 0
  /\ stray' = [stray EXCEPT ![o] = @ - 1]
  /\ \/ fills' = [fills EXCEPT ![o] = @ + 1]
     \/ UNCHANGED fills
  /\ UNCHANGED <<storeVars, passVars, callVars, wire, attempts, unrecorded,
                 faultVars, modeVars>>

-----------------------------------------------------------------------------
(* Modes, time, failures                                                   *)

\* _openSAF finishes.
OpenStore(w) ==
  /\ ~dbOpen[w]
  /\ dbOpen' = [dbOpen EXCEPT ![w] = TRUE]
  /\ UNCHANGED <<storeVars, passVars, callVars, netVars, faultVars, online>>

\* The "network_status" handler; a worker that comes back online replays.
GoOnline(w) ==
  /\ ~online[w]
  /\ online' = [online EXCEPT ![w] = TRUE]
  /\ \/ MayReplay(w) /\ StartPass(w)
     \/ ~MayReplay(w) /\ UNCHANGED passVars
  /\ UNCHANGED <<storeVars, callVars, netVars, faultVars, dbOpen>>

GoOffline(w) ==
  /\ online[w]
  /\ online' = [online EXCEPT ![w] = FALSE]
  /\ UNCHANGED <<storeVars, passVars, callVars, netVars, faultVars, dbOpen>>

\* Five minutes have passed since o was queued.
PassTTL(o) ==
  /\ status[o] = "PENDING"
  /\ o \notin expired
  /\ expired' = expired \cup {o}
  /\ UNCHANGED <<status, retries, passVars, callVars, netVars, faultVars,
                 modeVars>>

\* The pass of w has heard of a fill of o and not yet written it down.
FillUnwritten(w, o) == phase[w] = "mark" /\ cur[w] = o /\ verdict[w] = "SUBMITTED"

\* An indexedDB request fails.  In _replaySAF the rejection leaves the
\* function before it clears _replaying.
FailPass(w) ==
  /\ crashes + storeFaults < MaxFailures
  /\ storeFaults' = storeFaults + 1
  /\ phase[w] \in {"load", "mark"}
  /\ phase' = [phase EXCEPT ![w] = "stuck"]
  /\ ForgetPass(w)
  /\ unrecorded' = [o \in Order |->
                      IF FillUnwritten(w, o) THEN unrecorded[o] + 1 ELSE unrecorded[o]]
  /\ UNCHANGED <<storeVars, callVars, wire, stray, fills, attempts, crashes,
                 modeVars>>

\* The store.add of _enqueueSAF fails: after a 429 the rejection lands in the
\* catch of _submitOrder, which enqueues once more; otherwise the order is gone.
FailAdd(w, o) ==
  /\ crashes + storeFaults < MaxFailures
  /\ storeFaults' = storeFaults + 1
  /\ caller[o] = w
  /\ \/ /\ call[o] = "limited"
        /\ call' = [call EXCEPT ![o] = AfterEnqueue(w)]
     \/ /\ call[o] = "enqueue"
        /\ call' = [call EXCEPT ![o] = "failed"]
  /\ UNCHANGED <<storeVars, passVars, caller, netVars, crashes, modeVars>>

\* The tab is reloaded or the worker dies and is started again: its memory is
\* gone, the store is not.  Requests it had sent may still arrive.
Crash(w) ==
  /\ crashes + storeFaults < MaxFailures
  /\ crashes' = crashes + 1
  /\ dbOpen' = [dbOpen EXCEPT ![w] = FALSE]
  /\ online' = [online EXCEPT ![w] = TRUE]
  /\ phase' = [phase EXCEPT ![w] = "off"]
  /\ ForgetPass(w)
  /\ call' = [o \in Order |->
                IF caller[o] = w /\ call[o] \in Running
                  THEN "failed" ELSE call[o]]
  /\ wire' = [wire EXCEPT ![w] = [o \in Order |-> "none"]]
  /\ \E onTheWay \in SUBSET {o \in Order : wire[w][o] = "sent"} :
       /\ stray' = [o \in Order |->
                      IF o \in onTheWay THEN stray[o] + 1 ELSE stray[o]]
       /\ unrecorded' = [o \in Order |->
                           IF \/ o \in onTheWay
                              \/ wire[w][o] = "filled"
                              \/ FillUnwritten(w, o)
                             THEN unrecorded[o] + 1 ELSE unrecorded[o]]
  /\ UNCHANGED <<storeVars, caller, fills, attempts, storeFaults>>

-----------------------------------------------------------------------------
Submission(w, o) ==
  \/ HandleIntent(w, o)
  \/ SubmitDefensively(w, o)
  \/ ReplyToCall(w, o)
  \/ AddEntry(w, o)

Replay(w) ==
  \/ BeginReplay(w)
  \/ LoadPending(w)
  \/ \E o \in Order : TakeEntry(w, o)
  \/ ReplyToPass(w)
  \/ MarkEntry(w)
  \/ EndReplay(w)

Exchange(w, o) == Fill(w, o) \/ Refuse(w, o) \/ LoseReply(w, o)

Surroundings(w) ==
  \/ OpenStore(w)
  \/ GoOnline(w)
  \/ GoOffline(w)
  \/ FailPass(w)
  \/ Crash(w)

Next ==
  \/ \E w \in Worker, o \in Order :
       Submission(w, o) \/ Exchange(w, o) \/ FailAdd(w, o)
  \/ \E w \in Worker : Replay(w) \/ Surroundings(w)
  \/ \E o \in Order : StrayArrives(o) \/ PassTTL(o)

Spec == Init /\ [][Next]_vars

\* A worker's event loop runs every handler that is ready, the timer fires
\* every 30 s, a fetch settles, indexedDB.open and requests complete, and an
\* offline browser comes back.  Nothing makes an intent, a TTL or a failure
\* happen.
Fairness ==
  /\ \A w \in Worker :
       /\ WF_vars(Replay(w))
       /\ WF_vars(OpenStore(w))
       /\ WF_vars(GoOnline(w))
       /\ \A o \in Order : WF_vars(Exchange(w, o)) /\ WF_vars(AddEntry(w, o))

FairSpec == Spec /\ Fairness

-----------------------------------------------------------------------------
(* Properties                                                              *)

\* An entry is marked SUBMITTED only if the exchange has executed its order,
\* whatever replies are lost, whichever workers crash or replay together.
SubmittedWasFilled ==
  \A o \in Order : status[o] = "SUBMITTED" => fills[o] > 0

\* The exchange executes an order twice only because the queue could not know
\* of the first execution: a reply was lost, or the worker (or its store)
\* failed between the fill and the mark.  In particular a replay pass never
\* resubmits what it, an earlier pass or the first call knows to be filled.
\* Holds with one worker on the store.
RepeatFillsExplained ==
  \A o \in Order : fills[o] <= 1 + unrecorded[o]

\* An order is sent once and then retried at most MaxRetries times, except
\* that each failure of the worker or of its store can hide one attempt from
\* retry_count.  Holds with one worker on the store.
AttemptsBounded ==
  \A o \in Order : attempts[o] <= 1 + MaxRetries + crashes + storeFaults

\* The queue keeps the promise of SafLifecycle.  Holds with one worker on the
\* store.
Lifecycle == INSTANCE SafLifecycle
ImplementsLifecycle == Lifecycle!LifeSpec

\* An order is not in two hands: while its first submission is running it is
\* not in the store, and no worker's pass is about to send it again.
OneHand ==
  \A o \in Order : call[o] \in Running =>
    /\ status[o] = "NONE"
    /\ \A w \in Worker : o \notin todo[w] /\ cur[w] # o
    /\ \A w \in Worker : wire[w][o] # "none" => w = caller[o]

\* A queued order does not stay queued: it is submitted or it expires, although
\* workers share the queue, are restarted and go offline, and although a rejected
\* store request leaves a pass with _replaying set for good: the other workers
\* drain the queue.  The queue stands still only when a request has failed for
\* every worker.
QueueDrains ==
  \A o \in Order : status[o] = "PENDING" ~>
    status[o] \in {"SUBMITTED", "EXPIRED"} \/ storeFaults >= Cardinality(Worker)
=============================================================================
