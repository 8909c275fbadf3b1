------------------------------ MODULE DaemonHub ------------------------------
(***************************************************************************)
(* Governance in the daemon (daemon/src/runner.js): the hub holds the PHIC *)
(* state, tells its workers of every change, freezes on an alarm or by     *)
(* hand, thaws by itself when VPIN has been calm, and takes intents.       *)
(*                                                                         *)
(* A worker acts on its own copy of the freeze, which follows the hub      *)
(* through its inbox; postMessage keeps the order within one inbox.  The   *)
(* echoforge worker also freezes itself and reports it.                    *)
(*                                                                         *)
(*    signal -> echoforge -> hub -> guardian                               *)
(*    POST /api/v1/intent -> hub -> execution                              *)
(*                                                                         *)
(* The nociceptor measures VPIN and posts it; the hub asks only whether a  *)
(* value is below vpin_highvol_threshold, when it comes to handle it, and  *)
(* that is all a vpin_update carries here.  What the nociceptor, the       *)
(* echoforge worker and the guardian make of a signal is left open, except *)
(* that a frozen echoforge worker sends nothing; so is whether a tab is    *)
(* connected, which makes the hub drop the daemon's own intents.  The      *)
(* other fields of the PHIC state, and messages that only inform, are left *)
(* out.                                                                    *)
(***************************************************************************)
EXTENDS Naturals, Sequences

CONSTANTS
  MaxBox  \* bound: messages of a worker that wait while more may be posted

ASSUME HubAssumption == MaxBox \in Nat \ {0}

VARIABLES
  \* The hub
  phic,     \* _phic: emergency_freeze, _manual_freeze, execution_disabled
  saved,    \* PHIC_STATE_FILE
  calm,     \* clock: _daemonAutoThawSince, over after auto_thaw_minutes
  \* The workers
  copy,     \* _phic.emergency_freeze of each
  inbox,    \* messages posted to each
  outbox,   \* messages of the echoforge worker to the hub
  asked,    \* the guardian has an intent to judge
  up,       \* _workers.execution is not null
  low,      \* VPIN, as last measured, is below vpin_highvol_threshold
  updates,  \* vpin_updates posted to the hub: whether each is below it
  \* Observers
  armed,    \* someone has enabled execution since the daemon started
  hold      \* someone has frozen by hand; since then nobody has thawed by hand,
            \* and no restart has come before the freeze was saved

phicVars == <<phic, saved, calm>>
workerVars == <<copy, inbox, outbox, asked, up>>
vpinVars == <<low, updates>>
vars == <<phicVars, workerVars, vpinVars, armed, hold>>

Worker == {"echoforge", "execution"}
Clocks == {"off", "running", "over"}

Message == {"freeze", "thaw", "cashout",
                "intent",       \* handed over while the hub was not frozen
                "late intent"}  \* handed over while it was

Phic == [frozen : BOOLEAN, manual : BOOLEAN, disabled : BOOLEAN]

TypeOK ==
  /\ phic \in Phic
  /\ saved \in [frozen : BOOLEAN, manual : BOOLEAN]
  /\ calm \in Clocks
  /\ copy \in [Worker -> BOOLEAN]
  /\ inbox \in [Worker -> Seq(Message)]
  /\ outbox \in Seq({"intent", "alert"})
  /\ asked \in BOOLEAN
  /\ up \in BOOLEAN
  /\ low \in BOOLEAN
  /\ updates \in Seq(BOOLEAN)
  /\ armed \in BOOLEAN
  /\ hold \in BOOLEAN

-----------------------------------------------------------------------------
(* What the hub posts                                                      *)

Open(w) == w = "execution" => up

Post(w, message) ==
  inbox' = IF Open(w) THEN [inbox EXCEPT ![w] = Append(@, message)] ELSE inbox

Word(frozen) == IF frozen THEN "freeze" ELSE "thaw"

\* phic_update to all workers; one that is being replaced misses it.
Broadcast(frozen) ==
  inbox' = [w \in Worker |-> IF Open(w) THEN Append(inbox[w], Word(frozen))
                             ELSE inbox[w]]

\* Mutant of HandOver: intents overtake what waits.
IntentFirst ==
  inbox' = IF up THEN [inbox EXCEPT !["execution"] =
                         <<IF phic.frozen THEN "late intent" ELSE "intent">> \o @]
           ELSE inbox

HandOver ==
  Post("execution", IF phic.frozen THEN "late intent" ELSE "intent")

\* Bound on what is posted.
Room == \A w \in Worker : Len(inbox[w]) < MaxBox

\* Mutant of ApplyFreeze: nothing is done if the system is frozen.
FreezeOnce(byHand) ==
  IF phic.frozen
  THEN UNCHANGED <<phic, inbox>>
  ELSE /\ phic' = [phic EXCEPT !.frozen = TRUE, !.manual = @ \/ byHand]
       /\ Broadcast(TRUE)

\* _applyFreeze
ApplyFreeze(byHand) ==
  /\ phic' = [phic EXCEPT !.frozen = TRUE, !.manual = @ \/ byHand]
  /\ Broadcast(TRUE)

-----------------------------------------------------------------------------
(* Starting                                                                *)

Empty == [w \in Worker |-> <<>>]

\* Mutant of Restored: execution is left enabled.
RestoredAsDefault(file) ==
  [frozen |-> file.frozen, manual |-> file.manual, disabled |-> FALSE]

\* _loadPhicState
Restored(file) ==
  [frozen |-> file.frozen, manual |-> file.manual, disabled |-> TRUE]

Init ==
  /\ saved = [frozen |-> FALSE, manual |-> FALSE]
  /\ phic = Restored(saved)
  /\ calm = "off"
  /\ copy = [w \in Worker |-> FALSE]
  /\ inbox = Empty
  /\ outbox = <<>>
  /\ asked = FALSE
  /\ up = TRUE
  /\ low = TRUE
  /\ updates = <<>>
  /\ armed = FALSE
  /\ hold = FALSE

\* The daemon stops, at any point, and is started again: SIGTERM saves nothing.
Restart ==
  /\ phic' = Restored(saved)
  /\ calm' = "off"
  /\ copy' = [w \in Worker |-> saved.frozen]
  /\ inbox' = Empty
  /\ outbox' = <<>>
  /\ asked' = FALSE
  /\ up' = TRUE
  /\ low' = TRUE
  /\ updates' = <<>>
  /\ armed' = FALSE
  /\ hold' = (hold /\ saved.frozen /\ saved.manual)
  /\ UNCHANGED saved

\* _savePhicState, every five minutes
Save ==
  /\ saved' = [frozen |-> phic.frozen, manual |-> phic.manual]
  /\ UNCHANGED <<phic, calm, workerVars, vpinVars, armed, hold>>

-----------------------------------------------------------------------------
(* People                                                                  *)

\* A config from outside is merged into the state.
Merge(frozen, disabled) ==
  /\ Room
  /\ phic' = [phic EXCEPT !.frozen = frozen, !.disabled = disabled]
  /\ armed' = (armed \/ ~disabled)
  /\ hold' = (hold /\ frozen)
  /\ UNCHANGED <<calm, copy, outbox, asked, up, vpinVars>>

\* Only the fields of the config go to the workers.
SendFields(frozen) ==
  \/ Broadcast(frozen)
  \/ frozen = phic.frozen /\ UNCHANGED inbox

Keep == saved' = [frozen |-> phic'.frozen, manual |-> phic'.manual]

\* POST /api/v1/phic/config
PostConfig ==
  \E frozen, disabled \in BOOLEAN :
    Merge(frozen, disabled) /\ Broadcast(frozen) /\ Keep

\* phic_update on /phic/ws
SocketConfig ==
  \E frozen, disabled \in BOOLEAN :
    Merge(frozen, disabled) /\ Broadcast(frozen) /\ UNCHANGED saved

\* phic_update from the Python host
HostConfig ==
  \E frozen, disabled \in BOOLEAN :
    Merge(frozen, disabled) /\ SendFields(frozen) /\ Keep

\* echoforge.phic.config on NATS, and sync_state from the Python host
RemoteConfig ==
  \E frozen, disabled \in BOOLEAN :
    Merge(frozen, disabled) /\ SendFields(frozen) /\ UNCHANGED saved

\* POST /api/v1/phic/freeze
Freeze ==
  /\ Room
  /\ ApplyFreeze(TRUE)
  /\ hold' = TRUE
  /\ UNCHANGED <<saved, calm, copy, outbox, asked, up, vpinVars, armed>>

\* cashout, from the Python host
Cashout ==
  /\ Room
  /\ phic' = [phic EXCEPT !.frozen = TRUE, !.manual = TRUE]
  /\ LET told(w) == Append(inbox[w], Word(TRUE)) IN
     inbox' = [w \in Worker |->
                 IF ~Open(w) THEN inbox[w]
                 ELSE IF w = "execution" THEN Append(told(w), "cashout")
                 ELSE told(w)]
  /\ hold' = TRUE
  /\ UNCHANGED <<saved, calm, copy, outbox, asked, up, vpinVars, armed>>

\* POST /api/v1/intent: neither the guardian nor the freeze is asked.
PostIntent ==
  /\ Room
  /\ ~phic.disabled
  /\ HandOver
  /\ UNCHANGED <<phicVars, copy, outbox, asked, up, vpinVars, armed, hold>>

-----------------------------------------------------------------------------
(* VPIN and the automatic thaw                                             *)

\* The nociceptor has read the ring buffer and posts a vpin_update.
Measure ==
  /\ Len(updates) < MaxBox
  /\ low' \in BOOLEAN
  /\ updates' = Append(updates, low')
  /\ UNCHANGED <<phicVars, workerVars, armed, hold>>

\* Mutant of CheckAutoThaw: every calm update restarts the clock.
CheckAutoThawAnew(isCalm) ==
  /\ calm' = IF phic.frozen /\ ~phic.manual /\ isCalm THEN "running" ELSE "off"
  /\ UNCHANGED <<phic, inbox>>

\* _checkDaemonAutoThaw
CheckAutoThaw(isCalm) ==
  LET counting == phic.frozen /\ ~phic.manual /\ isCalm IN
  \/ /\ ~counting
     /\ calm' = "off"
     /\ UNCHANGED <<phic, inbox>>
  \/ /\ counting /\ calm # "over"
     /\ calm' = "running"
     /\ UNCHANGED <<phic, inbox>>
  \/ /\ counting /\ calm = "over"
     /\ calm' = "off"
     /\ phic' = [phic EXCEPT !.frozen = FALSE]
     /\ Broadcast(FALSE)

\* The hub handles a vpin_update; the nociceptor may have measured since.
HearVpin ==
  /\ updates # <<>>
  /\ updates' = Tail(updates)
  /\ CheckAutoThaw(Head(updates))
  /\ UNCHANGED <<saved, copy, outbox, asked, up, low, armed, hold>>

\* auto_thaw_minutes pass.
TimePasses ==
  /\ Room
  /\ calm = "running"
  /\ calm' = "over"
  /\ UNCHANGED <<phic, saved, workerVars, vpinVars, armed, hold>>

-----------------------------------------------------------------------------
(* The workers                                                             *)

Take(w) ==
  /\ inbox[w] # <<>>
  /\ inbox' = [inbox EXCEPT ![w] = Tail(@)]
  /\ copy' = IF Head(inbox[w]) \in {"freeze", "thaw"}
             THEN [copy EXCEPT ![w] = (Head(inbox[w]) = "freeze")]
             ELSE copy

EchoReceives ==
  /\ Take("echoforge")
  /\ UNCHANGED <<phicVars, outbox, asked, up, vpinVars, armed, hold>>

\* A signal that has cleared the nociceptor finds an echo that may fire.
EchoFires ==
  /\ ~copy["echoforge"]
  /\ Len(outbox) < MaxBox
  /\ outbox' = Append(outbox, "intent")
  /\ UNCHANGED <<phicVars, copy, inbox, asked, up, vpinVars, armed, hold>>

\* Drawdown: the worker freezes itself, then the hub is told.
Drawdown ==
  /\ ~copy["echoforge"]
  /\ Len(outbox) < MaxBox
  /\ copy' = [copy EXCEPT !["echoforge"] = TRUE]
  /\ outbox' = Append(outbox, "alert")
  /\ UNCHANGED <<phicVars, inbox, asked, up, vpinVars, armed, hold>>

\* The hub hears of it, or of an intent.
EchoReports ==
  /\ Room
  /\ outbox # <<>>
  /\ outbox' = Tail(outbox)
  /\ \/ /\ Head(outbox) = "alert"
        /\ \/ phic.frozen /\ UNCHANGED <<phic, inbox>>
           \/ ~phic.frozen /\ ApplyFreeze(FALSE)
        /\ UNCHANGED asked
     \/ /\ Head(outbox) = "intent"
        /\ asked' \in IF phic.disabled THEN {asked} ELSE {asked, TRUE}
        /\ UNCHANGED <<phic, inbox>>
  /\ UNCHANGED <<saved, calm, copy, up, vpinVars, armed, hold>>

\* The guardian judges the intent.  It answers an approval with
\* guardian_forward, which the hub does not know (it waits for intent_route), so
\* the intent ends here.
GuardianJudges ==
  /\ asked
  /\ asked' = FALSE
  /\ UNCHANGED <<phicVars, copy, inbox, outbox, up, vpinVars, armed, hold>>

\* The guardian tightens the stop-loss: the whole state is posted again.  (Its
\* own recovery from a freeze takes an intent that arrives some fifteen minutes
\* into the freeze; a frozen echoforge worker sends none.)
GuardianAdjusts ==
  /\ Room
  /\ Broadcast(phic.frozen)
  /\ UNCHANGED <<phicVars, copy, outbox, asked, up, vpinVars, armed, hold>>

\* The execution worker trades on an intent if its copy is not frozen.
ExecReceives ==
  /\ Take("execution")
  /\ UNCHANGED <<phicVars, outbox, asked, up, vpinVars, armed, hold>>

FloorBreach ==
  /\ up
  /\ ~phic.frozen
  /\ Room
  /\ ApplyFreeze(FALSE)
  /\ UNCHANGED <<saved, calm, copy, outbox, asked, up, vpinVars, armed, hold>>

ExecFails ==
  /\ up
  /\ up' = FALSE
  /\ inbox' = [inbox EXCEPT !["execution"] = <<>>]
  /\ UNCHANGED <<phicVars, copy, outbox, asked, vpinVars, armed, hold>>

\* Mutant of RestartExecution: the new worker is not initialised.
RestartExecutionBlank ==
  /\ ~up
  /\ up' = TRUE
  /\ copy' = [copy EXCEPT !["execution"] = FALSE]
  /\ UNCHANGED <<phicVars, inbox, outbox, asked, vpinVars, armed, hold>>

\* _restartExecution: the new worker is initialised with the state of the hub.
RestartExecution ==
  /\ ~up
  /\ up' = TRUE
  /\ copy' = [copy EXCEPT !["execution"] = phic.frozen]
  /\ UNCHANGED <<phicVars, inbox, outbox, asked, vpinVars, armed, hold>>

-----------------------------------------------------------------------------

Next ==
  \/ Restart \/ Save
  \/ PostConfig \/ SocketConfig \/ HostConfig \/ RemoteConfig
  \/ Freeze \/ Cashout \/ PostIntent
  \/ Measure \/ HearVpin \/ TimePasses
  \/ EchoFires \/ EchoReceives \/ Drawdown \/ EchoReports
  \/ GuardianJudges \/ GuardianAdjusts
  \/ ExecReceives \/ FloorBreach \/ ExecFails \/ RestartExecution

Spec == Init /\ [][Next]_vars

\* The feed keeps ticking, the hub and its workers keep reading, and time passes (strong
\* fairness, since the bound on messages interrupts TimePasses).
Fairness ==
  /\ WF_vars(Measure)
  /\ WF_vars(HearVpin)
  /\ WF_vars(EchoReceives)
  /\ WF_vars(ExecReceives)
  /\ SF_vars(TimePasses)

FairSpec == Spec /\ Fairness

-----------------------------------------------------------------------------
(* Properties                                                              *)

News(w) == {i \in 1..Len(inbox[w]) : inbox[w][i] \in {"freeze", "thaw"}}

\* The freeze of a worker when it has read its inbox.
LastWord(w) ==
  IF News(w) = {} THEN copy[w]
  ELSE \E i \in News(w) : /\ \A j \in News(w) : j <= i
                          /\ inbox[w][i] = "freeze"

AlertSent == \E i \in 1..Len(outbox) : outbox[i] = "alert"

\* Whatever the order of freezes, thaws, configs and restarts, and although the
\* echoforge worker freezes itself and a failed execution worker misses
\* messages, every worker ends up with the hub's word, or the hub is about to
\* hear of the worker's (runner.js 209-215, 276-295, 868-887, 1148-1152).
CopiesAgree ==
  \A w \in Worker :
    Open(w) => \/ LastWord(w) = phic.frozen
               \/ w = "echoforge" /\ LastWord(w) /\ AlertSent

\* The hub hands intents over while it is frozen (runner.js 473-499) and relies
\* on the order of messages: an intent handed over during a freeze finds
\* the execution worker frozen, one handed over before or after it does not.
FreezeGovernsIntents ==
  up /\ inbox["execution"] # <<>> =>
    /\ Head(inbox["execution"]) = "late intent" => copy["execution"]
    /\ Head(inbox["execution"]) = "intent" => ~copy["execution"]

\* After a start no intent is under way to the guardian or the execution worker
\* until someone has enabled execution: "user must re-enable each session"
\* (runner.js 185).
ObservesUntilEnabled ==
  ~armed => /\ ~asked
            /\ \A i \in 1..Len(inbox["execution"]) :
                 inbox["execution"][i] \notin {"intent", "late intent"}

\* A freeze by hand stands until somebody lifts it, even if the system was
\* frozen by an alarm already and about to thaw (runner.js 276-277, 615).
HoldKept == hold => phic.frozen

\* When VPIN stays calm for good and the daemon runs on, an alarm's freeze ends,
\* although updates from before the calm are still under way and each may clear
\* the clock: "so auto-thaw can recover" (runner.js 1240).  Excused is an alarm
\* under _manual_freeze, which a freeze by hand sets and nothing clears: not only
\* while somebody's freeze stands, but also after it has been lifted.
AlarmsEnd ==
  <>[]low /\ <>[][~Restart]_vars
    => [](phic.frozen /\ ~phic.manual => <>(~phic.frozen \/ phic.manual))
=============================================================================
