---------------------------- MODULE VaultProtocol ----------------------------
(* The guardian, as SafetySignals describes it, the page that relays its      *)
(* messages (src/browser/index.html) and the execution worker                 *)
(* (src/browser/workers/execution_worker.js), as far as the vault and the     *)
(* emergency freeze concern them.  postMessage keeps the order within one     *)
(* channel; the channels guardian - page, page - guardian and page -          *)
(* execution worker run at speeds of their own.                               *)
EXTENDS SafetySignals

CONSTANT MaxIn   \* bound: messages waiting in a channel from the page

ASSUME MaxInAssumption == MaxIn \in Nat \ {0}

VARIABLES
  toGuardian,  \* resets and freeze updates posted to the guardian
  toExec,      \* vault messages posted to the execution worker
  frozen,      \* _phicState.emergency_freeze of the page
  vaultMode,   \* _vaultMode of the execution worker
  replaced     \* observer: the execution worker was replaced during this hold

linkVars == <<toGuardian, toExec, frozen, vaultMode, replaced>>
protocolVars == <<signalVars, linkVars>>

PageMessages == {"reset", "freeze", "thaw"}
VaultMessages == {"vault_liquidate", "vault_cleared"}

ProtocolTypeOK ==
  /\ holding \in BOOLEAN
  /\ freezing \in BOOLEAN
  /\ out \in Seq(VaultMessages \cup {"thaw"})
  /\ toGuardian \in Seq(PageMessages)
  /\ toExec \in Seq(VaultMessages)
  /\ frozen \in BOOLEAN
  /\ vaultMode \in BOOLEAN
  /\ replaced \in BOOLEAN

ProtocolInit ==
  /\ SignalsInit
  /\ toGuardian = <<>>
  /\ toExec = <<>>
  /\ frozen = FALSE
  /\ vaultMode = FALSE
  /\ replaced = FALSE

Tell(message) == /\ Len(toGuardian) < MaxIn
                 /\ toGuardian' = Append(toGuardian, message)

Order(message) == /\ Len(toExec) < MaxIn
                  /\ toExec' = Append(toExec, message)

-----------------------------------------------------------------------------
(* The guardian.                                                            *)

GuardianHolds == /\ Hold
                 /\ replaced' = FALSE
                 /\ UNCHANGED <<toGuardian, toExec, frozen, vaultMode>>

GuardianActs == /\ Recover \/ Abandon \/ Thaw
                /\ UNCHANGED linkVars

(* `reset_state`: vault_cleared is posted if the vault was held.             *)
ResetState == IF holding THEN Recover ELSE UNCHANGED signalVars

GuardianReceives ==
  /\ toGuardian # <<>>
  /\ \/ Head(toGuardian) = "reset" /\ ResetState
     \/ Head(toGuardian) = "freeze" /\ FreezeUpdate
     \/ /\ Head(toGuardian) = "thaw"
        /\ ThawUpdate \/ (~freezing /\ UNCHANGED signalVars)
  /\ toGuardian' = Tail(toGuardian)
  /\ UNCHANGED <<toExec, frozen, vaultMode, replaced>>

(* The heartbeat sends the PHIC state of the page to the guardian it starts. *)
RespawnGuardian ==
  /\ Respawn
  /\ toGuardian' = <<IF frozen THEN "freeze" ELSE "thaw">>
  /\ UNCHANGED <<toExec, frozen, vaultMode, replaced>>

-----------------------------------------------------------------------------
(* The page.                                                                *)

\* Mutant of Relay: the guardian is not told of the thaw.
RelayWithoutEcho ==
  /\ Deliver
  /\ \/ /\ Head(out) \in VaultMessages
        /\ Order(Head(out))
        /\ UNCHANGED <<toGuardian, frozen>>
     \/ /\ Head(out) = "thaw"
        /\ frozen' = FALSE
        /\ UNCHANGED <<toGuardian, toExec>>
  /\ UNCHANGED <<vaultMode, replaced>>

(* `_onGuardianMsg`.  A thaw is applied, and every worker told of it.        *)
Relay ==
  /\ Deliver
  /\ \/ /\ Head(out) \in VaultMessages
        /\ Order(Head(out))
        /\ UNCHANGED <<toGuardian, frozen>>
     \/ /\ Head(out) = "thaw"
        /\ frozen' = FALSE
        /\ Tell("thaw")
        /\ UNCHANGED toExec
  /\ UNCHANGED <<vaultMode, replaced>>

\* Mutant of ResetGuardianState: only the execution worker is reset.
ResetExecutionOnly ==
  /\ Order("vault_cleared")
  /\ UNCHANGED <<signalVars, toGuardian, frozen, vaultMode, replaced>>

(* The reset button clears the execution worker's vault mode directly, too.  *)
ResetGuardianState ==
  /\ Tell("reset")
  /\ Order("vault_cleared")
  /\ UNCHANGED <<signalVars, frozen, vaultMode, replaced>>

FireClearSkies ==
  /\ Tell("reset")
  /\ UNCHANGED <<signalVars, toExec, frozen, vaultMode, replaced>>

(* Drawdown, floor breach or cash-out.                                       *)
PageFreezes ==
  /\ Tell("freeze")
  /\ frozen' = TRUE
  /\ UNCHANGED <<signalVars, toExec, vaultMode, replaced>>

AutoThaw ==
  /\ frozen
  /\ Tell("thaw")
  /\ frozen' = FALSE
  /\ UNCHANGED <<signalVars, toExec, vaultMode, replaced>>

-----------------------------------------------------------------------------
(* The execution worker.                                                    *)

ExecutionReceives ==
  /\ toExec # <<>>
  /\ vaultMode' = (Head(toExec) = "vault_liquidate")
  /\ toExec' = Tail(toExec)
  /\ UNCHANGED <<signalVars, toGuardian, frozen, replaced>>

(* The heartbeat replaces an execution worker that does not answer.          *)
RespawnExecution ==
  /\ vaultMode' = FALSE
  /\ toExec' = <<>>
  /\ replaced' = TRUE
  /\ UNCHANGED <<signalVars, toGuardian, frozen>>

ProtocolNext ==
  \/ GuardianHolds \/ GuardianActs \/ GuardianReceives \/ RespawnGuardian
  \/ Relay \/ ResetGuardianState \/ FireClearSkies \/ PageFreezes \/ AutoThaw
  \/ ExecutionReceives \/ RespawnExecution

ProtocolSpec == ProtocolInit /\ [][ProtocolNext]_protocolVars

-----------------------------------------------------------------------------
(* Properties.                                                              *)

NoReset == \A i \in 1 .. Len(toGuardian) : toGuardian[i] # "reset"

(* The last word on the vault the execution worker has had or will have.     *)
LastIsLiquidate ==
  IF out # <<>> THEN out[Len(out)] = "vault_liquidate"
  ELSE IF toExec # <<>> THEN toExec[Len(toExec)] = "vault_liquidate"
  ELSE vaultMode

(* While the vault is held the execution worker blocks buys, or is going to  *)
(* when what is under way has arrived.  Neither the reset button's direct    *)
(* vault_cleared nor the messages of an earlier hold take the block away,    *)
(* unless a reset of the guardian is under way or the execution worker was   *)
(* replaced meanwhile.                                                       *)
HoldAnnounced == holding /\ NoReset /\ ~replaced => LastIsLiquidate

FreezeNews == {i \in 1 .. Len(toGuardian) : toGuardian[i] # "reset"}
ThawSent == \E i \in 1 .. Len(out) : out[i] = "thaw"

(* Page and guardian freeze and thaw on their own, and the messages about it *)
(* cross.  Whatever the crossing, once none is under way they agree.         *)
FreezeAgrees == FreezeNews = {} /\ ~ThawSent => frozen = freezing

=============================================================================
