---------------------------- MODULE SafetySignals ----------------------------
(* What the guardian worker promises those it talks to about its two states   *)
(* that concern others: that it holds the vault, and that it takes the node   *)
(* to be frozen.  It does not promise to announce the end of every hold.      *)
EXTENDS Naturals, Sequences

CONSTANT MaxOut   \* bound: messages waiting on their way to the page

VARIABLES
  holding,   \* the guardian is in VAULT_HOLD
  freezing,  \* _emergencyFreezeActive
  out        \* messages posted to the page

signalVars == <<holding, freezing, out>>

SignalsInit == holding = FALSE /\ freezing = FALSE /\ out = <<>>

Announce(message) == /\ Len(out) < MaxOut
                     /\ out' = Append(out, message)

Hold == /\ ~holding /\ holding' = TRUE
        /\ Announce("vault_liquidate")
        /\ UNCHANGED freezing

Recover == /\ holding /\ holding' = FALSE
           /\ Announce("vault_cleared")
           /\ UNCHANGED freezing

(* Another reason to leave VAULT_HOLD: a hidden tab, a stop-loss, a drawdown,*)
(* the latency, lower highs.                                                 *)
Abandon == /\ holding /\ holding' = FALSE
           /\ UNCHANGED <<freezing, out>>

FreezeUpdate == /\ freezing' = TRUE
                /\ holding' = (holding /\ freezing)
                /\ UNCHANGED out

ThawUpdate == /\ freezing /\ freezing' = FALSE
              /\ UNCHANGED <<holding, out>>

Thaw == /\ freezing /\ freezing' = FALSE /\ holding' = FALSE
        /\ Announce("thaw")

Deliver == /\ out # <<>>
           /\ out' = Tail(out)
           /\ UNCHANGED <<holding, freezing>>

Respawn == /\ holding' = FALSE /\ freezing' = FALSE
           /\ out' \in {out, <<>>}

SignalsNext == \/ Hold \/ Recover \/ Abandon
               \/ FreezeUpdate \/ ThawUpdate \/ Thaw
               \/ Deliver \/ Respawn

SignalsSpec == SignalsInit /\ [][SignalsNext]_signalVars

=============================================================================
