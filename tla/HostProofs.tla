----------------------------- MODULE HostProofs -----------------------------
(* Proofs about the two hosts of a node: the page, between the guardian and   *)
(* the execution worker (VaultProtocol), and the hub of the daemon            *)
(* (DaemonHub), for channels and inboxes of any length.  What both have to    *)
(* show is that a word of the host, posted to a worker, is not undone by      *)
(* those posted before or after it.                                           *)
(*                                                                            *)
(* The page: HoldAnnounced is inductive as it stands.  FreezeAgrees is not:   *)
(* it needs that, while freezes and thaws are under way to the guardian, the  *)
(* last of them is what the page believes.                                    *)
(*                                                                            *)
(* The hub: a worker's copy of the freeze is only as new as the messages it   *)
(* has read, so the invariant is about what it will have heard when it has    *)
(* read n of those that wait: all of them give the word of the hub, and the   *)
(* ones before an intent give the word the intent was handed over under.      *)
EXTENDS VaultProtocol, DaemonHub, TLAPS

-----------------------------------------------------------------------------
(* Channels.                                                                *)

(* A channel after its first message has been taken.                         *)
LEMMA Taken ==
  ASSUME NEW S, NEW s \in Seq(S), s # <<>>
  PROVE  /\ Tail(s) \in Seq(S)
         /\ Len(s) \in Nat \ {0} /\ Len(Tail(s)) = Len(s) - 1
         /\ Head(s) = s[1] /\ Head(s) \in S
         /\ \A i \in 1 .. Len(s) - 1 : Tail(s)[i] = s[i + 1]
BY SMT

(* A channel after a message has been posted to it.                          *)
LEMMA Posted ==
  ASSUME NEW S, NEW s \in Seq(S), NEW e \in S
  PROVE  /\ Append(s, e) \in Seq(S)
         /\ Len(s) \in Nat /\ Len(Append(s, e)) = Len(s) + 1
         /\ Append(s, e) # <<>> /\ Append(s, e)[Len(s) + 1] = e
         /\ \A i \in 1 .. Len(s) : Append(s, e)[i] = s[i]
BY SMT

LEMMA EmptyChannel == ASSUME NEW S PROVE <<>> \in Seq(S)
OBVIOUS

-----------------------------------------------------------------------------
(* The page: what is inductive.                                             *)

NewsMatches ==
  \A i \in FreezeNews :
    (\A j \in FreezeNews : j <= i) => (toGuardian[i] = "freeze" <=> frozen)

FreezeInv == NewsMatches /\ FreezeAgrees

ProtocolInv == ProtocolTypeOK /\ HoldAnnounced /\ FreezeInv

-----------------------------------------------------------------------------
(* The page: types.                                                         *)

LEMMA ProtocolInitTyped == ProtocolInit => ProtocolTypeOK
BY EmptyChannel DEF ProtocolInit, SignalsInit, ProtocolTypeOK

(* What the guardian posts, alone or on receipt of a message.                *)
LEMMA GuardianTyped ==
  ASSUME ProtocolTypeOK, Hold \/ Recover \/ Abandon \/ Thaw \/ FreezeUpdate \/ ThawUpdate
                 \/ UNCHANGED signalVars
  PROVE  /\ holding' \in BOOLEAN /\ freezing' \in BOOLEAN
         /\ out' \in Seq(VaultMessages \cup {"thaw"})
<1> DEFINE M == VaultMessages \cup {"thaw"}
<1>1. out \in Seq(M) /\ holding \in BOOLEAN /\ freezing \in BOOLEAN
  BY DEF ProtocolTypeOK
<1>2. /\ "vault_liquidate" \in M /\ "vault_cleared" \in M /\ "thaw" \in M
  BY DEF VaultMessages
<1> HIDE DEF M
<1>3. ASSUME NEW message \in M, Announce(message) PROVE out' \in Seq(M)
  BY <1>1, <1>3, Posted DEF Announce
<1>4. out' \in Seq(M)
  BY <1>1, <1>2, <1>3
     DEF Hold, Recover, Abandon, Thaw, FreezeUpdate, ThawUpdate, signalVars
<1>5. holding' \in BOOLEAN /\ freezing' \in BOOLEAN
  BY <1>1
     DEF Hold, Recover, Abandon, Thaw, FreezeUpdate, ThawUpdate, signalVars
<1> QED BY <1>4, <1>5 DEF M

LEMMA Received ==
  ASSUME ProtocolTypeOK, GuardianReceives
  PROVE  /\ Recover \/ FreezeUpdate \/ ThawUpdate \/ UNCHANGED signalVars
         /\ toGuardian # <<>> /\ toGuardian' = Tail(toGuardian)
         /\ UNCHANGED <<toExec, frozen, vaultMode, replaced>>
BY DEF GuardianReceives, ResetState

LEMMA Relayed ==
  ASSUME ProtocolTypeOK, Relay
  PROVE  /\ out # <<>> /\ out' = Tail(out)
         /\ \/ /\ Head(out) \in VaultMessages
               /\ toExec' = Append(toExec, Head(out))
               /\ UNCHANGED <<toGuardian, frozen>>
            \/ /\ Head(out) = "thaw"
               /\ frozen' = FALSE
               /\ toGuardian' = Append(toGuardian, "thaw")
               /\ UNCHANGED toExec
         /\ UNCHANGED <<holding, freezing, vaultMode, replaced>>
BY DEF Relay, Deliver, Order, Tell

LEMMA ProtocolNextTyped == ProtocolTypeOK /\ [ProtocolNext]_protocolVars => ProtocolTypeOK'
<1> SUFFICES ASSUME ProtocolTypeOK, [ProtocolNext]_protocolVars
             PROVE  ProtocolTypeOK'
  OBVIOUS
<1>1. CASE GuardianHolds
  BY <1>1, GuardianTyped DEF GuardianHolds, ProtocolTypeOK
<1>2. CASE GuardianActs
  BY <1>2, GuardianTyped DEF GuardianActs, linkVars, ProtocolTypeOK
<1>3. CASE GuardianReceives
  <2>1. toGuardian' \in Seq(PageMessages)
    BY <1>3, Received, Taken DEF ProtocolTypeOK
  <2> QED BY <1>3, <2>1, Received, GuardianTyped DEF ProtocolTypeOK
<1>4. CASE RespawnGuardian
  <2>1. /\ holding' = FALSE /\ freezing' = FALSE /\ out' \in {out, <<>>}
        /\ toGuardian' = <<IF frozen THEN "freeze" ELSE "thaw">>
        /\ UNCHANGED <<toExec, frozen, vaultMode, replaced>>
    BY <1>4 DEF RespawnGuardian, Respawn
  <2>2. toGuardian' \in Seq(PageMessages)
    BY <2>1 DEF PageMessages
  <2>3. out' \in Seq(VaultMessages \cup {"thaw"})
    BY <2>1, EmptyChannel DEF ProtocolTypeOK
  <2> QED BY <2>1, <2>2, <2>3 DEF ProtocolTypeOK
<1>5. CASE Relay
  <2>1. out' \in Seq(VaultMessages \cup {"thaw"})
    BY <1>5, Relayed, Taken DEF ProtocolTypeOK
  <2>2. CASE /\ Head(out) \in VaultMessages
             /\ toExec' = Append(toExec, Head(out))
             /\ UNCHANGED <<toGuardian, frozen>>
    <3>1. toExec' \in Seq(VaultMessages)
      BY <2>2, Posted DEF ProtocolTypeOK
    <3> QED BY <1>5, <2>1, <2>2, <3>1, Relayed DEF ProtocolTypeOK
  <2>3. CASE /\ frozen' = FALSE
             /\ toGuardian' = Append(toGuardian, "thaw")
             /\ UNCHANGED toExec
    <3>1. toGuardian' \in Seq(PageMessages)
      BY <2>3, Posted DEF ProtocolTypeOK, PageMessages
    <3> QED BY <1>5, <2>1, <2>3, <3>1, Relayed DEF ProtocolTypeOK
  <2> QED BY <1>5, <2>2, <2>3, Relayed
<1>6. ASSUME NEW message \in PageMessages, Tell(message)
      PROVE  toGuardian' \in Seq(PageMessages)
  BY <1>6, Posted DEF Tell, ProtocolTypeOK
<1>7. "reset" \in PageMessages /\ "freeze" \in PageMessages /\ "thaw" \in PageMessages
  BY DEF PageMessages
<1>8. CASE ResetGuardianState
  <2>1. toExec' \in Seq(VaultMessages)
    <3>1. "vault_cleared" \in VaultMessages
      BY DEF VaultMessages
    <3> QED BY <1>8, <3>1, Posted DEF ResetGuardianState, Order, ProtocolTypeOK
  <2> QED BY <1>6, <1>7, <1>8, <2>1 DEF ResetGuardianState, signalVars, ProtocolTypeOK
<1>9. CASE FireClearSkies
  BY <1>6, <1>7, <1>9 DEF FireClearSkies, signalVars, ProtocolTypeOK
<1>10. CASE PageFreezes
  BY <1>6, <1>7, <1>10 DEF PageFreezes, signalVars, ProtocolTypeOK
<1>11. CASE AutoThaw
  BY <1>6, <1>7, <1>11 DEF AutoThaw, signalVars, ProtocolTypeOK
<1>12. CASE ExecutionReceives
  <2>1. toExec' \in Seq(VaultMessages)
    BY <1>12, Taken DEF ExecutionReceives, ProtocolTypeOK
  <2> QED BY <1>12, <2>1 DEF ExecutionReceives, signalVars, ProtocolTypeOK
<1>13. CASE RespawnExecution
  BY <1>13, EmptyChannel DEF RespawnExecution, signalVars, ProtocolTypeOK
<1>14. CASE UNCHANGED protocolVars
  BY <1>14 DEF protocolVars, signalVars, linkVars, ProtocolTypeOK
<1> QED BY <1>1, <1>2, <1>3, <1>4, <1>5, <1>8, <1>9, <1>10, <1>11, <1>12,
           <1>13, <1>14 DEF ProtocolNext

-----------------------------------------------------------------------------
(* The page: holds.                                                         *)

LEMMA ResetSpreads ==
  ASSUME ProtocolTypeOK, Tell("reset")
  PROVE  ~NoReset'
<1>1. toGuardian' = Append(toGuardian, "reset") /\ toGuardian \in Seq(PageMessages)
  BY DEF Tell, ProtocolTypeOK
<1>2. /\ Len(toGuardian') = Len(toGuardian) + 1 /\ Len(toGuardian) \in Nat
      /\ toGuardian'[Len(toGuardian) + 1] = "reset"
  BY <1>1, Posted DEF PageMessages
<1> QED BY <1>2 DEF NoReset

LEMMA ResetStays ==
  ASSUME ProtocolTypeOK, NEW message \in PageMessages,
         toGuardian' = Append(toGuardian, message), NoReset'
  PROVE  NoReset
BY Posted DEF NoReset, ProtocolTypeOK

(* What is under way to the execution worker, or already there, when neither *)
(* a hold begins nor the last message arrives.                               *)
LEMMA LastKept ==
  ASSUME UNCHANGED <<out, toExec, vaultMode>>, LastIsLiquidate
  PROVE  LastIsLiquidate'
BY DEF LastIsLiquidate

LEMMA NextAnnounced ==
  ProtocolTypeOK /\ HoldAnnounced /\ [ProtocolNext]_protocolVars => HoldAnnounced'
<1> SUFFICES ASSUME ProtocolTypeOK, HoldAnnounced, [ProtocolNext]_protocolVars,
                    holding', NoReset', ~replaced'
             PROVE  LastIsLiquidate'
  BY DEF HoldAnnounced
<1>1. CASE GuardianHolds
  <2>1. out' = Append(out, "vault_liquidate") /\ out \in Seq(VaultMessages \cup {"thaw"})
    BY <1>1 DEF GuardianHolds, Hold, Announce, ProtocolTypeOK
  <2>2. out' # <<>> /\ out'[Len(out')] = "vault_liquidate"
    BY <2>1, Posted DEF VaultMessages
  <2> QED BY <2>2 DEF LastIsLiquidate
<1>2. CASE GuardianActs \/ RespawnGuardian
  BY <1>2 DEF GuardianActs, Recover, Abandon, Thaw, RespawnGuardian, Respawn
<1>3. CASE GuardianReceives
  <2>1. CASE Head(toGuardian) = "reset"
    BY <1>3, <2>1 DEF GuardianReceives, ResetState, Recover, signalVars
  <2>2. CASE Head(toGuardian) # "reset"
    <3>1. holding /\ UNCHANGED out
      BY <1>3, <2>2
         DEF GuardianReceives, FreezeUpdate, ThawUpdate, signalVars, ProtocolTypeOK
    <3>2. NoReset
      <4>1. /\ toGuardian \in Seq(PageMessages) /\ toGuardian # <<>>
            /\ toGuardian' = Tail(toGuardian)
        BY <1>3, Received DEF ProtocolTypeOK
      <4>2. ASSUME NEW i \in 1 .. Len(toGuardian) PROVE toGuardian[i] # "reset"
        <5>1. CASE i = 1
          BY <2>2, <4>1, <5>1, Taken
        <5>2. CASE i > 1
          <6>1. i - 1 \in 1 .. Len(toGuardian')
            BY <4>1, <5>2, Taken
          <6>2. toGuardian'[i - 1] = toGuardian[i]
            BY <4>1, <5>2, Taken
          <6> QED BY <6>1, <6>2 DEF NoReset
        <5> QED BY <5>1, <5>2
      <4> QED BY <4>2 DEF NoReset
    <3> QED BY <1>3, <3>1, <3>2, LastKept, Received DEF HoldAnnounced
  <2> QED BY <2>1, <2>2
<1>4. CASE Relay
  <2>1. /\ holding /\ ~replaced /\ UNCHANGED vaultMode
        /\ out \in Seq(VaultMessages \cup {"thaw"}) /\ out # <<>> /\ out' = Tail(out)
        /\ toExec \in Seq(VaultMessages)
    BY <1>4, Relayed DEF ProtocolTypeOK
  <2>2. NoReset
    <3>1. CASE UNCHANGED toGuardian
      BY <3>1 DEF NoReset
    <3>2. CASE toGuardian' = Append(toGuardian, "thaw")
      BY <3>2, ResetStays DEF PageMessages
    <3> QED BY <1>4, <3>1, <3>2, Relayed
  <2>3. out[Len(out)] = "vault_liquidate"
    BY <2>1, <2>2 DEF HoldAnnounced, LastIsLiquidate
  <2>4. CASE Len(out) > 1
    <3>1. /\ Len(out') = Len(out) - 1 /\ Len(out) \in Nat
          /\ \A i \in 1 .. Len(out) - 1 : out'[i] = out[i + 1]
      BY <2>1, Taken
    <3>2. out' # <<>> /\ out'[Len(out')] = out[Len(out)]
      BY <2>4, <3>1
    <3> QED BY <2>3, <3>2 DEF LastIsLiquidate
  <2>5. CASE Len(out) <= 1
    <3>1. out' = <<>> /\ Head(out) = "vault_liquidate"
      BY <2>1, <2>3, <2>5
    <3>2. toExec' = Append(toExec, "vault_liquidate")
      BY <1>4, <3>1, Relayed
    <3>3. toExec' # <<>> /\ toExec'[Len(toExec')] = "vault_liquidate"
      <4>1. "vault_liquidate" \in VaultMessages
        BY DEF VaultMessages
      <4> QED BY <2>1, <3>2, <4>1, Posted
    <3> QED BY <3>1, <3>3 DEF LastIsLiquidate
  <2>6. Len(out) \in Nat
    BY <2>1, Taken
  <2> QED BY <2>4, <2>5, <2>6
<1>5. CASE ResetGuardianState \/ FireClearSkies
  BY <1>5, ResetSpreads DEF ResetGuardianState, FireClearSkies
<1>6. CASE PageFreezes \/ AutoThaw
  <2>1. PICK message \in PageMessages : toGuardian' = Append(toGuardian, message)
    BY <1>6 DEF PageFreezes, AutoThaw, Tell, PageMessages
  <2>2. UNCHANGED <<out, toExec, vaultMode>> /\ holding /\ ~replaced
    <3>1. UNCHANGED <<out, toExec, vaultMode, holding, replaced>>
      BY <1>6 DEF PageFreezes, AutoThaw, signalVars
    <3> QED BY <3>1
  <2> QED BY <2>1, <2>2, ResetStays, LastKept DEF HoldAnnounced
<1>7. CASE ExecutionReceives
  <2>1. /\ toExec # <<>> /\ toExec \in Seq(VaultMessages)
        /\ toExec' = Tail(toExec)
        /\ vaultMode' = (Head(toExec) = "vault_liquidate")
        /\ UNCHANGED <<holding, out, toGuardian, replaced>>
    BY <1>7 DEF ExecutionReceives, signalVars, ProtocolTypeOK
  <2>2. LastIsLiquidate
    BY <2>1 DEF HoldAnnounced, NoReset
  <2>3. CASE out # <<>>
    BY <2>1, <2>2, <2>3 DEF LastIsLiquidate
  <2>4. CASE out = <<>>
    <3>1. toExec[Len(toExec)] = "vault_liquidate"
      BY <2>1, <2>2, <2>4 DEF LastIsLiquidate
    <3>2. CASE Len(toExec) > 1
      <4>1. /\ Len(toExec') = Len(toExec) - 1 /\ Len(toExec) \in Nat
            /\ \A i \in 1 .. Len(toExec) - 1 : toExec'[i] = toExec[i + 1]
        BY <2>1, Taken
      <4>2. toExec' # <<>> /\ toExec'[Len(toExec')] = toExec[Len(toExec)]
        BY <3>2, <4>1
      <4> QED BY <2>1, <2>4, <3>1, <4>2 DEF LastIsLiquidate
    <3>3. CASE Len(toExec) <= 1
      <4>1. toExec' = <<>> /\ Head(toExec) = "vault_liquidate"
        BY <2>1, <3>1, <3>3
      <4> QED BY <2>1, <2>4, <4>1 DEF LastIsLiquidate
    <3>4. Len(toExec) \in Nat
      BY <2>1, Taken
    <3> QED BY <3>2, <3>3, <3>4
  <2> QED BY <2>3, <2>4
<1>8. CASE RespawnExecution
  BY <1>8 DEF RespawnExecution
<1>9. CASE UNCHANGED protocolVars
  BY <1>9, LastKept DEF protocolVars, signalVars, linkVars, HoldAnnounced, NoReset
<1> QED BY <1>1, <1>2, <1>3, <1>4, <1>5, <1>6, <1>7, <1>8, <1>9 DEF ProtocolNext

-----------------------------------------------------------------------------
(* The page: freezes.                                                       *)

LEMMA NewsIndices ==
  ASSUME ProtocolTypeOK, NEW i \in FreezeNews
  PROVE  /\ i \in 1 .. Len(toGuardian) /\ Len(toGuardian) \in Nat
         /\ toGuardian[i] \in {"freeze", "thaw"}
<1>1. toGuardian \in Seq(PageMessages) /\ i \in 1 .. Len(toGuardian)
  BY DEF ProtocolTypeOK, FreezeNews
<1>2. toGuardian[i] \in PageMessages /\ Len(toGuardian) \in Nat
  BY <1>1
<1> QED BY <1>1, <1>2 DEF FreezeNews, PageMessages

(* The page tells the guardian what it now believes.                         *)
LEMMA PageTells ==
  ASSUME ProtocolTypeOK, NEW message \in {"freeze", "thaw"},
         toGuardian' = Append(toGuardian, message),
         message = "freeze" <=> frozen'
  PROVE  FreezeInv'
<1> DEFINE n == Len(toGuardian) + 1
<1>1. toGuardian \in Seq(PageMessages) /\ message \in PageMessages
  BY DEF ProtocolTypeOK, PageMessages
<1>2. /\ n \in Nat \ {0} /\ Len(toGuardian') = n
      /\ toGuardian'[n] = message
  BY <1>1, Posted
<1>3. n \in FreezeNews'
  BY <1>2 DEF FreezeNews
<1>4. FreezeAgrees'
  BY <1>3 DEF FreezeAgrees
<1>5. ASSUME NEW i \in FreezeNews', \A j \in FreezeNews' : j <= i
      PROVE  toGuardian'[i] = "freeze" <=> frozen'
  <2>1. i \in 1 .. n /\ n <= i
    BY <1>2, <1>3, <1>5 DEF FreezeNews
  <2>2. i = n
    BY <1>2, <2>1
  <2> QED BY <1>2, <2>2
<1> QED BY <1>4, <1>5 DEF FreezeInv, NewsMatches

(* A reset is no news.                                                       *)
LEMMA ResetTold ==
  ASSUME ProtocolTypeOK, Tell("reset"), FreezeInv, UNCHANGED <<frozen, signalVars>>
  PROVE  FreezeInv'
<1>1. /\ toGuardian \in Seq(PageMessages) /\ "reset" \in PageMessages
      /\ toGuardian' = Append(toGuardian, "reset")
  BY DEF ProtocolTypeOK, PageMessages, Tell
<1>2. /\ Len(toGuardian) \in Nat /\ Len(toGuardian') = Len(toGuardian) + 1
      /\ toGuardian'[Len(toGuardian) + 1] = "reset"
      /\ \A i \in 1 .. Len(toGuardian) : toGuardian'[i] = toGuardian[i]
  BY <1>1, Posted
<1>3. FreezeNews' = FreezeNews
  BY <1>2 DEF FreezeNews
<1>4. \A i \in FreezeNews : toGuardian'[i] = toGuardian[i]
  BY <1>2 DEF FreezeNews
<1>5. NewsMatches'
  BY <1>3, <1>4 DEF FreezeInv, NewsMatches
<1>6. FreezeAgrees'
  BY <1>3 DEF FreezeInv, FreezeAgrees, ThawSent, signalVars
<1> QED BY <1>5, <1>6 DEF FreezeInv

(* What concerns the vault alone does not concern the freeze.                *)
LEMMA FreezeUntouched ==
  ASSUME FreezeInv, UNCHANGED <<toGuardian, frozen, freezing>>,
         ThawSent => ThawSent'
  PROVE  FreezeInv'
<1>1. FreezeNews' = FreezeNews
  BY DEF FreezeNews
<1>2. NewsMatches'
  BY <1>1 DEF FreezeInv, NewsMatches
<1>3. FreezeAgrees'
  BY <1>1 DEF FreezeInv, FreezeAgrees
<1> QED BY <1>2, <1>3 DEF FreezeInv

(* The guardian hears of a reset, or of what the page believed when it sent  *)
(* the message; if this was the last news, it now believes what the page     *)
(* does.                                                                     *)
LEMMA GuardianHears ==
  ASSUME ProtocolTypeOK, FreezeInv, toGuardian # <<>>, toGuardian' = Tail(toGuardian),
         UNCHANGED frozen, ThawSent => ThawSent',
         Head(toGuardian) = "reset" => UNCHANGED freezing,
         Head(toGuardian) = "freeze" => freezing' = TRUE,
         Head(toGuardian) = "thaw" => freezing' = FALSE
  PROVE  FreezeInv'
<1>1. toGuardian \in Seq(PageMessages)
  BY DEF ProtocolTypeOK
<1>2. /\ Len(toGuardian) \in Nat \ {0} /\ Len(toGuardian') = Len(toGuardian) - 1
      /\ Head(toGuardian) = toGuardian[1]
      /\ \A i \in 1 .. Len(toGuardian) - 1 : toGuardian'[i] = toGuardian[i + 1]
  BY <1>1, Taken
<1>3. ASSUME NEW i \in FreezeNews'
      PROVE  i + 1 \in FreezeNews /\ toGuardian'[i] = toGuardian[i + 1]
  BY <1>2, <1>3 DEF FreezeNews
<1>4. ASSUME NEW i \in FreezeNews
      PROVE  i = 1 \/ i - 1 \in FreezeNews'
  <2>1. i \in 1 .. Len(toGuardian) /\ toGuardian[i] # "reset"
    BY <1>4 DEF FreezeNews
  <2>2. CASE i > 1
    <3>1. i - 1 \in 1 .. Len(toGuardian) - 1 /\ (i - 1) + 1 = i
      BY <1>2, <2>1, <2>2
    <3>2. toGuardian'[i - 1] # "reset"
      BY <1>2, <2>1, <3>1
    <3> QED BY <1>2, <3>1, <3>2 DEF FreezeNews
  <2> QED BY <2>1, <2>2
<1>5. NewsMatches'
  <2>1. ASSUME NEW i \in FreezeNews', \A j \in FreezeNews' : j <= i
        PROVE  toGuardian'[i] = "freeze" <=> frozen'
    <3>1. i \in Nat /\ i > 0
      BY DEF FreezeNews
    <3>2. ASSUME NEW j \in FreezeNews PROVE j <= i + 1
      <4>1. j \in Nat
        BY NewsIndices
      <4>2. CASE j = 1
        BY <3>1, <4>2
      <4>3. CASE j - 1 \in FreezeNews'
        <5>1. j - 1 <= i
          BY <2>1, <4>3
        <5> QED BY <3>1, <4>1, <5>1
      <4> QED BY <1>4, <4>2, <4>3
    <3>3. toGuardian[i + 1] = "freeze" <=> frozen
      BY <1>3, <3>2 DEF FreezeInv, NewsMatches
    <3> QED BY <1>3, <3>3
  <2> QED BY <2>1 DEF NewsMatches
<1>6. FreezeAgrees'
  <2> SUFFICES ASSUME FreezeNews' = {}, ~ThawSent'
               PROVE  frozen' = freezing'
    BY DEF FreezeAgrees
  <2>1. \A i \in FreezeNews : i = 1
    BY <1>4
  <2>2. CASE Head(toGuardian) = "reset"
    <3>1. FreezeNews = {}
      BY <1>2, <2>1, <2>2 DEF FreezeNews
    <3> QED BY <2>2, <3>1 DEF FreezeInv, FreezeAgrees
  <2>3. CASE Head(toGuardian) # "reset"
    <3>1. 1 \in FreezeNews
      BY <1>2, <2>3 DEF FreezeNews
    <3>2. toGuardian[1] = "freeze" <=> frozen
      BY <2>1, <3>1 DEF FreezeInv, NewsMatches
    <3>3. toGuardian[1] \in {"freeze", "thaw"}
      BY <3>1, NewsIndices
    <3>4. freezing' = TRUE <=> frozen
      BY <1>2, <3>2, <3>3
    <3>5. freezing' \in BOOLEAN /\ frozen \in BOOLEAN
      BY <1>2, <3>3 DEF ProtocolTypeOK
    <3> QED BY <3>4, <3>5
  <2> QED BY <2>2, <2>3
<1> QED BY <1>5, <1>6 DEF FreezeInv

(* A message posted by the guardian leaves the thaws on their way there.     *)
LEMMA ThawPosted ==
  ASSUME ProtocolTypeOK, NEW message \in VaultMessages \cup {"thaw"}, Announce(message)
  PROVE  /\ ThawSent => ThawSent'
         /\ message = "thaw" => ThawSent'
<1>1. out \in Seq(VaultMessages \cup {"thaw"}) /\ out' = Append(out, message)
  BY DEF ProtocolTypeOK, Announce
<1>2. /\ Len(out) \in Nat /\ Len(out') = Len(out) + 1
      /\ out'[Len(out) + 1] = message
      /\ \A i \in 1 .. Len(out) : out'[i] = out[i]
  BY <1>1, Posted
<1> QED BY <1>2 DEF ThawSent

LEMMA NextAgrees ==
  ProtocolTypeOK /\ FreezeInv /\ [ProtocolNext]_protocolVars => FreezeInv'
<1> SUFFICES ASSUME ProtocolTypeOK, FreezeInv, [ProtocolNext]_protocolVars
             PROVE  FreezeInv'
  OBVIOUS
<1>1. /\ "vault_liquidate" \in VaultMessages \cup {"thaw"}
      /\ "vault_cleared" \in VaultMessages \cup {"thaw"}
  BY DEF VaultMessages
<1>2. CASE GuardianHolds
  <2>1. Announce("vault_liquidate") /\ UNCHANGED <<toGuardian, frozen, freezing>>
    BY <1>2 DEF GuardianHolds, Hold
  <2> QED BY <1>1, <2>1, ThawPosted, FreezeUntouched
<1>3. CASE GuardianActs
  <2>1. UNCHANGED <<toGuardian, frozen>>
    BY <1>3 DEF GuardianActs, linkVars
  <2>2. CASE Recover
    BY <1>1, <2>1, <2>2, ThawPosted, FreezeUntouched DEF Recover
  <2>3. CASE Abandon
    BY <2>1, <2>3, FreezeUntouched DEF Abandon, ThawSent
  <2>4. CASE Thaw
    <3>1. ThawSent'
      BY <2>4, ThawPosted DEF Thaw
    <3>2. FreezeNews' = FreezeNews
      BY <2>1 DEF FreezeNews
    <3>3. NewsMatches'
      BY <2>1, <3>2 DEF FreezeInv, NewsMatches
    <3> QED BY <3>1, <3>3 DEF FreezeInv, FreezeAgrees
  <2> QED BY <1>3, <2>2, <2>3, <2>4 DEF GuardianActs
<1>4. CASE GuardianReceives
  <2>1. toGuardian # <<>> /\ toGuardian' = Tail(toGuardian) /\ UNCHANGED frozen
    BY <1>4, Received
  <2>2. ThawSent => ThawSent'
    <3>1. CASE Recover
      BY <1>1, <3>1, ThawPosted DEF Recover
    <3>2. CASE UNCHANGED out
      BY <3>2 DEF ThawSent
    <3> QED BY <1>4, <3>1, <3>2, Received DEF FreezeUpdate, ThawUpdate, signalVars
  <2>3. Head(toGuardian) = "reset" => UNCHANGED freezing
    BY <1>4 DEF GuardianReceives, ResetState, Recover, signalVars
  <2>4. Head(toGuardian) = "freeze" => freezing' = TRUE
    BY <1>4 DEF GuardianReceives, FreezeUpdate
  <2>5. Head(toGuardian) = "thaw" => freezing' = FALSE
    BY <1>4 DEF GuardianReceives, ThawUpdate, signalVars, ProtocolTypeOK
  <2> QED BY <2>1, <2>2, <2>3, <2>4, <2>5, GuardianHears
<1>5. CASE RespawnGuardian
  <2>1. toGuardian' = <<IF frozen THEN "freeze" ELSE "thaw">> /\ UNCHANGED frozen
    BY <1>5 DEF RespawnGuardian
  <2>2. /\ Len(toGuardian') = 1
        /\ toGuardian'[1] = IF frozen THEN "freeze" ELSE "thaw"
    BY <2>1
  <2>3. FreezeNews' = {1}
    BY <2>2 DEF FreezeNews
  <2>4. toGuardian'[1] = "freeze" <=> frozen'
    BY <2>1, <2>2
  <2> QED BY <2>3, <2>4 DEF FreezeInv, NewsMatches, FreezeAgrees
<1>6. CASE Relay
  <2>1. CASE Head(out) \in VaultMessages /\ UNCHANGED <<toGuardian, frozen>>
    <3>1. /\ out \in Seq(VaultMessages \cup {"thaw"}) /\ out # <<>> /\ out' = Tail(out)
          /\ UNCHANGED freezing
      BY <1>6, Relayed DEF ProtocolTypeOK
    <3>2. /\ Len(out) \in Nat \ {0} /\ Len(out') = Len(out) - 1
          /\ Head(out) = out[1]
          /\ \A i \in 1 .. Len(out) - 1 : out'[i] = out[i + 1]
      BY <3>1, Taken
    <3>3. out[1] # "thaw"
      BY <2>1, <3>2 DEF VaultMessages
    <3>4. ASSUME ThawSent PROVE ThawSent'
      <4>1. PICK i \in 1 .. Len(out) : out[i] = "thaw"
        BY <3>4 DEF ThawSent
      <4>2. i - 1 \in 1 .. Len(out') /\ out'[i - 1] = "thaw"
        <5>1. i # 1
          BY <3>3, <4>1
        <5>2. i - 1 \in 1 .. Len(out) - 1 /\ (i - 1) + 1 = i
          BY <3>2, <5>1
        <5> QED BY <3>2, <4>1, <5>2
      <4> QED BY <4>2 DEF ThawSent
    <3> QED BY <2>1, <3>1, <3>4, FreezeUntouched
  <2>2. CASE frozen' = FALSE /\ toGuardian' = Append(toGuardian, "thaw")
    BY <2>2, PageTells
  <2> QED BY <1>6, <2>1, <2>2, Relayed
<1>7. CASE ResetGuardianState \/ FireClearSkies
  <2>1. Tell("reset") /\ UNCHANGED <<frozen, signalVars>>
    BY <1>7 DEF ResetGuardianState, FireClearSkies
  <2> QED BY <2>1, ResetTold
<1>8. CASE PageFreezes
  <2>1. toGuardian' = Append(toGuardian, "freeze") /\ frozen' = TRUE
    BY <1>8 DEF PageFreezes, Tell
  <2> QED BY <2>1, PageTells
<1>9. CASE AutoThaw
  <2>1. toGuardian' = Append(toGuardian, "thaw") /\ frozen' = FALSE
    BY <1>9 DEF AutoThaw, Tell
  <2> QED BY <2>1, PageTells
<1>10. CASE ExecutionReceives \/ RespawnExecution \/ UNCHANGED protocolVars
  <2>1. UNCHANGED <<toGuardian, frozen, freezing, out>>
    BY <1>10 DEF ExecutionReceives, RespawnExecution, protocolVars, signalVars, linkVars
  <2> QED BY <2>1, FreezeUntouched DEF ThawSent
<1> QED BY <1>2, <1>3, <1>4, <1>5, <1>6, <1>7, <1>8, <1>9, <1>10 DEF ProtocolNext

LEMMA ProtocolInitCorrect == ProtocolInit => ProtocolInv
<1> SUFFICES ASSUME ProtocolInit
             PROVE  ProtocolInv
  OBVIOUS
<1>1. holding = FALSE /\ freezing = FALSE /\ frozen = FALSE /\ toGuardian = <<>>
  BY DEF ProtocolInit, SignalsInit
<1>2. FreezeNews = {}
  BY <1>1 DEF FreezeNews
<1> QED BY <1>1, <1>2, ProtocolInitTyped
       DEF ProtocolInv, HoldAnnounced, FreezeInv, NewsMatches, FreezeAgrees

THEOREM ProtocolInvariant == ProtocolSpec => []ProtocolInv
<1>1. ProtocolInv /\ [ProtocolNext]_protocolVars => ProtocolInv'
  BY ProtocolNextTyped, NextAnnounced, NextAgrees DEF ProtocolInv
<1> QED BY <1>1, ProtocolInitCorrect, PTL DEF ProtocolSpec

-----------------------------------------------------------------------------
(* The page: theorems.                                                      *)

(* Every variable of the three parties keeps its type.                       *)
THEOREM ProtocolTypeCorrect == ProtocolSpec => []ProtocolTypeOK
<1>1. ProtocolInv => ProtocolTypeOK
  BY DEF ProtocolInv
<1> QED BY <1>1, ProtocolInvariant, PTL

(* A hold of the guardian reaches the execution worker after every message   *)
(* that could undo it.                                                       *)
THEOREM HoldAnnouncedCorrect == ProtocolSpec => []HoldAnnounced
<1>1. ProtocolInv => HoldAnnounced
  BY DEF ProtocolInv
<1> QED BY <1>1, ProtocolInvariant, PTL

(* Page and guardian agree on the freeze when no news of it is under way,    *)
(* however their freezes and thaws crossed.                                  *)
THEOREM FreezeAgreesCorrect == ProtocolSpec => []FreezeAgrees
<1>1. ProtocolInv => FreezeAgrees
  BY DEF ProtocolInv, FreezeInv
<1> QED BY <1>1, ProtocolInvariant, PTL

-----------------------------------------------------------------------------
(* The hub: what is inductive.                                              *)

Words == {"freeze", "thaw"}

(* The freeze of a worker whose copy is c, after n messages of its inbox s.   *)
Heard(c, s, n) ==
  \/ c /\ \A j \in 1..n : s[j] \notin Words
  \/ \E i \in 1..n : /\ s[i] = "freeze"
                     /\ \A j \in i + 1..n : s[j] \notin Words

Ordered(c, s) ==
  \A i \in 1..Len(s) :
    /\ s[i] = "late intent" => Heard(c, s, i - 1)
    /\ s[i] = "intent" => ~Heard(c, s, i - 1)

Finally(w) == Heard(copy[w], inbox[w], Len(inbox[w]))

EchoInv ==
  \/ Finally("echoforge") <=> phic.frozen
  \/ Finally("echoforge") /\ AlertSent

ExecInv ==
  /\ ~up => inbox["execution"] = <<>>
  /\ up => /\ Finally("execution") <=> phic.frozen
           /\ Ordered(copy["execution"], inbox["execution"])

HoldInv == hold => phic.frozen /\ phic.manual

NoIntent ==
  \A i \in 1..Len(inbox["execution"]) :
    inbox["execution"][i] \notin {"intent", "late intent"}

ObserveInv == ~armed => phic.disabled /\ ~asked /\ NoIntent

IInv == TypeOK /\ EchoInv /\ ExecInv /\ HoldInv /\ ObserveInv

-----------------------------------------------------------------------------
(* The hub: inboxes.                                                        *)

LEMMA EmptyInbox == <<>> \in Seq(Message)
OBVIOUS

LEMMA NothingHeard ==
  ASSUME NEW c \in BOOLEAN, NEW s
  PROVE  Heard(c, s, 0) <=> c
BY DEF Heard

(* What has been heard depends only on what has been read.                   *)
LEMMA HeardSame ==
  ASSUME NEW c, NEW s, NEW t, NEW n \in Nat, \A j \in 1..n : t[j] = s[j]
  PROVE  Heard(c, t, n) <=> Heard(c, s, n)
<1>1. \A i \in 1..n : \A j \in i + 1..n : j \in 1..n
  OBVIOUS
<1> QED BY <1>1 DEF Heard

LEMMA HeardPosted ==
  ASSUME NEW c \in BOOLEAN, NEW s \in Seq(Message), NEW e \in Message
  PROVE  LET n == Len(s) + 1 IN
         /\ e = "freeze" => Heard(c, Append(s, e), n)
         /\ e = "thaw" => ~Heard(c, Append(s, e), n)
         /\ e \notin Words => (Heard(c, Append(s, e), n) <=> Heard(c, s, Len(s)))
         /\ \A k \in 0..Len(s) : Heard(c, Append(s, e), k) <=> Heard(c, s, k)
<1> DEFINE t == Append(s, e)
           n == Len(s) + 1
<1>1. /\ Len(s) \in Nat /\ t[n] = e /\ \A i \in 1..Len(s) : t[i] = s[i]
  BY Posted
<1> HIDE DEF t
<1>2. n \in 1..n /\ \A j \in n + 1..n : FALSE
  BY <1>1
<1>3. e = "freeze" => Heard(c, t, n)
  BY <1>1, <1>2 DEF Heard
<1>4. e = "thaw" => ~Heard(c, t, n)
  <2> SUFFICES ASSUME e = "thaw", Heard(c, t, n)
               PROVE  FALSE
    OBVIOUS
  <2>1. PICK i \in 1..n : t[i] = "freeze" /\ \A j \in i + 1..n : t[j] \notin Words
    BY <1>1, <1>2 DEF Heard, Words
  <2>2. i # n
    BY <1>1, <2>1
  <2>3. n \in i + 1..n
    BY <1>1, <2>1, <2>2
  <2> QED BY <1>1, <2>1, <2>3 DEF Words
<1>5. ASSUME e \notin Words PROVE Heard(c, t, n) <=> Heard(c, t, Len(s))
  <2>1. \A j \in 1..n : j \in 1..Len(s) \/ j = n
    BY <1>1
  <2>2. \A i \in 1..Len(s) : i \in 1..n /\ \A j \in i + 1..n : j \in i + 1..Len(s) \/ j = n
    BY <1>1
  <2>3. \A i \in 1..n : \A j \in i + 1..Len(s) : j \in i + 1..n
    BY <1>1
  <2>4. t[n] \notin Words
    BY <1>1, <1>5
  <2>5. ASSUME Heard(c, t, n) PROVE Heard(c, t, Len(s))
    <3>1. CASE c /\ \A j \in 1..n : t[j] \notin Words
      BY <2>2, <3>1 DEF Heard
    <3>2. CASE \E i \in 1..n : t[i] = "freeze" /\ \A j \in i + 1..n : t[j] \notin Words
      <4>1. PICK i \in 1..n : t[i] = "freeze" /\ \A j \in i + 1..n : t[j] \notin Words
        BY <3>2
      <4>2. i \in 1..Len(s)
        BY <2>1, <2>4, <4>1 DEF Words
      <4> QED BY <2>3, <4>1, <4>2 DEF Heard
    <3> QED BY <2>5, <3>1, <3>2 DEF Heard
  <2>6. ASSUME Heard(c, t, Len(s)) PROVE Heard(c, t, n)
    <3>1. CASE c /\ \A j \in 1..Len(s) : t[j] \notin Words
      BY <2>1, <2>4, <3>1 DEF Heard
    <3>2. CASE \E i \in 1..Len(s) : /\ t[i] = "freeze"
                                    /\ \A j \in i + 1..Len(s) : t[j] \notin Words
      <4>1. PICK i \in 1..Len(s) : /\ t[i] = "freeze"
                                   /\ \A j \in i + 1..Len(s) : t[j] \notin Words
        BY <3>2
      <4> QED BY <2>2, <2>4, <4>1 DEF Heard
    <3> QED BY <2>6, <3>1, <3>2 DEF Heard
  <2> QED BY <2>5, <2>6
<1>6. \A k \in 0..Len(s) : Heard(c, t, k) <=> Heard(c, s, k)
  <2>1. ASSUME NEW k \in 0..Len(s) PROVE Heard(c, t, k) <=> Heard(c, s, k)
    <3>1. k \in Nat /\ \A j \in 1..k : t[j] = s[j]
      BY <1>1
    <3> QED BY <3>1, HeardSame
  <2> QED BY <2>1
<1>7. Len(s) \in 0..Len(s)
  BY <1>1
<1> QED BY <1>3, <1>4, <1>5, <1>6, <1>7 DEF t

LEMMA OrderedPosted ==
  ASSUME NEW c \in BOOLEAN, NEW s \in Seq(Message), NEW e \in Message
  PROVE  /\ Ordered(c, s)
         /\ e = "late intent" => Heard(c, s, Len(s))
         /\ e = "intent" => ~Heard(c, s, Len(s))
         => Ordered(c, Append(s, e))
<1>0. SUFFICES ASSUME Ordered(c, s),
                      e = "late intent" => Heard(c, s, Len(s)),
                      e = "intent" => ~Heard(c, s, Len(s))
               PROVE  Ordered(c, Append(s, e))
  OBVIOUS
<1>n. PICK n \in Nat : n = Len(s)
  BY Posted
<1>1. PICK t : t = Append(s, e)
  OBVIOUS
<1>2. Len(t) = n + 1 /\ t[n + 1] = e /\ \A i \in 1..n : t[i] = s[i]
  BY <1>n, <1>1, Posted
<1>3. \A k \in 0..n : Heard(c, t, k) <=> Heard(c, s, k)
  BY <1>n, <1>1, HeardPosted
<1>4. /\ e = "late intent" => Heard(c, s, n)
      /\ e = "intent" => ~Heard(c, s, n)
  BY <1>0, <1>n, <1>1
<1>5. \A i \in 1..n : /\ s[i] = "late intent" => Heard(c, s, i - 1)
                      /\ s[i] = "intent" => ~Heard(c, s, i - 1)
  BY <1>0, <1>n, <1>1 DEF Ordered
<1>6. ASSUME NEW i \in 1..n + 1
      PROVE  /\ t[i] = "late intent" => Heard(c, t, i - 1)
             /\ t[i] = "intent" => ~Heard(c, t, i - 1)
  <2>1. i - 1 \in 0..n
    OBVIOUS
  <2>2. CASE i = n + 1
    <3>1. i - 1 = n
      BY <2>2
    <3> QED BY <1>2, <1>3, <1>4, <2>1, <2>2, <3>1
  <2>3. CASE i # n + 1
    <3>1. i \in 1..n
      BY <2>3
    <3> QED BY <1>2, <1>3, <1>5, <2>1, <3>1
  <2> QED BY <2>2, <2>3
<1>7. Ordered(c, t)
  BY <1>2, <1>6 DEF Ordered
<1> QED BY <1>n, <1>1, <1>7

(* A worker that has read one message has heard the rest when it has read    *)
(* one fewer.                                                                *)
LEMMA HeardTaken ==
  ASSUME NEW c \in BOOLEAN, NEW s \in Seq(Message), s # <<>>, NEW d \in BOOLEAN,
         d <=> IF Head(s) \in Words THEN Head(s) = "freeze" ELSE c,
         NEW k \in 0..Len(s) - 1
  PROVE  Heard(d, Tail(s), k) <=> Heard(c, s, k + 1)
<1> SUFFICES ASSUME NEW t, t = Tail(s)
             PROVE  Heard(d, t, k) <=> Heard(c, s, k + 1)
  OBVIOUS
<1>1. /\ Len(s) \in Nat \ {0} /\ Head(s) = s[1]
      /\ \A i \in 1..Len(s) - 1 : t[i] = s[i + 1]
  BY Taken
<1>2. k \in Nat /\ \A i \in 1..k : t[i] = s[i + 1] /\ i + 1 \in 1..k + 1
  BY <1>1
<1>3. \A i \in 1..k + 1 : i = 1 \/ (i - 1 \in 1..k /\ (i - 1) + 1 = i)
  BY <1>2
<1>4. 1 \in 1..k + 1
  BY <1>2
<1>5. ASSUME Heard(d, t, k) PROVE Heard(c, s, k + 1)
  <2>1. CASE d /\ \A j \in 1..k : t[j] \notin Words
    <3>1. ASSUME NEW j \in 2..k + 1 PROVE s[j] \notin Words
      <4>1. j - 1 \in 1..k /\ (j - 1) + 1 = j
        BY <1>2
      <4> QED BY <1>2, <2>1, <4>1
    <3>2. CASE Head(s) \in Words
      <4>1. s[1] = "freeze" /\ \A j \in 1 + 1..k + 1 : s[j] \notin Words
        BY <1>1, <2>1, <3>1, <3>2
      <4> QED BY <1>4, <4>1 DEF Heard
    <3>3. CASE Head(s) \notin Words
      <4>1. \A j \in 1..k + 1 : s[j] \notin Words
        BY <1>1, <1>2, <3>1, <3>3
      <4> QED BY <2>1, <3>3, <4>1 DEF Heard
    <3> QED BY <3>2, <3>3
  <2>2. CASE \E i \in 1..k : t[i] = "freeze" /\ \A j \in i + 1..k : t[j] \notin Words
    <3>1. PICK i \in 1..k : t[i] = "freeze" /\ \A j \in i + 1..k : t[j] \notin Words
      BY <2>2
    <3>2. i + 1 \in 1..k + 1 /\ s[i + 1] = "freeze"
      BY <1>2, <3>1
    <3>3. ASSUME NEW j \in (i + 1) + 1..k + 1 PROVE s[j] \notin Words
      <4>1. j - 1 \in i + 1..k /\ j - 1 \in 1..k /\ (j - 1) + 1 = j
        BY <1>2
      <4> QED BY <1>2, <3>1, <4>1
    <3> QED BY <3>2, <3>3 DEF Heard
  <2> QED BY <1>5, <2>1, <2>2 DEF Heard
<1>6. ASSUME Heard(c, s, k + 1) PROVE Heard(d, t, k)
  <2>1. CASE c /\ \A j \in 1..k + 1 : s[j] \notin Words
    <3>1. Head(s) \notin Words /\ \A j \in 1..k : t[j] \notin Words
      BY <1>1, <1>2, <1>4, <2>1
    <3> QED BY <2>1, <3>1 DEF Heard
  <2>2. CASE \E i \in 1..k + 1 : /\ s[i] = "freeze"
                                 /\ \A j \in i + 1..k + 1 : s[j] \notin Words
    <3>1. PICK i \in 1..k + 1 : /\ s[i] = "freeze"
                                /\ \A j \in i + 1..k + 1 : s[j] \notin Words
      BY <2>2
    <3>2. CASE i = 1
      <4>1. d
        BY <1>1, <3>1, <3>2 DEF Words
      <4>2. \A j \in 1..k : t[j] \notin Words
        <5>1. \A j \in 1..k : j + 1 \in i + 1..k + 1
          BY <1>2, <3>2
        <5> QED BY <1>2, <3>1, <5>1
      <4> QED BY <4>1, <4>2 DEF Heard
    <3>3. CASE i # 1
      <4>1. i - 1 \in 1..k /\ t[i - 1] = "freeze"
        <5>1. i - 1 \in 1..k /\ (i - 1) + 1 = i
          BY <1>3, <3>3
        <5> QED BY <1>2, <3>1, <5>1
      <4>2. ASSUME NEW j \in (i - 1) + 1..k PROVE t[j] \notin Words
        <5>1. j \in 1..k /\ j + 1 \in i + 1..k + 1
          BY <1>2, <4>1
        <5> QED BY <1>2, <3>1, <5>1
      <4> QED BY <4>1, <4>2 DEF Heard
    <3> QED BY <3>2, <3>3
  <2> QED BY <1>6, <2>1, <2>2 DEF Heard
<1> QED BY <1>5, <1>6

LEMMA OrderedTaken ==
  ASSUME NEW c \in BOOLEAN, NEW s \in Seq(Message), s # <<>>, NEW d \in BOOLEAN,
         d <=> IF Head(s) \in Words THEN Head(s) = "freeze" ELSE c,
         Ordered(c, s)
  PROVE  Ordered(d, Tail(s))
<1> DEFINE t == Tail(s)
<1>1. /\ Len(s) \in Nat \ {0} /\ Len(t) = Len(s) - 1
      /\ \A i \in 1..Len(s) - 1 : t[i] = s[i + 1]
  BY Taken
<1>2. \A k \in 0..Len(s) - 1 : Heard(d, t, k) <=> Heard(c, s, k + 1)
  BY HeardTaken
<1> HIDE DEF t
<1>3. ASSUME NEW i \in 1..Len(t)
      PROVE  /\ t[i] = "late intent" => Heard(d, t, i - 1)
             /\ t[i] = "intent" => ~Heard(d, t, i - 1)
  <2>1. /\ i + 1 \in 1..Len(s) /\ t[i] = s[i + 1]
        /\ i - 1 \in 0..Len(s) - 1 /\ (i - 1) + 1 = (i + 1) - 1
    BY <1>1
  <2> QED BY <1>2, <2>1 DEF Ordered
<1> QED BY <1>3 DEF Ordered, t

-----------------------------------------------------------------------------
(* The hub: types.                                                          *)

LEMMA Members ==
  /\ "echoforge" \in Worker /\ "execution" \in Worker
  /\ "freeze" \in Message /\ "thaw" \in Message /\ "cashout" \in Message
  /\ "intent" \in Message /\ "late intent" \in Message
  /\ \A f : Word(f) \in Message /\ Word(f) \in Words
BY DEF Worker, Message, Word, Words

LEMMA InboxTypes ==
  ASSUME TypeOK
  PROVE  /\ inbox \in [Worker -> Seq(Message)]
         /\ \A w \in Worker : inbox[w] \in Seq(Message) /\ copy[w] \in BOOLEAN
         /\ phic.frozen \in BOOLEAN /\ phic.manual \in BOOLEAN /\ phic.disabled \in BOOLEAN
         /\ saved.frozen \in BOOLEAN /\ saved.manual \in BOOLEAN
         /\ up \in BOOLEAN /\ hold \in BOOLEAN /\ armed \in BOOLEAN /\ asked \in BOOLEAN
BY DEF TypeOK, Phic

LEMMA BroadcastType ==
  ASSUME TypeOK, NEW f, Broadcast(f)
  PROVE  inbox' \in [Worker -> Seq(Message)]
<1>1. \A w \in Worker : Append(inbox[w], Word(f)) \in Seq(Message) /\ inbox[w] \in Seq(Message)
  BY Members, InboxTypes, Posted
<1> QED BY <1>1 DEF Broadcast

(* Cash-out posts two messages to the execution worker.                      *)
LEMMA CashoutPosts ==
  ASSUME TypeOK, Cashout
  PROVE  LET s == inbox["execution"] IN
         /\ inbox' \in [Worker -> Seq(Message)]
         /\ inbox'["echoforge"] = Append(inbox["echoforge"], "freeze")
         /\ inbox'["execution"] = IF up THEN Append(Append(s, "freeze"), "cashout") ELSE s
<1> DEFINE q == inbox["echoforge"]
           s == inbox["execution"]
<1>1. q \in Seq(Message) /\ s \in Seq(Message) /\ Worker = {"echoforge", "execution"}
  BY InboxTypes, Members DEF Worker
<1>2. inbox' = [w \in Worker |->
                 IF ~Open(w) THEN inbox[w]
                 ELSE IF w = "execution" THEN Append(Append(inbox[w], "freeze"), "cashout")
                 ELSE Append(inbox[w], "freeze")]
  BY DEF Cashout, Word
<1> HIDE DEF q, s
<1>5. Append(q, "freeze") \in Seq(Message)
  BY <1>1, Members, Posted
<1>6. Append(Append(s, "freeze"), "cashout") \in Seq(Message)
  BY <1>1, Members, Posted
<1>7. inbox'["echoforge"] = Append(q, "freeze")
  BY <1>1, <1>2 DEF Open, q
<1>8. inbox'["execution"] = IF up THEN Append(Append(s, "freeze"), "cashout") ELSE s
  BY <1>1, <1>2 DEF Open, s
<1>9. inbox' \in [Worker -> Seq(Message)]
  <2>1. \A w \in Worker : inbox'[w] \in Seq(Message)
    BY <1>1, <1>5, <1>6, <1>7, <1>8
  <2> QED BY <1>2, <2>1
<1> QED BY <1>7, <1>8, <1>9 DEF q, s

LEMMA HandOverPosts ==
  ASSUME TypeOK, HandOver
  PROVE  LET s == inbox["execution"]
             e == IF phic.frozen THEN "late intent" ELSE "intent"
         IN  /\ inbox' \in [Worker -> Seq(Message)]
             /\ inbox'["echoforge"] = inbox["echoforge"]
             /\ inbox'["execution"] = IF up THEN Append(s, e) ELSE s
<1> DEFINE s == inbox["execution"]
           e == IF phic.frozen THEN "late intent" ELSE "intent"
<1>1. e \in Message /\ s \in Seq(Message)
  BY Members, InboxTypes
<1>2. inbox' = IF up THEN [inbox EXCEPT !["execution"] = Append(s, e)] ELSE inbox
  BY DEF HandOver, Post, Open
<1> HIDE DEF e
<1>3. Append(s, e) \in Seq(Message)
  BY <1>1, Posted
<1>4. inbox' \in [Worker -> Seq(Message)]
  BY <1>2, <1>3, InboxTypes
<1>5. inbox'["echoforge"] = inbox["echoforge"]
  BY <1>2, Members, InboxTypes
<1>6. inbox'["execution"] = IF up THEN Append(s, e) ELSE s
  BY <1>2, Members, InboxTypes
<1> QED BY <1>4, <1>5, <1>6 DEF e

LEMMA TakePosts ==
  ASSUME TypeOK, NEW w \in Worker, Take(w)
  PROVE  /\ inbox' \in [Worker -> Seq(Message)]
         /\ copy' \in [Worker -> BOOLEAN]
         /\ inbox[w] # <<>> /\ inbox'[w] = Tail(inbox[w])
         /\ copy'[w] <=> IF Head(inbox[w]) \in Words THEN Head(inbox[w]) = "freeze"
                         ELSE copy[w]
         /\ \A v \in Worker \ {w} : inbox'[v] = inbox[v] /\ copy'[v] = copy[v]
<1>1. inbox[w] # <<>> /\ Tail(inbox[w]) \in Seq(Message)
  BY InboxTypes, Taken DEF Take
<1>2. inbox' = [inbox EXCEPT ![w] = Tail(@)]
  BY DEF Take
<1>3. copy' = IF Head(inbox[w]) \in Words
              THEN [copy EXCEPT ![w] = (Head(inbox[w]) = "freeze")] ELSE copy
  BY DEF Take, Words
<1>4. copy \in [Worker -> BOOLEAN] /\ inbox \in [Worker -> Seq(Message)]
  BY DEF TypeOK
<1>5. inbox' \in [Worker -> Seq(Message)]
  BY <1>1, <1>2, <1>4
<1>6. copy' \in [Worker -> BOOLEAN]
  BY <1>3, <1>4
<1>7. copy'[w] <=> IF Head(inbox[w]) \in Words THEN Head(inbox[w]) = "freeze" ELSE copy[w]
  BY <1>3, <1>4
<1>8. \A v \in Worker \ {w} : inbox'[v] = inbox[v] /\ copy'[v] = copy[v]
  BY <1>2, <1>3, <1>4
<1> QED BY <1>1, <1>2, <1>4, <1>5, <1>6, <1>7, <1>8

LEMMA OutboxTypes ==
  ASSUME TypeOK
  PROVE  /\ outbox \in Seq({"intent", "alert"})
         /\ Append(outbox, "intent") \in Seq({"intent", "alert"})
         /\ Append(outbox, "alert") \in Seq({"intent", "alert"})
         /\ outbox # <<>> => Tail(outbox) \in Seq({"intent", "alert"})
BY DEF TypeOK

Configs == PostConfig \/ SocketConfig \/ HostConfig \/ RemoteConfig

(* Whichever channel a config comes by, the hub takes two fields from it and *)
(* sends its word to the workers, unless the field says what the hub did.    *)
LEMMA ConfigDoes ==
  ASSUME TypeOK, Configs
  PROVE  \E f, d \in BOOLEAN :
           /\ Merge(f, d)
           /\ SendFields(f)
           /\ saved' \in {saved, [frozen |-> phic'.frozen, manual |-> phic'.manual]}
BY DEF Configs, PostConfig, SocketConfig, HostConfig, RemoteConfig, SendFields, Keep

LEMMA MergeDoes ==
  ASSUME TypeOK, NEW f \in BOOLEAN, NEW d \in BOOLEAN,
         Merge(f, d)
  PROVE  /\ phic' \in Phic
         /\ phic'.frozen = f /\ phic'.disabled = d
         /\ phic'.manual = phic.manual
         /\ armed' = (armed \/ ~d) /\ hold' = (hold /\ f)
         /\ UNCHANGED <<calm, copy, outbox, asked, up, low, updates>>
BY DEF Merge, TypeOK, Phic, vpinVars

LEMMA ApplyFreezeDoes ==
  ASSUME TypeOK, NEW byHand \in BOOLEAN, ApplyFreeze(byHand)
  PROVE  /\ phic' \in Phic
         /\ phic'.frozen = TRUE /\ phic'.disabled = phic.disabled
         /\ phic'.manual = (phic.manual \/ byHand)
         /\ Broadcast(TRUE)
BY DEF ApplyFreeze, TypeOK, Phic

LEMMA ThawDoes ==
  ASSUME TypeOK, NEW isCalm \in BOOLEAN, CheckAutoThaw(isCalm)
  PROVE  /\ calm' \in Clocks
         /\ \/ UNCHANGED <<phic, inbox>>
            \/ /\ phic' \in Phic
               /\ phic'.frozen = FALSE /\ phic'.disabled = phic.disabled
               /\ phic'.manual = phic.manual /\ phic.manual = FALSE
               /\ Broadcast(FALSE)
BY DEF CheckAutoThaw, TypeOK, Phic, Clocks

(* What waits of the nociceptor keeps its type. *)
LEMMA VpinTypes ==
  ASSUME TypeOK
  PROVE  /\ updates # <<>> => Head(updates) \in BOOLEAN /\ Tail(updates) \in Seq(BOOLEAN)
         /\ \A b \in BOOLEAN : Append(updates, b) \in Seq(BOOLEAN)
<1>1. updates \in Seq(BOOLEAN)
  BY DEF TypeOK
<1> HIDE DEF TypeOK
<1>2. updates # <<>> => Len(updates) > 0
  BY <1>1
<1> QED BY <1>1, <1>2

LEMMA NextTyped == TypeOK /\ [Next]_vars => TypeOK'
<1> SUFFICES ASSUME TypeOK, [Next]_vars
             PROVE  TypeOK'
  OBVIOUS
<1>1. CASE Restart
  <2>1. /\ phic' = [frozen |-> saved.frozen, manual |-> saved.manual, disabled |-> TRUE]
        /\ copy' = [w \in Worker |-> saved.frozen]
        /\ inbox' = [w \in Worker |-> <<>>] /\ outbox' = <<>>
        /\ calm' = "off" /\ asked' = FALSE /\ up' = TRUE /\ low' = TRUE
        /\ updates' = <<>> /\ armed' = FALSE
        /\ hold' = (hold /\ saved.frozen /\ saved.manual) /\ saved' = saved
    BY <1>1 DEF Restart, Restored, Empty
  <2>2. /\ inbox' \in [Worker -> Seq(Message)] /\ outbox' \in Seq({"intent", "alert"})
        /\ updates' \in Seq(BOOLEAN)
    BY <2>1
  <2>3. phic' \in Phic /\ copy' \in [Worker -> BOOLEAN] /\ hold' \in BOOLEAN
    BY <2>1, InboxTypes DEF Phic
  <2>4. saved' \in [frozen : BOOLEAN, manual : BOOLEAN]
    BY <2>1 DEF TypeOK
  <2>5. /\ calm' \in Clocks /\ asked' \in BOOLEAN /\ up' \in BOOLEAN /\ low' \in BOOLEAN
        /\ armed' \in BOOLEAN
    BY <2>1 DEF Clocks
  <2> QED BY <2>2, <2>3, <2>4, <2>5 DEF TypeOK
<1>2. CASE Save
  BY <1>2 DEF Save, TypeOK, Phic, workerVars, vpinVars
<1>3. CASE Configs
  <2>1. PICK f \in BOOLEAN, d \in BOOLEAN :
          /\ Merge(f, d)
          /\ SendFields(f)
          /\ saved' \in {saved, [frozen |-> phic'.frozen, manual |-> phic'.manual]}
    BY <1>3, ConfigDoes
  <2>2. inbox' \in [Worker -> Seq(Message)]
    BY <2>1, BroadcastType, InboxTypes DEF SendFields
  <2>3. saved' \in [frozen : BOOLEAN, manual : BOOLEAN]
    BY <2>1, MergeDoes DEF TypeOK, Phic
  <2> QED BY <2>1, <2>2, <2>3, MergeDoes DEF TypeOK
<1>4. CASE Freeze
  <2>1. ApplyFreeze(TRUE) /\ inbox' \in [Worker -> Seq(Message)]
    BY <1>4, ApplyFreezeDoes, BroadcastType DEF Freeze
  <2> QED BY <1>4, <2>1, ApplyFreezeDoes DEF Freeze, vpinVars, TypeOK
<1>5. CASE Cashout
  BY <1>5, CashoutPosts DEF Cashout, vpinVars, TypeOK, Phic
<1>6. CASE PostIntent
  BY <1>6, HandOverPosts DEF PostIntent, phicVars, vpinVars, TypeOK
<1>7. CASE HearVpin
  <2>1. /\ CheckAutoThaw(Head(updates)) /\ Head(updates) \in BOOLEAN
        /\ updates' = Tail(updates) /\ updates' \in Seq(BOOLEAN)
    BY <1>7, VpinTypes DEF HearVpin
  <2>2. inbox' \in [Worker -> Seq(Message)] /\ phic' \in Phic /\ calm' \in Clocks
    BY <2>1, ThawDoes, BroadcastType DEF TypeOK
  <2> QED BY <1>7, <2>1, <2>2 DEF HearVpin, TypeOK
<1>8. CASE TimePasses
  BY <1>8 DEF TimePasses, TypeOK, Clocks, workerVars, vpinVars
<1>9. CASE EchoReceives \/ ExecReceives
  BY <1>9, TakePosts, Members DEF EchoReceives, ExecReceives, phicVars, vpinVars, TypeOK
<1>10. CASE EchoFires
  BY <1>10, OutboxTypes DEF EchoFires, phicVars, vpinVars, TypeOK
<1>11. CASE Drawdown
  <2>1. copy' \in [Worker -> BOOLEAN]
    BY <1>11 DEF Drawdown, TypeOK
  <2> QED BY <1>11, <2>1, OutboxTypes DEF Drawdown, phicVars, vpinVars, TypeOK
<1>12. CASE EchoReports
  <2>1. /\ \/ UNCHANGED <<phic, inbox>>
           \/ ApplyFreeze(FALSE)
        /\ asked' \in BOOLEAN /\ outbox' = Tail(outbox) /\ outbox # <<>>
        /\ UNCHANGED <<saved, calm, copy, up, low, updates, armed, hold>>
    BY <1>12, InboxTypes DEF EchoReports, vpinVars
  <2>2. phic' \in Phic /\ inbox' \in [Worker -> Seq(Message)]
    BY <2>1, ApplyFreezeDoes, BroadcastType DEF TypeOK
  <2> QED BY <2>1, <2>2, OutboxTypes DEF TypeOK
<1>13. CASE GuardianJudges
  BY <1>13 DEF GuardianJudges, phicVars, vpinVars, TypeOK
<1>14. CASE GuardianAdjusts
  BY <1>14, BroadcastType DEF GuardianAdjusts, phicVars, vpinVars, TypeOK
<1>15. CASE FloorBreach
  <2>1. ApplyFreeze(FALSE) /\ inbox' \in [Worker -> Seq(Message)]
    BY <1>15, ApplyFreezeDoes, BroadcastType DEF FloorBreach
  <2> QED BY <1>15, <2>1, ApplyFreezeDoes DEF FloorBreach, vpinVars, TypeOK
<1>16. CASE ExecFails
  <2>1. inbox' \in [Worker -> Seq(Message)]
    BY <1>16, EmptyInbox DEF ExecFails, TypeOK
  <2> QED BY <1>16, <2>1 DEF ExecFails, phicVars, vpinVars, TypeOK
<1>17. CASE RestartExecution
  <2>1. copy' \in [Worker -> BOOLEAN]
    BY <1>17, InboxTypes DEF RestartExecution, TypeOK
  <2> QED BY <1>17, <2>1 DEF RestartExecution, phicVars, vpinVars, TypeOK
<1>18. CASE Measure
  <2>1. low' \in BOOLEAN /\ updates' \in Seq(BOOLEAN)
    BY <1>18, VpinTypes DEF Measure
  <2> QED BY <1>18, <2>1 DEF Measure, phicVars, workerVars, TypeOK
<1>19. CASE UNCHANGED vars
  BY <1>19 DEF vars, phicVars, workerVars, vpinVars, TypeOK
<1> QED BY <1>1, <1>2, <1>3, <1>4, <1>5, <1>6, <1>7, <1>8, <1>9, <1>10, <1>11, <1>12,
           <1>13, <1>14, <1>15, <1>16, <1>17, <1>18, <1>19 DEF Next, Configs

-----------------------------------------------------------------------------
(* The hub: what its workers hear.                                          *)

(* All that a worker reads when its inbox is empty.                          *)
LEMMA EmptyHeard ==
  ASSUME NEW c \in BOOLEAN
  PROVE  /\ Heard(c, <<>>, Len(<<>>)) <=> c
         /\ Ordered(c, <<>>)
<1>1. Len(<<>>) = 0
  OBVIOUS
<1> QED BY <1>1, NothingHeard DEF Ordered

(* A word posted last is the one a worker is left with.                      *)
LEMMA WordPosted ==
  ASSUME NEW c \in BOOLEAN, NEW s \in Seq(Message), NEW f \in BOOLEAN
  PROVE  /\ Heard(c, Append(s, Word(f)), Len(Append(s, Word(f)))) <=> f
         /\ Ordered(c, s) => Ordered(c, Append(s, Word(f)))
<1>1. Word(f) \in Message /\ Word(f) = IF f THEN "freeze" ELSE "thaw"
  BY Members DEF Word
<1>2. Len(Append(s, Word(f))) = Len(s) + 1
  BY <1>1, Posted
<1>3. Heard(c, Append(s, Word(f)), Len(s) + 1) <=> f
  BY <1>1, HeardPosted
<1>4. Ordered(c, s) => Ordered(c, Append(s, Word(f)))
  BY <1>1, OrderedPosted
<1> QED BY <1>2, <1>3, <1>4

(* The hub tells the workers what it holds.                                  *)
LEMMA Told ==
  ASSUME TypeOK, ExecInv, NEW f \in BOOLEAN, Broadcast(f), phic'.frozen = f,
         UNCHANGED <<copy, up>>
  PROVE  EchoInv' /\ ExecInv'
<1> DEFINE q == inbox["echoforge"]
           s == inbox["execution"]
<1>1. /\ q \in Seq(Message) /\ s \in Seq(Message)
      /\ copy["echoforge"] \in BOOLEAN /\ copy["execution"] \in BOOLEAN
  BY InboxTypes, Members
<1>2. inbox'["echoforge"] = Append(q, Word(f))
  BY Members DEF Broadcast, Open
<1>3. inbox'["execution"] = IF up THEN Append(s, Word(f)) ELSE s
  BY Members DEF Broadcast, Open
<1>4. EchoInv'
  BY <1>1, <1>2, WordPosted DEF EchoInv, Finally
<1>5. ExecInv'
  BY <1>1, <1>3, WordPosted DEF ExecInv, Finally
<1> QED BY <1>4, <1>5

(* The hub hands an intent over, under the word it gave last.                *)
LEMMA Handed ==
  ASSUME TypeOK, EchoInv, ExecInv, HandOver, UNCHANGED <<phic, copy, up, outbox>>
  PROVE  EchoInv' /\ ExecInv'
<1> DEFINE s == inbox["execution"]
           c == copy["execution"]
           e == IF phic.frozen THEN "late intent" ELSE "intent"
<1>1. s \in Seq(Message) /\ c \in BOOLEAN /\ e \in Message /\ e \notin Words
  BY InboxTypes, Members DEF Words
<1>2. /\ inbox'["echoforge"] = inbox["echoforge"]
      /\ inbox'["execution"] = IF up THEN Append(s, e) ELSE s
  BY HandOverPosts
<1>3. EchoInv'
  BY <1>2 DEF EchoInv, Finally, AlertSent
<1>4. CASE up
  <2>1. Heard(c, s, Len(s)) <=> phic.frozen
    BY <1>4 DEF ExecInv, Finally
  <2>2. Ordered(c, s)
    BY <1>4 DEF ExecInv
  <2>3. e = "late intent" => phic.frozen
    OBVIOUS
  <2>4. e = "intent" => ~phic.frozen
    OBVIOUS
  <2> HIDE DEF e
  <2>5. Ordered(c, Append(s, e))
    BY <1>1, <2>1, <2>2, <2>3, <2>4, OrderedPosted
  <2>6. Heard(c, Append(s, e), Len(Append(s, e))) <=> phic.frozen
    <3>1. Len(Append(s, e)) = Len(s) + 1
      BY <1>1, Posted
    <3>2. Heard(c, Append(s, e), Len(s) + 1) <=> Heard(c, s, Len(s))
      BY <1>1, HeardPosted
    <3> QED BY <2>1, <3>1, <3>2
  <2>7. up' = up /\ copy' = copy /\ phic' = phic
    OBVIOUS
  <2> QED BY <1>2, <1>3, <1>4, <2>5, <2>6, <2>7 DEF ExecInv, Finally
<1>5. CASE ~up
  BY <1>2, <1>3, <1>5 DEF ExecInv
<1> QED BY <1>4, <1>5

(* Cash-out: a freeze, and a message that is no word.                        *)
LEMMA CashedOut ==
  ASSUME TypeOK, ExecInv, Cashout
  PROVE  EchoInv' /\ ExecInv'
<1> DEFINE q == inbox["echoforge"]
           s == inbox["execution"]
           c == copy["execution"]
           t == Append(s, "freeze")
<1>1. /\ q \in Seq(Message) /\ s \in Seq(Message) /\ c \in BOOLEAN
      /\ copy["echoforge"] \in BOOLEAN
  BY InboxTypes, Members
<1>2. /\ inbox'["echoforge"] = Append(q, "freeze")
      /\ inbox'["execution"] = IF up THEN Append(t, "cashout") ELSE s
  BY CashoutPosts
<1>3. phic'.frozen = TRUE /\ copy' = copy /\ up' = up
  BY DEF Cashout, TypeOK, Phic
<1>4. Word(TRUE) = "freeze"
  BY DEF Word
<1>5. EchoInv'
  BY <1>1, <1>2, <1>3, <1>4, WordPosted DEF EchoInv, Finally
<1>6. CASE up
  <2>1. t \in Seq(Message)
    BY <1>1, Members, Posted
  <2>2. Heard(c, t, Len(t)) /\ Ordered(c, t)
    BY <1>1, <1>4, <1>6, WordPosted DEF ExecInv
  <2>3. "cashout" \in Message /\ "cashout" \notin Words
    BY Members DEF Words
  <2> HIDE DEF t
  <2>4. Heard(c, Append(t, "cashout"), Len(t) + 1)
    BY <1>1, <2>1, <2>2, <2>3, HeardPosted
  <2>5. Len(Append(t, "cashout")) = Len(t) + 1
    BY <2>1, <2>3, Posted
  <2>6. Ordered(c, Append(t, "cashout"))
    BY <1>1, <2>1, <2>2, <2>3, OrderedPosted
  <2> QED BY <1>2, <1>3, <1>5, <1>6, <2>4, <2>5, <2>6 DEF ExecInv, Finally
<1>7. CASE ~up
  BY <1>2, <1>3, <1>5, <1>7 DEF ExecInv
<1> QED BY <1>6, <1>7

(* A worker reads a message.                                                 *)
LEMMA FinallyRead ==
  ASSUME TypeOK, NEW w \in Worker, Take(w)
  PROVE  /\ Finally(w)' <=> Finally(w)
         /\ Ordered(copy[w], inbox[w]) => Ordered(copy'[w], inbox'[w])
<1> DEFINE s == inbox[w]
           c == copy[w]
<1>1. /\ s \in Seq(Message) /\ c \in BOOLEAN /\ s # <<>>
      /\ inbox'[w] = Tail(s) /\ copy'[w] \in BOOLEAN
      /\ copy'[w] <=> IF Head(s) \in Words THEN Head(s) = "freeze" ELSE c
  BY InboxTypes, TakePosts
<1>2. Ordered(c, s) => Ordered(copy'[w], Tail(s))
  BY <1>1, OrderedTaken
<1>3. /\ Len(Tail(s)) = Len(s) - 1 /\ Len(s) - 1 \in 0..Len(s) - 1
      /\ (Len(s) - 1) + 1 = Len(s)
  BY <1>1, Taken
<1>4. Heard(copy'[w], Tail(s), Len(s) - 1) <=> Heard(c, s, (Len(s) - 1) + 1)
  BY <1>1, <1>3, HeardTaken
<1> QED BY <1>1, <1>2, <1>3, <1>4 DEF Finally

LEMMA EchoReads ==
  ASSUME TypeOK, EchoInv, ExecInv, Take("echoforge"), UNCHANGED <<phic, up, outbox>>
  PROVE  EchoInv' /\ ExecInv'
<1>1. inbox'["execution"] = inbox["execution"] /\ copy'["execution"] = copy["execution"]
  BY Members, TakePosts
<1>2. EchoInv'
  BY Members, FinallyRead DEF EchoInv, AlertSent
<1> QED BY <1>1, <1>2 DEF ExecInv, Finally

LEMMA ExecReads ==
  ASSUME TypeOK, EchoInv, ExecInv, Take("execution"), UNCHANGED <<phic, up, outbox>>
  PROVE  EchoInv' /\ ExecInv'
<1>1. inbox'["echoforge"] = inbox["echoforge"] /\ copy'["echoforge"] = copy["echoforge"]
  BY Members, TakePosts
<1>2. up
  BY Members, TakePosts DEF ExecInv
<1> QED BY <1>1, <1>2, Members, FinallyRead DEF ExecInv, EchoInv, Finally, AlertSent

(* Nothing is posted, and no alert is lost.                                  *)
LEMMA Unheard ==
  ASSUME EchoInv, ExecInv, UNCHANGED <<inbox, copy, up, phic>>, AlertSent => AlertSent'
  PROVE  EchoInv' /\ ExecInv'
BY DEF EchoInv, ExecInv, Finally

LEMMA Sent ==
  ASSUME TypeOK, NEW e \in {"intent", "alert"}, outbox' = Append(outbox, e)
  PROVE  /\ AlertSent => AlertSent'
         /\ e = "alert" => AlertSent'
<1>1. outbox \in Seq({"intent", "alert"})
  BY DEF TypeOK
<1>2. /\ Len(outbox) \in Nat /\ Len(outbox') = Len(outbox) + 1
      /\ outbox'[Len(outbox) + 1] = e
      /\ \A i \in 1..Len(outbox) : outbox'[i] = outbox[i]
  BY <1>1, Posted
<1> QED BY <1>2 DEF AlertSent

(* The echoforge worker freezes itself: what it is told later still counts.  *)
LEMMA DrawsDown ==
  ASSUME TypeOK, EchoInv, ExecInv, Drawdown
  PROVE  EchoInv' /\ ExecInv'
<1>1. /\ copy' = [copy EXCEPT !["echoforge"] = TRUE]
      /\ outbox' = Append(outbox, "alert")
      /\ UNCHANGED <<inbox, phic, up>>
  BY DEF Drawdown, phicVars
<1>2. copy'["echoforge"] = TRUE /\ copy'["execution"] = copy["execution"]
  BY <1>1, Members DEF TypeOK
<1>3. AlertSent'
  BY <1>1, Sent
<1>4. Finally("echoforge") => Finally("echoforge")'
  BY <1>1, <1>2 DEF Finally, Heard
<1>5. EchoInv'
  BY <1>1, <1>3, <1>4 DEF EchoInv
<1>6. ExecInv'
  BY <1>1, <1>2 DEF ExecInv, Finally
<1> QED BY <1>5, <1>6

(* The hub reads what the echoforge worker sent.                             *)
LEMMA Reported ==
  ASSUME TypeOK, EchoInv, ExecInv, EchoReports
  PROVE  EchoInv' /\ ExecInv'
<1>1. /\ outbox \in Seq({"intent", "alert"}) /\ outbox # <<>> /\ outbox' = Tail(outbox)
      /\ UNCHANGED <<copy, up>>
  BY DEF EchoReports, TypeOK
<1>2. CASE phic.frozen /\ UNCHANGED <<phic, inbox>>
  <2>1. Finally("echoforge") <=> phic.frozen
    BY <1>2 DEF EchoInv
  <2>2. EchoInv'
    BY <1>1, <1>2, <2>1 DEF EchoInv, Finally
  <2> QED BY <1>1, <1>2, <2>2 DEF ExecInv, Finally
<1>3. CASE ApplyFreeze(FALSE)
  BY <1>1, <1>3, ApplyFreezeDoes, Told
<1>4. CASE Head(outbox) = "intent" /\ UNCHANGED <<phic, inbox>>
  <2>1. /\ Len(outbox) \in Nat \ {0} /\ Len(outbox') = Len(outbox) - 1
        /\ outbox[1] = "intent"
        /\ \A i \in 1..Len(outbox) - 1 : outbox'[i] = outbox[i + 1]
    BY <1>1, <1>4, Taken
  <2>2. ASSUME AlertSent PROVE AlertSent'
    <3>1. PICK i \in 1..Len(outbox) : outbox[i] = "alert"
      BY <2>2 DEF AlertSent
    <3>2. i - 1 \in 1..Len(outbox) - 1 /\ (i - 1) + 1 = i
      BY <2>1, <3>1
    <3> QED BY <2>1, <3>1, <3>2 DEF AlertSent
  <2> QED BY <1>1, <1>4, <2>2, Unheard
<1> QED BY <1>2, <1>3, <1>4 DEF EchoReports

LEMMA NextHeard ==
  ASSUME TypeOK, EchoInv, ExecInv, [Next]_vars
  PROVE  EchoInv' /\ ExecInv'
<1>1. CASE Restart
  <2>1. /\ phic'.frozen = saved.frozen /\ copy' = [w \in Worker |-> saved.frozen]
        /\ inbox' = [w \in Worker |-> <<>>] /\ up' = TRUE
    BY <1>1 DEF Restart, Restored, Empty
  <2>2. \A w \in Worker : inbox'[w] = <<>> /\ copy'[w] = saved.frozen
    BY <2>1
  <2>3. saved.frozen \in BOOLEAN
    BY InboxTypes
  <2>4. \A w \in Worker : Finally(w)' <=> saved.frozen
    BY <2>2, <2>3, EmptyHeard DEF Finally
  <2>5. Ordered(copy'["execution"], inbox'["execution"])
    BY <2>2, <2>3, EmptyHeard, Members
  <2> QED BY <2>1, <2>4, <2>5, Members DEF EchoInv, ExecInv
<1>2. CASE Configs
  <2>1. PICK f \in BOOLEAN, d \in BOOLEAN :
          Merge(f, d) /\ SendFields(f)
    BY <1>2, ConfigDoes
  <2>2. phic'.frozen = f /\ UNCHANGED <<copy, up, outbox>>
    BY <2>1, MergeDoes
  <2>3. CASE Broadcast(f)
    BY <2>2, <2>3, Told
  <2>4. CASE f = phic.frozen /\ UNCHANGED inbox
    BY <2>2, <2>4 DEF EchoInv, ExecInv, Finally, AlertSent
  <2> QED BY <2>1, <2>3, <2>4 DEF SendFields
<1>3. CASE Freeze \/ FloorBreach
  <2>1. PICK byHand \in BOOLEAN : ApplyFreeze(byHand)
    BY <1>3 DEF Freeze, FloorBreach
  <2>2. UNCHANGED <<copy, up>>
    BY <1>3 DEF Freeze, FloorBreach
  <2> QED BY <2>1, <2>2, ApplyFreezeDoes, Told
<1>4. CASE Cashout
  BY <1>4, CashedOut
<1>5. CASE PostIntent
  BY <1>5, Handed DEF PostIntent, phicVars
<1>6. CASE HearVpin
  <2>1. /\ CheckAutoThaw(Head(updates)) /\ Head(updates) \in BOOLEAN
        /\ UNCHANGED <<copy, up, outbox>>
    BY <1>6, VpinTypes DEF HearVpin
  <2>2. CASE UNCHANGED <<phic, inbox>>
    BY <2>1, <2>2, Unheard DEF AlertSent
  <2>3. CASE Broadcast(FALSE) /\ phic'.frozen = FALSE
    BY <2>1, <2>3, Told
  <2> QED BY <2>1, <2>2, <2>3, ThawDoes
<1>7. CASE EchoReceives
  BY <1>7, EchoReads DEF EchoReceives, phicVars
<1>8. CASE ExecReceives
  BY <1>8, ExecReads DEF ExecReceives, phicVars
<1>9. CASE EchoFires
  BY <1>9, Sent, Unheard DEF EchoFires, phicVars
<1>10. CASE Drawdown
  BY <1>10, DrawsDown
<1>11. CASE EchoReports
  BY <1>11, Reported
<1>12. CASE GuardianAdjusts
  <2>1. Broadcast(phic.frozen) /\ UNCHANGED <<phic, copy, up>>
    BY <1>12 DEF GuardianAdjusts, phicVars
  <2> QED BY <2>1, InboxTypes, Told
<1>13. CASE ExecFails
  <2>1. /\ up' = FALSE /\ inbox'["execution"] = <<>>
        /\ inbox'["echoforge"] = inbox["echoforge"]
        /\ UNCHANGED <<copy, phic, outbox>>
    BY <1>13, Members, InboxTypes DEF ExecFails, phicVars
  <2> QED BY <2>1 DEF EchoInv, ExecInv, Finally, AlertSent
<1>14. CASE RestartExecution
  <2>1. /\ ~up /\ up' = TRUE
        /\ copy' = [copy EXCEPT !["execution"] = phic.frozen]
        /\ UNCHANGED <<inbox, phic, outbox>>
    BY <1>14 DEF RestartExecution, phicVars
  <2>2. copy'["execution"] = phic.frozen /\ copy'["echoforge"] = copy["echoforge"]
    BY <2>1, Members DEF TypeOK
  <2>3. inbox'["execution"] = <<>> /\ phic.frozen \in BOOLEAN
    BY <2>1, InboxTypes DEF ExecInv
  <2>4. Finally("execution")' <=> phic.frozen
    BY <2>2, <2>3, EmptyHeard DEF Finally
  <2>5. Ordered(copy'["execution"], inbox'["execution"])
    BY <2>2, <2>3, EmptyHeard
  <2>6. EchoInv'
    BY <2>1, <2>2 DEF EchoInv, Finally, AlertSent
  <2> QED BY <2>1, <2>4, <2>5, <2>6 DEF ExecInv
<1>15. CASE Save \/ Measure \/ TimePasses \/ GuardianJudges \/ UNCHANGED vars
  <2>1. UNCHANGED <<inbox, copy, up, phic, outbox>>
    BY <1>15 DEF Save, Measure, TimePasses, GuardianJudges, vars, workerVars, phicVars
  <2> QED BY <2>1, Unheard DEF AlertSent
<1> QED BY <1>1, <1>2, <1>3, <1>4, <1>5, <1>6, <1>7, <1>8, <1>9, <1>10, <1>11, <1>12,
           <1>13, <1>14, <1>15 DEF Next, Configs

-----------------------------------------------------------------------------
(* The hub: freezes by hand, and the start in observation.                  *)

LEMMA NextHeld ==
  ASSUME TypeOK, HoldInv, [Next]_vars
  PROVE  HoldInv'
<1>1. CASE Restart
  BY <1>1 DEF Restart, Restored, HoldInv
<1>2. CASE Configs
  <2>1. PICK f \in BOOLEAN, d \in BOOLEAN : Merge(f, d)
    BY <1>2, ConfigDoes
  <2>2. phic'.frozen = f /\ phic'.manual = phic.manual /\ hold' = (hold /\ f)
    BY <2>1, MergeDoes
  <2> QED BY <2>2 DEF HoldInv
<1>3. CASE Freeze
  <2>1. phic'.frozen = TRUE /\ phic'.manual = (phic.manual \/ TRUE)
    BY <1>3, ApplyFreezeDoes DEF Freeze
  <2> QED BY <2>1 DEF HoldInv
<1>4. CASE Cashout
  BY <1>4 DEF Cashout, TypeOK, Phic, HoldInv
<1>5. CASE FloorBreach \/ EchoReports
  <2>1. hold' = hold /\ (UNCHANGED phic \/ ApplyFreeze(FALSE))
    BY <1>5 DEF FloorBreach, EchoReports
  <2>2. CASE UNCHANGED phic
    BY <2>1, <2>2 DEF HoldInv
  <2>3. CASE ApplyFreeze(FALSE)
    <3>1. phic'.frozen = TRUE /\ phic'.manual = (phic.manual \/ FALSE)
      BY <2>3, ApplyFreezeDoes
    <3>2. phic.manual => phic'.manual
      BY <3>1
    <3> QED BY <2>1, <3>1, <3>2 DEF HoldInv
  <2> QED BY <2>1, <2>2, <2>3
<1>6. CASE HearVpin
  <2>1. hold' = hold /\ CheckAutoThaw(Head(updates)) /\ Head(updates) \in BOOLEAN
    BY <1>6, VpinTypes DEF HearVpin
  <2> QED BY <2>1, ThawDoes DEF HoldInv
<1>7. CASE UNCHANGED <<phic, hold>>
  BY <1>7 DEF HoldInv
<1> QED BY <1>1, <1>2, <1>3, <1>4, <1>5, <1>6, <1>7
       DEF Next, Configs, Save, PostIntent, Measure, TimePasses, EchoFires, EchoReceives,
           Drawdown, GuardianJudges, GuardianAdjusts, ExecReceives, ExecFails,
           RestartExecution, vars, phicVars

(* Nothing that the hub posts of its own is an intent.                       *)
LEMMA NoIntentPosted ==
  ASSUME NEW s \in Seq(Message), NEW e \in Message
  PROVE  /\ \A i \in 1..Len(s) : s[i] \notin {"intent", "late intent"}
         /\ e \notin {"intent", "late intent"}
         => \A i \in 1..Len(Append(s, e)) : Append(s, e)[i] \notin {"intent", "late intent"}
<1>1. /\ Len(s) \in Nat /\ Len(Append(s, e)) = Len(s) + 1
      /\ Append(s, e)[Len(s) + 1] = e
      /\ \A i \in 1..Len(s) : Append(s, e)[i] = s[i]
  BY Posted
<1>2. \A i \in 1..Len(s) + 1 : i \in 1..Len(s) \/ i = Len(s) + 1
  BY <1>1
<1> QED BY <1>1, <1>2

LEMMA NothingWaits ==
  ASSUME NEW s, s = <<>>
  PROVE  \A i \in 1..Len(s) : FALSE
<1>1. Len(s) = 0
  OBVIOUS
<1> QED BY <1>1

LEMMA NoIntentEmpty ==
  ASSUME inbox'["execution"] = <<>>
  PROVE  NoIntent'
BY NothingWaits DEF NoIntent

LEMMA NoIntentTold ==
  ASSUME TypeOK, NoIntent, NEW f, Broadcast(f)
  PROVE  NoIntent'
<1> DEFINE s == inbox["execution"]
<1>1. s \in Seq(Message) /\ Word(f) \in Message /\ Word(f) \notin {"intent", "late intent"}
  BY InboxTypes, Members DEF Words
<1>2. inbox'["execution"] = IF up THEN Append(s, Word(f)) ELSE s
  BY Members DEF Broadcast, Open
<1>3. \A i \in 1..Len(s) : s[i] \notin {"intent", "late intent"}
  BY DEF NoIntent
<1>4. \A i \in 1..Len(Append(s, Word(f))) :
        Append(s, Word(f))[i] \notin {"intent", "late intent"}
  BY <1>1, <1>3, NoIntentPosted
<1> QED BY <1>2, <1>3, <1>4 DEF NoIntent

LEMMA NextObserved ==
  ASSUME TypeOK, ObserveInv, [Next]_vars
  PROVE  ObserveInv'
<1>1. CASE Restart
  <2>1. /\ phic'.disabled = TRUE /\ asked' = FALSE /\ inbox' = [w \in Worker |-> <<>>]
    BY <1>1 DEF Restart, Restored, Empty
  <2>2. inbox'["execution"] = <<>>
    BY <2>1, Members
  <2> QED BY <2>1, <2>2, NoIntentEmpty DEF ObserveInv
<1> SUFFICES ASSUME ~Restart, ~armed'
             PROVE  phic'.disabled /\ ~asked' /\ NoIntent'
  BY <1>1 DEF ObserveInv
<1>2. armed => armed'
  BY InboxTypes, MergeDoes
     DEF Next, PostConfig, SocketConfig, HostConfig, RemoteConfig, Save, Freeze, Cashout,
         PostIntent, Measure, HearVpin, TimePasses, EchoFires, EchoReceives, Drawdown, EchoReports,
         GuardianJudges, GuardianAdjusts, ExecReceives, FloorBreach, ExecFails,
         RestartExecution, vars
<1>3. phic.disabled /\ ~asked /\ NoIntent
  BY <1>2 DEF ObserveInv
<1>4. CASE Configs
  <2>1. PICK f \in BOOLEAN, d \in BOOLEAN :
          Merge(f, d) /\ SendFields(f)
    BY <1>4, ConfigDoes
  <2>2. armed' = (armed \/ ~d) /\ phic'.disabled = d /\ asked' = asked
    BY <2>1, MergeDoes
  <2>3. NoIntent'
    BY <1>3, <2>1, NoIntentTold DEF SendFields, NoIntent
  <2> QED BY <1>3, <2>2, <2>3
<1>5. CASE Freeze \/ FloorBreach
  <2>1. PICK byHand \in BOOLEAN : ApplyFreeze(byHand) /\ asked' = asked
    BY <1>5 DEF Freeze, FloorBreach
  <2>2. phic'.disabled = phic.disabled /\ Broadcast(TRUE)
    BY <2>1, ApplyFreezeDoes
  <2> QED BY <1>3, <2>1, <2>2, NoIntentTold
<1>6. CASE Cashout
  <2> DEFINE s == inbox["execution"]
             t == Append(s, "freeze")
  <2>1. inbox'["execution"] = IF up THEN Append(t, "cashout") ELSE s
    BY <1>6, CashoutPosts
  <2>2. s \in Seq(Message) /\ t \in Seq(Message)
    BY InboxTypes, Members, Posted
  <2>3. /\ "freeze" \in Message /\ "freeze" \notin {"intent", "late intent"}
        /\ "cashout" \in Message /\ "cashout" \notin {"intent", "late intent"}
    BY Members
  <2>4. \A i \in 1..Len(s) : s[i] \notin {"intent", "late intent"}
    BY <1>3 DEF NoIntent
  <2>5. \A i \in 1..Len(t) : t[i] \notin {"intent", "late intent"}
    BY <2>2, <2>3, <2>4, NoIntentPosted
  <2> HIDE DEF t
  <2>6. \A i \in 1..Len(Append(t, "cashout")) :
          Append(t, "cashout")[i] \notin {"intent", "late intent"}
    BY <2>2, <2>3, <2>5, NoIntentPosted
  <2>7. NoIntent'
    BY <2>1, <2>4, <2>6 DEF NoIntent
  <2> QED BY <1>3, <1>6, <2>7 DEF Cashout, TypeOK, Phic
<1>7. CASE HearVpin
  <2>1. CheckAutoThaw(Head(updates)) /\ Head(updates) \in BOOLEAN /\ asked' = asked
    BY <1>7, VpinTypes DEF HearVpin
  <2>2. CASE UNCHANGED <<phic, inbox>>
    BY <1>3, <2>1, <2>2 DEF NoIntent
  <2>3. CASE Broadcast(FALSE) /\ phic'.disabled = phic.disabled
    BY <1>3, <2>1, <2>3, NoIntentTold
  <2> QED BY <2>1, <2>2, <2>3, ThawDoes
<1>8. CASE EchoReceives
  <2>1. inbox'["execution"] = inbox["execution"] /\ UNCHANGED <<phic, asked>>
    BY <1>8, Members, TakePosts DEF EchoReceives, phicVars
  <2> QED BY <1>3, <2>1 DEF NoIntent
<1>9. CASE ExecReceives
  <2> DEFINE s == inbox["execution"]
  <2>1. /\ s \in Seq(Message) /\ s # <<>> /\ inbox'["execution"] = Tail(s)
        /\ UNCHANGED <<phic, asked>>
    BY <1>9, Members, InboxTypes, TakePosts DEF ExecReceives, phicVars
  <2>2. /\ Len(s) \in Nat \ {0} /\ Len(Tail(s)) = Len(s) - 1
        /\ \A i \in 1..Len(s) - 1 : Tail(s)[i] = s[i + 1] /\ i + 1 \in 1..Len(s)
    BY <2>1, Taken
  <2>3. \A i \in 1..Len(Tail(s)) : Tail(s)[i] \notin {"intent", "late intent"}
    BY <1>3, <2>2 DEF NoIntent
  <2> QED BY <1>3, <2>1, <2>3 DEF NoIntent
<1>10. CASE EchoReports
  <2>1. asked' = asked /\ (UNCHANGED <<phic, inbox>> \/ ApplyFreeze(FALSE))
    BY <1>3, <1>10 DEF EchoReports
  <2>2. CASE UNCHANGED <<phic, inbox>>
    BY <1>3, <2>1, <2>2 DEF NoIntent
  <2>3. CASE ApplyFreeze(FALSE)
    BY <1>3, <2>1, <2>3, ApplyFreezeDoes, NoIntentTold
  <2> QED BY <2>1, <2>2, <2>3
<1>11. CASE GuardianAdjusts
  BY <1>3, <1>11, NoIntentTold DEF GuardianAdjusts, phicVars
<1>12. CASE ExecFails
  <2>1. inbox'["execution"] = <<>> /\ UNCHANGED <<phic, asked>>
    BY <1>12, Members, InboxTypes DEF ExecFails, phicVars
  <2> QED BY <1>3, <2>1, NoIntentEmpty
<1>13. CASE GuardianJudges
  BY <1>3, <1>13 DEF GuardianJudges, phicVars, NoIntent
<1>14. CASE PostIntent
  BY <1>3, <1>14 DEF PostIntent
<1>15. CASE UNCHANGED <<phic, inbox, asked>>
  BY <1>3, <1>15 DEF NoIntent
<1> QED BY <1>4, <1>5, <1>6, <1>7, <1>8, <1>9, <1>10, <1>11, <1>12, <1>13, <1>14, <1>15
       DEF Next, Configs, Save, Measure, TimePasses, EchoFires, Drawdown, RestartExecution,
           vars, phicVars, workerVars

-----------------------------------------------------------------------------

LEMMA InitCorrect == Init => IInv
<1> SUFFICES ASSUME Init
             PROVE  IInv
  OBVIOUS
<1>1. /\ saved = [frozen |-> FALSE, manual |-> FALSE]
      /\ phic = [frozen |-> FALSE, manual |-> FALSE, disabled |-> TRUE]
      /\ calm = "off" /\ copy = [w \in Worker |-> FALSE]
      /\ inbox = [w \in Worker |-> <<>>] /\ outbox = <<>> /\ asked = FALSE
      /\ up = TRUE /\ low = TRUE /\ updates = <<>> /\ armed = FALSE /\ hold = FALSE
  BY DEF Init, Restored, Empty
<1>2. TypeOK
  <2>1. /\ inbox \in [Worker -> Seq(Message)] /\ outbox \in Seq({"intent", "alert"})
        /\ updates \in Seq(BOOLEAN)
    BY <1>1
  <2>2. phic \in Phic /\ saved \in [frozen : BOOLEAN, manual : BOOLEAN]
    BY <1>1 DEF Phic
  <2> QED BY <1>1, <2>1, <2>2 DEF TypeOK, Clocks
<1>3. \A w \in Worker : inbox[w] = <<>> /\ copy[w] = FALSE
  BY <1>1
<1>4. \A w \in Worker : ~Finally(w)
  BY <1>3, EmptyHeard DEF Finally
<1>5. Ordered(copy["execution"], inbox["execution"])
  BY <1>3, EmptyHeard, Members
<1>6. EchoInv /\ ExecInv
  BY <1>1, <1>4, <1>5, Members DEF EchoInv, ExecInv
<1>7. NoIntent
  <2>1. inbox["execution"] = <<>>
    BY <1>3, Members
  <2> QED BY <2>1, NothingWaits DEF NoIntent
<1> QED BY <1>1, <1>2, <1>6, <1>7 DEF IInv, HoldInv, ObserveInv

THEOREM Invariant == Spec => []IInv
<1>1. IInv /\ [Next]_vars => IInv'
  BY NextTyped, NextHeard, NextHeld, NextObserved DEF IInv
<1> QED BY <1>1, InitCorrect, PTL DEF Spec

(* The last word in an inbox is what a worker has heard when it is empty.    *)
LEMMA LastWordHeard ==
  ASSUME TypeOK, NEW w \in Worker
  PROVE  LastWord(w) = Finally(w)
<1> SUFFICES ASSUME NEW s, NEW c, NEW n, s = inbox[w], c = copy[w], n = Len(s)
             PROVE  LastWord(w) = Heard(c, s, n)
  BY DEF Finally
<1>1. /\ n \in Nat /\ c \in BOOLEAN
      /\ News(w) = {i \in 1..n : s[i] \in Words}
  BY InboxTypes DEF News, Words
<1>2. CASE News(w) = {}
  <2>1. \A j \in 1..n : s[j] \notin Words
    BY <1>1, <1>2
  <2>2. ~ \E i \in 1..n : s[i] = "freeze"
    BY <2>1 DEF Words
  <2>3. Heard(c, s, n) = c
    BY <1>1, <2>1, <2>2 DEF Heard
  <2> QED BY <1>2, <2>3 DEF LastWord
<1>3. CASE News(w) # {}
  <2>1. LastWord(w) = \E i \in News(w) : (\A j \in News(w) : j <= i) /\ s[i] = "freeze"
    BY <1>3 DEF LastWord
  <2>2. ASSUME NEW i \in 1..n
        PROVE  (\A j \in News(w) : j <= i) <=> \A j \in i + 1..n : s[j] \notin Words
    <3>1. ASSUME \A j \in News(w) : j <= i, NEW j \in i + 1..n PROVE s[j] \notin Words
      BY <1>1, <3>1
    <3>2. ASSUME \A j \in i + 1..n : s[j] \notin Words, NEW j \in News(w) PROVE j <= i
      BY <1>1, <3>2
    <3> QED BY <3>1, <3>2
  <2>3. \A i \in 1..n : s[i] = "freeze" => i \in News(w)
    BY <1>1 DEF Words
  <2>4. Heard(c, s, n) = \E i \in 1..n : s[i] = "freeze" /\ \A j \in i + 1..n : s[j] \notin Words
    BY <1>1, <1>3 DEF Heard
  <2> QED BY <1>1, <2>1, <2>2, <2>3, <2>4
<1> QED BY <1>2, <1>3

-----------------------------------------------------------------------------
(* The hub: theorems.                                                       *)

(* The state of the hub and of its workers keeps its type.                   *)
THEOREM TypeCorrect == Spec => []TypeOK
<1>1. IInv => TypeOK
  BY DEF IInv
<1> QED BY <1>1, Invariant, PTL

(* Whatever happens, a worker's last word is the hub's, or the hub is about  *)
(* to hear of the worker's.                                                  *)
THEOREM CopiesAgreeCorrect == Spec => []CopiesAgree
<1>1. ASSUME IInv PROVE CopiesAgree
  <2>1. \A w \in Worker : LastWord(w) = Finally(w)
    BY <1>1, LastWordHeard DEF IInv
  <2>2. phic.frozen \in BOOLEAN
    BY <1>1, InboxTypes DEF IInv
  <2>3. \A w \in Worker : LastWord(w) \in BOOLEAN
    BY <2>1 DEF Finally, Heard
  <2> QED BY <1>1, <2>1, <2>2, <2>3 DEF IInv, EchoInv, ExecInv, CopiesAgree, Worker, Open
<1> QED BY <1>1, Invariant, PTL

(* The execution worker judges an intent by the freeze it was handed over    *)
(* under.                                                                    *)
THEOREM FreezeGovernsIntentsCorrect == Spec => []FreezeGovernsIntents
<1>1. ASSUME IInv PROVE FreezeGovernsIntents
  <2> DEFINE s == inbox["execution"]
             c == copy["execution"]
  <2> SUFFICES ASSUME up, s # <<>>
               PROVE  /\ Head(s) = "late intent" => c
                      /\ Head(s) = "intent" => ~c
    BY DEF FreezeGovernsIntents
  <2>1. s \in Seq(Message) /\ c \in BOOLEAN /\ Ordered(c, s)
    BY <1>1, InboxTypes, Members DEF IInv, ExecInv
  <2>2. Len(s) \in Nat \ {0} /\ Head(s) = s[1]
    BY <2>1, Taken
  <2>3. 1 \in 1..Len(s) /\ 1 - 1 = 0
    BY <2>2
  <2>4. /\ s[1] = "late intent" => Heard(c, s, 0)
        /\ s[1] = "intent" => ~Heard(c, s, 0)
    BY <2>1, <2>3 DEF Ordered
  <2> QED BY <2>1, <2>2, <2>4, NothingHeard
<1> QED BY <1>1, Invariant, PTL

(* No intent is on its way anywhere before someone has enabled execution.    *)
THEOREM ObservesUntilEnabledCorrect == Spec => []ObservesUntilEnabled
<1>1. IInv => ObservesUntilEnabled
  BY DEF IInv, ObserveInv, NoIntent, ObservesUntilEnabled
<1> QED BY <1>1, Invariant, PTL

(* A freeze by hand stands until somebody lifts it.                          *)
THEOREM HoldKeptCorrect == Spec => []HoldKept
<1>1. IInv => HoldKept
  BY DEF IInv, HoldInv, HoldKept
<1> QED BY <1>1, Invariant, PTL
=============================================================================
