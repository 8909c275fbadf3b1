------------------------ MODULE ExecutionQueueProofs ------------------------
(***************************************************************************)
(* Proofs about ExecutionQueue, for any set of orders, any retry limit and *)
(* any number of crashes and store faults.                                 *)
(***************************************************************************)
EXTENDS ExecutionQueue, TLAPS

\* Counting one more for an order keeps a table of counts a table of counts.
LEMMA Bump ==
  ASSUME NEW f \in [Order -> Nat], NEW o \in Order
  PROVE  [f EXCEPT ![o] = @ + 1] \in [Order -> Nat]
OBVIOUS

\* The state of every component keeps its type.
LEMMA TypeStep == TypeOK /\ [Next]_vars => TypeOK'
<1> SUFFICES ASSUME TypeOK, [Next]_vars PROVE TypeOK'
  OBVIOUS
<1> USE ConstantsAssumption DEF TypeOK, Status, Phase, Verdict, CallAt, Running, Request
<1>1. ASSUME NEW w \in Worker, NEW o \in Order, HandleIntent(w, o)
      PROVE  TypeOK'
  <2>1. CASE online[w]
    <3>1. Send(w, o) /\ call' = [call EXCEPT ![o] = "submit"]
      BY <1>1, <2>1 DEF HandleIntent
    <3> QED
      BY <1>1, <3>1 DEF HandleIntent, Send, storeVars, passVars, faultVars, modeVars
  <2>2. CASE ~online[w]
    <3>1. PICK c \in CallAt : call' = [call EXCEPT ![o] = c]
      BY <1>1, <2>2 DEF HandleIntent, AfterEnqueue
    <3> QED
      BY <1>1, <2>2, <3>1 DEF HandleIntent, storeVars, passVars, netVars, faultVars, modeVars
  <2> QED BY <2>1, <2>2
<1>2. ASSUME NEW w \in Worker, NEW o \in Order, SubmitDefensively(w, o)
      PROVE  TypeOK'
  BY <1>2 DEF SubmitDefensively, Send, storeVars, passVars, netVars, faultVars, modeVars
<1>3. ASSUME NEW w \in Worker, NEW o \in Order, ReplyToCall(w, o)
      PROVE  TypeOK'
  <2>1. PICK c \in CallAt : call' = [call EXCEPT ![o] = c]
    BY <1>3 DEF ReplyToCall, AfterEnqueue
  <2> QED BY <1>3, <2>1 DEF ReplyToCall, storeVars, passVars, faultVars, modeVars
<1>4. ASSUME NEW w \in Worker, NEW o \in Order, AddEntry(w, o)
      PROVE  TypeOK'
  BY <1>4 DEF AddEntry, passVars, netVars, faultVars, modeVars
<1>5. ASSUME NEW w \in Worker, NEW o \in Order, Fill(w, o)
      PROVE  TypeOK'
  BY <1>5 DEF Fill, storeVars, passVars, callVars, faultVars, modeVars
<1>6. ASSUME NEW w \in Worker, NEW o \in Order, Refuse(w, o)
      PROVE  TypeOK'
  BY <1>6 DEF Refuse, storeVars, passVars, callVars, faultVars, modeVars
<1>7. ASSUME NEW w \in Worker, NEW o \in Order, LoseReply(w, o)
      PROVE  TypeOK'
  <2>1. /\ stray' \in [Order -> Nat]
        /\ unrecorded' \in [Order -> Nat]
        /\ wire' \in [Worker -> [Order -> Request]]
    <3>1. wire' \in [Worker -> [Order -> Request]]
      <4>1. wire' = [wire EXCEPT ![w][o] = "error"]
        BY <1>7 DEF LoseReply
      <4>2. wire \in [Worker -> [Order -> Request]]
        OBVIOUS
      <4>3. "error" \in Request
        OBVIOUS
      <4> HIDE DEF Request, TypeOK
      <4> QED BY <4>1, <4>2, <4>3
    <3>2. stray' \in [Order -> Nat]
      <4>1. \/ stray' = stray
            \/ stray' = [stray EXCEPT ![o] = @ + 1]
        BY <1>7 DEF LoseReply
      <4>2. stray \in [Order -> Nat]
        OBVIOUS
      <4>3. CASE stray' = stray
        BY <4>2, <4>3
      <4>4. CASE stray' = [stray EXCEPT ![o] = @ + 1]
        BY <4>2, <4>4, Bump
      <4> QED BY <4>1, <4>3, <4>4
    <3>3. unrecorded' \in [Order -> Nat]
      <4>1. \/ unrecorded' = unrecorded
            \/ unrecorded' = [unrecorded EXCEPT ![o] = @ + 1]
        BY <1>7 DEF LoseReply
      <4>2. unrecorded \in [Order -> Nat]
        OBVIOUS
      <4>3. CASE unrecorded' = unrecorded
        BY <4>2, <4>3
      <4>4. CASE unrecorded' = [unrecorded EXCEPT ![o] = @ + 1]
        BY <4>2, <4>4, Bump
      <4> QED BY <4>1, <4>3, <4>4
    <3> QED BY <3>1, <3>2, <3>3
  <2> QED
    BY <1>7, <2>1 DEF LoseReply, storeVars, passVars, callVars, faultVars, modeVars
<1>8. ASSUME NEW w \in Worker, NEW o \in Order, FailAdd(w, o)
      PROVE  TypeOK'
  <2>1. PICK c \in CallAt : call' = [call EXCEPT ![o] = c]
    BY <1>8 DEF FailAdd, AfterEnqueue
  <2> QED BY <1>8, <2>1 DEF FailAdd, storeVars, passVars, netVars, modeVars
<1>9. ASSUME NEW w \in Worker, BeginReplay(w)
      PROVE  TypeOK'
  BY <1>9 DEF BeginReplay, StartPass, storeVars, callVars, netVars, faultVars, modeVars
<1>10. ASSUME NEW w \in Worker, LoadPending(w)
       PROVE  TypeOK'
  BY <1>10 DEF LoadPending, storeVars, callVars, netVars, faultVars, modeVars
<1>11. ASSUME NEW w \in Worker, NEW o \in Order, TakeEntry(w, o)
       PROVE  TypeOK'
  <2>1. CASE GivenUp(w, o)
    BY <1>11, <2>1 DEF TakeEntry, storeVars, callVars, netVars, faultVars, modeVars
  <2>2. CASE ~GivenUp(w, o)
    <3>1. Send(w, o) /\ phase' = [phase EXCEPT ![w] = "submit"] /\ UNCHANGED verdict
      BY <1>11, <2>2 DEF TakeEntry
    <3> QED
      BY <1>11, <3>1 DEF TakeEntry, Send, storeVars, callVars, faultVars, modeVars
  <2> QED BY <2>1, <2>2
<1>12. ASSUME NEW w \in Worker, ReplyToPass(w)
       PROVE  TypeOK'
  BY <1>12 DEF ReplyToPass, storeVars, callVars, faultVars, modeVars
<1>13. ASSUME NEW w \in Worker, MarkEntry(w)
       PROVE  TypeOK'
  <2>1. CASE verdict[w] = "RETRY"
    <3>1. /\ retries' = [retries EXCEPT ![cur[w]] = seen[w][cur[w]] + 1]
          /\ UNCHANGED status
      BY <1>13, <2>1 DEF MarkEntry
    <3>2. retries' \in [Order -> Nat]
      <4>1. CASE cur[w] \in Order
        <5>1. seen[w][cur[w]] + 1 \in Nat
          BY <4>1
        <5> QED BY <3>1, <5>1
      <4>2. CASE cur[w] \notin Order
        BY <3>1, <4>2
      <4> QED BY <4>1, <4>2
    <3>3. /\ phase' \in [Worker -> Phase]
          /\ cur' \in [Worker -> Order \cup {None}]
          /\ verdict' \in [Worker -> Verdict]
      BY <1>13 DEF MarkEntry
    <3> QED
      BY <1>13, <3>1, <3>2, <3>3 DEF MarkEntry, callVars, netVars, faultVars, modeVars
  <2>2. CASE verdict[w] # "RETRY"
    <3>1. status' = [status EXCEPT ![cur[w]] = verdict[w]] /\ UNCHANGED retries
      BY <1>13, <2>2 DEF MarkEntry
    <3>2. verdict[w] \in Status
      <4>1. verdict[w] \in Verdict
        OBVIOUS
      <4> QED BY <2>2, <4>1
    <3>3. status' \in [Order -> Status]
      BY <3>1, <3>2
    <3>4. /\ phase' \in [Worker -> Phase]
          /\ cur' \in [Worker -> Order \cup {None}]
          /\ verdict' \in [Worker -> Verdict]
      BY <1>13 DEF MarkEntry
    <3> QED
      BY <1>13, <3>1, <3>3, <3>4 DEF MarkEntry, callVars, netVars, faultVars, modeVars
  <2> QED BY <2>1, <2>2
<1>14. ASSUME NEW w \in Worker, EndReplay(w)
       PROVE  TypeOK'
  BY <1>14 DEF EndReplay, ForgetPass, storeVars, callVars, netVars, faultVars, modeVars
<1>15. ASSUME NEW w \in Worker, Surroundings(w)
       PROVE  TypeOK'
  <2>1. CASE OpenStore(w)
    BY <2>1 DEF OpenStore, storeVars, passVars, callVars, netVars, faultVars
  <2>2. CASE GoOnline(w)
    BY <2>2 DEF GoOnline, StartPass, storeVars, passVars, callVars, netVars, faultVars
  <2>3. CASE GoOffline(w)
    BY <2>3 DEF GoOffline, storeVars, passVars, callVars, netVars, faultVars
  <2>4. CASE FailPass(w)
    BY <2>4 DEF FailPass, ForgetPass, storeVars, callVars, modeVars
  <2>5. CASE Crash(w)
    BY <2>5 DEF Crash, ForgetPass, storeVars
  <2> QED BY <1>15, <2>1, <2>2, <2>3, <2>4, <2>5 DEF Surroundings
<1>16. ASSUME NEW o \in Order, StrayArrives(o) \/ PassTTL(o)
       PROVE  TypeOK'
  <2>1. CASE StrayArrives(o)
    <3>1. fills' \in [Order -> Nat]
      BY <2>1 DEF StrayArrives
    <3>2. stray' = [stray EXCEPT ![o] = @ - 1] /\ stray[o] > 0
      BY <2>1 DEF StrayArrives
    <3>3. stray' \in [Order -> Nat]
      BY <3>2
    <3> QED
      BY <2>1, <3>1, <3>3 DEF StrayArrives, storeVars, passVars, callVars, faultVars, modeVars
  <2>2. CASE PassTTL(o)
    BY <2>2 DEF PassTTL, passVars, callVars, netVars, faultVars, modeVars
  <2> QED BY <1>16, <2>1, <2>2
<1>17. CASE UNCHANGED vars
  BY <1>17 DEF vars, storeVars, passVars, callVars, netVars, faultVars, modeVars
<1> QED
  BY <1>1, <1>2, <1>3, <1>4, <1>5, <1>6, <1>7, <1>8, <1>9, <1>10, <1>11, <1>12,
     <1>13, <1>14, <1>15, <1>16, <1>17
     DEF Next, Submission, Replay, Exchange

\* Every variable keeps its type, whichever handlers interleave and fail.
THEOREM TypeCorrect == Spec => []TypeOK
<1>1. Init => TypeOK
  <2> SUFFICES ASSUME Init PROVE TypeOK
    OBVIOUS
  <2> USE DEF Init
  <2>1. status \in [Order -> Status] /\ retries \in [Order -> Nat] /\ expired \in SUBSET Order
    BY DEF Status
  <2>2. dbOpen \in [Worker -> BOOLEAN] /\ online \in [Worker -> BOOLEAN]
    OBVIOUS
  <2>3. phase \in [Worker -> Phase] /\ late \in [Worker -> SUBSET Order] /\ todo \in [Worker -> SUBSET Order]
    BY DEF Phase
  <2>4. seen \in [Worker -> [Order -> Nat]]
    OBVIOUS
  <2>5. cur \in [Worker -> Order \cup {None}] /\ verdict \in [Worker -> Verdict]
    BY DEF Verdict
  <2>6. call \in [Order -> CallAt] /\ caller \in [Order -> Worker \cup {None}]
    BY DEF CallAt
  <2>7. wire \in [Worker -> [Order -> Request]]
    BY DEF Request
  <2>8. stray \in [Order -> Nat] /\ fills \in [Order -> Nat] /\ attempts \in [Order -> Nat] /\ unrecorded \in [Order -> Nat]
    OBVIOUS
  <2>9. crashes \in Nat /\ storeFaults \in Nat
    OBVIOUS
  <2> QED BY <2>1, <2>2, <2>3, <2>4, <2>5, <2>6, <2>7, <2>8, <2>9 DEF TypeOK
<1> QED
  BY <1>1, TypeStep, PTL DEF Spec

-----------------------------------------------------------------------------
(* What is marked SUBMITTED was executed                                   *)

\* Fills are never undone.
LEMMA FillsGrow ==
  ASSUME TypeOK, [Next]_vars, NEW o \in Order
  PROVE  fills'[o] >= fills[o]
<1> USE DEF TypeOK
<1>1. ASSUME NEW w \in Worker, NEW p \in Order, Fill(w, p)
      PROVE  fills'[o] >= fills[o]
  BY <1>1 DEF Fill
<1>2. ASSUME NEW p \in Order, StrayArrives(p)
      PROVE  fills'[o] >= fills[o]
  <2>1. CASE fills' = [fills EXCEPT ![p] = @ + 1]
    BY <2>1
  <2>2. CASE UNCHANGED fills
    BY <2>2
  <2> QED BY <1>2, <2>1, <2>2 DEF StrayArrives
<1>3. CASE UNCHANGED fills
  BY <1>3
<1> QED
  BY <1>1, <1>2, <1>3
     DEF Next, Submission, Replay, Exchange, Surroundings, HandleIntent,
         SubmitDefensively, ReplyToCall, AddEntry, Refuse, LoseReply, FailAdd,
         BeginReplay, LoadPending, TakeEntry, ReplyToPass, MarkEntry, EndReplay,
         OpenStore, GoOnline, GoOffline, FailPass, Crash, PassTTL,
         Send, vars, netVars

\* A pass between taking an entry and marking it is handling an entry.
Handling ==
  \A w \in Worker : phase[w] \in {"submit", "mark"} => cur[w] \in Order

\* News of a fill is true, at each place where the worker keeps it.
FillNewsTrue ==
  /\ \A w \in Worker, o \in Order : wire[w][o] = "filled" => fills[o] > 0
  /\ \A w \in Worker :
       phase[w] = "mark" /\ verdict[w] = "SUBMITTED" => fills[cur[w]] > 0

FilledInv == Handling /\ FillNewsTrue /\ SubmittedWasFilled

LEMMA FilledStep == TypeOK /\ FilledInv /\ [Next]_vars => FilledInv'
<1> SUFFICES ASSUME TypeOK, FilledInv, [Next]_vars PROVE FilledInv'
  OBVIOUS
<1>0. \A o \in Order : fills[o] \in Nat /\ fills'[o] \in Nat /\ fills'[o] >= fills[o]
  BY TypeStep, FillsGrow DEF TypeOK
<1> USE <1>0 DEF FilledInv, Handling, FillNewsTrue, SubmittedWasFilled
<1> USE DEF TypeOK, Status, Phase, Verdict, CallAt, Running, Request
<1>1. ASSUME NEW w \in Worker, NEW p \in Order, Submission(w, p)
      PROVE  FilledInv'
  <2>1. \/ UNCHANGED wire
        \/ wire' = [wire EXCEPT ![w][p] = "sent"]
        \/ wire' = [wire EXCEPT ![w][p] = "none"]
    BY <1>1 DEF Submission, HandleIntent, SubmitDefensively, ReplyToCall, AddEntry, Send, netVars
  <2>2. UNCHANGED <<phase, cur, verdict, fills>>
    BY <1>1 DEF Submission, HandleIntent, SubmitDefensively, ReplyToCall, AddEntry, Send,
                netVars, passVars
  <2>3. UNCHANGED status \/ status' = [status EXCEPT ![p] = "PENDING"]
    BY <1>1 DEF Submission, HandleIntent, SubmitDefensively, ReplyToCall, AddEntry, storeVars
  <2>4. Handling'
    BY <2>2
  <2>5. SubmittedWasFilled'
    BY <2>2, <2>3
  <2>6. \A v \in Worker, o \in Order : wire'[v][o] = "filled" => wire[v][o] = "filled"
    <3>1. CASE UNCHANGED wire
      BY <3>1
    <3>2. CASE wire' = [wire EXCEPT ![w][p] = "sent"]
      BY <3>2
    <3>3. CASE wire' = [wire EXCEPT ![w][p] = "none"]
      BY <3>3
    <3> QED BY <2>1, <3>1, <3>2, <3>3
  <2>7. FillNewsTrue'
    BY <2>2, <2>6
  <2> QED BY <2>4, <2>5, <2>7
<1>2. ASSUME NEW w \in Worker, NEW p \in Order, Exchange(w, p)
      PROVE  FilledInv'
  <2>1. UNCHANGED <<phase, cur, verdict, status>>
    BY <1>2 DEF Exchange, Fill, Refuse, LoseReply, passVars, storeVars
  <2>2. CASE Fill(w, p)
    <3>1. fills'[p] > 0
      BY <2>2 DEF Fill
    <3>2. wire' = [wire EXCEPT ![w][p] = "filled"]
      BY <2>2 DEF Fill
    <3> QED BY <2>1, <3>1, <3>2
  <2>3. CASE Refuse(w, p) \/ LoseReply(w, p)
    <3>1. \/ wire' = [wire EXCEPT ![w][p] = "refused"]
          \/ wire' = [wire EXCEPT ![w][p] = "error"]
      BY <2>3 DEF Refuse, LoseReply
    <3>2. CASE wire' = [wire EXCEPT ![w][p] = "refused"]
      BY <2>1, <3>2
    <3>3. CASE wire' = [wire EXCEPT ![w][p] = "error"]
      BY <2>1, <3>3
    <3> QED BY <3>1, <3>2, <3>3
  <2> QED BY <1>2, <2>2, <2>3 DEF Exchange
<1>3. ASSUME NEW w \in Worker, Replay(w)
      PROVE  FilledInv'
  <2>1. CASE BeginReplay(w) \/ LoadPending(w) \/ EndReplay(w)
    BY <2>1 DEF BeginReplay, LoadPending, EndReplay, StartPass, ForgetPass, storeVars, netVars
  <2>2. ASSUME NEW p \in Order, TakeEntry(w, p)
        PROVE  FilledInv'
    <3>1. UNCHANGED wire \/ wire' = [wire EXCEPT ![w][p] = "sent"]
      BY <2>2 DEF TakeEntry, Send, netVars
    <3>2. UNCHANGED <<status, fills>>
      BY <2>2 DEF TakeEntry, Send, netVars, storeVars
    <3>3. \/ phase' = [phase EXCEPT ![w] = "submit"] /\ UNCHANGED verdict
          \/ phase' = [phase EXCEPT ![w] = "mark"] /\ verdict' = [verdict EXCEPT ![w] = "EXPIRED"]
      BY <2>2 DEF TakeEntry
    <3>4. cur' = [cur EXCEPT ![w] = p]
      BY <2>2 DEF TakeEntry
    <3>5. phase[w] = "next"
      BY <2>2 DEF TakeEntry
    <3>6. Handling'
      BY <3>3, <3>4
    <3>7. \A v \in Worker, o \in Order : wire'[v][o] = "filled" => fills'[o] > 0
      <4>1. CASE UNCHANGED wire
        BY <3>2, <4>1
      <4>2. CASE wire' = [wire EXCEPT ![w][p] = "sent"]
        <5>1. \A v \in Worker, o \in Order : wire'[v][o] = "filled" => wire[v][o] = "filled"
          BY <4>2
        <5> QED BY <3>2, <5>1
      <4> QED BY <3>1, <4>1, <4>2
    <3>8. ASSUME NEW v \in Worker, phase'[v] = "mark", verdict'[v] = "SUBMITTED"
          PROVE  fills'[cur'[v]] > 0
      <4>1. CASE v = w
        BY <3>3, <3>8, <4>1
      <4>2. CASE v # w
        <5>1. phase[v] = "mark" /\ verdict[v] = "SUBMITTED" /\ cur'[v] = cur[v]
          BY <3>3, <3>4, <3>8, <4>2
        <5> QED BY <3>2, <5>1
      <4> QED BY <4>1, <4>2
    <3> QED BY <3>2, <3>6, <3>7, <3>8
  <2>3. CASE ReplyToPass(w)
    <3>1. UNCHANGED <<status, fills, cur>>
      BY <2>3 DEF ReplyToPass, storeVars
    <3>2. wire' = [wire EXCEPT ![w][cur[w]] = "none"]
      BY <2>3 DEF ReplyToPass
    <3>3. /\ phase[w] = "submit"
          /\ phase' = [phase EXCEPT ![w] = "mark"]
      BY <2>3 DEF ReplyToPass
    <3>4. \/ verdict' = [verdict EXCEPT ![w] = "RETRY"]
          \/ /\ verdict' = [verdict EXCEPT ![w] = "SUBMITTED"]
             /\ wire[w][cur[w]] = "filled"
      BY <2>3 DEF ReplyToPass
    <3>5. Handling'
      BY <3>1, <3>3
    <3>6. \A v \in Worker, o \in Order : wire'[v][o] = "filled" => fills'[o] > 0
      BY <3>1, <3>2
    <3>7. \A v \in Worker :
            phase'[v] = "mark" /\ verdict'[v] = "SUBMITTED" => fills'[cur'[v]] > 0
      BY <3>1, <3>3, <3>4
    <3> QED BY <3>1, <3>5, <3>6, <3>7
  <2>4. CASE MarkEntry(w)
    <3>1. CASE verdict[w] = "RETRY"
      BY <2>4, <3>1 DEF MarkEntry, netVars
    <3>2. CASE verdict[w] # "RETRY"
      BY <2>4, <3>2 DEF MarkEntry, netVars
    <3> QED BY <3>1, <3>2
  <2> QED BY <1>3, <2>1, <2>2, <2>3, <2>4 DEF Replay
<1>4. ASSUME NEW w \in Worker, Surroundings(w)
      PROVE  FilledInv'
  <2>1. CASE OpenStore(w) \/ GoOnline(w) \/ GoOffline(w)
    BY <2>1 DEF OpenStore, GoOnline, GoOffline, StartPass, storeVars, passVars, netVars
  <2>2. CASE FailPass(w)
    BY <2>2 DEF FailPass, ForgetPass, storeVars
  <2>3. CASE Crash(w)
    BY <2>3 DEF Crash, ForgetPass, storeVars
  <2> QED BY <1>4, <2>1, <2>2, <2>3 DEF Surroundings
<1>5. ASSUME NEW w \in Worker, NEW p \in Order, FailAdd(w, p)
      PROVE  FilledInv'
  BY <1>5 DEF FailAdd, storeVars, passVars, netVars
<1>6. ASSUME NEW p \in Order, StrayArrives(p) \/ PassTTL(p)
      PROVE  FilledInv'
  BY <1>6 DEF StrayArrives, PassTTL, storeVars, passVars, netVars
<1>7. CASE UNCHANGED vars
  BY <1>7 DEF vars, storeVars, passVars, netVars
<1> QED BY <1>1, <1>2, <1>3, <1>4, <1>5, <1>6, <1>7 DEF Next

\* An entry is marked SUBMITTED only after the exchange has executed its
\* order, with any number of workers on the store, crashes and lost replies.
THEOREM SubmittedCorrect == Spec => []SubmittedWasFilled
<1>1. Init => FilledInv
  BY DEF Init, FilledInv, Handling, FillNewsTrue, SubmittedWasFilled
<1>2. FilledInv => SubmittedWasFilled
  BY DEF FilledInv
<1> QED
  BY <1>1, <1>2, TypeCorrect, FilledStep, PTL DEF Spec

-----------------------------------------------------------------------------
(* An order is in one hand                                                 *)

\* An order whose first submission is not over has no entry, ...
Unqueued ==
  \A o \in Order : call[o] \in Running \cup {"idle"} => status[o] = "NONE"

\* ... passes handle entries only, ...
PassesHandleEntries ==
  \A w \in Worker, o \in Order : o \in todo[w] \/ cur[w] = o => status[o] # "NONE"

\* ... and a request belongs to a first submission or to a pass of its worker.
RequestsOwned ==
  \A w \in Worker, o \in Order : wire[w][o] # "none" =>
    \/ call[o] = "submit" /\ caller[o] = w
    \/ phase[w] = "submit" /\ cur[w] = o

HandsInv == Unqueued /\ PassesHandleEntries /\ RequestsOwned

LEMMA HandsStep == TypeOK /\ HandsInv /\ [Next]_vars => HandsInv'
<1> SUFFICES ASSUME TypeOK, HandsInv, [Next]_vars PROVE HandsInv'
  OBVIOUS
<1> USE DEF HandsInv, Unqueued, PassesHandleEntries, RequestsOwned
<1> USE DEF TypeOK, Status, Phase, Verdict, CallAt, Running, Request
<1>1. ASSUME NEW w \in Worker, NEW p \in Order, Submission(w, p)
      PROVE  HandsInv'
  <2>1. UNCHANGED <<phase, cur, todo>>
    BY <1>1 DEF Submission, HandleIntent, SubmitDefensively, ReplyToCall, AddEntry, passVars
  <2>2. CASE HandleIntent(w, p) \/ SubmitDefensively(w, p)
    <3>1. /\ call[p] = "idle"
          /\ caller' = [caller EXCEPT ![p] = w]
          /\ UNCHANGED status
      BY <2>2 DEF HandleIntent, SubmitDefensively, storeVars
    <3>2. CASE /\ call' = [call EXCEPT ![p] = "submit"]
               /\ wire' = [wire EXCEPT ![w][p] = "sent"]
      BY <2>1, <3>1, <3>2
    <3>3. CASE /\ call' = [call EXCEPT ![p] = AfterEnqueue(w)]
               /\ UNCHANGED wire
      BY <2>1, <3>1, <3>3 DEF AfterEnqueue
    <3> QED BY <2>2, <3>2, <3>3 DEF HandleIntent, SubmitDefensively, Send, netVars
  <2>3. CASE ReplyToCall(w, p)
    <3>1. /\ call[p] = "submit"
          /\ caller[p] = w
          /\ UNCHANGED <<status, caller>>
          /\ wire' = [wire EXCEPT ![w][p] = "none"]
      BY <2>3 DEF ReplyToCall, storeVars
    <3>2. PICK c \in {"filled", "enqueue", "limited", "failed"} : call' = [call EXCEPT ![p] = c]
      BY <2>3 DEF ReplyToCall, AfterEnqueue
    <3> QED BY <2>1, <3>1, <3>2
  <2>4. CASE AddEntry(w, p)
    BY <2>1, <2>4 DEF AddEntry, netVars
  <2> QED BY <1>1, <2>2, <2>3, <2>4 DEF Submission
<1>2. ASSUME NEW w \in Worker, NEW p \in Order, Exchange(w, p)
      PROVE  HandsInv'
  <2>1. UNCHANGED <<phase, cur, todo, status, call, caller>>
    BY <1>2 DEF Exchange, Fill, Refuse, LoseReply, passVars, storeVars, callVars
  <2>2. wire[w][p] # "none"
    BY <1>2 DEF Exchange, Fill, Refuse, LoseReply
  <2>3. PICK r \in Request : wire' = [wire EXCEPT ![w][p] = r]
    BY <1>2 DEF Exchange, Fill, Refuse, LoseReply
  <2> QED BY <2>1, <2>2, <2>3
<1>3. ASSUME NEW w \in Worker, Replay(w)
      PROVE  HandsInv'
  <2>0. UNCHANGED <<call, caller>>
    BY <1>3 DEF Replay, BeginReplay, LoadPending, TakeEntry, ReplyToPass, MarkEntry,
                EndReplay, callVars
  <2>1. CASE BeginReplay(w)
    BY <2>0, <2>1 DEF BeginReplay, MayReplay, Replaying, StartPass, storeVars, netVars
  <2>2. CASE LoadPending(w)
    BY <2>0, <2>2 DEF LoadPending, storeVars, netVars
  <2>3. CASE EndReplay(w)
    BY <2>0, <2>3, ConstantsAssumption DEF EndReplay, ForgetPass, storeVars, netVars
  <2>4. ASSUME NEW p \in Order, TakeEntry(w, p)
        PROVE  HandsInv'
    <3>1. /\ phase[w] = "next"
          /\ p \in todo[w]
          /\ cur' = [cur EXCEPT ![w] = p]
          /\ todo' = [todo EXCEPT ![w] = @ \ {p}]
          /\ UNCHANGED status
      BY <2>4 DEF TakeEntry, storeVars
    <3>2. \/ /\ phase' = [phase EXCEPT ![w] = "mark"]
             /\ UNCHANGED wire
          \/ /\ phase' = [phase EXCEPT ![w] = "submit"]
             /\ wire' = [wire EXCEPT ![w][p] = "sent"]
      BY <2>4 DEF TakeEntry, Send, netVars
    <3>3. Unqueued' /\ PassesHandleEntries'
      BY <2>0, <3>1
    <3>4. RequestsOwned'
      <4>1. CASE /\ phase' = [phase EXCEPT ![w] = "mark"]
                 /\ UNCHANGED wire
        BY <2>0, <3>1, <4>1
      <4>2. CASE /\ phase' = [phase EXCEPT ![w] = "submit"]
                 /\ wire' = [wire EXCEPT ![w][p] = "sent"]
        BY <2>0, <3>1, <4>2
      <4> QED BY <3>2, <4>1, <4>2
    <3> QED BY <3>3, <3>4
  <2>5. CASE ReplyToPass(w)
    BY <2>0, <2>5 DEF ReplyToPass, storeVars
  <2>6. CASE MarkEntry(w)
    <3>1. CASE verdict[w] = "RETRY"
      <4>1. /\ cur' = [cur EXCEPT ![w] = None]
            /\ phase[w] = "mark" /\ phase' = [phase EXCEPT ![w] = "next"]
            /\ UNCHANGED <<status, todo, wire>>
        BY <2>6, <3>1 DEF MarkEntry, netVars
      <4>2. Unqueued'
        BY <2>0, <4>1
      <4>3. PassesHandleEntries'
        BY <4>1, ConstantsAssumption
      <4>4. RequestsOwned'
        BY <2>0, <4>1
      <4> QED BY <4>2, <4>3, <4>4
    <3>2. CASE verdict[w] # "RETRY"
      <4>1. /\ cur' = [cur EXCEPT ![w] = None]
            /\ status' = [status EXCEPT ![cur[w]] = verdict[w]]
            /\ phase[w] = "mark" /\ phase' = [phase EXCEPT ![w] = "next"]
            /\ UNCHANGED <<todo, wire>>
        BY <2>6, <3>2 DEF MarkEntry, netVars
      <4>2. \A o \in Order : status'[o] = status[o] \/ (o = cur[w] /\ status'[o] # "NONE")
        <5>1. verdict[w] # "NONE"
          OBVIOUS
        <5>2. ASSUME NEW o \in Order
              PROVE  status'[o] = IF o = cur[w] THEN verdict[w] ELSE status[o]
          BY <4>1
        <5> HIDE DEF TypeOK, HandsInv
        <5> QED BY <5>1, <5>2
      <4>3. Unqueued'
        BY <2>0, <4>2
      <4>4. PassesHandleEntries'
        <5>1. \A v \in Worker, o \in Order :
                o \in todo'[v] \/ cur'[v] = o => o \in todo[v] \/ cur[v] = o
          BY <4>1, ConstantsAssumption
        <5>2. \A v \in Worker, o \in Order :
                o \in todo[v] \/ cur[v] = o => status[o] # "NONE"
          OBVIOUS
        <5> QED BY <4>2, <5>1, <5>2
      <4>5. RequestsOwned'
        BY <2>0, <4>1
      <4> QED BY <4>3, <4>4, <4>5
    <3> QED BY <3>1, <3>2
  <2> QED BY <1>3, <2>1, <2>2, <2>3, <2>4, <2>5, <2>6 DEF Replay
<1>4. ASSUME NEW w \in Worker, Surroundings(w)
      PROVE  HandsInv'
  <2>1. CASE OpenStore(w) \/ GoOnline(w) \/ GoOffline(w)
    BY <2>1 DEF OpenStore, GoOnline, GoOffline, MayReplay, Replaying, StartPass,
                storeVars, passVars, callVars, netVars
  <2>2. CASE FailPass(w)
    BY <2>2, ConstantsAssumption DEF FailPass, ForgetPass, storeVars, callVars
  <2>3. CASE Crash(w)
    BY <2>3, ConstantsAssumption DEF Crash, ForgetPass, storeVars
  <2> QED BY <1>4, <2>1, <2>2, <2>3 DEF Surroundings
<1>5. ASSUME NEW w \in Worker, NEW p \in Order, FailAdd(w, p)
      PROVE  HandsInv'
  <2>1. /\ call[p] \in {"enqueue", "limited"} /\ caller[p] = w
        /\ UNCHANGED <<storeVars, passVars, caller, netVars>>
    BY <1>5 DEF FailAdd
  <2>2. PICK c \in {"enqueue", "failed"} : call' = [call EXCEPT ![p] = c]
    BY <1>5 DEF FailAdd, AfterEnqueue
  <2> QED BY <2>1, <2>2 DEF storeVars, passVars, netVars
<1>6. ASSUME NEW p \in Order, StrayArrives(p) \/ PassTTL(p)
      PROVE  HandsInv'
  BY <1>6 DEF StrayArrives, PassTTL, storeVars, passVars, callVars, netVars
<1>7. CASE UNCHANGED vars
  BY <1>7 DEF vars, storeVars, passVars, callVars, netVars
<1> QED BY <1>1, <1>2, <1>3, <1>4, <1>5, <1>6, <1>7 DEF Next

\* No order is both being submitted for the first time and in the queue or in
\* some worker's pass, with any number of workers on the store.
THEOREM OneHandCorrect == Spec => []OneHand
<1>1. Init => HandsInv
  <2> SUFFICES ASSUME Init PROVE HandsInv
    OBVIOUS
  <2> QED
    BY ConstantsAssumption
       DEF Init, HandsInv, Unqueued, PassesHandleEntries, RequestsOwned
<1>2. HandsInv => OneHand
  BY DEF HandsInv, Unqueued, PassesHandleEntries, RequestsOwned, OneHand
<1> QED
  BY <1>1, <1>2, TypeCorrect, HandsStep, PTL DEF Spec

-----------------------------------------------------------------------------
(* A single worker uses the store (one tab, or the daemon).  With two none  *)
(* of the following holds: a pass whose list is old overwrites what another *)
(* has written.                                                             *)

SoleWorker == \E w : Worker = {w}

\* A pass has an entry in hand exactly while it submits and marks it.
InHand ==
  \A w \in Worker : cur[w] = None <=> phase[w] \notin {"submit", "mark"}

\* The list of the pass is not stale: what it holds is still pending, and the
\* entry in hand is not met again.
PassPending ==
  \A w \in Worker :
    /\ \A o \in Order : o \in todo[w] \/ cur[w] = o => status[o] = "PENDING"
    /\ cur[w] \notin todo[w]

\* An order filled at once is never queued.
FilledNotQueued ==
  \A o \in Order : call[o] = "filled" => status[o] = "NONE"

PassInv == InHand /\ PassPending /\ FilledNotQueued

\* The worker, or its store, knows that o is filled.
Known(w, o) ==
  \/ call[o] = "filled"
  \/ status[o] = "SUBMITTED"
  \/ FillUnwritten(w, o)

One(b) == IF b THEN 1 ELSE 0

\* It knows, or it is waiting to hear, that o is filled.
Claim(w, o) == Known(w, o) \/ wire[w][o] \in {"sent", "filled"}

\* Every execution, done or still possible, is one of those the queue cannot
\* know of, or the one it claims.
Balanced(w, o) ==
  fills[o] + stray[o] + One(wire[w][o] = "sent") <= unrecorded[o] + One(Claim(w, o))

FillsAccounted == \A w \in Worker, o \in Order : Balanced(w, o)

LEMMA PassStep ==
  ASSUME NEW w, Worker = {w}, TypeOK, HandsInv, PassInv, [Next]_vars
  PROVE  PassInv'
<1> USE ConstantsAssumption DEF PassInv, InHand, PassPending, FilledNotQueued
<1> USE DEF HandsInv, Unqueued, Running
<1> USE DEF TypeOK, Status, Phase, Verdict, CallAt, Running, Request
<1>1. ASSUME NEW p \in Order, Submission(w, p)
      PROVE  PassInv'
  <2>1. UNCHANGED <<phase, cur, todo>>
    BY <1>1 DEF Submission, HandleIntent, SubmitDefensively, ReplyToCall, AddEntry, passVars
  <2>2. CASE HandleIntent(w, p) \/ SubmitDefensively(w, p)
    <3>1. UNCHANGED status
      BY <2>2 DEF HandleIntent, SubmitDefensively, storeVars
    <3>2. PICK c \in {"submit", "enqueue", "failed"} : call' = [call EXCEPT ![p] = c]
      BY <2>2 DEF HandleIntent, SubmitDefensively, AfterEnqueue
    <3> QED BY <2>1, <3>1, <3>2
  <2>3. CASE ReplyToCall(w, p)
    <3>1. call[p] = "submit" /\ UNCHANGED status
      BY <2>3 DEF ReplyToCall, storeVars
    <3>2. PICK c \in {"filled", "enqueue", "limited", "failed"} : call' = [call EXCEPT ![p] = c]
      BY <2>3 DEF ReplyToCall, AfterEnqueue
    <3> QED BY <2>1, <3>1, <3>2
  <2>4. CASE AddEntry(w, p)
    BY <2>1, <2>4 DEF AddEntry
  <2> QED BY <1>1, <2>2, <2>3, <2>4 DEF Submission
<1>2. ASSUME NEW p \in Order, Exchange(w, p)
      PROVE  PassInv'
  BY <1>2 DEF Exchange, Fill, Refuse, LoseReply, passVars, storeVars, callVars
<1>3. CASE Replay(w)
  <2>0. UNCHANGED call
    BY <1>3 DEF Replay, BeginReplay, LoadPending, TakeEntry, ReplyToPass, MarkEntry,
                EndReplay, callVars
  <2>1. CASE BeginReplay(w)
    BY <2>0, <2>1 DEF BeginReplay, MayReplay, Replaying, StartPass, storeVars
  <2>2. CASE LoadPending(w)
    BY <2>0, <2>2 DEF LoadPending, storeVars
  <2>3. CASE EndReplay(w)
    BY <2>0, <2>3 DEF EndReplay, ForgetPass, storeVars
  <2>4. ASSUME NEW p \in Order, TakeEntry(w, p)
        PROVE  PassInv'
    <3>1. /\ phase[w] = "next"
          /\ p \in todo[w]
          /\ cur' = [cur EXCEPT ![w] = p]
          /\ todo' = [todo EXCEPT ![w] = @ \ {p}]
          /\ UNCHANGED status
      BY <2>4 DEF TakeEntry, storeVars
    <3>2. PICK q \in {"mark", "submit"} : phase' = [phase EXCEPT ![w] = q]
      BY <2>4 DEF TakeEntry
    <3> QED BY <2>0, <3>1, <3>2
  <2>5. CASE ReplyToPass(w)
    BY <2>0, <2>5 DEF ReplyToPass, storeVars
  <2>6. CASE MarkEntry(w)
    <3>1. CASE verdict[w] = "RETRY"
      BY <2>0, <2>6, <3>1 DEF MarkEntry
    <3>2. CASE verdict[w] # "RETRY"
      <4>1. /\ cur' = [cur EXCEPT ![w] = None]
            /\ status' = [status EXCEPT ![cur[w]] = verdict[w]]
            /\ phase[w] = "mark" /\ phase' = [phase EXCEPT ![w] = "next"]
            /\ UNCHANGED todo
        BY <2>6, <3>2 DEF MarkEntry
      <4>2. \A o \in Order : o # cur[w] => status'[o] = status[o]
        BY <4>1
      <4>3. InHand' /\ PassPending'
        BY <4>1, <4>2
      <4>4. FilledNotQueued'
        BY <2>0, <4>1, <4>2
      <4> QED BY <4>3, <4>4
    <3> QED BY <3>1, <3>2
  <2> QED BY <1>3, <2>1, <2>2, <2>3, <2>4, <2>5, <2>6 DEF Replay
<1>4. CASE Surroundings(w)
  <2>1. CASE OpenStore(w) \/ GoOnline(w) \/ GoOffline(w)
    BY <2>1 DEF OpenStore, GoOnline, GoOffline, MayReplay, Replaying, StartPass,
                storeVars, passVars, callVars
  <2>2. CASE FailPass(w)
    BY <2>2 DEF FailPass, ForgetPass, storeVars, callVars
  <2>3. CASE Crash(w)
    BY <2>3 DEF Crash, ForgetPass, storeVars
  <2> QED BY <1>4, <2>1, <2>2, <2>3 DEF Surroundings
<1>5. ASSUME NEW p \in Order, FailAdd(w, p)
      PROVE  PassInv'
  BY <1>5 DEF FailAdd, storeVars, passVars
<1>6. ASSUME NEW p \in Order, StrayArrives(p) \/ PassTTL(p)
      PROVE  PassInv'
  BY <1>6 DEF StrayArrives, PassTTL, storeVars, passVars, callVars
<1>7. CASE UNCHANGED vars
  BY <1>7 DEF vars, storeVars, passVars, callVars
<1> QED BY <1>1, <1>2, <1>3, <1>4, <1>5, <1>6, <1>7 DEF Next

-----------------------------------------------------------------------------
(* The queue implements SafLifecycle                                       *)

LEMMA LifeStep ==
  ASSUME NEW w, Worker = {w}, TypeOK, FilledInv, HandsInv, PassInv, [Next]_vars
  PROVE  [Lifecycle!LifeNext]_(Lifecycle!lifeVars)
<1> USE DEF Lifecycle!LifeNext, Lifecycle!lifeVars
<1> SUFFICES ASSUME ~UNCHANGED <<status, fills>>
             PROVE  Lifecycle!LifeNext
  OBVIOUS
<1>1. ASSUME NEW p \in Order, AddEntry(w, p)
      PROVE  Lifecycle!Enqueue(p)
  BY <1>1 DEF AddEntry, netVars, HandsInv, Unqueued, Running, Lifecycle!Enqueue, Lifecycle!Turn
<1>2. ASSUME NEW p \in Order, Fill(w, p)
      PROVE  Lifecycle!Execute(p)
  BY <1>2 DEF Fill, storeVars, Lifecycle!Execute
<1>3. ASSUME NEW p \in Order, StrayArrives(p)
      PROVE  Lifecycle!Execute(p)
  BY <1>3 DEF StrayArrives, storeVars, Lifecycle!Execute
<1>4. CASE MarkEntry(w)
  <2>1. /\ cur[w] \in Order
        /\ status[cur[w]] = "PENDING"
        /\ UNCHANGED fills
    BY <1>4 DEF MarkEntry, netVars, FilledInv, Handling, PassInv, PassPending
  <2>2. CASE verdict[w] = "RETRY"
    BY <1>4, <2>1, <2>2 DEF MarkEntry
  <2>3. CASE verdict[w] = "SUBMITTED"
    <3>1. fills[cur[w]] > 0
      BY <1>4, <2>3 DEF MarkEntry, FilledInv, FillNewsTrue
    <3>2. status' = [status EXCEPT ![cur[w]] = "SUBMITTED"]
      BY <1>4, <2>3 DEF MarkEntry
    <3> QED BY <2>1, <3>1, <3>2 DEF Lifecycle!Submit, Lifecycle!Turn
  <2>4. CASE verdict[w] = "EXPIRED"
    <3>1. status' = [status EXCEPT ![cur[w]] = "EXPIRED"]
      BY <1>4, <2>4 DEF MarkEntry
    <3> QED BY <2>1, <3>1 DEF Lifecycle!Expire, Lifecycle!Turn
  <2> QED BY <2>2, <2>3, <2>4 DEF TypeOK, Verdict
<1>5. ASSUME NEW p \in Order,
             \/ HandleIntent(w, p) \/ SubmitDefensively(w, p) \/ ReplyToCall(w, p)
             \/ Refuse(w, p) \/ LoseReply(w, p) \/ FailAdd(w, p)
             \/ TakeEntry(w, p) \/ PassTTL(p)
      PROVE  FALSE
  BY <1>5 DEF HandleIntent, SubmitDefensively, ReplyToCall, Refuse, LoseReply, FailAdd,
              TakeEntry, PassTTL, Send, storeVars, netVars
<1>6. CASE BeginReplay(w) \/ LoadPending(w) \/ ReplyToPass(w) \/ EndReplay(w)
  BY <1>6 DEF BeginReplay, LoadPending, ReplyToPass, EndReplay, storeVars, netVars
<1>7. CASE Surroundings(w)
  BY <1>7 DEF Surroundings, OpenStore, GoOnline, GoOffline, FailPass, Crash, storeVars, netVars
<1>8. CASE UNCHANGED vars
  BY <1>8 DEF vars, storeVars, netVars
<1> QED
  BY <1>1, <1>2, <1>3, <1>4, <1>5, <1>6, <1>7, <1>8
     DEF Next, Submission, Exchange, Replay

\* With one worker on the store the queue keeps the promise of SafLifecycle:
\* each order queued at most once, its end final, SUBMITTED only if executed.
THEOREM LifecycleImplemented == SoleWorker => (Spec => ImplementsLifecycle)
<1> SUFFICES ASSUME SoleWorker PROVE Spec => ImplementsLifecycle
  OBVIOUS
<1>1. PICK w : Worker = {w}
  BY DEF SoleWorker
<1>2. Init => Lifecycle!LifeInit
  BY DEF Init, Lifecycle!LifeInit
<1>3. Init => FilledInv /\ HandsInv /\ PassInv
  BY ConstantsAssumption, <1>1
     DEF Init, FilledInv, Handling, FillNewsTrue, SubmittedWasFilled, HandsInv, Unqueued, Running,
         PassesHandleEntries, RequestsOwned, PassInv, InHand, PassPending, FilledNotQueued
<1>4. TypeOK /\ HandsInv /\ PassInv /\ [Next]_vars => PassInv'
  BY <1>1, PassStep
<1>5. TypeOK /\ FilledInv /\ HandsInv /\ PassInv /\ [Next]_vars
        => [Lifecycle!LifeNext]_(Lifecycle!lifeVars)
  BY <1>1, LifeStep
<1> QED
  BY <1>2, <1>3, <1>4, <1>5, TypeCorrect, FilledStep, HandsStep, PTL
     DEF Spec, ImplementsLifecycle, Lifecycle!LifeSpec

-----------------------------------------------------------------------------
(* Every repeated execution has an explanation                             *)

\* An order about to be sent is not known to be filled and not under way.
LEMMA SendIsNew ==
  ASSUME NEW w, Worker = {w}, TypeOK, HandsInv, PassInv, NEW p \in Order,
         \/ call[p] = "idle"
         \/ phase[w] = "next" /\ p \in todo[w]
  PROVE  ~Claim(w, p)
<1> USE ConstantsAssumption
    DEF Claim, Known, FillUnwritten, HandsInv, Unqueued, Running, PassesHandleEntries,
        RequestsOwned, PassInv, PassPending, InHand, FilledNotQueued
<1>1. CASE call[p] = "idle"
  BY <1>1
<1>2. CASE phase[w] = "next" /\ p \in todo[w]
  BY <1>2
<1> QED BY <1>1, <1>2

\* A step that disturbs neither the counts of an order nor its claim.
LEMMA BalanceKept ==
  ASSUME NEW w, NEW o, Balanced(w, o), Known(w, o)' <=> Known(w, o),
         fills'[o] = fills[o], stray'[o] = stray[o], unrecorded'[o] = unrecorded[o],
         wire'[w][o] = wire[w][o]
  PROVE  Balanced(w, o)'
BY DEF Balanced, Claim

\* Sending an order keeps the balance of every order.
LEMMA SendBalanced ==
  ASSUME NEW w, Worker = {w}, TypeOK, FillsAccounted,
         NEW p \in Order, Send(w, p), ~Claim(w, p),
         NEW o \in Order, Known(w, o)' <=> Known(w, o)
  PROVE  Balanced(w, o)'
<1>1. /\ fills'[o] = fills[o] /\ stray'[o] = stray[o] /\ unrecorded'[o] = unrecorded[o]
      /\ fills[o] \in Nat /\ stray[o] \in Nat /\ unrecorded[o] \in Nat
  BY DEF Send, TypeOK
<1>2. Balanced(w, o)
  BY DEF FillsAccounted
<1>3. CASE o = p
  <2>1. wire'[w][o] = "sent"
    BY <1>3 DEF Send, TypeOK
  <2>2. wire[w][o] # "sent" /\ ~Claim(w, o)
    BY <1>3 DEF Claim
  <2> QED BY <1>1, <1>2, <2>1, <2>2 DEF Balanced, Claim, One
<1>4. CASE o # p
  <2>1. wire'[w][o] = wire[w][o]
    BY <1>4 DEF Send, TypeOK
  <2> QED BY <1>1, <1>2, <2>1, BalanceKept
<1> QED BY <1>3, <1>4

LEMMA AccountStep ==
  ASSUME NEW w, Worker = {w}, TypeOK, HandsInv, PassInv, FillsAccounted, [Next]_vars
  PROVE  FillsAccounted'
<1> SUFFICES ASSUME NEW o \in Order PROVE Balanced(w, o)'
  BY DEF FillsAccounted
<1>0. /\ fills[o] \in Nat /\ stray[o] \in Nat /\ unrecorded[o] \in Nat
      /\ Balanced(w, o)
  BY DEF FillsAccounted, TypeOK
<1> USE DEF Known, FillUnwritten
<1>1. ASSUME NEW p \in Order, HandleIntent(w, p) \/ SubmitDefensively(w, p)
      PROVE  Balanced(w, o)'
  <2>1. ~Claim(w, p)
    BY <1>1, SendIsNew DEF HandleIntent, SubmitDefensively
  <2>2. PICK c \in CallAt \ {"filled"} : call' = [call EXCEPT ![p] = c]
    BY <1>1 DEF HandleIntent, SubmitDefensively, AfterEnqueue, CallAt
  <2>3. UNCHANGED <<status, phase, cur, verdict>> /\ call[p] = "idle"
    BY <1>1 DEF HandleIntent, SubmitDefensively, storeVars, passVars
  <2>4. Known(w, o)' <=> Known(w, o)
    BY <2>2, <2>3 DEF TypeOK
  <2>5. CASE Send(w, p)
    BY <2>1, <2>4, <2>5, SendBalanced
  <2>6. CASE UNCHANGED netVars
    BY <1>0, <2>4, <2>6, BalanceKept DEF netVars
  <2> QED BY <1>1, <2>5, <2>6 DEF HandleIntent, SubmitDefensively
<1>2. ASSUME NEW p \in Order, ReplyToCall(w, p)
      PROVE  Balanced(w, o)'
  <2>1. UNCHANGED <<fills, stray, unrecorded, status, phase, cur, verdict>>
    BY <1>2 DEF ReplyToCall, storeVars, passVars
  <2>2. CASE o = p
    <3>1. wire'[w][o] = "none" /\ wire[w][o] \in {"filled", "refused", "error"}
      BY <1>2, <2>2 DEF ReplyToCall, TypeOK
    <3>2. call[o] = "submit" /\ (call'[o] = "filled" <=> wire[w][o] = "filled")
      BY <1>2, <2>2 DEF ReplyToCall, AfterEnqueue, TypeOK
    <3> QED BY <1>0, <2>1, <3>1, <3>2 DEF Balanced, Claim, One
  <2>3. CASE o # p
    BY <1>0, <1>2, <2>1, <2>3, BalanceKept DEF ReplyToCall, TypeOK
  <2> QED BY <2>2, <2>3
<1>3. ASSUME NEW p \in Order, AddEntry(w, p)
      PROVE  Balanced(w, o)'
  <2>1. Known(w, o)' <=> Known(w, o)
    BY <1>3 DEF AddEntry, TypeOK, passVars, HandsInv, Unqueued, Running
  <2> QED BY <1>0, <1>3, <2>1, BalanceKept DEF AddEntry, netVars
<1>4. ASSUME NEW p \in Order, Exchange(w, p)
      PROVE  Balanced(w, o)'
  <2>1. Known(w, o)' <=> Known(w, o)
    BY <1>4 DEF Exchange, Fill, Refuse, LoseReply, passVars, storeVars, callVars
  <2>2. CASE o # p
    <3>1. /\ fills'[o] = fills[o] /\ stray'[o] = stray[o]
          /\ unrecorded'[o] = unrecorded[o] /\ wire'[w][o] = wire[w][o]
      BY <1>4, <2>2 DEF Exchange, Fill, Refuse, LoseReply, TypeOK
    <3> QED BY <1>0, <2>1, <3>1, BalanceKept
  <2>3. CASE o = p /\ Fill(w, p)
    <3>1. /\ wire[w][o] = "sent" /\ wire'[w][o] = "filled"
          /\ fills'[o] = fills[o] + 1
          /\ stray'[o] = stray[o] /\ unrecorded'[o] = unrecorded[o]
      BY <2>3 DEF Fill, TypeOK
    <3> QED BY <1>0, <2>1, <3>1 DEF Balanced, Claim, One
  <2>4. CASE o = p /\ Refuse(w, p)
    <3>1. /\ wire[w][o] = "sent" /\ wire'[w][o] = "refused"
          /\ fills'[o] = fills[o]
          /\ stray'[o] = stray[o] /\ unrecorded'[o] = unrecorded[o]
      BY <2>4 DEF Refuse, TypeOK
    <3> QED BY <1>0, <2>1, <3>1 DEF Balanced, Claim, One
  <2>5. CASE o = p /\ LoseReply(w, p)
    <3>1. wire'[w][o] = "error" /\ fills'[o] = fills[o]
      BY <2>5 DEF LoseReply, TypeOK
    <3>2. \/ /\ wire[w][o] = "sent"
             /\ stray'[o] = stray[o] /\ unrecorded'[o] = unrecorded[o]
          \/ /\ wire[w][o] = "sent"
             /\ stray'[o] = stray[o] + 1 /\ unrecorded'[o] = unrecorded[o] + 1
          \/ /\ wire[w][o] = "filled"
             /\ stray'[o] = stray[o] /\ unrecorded'[o] = unrecorded[o] + 1
      BY <2>5 DEF LoseReply, TypeOK
    <3> QED BY <1>0, <2>1, <3>1, <3>2 DEF Balanced, Claim, One
  <2> QED BY <1>4, <2>2, <2>3, <2>4, <2>5 DEF Exchange
<1>5. ASSUME NEW p \in Order, StrayArrives(p)
      PROVE  Balanced(w, o)'
  <2>1. Known(w, o)' <=> Known(w, o)
    BY <1>5 DEF StrayArrives, passVars, storeVars, callVars
  <2>2. CASE o # p
    BY <1>0, <1>5, <2>1, <2>2, BalanceKept DEF StrayArrives, TypeOK
  <2>3. CASE o = p
    <3>1. /\ stray[o] > 0 /\ stray'[o] = stray[o] - 1
          /\ UNCHANGED <<wire, unrecorded>>
      BY <1>5, <2>3 DEF StrayArrives, TypeOK
    <3>2. fills'[o] = fills[o] \/ fills'[o] = fills[o] + 1
      BY <1>5, <2>3 DEF StrayArrives, TypeOK
    <3> QED BY <1>0, <2>1, <3>1, <3>2 DEF Balanced, Claim, One
  <2> QED BY <2>2, <2>3
<1>6. ASSUME NEW p \in Order, TakeEntry(w, p)
      PROVE  Balanced(w, o)'
  <2>1. phase[w] = "next" /\ p \in todo[w] /\ UNCHANGED <<status, call>>
    BY <1>6 DEF TakeEntry, storeVars, callVars
  <2>2. \/ /\ phase'[w] = "mark" /\ verdict'[w] = "EXPIRED" /\ UNCHANGED netVars
        \/ /\ phase'[w] = "submit" /\ Send(w, p)
    BY <1>6 DEF TakeEntry, TypeOK
  <2>3. Known(w, o)' <=> Known(w, o)
    BY <2>1, <2>2
  <2>4. CASE Send(w, p)
    BY <2>1, <2>3, <2>4, SendIsNew, SendBalanced
  <2>5. CASE UNCHANGED netVars
    BY <1>0, <2>3, <2>5, BalanceKept DEF netVars
  <2> QED BY <2>2, <2>4, <2>5
<1>7. CASE ReplyToPass(w)
  <2>1. /\ phase[w] = "submit" /\ phase'[w] = "mark"
        /\ UNCHANGED <<fills, stray, unrecorded, status, call, cur>>
        /\ verdict'[w] = IF wire[w][cur[w]] = "filled" THEN "SUBMITTED" ELSE "RETRY"
        /\ wire[w][cur[w]] \in {"filled", "refused", "error"}
    BY <1>7 DEF ReplyToPass, storeVars, callVars, TypeOK
  <2>2. CASE o = cur[w]
    <3>1. wire'[w][o] = "none"
      BY <1>7, <2>2 DEF ReplyToPass, TypeOK
    <3> QED BY <1>0, <2>1, <2>2, <3>1 DEF Balanced, Claim, One
  <2>3. CASE o # cur[w]
    <3>1. wire'[w][o] = wire[w][o]
      BY <1>7, <2>3 DEF ReplyToPass, TypeOK
    <3> QED BY <1>0, <2>1, <2>3, <3>1, BalanceKept
  <2> QED BY <2>2, <2>3
<1>8. CASE MarkEntry(w)
  <2>1. /\ phase[w] = "mark" /\ phase'[w] = "next"
        /\ UNCHANGED <<wire, fills, stray, unrecorded, call>>
    BY <1>8 DEF MarkEntry, netVars, callVars, TypeOK
  <2>2. /\ cur[w] \in Order
        /\ status[cur[w]] = "PENDING"
    BY <2>1 DEF PassInv, InHand, PassPending, TypeOK
  <2>3. status'[o] = IF o = cur[w] /\ verdict[w] # "RETRY" THEN verdict[w] ELSE status[o]
    BY <1>8 DEF MarkEntry, TypeOK
  <2>4. Known(w, o)' <=> Known(w, o)
    BY <2>1, <2>2, <2>3 DEF TypeOK, Verdict
  <2> QED BY <1>0, <2>1, <2>4, BalanceKept
<1>9. CASE BeginReplay(w) \/ LoadPending(w) \/ EndReplay(w)
  <2>1. /\ phase[w] # "mark" /\ phase'[w] # "mark"
        /\ UNCHANGED <<status, call, wire, fills, stray, unrecorded>>
    BY <1>9 DEF BeginReplay, MayReplay, Replaying, LoadPending, EndReplay, StartPass,
                storeVars, callVars, netVars, TypeOK
  <2> QED BY <1>0, <2>1, BalanceKept
<1>10. CASE OpenStore(w) \/ GoOnline(w) \/ GoOffline(w)
  <2>1. Known(w, o)' <=> Known(w, o)
    BY <1>10 DEF OpenStore, GoOnline, GoOffline, MayReplay, Replaying, StartPass,
                 storeVars, passVars, callVars, TypeOK
  <2> QED BY <1>0, <1>10, <2>1, BalanceKept DEF OpenStore, GoOnline, GoOffline, netVars
<1>11. CASE FailPass(w)
  <2>1. /\ phase'[w] = "stuck"
        /\ UNCHANGED <<status, call, wire, fills, stray>>
        /\ unrecorded'[o] = IF FillUnwritten(w, o) THEN unrecorded[o] + 1 ELSE unrecorded[o]
    BY <1>11 DEF FailPass, storeVars, callVars, TypeOK
  <2> QED BY <1>0, <2>1 DEF Balanced, Claim, One
<1>12. CASE Crash(w)
  <2>1. /\ phase'[w] = "off" /\ wire'[w][o] = "none"
        /\ UNCHANGED <<status, fills>>
        /\ call'[o] = "filled" <=> call[o] = "filled"
    BY <1>12 DEF Crash, Running, storeVars, TypeOK
  <2>2. \/ /\ wire[w][o] = "sent"
           /\ stray'[o] = stray[o] + 1
           /\ unrecorded'[o] = unrecorded[o] + 1
        \/ /\ stray'[o] = stray[o]
           /\ unrecorded'[o] = unrecorded[o]
                + One(wire[w][o] = "filled" \/ FillUnwritten(w, o))
    BY <1>0, <1>12 DEF Crash, One
  <2>3. Known(w, o)' <=> call[o] = "filled" \/ status[o] = "SUBMITTED"
    BY <2>1
  <2> QED BY <1>0, <2>1, <2>2, <2>3 DEF Balanced, Claim, One
<1>13. ASSUME NEW p \in Order, FailAdd(w, p) \/ PassTTL(p)
       PROVE  Balanced(w, o)'
  <2>1. Known(w, o)' <=> Known(w, o)
    <3>1. UNCHANGED <<status, phase, cur, verdict>>
      BY <1>13 DEF FailAdd, PassTTL, storeVars, passVars
    <3>2. call'[o] = "filled" <=> call[o] = "filled"
      BY <1>13 DEF FailAdd, PassTTL, AfterEnqueue, TypeOK, callVars
    <3> QED BY <3>1, <3>2
  <2> QED BY <1>0, <1>13, <2>1, BalanceKept DEF FailAdd, PassTTL, netVars
<1>14. CASE UNCHANGED vars
  BY <1>0, <1>14, BalanceKept DEF vars, storeVars, passVars, callVars, netVars
<1> QED
  BY <1>1, <1>2, <1>3, <1>4, <1>5, <1>6, <1>7, <1>8, <1>9, <1>10, <1>11, <1>12, <1>13, <1>14
     DEF Next, Submission, Replay, Surroundings

\* With one worker on the store, an order is executed again only after a fill
\* the queue could not know of.
THEOREM RepeatsExplained == SoleWorker => (Spec => []RepeatFillsExplained)
<1> SUFFICES ASSUME SoleWorker PROVE Spec => []RepeatFillsExplained
  OBVIOUS
<1>1. PICK w : Worker = {w}
  BY DEF SoleWorker
<1>2. Init => HandsInv /\ PassInv /\ FillsAccounted
  BY ConstantsAssumption, <1>1
     DEF Init, HandsInv, Unqueued, Running, PassesHandleEntries, RequestsOwned, PassInv, InHand,
         PassPending, FilledNotQueued, FillsAccounted, Balanced, One, Claim, Known,
         FillUnwritten
<1>3. TypeOK /\ HandsInv /\ PassInv /\ [Next]_vars => PassInv'
  BY <1>1, PassStep
<1>4. TypeOK /\ HandsInv /\ PassInv /\ FillsAccounted /\ [Next]_vars => FillsAccounted'
  BY <1>1, AccountStep
<1>5. TypeOK /\ FillsAccounted => RepeatFillsExplained
  <2> SUFFICES ASSUME TypeOK, FillsAccounted, NEW o \in Order
               PROVE  fills[o] <= 1 + unrecorded[o]
    BY DEF RepeatFillsExplained
  <2> QED BY <1>1 DEF FillsAccounted, Balanced, One, TypeOK
<1> QED
  BY <1>2, <1>3, <1>4, <1>5, TypeCorrect, HandsStep, PTL DEF Spec

-----------------------------------------------------------------------------
(* The attempts are bounded                                                *)

\* The retry counts of the pass are not stale.
SeenFresh ==
  \A w \in Worker, o \in Order : o \in todo[w] \/ cur[w] = o => seen[w][o] = retries[o]

FreshEntry == \A o \in Order : status[o] = "NONE" => retries[o] = 0

\* The pass has sent o and not yet counted the retry.
Trying(w, o) ==
  /\ cur[w] = o
  /\ phase[w] = "submit" \/ (phase[w] = "mark" /\ verdict[w] # "EXPIRED")

\* The retries of o that the queue has counted, will count, or that succeeded.
Used(w, o) == retries[o] + One(Trying(w, o) \/ status[o] = "SUBMITTED")

Counted(w, o) ==
  /\ attempts[o] <= One(call[o] # "idle") + Used(w, o) + crashes + storeFaults
  /\ Used(w, o) <= MaxRetries

RetryInv ==
  /\ SeenFresh
  /\ FreshEntry
  /\ \A w \in Worker, o \in Order : Counted(w, o)

\* A step that disturbs neither the counts of an order nor its progress.
LEMMA CountKept ==
  ASSUME NEW w, NEW o, Counted(w, o), call[o] # "idle" <=> call'[o] # "idle",
         Trying(w, o)' <=> Trying(w, o),
         retries'[o] = retries[o], attempts'[o] = attempts[o], status'[o] = status[o],
         crashes' = crashes, storeFaults' = storeFaults
  PROVE  Counted(w, o)'
BY DEF Counted, Used

LEMMA RetryStep ==
  ASSUME NEW w, Worker = {w}, TypeOK, HandsInv, PassInv, RetryInv, [Next]_vars
  PROVE  RetryInv'
<1> SUFFICES ASSUME NEW o \in Order
             PROVE  /\ o \in todo'[w] \/ cur'[w] = o => seen'[w][o] = retries'[o]
                    /\ status'[o] = "NONE" => retries'[o] = 0
                    /\ Counted(w, o)'
  BY DEF RetryInv, SeenFresh, FreshEntry
<1> DEFINE Goal == /\ o \in todo'[w] \/ cur'[w] = o => seen'[w][o] = retries'[o]
                   /\ status'[o] = "NONE" => retries'[o] = 0
                   /\ Counted(w, o)'
<1>0. /\ attempts[o] \in Nat /\ retries[o] \in Nat /\ crashes \in Nat /\ storeFaults \in Nat
      /\ o \in todo[w] \/ cur[w] = o => seen[w][o] = retries[o]
      /\ status[o] = "NONE" => retries[o] = 0
      /\ Counted(w, o)
  BY DEF RetryInv, SeenFresh, FreshEntry, TypeOK
<1> USE ConstantsAssumption
<1>1. ASSUME NEW p \in Order, HandleIntent(w, p) \/ SubmitDefensively(w, p)
      PROVE  Goal
  <2>1. /\ call[p] = "idle" /\ \E c \in CallAt \ {"idle"} : call' = [call EXCEPT ![p] = c]
        /\ UNCHANGED <<status, retries, phase, cur, todo, seen, verdict, crashes, storeFaults>>
    BY <1>1 DEF HandleIntent, SubmitDefensively, AfterEnqueue, CallAt, Running, storeVars, passVars,
                faultVars
  <2>2. attempts'[o] = attempts[o] \/ (o = p /\ attempts'[o] = attempts[o] + 1)
    BY <1>1 DEF HandleIntent, SubmitDefensively, Send, netVars, TypeOK
  <2>3. CASE o # p
    <3>1. call'[o] = call[o] /\ (Trying(w, o)' <=> Trying(w, o))
      BY <2>1, <2>3 DEF Trying, TypeOK
    <3> QED BY <1>0, <2>1, <2>2, <2>3, <3>1, CountKept
  <2>4. CASE o = p
    <3>1. call[o] = "idle" /\ call'[o] # "idle" /\ (Trying(w, o)' <=> Trying(w, o))
      BY <2>1, <2>4 DEF Trying, TypeOK, CallAt
    <3> QED BY <1>0, <2>1, <2>2, <3>1 DEF Counted, Used, One
  <2> QED BY <2>3, <2>4
<1>2. ASSUME NEW p \in Order, ReplyToCall(w, p)
      PROVE  Goal
  <2>1. UNCHANGED <<status, retries, phase, cur, todo, seen, verdict, attempts, crashes,
                    storeFaults>>
    BY <1>2 DEF ReplyToCall, storeVars, passVars, faultVars
  <2>2. (call[o] # "idle" <=> call'[o] # "idle") /\ (Trying(w, o)' <=> Trying(w, o))
    BY <1>2, <2>1 DEF ReplyToCall, AfterEnqueue, Trying, TypeOK
  <2> QED BY <1>0, <2>1, <2>2, CountKept
<1>3. ASSUME NEW p \in Order, AddEntry(w, p)
      PROVE  Goal
  <2>1. /\ UNCHANGED <<phase, cur, todo, seen, verdict, attempts, crashes, storeFaults>>
        /\ call[p] \in {"enqueue", "limited"} /\ call' = [call EXCEPT ![p] = "failed"]
        /\ status' = [status EXCEPT ![p] = "PENDING"]
        /\ retries' = [retries EXCEPT ![p] = 0]
    BY <1>3 DEF AddEntry, passVars, netVars, faultVars
  <2>2. status[p] = "NONE" /\ p \notin todo[w] /\ cur[w] # p
    BY <2>1 DEF HandsInv, Unqueued, Running, PassesHandleEntries
  <2>3. retries' = retries
    BY <2>1, <2>2 DEF RetryInv, FreshEntry, TypeOK
  <2>4. (status'[o] = "SUBMITTED" <=> status[o] = "SUBMITTED") /\ (Trying(w, o)' <=> Trying(w, o))
    BY <2>1, <2>2 DEF Trying, TypeOK
  <2>5. call[o] # "idle" <=> call'[o] # "idle"
    BY <2>1 DEF TypeOK
  <2>6. Counted(w, o)'
    BY <1>0, <2>1, <2>3, <2>4, <2>5 DEF Counted, Used, One
  <2> QED BY <1>0, <2>1, <2>2, <2>3, <2>6 DEF TypeOK
<1>4. ASSUME NEW p \in Order, Exchange(w, p) \/ StrayArrives(p) \/ PassTTL(p)
      PROVE  Goal
  <2>1. UNCHANGED <<status, retries, phase, cur, todo, seen, verdict, attempts, crashes,
                    storeFaults, call>>
    BY <1>4 DEF Exchange, Fill, Refuse, LoseReply, StrayArrives, PassTTL, storeVars,
                passVars, callVars, faultVars, netVars
  <2> QED BY <1>0, <2>1, CountKept DEF Trying
<1>5. ASSUME NEW p \in Order, TakeEntry(w, p)
      PROVE  Goal
  <2>1. /\ phase[w] = "next" /\ p \in todo[w]
        /\ UNCHANGED <<status, retries, seen, call, crashes, storeFaults>>
        /\ cur'[w] = p /\ todo'[w] = todo[w] \ {p}
    BY <1>5 DEF TakeEntry, storeVars, callVars, faultVars, TypeOK
  <2>2. status[p] = "PENDING" /\ seen[w][p] = retries[p] /\ cur[w] = None
    BY <2>1 DEF PassInv, PassPending, InHand, RetryInv, SeenFresh
  <2>3. CASE o # p
    <3>1. attempts'[o] = attempts[o]
      BY <1>5, <2>3 DEF TakeEntry, Send, netVars, TypeOK
    <3>2. Trying(w, o)' <=> Trying(w, o)
      BY <2>1, <2>3 DEF Trying
    <3> QED BY <1>0, <2>1, <2>3, <3>1, <3>2, CountKept
  <2>4. CASE o = p /\ GivenUp(w, p)
    <3>1. attempts'[o] = attempts[o] /\ phase'[w] = "mark" /\ verdict'[w] = "EXPIRED"
      BY <1>5, <2>4 DEF TakeEntry, netVars, TypeOK
    <3>2. Trying(w, o)' <=> Trying(w, o)
      BY <2>1, <3>1 DEF Trying
    <3> QED BY <1>0, <2>1, <2>4, <3>1, <3>2, CountKept
  <2>5. CASE o = p /\ ~GivenUp(w, p)
    <3>1. attempts'[o] = attempts[o] + 1 /\ phase'[w] = "submit"
      BY <1>5, <2>5 DEF TakeEntry, Send, TypeOK
    <3>2. retries[o] < MaxRetries
      BY <1>0, <2>2, <2>5 DEF GivenUp
    <3>3. Trying(w, o)' /\ ~Trying(w, o) /\ status[o] # "SUBMITTED"
      BY <2>1, <2>2, <2>5, <3>1 DEF Trying
    <3>4. Counted(w, o)'
      BY <1>0, <2>1, <3>1, <3>2, <3>3 DEF Counted, Used, One
    <3> QED BY <1>0, <2>1, <2>5, <3>4
  <2> QED BY <2>3, <2>4, <2>5
<1>6. CASE ReplyToPass(w)
  <2>1. /\ UNCHANGED <<status, retries, cur, todo, seen, attempts, crashes, storeFaults, call>>
        /\ phase[w] = "submit" /\ phase'[w] = "mark" /\ verdict'[w] # "EXPIRED"
    BY <1>6 DEF ReplyToPass, storeVars, callVars, faultVars, TypeOK
  <2>2. Trying(w, o)' <=> Trying(w, o)
    BY <2>1 DEF Trying
  <2> QED BY <1>0, <2>1, <2>2, CountKept
<1>7. CASE MarkEntry(w)
  <2>1. /\ phase[w] = "mark" /\ phase'[w] = "next" /\ cur'[w] = None
        /\ UNCHANGED <<todo, seen, attempts, crashes, storeFaults, call>>
    BY <1>7 DEF MarkEntry, callVars, netVars, faultVars, TypeOK
  <2>2. cur[w] \in Order /\ status[cur[w]] = "PENDING" /\ seen[w][cur[w]] = retries[cur[w]]
        /\ cur[w] \notin todo[w]
    BY <2>1 DEF PassInv, InHand, PassPending, RetryInv, SeenFresh, TypeOK
  <2>3. ~Trying(w, o)'
    BY <2>1 DEF Trying
  <2>4. CASE o # cur[w]
    <3>1. status'[o] = status[o] /\ retries'[o] = retries[o] /\ ~Trying(w, o)
      BY <1>7, <2>4 DEF MarkEntry, Trying, TypeOK
    <3> QED BY <1>0, <2>1, <2>3, <3>1, CountKept
  <2>5. CASE o = cur[w] /\ verdict[w] = "RETRY"
    <3>1. status'[o] = status[o] /\ retries'[o] = retries[o] + 1 /\ Trying(w, o)
      BY <1>7, <2>1, <2>2, <2>5 DEF MarkEntry, Trying, TypeOK
    <3>2. Counted(w, o)'
      BY <1>0, <2>1, <2>2, <2>3, <2>5, <3>1 DEF Counted, Used, One
    <3> QED BY <2>1, <2>2, <2>5, <3>1, <3>2
  <2>6. CASE o = cur[w] /\ verdict[w] = "SUBMITTED"
    <3>1. status'[o] = "SUBMITTED" /\ retries'[o] = retries[o] /\ Trying(w, o)
      BY <1>7, <2>1, <2>2, <2>6 DEF MarkEntry, Trying, TypeOK
    <3>2. Counted(w, o)'
      BY <1>0, <2>1, <2>2, <2>3, <2>6, <3>1 DEF Counted, Used, One
    <3> QED BY <1>0, <2>1, <2>2, <2>6, <3>1, <3>2
  <2>7. CASE o = cur[w] /\ verdict[w] = "EXPIRED"
    <3>1. status'[o] = "EXPIRED" /\ retries'[o] = retries[o] /\ ~Trying(w, o)
      BY <1>7, <2>1, <2>2, <2>7 DEF MarkEntry, Trying, TypeOK
    <3>2. Counted(w, o)'
      BY <1>0, <2>1, <2>2, <2>3, <2>7, <3>1 DEF Counted, Used, One
    <3> QED BY <1>0, <2>1, <2>2, <2>7, <3>1, <3>2
  <2> QED BY <2>4, <2>5, <2>6, <2>7 DEF TypeOK, Verdict
<1>8. CASE BeginReplay(w) \/ LoadPending(w) \/ EndReplay(w)
  <2>1. UNCHANGED <<status, retries, call, attempts, crashes, storeFaults>>
    BY <1>8 DEF BeginReplay, LoadPending, EndReplay, storeVars, callVars, netVars, faultVars
  <2>2. phase[w] \notin {"submit", "mark"} /\ phase'[w] \notin {"submit", "mark"}
    BY <1>8 DEF BeginReplay, MayReplay, Replaying, LoadPending, EndReplay, StartPass, TypeOK
  <2>3. o \in todo'[w] \/ cur'[w] = o => seen'[w][o] = retries'[o]
    BY <1>0, <1>8, <2>1, <2>2
       DEF BeginReplay, LoadPending, EndReplay, StartPass, ForgetPass, PassInv, InHand, TypeOK
  <2>4. Trying(w, o)' <=> Trying(w, o)
    BY <2>2 DEF Trying
  <2> QED BY <1>0, <2>1, <2>3, <2>4, CountKept
<1>9. CASE OpenStore(w) \/ GoOnline(w) \/ GoOffline(w)
  <2>1. UNCHANGED <<status, retries, call, attempts, crashes, storeFaults, todo, cur, seen, verdict>>
    BY <1>9 DEF OpenStore, GoOnline, GoOffline, StartPass, storeVars, callVars, netVars,
                faultVars, passVars
  <2>2. UNCHANGED phase \/ (phase[w] = "off" /\ phase'[w] = "load")
    BY <1>9 DEF OpenStore, GoOnline, GoOffline, MayReplay, Replaying, StartPass, passVars,
                TypeOK
  <2>3. Trying(w, o)' <=> Trying(w, o)
    BY <2>1, <2>2 DEF Trying
  <2> QED BY <1>0, <2>1, <2>3, CountKept
<1>10. CASE FailPass(w) \/ Crash(w)
  <2>1. /\ UNCHANGED <<status, retries, attempts>>
        /\ phase'[w] \in {"stuck", "off"} /\ cur'[w] = None /\ todo'[w] = {}
    <3>1. CASE FailPass(w)
      BY <3>1 DEF FailPass, ForgetPass, storeVars, TypeOK
    <3>2. CASE Crash(w)
      BY <3>2 DEF Crash, ForgetPass, storeVars, TypeOK
    <3> QED BY <1>10, <3>1, <3>2
  <2>2. \/ crashes' = crashes + 1 /\ storeFaults' = storeFaults
        \/ crashes' = crashes /\ storeFaults' = storeFaults + 1
    BY <1>0, <1>10 DEF FailPass, Crash
  <2>3. call[o] # "idle" <=> call'[o] # "idle"
    <3>1. CASE FailPass(w)
      BY <3>1 DEF FailPass, callVars
    <3>2. CASE Crash(w)
      BY <3>2 DEF Crash, Running, TypeOK
    <3> QED BY <1>10, <3>1, <3>2
  <2>4. ~Trying(w, o)'
    BY <2>1 DEF Trying
  <2>5. Counted(w, o)'
    <3>1. CASE crashes' = crashes + 1 /\ storeFaults' = storeFaults
      BY <1>0, <2>1, <2>3, <2>4, <3>1 DEF Counted, Used, One
    <3>2. CASE crashes' = crashes /\ storeFaults' = storeFaults + 1
      BY <1>0, <2>1, <2>3, <2>4, <3>2 DEF Counted, Used, One
    <3> QED BY <2>2, <3>1, <3>2
  <2> QED BY <1>0, <2>1, <2>5
<1>11. ASSUME NEW p \in Order, FailAdd(w, p)
       PROVE  Goal
  <2>1. /\ UNCHANGED <<status, retries, phase, cur, todo, seen, verdict, attempts, crashes>>
        /\ storeFaults' = storeFaults + 1
    BY <1>11 DEF FailAdd, storeVars, passVars, netVars
  <2>2. call[o] # "idle" <=> call'[o] # "idle"
    BY <1>11 DEF FailAdd, AfterEnqueue, TypeOK
  <2>3. Counted(w, o)'
    BY <1>0, <2>1, <2>2 DEF Counted, Used, One, Trying
  <2> QED BY <1>0, <2>1, <2>3
<1>12. CASE UNCHANGED vars
  <2>1. UNCHANGED <<status, retries, phase, cur, todo, seen, verdict, attempts, crashes,
                    storeFaults, call>>
    BY <1>12 DEF vars, storeVars, passVars, callVars, faultVars, netVars
  <2> QED BY <1>0, <2>1, CountKept DEF Trying
<1> QED
  BY <1>1, <1>2, <1>3, <1>4, <1>5, <1>6, <1>7, <1>8, <1>9, <1>10, <1>11, <1>12
     DEF Next, Submission, Replay, Surroundings

\* With one worker on the store an order is sent at most once, and MaxRetries
\* times again, and once more for each failure of the worker or its store.
THEOREM AttemptsCorrect == SoleWorker => (Spec => []AttemptsBounded)
<1> SUFFICES ASSUME SoleWorker PROVE Spec => []AttemptsBounded
  OBVIOUS
<1>1. PICK w : Worker = {w}
  BY DEF SoleWorker
<1>2. Init => HandsInv /\ PassInv
  BY ConstantsAssumption, <1>1
     DEF Init, HandsInv, Unqueued, Running, PassesHandleEntries, RequestsOwned, PassInv, InHand,
         PassPending, FilledNotQueued
<1>3. Init => RetryInv
  BY ConstantsAssumption, <1>1
     DEF Init, RetryInv, SeenFresh, FreshEntry, Counted, Used, Trying, One
<1>4. TypeOK /\ HandsInv /\ PassInv /\ [Next]_vars => PassInv'
  BY <1>1, PassStep
<1>5. TypeOK /\ HandsInv /\ PassInv /\ RetryInv /\ [Next]_vars => RetryInv'
  BY <1>1, RetryStep
<1>6. TypeOK /\ RetryInv => AttemptsBounded
  <2> SUFFICES ASSUME TypeOK, RetryInv, NEW o \in Order
               PROVE  attempts[o] <= 1 + MaxRetries + crashes + storeFaults
    BY DEF AttemptsBounded
  <2>1. retries[o] \in Nat /\ attempts[o] \in Nat /\ crashes \in Nat /\ storeFaults \in Nat
    BY DEF TypeOK
  <2>2. Counted(w, o)
    BY <1>1 DEF RetryInv
  <2> QED BY <2>1, <2>2, ConstantsAssumption DEF Counted, Used, One
<1> QED
  BY <1>2, <1>3, <1>4, <1>5, <1>6, TypeCorrect, HandsStep, PTL DEF Spec
=============================================================================
