---------------------------- MODULE SafLifecycle ----------------------------
(***************************************************************************)
(* What the store-and-forward queue promises of each order, whatever the   *)
(* workers, the network and the store do: an order is queued at most once, *)
(* a queued order ends as SUBMITTED or EXPIRED and stays so, and it is     *)
(* SUBMITTED only after the exchange has executed it.  The exchange may    *)
(* execute an order at any time, and more than once.                       *)
(***************************************************************************)
EXTENDS Naturals

CONSTANT Order

VARIABLES
  status,   \* the entry of each order in the queue, "NONE" when it has none
  fills     \* the executions of each order

lifeVars == <<status, fills>>

LifeInit ==
  /\ status = [o \in Order |-> "NONE"]
  /\ fills = [o \in Order |-> 0]

\* Orders that a step turns from one status to another; all others keep theirs.
Turn(o, from, to) ==
  /\ status[o] = from
  /\ status' = [status EXCEPT ![o] = to]
  /\ UNCHANGED fills

Enqueue(o) == Turn(o, "NONE", "PENDING")

Execute(o) ==
  /\ fills' = [fills EXCEPT ![o] = @ + 1]
  /\ UNCHANGED status

Submit(o) == fills[o] > 0 /\ Turn(o, "PENDING", "SUBMITTED")

Expire(o) == Turn(o, "PENDING", "EXPIRED")

LifeNext ==
  \E o \in Order : Enqueue(o) \/ Execute(o) \/ Submit(o) \/ Expire(o)

LifeSpec == LifeInit /\ [][LifeNext]_lifeVars
=============================================================================
