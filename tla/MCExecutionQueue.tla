-------------------------- MODULE MCExecutionQueue --------------------------
(* Model-checking instance of ExecutionQueue: symmetry of orders.               *)
EXTENDS ExecutionQueue, TLC

Symmetry == Permutations(Order)
=============================================================================
