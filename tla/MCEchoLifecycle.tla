-------------------------- MODULE MCEchoLifecycle --------------------------
(* Model-checking instance of EchoLifecycle: symmetry of the reporting nodes.       *)
EXTENDS EchoLifecycle, TLC

Symmetry == Permutations(Peer)
=============================================================================
