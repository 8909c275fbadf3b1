----------------------------- MODULE MCGuardian -----------------------------
(* Guardian for TLC: the constant is given in the configurations.            *)
EXTENDS Guardian
=============================================================================
