--------------------------- MODULE MCRegimeQuorum ---------------------------
(* Model-checking instance of RegimeQuorum.                                *)
EXTENDS RegimeQuorum
=============================================================================
