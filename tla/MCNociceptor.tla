---------------------------- MODULE MCNociceptor ----------------------------
(* Model checking of Nociceptor: a ring of two slots whose heads wrap at 5, *)
(* averages that halve with each tick, three ticks of warm-up, and the      *)
(* thresholds the code has by default.                                      *)
EXTENDS Nociceptor
=============================================================================
