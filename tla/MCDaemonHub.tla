---------------------------- MODULE MCDaemonHub ----------------------------
(* DaemonHub for TLC: the constants are given in the configuration.         *)
EXTENDS DaemonHub
=============================================================================
