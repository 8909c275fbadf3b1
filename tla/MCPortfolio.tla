---------------------------- MODULE MCPortfolio ------------------------------
(* Portfolio for TLC: the constants are given in the configuration.          *)
EXTENDS Portfolio
=============================================================================
