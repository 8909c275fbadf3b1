--------------------------- MODULE MCVaultProtocol ---------------------------
(* VaultProtocol for TLC: the constants are given in the configurations.     *)
EXTENDS VaultProtocol
=============================================================================
