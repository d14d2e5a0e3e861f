------------------------------- MODULE MCVault -------------------------------
(* Instances of VaultCredentials for TLC.                                      *)
EXTENDS VaultCredentials

\* The updates name no entry or all entries.
SomeSupplies == {{}, Entry}
=============================================================================
