------------------------------ MODULE MCVault ------------------------------
(* Instances of Vault alone: VaultFlow and VaultRisk.                      *)
EXTENDS Vault, MCConstants

SignedAmounts == -1 .. 2

=============================================================================
