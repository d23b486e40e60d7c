---- MODULE MCVaultSameLedger ----
(* Instances of VaultSameLedger. *)
EXTENDS VaultSameLedger, MCConstants

=============================================================================
