---- MODULE MCVaultAccrual ----
(* Instances of VaultAccrual. *)
EXTENDS VaultAccrual, MCConstants

=============================================================================
