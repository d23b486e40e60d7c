--------------------------- MODULE MCShareLedger ---------------------------
(* An instance of ShareLedger whose totals stop at a bound.                *)
EXTENDS ShareLedger

CONSTANTS MaxNav, MaxSupply   \* bounds

MCQuantities == 0 .. MaxNav

MCNext == LedgerNext /\ nav' <= MaxNav /\ supply' <= MaxSupply /\ feeShares' <= 2

MCSpec == LedgerInit /\ [][MCNext]_ledgerVars

=============================================================================
