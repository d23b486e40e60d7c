------------------------------ MODULE MCOracle ------------------------------
(* An instance of Oracle with prices on both sides of the positive check.  *)
EXTENDS Oracle

MCPriceInputs == -1 .. 2

=============================================================================
