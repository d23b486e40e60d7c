----------------------------- MODULE MCVaultLp -----------------------------
(* Instances of VaultLp: s1 is the two-asset strategy, s2 the desk.        *)
EXTENDS VaultLp, MCConstants

BothListed == {<<s1, s2>>}
FundedPair == {[a |-> 1, b |-> 1, total |-> 1]}
MCQuotes   == {[a |-> 2, b |-> 3], [a |-> 2, b |-> 0]}

=============================================================================
