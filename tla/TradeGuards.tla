---------------------------- MODULE TradeGuards ----------------------------
(***************************************************************************)
(* The guard that a vault sets for a strategy: one contract or the other,  *)
(* for as long as it is set.                                               *)
(***************************************************************************)
EXTENDS SoroswapGuard, PhoenixGuard

VARIABLE dex    \* which of the two contracts the guard is

GuardsInit == GuardInit /\ dex \in {"soroswap", "phoenix"}

GuardsNext ==
    /\ \/ dex = "soroswap" /\ SoroswapNext
       \/ dex = "phoenix" /\ PhoenixNext
    /\ UNCHANGED dex

GuardsSpec == GuardsInit /\ [][GuardsNext]_<<guardVars, dex>>

=============================================================================
