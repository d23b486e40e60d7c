--------------------------- MODULE SoroswapGuard ---------------------------
(***************************************************************************)
(* The Soroswap trade guard: swaps along a path of tokens, with the amount *)
(* in fixed or the amount out.                                             *)
(***************************************************************************)
EXTENDS TradeGuard

CONSTANT MAX_PATH_LEN    \* most tokens of a path, 5 in the code

ASSUME SoroswapAssumption == MAX_PATH_LEN \in Nat

CheckPath(path) == 2 <= Len(path) /\ Len(path) <= MAX_PATH_LEN

CheckExactOutSlippage(max_in, quoted_in) ==
    /\ 0 < quoted_in
    /\ max_in > quoted_in =>
           SaturatingMul(max_in - quoted_in, BPS) <= SaturatingMul(quoted_in, MAX_SLIPPAGE_BPS)

ValidateSwapExactIn(caller, amount_in, min_out, path, quoted_out) ==
    /\ caller = vault
    /\ amount_in > 0
    /\ CheckPath(path)
    /\ CheckWhitelist(ToSet(path))
    /\ CheckSlippage(min_out, quoted_out)
    /\ LetThrough("exact_in", amount_in, min_out, quoted_out, ToSet(path))
    /\ UNCHANGED <<vault, manager, whitelist>>

ValidateSwapExactOut(caller, amount_out, max_in, path, quoted_in) ==
    /\ caller = vault
    /\ amount_out > 0 /\ max_in > 0
    /\ CheckPath(path)
    /\ CheckWhitelist(ToSet(path))
    /\ CheckExactOutSlippage(max_in, quoted_in)
    /\ LetThrough("exact_out", amount_out, max_in, quoted_in, ToSet(path))
    /\ UNCHANGED <<vault, manager, whitelist>>

SoroswapNext ==
    \/ CommonNext
    \/ \E c \in Addresses, a, l, q \in Amounts, p \in Paths :
          ValidateSwapExactIn(c, a, l, p, q) \/ ValidateSwapExactOut(c, a, l, p, q)

-----------------------------------------------------------------------------

\* Better terms are never refused: in place of the limit that was let through,
\* the guard accepts every one that protects the vault more, with saturated
\* products too.
BetterTermsPass ==
    approved # Nothing =>
        /\ approved.kind \in {"swap", "exact_in"} =>
               \A m \in Amounts :
                   approved.limit <= m /\ m <= approved.quote =>
                       CheckSlippage(m, approved.quote)
        /\ approved.kind = "exact_out" =>
               \A m \in Amounts :
                   m <= approved.limit => CheckExactOutSlippage(m, approved.quote)

=============================================================================
