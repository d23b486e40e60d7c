---------------------------- MODULE PhoenixGuard ----------------------------
(***************************************************************************)
(* The Phoenix trade guard: swaps given as operations, each offering one   *)
(* token and asking for another, or as the flat path that the vault passes.*)
(***************************************************************************)
EXTENDS TradeGuard

CONSTANTS
    Operations,       \* lists of operations
    MAX_OPERATIONS    \* 4

SwapOperation == [offer_asset : Tokens, ask_asset : Tokens]

ASSUME PhoenixAssumption ==
    /\ MAX_OPERATIONS \in Nat
    /\ Operations \subseteq Seq(SwapOperation)

Traded(operations) ==
    {op.offer_asset : op \in ToSet(operations)} \cup {op.ask_asset : op \in ToSet(operations)}

OperationsAllowed(operations) ==
    /\ 0 < Len(operations) /\ Len(operations) <= MAX_OPERATIONS
    /\ CheckWhitelist(Traded(operations))

\* (mutant) tokens are counted as hops
PathAllowedByTokens(path) ==
    /\ 2 <= Len(path) /\ Len(path) <= MAX_OPERATIONS
    /\ CheckWhitelist(UNION {{path[i], path[i + 1]} : i \in 1 .. Len(path) - 1})

\* Every hop's two tokens are looked up; a path of n tokens has n - 1 hops.
PathAllowed(path) ==
    /\ 2 <= Len(path) /\ Len(path) - 1 <= MAX_OPERATIONS
    /\ CheckWhitelist(UNION {{path[i], path[i + 1]} : i \in 1 .. Len(path) - 1})

ValidateSwap(caller, amount_in, min_out, operations, quoted_out) ==
    /\ caller = vault
    /\ amount_in > 0
    /\ OperationsAllowed(operations)
    /\ CheckSlippage(min_out, quoted_out)
    /\ LetThrough("swap", amount_in, min_out, quoted_out, Traded(operations))
    /\ UNCHANGED <<vault, manager, whitelist>>

\* Phoenix's validate_swap_exact_in.
ValidateSwapAlong(caller, amount_in, min_out, path, quoted_out) ==
    /\ caller = vault
    /\ amount_in > 0
    /\ PathAllowed(path)
    /\ CheckSlippage(min_out, quoted_out)
    /\ LetThrough("exact_in", amount_in, min_out, quoted_out, ToSet(path))
    /\ UNCHANGED <<vault, manager, whitelist>>

PhoenixNext ==
    \/ CommonNext
    \/ \E c \in Addresses, a, l, q \in Amounts :
          \/ \E ops \in Operations : ValidateSwap(c, a, l, ops, q)
          \/ \E p \in Paths : ValidateSwapAlong(c, a, l, p, q)

-----------------------------------------------------------------------------

\* The operations that a flat path stands for.
OperationsOf(path) ==
    [i \in 1 .. Len(path) - 1 |-> [offer_asset |-> path[i], ask_asset |-> path[i + 1]]]

\* "Converts the flat path into Phoenix SwapOperations and applies the same
\* policy checks as validate_swap" (phoenix/src/lib.rs 167-169): under every
\* whitelist a path is allowed exactly when its operations are.
PathMeansOperations ==
    \A p \in Paths : PathAllowed(p) <=> OperationsAllowed(OperationsOf(p))

=============================================================================
