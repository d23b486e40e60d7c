----------------------------- MODULE TradeGuard -----------------------------
(***************************************************************************)
(* What the two trade guards (contracts/trade_guards/soroswap and phoenix) *)
(* have in common: the vault they serve, a manager, the whitelist, and the *)
(* checks of amounts and slippage with saturating i128 products.  The      *)
(* vault calls a guard before an external step; a guard that refuses makes *)
(* the whole call fail.  Validation changes nothing: the history variable  *)
(* `approved` keeps the last call that was let through.                    *)
(***************************************************************************)
EXTENDS Integers, SequencesExt

CONSTANTS
    Addresses,          \* addresses that call the guard, or are named to it
    Tokens,
    Whitelists,         \* lists passed as whitelist; only membership is read
    Amounts,            \* i128 arguments
    Paths,              \* flat paths of tokens that the vault passes
    MaxI128,            \* the largest i128
    BPS,                \* 10_000
    MAX_SLIPPAGE_BPS,
    NoOne,              \* initialize has not run
    Nothing             \* no call has been let through yet

ASSUME GuardAssumption ==
    /\ NoOne \notin Addresses
    /\ Whitelists \subseteq SUBSET Tokens
    /\ Paths \subseteq Seq(Tokens)
    /\ MaxI128 \in Nat
    /\ Amounts \subseteq -MaxI128 - 1 .. MaxI128
    /\ BPS \in Nat \ {0}
    /\ MAX_SLIPPAGE_BPS \in 0 .. BPS

VARIABLES
    vault,       \* DataKey::Vault
    manager,     \* DataKey::Manager
    whitelist,   \* DataKey::Whitelist, as a set
    approved     \* the last call let through: kind, amount, limit, quote, tokens

guardVars == <<vault, manager, whitelist, approved>>

GuardInit ==
    /\ vault = NoOne
    /\ manager = NoOne
    /\ whitelist = {}
    /\ approved = Nothing

-----------------------------------------------------------------------------

\* (mutant) products wrap around
WrappingMul(x, y) ==
    ((x * y + MaxI128 + 1) % (2 * (MaxI128 + 1))) - (MaxI128 + 1)

\* i128::saturating_mul, for factors that are not negative.
SaturatingMul(x, y) == IF x * y > MaxI128 THEN MaxI128 ELSE x * y

\* (mutant) the shortfall is measured against the limit instead of the quote
CheckSlippageOfLimit(min_out, quoted_out) ==
    /\ 0 <= min_out /\ 0 < quoted_out /\ min_out <= quoted_out
    /\ SaturatingMul(quoted_out - min_out, MAX_SLIPPAGE_BPS)
         <= SaturatingMul(min_out, BPS)

CheckSlippage(min_out, quoted_out) ==
    /\ 0 <= min_out /\ 0 < quoted_out /\ min_out <= quoted_out
    /\ SaturatingMul(quoted_out - min_out, BPS)
         <= SaturatingMul(quoted_out, MAX_SLIPPAGE_BPS)

CheckWhitelist(tokens) == tokens \subseteq whitelist

LetThrough(kind, amount, limit, quote, tokens) ==
    approved' = [kind |-> kind, amount |-> amount, limit |-> limit,
                 quote |-> quote, tokens |-> tokens]

Initialize(v, m, tokens) ==
    /\ vault = NoOne
    /\ vault' = v
    /\ manager' = m
    /\ whitelist' = tokens
    /\ UNCHANGED approved

SetWhitelist(caller, tokens) ==
    /\ caller = manager
    /\ whitelist' = tokens
    /\ UNCHANGED <<vault, manager, approved>>

\* All that either validation of a move checks.
MoveAllowed(caller, amount) == caller = vault /\ amount > 0

ValidateInvest(caller, amount) ==
    /\ MoveAllowed(caller, amount)
    /\ LetThrough("invest", amount, 0, 0, {})
    /\ UNCHANGED <<vault, manager, whitelist>>

ValidateUnwind(caller, units) ==
    /\ MoveAllowed(caller, units)
    /\ LetThrough("unwind", units, 0, 0, {})
    /\ UNCHANGED <<vault, manager, whitelist>>

\* What both guards do besides swaps.
CommonNext ==
    \/ \E v, m \in Addresses, w \in Whitelists : Initialize(v, m, w)
    \/ \E c \in Addresses, w \in Whitelists : SetWhitelist(c, w)
    \/ \E c \in Addresses, a \in Amounts : ValidateInvest(c, a) \/ ValidateUnwind(c, a)

-----------------------------------------------------------------------------

\* The exact shortfall of `low` under `high`, against the limit.
WithinSlippage(low, high, base) ==
    (high - low) * BPS <= base * MAX_SLIPPAGE_BPS

\* No product of a saturates.
Unsaturated(a) == a * BPS <= MaxI128

\* A swap that a guard let through pays at least the quote less the tolerated
\* share (amount in fixed), or spends at most the quote plus it (amount out
\* fixed), as long as quote and limit are small enough for exact products.
SwapsKeepQuote ==
    approved # Nothing /\ Unsaturated(approved.quote) /\ Unsaturated(approved.limit) =>
        /\ approved.kind \in {"swap", "exact_in"} =>
               WithinSlippage(approved.limit, approved.quote, approved.quote)
        /\ approved.kind = "exact_out" =>
               WithinSlippage(approved.quote, approved.limit, approved.quote)

=============================================================================
