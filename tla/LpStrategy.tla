----------------------------- MODULE LpStrategy -----------------------------
(***************************************************************************)
(* A two-asset strategy (contracts/strategies/soroswap_lp and phoenix_lp)  *)
(* and the pair it provides liquidity to.  The two contracts differ in how *)
(* they call their venue, not in what they keep: one module is both.       *)
(*                                                                         *)
(* The pair is outside the repository.  It takes part of what it is        *)
(* offered, down to the caller's minimum, mints liquidity tokens that      *)
(* dilute nobody, and pays a pro-rata part of its reserves for the tokens  *)
(* it takes back.  Between two calls anyone may swap, add to it or leave   *)
(* it, and may give liquidity tokens to the strategy.                      *)
(*                                                                         *)
(* What the strategy pulls and the pair does not take remains at its       *)
(* address, where nothing reads it or can move it: it is not a variable.   *)
(***************************************************************************)
EXTENDS VaultMath

CONSTANTS
    VaultAddress,       \* the vault the strategies were initialized with
    StrategyManager,    \* the manager they were initialized with
    Callers,            \* addresses that call the strategy
    PairAmounts,        \* amounts offered to the pair or by its traders
    InitialPairs,       \* reserves and liquidity the pair may start with
    Quotes,             \* prices the oracle answers for both tokens
    MaxReserve,         \* bound: each reserve of the pair
    MaxLiquidity        \* bound: liquidity tokens of the pair

Pairs == [a : Nat, b : Nat]

ASSUME PairAssumption ==
    /\ VaultAddress \in Callers
    /\ StrategyManager \in Callers
    /\ PairAmounts \subseteq Nat
    /\ \A p \in InitialPairs :
          /\ p \in [a : Nat, b : Nat, total : Nat]
          /\ p.total > 0 <=> p.a > 0 /\ p.b > 0
    /\ Quotes \subseteq Pairs
    /\ MaxReserve \in Nat
    /\ MaxLiquidity \in Nat

VARIABLES
    lpBalance,     \* DataKey::LpBalance, DataKey::TotalShares in Phoenix
    lpPaused,      \* DataKey::Paused
    lpHasOracle,   \* whether DataKey::Oracle is set
    lpTokens,      \* the pair's token: balance of the strategy
    pair,          \* the pair's reserves and its total liquidity
    quote          \* the oracle's prices of both tokens; 0: get_price panics

lpVars == <<lpBalance, lpPaused, lpHasOracle, lpTokens, pair, quote>>

LpTypeOK ==
    /\ lpBalance \in Nat
    /\ lpPaused \in BOOLEAN
    /\ lpHasOracle \in BOOLEAN
    /\ lpTokens \in Nat
    /\ pair \in [a : Nat, b : Nat, total : Nat]
    /\ quote \in Pairs

\* The state initialize leaves.
LpInit ==
    /\ lpBalance = 0
    /\ lpPaused = FALSE
    /\ lpHasOracle = FALSE
    /\ lpTokens = 0
    /\ pair \in InitialPairs
    /\ quote \in Quotes

-----------------------------------------------------------------------------
(* Valuation *)

\* The paths of get_value that answer the raw balance.
Unpriced == ~lpHasOracle \/ pair.total = 0 \/ (pair.a = 0 /\ pair.b = 0)

\* get_value returns: the oracle's get_price panics rather than answer 0.
LpReadable == lpBalance = 0 \/ Unpriced \/ (quote.a > 0 /\ quote.b > 0)

PairValue ==
    (pair.a * quote.a) \div PRICE_PRECISION + (pair.b * quote.b) \div PRICE_PRECISION

\* (mutant) the whole pair is counted, not the strategy's part of it
LpValueOfPair == IF lpBalance = 0 \/ Unpriced THEN lpBalance ELSE PairValue

\* get_value
LpValue ==
    IF lpBalance = 0 \/ Unpriced
    THEN lpBalance
    ELSE (PairValue * lpBalance) \div pair.total

-----------------------------------------------------------------------------
(* The pair *)

\* What the pair pays for n of its tokens.
Payout(n) == [a |-> (n * pair.a) \div pair.total, b |-> (n * pair.b) \div pair.total]

\* The pair may take `used` of an offer, and mint for it.
Takes(offer, least, used, minted) ==
    /\ used.a \in 1 .. offer.a /\ used.a >= least.a
    /\ used.b \in 1 .. offer.b /\ used.b >= least.b
    /\ minted > 0
    /\ minted * pair.a <= used.a * pair.total
    /\ minted * pair.b <= used.b * pair.total
    /\ pair.a + used.a <= MaxReserve /\ pair.b + used.b <= MaxReserve   \* bound
    /\ pair.total + minted <= MaxLiquidity                              \* bound

Grown(used, minted) ==
    [a |-> pair.a + used.a, b |-> pair.b + used.b, total |-> pair.total + minted]

Shrunk(n) ==
    [a |-> pair.a - Payout(n).a, b |-> pair.b - Payout(n).b, total |-> pair.total - n]

\* Liquidity tokens of others.
OthersTokens == pair.total - lpTokens

-----------------------------------------------------------------------------
(* The strategy's entry points *)

\* The strategy's call of add_liquidity, or provide_liquidity.
AddLiquidity(offer, least, used, minted) ==
    /\ Takes(offer, least, used, minted)
    /\ pair' = Grown(used, minted)
    /\ lpTokens' = lpTokens + minted

\* The pair accepts the strategy's remove_liquidity, or withdraw_liquidity.
Removes(n, least) ==
    /\ n <= lpTokens
    /\ Payout(n).a >= least.a /\ Payout(n).b >= least.b

RemoveLiquidity(n) ==
    /\ pair' = Shrunk(n)
    /\ lpTokens' = lpTokens - n

\* (mutant) what was offered is recorded, not what was minted
DepositLiquidityAsOffered(from, offer, least, used, minted) ==
    /\ offer.a > 0 /\ offer.b > 0
    /\ ~lpPaused
    /\ from = VaultAddress
    /\ AddLiquidity(offer, least, used, minted)
    /\ lpBalance' = lpBalance + offer.a
    /\ UNCHANGED <<lpPaused, lpHasOracle, quote>>

\* The tokens received are the difference of two balances.
DepositLiquidity(from, offer, least, used, minted) ==
    /\ offer.a > 0 /\ offer.b > 0
    /\ ~lpPaused
    /\ from = VaultAddress
    /\ AddLiquidity(offer, least, used, minted)
    /\ lpBalance' = lpBalance + (lpTokens' - lpTokens)
    /\ UNCHANGED <<lpPaused, lpHasOracle, quote>>

\* Every check of withdraw.
MayWithdrawLiquidity(from, n, least) ==
    /\ n > 0
    /\ ~lpPaused
    /\ from = VaultAddress
    /\ n <= lpBalance
    /\ Removes(n, least)

\* The pair pays the recipient directly.
WithdrawLiquidity(from, n, least) ==
    /\ MayWithdrawLiquidity(from, n, least)
    /\ RemoveLiquidity(n)
    /\ lpBalance' = lpBalance - n
    /\ UNCHANGED <<lpPaused, lpHasOracle, quote>>

SetLpOracle(caller) ==
    /\ caller = StrategyManager
    /\ lpHasOracle' = TRUE
    /\ UNCHANGED <<lpBalance, lpPaused, lpTokens, pair, quote>>

SetLpPaused(caller, flag) ==
    /\ caller = StrategyManager
    /\ lpPaused' = flag
    /\ UNCHANGED <<lpBalance, lpHasOracle, lpTokens, pair, quote>>

-----------------------------------------------------------------------------
(* What others do to the pair and the oracle *)

\* A swap leaves both reserves funded and their product no smaller.
Swap(a, b) ==
    /\ pair.total > 0
    /\ a > 0 /\ b > 0 /\ a * b >= pair.a * pair.b
    /\ a <= MaxReserve /\ b <= MaxReserve                               \* bound
    /\ pair' = [pair EXCEPT !.a = a, !.b = b]
    /\ UNCHANGED <<lpBalance, lpPaused, lpHasOracle, lpTokens, quote>>

OthersJoin(used, minted) ==
    /\ Takes(used, used, used, minted)
    /\ pair' = Grown(used, minted)
    /\ UNCHANGED <<lpBalance, lpPaused, lpHasOracle, lpTokens, quote>>

OthersLeave(n) ==
    /\ n > 0 /\ n <= OthersTokens
    /\ pair' = Shrunk(n)
    /\ UNCHANGED <<lpBalance, lpPaused, lpHasOracle, lpTokens, quote>>

GiveLiquidity(n) ==
    /\ n > 0 /\ n <= OthersTokens
    /\ lpTokens' = lpTokens + n
    /\ UNCHANGED <<lpBalance, lpPaused, lpHasOracle, pair, quote>>

PublishQuote(q) ==
    /\ quote' = q
    /\ UNCHANGED <<lpBalance, lpPaused, lpHasOracle, lpTokens, pair>>

-----------------------------------------------------------------------------

LpSettings == \E c \in Callers :
    SetLpOracle(c) \/ (\E flag \in BOOLEAN : SetLpPaused(c, flag))

Market ==
    \/ \E a, b \in 1 .. MaxReserve : Swap(a, b)
    \/ \E a, b \in PairAmounts, n \in 1 .. MaxLiquidity : OthersJoin([a |-> a, b |-> b], n)
    \/ \E n \in 1 .. MaxLiquidity : OthersLeave(n) \/ GiveLiquidity(n)
    \/ \E q \in Quotes : PublishQuote(q)

Offers == [a : PairAmounts, b : PairAmounts]

LpNext ==
    \/ \E c \in Callers, offer, least, used \in Offers, n \in 1 .. MaxLiquidity :
          DepositLiquidity(c, offer, least, used, n)
    \/ \E c \in Callers, least \in Offers, n \in 1 .. MaxLiquidity :
          WithdrawLiquidity(c, n, least)
    \/ LpSettings
    \/ Market

LpSpec == LpInit /\ [][LpNext]_lpVars

-----------------------------------------------------------------------------

\* The strategy holds every liquidity token it has on record, through the
\* deposits, swaps and exits of others, and a pair with liquidity outstanding
\* has both reserves, so that get_value never falls back to the raw balance
\* of a priced position.
TrackedLpIsHeld ==
    /\ lpBalance <= lpTokens /\ lpTokens <= pair.total
    /\ pair.total > 0 <=> pair.a > 0 /\ pair.b > 0

\* get_value "correctly accounts for impermanent loss": it is what the pair
\* would pay for the position at that moment, at the oracle's prices, but for
\* the rounding of the two payouts and of the value's three divisions.
LpValueIsClaimed ==
    lpBalance > 0 /\ lpHasOracle /\ LpReadable =>
        LET paid == Payout(lpBalance)
        IN  /\ LpValue * PRICE_PRECISION < (paid.a + 1) * quote.a + (paid.b + 1) * quote.b
            /\ paid.a * quote.a + paid.b * quote.b < (LpValue + 3) * PRICE_PRECISION

=============================================================================
