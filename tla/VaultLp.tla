------------------------------ MODULE VaultLp ------------------------------
(***************************************************************************)
(* The vault with a two-asset strategy, a trading desk and a trade guard:  *)
(* invest_lp, unwind_lp, execute_trade and set_trade_guard, among all the  *)
(* other calls of Vault and everything others do to the pair.              *)
(*                                                                         *)
(* The vault's base asset is the pair's first token.  Of the second token  *)
(* it may hold any amount, which its net asset value does not count.  A    *)
(* desk is a strategy with quote_exact_in and execute_trade; none is in    *)
(* the repository, and what is said of it here is what the vault relies    *)
(* on: it takes the amount in and pays what it reports.                    *)
(*                                                                         *)
(* The host is taken to accept the transfers that strategies make from the *)
(* vault, as the mocked authorizations of the repository's tests do.       *)
(***************************************************************************)
EXTENDS Vault

CONSTANTS
    Whitelists,          \* token lists given to the guard
    DeskQuotes,          \* amounts a desk quotes
    MaxI128,             \* the largest i128
    MAX_SLIPPAGE_BPS,
    MAX_PATH_LEN,
    MaxOther,            \* bound: second token held by the vault
    Nothing              \* the last call asked the guard for nothing

VARIABLES
    other,        \* the pair's second token held by the vault
    guarded,      \* strategies with a TradeGuard
    guardVault,   \* the guard: its vault
    guardManager, \* the guard: its manager
    whitelist,    \* the guard: its whitelist
    approved      \* what the guard let through in the last call, or Nothing

guardStateVars == <<guarded, guardVault, guardManager, whitelist, approved>>
lpVaultVars == <<vars, other, guardStateVars>>

Tokens == {"a", "b"}
TradePaths == {<<"a", "b">>, <<"b", "a">>}

\* What the guard may say it let through when the vault asks it.
SwapApprovals ==
    [kind : {"exact_in"}, amount : Int, limit : Int, quote : Int, tokens : SUBSET Tokens]

ASSUME VaultLpAssumption ==
    /\ Whitelists \subseteq SUBSET Tokens
    /\ DeskQuotes \subseteq Int
    /\ MaxI128 \in Nat
    /\ MAX_SLIPPAGE_BPS \in 0 .. FEE_DENOMINATOR
    /\ Nothing \notin SwapApprovals

Guard == INSTANCE SoroswapGuard WITH
             vault <- guardVault, manager <- guardManager, Addresses <- Callers,
             Paths <- TradePaths, BPS <- FEE_DENOMINATOR, NoOne <- None

\* The guard was initialized for this vault by the manager of the strategies.
VaultLpInit ==
    /\ Init
    /\ other = 0
    /\ guarded = {}
    /\ guardVault = VaultAddress
    /\ guardManager = StrategyManager
    /\ whitelist \in Whitelists
    /\ approved = Nothing

GuardUnasked == approved' = Nothing /\ UNCHANGED <<guardVault, guardManager, whitelist>>

-----------------------------------------------------------------------------

\* The guard of s, if it has one, lets the manager's step through.
GuardedInvest(s, n) ==
    IF s \in guarded THEN Guard!ValidateInvest(VaultAddress, n)
                     ELSE GuardUnasked

GuardedUnwind(s, n) ==
    IF s \in guarded THEN Guard!ValidateUnwind(VaultAddress, n)
                     ELSE GuardUnasked

\* (mutant) the strategy is not flagged
UsedUnflagged(s) ==
    /\ s \in Listed
    /\ s = PairStrategy /\ lpHasOracle
    /\ lpFlagged' = lpFlagged

\* Only a two-asset strategy answers has_oracle.
UsableAsPair(s) == s \in Listed /\ s = PairStrategy /\ lpHasOracle

\* Using it as one flags it.  Flagging it first changes nothing that the NAV
\* reads: see LpPositionsPriced.
UsedAsPair(s) == UsableAsPair(s) /\ lpFlagged' = lpFlagged \cup {s}

\* Every read of the NAV returns.
NavReadable == Readable(position)

\* (mutant) the NAV is read whether or not a limit needs it
MayStartReading(caller, op) == NavReadable /\ (ReadsNav => OpGuardAllows(caller, op))

\* The NAV before the external step is read, and compared with the checkpoint.
MayStart(caller, op) == ReadsNav => NavReadable /\ OpGuardAllows(caller, op)

\* (mutant) the NAV to keep is read after the external step
KeepsValueReread == config.max_loss_bps > 0 => Nav' >= MinNav(Nav', config.max_loss_bps)

\* The post-execution NAV guard.
KeepsValue == config.max_loss_bps > 0 => Nav' >= MinNav(Nav, config.max_loss_bps)

\* The pair's part of the NAV, and the limit on it.
PairInNav == StrategyValue(PairStrategy, LpValue)

NotConcentrated ==
    config.max_concentration_bps > 0 /\ Nav' > 0 =>
        ConcentrationBps(PairInNav', Nav') <= config.max_concentration_bps

InvestLp(caller, s, offer, least, used, minted) ==
    /\ caller = manager
    /\ offer.a > 0 /\ offer.b > 0
    /\ UsedAsPair(s)
    /\ GuardedInvest(s, offer.a + offer.b)
    /\ MayStart(caller, "invest_lp")
    /\ offer.a <= cash /\ offer.b <= other
    /\ DepositLiquidity(VaultAddress, offer, least, used, minted)
    /\ cash' = cash - offer.a
    /\ other' = other - offer.b
    /\ UNCHANGED <<feeVars, tokenVars, config, members, lastDeposit, accrualVars, strategies,
                   oracleSet, priceTokens, price, strategyVars, guarded>>
    /\ ReadsNav \/ config.max_concentration_bps > 0 => NavReadable'
    /\ NotConcentrated
    /\ KeepsValue
    /\ Checkpoint(caller, "invest_lp", Nav')

\* Every check of unwind_lp before its pair is paid out.  What it checks after
\* that reads the NAV, and only for a limit that needs it.
MayUnwindLp(caller, s, n, least) ==
    /\ caller = manager
    /\ n > 0
    /\ UsableAsPair(s)
    /\ s \in guarded => Guard!MoveAllowed(VaultAddress, n)
    /\ MayStart(caller, "unwind_lp")
    /\ MayWithdrawLiquidity(VaultAddress, n, least)

UnwindLp(caller, s, n, least) ==
    /\ MayUnwindLp(caller, s, n, least)
    /\ UsedAsPair(s)
    /\ GuardedUnwind(s, n)
    /\ WithdrawLiquidity(VaultAddress, n, least)
    /\ cash' = cash + Payout(n).a
    /\ other' = other + Payout(n).b
    /\ UNCHANGED <<feeVars, tokenVars, config, members, lastDeposit, accrualVars, strategies,
                   oracleSet, priceTokens, price, strategyVars, guarded>>
    /\ ReadsNav => NavReadable'
    /\ KeepsValue
    /\ Checkpoint(caller, "unwind_lp", Nav')

SetTradeGuard(caller, s) ==
    /\ caller = manager
    /\ s \in Listed
    /\ guarded' = guarded \cup {s}
    /\ GuardUnasked
    /\ UNCHANGED <<vars, other>>

\* The desk swaps along the path.
DeskSwaps(path, amount_in, out) ==
    IF path[1] = "a"
    THEN /\ amount_in <= cash
         /\ cash' = cash - amount_in
         /\ other' = other + out
    ELSE /\ amount_in <= other
         /\ other' = other - amount_in
         /\ cash' = cash + out

\* (mutant) the amount that came back is not compared with the minimum
PaysAnything(out, min_out) == TRUE

PaysMinimum(out, min_out) == out >= min_out

ExecuteTrade(caller, s, amount_in, min_out, path, quoted, out) ==
    /\ caller = trader
    /\ amount_in > 0
    /\ s \in Listed
    /\ s \in guarded
    /\ s \in Desks
    /\ quoted > 0
    /\ MayStart(caller, "trade")
    /\ Guard!ValidateSwapExactIn(VaultAddress, amount_in, min_out, path, quoted)
    /\ DeskSwaps(path, amount_in, out)
    /\ PaysMinimum(out, min_out)
    /\ UNCHANGED <<feeVars, lpVars, tokenVars, config, members, lastDeposit, accrualVars,
                   listVars, strategyVars, guarded>>
    /\ KeepsValue
    /\ Checkpoint(caller, "trade", Nav')

-----------------------------------------------------------------------------

\* The second token sent to the vault's address.
GiveOther(n) ==
    /\ n > 0
    /\ other' = other + n
    /\ GuardUnasked
    /\ UNCHANGED <<vars, guarded>>

VaultCall == Next /\ GuardUnasked /\ UNCHANGED <<other, guarded>>

PairCall ==
    /\ LpSettings \/ Market
    /\ GuardUnasked
    /\ UNCHANGED <<feeVars, vaultVars, other, guarded>>

\* (bound) what an instance lets the vault hold of both tokens.
WithinBounds == cash' <= MaxNav /\ other' <= MaxOther

\* The manager's minima only make calls fail; with none, every outcome occurs.
NoMinimum == [a |-> 0, b |-> 0]

LpInvestments ==
    /\ "invest_lp" \in Calls
    /\ \E c \in Managers, s \in Strategies, offer, used \in Offers,
          n \in 1 .. MaxLiquidity : InvestLp(c, s, offer, NoMinimum, used, n)

LpUnwindings ==
    /\ "unwind_lp" \in Calls
    /\ \E c \in Managers, s \in Strategies, n \in 1 .. MaxLiquidity :
          UnwindLp(c, s, n, NoMinimum)
    /\ WithinBounds

Trades ==
    /\ "trade" \in Calls
    /\ \E c \in Managers, s \in Strategies, path \in TradePaths,
          n, least, out \in Amounts, quoted \in DeskQuotes :
          ExecuteTrade(c, s, n, least, path, quoted, out)
    /\ WithinBounds

GuardSettings == \E c \in Managers, s \in Strategies : SetTradeGuard(c, s)

WhitelistCall ==
    /\ \E c \in Callers, w \in Whitelists : Guard!SetWhitelist(c, w)
    /\ UNCHANGED <<vars, other, guarded>>

Gifts == (\E n \in Amounts : GiveOther(n)) /\ WithinBounds

VaultLpNext ==
    \/ VaultCall \/ LpInvestments \/ LpUnwindings \/ Trades \/ GuardSettings
    \/ WhitelistCall \/ PairCall \/ Gifts

VaultLpSpec == VaultLpInit /\ [][VaultLpNext]_lpVaultVars

-----------------------------------------------------------------------------

\* "The vault enforces oracle presence for LP valuation safety": a position in
\* a pair is never counted at its number of liquidity tokens, nor at a price
\* token's price, whatever flags, lists and price tokens were set before the
\* investment and are set after it.
LpPositionsPriced == lpBalance > 0 => lpHasOracle /\ PairStrategy \in lpFlagged

\* A trade or a move of liquidity between the vault and a strategy.
PairMoved  == lpBalance' # lpBalance
TokenTrade == cash' # cash /\ other' # other /\ ~PairMoved

\* "preventing the manager from silently draining" the vault: neither a move of
\* liquidity nor a trade lowers the NAV by more than the tolerated part, the
\* NAV taken as a whole: what left the count with the second token, what the
\* pair did not take, and rounding included.
LpMovesAreLimited ==
    [][ PairMoved \/ TokenTrade =>
        /\ config.max_loss_bps > 0 =>
               Nav * (FEE_DENOMINATOR - config.max_loss_bps) <= Nav' * FEE_DENOMINATOR
        /\ config.max_concentration_bps > 0 /\ lpBalance' > lpBalance /\ Nav' > 0 =>
               LpValue' * FEE_DENOMINATOR < (config.max_concentration_bps + 1) * Nav'
      ]_lpVaultVars

\* Whatever minimum the trader passes and whatever the desk pays, a trade that
\* goes through gave the vault the desk's quote less the tolerated slippage, for
\* tokens the guard's whitelist has: vault and guard check one half each.
TradesKeepQuote ==
    [][ TokenTrade =>
        LET out == IF other' > other THEN other' - other ELSE cash' - cash
        IN  /\ approved' # Nothing /\ approved'.tokens \subseteq whitelist
            /\ (approved'.quote - out) * FEE_DENOMINATOR
                   <= approved'.quote * MAX_SLIPPAGE_BPS ]_lpVaultVars

\* The manager can always take the whole position back to the vault once the
\* limits that read the NAV are off: a stale price, a guard, a swap that moved
\* the pair, or liquidity given away do not keep it there.
LpExitNeedsNoPrice ==
    lpBalance > 0 /\ PairStrategy \in Listed /\ ~lpPaused /\ ~ReadsNav =>
        MayUnwindLp(manager, PairStrategy, lpBalance, NoMinimum)

=============================================================================
