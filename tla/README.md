# EveryFinance on Stellar: TLA+ models, model checks and proofs

The repository holds the Soroban contracts of an on-chain asset manager. A
**vault** takes deposits in one base asset, issues shares, and lets a manager
put the base asset to work in listed strategies: lending, liquidity in a pair
of tokens, trades. This directory models the vault, its share token, the
strategies, the price feed, the registry and the trade guards in TLA+, checks
them with TLC on small instances and proves the most important facts with
TLAPS.

Paths below are relative to `src/contracts/` unless they say otherwise.

## 1. The system

| component | state it keeps | operations | talks to |
|---|---|---|---|
| `vault` | base asset, list of strategies, LP flags, oracle, price tokens, risk limits, members, fee schedule, announced schedule, roles, collection timestamp, high-water mark, per-account checkpoint and last deposit | `initialize`, `deposit`, `withdraw`, `invest`, `unwind`, `invest_lp`, `unwind_lp`, `execute_trade`, about 25 setters | share token (mint, burn), base asset, strategies, oracle, trade guards |
| `share_token` | admin, balances, supply, allowances with expiration | SEP-41 entry points, `mint`, `set_admin` | called by the vault (its admin) and by holders |
| `strategies/blend` | `TotalDeposited`, pause flag | `deposit`, `withdraw`, `get_value`, `sync_position`, `pause`, `unpause` | lending pool; called by the vault |
| `mock_blend_pool` | base asset held, supply per account | `submit`, `add_yield` | base asset |
| `strategies/soroswap_lp`, `strategies/phoenix_lp` | LP tokens on record, pause flag, oracle | `deposit_liquidity`, `withdraw`, `get_value`, `set_oracle`, `pause`, `unpause` | AMM router or pool, oracle; called by the vault |
| `oracle` | price and ledger per token, maximum age, admin | `set_price`, `get_price(s)`, setters | read by the vault and the LP strategies |
| `trade_guards/soroswap`, `trade_guards/phoenix` | vault, manager, whitelist | `validate_swap`, `validate_swap_exact_in`, `validate_swap_exact_out`, `validate_invest`, `validate_unwind` | called by the vault before an external step |
| `factory` | admin, list of vaults | register, verify and register, remove, pages | reads `get_manager` of a vault; read by off-chain tools |

A Soroban call is a transaction. It runs alone, and a panic anywhere below an
entry point undoes everything. There is no concurrency *inside* a call; what
is hard is the order *of* calls. Calls by depositors, the manager, the
strategy's manager and the oracle's admin, and plain transfers of base asset,
interleave freely. Time passes between them, and each call reads a NAV which
others move. The other difficulty is arithmetic: every price, fee and share
count is a truncating integer division, and chains of them decide who gains.

What makes each part correct, in short:

* share token: supply and balances in step; a debit needs a signature or a
  live allowance;
* fee schedule: a raise is announced, waits, and is what was announced;
* vault: a share is never sold under nor redeemed over its price, holders who
  hold on are not diluted, base asset lent through the Blend strategies leaves
  only by redemption, payments can be liquidated, fees charge no gain and no
  time twice, limits hold after the action they limit;
* two-asset strategies: what is on record is held, and is valued at what the
  pair would pay for it; liquidity moves and trades lose no more than the
  manager's limit, and the way out needs no price;
* oracle: a stale price stays refused, a fresh one readable;
* factory: the list is a set of initialized vaults, and its pages cover it;
* trade guards: what they let through keeps the quote within the tolerance.

`PROJECT.json` lists the hazards at their lines, with the property that
answers each or the reason why none does.

## 2. Modules

| module | models | state and actions |
|---|---|---|
| `ShareToken` | `share_token/src` | balances, supply, allowances, ledger number; one action per entry point. i128 is `-MaxI128-1 .. MaxI128`, every sum a checked one |
| `FeeTimelock` | roles and fees of `vault/src/lib.rs` (1259-1454) | roles, schedule, announcement, time; one action per entry point |
| `FeeNotice` | the same, observed | adds the history variable `notice` |
| `VaultMath` | the formulas of `vault/src/lib.rs` | operators only, shared by `Vault` and `ShareLedger` |
| `LpStrategy` | `strategies/soroswap_lp/src`, `strategies/phoenix_lp/src` and the pair outside | LP record, pause, oracle flag, tokens held, reserves, prices; one action per entry point and per doing of others |
| `Vault` | the vault with its share balances, Blend strategies, their pool and oracle answers | 18 variables besides those of `FeeTimelock` and `LpStrategy`, one action per entry point |
| `VaultLp` | the vault with a two-asset strategy, a trading desk and a trade guard | adds the second token, guarded strategies and the guard: `invest_lp`, `unwind_lp`, `execute_trade`, `set_trade_guard` |
| `VaultAccrual` | the vault and an observer of fees | adds `elapsed`, `peak` |
| `VaultSameLedger` | the vault and an observer of ledgers | adds `kinds`, `navLeft`, `undisturbed` |
| `ShareLedger` | what the vault promises to holders | NAV, supply, fee shares: subscribe, redeem, gift, retire, report |
| `Oracle` | `oracle/src` | admin, age limit, prices with their ledger; one action per entry point, `Fresh` is where a read succeeds |
| `Factory` | `factory/src` | admin, list, the vaults' answers to `get_manager`; one action per entry point |
| `VaultRegistry` | what the factory promises | a set: add, discard |
| `FactoryReader` | the factory and an off-chain tool that pages through it | adds the reader's progress |
| `TradeGuard` | what both guards share | vault, manager, whitelist, the last call let through |
| `SoroswapGuard`, `PhoenixGuard` | `trade_guards/*/src` | swaps by path, by amount out, by operations |
| `TradeGuards` | the guard that a vault sets | one of the two contracts (`dex`), for good |
| `VaultMathProofs` | lemmas on truncating division, prices and sums over accounts | proofs only |
| `VaultProofs` | `FeeNotice`, `Vault`, `VaultSameLedger`, `VaultAccrual` | proofs only |
| `VaultLpProofs` | `LpStrategy`, `VaultLp`; rests on `VaultProofs` | proofs only |
| other `*Proofs` | the module of that name (`FactoryProofs`: `FactoryReader` too) | proofs only |
| `MCConstants`, `MC*` | instances | constant values and bounds |

`Vault` extends `FeeTimelock` and `LpStrategy` (and `VaultMath` below them),
and instantiates `ShareLedger` with its NAV, supply and minted fee shares.
`VaultLp` extends `Vault` and instantiates `SoroswapGuard` with the vault's
address. `FactoryReader` extends `Factory`, which instantiates `VaultRegistry`
with the set of listed vaults. `SoroswapGuard` and `PhoenixGuard` extend
`TradeGuard`, and `TradeGuards` extends both; Phoenix's
`validate_swap_exact_in` is `ValidateSwapAlong` there, to keep the names apart.
The oracle stands beside the vault: `Vault` and `LpStrategy` let it answer
anything, which covers every behaviour of `Oracle`.

### From the code to actions

* An entry point is one action. Its guard is the conjunction of all its
  checks, those of the contracts it calls included; a panic is a disabled
  action. `require_auth` means that the `caller` or `from` parameter is the
  address that signs.
* `collect_fees` is not an action. `Accrued` computes what it mints, and
  `Deposit` and `Withdraw` use it and conjoin `CollectFees`.
* The auto-unwind of `withdraw` is the operator `Liquidate`: two folds over
  the list (`ProRata`, then `Sweep`) over a record of cash, positions, pool
  and an `ok` flag that a failing strategy clears.
* `strategy_value_in_nav` is split into `Readable` (where it does not panic)
  and `StrategyValue` (what it returns).
* `op_guard_pre_check` is `OpGuardAllows`. Its deletion of an old checkpoint
  is not visible: the checkpoint at the end of the call replaces it, and a
  call that fails undoes it.
* `invest_lp`, `unwind_lp` and `execute_trade` share the operators `MayStart`
  (the NAV before and the same-ledger check), `KeepsValue` (the NAV after
  against the tolerated loss) and, for the strategy's guard, `GuardedInvest`
  and `GuardedUnwind`. `UsedAsPair` is their check of `has_oracle` with the
  automatic LP flag.
* `get_value` of a two-asset strategy is split like `strategy_value_in_nav`:
  `LpReadable`, and `LpValue` with its fall-back `Unpriced`.
* The two LP contracts keep the same state under the same checks. They differ
  in the call of their venue (`AddLiquidity`, `RemoveLiquidity`), so one module
  models both; `PROJECT.json` maps its definitions to lines of either.
* The setters that only change a limit or a flag share `Configure`.
* The five `Announced*` keys are always written and cleared together, so they
  are one record.
* The base asset's own contract, the clock and AMM users are external.
  `Donate` is a plain transfer of base asset to the vault's address.

### Abstractions, by name

* `now` is both the timestamp and the ledger number: the code compares each
  only with itself.
* `PRICE_PRECISION`, `FEE_DENOMINATOR`, `SECONDS_PER_YEAR` and the delay are
  constants. TLC uses 2 or 3, 10, 1 and 1 or 2, so that every division
  truncates and every fee is felt at single-digit amounts. The proofs hold for
  all values.
* `Vault` computes in unbounded integers: amounts that overflow i128 are 20
  orders of magnitude above a real supply. `ShareToken` keeps the width.
* `Vault` uses the share token's `mint`, `burn` and `transfer`. It leaves out
  allowances, and with them the self-`transfer_from` of section 4, which would
  break every property that counts shares.
* An oracle is the answer it gives for each strategy: any of `Prices`, or 0
  for a `get_price` that panics (missing or stale).
* A trade guard may be set on any strategy of `VaultLp`; `invest` and `unwind`
  of Blend strategies ask none that refuses: both guards accept any positive
  amount from their vault. The guard is the Soroswap one; on its paths of two
  tokens the Phoenix guard decides alike.
* The pair is external. It takes part of an offer, down to the caller's
  minimum, mints tokens that dilute nobody, and pays pro rata, rounded down, as
  the Phoenix mock of the tests does. (The Soroswap mock of the tests pays half
  and half whatever the reserves; no property could hold of that.) Others
  swap, join, leave, and give tokens to the strategy at will. What the pair
  does not take of an offer stays at the strategy's address, where no code
  reads or moves it, and has no variable.
* The pair's first token is the base asset. `other` is what the vault holds of
  the second one, which the NAV does not count.
* No strategy of the repository has `quote_exact_in` or `execute_trade`. A
  *desk* stands for one: it quotes anything, takes the amount in and pays
  anything.
* The minima that the manager passes to `invest_lp` and `unwind_lp` only make
  calls fail; the instance passes 0, so that every outcome occurs.
* The host is taken to accept the transfers that strategies make from the
  vault, as the mocked authorizations of the tests do.
* All strategies serve this vault,
  and share one pool. The recipient of a withdrawal is not the vault itself.
* The strategies on the list are this repository's, and desks in `VaultLp`.
  `set_strategies` accepts any address (section 4): what a contract from
  elsewhere does with the base asset that `invest` approves to it, and what it
  answers to `get_value`, is not modelled. Every property and every theorem
  about the vault is about lists without such a contract.
* `feesMinted` is a sum over the fee events. No guard reads it.
* A whitelist is a set: the guards only test membership. `approved` in
  `TradeGuard` is a history variable; validation changes no state.
* The reader of `FactoryReader` is no code of the repository: it takes pages
  of any size from where the last one ended, until one is empty.
* `Calls` says which entry points an instance exercises; it removes actions,
  and never changes one.

## 3. Runs

| run | instance | checks |
|---|---|---|
| `token` | 2 accounts, 1 spender, i128 = -4..3, 3 ledgers | `TokenTypeOK`, `SupplyFollowsBalances`, `DebitsAreAuthorised` |
| `token_supply` | both accounts may be spenders | violation of `SupplyIsOutstanding` (section 4) |
| `fee_notice` | 2 managers, caps 1 and 2, delay 2, times 0..5 | `FeesWithinCaps`, `RaisesAreNoticed` |
| `ledger` | NAV up to 5, supply up to 8, precision 3 | `PriceNeverFalls`, `BackingIsKept` |
| `flow` | 2 holders, one of them the manager, 2 strategies, a private pool, up to 5 units of base asset, no fees or entry 20 % and exit 30 % | `AutoUnwindCovers`, `FundedStrategiesListed`, `NoRoundTripGain`, `SharesAccounted`, `ImplementsShareLedger` |
| `accrual` | 1 holder, management 30 % and performance 90 %, lowered to 0 and raised again, times 0 and 1, up to 8 units | `SharesAreBacked`, `PerfFeeLeavesGain`, `MgmtFeeNotBackdated`, `GainChargedOnce` |
| `same_ledger` | 2 accounts, 1 strategy, ledgers 0 and 1, guard, members and a cooldown of 1 switched in between | `OneKindPerLedger`, `NavFoundAsLeft`, `CooldownShownIsEnforced` |
| `risk` | 1 holder who is the manager, 1 strategy listed once or twice, amounts -1..2, prices missing, 0.5 and 2.0, limits off or 40 %, pauses, no fees | `PauseKeepsRecovery`, `TypeOK`, `FundsLeaveOnlyByRedemption`, `MovesAreLimited`, `NoDilution` |
| `lp` | a pair of up to 2 tokens a side and 2 liquidity tokens, a desk, quotes 1 and 3 with tolerance 40 %, prices 1.0 and 1.5 or one missing, limits off or 60 %, 2 whitelists, up to 2 units of base asset and 1 of the other | `TrackedLpIsHeld`, `LpValueIsClaimed`, `LpPositionsPriced`, `LpExitNeedsNoPrice`, `LpMovesAreLimited`, `TradesKeepQuote` |
| `oracle` | 2 admins, 2 assets, limits 0 to 2, prices -1..2, ledgers 0..4 | `StaleStaysRefused`, `PublishedIsReadable` |
| `factory` | 3 vaults, 2 callers, 2 managers, page cap 2, page sizes 1 and 3 | `ListedOnce`, `ListedAreInitialized`, `PagesCover`, `OrderKept`, `ImplementsRegistry` |
| `trade_guards` | i128 = -64..63, tolerance 2 of 10, 3 whitelists, paths of 1 to 4 tokens where Soroswap allows 2 and Phoenix 3, up to 3 operations where 2 are allowed | `SwapsKeepQuote`, `BetterTermsPass`, `PathMeansOperations` |

`flow` and `risk` run `AccountingSpec`: what the accounting of one ledger
reaches, without time, members, the guard and the cooldown, which no amount
depends on and `same_ledger` and `accrual` exercise.

The inductive invariants of section 5 were checked before they were proved:
`GuardInv` and `AccrualInv` on the instances of `same_ledger` and `accrual`,
the parts of `VaultInv` and `LpVaultInv` that no run lists on those of
`flow`, `risk`, `accrual` and `lp`, and `FaceInv`, `FaceNav` and `CoverInv` on
that of `flow`.

Why the bounds are enough. `MaxNav` caps base asset in the vault and its pool.
At precision 2 and with five units, prices from 0.5 to 5.0 occur, a
redemption truncates at almost every state, and a shortfall over two
strategies leaves dust (dropping the sweep breaks `AutoUnwindCovers`). Two
holders give the one who acts and the one who holds on. Two strategies are
the fewest for which pro-rata shares truncate apart. Two ledgers separate
"same" from "later", and two timestamps allow a collection, a pause and a
collection. With eight units a second gain can be charged after the first. Fee
rates are far above the code's caps because a fee on eight units has to be
worth a share before it is minted at all. `LedgerAmounts` are the amounts that
the steps of `ShareLedger` in the refinement may have; in `flow` they are 0 to
5, and no call can move more than the five units there are. In `lp`, two units on
each side are the fewest for which a payout truncates and others hold part of
the pair; the quote of 3 has a minimum of 2, so that the tolerance is used.
Each property fails under a plausible bug of the code; these are
the definitions marked `(mutant)`, and `PROJECT.json` pairs them.

What the deeper properties say:

* `ImplementsShareLedger`: under the mapping NAV, supply, fee shares, each
  call of the vault, auto-unwinds, entry and exit fees, list changes and
  rounding included, is a step of `ShareLedger` or a stutter. `flow` excludes
  prices and `sync_position`, so that no step may be a report.
* `NoDilution`: apart from fee shares no call lowers the price for those who
  hold on, while the NAV is what the holdings are; and no deposit or withdrawal
  does while an oracle counts positions at or below par. The second half is
  about the auto-unwind, which hands a strategy a value where it takes units
  (section 4): below par it takes too many units, and the holders who stay gain.
  Above par it takes too few, and they may lose: with the bound on the price
  relaxed to twice par, TLC finds a withdrawal on the instance of `risk` that
  violates the property. `risk` has no fees; that the fee shares of a call do
  not matter is part of the proof only.
* `PauseKeepsRecovery` and `LpExitNeedsNoPrice` say that a call *would succeed*.
  `MayUnwind` and `MayUnwindLp` are what the calls check before anything moves
  and, for `unwind`, after it: the NAV that the unwinding leaves is computed
  from the state before (`NavAfterUnwind`). A pause is in neither of them. On
  the instances of `risk` and `lp` TLC confirms that the first is
  `ENABLED Unwind(..)` and the second, while no limit reads the NAV,
  `ENABLED UnwindLp(..)`, in every state.
* `FundsLeaveOnlyByRedemption`: base asset that only Blend strategies of this
  repository are given leaves vault and pool only against burned shares and
  for at most their price, while the manager lists, flags, prices, reports and
  reconfigures those strategies at will. It says nothing of another contract
  that he lists (section 4), nor of pairs and desks, which `VaultLp` adds and
  for which `FundsLeaveThreeWays` (section 5) is the weaker statement that
  remains.
* `OneKindPerLedger` and `NavFoundAsLeft` compare the guard with an observer
  who never reads `OpState`. Removing a member resets its checkpoint in the
  code, and the observer's record with it.
* `MgmtFeeNotBackdated` and `GainChargedOnce` do the same for the accrued
  fees: the observer keeps its own clock and its own highest charged price.
* `ListedOnce`: `remove_vault` drops one occurrence, so it removes the vault
  only because no sequence of registrations lists one twice.
* `ImplementsRegistry`: as a set, the list changes by one vault at a time.
* `PagesCover`: registrations between two pages cost a reader nothing.
  A removal between two pages does: the vaults
  behind it move one index forward, across the boundary of a page already read.
* `BetterTermsPass` holds with saturated products too: saturation keeps order,
  wrapping would not.

* `LpValueIsClaimed` relates `get_value` to what the pair would pay at that
  moment, whatever others did to it: two independent truncating computations,
  from the reserves and from the payout.
* `LpPositionsPriced`: "vault enforces oracle presence for LP valuation
  safety" (`src/docs/architecture.md` 56). The code checks the oracle and sets
  the flag in `invest_lp`; the property says that no order of flags, price
  tokens, list changes and investments leads around it.
* `LpMovesAreLimited` takes the NAV as a whole: the second token leaves the
  count when the vault takes it back, offers that the pair does not take are
  lost, both moves round. `TradesKeepQuote` joins the guard's check before the
  swap with the vault's check after it.
* `LpExitNeedsNoPrice`: a price that is missing, a guard, or a pair that others moved do not keep the vault's liquidity there,
  once the limits that read the NAV are off.

`CHECK_DEADLOCK` is on everywhere: somebody can always act.

**Fairness and liveness.** Nothing in the contracts runs by itself: each step
is somebody's signed transaction, and nobody is obliged to send one. Fairness
would be an assumption about people, so the specifications have none and no
liveness property is stated. That a payment *can* be made when somebody asks
is stated as safety (`AutoUnwindCovers`), and so is that positions can be
taken back during a pause (`PauseKeepsRecovery`) and without prices
(`LpExitNeedsNoPrice`): each says that the call's checks pass in every such
state, which is as much as a program can promise that acts only when called.

## 4. Finding

**A self `transfer_from` creates tokens** (`share_token/src/lib.rs` 330-345).
Both balances are read before either is written, and there is no early return
as in `transfer`. The holder gains `amount`, and the supply does not change.
`token_supply` shows it; everything else keeps supply and balances in step
(`SupplyFollowsBalances`).

Also met while modelling, and not runs. In each but the first the model does
what the code does, and no property is stated against any of them:

* `src/README.md` 34 says that the manager "can never withdraw funds to an
  arbitrary address — only `withdraw()` callers who hold shares can redeem base
  assets", and 407 that he "cannot redirect vault funds to arbitrary
  addresses". The code does not keep that by itself. `set_strategies`
  (`vault/src/lib.rs` 624-654) lists any address that the manager passes, and
  `invest` (729-731) approves base asset to a listed address and calls it. What
  is left are the loss and concentration limits, which the manager may set to 0
  and which read the listed contract's own `get_value`. So base asset can leave
  with no share burned, and whether it does depends on what the manager lists.
  The model has lists of this repository's strategies only, and
  `FundsLeaveOnlyByRedemption` is about those. Even there a desk or a pair
  takes base asset without a redemption (`FundsLeaveThreeWays`).
* `set_mgmt_fee_bps` (`vault/src/lib.rs` 1337-1339) promises the old rate for
  the time before a change. `collect_fees` charges the whole period at the
  rate stored when it runs (1170).
* `src/docs/interactions.md` 38 has the vault auto-unwind strategies when its
  cash is short. `withdraw` (`vault/src/lib.rs` 555-561 and 573-583) hands a
  strategy a value in base asset where it takes units of its position. The two
  differ once an oracle prices the strategy: the strategy is asked for more
  than it has, or for too little, and a withdrawal the holdings cover fails.
  `AutoUnwindCovers` is therefore about states where NAV and holdings agree.
* `vault/src/lib.rs` 18 defines the NAV as base asset plus a sum over the
  strategies. `set_strategies` (652) accepts a list that names a strategy
  twice, and `nav` then counts it twice.
* `factory/src/lib.rs` 12-14 calls the list append-only. `remove_vault`
  (172-186) closes the gap it leaves, which hides a vault from a reader between
  two pages.
* `trade_guards/soroswap/src/lib.rs` 13-14 states the tolerance without
  exception. Above `i128::MAX / 1000` both products of `check_slippage`
  saturate (275) and any shortfall passes; no real quote is that large.
* `trade_guards/phoenix/src/lib.rs` 12-13 and `storage.rs` 34 measure slippage
  against the amount put in, the code (300-306) against the quote.
* `strategies/soroswap_lp/src/lib.rs` 118-119 wants the vault to authorize both
  transfers in advance. `invest_lp` approves an allowance, and the strategy
  calls `transfer`; the model assumes that the host lets it.
* A position in a pair worth less than one unit of base asset has the value 0,
  so `set_strategies` lets its strategy go.
* The comment on `set_max_loss_bps` calls the guard "disabled (default)", while
  `initialize` sets `DEFAULT_MAX_LOSS_BPS`. The model starts with the guard on.
* The same comment (1464-1466) says that the loss guard prevents draining
  "through repeated high-slippage operations". It bounds each operation by
  itself: a sequence may lose the tolerated part each time.

## 5. Proofs

Each theorem says that the specification implies the property, for all values
of the constants that its assumptions admit.

| theorem | specification | property |
|---|---|---|
| `ShareTokenProofs` | | |
| `TokenTypeCorrect` | `TokenSpec` | `TokenTypeOK` |
| `DebitsAuthorised` | `TokenSpec` | `DebitsAreAuthorised` |
| `SupplyFollows` | `TokenSpec` | `SupplyFollowsBalances` |
| `VaultProofs` | | |
| `FeeTypeCorrect`, `FeesCapped`, `RaisesNoticed` | `NoticeSpec` | `FeeTypeOK`, `FeesWithinCaps`, `RaisesAreNoticed` |
| `VaultTypeCorrect` | `Spec` | `TypeOK` |
| `SharesAreAccounted` | `Spec` | `SharesAccounted` |
| `CooldownIsExact` | `Spec` | `CooldownShownIsEnforced` |
| `RoundTripsDoNotGain` | `Spec` | `NoRoundTripGain` |
| `OnlyRedemptionsPay` | `Spec` (Blend strategies of this repository) | `FundsLeaveOnlyByRedemption` |
| `MovesKeepLimits` | `Spec` | `MovesAreLimited` |
| `PerformanceFeeLeavesGain` | `Spec` | `PerfFeeLeavesGain` |
| `HoldersAreNotDiluted` | `Spec` | `NoDilution` |
| `PositionsComeBack` | `Spec` | `PauseKeepsRecovery` |
| `VaultImplementsShareLedger` | `Spec` at face value | the refinement `ImplementsShareLedger` |
| `VaultKeepsLedgerPromises` | `Spec` at face value | `PriceNeverFalls` and `BackingIsKept`, of the vault's NAV, supply and fee shares |
| `SharesStayBacked` | `Spec` at face value, without `sync_position` | `SharesAreBacked` |
| `FundedStrategiesStayListed` | `Spec` without `sync_position` | `FundedStrategiesListed` |
| `AutoUnwindAlwaysCovers` | `Spec` without `sync_position` and `set_oracle` | `AutoUnwindCovers` |
| `OneKindInALedger`, `NavIsFoundAsLeft` | `GuardSpec` | `OneKindPerLedger`, `NavFoundAsLeft` |
| `ManagementFeeNotBackdated`, `GainsChargedOnce` | `AccrualSpec` | `MgmtFeeNotBackdated`, `GainChargedOnce` |
| `VaultLpProofs` | | |
| `TrackedIsHeld`, `ValueIsPaid` | `LpSpec` | `TrackedLpIsHeld`, `LpValueIsClaimed` |
| `TrackedIsHeldForVault`, `ValueIsPaidToVault` | `VaultLpSpec` | the same two |
| `PositionsArePriced` | `VaultLpSpec` | `LpPositionsPriced` |
| `LpMovesKeepLimits` | `VaultLpSpec` | `LpMovesAreLimited` |
| `TradesGetTheirQuote` | `VaultLpSpec`, no quote saturates | `TradesKeepQuote` |
| `PairExitNeedsNoPrice` | `VaultLpSpec` | `LpExitNeedsNoPrice` |
| `VaultKeptWithPair` | `VaultLpSpec` | `TypeOK`, `SharesAccounted`, `NoRoundTripGain`, `CooldownShownIsEnforced` |
| `FeeLeavesGainWithPair` | `VaultLpSpec` | what `PerfFeeLeavesGain` says of a step |
| `FundsLeaveThreeWays` | `VaultLpSpec` | base asset leaves by redemption, with the pair's record, or in a trade the guard let through |
| `VaultMathProofs` | | |
| `RoundTripNeverGains` | (arithmetic) | buying and redeeming at the price left returns at most what was paid |
| `ShareLedgerProofs` | | |
| `LedgerTypeCorrect`, `LedgerPriceNeverFalls`, `LedgerBackingIsKept` | `LedgerSpec` | `LedgerTypeOK`, `PriceNeverFalls`, `BackingIsKept` |
| `OracleProofs` | | |
| `OracleTypeCorrect`, `StaleRefused`, `PublishedReadable` | `OracleSpec` | `OracleTypeOK`, `StaleStaysRefused`, `PublishedIsReadable` |
| `FactoryProofs` | | |
| `NoVaultListedTwice`, `ListedInitialized`, `OrderStays` | `FactorySpec` | `ListedOnce`, `ListedAreInitialized`, `OrderKept` |
| `ListImplementsRegistry` | `FactorySpec` | the refinement `ImplementsRegistry` |
| `ReadingIsPrefix`, `PagesCoverRegistry` | `ReaderSpec` | `ReadIsPrefix`, `PagesCover` |
| `TradeGuardProofs` | | |
| `GuardsKeepQuote`, `BetterTermsAccepted`, `PathsMeanOperations` | `GuardsSpec` | `SwapsKeepQuote`, `BetterTermsPass`, `PathMeansOperations` |

**Assumptions.** The theorems rest on the named assumptions on constants
(`*Assumption` in the modules that declare them), which TLC evaluates in the
runs. They say that numbers are numbers, that roles, desks and the pair are
among the accounts and strategies, that there are finitely many accounts and
strategies (a sum over all of them means something only then), and that a value
standing for "none" is none of the values it stands beside. Some theorems add a
hypothesis of their own:

* `FundedStrategiesStayListed` is about instances without `sync_position`. With
  it the property is false: a strategy's manager can report a position for a
  strategy that is not on the list.
* `VaultImplementsShareLedger`, `VaultKeepsLedgerPromises` and
  `SharesStayBacked` are about a vault "at face value": `set_oracle` is not among its calls, and no list names a strategy
  twice. A price that falls between two calls, or a double count that an unwinding
  takes back, changes the NAV without anybody's shares, and price and
  backing with it. `ShareLedger` knows that only as a report. The refinement
  also takes `LedgerAmounts` to be `Nat`; a run can only enumerate a bound.
  `sync_position` is a report, and may leave shares with nothing behind them,
  so `SharesStayBacked` excludes it.
* `AutoUnwindAlwaysCovers` excludes the reports and the prices that let a
  position differ from what its strategy can pay. It puts no condition on the
  list.
* `TradesGetTheirQuote` wants every quote times `FEE_DENOMINATOR` to be an
  i128. Above that the guard's products saturate, and the tolerance is lost
  (section 4).

**Arguments.**

* Share token: `TokenTypeOK` is inductive by itself. A credit is bounded
  above by its checked sum, a debit below by the balance check. The supply may
  only be shown to be an i128, not to be non-negative: after a self
  `transfer_from` more can be burned than was minted. `SupplyFollows` adds up
  two balances that one step changes; it needs `UnmintedInv` (no tokens before
  `initialize`), because `initialize` resets both.
* Sums: the sum over accounts is a fold over a finite set. What one term does
  to it (`SumStep`, `SumChanged`), and that the order of the fold does not matter, is
  proved by induction on the subsets of a finite set (`SubsetInduction`), with
  the property written out as a set of good subsets.
* Fees: `RaisesAreNoticed` is not provable from types. The invariant is
  `FeeTypeOK /\ FeesWithinCaps /\ NoticeInv`: the pending schedule is what
  the observer last heard, and its activation is exactly one delay later. Each
  way to raise a fee then follows: direct setters only lower, and a commit
  passes the activation test.
* Arithmetic: lemmas about truncating division (`DivBounds` and those that
  follow it) bound a price from both sides, and reduce each inequality between
  quotients to one between products, proved from monotonicity of `*`.
* Vault: `VaultInv` is `TypeOK`, `FeesWithinCaps`, `SharesAccounted` and
  "the last collection is not in the future". Each part needs the others: a fee
  within its cap and a period that is not negative make the accrued shares
  natural, and that the balances sum to the supply bounds what a transfer or a
  burn takes. The NAV is natural because each strategy's value is, and so is a
  finite sum of such values.
* The auto-unwind: both loops of `withdraw` are folds, and a fold is read off a
  table of the states after each part of the list. `LoopTable` shows that the
  table exists, and `LoopInvariant` that what each round keeps holds at the
  end, for a list of any length. With it `OnlyRedemptionsPay` shows that unwinding moves cash and pool money one
  for one and only lowers positions, so that what leaves is the payment, which
  `BaseNet` bounds by the price of the shares that are burned.
* `PerformanceFeeLeavesGain`: fee shares come from a truncated fee at a
  truncated price; the lemma behind it bounds the supply after both fees by
  what the NAV carries at the old mark.
* `HoldersAreNotDiluted` sorts the calls by what they do to the two totals.
  `DepositSells` and `WithdrawBuys` say that a deposit issues shares for at
  least, and a withdrawal redeems them for at most, the price after the fee
  shares, whatever entry fee, exit fee and auto-unwind make of the amounts;
  `OtherCalls` says that every other call gives, burns, shifts base asset
  between the vault and a listed position, or reports. Two lemmas of
  `VaultMathProofs` (`IssueKeepsPrice`, `RedemptionKeepsPrice`) then keep the
  price, the same two that prove `PriceNeverFalls` of `ShareLedger`.
  Below par the NAV after a withdrawal has to be bounded without the
  holdings. What counts for at most its units loses, with some units gone, at
  most as much as went (`PartAtMostPar`), for each entry of the list and so for
  the sum (`SumsCompared`); the two loops move units one for one into cash.
  `WithdrawLowersNav` concludes that the NAV falls by at most the payment, and
  `DealingKeepsPrice` compares prices as before.
* `PositionsComeBack`: the position is a Blend strategy's (`OnlyBlend`, an
  invariant), so that its strategy and the pool accept the withdrawal whatever
  the vault's settings. With a limit that reads the NAV, the sum along the list
  changes in the one entry that names the strategy, and that entry falls by no
  more than the cash that comes in: the NAV does not fall, and every loss limit
  passes.
* `PairExitNeedsNoPrice`: the call's checks are met one by one. The strategy's
  record is covered by tokens it holds (`TrackedLpIsHeld`), it has its oracle
  (`LpPositionsPriced`), and the guard asks for the vault's address, to which
  nothing rebinds it (`GuardVaultKept`).
* The refinement needs the NAV as a sum that the calls act on. `FaceInv` (no
  oracle, nothing in a pair, positions only at Blend strategies, a list
  without repetitions) is inductive, and under it `FaceNav` holds: the NAV, a
  sum along the list, is the sum over the set of listed strategies
  (`SumAlongList`). A new list may only drop strategies with nothing in them
  (`OnlyEmptyLeave`, `ListKeepsSum`). `FaceStep` names the step of
  `ShareLedger` that each call is. `SharesStayBacked` reads its induction off
  the same lemma: the only such step that takes base asset pays at most the
  price, so it leaves something behind every share it leaves.
* `VaultKeepsLedgerPromises` uses the refinement for what it is good for:
  `ShareLedgerProofs` is instantiated with the vault's totals, and what it
  proves of the ledger follows for the vault. Unlike `NoDilution`, the result
  has no condition on the states of a step.
* `AutoUnwindAlwaysCovers`: `CoverInv` says that every position is a listed Blend
  strategy's and that the pool holds what all positions together are owed. Each
  pull is then accepted (`NoPullRefused`), because moving base asset
  from the pool to the vault keeps the pool ahead of what it still owes. After the
  second loop, for each listed strategy the payment is met or nothing is left at
  it: a pull of one round is not undone by a later one (`SweepLoop`). If
  the payment were not met, all positions would be 0 and the vault
  would hold its whole NAV, which is no less than the payment.
* `FundedInv` strengthens `FundedStrategiesListed` by "and is a Blend
  strategy": only `invest` raises a position, of a listed one, and
  `set_strategies` refuses to drop it.
* `GuardInv`: while an observer has seen operations of an account in this
  ledger, the guard is on and the vault's checkpoint is that operation, of this
  ledger, at the NAV the observer saw. Turning the guard off or a ledger ending
  forgets both.
* `AccrualInv`: the vault's timestamp is the observer's time ago, and its mark
  is never under a price it charged at.
* Two-asset strategies: `LpTypeOK /\ TrackedLpIsHeld` is inductive. Its second
  half, a pair with liquidity has both reserves, is what makes the pro-rata
  payout well defined, keeps a pair that shrinks funded as long as tokens are
  left, and rules out the fall-back to raw units. `LpVaultInv` carries it to
  `VaultLp`, together with `VaultInv` and `LpPositionsPriced`: every step of
  the vault with a pair is a step of the vault, a move of the pair, or a trade.
  So what a step of `Vault` keeps by `VaultInv` alone it keeps in `VaultLp`
  too (`VaultKeptWithPair`, `FeeLeavesGainWithPair`): the other steps touch
  neither shares nor fees. `FundsLeaveOnlyByRedemption` gains the two ways that
  `VaultLp` adds, and `LpMovesKeepLimits` says what each of them may cost.
* `TradesGetTheirQuote` joins two checks: the guard's, before the swap, bounds
  the minimum by the quote; the vault's, after it, bounds the payment by the
  minimum.
* Ledger: `PriceNeverFalls` needs `nav` and `supply` natural and one lemma
  per action that compares two prices.
* Oracle: `OracleTypeOK` contains the one fact that matters, that no price is
  dated in the future; freshness can then only be lost as time passes.
* Factory: `ListInv` adds to the two invariants that the list is empty before
  `initialize`, which makes that step a stutter of `VaultRegistry`. Two
  lemmas say what appending and removing do to a list without repetitions.
  The reader's invariant says that it has read a prefix, and that what was
  registered throughout is still listed.
* Guards: every call that is let through records terms that passed its check
  (`ApprovedTerms`, the inductive invariant). Where nothing saturates the
  checked comparison is the exact one; where something does, it is still
  monotone. `PathsMeanOperations` compares two checks of the same tokens, one
  along a path, one along the operations between its neighbours.

The type invariants of the fee schedule, the ledger and the oracle are proved
and not run again.

Every property that a passing run checks is proved, some under a hypothesis
named above. Only model-checked: that the guards `MayUnwind` and `MayUnwindLp`
are what enables their calls, because `ENABLED` is out of the prover's reach.
`SupplyIsOutstanding` is false (section 4). There is no liveness to prove
(section 3).

## 6. Not modelled, and what could follow

Not modelled:

* events, error codes, storage lifetimes (`extend_ttl`), metadata, scripts and
  deployment files, which hold no state that a later call reads;
* the one-time `initialize` of the vault, the strategies and the token they
  deal in: the initial states are those it leaves (`Oracle`, `Factory`,
  `ShareToken` and the guards do model theirs);
* allowances of the share token inside `Vault`, and the per-account `Supply`
  record of the mock pool, which no guard reads;
* tokens that a pair does not take, after they reached a strategy;
* the AMM venues and the base asset's contract, which are external.

What could follow:

1. `Vault` with `Oracle` in place of an answer at will: which calls stop when
   a price grows stale, and that publishing it lets them pass again.
2. What a withdrawal may cost the others when a position counts above par, as
   a bound on the loss in place of `NoDilution`'s condition.
3. Several vaults registered at one factory over one oracle.
