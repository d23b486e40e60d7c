------------------------------- MODULE Vault -------------------------------
(***************************************************************************)
(* The vault and everything its accounting reads: its share token, its     *)
(* single-asset (Blend) strategies, the pool they lend to, the prices an   *)
(* oracle may put on them, and the value of a two-asset strategy.  Roles   *)
(* and fees are those of FeeTimelock, the two-asset strategy is that of    *)
(* LpStrategy; what the vault does with it is in VaultLp.                  *)
(*                                                                         *)
(* A Soroban call is a transaction: it runs alone and a panic anywhere     *)
(* below it undoes all of it.  An entry point is therefore one action,     *)
(* guarded by every check that can panic.  A ledger is a timestamp: `now`  *)
(* stands for both env.ledger().timestamp() and env.ledger().sequence().   *)
(*                                                                         *)
(* Of the share token only what holders and the vault do to balances and   *)
(* supply is here; its allowances are in module ShareToken.  Depositors    *)
(* have all the base asset they need, and what is paid out leaves.         *)
(*                                                                         *)
(* set_strategies accepts any address.  Here the manager lists this        *)
(* repository's strategies, which lend what they are given, and the desks  *)
(* of VaultLp; a contract from elsewhere that he lists is not modelled.    *)
(***************************************************************************)
EXTENDS FeeTimelock, LpStrategy, Sequences, SequencesExt

CONSTANTS
    Accounts,              \* depositors, managers and other share holders
    Strategies,            \* this repository's strategies, of all kinds, and desks
    PairStrategy,          \* the one whose state is that of LpStrategy, or None
    Desks,                 \* those the vault trades through: they hold nothing
    DEFAULT_MAX_LOSS_BPS,
    None,                  \* an absent Option
    Calls,                 \* entry points this instance exercises
    Amounts,               \* amounts, shares and units callers pass
    StrategyLists,         \* lists passed to set_strategies
    Settings,              \* values passed to the numeric risk setters
    Prices,                \* prices an oracle publishes; 0: get_price panics
    MaxNav,                \* bound: base asset in the vault and its pool
    LedgerAmounts          \* amounts ShareLedger deals in, see below

ASSUME VaultAssumption ==
    /\ IsFiniteSet(Accounts) /\ IsFiniteSet(Strategies)
    /\ Managers \subseteq Accounts
    /\ StrategyManager \in Managers
    /\ PairStrategy \in (Strategies \cup {None}) \ Desks
    /\ Desks \subseteq Strategies
    /\ DEFAULT_MAX_LOSS_BPS \in 0 .. FEE_DENOMINATOR
    /\ Amounts \subseteq Int
    /\ StrategyLists \subseteq Seq(Strategies)
    /\ Settings \subseteq Int
    /\ Prices \subseteq Nat
    /\ MaxNav \in Nat
    /\ LedgerAmounts \subseteq Nat
    /\ \A k \in FeeKinds : FeeCap[k] <= FEE_DENOMINATOR

VARIABLES
    shares,          \* share token: Balance
    supply,          \* share token: TotalSupply
    cash,            \* base asset held by the vault itself
    config,          \* pause flag, private pool and risk limits
    members,         \* Member(a)
    lastDeposit,     \* LastDepositTs(a)
    opState,         \* OpState(a)
    lastMgmtFeeTs,   \* LastMgmtFeeTs
    highWaterMark,   \* HighWaterMark
    feesMinted,      \* sums of fee_shares over all mgmt_fee and perf_fee events
    strategies,      \* Strategies, the ordered whitelist
    lpFlagged,       \* strategies whose LpStrategy flag is set
    oracleSet,       \* whether an Oracle is configured
    priceTokens,     \* strategies with a StrategyPriceToken
    price,           \* what the oracle answers for each strategy's token
    position,        \* Blend strategy: TotalDeposited
    stratPaused,     \* Blend strategy: Paused
    pool             \* base asset held by the lending pool

tokenVars    == <<shares, supply>>
accountVars  == <<members, lastDeposit, opState>>
accrualVars  == <<lastMgmtFeeTs, highWaterMark, feesMinted>>
listVars     == <<strategies, lpFlagged, oracleSet, priceTokens, price>>
strategyVars == <<position, stratPaused, pool>>
vaultVars    == <<tokenVars, cash, config, accountVars, accrualVars, listVars, strategyVars>>
vars         == <<feeVars, lpVars, vaultVars>>

Operations == {"deposit", "withdraw", "invest", "unwind", "invest_lp", "unwind_lp", "trade"}

BlendStrategies == Strategies \ (Desks \cup {PairStrategy})

ConfigType ==
    [paused : BOOLEAN, private_pool : BOOLEAN, value_guard : BOOLEAN,
     deposit_cap : Nat, exit_cooldown : Nat,
     max_loss_bps : 0 .. FEE_DENOMINATOR, max_concentration_bps : 0 .. FEE_DENOMINATOR]

OpStates == [ledger : Nat, op_type : Operations, expected_nav_after : Nat]

ASSUME AbsenceAssumption == None \notin OpStates

TypeOK ==
    /\ FeeTypeOK
    /\ LpTypeOK
    /\ shares \in [Accounts -> Nat]
    /\ supply \in Nat
    /\ cash \in Nat
    /\ config \in ConfigType
    /\ members \subseteq Accounts
    /\ lastDeposit \in [Accounts -> Nat \cup {None}]
    /\ opState \in [Accounts -> OpStates \cup {None}]
    /\ lastMgmtFeeTs \in Nat /\ highWaterMark \in Nat
    /\ feesMinted \in [mgmt : Nat, perf : Nat]
    /\ strategies \in Seq(Strategies)
    /\ lpFlagged \subseteq Strategies /\ priceTokens \subseteq Strategies
    /\ oracleSet \in BOOLEAN
    /\ price \in [Strategies -> Nat]
    /\ position \in [Strategies -> Nat]
    /\ stratPaused \in [Strategies -> BOOLEAN]
    /\ pool \in Nat

\* The state initialize leaves, with freshly initialized strategies around it.
Init ==
    /\ FeeInit
    /\ LpInit
    /\ shares = [a \in Accounts |-> 0]
    /\ supply = 0
    /\ cash = 0
    /\ config = [paused |-> FALSE, private_pool |-> FALSE, value_guard |-> FALSE,
                 deposit_cap |-> 0, exit_cooldown |-> 0,
                 max_loss_bps |-> DEFAULT_MAX_LOSS_BPS, max_concentration_bps |-> 0]
    /\ members = {}
    /\ lastDeposit = [a \in Accounts |-> None]
    /\ opState = [a \in Accounts |-> None]
    /\ lastMgmtFeeTs = now
    /\ highWaterMark = PRICE_PRECISION
    /\ feesMinted = [mgmt |-> 0, perf |-> 0]
    /\ strategies = <<>>
    /\ lpFlagged = {} /\ oracleSet = FALSE /\ priceTokens = {}
    /\ price = [s \in Strategies |-> 0]
    /\ position = [s \in Strategies |-> 0]
    /\ stratPaused = [s \in Strategies |-> FALSE]
    /\ pool = 0

-----------------------------------------------------------------------------
(* Net asset value *)

Listed == ToSet(strategies)

\* What get_value answers, given the positions of the Blend strategies.
GetValue(s, pos) == IF s = PairStrategy THEN LpValue ELSE pos[s]

\* strategy_value_in_nav, where it returns: see Readable.
StrategyValue(s, v) ==
    IF v # 0 /\ s \notin lpFlagged /\ oracleSet /\ s \in priceTokens
    THEN (v * price[s]) \div PRICE_PRECISION
    ELSE v

\* A Blend strategy has no has_oracle, so flagging it LP makes its position
\* unreadable; get_price panics rather than answer 0.
Readable(pos) ==
    /\ PairStrategy \in Listed => LpReadable
    /\ \A s \in {t \in Listed : GetValue(t, pos) # 0} :
          IF s \in lpFlagged
          THEN s = PairStrategy /\ lpHasOracle
          ELSE oracleSet /\ s \in priceTokens => price[s] > 0

\* A strategy that is listed twice is counted twice.
NavOf(c, pos) ==
    c + SumFunction([i \in DOMAIN strategies |->
                        StrategyValue(strategies[i], GetValue(strategies[i], pos))])

Nav == NavOf(cash, position)

-----------------------------------------------------------------------------
(* Fees accrued by a deposit or a withdrawal *)

\* collect_fees: the shares minted to the manager and the new high-water mark.
Accrued ==
    LET mgmt    == IF supply = 0 THEN 0
                   ELSE MgmtFeeShares(Nav, supply, fees["mgmt"], now - lastMgmtFeeTs)
        current == SharePrice(Nav, supply + mgmt)
        gained  == supply > 0 /\ fees["perf"] > 0 /\ current > highWaterMark /\ highWaterMark > 0
    IN  [mgmt |-> mgmt,
         perf |-> IF gained
                  THEN PerfFeeShares(current, highWaterMark, supply + mgmt, fees["perf"])
                  ELSE 0,
         mark |-> IF gained THEN current ELSE highWaterMark]

FeeTotal(f) == f.mgmt + f.perf

\* (mutant) the timestamp advances only while a management fee is charged
CollectFeesIfCharged ==
    /\ lastMgmtFeeTs' = IF fees["mgmt"] > 0 THEN now ELSE lastMgmtFeeTs
    /\ highWaterMark' = Accrued.mark
    /\ feesMinted' = [mgmt |-> feesMinted.mgmt + Accrued.mgmt,
                      perf |-> feesMinted.perf + Accrued.perf]

\* (mutant) the high-water mark is not raised to the price that was charged
CollectFeesKeepingMark ==
    /\ lastMgmtFeeTs' = now
    /\ highWaterMark' = highWaterMark
    /\ feesMinted' = [mgmt |-> feesMinted.mgmt + Accrued.mgmt,
                      perf |-> feesMinted.perf + Accrued.perf]

CollectFees ==
    /\ lastMgmtFeeTs' = now
    /\ highWaterMark' = Accrued.mark
    /\ feesMinted' = [mgmt |-> feesMinted.mgmt + Accrued.mgmt,
                      perf |-> feesMinted.perf + Accrued.perf]

\* (mutant) a credit replaces the balance
CreditReplacing(bal, a, n) == [bal EXCEPT ![a] = IF n > 0 THEN n ELSE @ + n]

Credit(bal, a, n) == [bal EXCEPT ![a] = @ + n]

-----------------------------------------------------------------------------
(* Same-ledger value guard *)

\* (mutant) the kind of operation is not compared
OpGuardIgnoringKind(actor, op) ==
    config.value_guard /\ opState[actor] # None /\ opState[actor].ledger = now =>
        opState[actor].expected_nav_after = Nav

\* (mutant) the NAV is not compared
OpGuardIgnoringNav(actor, op) ==
    config.value_guard /\ opState[actor] # None /\ opState[actor].ledger = now =>
        opState[actor].op_type = op

OpGuardAllows(actor, op) ==
    config.value_guard /\ opState[actor] # None /\ opState[actor].ledger = now =>
        /\ opState[actor].op_type = op
        /\ opState[actor].expected_nav_after = Nav

\* The check drops the state of an earlier ledger and the checkpoint that ends
\* the same call replaces it, so a completed call leaves only the checkpoint.
Checkpoint(actor, op, navAfter) ==
    opState' = IF config.value_guard
               THEN [opState EXCEPT ![actor] =
                        [ledger |-> now, op_type |-> op, expected_nav_after |-> navAfter]]
               ELSE opState

-----------------------------------------------------------------------------
(* Deposit and withdraw *)

Deposit(from, amount) ==
    LET s     == supply + FeeTotal(Accrued)
        total == DepositShares(amount, SharePrice(Nav, s), s)
        entry == EntryFeeShares(total, fees["entry"])
    IN  /\ ~config.paused
        /\ amount > 0
        /\ config.private_pool => from = manager \/ from \in members
        /\ Readable(position)
        /\ OpGuardAllows(from, "deposit")
        /\ total - entry > 0
        /\ config.deposit_cap > 0 => Nav + amount <= config.deposit_cap
        /\ cash + pool + amount <= MaxNav          \* bound
        /\ CollectFees
        /\ shares' = Credit(Credit(shares, from, total - entry),
                            manager, FeeTotal(Accrued) + entry)
        /\ supply' = s + total
        /\ cash' = cash + amount
        /\ lastDeposit' = [lastDeposit EXCEPT ![from] = now]
        /\ Checkpoint(from, "deposit", NavOf(cash', position))
        /\ UNCHANGED <<feeVars, lpVars, config, members, listVars, strategyVars>>

\* The pool's side of a withdrawal: it pays from what it holds, whatever it has
\* on record for the strategy.
PoolPays(held, amount) == amount <= held

\* strategy.withdraw during an auto-unwind; a failure anywhere fails the call, as
\* does a strategy whose withdraw takes other arguments.
Pull(st, s, units) ==
    IF s \notin BlendStrategies \/ stratPaused[s] \/ units > st.position[s] \/ ~PoolPays(st.pool, units)
    THEN [st EXCEPT !.ok = FALSE]
    ELSE [st EXCEPT !.cash = @ + units, !.position[s] = @ - units, !.pool = @ - units]

\* What a strategy is worth to the auto-unwind after the pulls made so far: a
\* strategy that is flagged LP is left alone.
Held(st, s) ==
    IF s \in lpFlagged THEN 0 ELSE StrategyValue(s, GetValue(s, st.position))

\* A pro-rata share of the shortfall; the strategies' total value is read once,
\* before the first pull.
ProRata(need, total, st, s) ==
    LET pull == Least(((need - cash) * Held(st, s)) \div total, Held(st, s))
    IN  IF pull > 0 THEN Pull(st, s, pull) ELSE st

\* (mutant) the dust that the rounding of the shares leaves is not swept
NoSweep(need, st, s) == st

Sweep(need, st, s) ==
    LET pull == Least(Held(st, s), need - st.cash)
    IN  IF pull > 0 THEN Pull(st, s, pull) ELSE st

\* Auto-unwind for a payment of `need`: first a pro-rata share of the
\* shortfall from every single-asset strategy, then a sweep for what rounding
\* left.  What is pulled is a value in base asset, handed to the strategy as a
\* number of its units.
Liquidate(need) ==
    LET start == [cash |-> cash, position |-> position, pool |-> pool, ok |-> TRUE]
        total == SumFunction([i \in DOMAIN strategies |-> Held(start, strategies[i])])
        prorated == FoldLeft(LAMBDA st, s : ProRata(need, total, st, s), start, strategies)
    IN  IF cash >= need \/ total = 0
        THEN start
        ELSE FoldLeft(LAMBDA st, s : Sweep(need, st, s), prorated, strategies)

\* (mutant) the last instant of the cooldown is refused too
CooledDownAfter(a) ==
    lastDeposit[a] # None => now > lastDeposit[a] + config.exit_cooldown

CooledDown(a) ==
    lastDeposit[a] # None => now >= lastDeposit[a] + config.exit_cooldown

MayExit(a) == config.exit_cooldown > 0 => CooledDown(a)

\* What get_exit_remaining_cooldown answers.
RemainingCooldown(a) ==
    IF config.exit_cooldown = 0 \/ lastDeposit[a] = None
    THEN 0
    ELSE LET unlock == lastDeposit[a] + config.exit_cooldown
         IN  IF unlock > now THEN unlock - now ELSE 0

\* The recipient is any address but the vault's own.
Withdraw(from, amount) ==
    LET s     == supply + FeeTotal(Accrued)
        gross == BaseGross(amount, SharePrice(Nav, s))
        net   == BaseNet(gross, fees["exit"])
        after == Liquidate(net)
    IN  /\ ~config.paused
        /\ amount > 0
        /\ MayExit(from)
        /\ amount <= shares[from]
        /\ Readable(position)
        /\ OpGuardAllows(from, "withdraw")
        /\ net > 0
        /\ after.ok
        /\ after.cash >= net
        /\ CollectFees
        /\ shares' = Credit(Credit(shares, manager, FeeTotal(Accrued)), from, -amount)
        /\ supply' = s - amount
        /\ cash' = after.cash - net
        /\ position' = after.position
        /\ pool' = after.pool
        /\ Checkpoint(from, "withdraw", NavOf(cash', position'))
        /\ UNCHANGED <<feeVars, lpVars, config, members, lastDeposit, listVars, stratPaused>>

-----------------------------------------------------------------------------
(* Invest and unwind *)

ReadsNav == config.max_loss_bps > 0 \/ config.value_guard

\* (mutant) what the strategy pulls from the vault never reaches the pool
BlendDepositUnsupplied(s, amount) ==
    /\ s \in BlendStrategies
    /\ ~stratPaused[s]
    /\ amount <= cash
    /\ cash' = cash - amount
    /\ position' = Credit(position, s, amount)
    /\ pool' = pool

\* The strategy pulls the amount from the vault and supplies it to the pool.
\* Other strategies have no such entry point.
BlendDeposit(s, amount) ==
    /\ s \in BlendStrategies
    /\ ~stratPaused[s]
    /\ amount <= cash
    /\ cash' = cash - amount
    /\ position' = Credit(position, s, amount)
    /\ pool' = pool + amount

\* (mutant) a paused vault cannot take its positions back
WithdrawableUnlessPaused(s, units) ==
    /\ ~config.paused /\ s \in BlendStrategies /\ ~stratPaused[s]
    /\ units <= position[s] /\ PoolPays(pool, units)

\* The strategy and its pool accept the withdrawal.
Withdrawable(s, units) ==
    /\ s \in BlendStrategies
    /\ ~stratPaused[s]
    /\ units <= position[s]
    /\ PoolPays(pool, units)

\* A trade guard of this vault lets every positive amount be invested in a Blend
\* strategy or unwound from it: set or not, it changes nothing here.
Invest(caller, s, amount) ==
    LET after == NavOf(cash', position')
    IN  /\ caller = manager
        /\ amount > 0
        /\ s \in Listed
        /\ ReadsNav => Readable(position) /\ OpGuardAllows(caller, "invest")
        /\ BlendDeposit(s, amount)
        /\ ReadsNav \/ config.max_concentration_bps > 0 => Readable(position')
        /\ config.max_concentration_bps > 0 /\ after > 0 =>
               ConcentrationBps(StrategyValue(s, position'[s]), after)
                   <= config.max_concentration_bps
        /\ config.max_loss_bps > 0 => after >= MinNav(Nav, config.max_loss_bps)
        /\ Checkpoint(caller, "invest", after)
        /\ UNCHANGED <<feeVars, lpVars, tokenVars, config, members, lastDeposit, accrualVars,
                       listVars, stratPaused>>

\* The net asset value once `units` of s are back: the pool pays the vault directly.
NavAfterUnwind(s, units) == NavOf(cash + units, Credit(position, s, -units))

\* Every check of unwind, none of which is the pause flag.  What the strategy
\* is worth matters to the loss limit only, and the NAV is read for the limits
\* only.
MayUnwind(caller, s, units) ==
    /\ caller = manager
    /\ units > 0
    /\ s \in Listed
    /\ ReadsNav => Readable(position) /\ OpGuardAllows(caller, "unwind")
    /\ Withdrawable(s, units)
    /\ config.max_loss_bps > 0 =>
           NavAfterUnwind(s, units) >= MinNav(Nav, config.max_loss_bps)

Unwind(caller, s, units) ==
    /\ MayUnwind(caller, s, units)
    /\ cash' = cash + units
    /\ position' = Credit(position, s, -units)
    /\ pool' = pool - units
    /\ Checkpoint(caller, "unwind", NavAfterUnwind(s, units))
    /\ UNCHANGED <<feeVars, lpVars, tokenVars, config, members, lastDeposit, accrualVars,
                   listVars, stratPaused>>

-----------------------------------------------------------------------------
(* The manager's settings *)

\* (mutant) a funded strategy may be dropped
AnyRemovable(list) == TRUE

Removable(list) ==
    \A s \in Listed \ ToSet(list) :
        GetValue(s, position) = 0 /\ (s = PairStrategy => LpReadable)

\* A strategy may leave the list only when its get_value is 0.  Nothing checks
\* the new list for duplicates, and a flag or price token outlives its listing.
SetStrategies(caller, list) ==
    /\ caller = manager
    /\ Removable(list)
    /\ strategies' = list
    /\ UNCHANGED <<feeVars, lpVars, tokenVars, cash, config, accountVars, accrualVars,
                   lpFlagged, oracleSet, priceTokens, price, strategyVars>>

SetLpStrategy(caller, s, isLp) ==
    /\ caller = manager
    /\ s \in Listed
    /\ isLp \/ s \notin lpFlagged
    /\ lpFlagged' = IF isLp THEN lpFlagged \cup {s} ELSE lpFlagged
    /\ UNCHANGED <<feeVars, lpVars, tokenVars, cash, config, accountVars, accrualVars,
                   strategies, oracleSet, priceTokens, price, strategyVars>>

SetOracle(caller) ==
    /\ caller = manager
    /\ oracleSet' = TRUE
    /\ UNCHANGED <<feeVars, lpVars, tokenVars, cash, config, accountVars, accrualVars,
                   strategies, lpFlagged, priceTokens, price, strategyVars>>

SetStrategyOracleToken(caller, s) ==
    /\ caller = manager
    /\ s \in Listed
    /\ s \notin lpFlagged
    /\ priceTokens' = priceTokens \cup {s}
    /\ UNCHANGED <<feeVars, lpVars, tokenVars, cash, config, accountVars, accrualVars,
                   strategies, lpFlagged, oracleSet, price, strategyVars>>

Configure(caller, new) ==
    /\ caller = manager
    /\ config' = new
    /\ UNCHANGED <<feeVars, lpVars, tokenVars, cash, accountVars, accrualVars, listVars, strategyVars>>

Pause(caller)   == Configure(caller, [config EXCEPT !.paused = TRUE])
Unpause(caller) == Configure(caller, [config EXCEPT !.paused = FALSE])

SetPrivatePool(caller, flag) == Configure(caller, [config EXCEPT !.private_pool = flag])
SetValueGuardEnabled(caller, flag) == Configure(caller, [config EXCEPT !.value_guard = flag])
SetExitCooldownSecs(caller, secs) == Configure(caller, [config EXCEPT !.exit_cooldown = secs])

SetDepositCap(caller, cap) ==
    cap >= 0 /\ Configure(caller, [config EXCEPT !.deposit_cap = cap])

SetMaxLossBps(caller, bps) ==
    bps <= FEE_DENOMINATOR /\ Configure(caller, [config EXCEPT !.max_loss_bps = bps])

SetMaxConcentrationBps(caller, bps) ==
    /\ bps <= FEE_DENOMINATOR
    /\ Configure(caller, [config EXCEPT !.max_concentration_bps = bps])

AddMember(caller, a) ==
    /\ caller = manager
    /\ members' = members \cup {a}
    /\ UNCHANGED <<feeVars, lpVars, tokenVars, cash, config, lastDeposit, opState, accrualVars,
                   listVars, strategyVars>>

\* Removing a member also forgets the checkpoint of its last operation.
RemoveMember(caller, a) ==
    /\ caller = manager
    /\ members' = members \ {a}
    /\ opState' = [opState EXCEPT ![a] = None]
    /\ UNCHANGED <<feeVars, lpVars, tokenVars, cash, config, lastDeposit, accrualVars,
                   listVars, strategyVars>>

-----------------------------------------------------------------------------
(* What others do to the state the vault reads *)

\* The share token's transfer and burn, called by the holder.
TransferShares(from, to, amount) ==
    /\ amount > 0 /\ amount <= shares[from]
    /\ shares' = Credit(Credit(shares, from, -amount), to, amount)
    /\ UNCHANGED <<feeVars, lpVars, supply, cash, config, accountVars, accrualVars, listVars,
                   strategyVars>>

BurnShares(from, amount) ==
    /\ amount > 0 /\ amount <= shares[from]
    /\ shares' = Credit(shares, from, -amount)
    /\ supply' = supply - amount
    /\ UNCHANGED <<feeVars, lpVars, cash, config, accountVars, accrualVars, listVars, strategyVars>>

\* Base asset sent to the vault's address without a deposit.
Donate(amount) ==
    /\ amount > 0
    /\ cash + pool + amount <= MaxNav              \* bound
    /\ cash' = cash + amount
    /\ UNCHANGED <<feeVars, lpVars, tokenVars, config, accountVars, accrualVars, listVars,
                   strategyVars>>

\* The pool's add_yield; the strategy does not see it until it is synced.
AddYield(amount) ==
    /\ amount > 0
    /\ cash + pool + amount <= MaxNav              \* bound
    /\ pool' = pool + amount
    /\ UNCHANGED <<feeVars, lpVars, tokenVars, cash, config, accountVars, accrualVars, listVars,
                   position, stratPaused>>

\* (mutant) a negative position is accepted
SyncPositionUnchecked(caller, s, actual) ==
    /\ caller = StrategyManager
    /\ position' = [position EXCEPT ![s] = actual]
    /\ UNCHANGED <<feeVars, lpVars, tokenVars, cash, config, accountVars, accrualVars, listVars,
                   stratPaused, pool>>

\* sync_position: whatever the strategy's manager reports.
SyncPosition(caller, s, actual) ==
    /\ caller = StrategyManager
    /\ actual >= 0
    /\ position' = [position EXCEPT ![s] = actual]
    /\ UNCHANGED <<feeVars, lpVars, tokenVars, cash, config, accountVars, accrualVars, listVars,
                   stratPaused, pool>>

SetStrategyPaused(caller, s, flag) ==
    /\ caller = StrategyManager
    /\ stratPaused' = [stratPaused EXCEPT ![s] = flag]
    /\ UNCHANGED <<feeVars, lpVars, tokenVars, cash, config, accountVars, accrualVars, listVars,
                   position, pool>>

PublishPrice(s, p) ==
    /\ price' = [price EXCEPT ![s] = p]
    /\ UNCHANGED <<feeVars, lpVars, tokenVars, cash, config, accountVars, accrualVars, strategies,
                   lpFlagged, oracleSet, priceTokens, strategyVars>>

-----------------------------------------------------------------------------
(* The next-state relation; Calls says which entry points an instance uses *)

Deposits    == "deposit" \in Calls /\ \E a \in Accounts, n \in Amounts : Deposit(a, n)
Withdrawals == "withdraw" \in Calls /\ \E a \in Accounts, n \in Amounts : Withdraw(a, n)
Investments == "invest" \in Calls
               /\ \E c \in Managers, s \in Strategies, n \in Amounts : Invest(c, s, n)
Unwindings  == "unwind" \in Calls
               /\ \E c \in Managers, s \in Strategies, n \in Amounts : Unwind(c, s, n)

ListCall == \E c \in Managers :
    \/ "set_strategies" \in Calls /\ \E l \in StrategyLists : SetStrategies(c, l)
    \/ "set_lp_strategy" \in Calls
       /\ \E s \in Strategies, b \in BOOLEAN : SetLpStrategy(c, s, b)
    \/ "set_oracle" \in Calls /\ SetOracle(c)
    \/ "set_oracle" \in Calls /\ \E s \in Strategies : SetStrategyOracleToken(c, s)

ConfigCall == \E c \in Managers :
    \/ "pause" \in Calls /\ (Pause(c) \/ Unpause(c))
    \/ "set_private_pool" \in Calls /\ \E b \in BOOLEAN : SetPrivatePool(c, b)
    \/ "set_deposit_cap" \in Calls /\ \E n \in Settings : SetDepositCap(c, n)
    \/ "set_max_loss" \in Calls /\ \E n \in Settings \cap Nat : SetMaxLossBps(c, n)
    \/ "set_max_concentration" \in Calls
       /\ \E n \in Settings \cap Nat : SetMaxConcentrationBps(c, n)

\* How often an account may operate: what one ledger's accounting does not
\* depend on.
AccessCall == \E c \in Managers :
    \/ "set_value_guard" \in Calls /\ \E b \in BOOLEAN : SetValueGuardEnabled(c, b)
    \/ "set_exit_cooldown" \in Calls
       /\ \E n \in Settings \cap Nat : SetExitCooldownSecs(c, n)

MemberAdditions == "members" \in Calls
                   /\ \E c \in Managers, a \in Accounts : AddMember(c, a)
MemberRemovals  == "members" \in Calls
                   /\ \E c \in Managers, a \in Accounts : RemoveMember(c, a)

HolderCall ==
    \/ "transfer" \in Calls
       /\ \E a, b \in Accounts, n \in Amounts : TransferShares(a, b, n)
    \/ "burn" \in Calls /\ \E a \in Accounts, n \in Amounts : BurnShares(a, n)

StrategyCall == \E c \in Managers, s \in BlendStrategies :
    \/ "sync" \in Calls /\ \E n \in Amounts : SyncPosition(c, s, n)
    \/ "strategy_pause" \in Calls /\ \E b \in BOOLEAN : SetStrategyPaused(c, s, b)

Environment ==
    \/ "donate" \in Calls /\ \E n \in Amounts : Donate(n)
    \/ "yield" \in Calls /\ \E n \in Amounts : AddYield(n)
    \/ "price" \in Calls /\ \E s \in Strategies, p \in Prices : PublishPrice(s, p)

RoleAndFeeCall == "fees" \in Calls /\ FeeCall /\ UNCHANGED <<lpVars, vaultVars>>
Time           == Tick /\ UNCHANGED <<lpVars, vaultVars>>

AccountingNext ==
    \/ Deposits \/ Withdrawals \/ Investments \/ Unwindings
    \/ ListCall \/ ConfigCall
    \/ HolderCall \/ StrategyCall \/ Environment

Next ==
    \/ AccountingNext
    \/ AccessCall \/ MemberAdditions \/ MemberRemovals
    \/ RoleAndFeeCall \/ Time

Spec == Init /\ [][Next]_vars

\* The behaviours within one ledger, with the roles, the fees and the members as
\* they are: the amounts that can be reached need no more than these.
AccountingSpec == Init /\ [][AccountingNext]_vars

-----------------------------------------------------------------------------
(* Properties *)

\* What the vault has put to work and holds, every strategy counted once.
Principal == cash + SumFunction(position)

\* The valuation is at face value: no price other than 1.0, no strategy listed
\* twice, no funded strategy unlisted.
AtPar == Nav = Principal

\* A position that moves while the vault's base asset does not was reported
\* (sync_position), not traded.
Reported == position' # position /\ cash' = cash

FeesOf == FeeTotal(feesMinted)

\* The list names s once, and counts its position for no more than its units.
CountedAtMostPar(s) ==
    /\ \A i, j \in DOMAIN strategies : strategies[i] = s /\ strategies[j] = s => i = j
    /\ StrategyValue(s, position[s]) <= position[s]

\* Shares were issued or redeemed besides those minted as fees.
Dealt == supply' # supply + FeesOf' - FeesOf

\* "Share mint/burn must remain proportional to NAV": apart from the fee shares
\* it mints, no call lowers the share price of those who hold on, whatever
\* deposits, withdrawals with auto-unwinding, investments and list changes
\* round to.  A call that deals in shares does not lower it either while an
\* oracle counts positions for less than their units, although a withdrawal
\* then takes more units than the payment needs.
NoDilution ==
    [][ /\ Nav > 0 /\ supply' > 0
        /\ \/ AtPar /\ AtPar' /\ ~Reported
           \/ Dealt /\ \A s \in Listed : CountedAtMostPar(s)
        => SharePrice(Nav', supply') >= SharePrice(Nav, supply + FeesOf' - FeesOf) ]_vars

\* Outstanding shares are never left with nothing behind them (share_price
\* would then quote 1.0 for worthless shares) by any sequence of deposits,
\* withdrawals and donations, also when fee shares have pushed the price of a
\* share under the smallest unit of base asset; only a reported loss can.
SharesAreBacked == supply > 0 => Nav > 0

\* The auto-unwind finds the base asset for any payment up to the NAV, however
\* the holdings are split over strategies and however the pro-rata shares
\* round, as long as no strategy is paused or flagged LP.
AutoUnwindCovers ==
    AtPar /\ lpFlagged = {} /\ (\A s \in Strategies : ~stratPaused[s]) =>
        \A need \in 1 .. Nav : LET st == Liquidate(need) IN st.ok /\ st.cash >= need

\* "prevents a manager from silently abandoning active positions": the list
\* always names every strategy that holds a position.
FundedStrategiesListed == \A s \in Strategies : position[s] > 0 => s \in Listed

\* Depositing any amount and redeeming the shares at once never pays more than
\* the amount, at whatever price rounding has left the vault.  A vault with no
\* shares but some base asset gives that to its first depositor.
NoRoundTripGain ==
    (supply = 0) = (Nav = 0) =>
        \A amount \in 1 .. MaxNav :
            LET total == DepositShares(amount, SharePrice(Nav, supply), supply)
                mine  == total - EntryFeeShares(total, fees["entry"])
            IN  BaseGross(mine, SharePrice(Nav + amount, supply + total)) <= amount

\* Base asset that leaves the vault and its pool, and the shares burned for it
\* at the price that the fees minted with them leave.
PaidOut == cash + pool - cash' - pool'

Redeemed ==
    LET minted == FeesOf' - FeesOf
        burned == supply + minted - supply'
    IN  burned > 0 /\ PaidOut <= BaseGross(burned, SharePrice(Nav, supply + minted))

\* "only withdraw() callers who hold shares can redeem base assets, and then
\* only proportional to their share": as long as base asset is invested in this
\* repository's Blend strategies only, it leaves the vault and its pool only
\* against burned shares and for no more than their price, in whatever order
\* the manager lists, flags, prices and reports those strategies.  The code
\* lists any address, and nothing of this holds of a contract that keeps what
\* invest gives it.
FundsLeaveOnlyByRedemption == [][PaidOut > 0 => Redeemed]_vars

\* Invest and unwind: base asset moves between the vault and a position.  (A
\* withdrawal may burn as many shares as it mints for fees.)
Moved == cash' # cash /\ position' # position /\ UNCHANGED <<supply, feesMinted>>

\* "NAV guard and concentration guard enforce post-action limits", whatever the
\* oracle says of the moved position and however often its strategy is listed.
MovesAreLimited ==
    [][ Moved =>
        /\ config.max_loss_bps > 0 =>
               Nav * (FEE_DENOMINATOR - config.max_loss_bps) <= Nav' * FEE_DENOMINATOR
        /\ config.max_concentration_bps > 0 /\ cash' < cash /\ Nav' > 0 =>
               \E s \in Strategies :
                   /\ position'[s] > position[s]
                   /\ StrategyValue(s, position'[s]) * FEE_DENOMINATOR
                          < (config.max_concentration_bps + 1) * Nav' ]_vars

\* The shares outstanding are those the holders have: deposits mint for the
\* depositor and the manager, who may be one, and withdrawals mint and burn.
SharesAccounted == supply = SumFunction(shares)

\* The cooldown a holder is shown is the one withdraw enforces, to the instant,
\* whenever the cooldown was changed in between.
CooldownShownIsEnforced ==
    \A a \in Accounts : (RemainingCooldown(a) = 0) = MayExit(a)

\* "Pausing does not prevent the manager from unwinding positions": paused or
\* not, every position the pool covers can be taken back whole.  A loss limit
\* is not in the way of a position that counts for what it brings back,
\* whatever the others are worth, nor is a checkpoint of an earlier ledger;
\* and with the limits that read the NAV off, neither a missing price nor a
\* strategy flagged LP by mistake keeps a position in the pool.
PauseKeepsRecovery ==
    \A s \in Listed :
        /\ position[s] \in 1 .. pool /\ ~stratPaused[s]
        /\ ReadsNav =>
               /\ Readable(position)
               /\ CountedAtMostPar(s)
               /\ opState[manager] = None \/ opState[manager].ledger < now
        => MayUnwind(manager, s, position[s])

MarkKept ==
    feesMinted'.perf > feesMinted.perf =>
        SharePrice(Nav, supply + FeesOf' - FeesOf) >= highWaterMark

\* "protects depositors": the performance fee takes a part of the gain over
\* the high-water mark, so what it leaves is still worth at least the mark.
PerfFeeLeavesGain == [][MarkKept]_vars

-----------------------------------------------------------------------------
(* The vault implements the ledger its share holders rely on *)

Ledger == INSTANCE ShareLedger WITH
              nav <- Nav, supply <- supply, feeShares <- FeesOf,
              Quantities <- LedgerAmounts,
              Reports <- IF Calls \cap {"sync", "price"} = {} THEN {} ELSE LedgerAmounts

\* Seen through its net asset value, its share supply and the fee shares it has
\* minted, every call of the vault is a step of ShareLedger or no step; and
\* without oracle prices and sync_position it is never a report.
ImplementsShareLedger == Ledger!LedgerSpec

=============================================================================
