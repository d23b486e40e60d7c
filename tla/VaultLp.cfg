SPECIFICATION VaultLpSpec
CONSTANTS
    s1 = s1
    s2 = s2
    None = None
    Nothing = Nothing
    NoSchedule = NoSchedule
    Managers = {m1}
    StrategyManager = m1
    VaultAddress = vault
    Callers = {m1, vault}
    PairStrategy = s1
    Desks = {s2}
    PairAmounts = {1, 2}
    InitialPairs <- FundedPair
    Quotes <- MCQuotes
    MaxReserve = 2
    MaxLiquidity = 2
    Accounts = {m1}
    Strategies = {s1, s2}
    PRICE_PRECISION = 2
    FEE_DENOMINATOR = 10
    SECONDS_PER_YEAR = 1
    FEE_INCREASE_DELAY_SECS = 1
    DEFAULT_MAX_LOSS_BPS = 6
    MAX_SLIPPAGE_BPS = 4
    MAX_PATH_LEN = 2
    MaxI128 = 63
    FeeCap <- MCFeeCap
    Schedules <- NoFees
    Rates = {}
    StrategyLists <- BothListed
    Settings = {0, 6}
    Prices = {}
    Amounts = {1, 2}
    DeskQuotes = {1, 3}
    Whitelists = {{"a"}, {"a", "b"}}
    MaxNav = 2
    LedgerAmounts = {}
    MaxOther = 1
    MaxTime = 0
    Calls = {"invest_lp", "unwind_lp", "trade", "set_strategies", "set_lp_strategy", "donate", "set_max_loss", "set_max_concentration"}
INVARIANTS
    TrackedLpIsHeld
    LpValueIsClaimed
    LpPositionsPriced
    LpExitNeedsNoPrice
PROPERTIES
    LpMovesAreLimited
    TradesKeepQuote
