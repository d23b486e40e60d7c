SPECIFICATION AccountingSpec
CONSTANTS
    s1 = s1
    s2 = s2
    None = None
    NoSchedule = NoSchedule
    Managers = {m1}
    StrategyManager = m1
    VaultAddress = vault
    Callers = {m1, vault}
    PairStrategy = None
    Desks = {}
    PairAmounts = {}
    InitialPairs <- EmptyPair
    Quotes <- NoQuote
    MaxReserve = 0
    MaxLiquidity = 0
    Accounts = {m1}
    Strategies = {s1}
    PRICE_PRECISION = 2
    FEE_DENOMINATOR = 10
    SECONDS_PER_YEAR = 1
    FEE_INCREASE_DELAY_SECS = 1
    DEFAULT_MAX_LOSS_BPS = 4
    FeeCap <- MCFeeCap
    Schedules <- NoFees
    Rates = {}
    StrategyLists <- RepeatedList
    Settings = {0, 4}
    Prices = {0, 1, 4}
    Amounts <- SignedAmounts
    MaxNav = 3
    LedgerAmounts = {}
    MaxTime = 0
    Calls = {"pause", "deposit", "withdraw", "invest", "unwind", "set_strategies", "set_lp_strategy", "set_oracle", "price", "sync", "strategy_pause", "yield", "set_max_loss", "set_max_concentration"}
INVARIANTS
    PauseKeepsRecovery
    TypeOK
PROPERTIES
    FundsLeaveOnlyByRedemption
    MovesAreLimited
    NoDilution
