SPECIFICATION AccountingSpec
CONSTANTS
    s1 = s1
    s2 = s2
    None = None
    NoSchedule = NoSchedule
    Managers = {m1}
    StrategyManager = m1
    VaultAddress = vault
    Callers = {m1, vault}
    PairStrategy = None
    Desks = {}
    PairAmounts = {}
    InitialPairs <- EmptyPair
    Quotes <- NoQuote
    MaxReserve = 0
    MaxLiquidity = 0
    Accounts = {m1, alice}
    Strategies = {s1, s2}
    PRICE_PRECISION = 2
    FEE_DENOMINATOR = 10
    SECONDS_PER_YEAR = 1
    FEE_INCREASE_DELAY_SECS = 1
    DEFAULT_MAX_LOSS_BPS = 1
    FeeCap <- MCFeeCap
    Schedules <- TwoSided
    Rates = {}
    StrategyLists <- GrowingLists
    Settings = {4}
    Prices = {}
    Amounts = {1, 2, 3}
    MaxNav = 5
    LedgerAmounts <- UpToFive
    MaxTime = 0
    Calls = {"deposit", "withdraw", "invest", "unwind", "set_strategies", "set_deposit_cap", "donate", "burn", "transfer", "set_private_pool"}
INVARIANTS
    AutoUnwindCovers
    FundedStrategiesListed
    NoRoundTripGain
    SharesAccounted
PROPERTIES
    ImplementsShareLedger
