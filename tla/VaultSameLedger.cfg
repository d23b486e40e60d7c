SPECIFICATION GuardSpec
CONSTANTS
    s1 = s1
    s2 = s2
    None = None
    NoSchedule = NoSchedule
    Managers = {m1}
    StrategyManager = m1
    VaultAddress = vault
    Callers = {m1, vault}
    PairStrategy = None
    Desks = {}
    PairAmounts = {}
    InitialPairs <- EmptyPair
    Quotes <- NoQuote
    MaxReserve = 0
    MaxLiquidity = 0
    Accounts = {m1, alice}
    Strategies = {s1}
    PRICE_PRECISION = 2
    FEE_DENOMINATOR = 10
    SECONDS_PER_YEAR = 1
    FEE_INCREASE_DELAY_SECS = 1
    DEFAULT_MAX_LOSS_BPS = 1
    FeeCap <- MCFeeCap
    Schedules <- NoFees
    Rates = {}
    StrategyLists <- OneList
    Settings = {1}
    Prices = {}
    Amounts = {1}
    MaxNav = 2
    LedgerAmounts = {}
    MaxTime = 1
    Calls = {"deposit", "withdraw", "invest", "unwind", "set_strategies", "set_value_guard", "members", "donate", "set_exit_cooldown"}
INVARIANTS
    OneKindPerLedger
    NavFoundAsLeft
    CooldownShownIsEnforced
