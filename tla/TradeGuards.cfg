SPECIFICATION GuardsSpec
CONSTANTS
    usdc = usdc
    xlm = xlm
    Addresses = {fund, other}
    Tokens = {usdc, xlm}
    Whitelists <- MCWhitelists
    Amounts <- MCAmounts
    Paths <- MCPaths
    MaxI128 = 63
    BPS = 10
    MAX_SLIPPAGE_BPS = 2
    NoOne = NoOne
    Nothing = Nothing
    Operations <- MCOperations
    MAX_OPERATIONS = 2
    MAX_PATH_LEN = 2
INVARIANTS
    SwapsKeepQuote
    BetterTermsPass
    PathMeansOperations
