SPECIFICATION OracleSpec
CONSTANTS
    Admins = {alice, bob}
    Assets = {usdc, btc}
    PriceInputs <- MCPriceInputs
    AgeInputs = {0, 1, 2}
    DEFAULT_MAX_AGE_LEDGERS = 1
    NoAdmin = NoAdmin
    NoPrice = NoPrice
    MaxLedger = 4
PROPERTIES
    StaleStaysRefused
    PublishedIsReadable
