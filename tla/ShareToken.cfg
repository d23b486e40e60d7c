SPECIFICATION TokenSpec
CONSTANTS
    Accounts = {alice, bob}
    Spenders = {bob}
    NoAdmin = NoAdmin
    MaxI128 = 3
    Amounts = {0, 1, 2}
    Expirations = {0, 1}
    MaxLedger = 2
INVARIANTS
    TokenTypeOK
PROPERTIES
    SupplyFollowsBalances
    DebitsAreAuthorised
