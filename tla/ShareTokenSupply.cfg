SPECIFICATION TokenSpec
CONSTANTS
    Accounts = {alice, bob}
    Spenders = {alice, bob}
    NoAdmin = NoAdmin
    MaxI128 = 3
    Amounts = {1, 2}
    Expirations = {1}
    MaxLedger = 1
INVARIANTS
    SupplyIsOutstanding
