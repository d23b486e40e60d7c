SPECIFICATION ReaderSpec
CONSTANTS
    Admins = {alice, bob}
    Managers = {mary, max}
    Vaults = {v1, v2, v3}
    NoAdmin = NoAdmin
    NoManager = NoManager
    PAGE_CAP = 2
    Limits = {1, 3}
INVARIANTS
    ListedOnce
    ListedAreInitialized
    PagesCover
PROPERTIES
    OrderKept
    ImplementsRegistry
