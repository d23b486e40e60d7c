SPECIFICATION MCSpec
CONSTANTS
    PRICE_PRECISION = 3
    FEE_DENOMINATOR = 10
    SECONDS_PER_YEAR = 1
    MaxNav = 5
    MaxSupply = 8
    Quantities <- MCQuantities
    Reports <- MCQuantities
PROPERTIES
    PriceNeverFalls
    BackingIsKept
