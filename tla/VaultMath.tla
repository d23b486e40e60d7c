----------------------------- MODULE VaultMath -----------------------------
(***************************************************************************)
(* The arithmetic of the vault (contracts/vault): share price, shares for  *)
(* a deposit, base asset for a redemption, and the two accrued fees.       *)
(* Every division is the truncating i128 division of the code on           *)
(* non-negative operands.                                                  *)
(***************************************************************************)
EXTENDS Integers

CONSTANTS
    PRICE_PRECISION,    \* 1.0 as a fixed-point price
    FEE_DENOMINATOR,    \* 100 % in basis points
    SECONDS_PER_YEAR    \* period of the management fee rate

ASSUME MathAssumption ==
    /\ PRICE_PRECISION \in Nat \ {0}
    /\ FEE_DENOMINATOR \in Nat \ {0}
    /\ SECONDS_PER_YEAR \in Nat \ {0}

AtLeastOne(x) == IF x < 1 THEN 1 ELSE x
Least(x, y)   == IF x < y THEN x ELSE y

SharePrice(nav, supply) ==
    IF supply = 0 \/ nav = 0
    THEN PRICE_PRECISION
    ELSE (nav * PRICE_PRECISION) \div supply

\* (mutant) the shares a deposit buys are rounded up
DepositSharesRoundedUp(amount, price, supply) ==
    IF price = 0 \/ supply = 0
    THEN amount
    ELSE (amount * PRICE_PRECISION + price - 1) \div price

\* All shares a deposit buys, the entry fee included.
DepositShares(amount, price, supply) ==
    IF price = 0 \/ supply = 0
    THEN amount
    ELSE (amount * PRICE_PRECISION) \div price

EntryFeeShares(totalShares, bps) == (totalShares * bps) \div FEE_DENOMINATOR

\* (mutant) what a redemption pays is rounded up
BaseGrossRoundedUp(shareAmount, price) ==
    (shareAmount * price + PRICE_PRECISION - 1) \div PRICE_PRECISION

BaseGross(shareAmount, price) == (shareAmount * price) \div PRICE_PRECISION

BaseNet(gross, bps) == (gross * (FEE_DENOMINATOR - bps)) \div FEE_DENOMINATOR

\* A fee worth feeValue, as shares at a price.
FeeShares(feeValue, price) == (feeValue * PRICE_PRECISION) \div AtLeastOne(price)

MgmtFeeShares(nav, supply, bps, elapsed) ==
    FeeShares((nav * bps * elapsed) \div (FEE_DENOMINATOR * SECONDS_PER_YEAR),
              SharePrice(nav, supply))

\* (mutant) the performance fee is taken on the whole price, not on the gain
PerfFeeSharesOnPrice(price, mark, supply, bps) ==
    FeeShares((supply * price * bps) \div (PRICE_PRECISION * FEE_DENOMINATOR), price)

PerfFeeShares(price, mark, supply, bps) ==
    FeeShares((supply * (price - mark) * bps) \div (PRICE_PRECISION * FEE_DENOMINATOR),
              price)

\* (mutant) the tolerated loss is taken for the required remainder
MinNavSwapped(navBefore, maxLossBps) == (navBefore * maxLossBps) \div FEE_DENOMINATOR

\* Post-execution NAV guard: the least NAV an operation may leave.
MinNav(navBefore, maxLossBps) ==
    navBefore - (navBefore * maxLossBps) \div FEE_DENOMINATOR

ConcentrationBps(value, nav) == (value * FEE_DENOMINATOR) \div nav

=============================================================================
