---------------------------- MODULE ShareLedger ----------------------------
(***************************************************************************)
(* What the vault promises its share holders, without its strategies,      *)
(* roles, limits and rounding: shares are issued for base asset worth at   *)
(* least their price and redeemed for base asset worth at most their       *)
(* price, after the fee shares that the same call mints.  Anything else    *)
(* that changes the two totals favours those who hold on, except a report  *)
(* of a strategy's value, which may change the net asset value at will.    *)
(***************************************************************************)
EXTENDS VaultMath

CONSTANTS
    Quantities,   \* amounts of base asset and of shares
    Reports       \* net asset values that a report may set

ASSUME QuantityAssumption == Quantities \subseteq Nat /\ Reports \subseteq Nat

VARIABLES
    nav,        \* net asset value
    supply,     \* outstanding shares
    feeShares   \* shares minted as accrued fees so far

ledgerVars == <<nav, supply, feeShares>>

LedgerTypeOK == nav \in Nat /\ supply \in Nat /\ feeShares \in Nat

LedgerInit == nav = 0 /\ supply = 0 /\ feeShares = 0

\* The price at which a call that mints `fee` fee shares then deals.
Quote(fee) == SharePrice(nav, supply + fee)

Subscribe(fee, paid, issued) ==
    /\ feeShares' = feeShares + fee
    /\ supply' = supply + fee + issued
    /\ supply = 0 => fee = 0
    /\ paid > 0 /\ issued > 0
    /\ nav' = nav + paid
    /\ issued * Quote(fee) <= paid * PRICE_PRECISION

\* (mutant) a redemption is paid rounded up
RedeemRoundedUp(fee, redeemed, paid) ==
    /\ feeShares' = feeShares + fee
    /\ supply' = supply + fee - redeemed
    /\ redeemed > 0 /\ redeemed <= supply
    /\ paid > 0 /\ paid <= nav
    /\ nav' = nav - paid
    /\ paid * PRICE_PRECISION < redeemed * Quote(fee) + PRICE_PRECISION

Redeem(fee, redeemed, paid) ==
    /\ feeShares' = feeShares + fee
    /\ supply' = supply + fee - redeemed
    /\ redeemed > 0 /\ redeemed <= supply
    /\ paid > 0 /\ paid <= nav
    /\ nav' = nav - paid
    /\ paid * PRICE_PRECISION <= redeemed * Quote(fee)

Gift(amount) ==
    UNCHANGED <<supply, feeShares>> /\ nav' = nav + amount

Retire(amount) ==
    amount <= supply /\ supply' = supply - amount /\ UNCHANGED <<nav, feeShares>>

Report(value) ==
    UNCHANGED <<supply, feeShares>> /\ nav' = value

LedgerNext ==
    \/ \E f, a, n \in Quantities : Subscribe(f, a, n) \/ Redeem(f, n, a)
    \/ \E a \in Quantities : Gift(a) \/ Retire(a)
    \/ \E v \in Reports : Report(v)

LedgerSpec == LedgerInit /\ [][LedgerNext]_ledgerVars

-----------------------------------------------------------------------------

\* A step that lowers the net asset value and touches no share: only a report.
OnlyReported == nav' < nav /\ UNCHANGED <<supply, feeShares>>

\* Nobody who holds on is diluted: the fee shares apart, no step other than a
\* report lowers the price of a share while shares remain.
PriceNeverFalls ==
    [][ nav > 0 /\ supply' > 0 /\ ~OnlyReported =>
            SharePrice(nav', supply') >= Quote(feeShares' - feeShares) ]_ledgerVars

\* Shares that have something behind them keep something behind them: a step
\* that exhausts the net asset value retires every share, unless it is a report.
BackingIsKept ==
    [][ nav > 0 /\ ~OnlyReported => nav' > 0 \/ supply' = 0 ]_ledgerVars

=============================================================================
