---------------------------- MODULE VaultAccrual ----------------------------
(***************************************************************************)
(* What share holders may expect of the accrued fees over time.  History   *)
(* variables keep, without reading the vault's own timestamp and mark, how *)
(* long it is since fees were collected and the highest share price ever   *)
(* charged as a gain.                                                      *)
(***************************************************************************)
EXTENDS Vault

VARIABLES
    elapsed,   \* ledgers since the last deposit or withdrawal
    peak       \* highest share price a performance fee was charged at

historyVars == <<elapsed, peak>>
accrualSpecVars == <<vars, historyVars>>

Minted(kind) == feesMinted'[kind] - feesMinted[kind]

\* The share price at which a performance fee is charged: NAV over the supply
\* after the management fee.
GainPrice == SharePrice(Nav, supply + Minted("mgmt"))

AccrualInit == Init /\ elapsed = 0 /\ peak = 0

Collecting ==
    /\ Deposits \/ Withdrawals
    /\ elapsed' = 0
    /\ peak' = IF Minted("perf") > 0 THEN GainPrice ELSE peak

Elapsing ==
    /\ Time
    /\ elapsed' = elapsed + 1
    /\ UNCHANGED peak

Other ==
    /\ HolderCall \/ ConfigCall \/ AccessCall \/ Environment \/ RoleAndFeeCall
    /\ UNCHANGED historyVars

AccrualNext == Collecting \/ Elapsing \/ Other

AccrualSpec == AccrualInit /\ [][AccrualNext]_accrualSpecVars

-----------------------------------------------------------------------------

\* What ties the observer to the vault: its timestamp is that of the last
\* deposit or withdrawal, and its mark is never under a price it charged at.
AccrualInv ==
    /\ elapsed \in Nat /\ peak \in Nat
    /\ now = lastMgmtFeeTs + elapsed
    /\ peak <= highWaterMark

\* "Always advance the timestamp so that enabling fees later does not cause a
\* large backdated charge": a management fee covers no more time than has
\* passed since the last deposit or withdrawal, whatever the rate was then and
\* whether or not there were shares.
MgmtFeeNotBackdated ==
    [][ Minted("mgmt") <= MgmtFeeShares(Nav, supply, fees["mgmt"], elapsed) ]_accrualSpecVars

\* "protects depositors from paying twice for the same gain": a performance fee
\* is charged only above every share price it was charged at before.
GainChargedOnce ==
    [][ Minted("perf") > 0 => GainPrice > peak ]_accrualSpecVars

=============================================================================
