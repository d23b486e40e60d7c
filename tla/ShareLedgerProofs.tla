------------------------- MODULE ShareLedgerProofs -------------------------
(***************************************************************************)
(* The promises of ShareLedger hold for all amounts and every precision.   *)
(***************************************************************************)
EXTENDS ShareLedger, VaultMathProofs

\* The sums of ShareLedger are sums of naturals.
LEMMA LedgerTypeStep ==
    LedgerTypeOK /\ [LedgerNext]_ledgerVars => LedgerTypeOK'
<1> SUFFICES ASSUME LedgerTypeOK, [LedgerNext]_ledgerVars PROVE LedgerTypeOK'
    OBVIOUS
<1> USE DEF LedgerTypeOK
<1>0. Quantities \subseteq Nat /\ Reports \subseteq Nat
    BY QuantityAssumption
<1>1. ASSUME NEW f \in Quantities, NEW a \in Quantities, NEW n \in Quantities,
             Subscribe(f, a, n)
      PROVE  LedgerTypeOK'
    BY <1>0, <1>1 DEF Subscribe
<1>2. ASSUME NEW f \in Quantities, NEW a \in Quantities, NEW n \in Quantities,
             Redeem(f, n, a)
      PROVE  LedgerTypeOK'
    BY <1>0, <1>2 DEF Redeem
<1>3. ASSUME NEW a \in Quantities, Gift(a)
      PROVE  LedgerTypeOK'
    BY <1>0, <1>3 DEF Gift
<1>4. ASSUME NEW a \in Quantities, Retire(a)
      PROVE  LedgerTypeOK'
    BY <1>0, <1>4 DEF Retire
<1>5. ASSUME NEW v \in Reports, Report(v)
      PROVE  LedgerTypeOK'
    BY <1>0, <1>5 DEF Report
<1>6. CASE UNCHANGED ledgerVars
    BY <1>6 DEF ledgerVars
<1> QED BY <1>1, <1>2, <1>3, <1>4, <1>5, <1>6 DEF LedgerNext

\* The net asset value, the supply and the fee shares stay natural numbers: no
\* redemption takes more than there is.
THEOREM LedgerTypeCorrect == LedgerSpec => []LedgerTypeOK
<1>1. LedgerInit => LedgerTypeOK
    BY DEF LedgerInit, LedgerTypeOK
<1> QED BY <1>1, LedgerTypeStep, PTL DEF LedgerSpec

-----------------------------------------------------------------------------

\* Shares issued at the quoted price leave the price at least as high.
LEMMA SubscribeKeepsPrice ==
    ASSUME LedgerTypeOK, NEW f \in Nat, NEW a \in Nat, NEW n \in Nat,
           Subscribe(f, a, n), nav > 0
    PROVE  SharePrice(nav', supply') >= SharePrice(nav, supply + f)
<1>1. nav \in Nat /\ supply + f \in Nat
    BY DEF LedgerTypeOK
<1>2. /\ nav' = nav + a /\ supply' = (supply + f) + n /\ n > 0
      /\ n * SharePrice(nav, supply + f) <= a * PRICE_PRECISION
    BY DEF Subscribe, Quote
<1> QED BY <1>1, <1>2, IssueKeepsPrice

\* Redeeming at the quoted price leaves something behind every remaining share
\* and the price at least as high.
LEMMA RedeemKeepsPrice ==
    ASSUME LedgerTypeOK, NEW f \in Nat, NEW a \in Nat, NEW n \in Nat,
           Redeem(f, n, a), supply' > 0
    PROVE  nav' > 0 /\ SharePrice(nav', supply') >= SharePrice(nav, supply + f)
<1>1. nav \in Nat /\ supply + f \in Nat
    BY DEF LedgerTypeOK
<1>2. /\ nav' = nav - a /\ supply' = (supply + f) - n
      /\ a > 0 /\ a <= nav
      /\ a * PRICE_PRECISION <= n * SharePrice(nav, supply + f)
    BY DEF Redeem, Quote, LedgerTypeOK
<1>3. n < supply + f
    BY <1>1, <1>2
<1> QED BY <1>1, <1>2, <1>3, RedemptionKeepsPrice

-----------------------------------------------------------------------------

\* No step other than a report dilutes those who hold on.
LEMMA PriceStep ==
    ASSUME LedgerTypeOK, LedgerTypeOK', [LedgerNext]_ledgerVars,
           nav > 0, supply' > 0, ~OnlyReported
    PROVE  SharePrice(nav', supply') >= Quote(feeShares' - feeShares)
<1>0. /\ Quantities \subseteq Nat /\ Reports \subseteq Nat
      /\ nav \in Nat /\ supply \in Nat /\ feeShares \in Nat
      /\ nav' \in Nat /\ supply' \in Nat
    BY QuantityAssumption DEF LedgerTypeOK
<1>1. ASSUME NEW f \in Quantities, NEW a \in Quantities, NEW n \in Quantities,
             Subscribe(f, a, n) \/ Redeem(f, n, a)
      PROVE  SharePrice(nav', supply') >= Quote(feeShares' - feeShares)
    <2>1. f \in Nat /\ a \in Nat /\ n \in Nat /\ feeShares' - feeShares = f
        BY <1>0, <1>1 DEF Subscribe, Redeem
    <2>2. SharePrice(nav', supply') >= SharePrice(nav, supply + f)
        BY <2>1, <1>1, SubscribeKeepsPrice, RedeemKeepsPrice
    <2> QED BY <2>1, <2>2 DEF Quote
<1>2. ASSUME feeShares' = feeShares, nav <= nav', supply' <= supply
      PROVE  SharePrice(nav', supply') >= Quote(feeShares' - feeShares)
    <2>1. feeShares' - feeShares = 0 /\ supply + 0 = supply
        BY <1>0, <1>2
    <2>2. SharePrice(nav', supply') >= SharePrice(nav, supply)
        BY <1>0, <1>2, PriceIsMonotone
    <2> QED BY <2>1, <2>2 DEF Quote
<1>3. ASSUME NEW a \in Quantities, Gift(a) \/ Retire(a)
      PROVE  feeShares' = feeShares /\ nav <= nav' /\ supply' <= supply
    BY <1>0, <1>3 DEF Gift, Retire
<1>4. ASSUME NEW v \in Reports, Report(v)
      PROVE  feeShares' = feeShares /\ nav <= nav' /\ supply' <= supply
    BY <1>0, <1>4 DEF Report, OnlyReported
<1>5. UNCHANGED ledgerVars => feeShares' = feeShares /\ nav <= nav' /\ supply' <= supply
    BY <1>0 DEF ledgerVars
<1> QED BY <1>1, <1>2, <1>3, <1>4, <1>5 DEF LedgerNext

\* The share price never falls for those who hold on, the fee shares apart.
THEOREM LedgerPriceNeverFalls == LedgerSpec => PriceNeverFalls
<1>1. LedgerTypeOK /\ LedgerTypeOK' /\ [LedgerNext]_ledgerVars =>
          [ nav > 0 /\ supply' > 0 /\ ~OnlyReported =>
                SharePrice(nav', supply') >= Quote(feeShares' - feeShares) ]_ledgerVars
    BY PriceStep
<1> QED BY <1>1, LedgerTypeCorrect, PTL DEF LedgerSpec, PriceNeverFalls

\* A step that is not a report exhausts the net asset value only by retiring
\* every share.
LEMMA BackingStep ==
    ASSUME LedgerTypeOK, LedgerTypeOK', [LedgerNext]_ledgerVars, nav > 0, ~OnlyReported
    PROVE  nav' > 0 \/ supply' = 0
<1>0. /\ Quantities \subseteq Nat /\ Reports \subseteq Nat
      /\ nav \in Nat /\ supply \in Nat /\ nav' \in Nat /\ supply' \in Nat
    BY QuantityAssumption DEF LedgerTypeOK
<1>1. ASSUME NEW f \in Quantities, NEW a \in Quantities, NEW n \in Quantities,
             Subscribe(f, a, n)
      PROVE  nav' > 0
    BY <1>0, <1>1 DEF Subscribe
<1>2. ASSUME NEW f \in Quantities, NEW a \in Quantities, NEW n \in Quantities,
             Redeem(f, n, a), supply' # 0
      PROVE  nav' > 0
    BY <1>0, <1>2, RedeemKeepsPrice
<1>3. ASSUME NEW a \in Quantities, Gift(a) \/ Retire(a)
      PROVE  nav' > 0
    BY <1>0, <1>3 DEF Gift, Retire
<1>4. ASSUME NEW v \in Reports, Report(v)
      PROVE  nav' > 0
    BY <1>0, <1>4 DEF Report, OnlyReported
<1>5. UNCHANGED ledgerVars => nav' > 0
    BY DEF ledgerVars
<1> QED BY <1>1, <1>2, <1>3, <1>4, <1>5 DEF LedgerNext

\* Outstanding shares that have something behind them keep it.
THEOREM LedgerBackingIsKept == LedgerSpec => BackingIsKept
<1>1. LedgerTypeOK /\ LedgerTypeOK' /\ [LedgerNext]_ledgerVars =>
          [ nav > 0 /\ ~OnlyReported => nav' > 0 \/ supply' = 0 ]_ledgerVars
    BY BackingStep
<1> QED BY <1>1, LedgerTypeCorrect, PTL DEF LedgerSpec, BackingIsKept

=============================================================================
