--------------------------- MODULE VaultLpProofs ---------------------------
(***************************************************************************)
(* Theorems of the two-asset strategy and the pair it provides liquidity   *)
(* to (LpStrategy), for every pair, price and amount, and of the vault     *)
(* that invests in it and trades the pair's second token (VaultLp).        *)
(***************************************************************************)
EXTENDS VaultLp, VaultProofs

LpInv == LpTypeOK /\ TrackedLpIsHeld

\* A pro-rata part of a reserve is part of it, the whole of it only for all
\* liquidity tokens, and never empties a funded reserve before.
LEMMA PartOfReserve ==
    ASSUME NEW r \in Nat, NEW t \in Nat, t > 0, NEW n \in Nat, n <= t
    PROVE  /\ (n * r) \div t \in Nat
           /\ (n * r) \div t <= r
           /\ n = t => (n * r) \div t = r
           /\ n < t /\ r > 0 => (n * r) \div t < r
<1> DEFINE p == (n * r) \div t
<1>1. n * r \in Nat
    BY ProductNat
<1>2. p \in Nat /\ p * t <= n * r /\ n * r < p * t + t
    BY <1>1, DivBounds
<1> HIDE DEF p
<1>3. p <= r
    <2>1. n * r <= t * r
        BY MulMono
    <2>2. p * t < (r + 1) * t
        BY <1>1, <1>2, <2>1
    <2>3. p < r + 1
        BY <1>2, <2>2, MulMonoStrict
    <2> QED BY <1>2, <2>3
<1>4. ASSUME n = t PROVE p = r
    <2>1. r * t < (p + 1) * t
        BY <1>2, <1>4
    <2>2. r < p + 1
        BY <1>2, <2>1, MulMonoStrict
    <2> QED BY <1>2, <1>3, <2>2
<1>5. ASSUME n < t, r > 0 PROVE p < r
    <2>1. n * r < t * r
        BY <1>5
    <2>2. p * t < r * t
        BY <1>1, <1>2, <2>1
    <2> QED BY <1>2, <2>2, MulMonoStrict
<1> QED BY <1>2, <1>3, <1>4, <1>5 DEF p

\* Taking liquidity out leaves a pair with two reserves or an empty one.
LEMMA ShrunkIsPair ==
    ASSUME LpInv, NEW n \in Nat, n > 0, n <= pair.total
    PROVE  /\ Shrunk(n) \in [a : Nat, b : Nat, total : Nat]
           /\ Shrunk(n).total = pair.total - n
           /\ Shrunk(n).total > 0 <=> Shrunk(n).a > 0 /\ Shrunk(n).b > 0
<1> DEFINE pa == (n * pair.a) \div pair.total
           pb == (n * pair.b) \div pair.total
<1>1. pair \in [a : Nat, b : Nat, total : Nat] /\ pair.a > 0 /\ pair.b > 0 /\ pair.total > 0
    BY DEF LpInv, LpTypeOK, TrackedLpIsHeld
<1>2. /\ pa \in Nat /\ pa <= pair.a /\ (n = pair.total => pa = pair.a)
      /\ n < pair.total => pa < pair.a
    BY <1>1, PartOfReserve
<1>3. /\ pb \in Nat /\ pb <= pair.b /\ (n = pair.total => pb = pair.b)
      /\ n < pair.total => pb < pair.b
    BY <1>1, PartOfReserve
<1>4. Shrunk(n) = [a |-> pair.a - pa, b |-> pair.b - pb, total |-> pair.total - n]
    BY DEF Shrunk, Payout
<1> HIDE DEF pa, pb
<1> QED BY <1>1, <1>2, <1>3, <1>4

\* What the pair takes funds both reserves.
LEMMA GrownIsPair ==
    ASSUME LpInv, NEW offer \in [a : Nat, b : Nat], NEW least,
           NEW used \in [a : Nat, b : Nat], NEW n \in Nat,
           Takes(offer, least, used, n)
    PROVE  /\ Grown(used, n) \in [a : Nat, b : Nat, total : Nat]
           /\ Grown(used, n).total = pair.total + n
           /\ Grown(used, n).total > 0
           /\ Grown(used, n).a > 0 /\ Grown(used, n).b > 0
<1>1. pair.a \in Nat /\ pair.b \in Nat /\ pair.total \in Nat
    BY DEF LpInv, LpTypeOK
<1>2. /\ offer.a \in Nat /\ offer.b \in Nat /\ used.a \in Nat /\ used.b \in Nat
      /\ used.a \in 1 .. offer.a /\ used.b \in 1 .. offer.b /\ n > 0
    BY DEF Takes
<1>3. used.a > 0 /\ used.b > 0
    BY <1>2
<1> QED BY <1>1, <1>2, <1>3 DEF Grown

LEMMA LpInvInit == LpInit => LpInv
<1> SUFFICES ASSUME LpInit PROVE LpInv
    OBVIOUS
<1>1. pair \in [a : Nat, b : Nat, total : Nat] /\ (pair.total > 0 <=> pair.a > 0 /\ pair.b > 0)
    BY PairAssumption DEF LpInit
<1>2. lpBalance = 0 /\ lpTokens = 0 /\ lpPaused \in BOOLEAN /\ lpHasOracle \in BOOLEAN
    BY DEF LpInit
<1>3. quote \in Pairs
    BY PairAssumption DEF LpInit
<1>4. pair.total \in Nat
    BY <1>1
<1> QED BY <1>1, <1>2, <1>3, <1>4 DEF LpInv, LpTypeOK, TrackedLpIsHeld

\* The strategy records what the pair minted, whatever minimum was asked for.
LEMMA DepositKeepsPair ==
    ASSUME LpInv, NEW c, NEW offer \in Offers, NEW least, NEW used \in Offers,
           NEW n \in 1 .. MaxLiquidity, DepositLiquidity(c, offer, least, used, n)
    PROVE  LpInv'
<1> USE PairAssumption DEF LpInv, LpTypeOK, TrackedLpIsHeld
<1>0. n \in Nat /\ n > 0
    OBVIOUS
<1>1. used \in [a : Nat, b : Nat] /\ offer \in [a : Nat, b : Nat] /\ n \in Nat
    BY <1>0 DEF Offers
<1>2. Takes(offer, least, used, n)
    BY DEF DepositLiquidity, AddLiquidity
<1>3. /\ Grown(used, n) \in [a : Nat, b : Nat, total : Nat]
      /\ Grown(used, n).total = pair.total + n
      /\ Grown(used, n).total > 0
      /\ Grown(used, n).a > 0 /\ Grown(used, n).b > 0
    BY <1>1, <1>2, GrownIsPair
<1> QED BY <1>0, <1>1, <1>3 DEF DepositLiquidity, AddLiquidity

\* It pays out no more than it has on record.
LEMMA WithdrawKeepsPair ==
    ASSUME LpInv, NEW c, NEW least, NEW n \in 1 .. MaxLiquidity,
           WithdrawLiquidity(c, n, least)
    PROVE  LpInv'
<1> USE PairAssumption DEF LpInv, LpTypeOK, TrackedLpIsHeld
<1>1. n \in Nat /\ n > 0 /\ n <= pair.total /\ n <= lpBalance /\ n <= lpTokens
    BY DEF WithdrawLiquidity, MayWithdrawLiquidity, Removes
<1>2. /\ Shrunk(n) \in [a : Nat, b : Nat, total : Nat]
      /\ Shrunk(n).total = pair.total - n
      /\ Shrunk(n).total > 0 <=> Shrunk(n).a > 0 /\ Shrunk(n).b > 0
    BY <1>1, ShrunkIsPair
<1> QED BY <1>1, <1>2 DEF WithdrawLiquidity, RemoveLiquidity

\* Settings of the strategy, and everything others do to the pair.
LEMMA MarketKeepsPair ==
    ASSUME LpInv, LpSettings \/ Market \/ UNCHANGED lpVars
    PROVE  LpInv'
<1> USE PairAssumption DEF LpInv, LpTypeOK, TrackedLpIsHeld
<1>0. \A m \in 1 .. MaxLiquidity : m \in Nat /\ m > 0
    OBVIOUS
<1>3. CASE LpSettings
    BY <1>3 DEF LpSettings, SetLpOracle, SetLpPaused
<1>4. ASSUME NEW a \in 1 .. MaxReserve, NEW b \in 1 .. MaxReserve, Swap(a, b)
      PROVE  LpInv'
    <2>1. a \in Nat /\ b \in Nat /\ a > 0 /\ b > 0
        BY PairAssumption
    <2>2. pair.total > 0 /\ pair' = [pair EXCEPT !.a = a, !.b = b]
          /\ UNCHANGED <<lpBalance, lpPaused, lpHasOracle, lpTokens, quote>>
        BY <1>4 DEF Swap
    <2> QED BY <2>1, <2>2
<1>5. ASSUME NEW a \in PairAmounts, NEW b \in PairAmounts, NEW n \in 1 .. MaxLiquidity,
             OthersJoin([a |-> a, b |-> b], n)
      PROVE  LpInv'
    <2> DEFINE used == [a |-> a, b |-> b]
    <2>1. used \in [a : Nat, b : Nat] /\ n \in Nat
        <3>1. a \in Nat /\ b \in Nat
            BY PairAssumption
        <3> QED BY <1>0, <3>1
    <2>2. Takes(used, used, used, n) /\ pair' = Grown(used, n)
        BY <1>5 DEF OthersJoin
    <2> HIDE DEF used
    <2>3. /\ Grown(used, n) \in [a : Nat, b : Nat, total : Nat]
          /\ Grown(used, n).total = pair.total + n
          /\ Grown(used, n).total > 0
          /\ Grown(used, n).a > 0 /\ Grown(used, n).b > 0
        BY <2>1, <2>2, GrownIsPair
    <2> QED BY <1>5, <2>1, <2>2, <2>3 DEF OthersJoin
<1>6. ASSUME NEW n \in 1 .. MaxLiquidity, OthersLeave(n)
      PROVE  LpInv'
    <2>1. n \in Nat /\ n > 0 /\ n <= pair.total /\ lpTokens <= pair.total - n
        BY <1>0, <1>6 DEF OthersLeave, OthersTokens
    <2>2. /\ Shrunk(n) \in [a : Nat, b : Nat, total : Nat]
          /\ Shrunk(n).total = pair.total - n
          /\ Shrunk(n).total > 0 <=> Shrunk(n).a > 0 /\ Shrunk(n).b > 0
        BY <2>1, ShrunkIsPair
    <2> QED BY <1>6, <2>1, <2>2 DEF OthersLeave
<1>7. ASSUME NEW n \in 1 .. MaxLiquidity, GiveLiquidity(n)
      PROVE  LpInv'
    BY <1>0, <1>7 DEF GiveLiquidity, OthersTokens
<1>8. ASSUME NEW q \in Quotes, PublishQuote(q)
      PROVE  LpInv'
    BY <1>8 DEF PublishQuote
<1>9. CASE UNCHANGED lpVars
    BY <1>9 DEF lpVars
<1>10. CASE Market
    BY <1>4, <1>5, <1>6, <1>7, <1>8, <1>10 DEF Market
<1> QED BY <1>3, <1>9, <1>10

LEMMA LpInvNext == LpInv /\ [LpNext]_lpVars => LpInv'
BY DepositKeepsPair, WithdrawKeepsPair, MarketKeepsPair DEF LpNext

\* The liquidity tokens on record are never more than those held, nor those
\* held more than there are, and liquidity always means two funded reserves:
\* whatever traders, other providers and the vault do to the pair.
THEOREM TrackedIsHeld == LpSpec => [](LpTypeOK /\ TrackedLpIsHeld)
<1>1. LpInit => LpTypeOK /\ TrackedLpIsHeld
    BY LpInvInit DEF LpInv
<1>2. LpTypeOK /\ TrackedLpIsHeld /\ [LpNext]_lpVars => (LpTypeOK /\ TrackedLpIsHeld)'
    BY LpInvNext DEF LpInv
<1> QED BY <1>1, <1>2, PTL DEF LpSpec

-----------------------------------------------------------------------------

\* One reserve: its part of the value before the division by all liquidity is
\* the part the pair would pay of it, up to one unit of the token (above) and
\* one unit of the price's precision per liquidity token (below).
LEMMA PartIsPriced ==
    ASSUME NEW L \in Nat, NEW t \in Nat, t > 0, NEW r \in Nat, NEW q \in Nat, q > 0
    PROVE  LET f == (r * q) \div PRICE_PRECISION
               p == (L * r) \div t
           IN  /\ f \in Nat /\ p \in Nat
               /\ (f * PRICE_PRECISION) * L < ((p + 1) * q) * t
               /\ (p * q) * t <= (f * PRICE_PRECISION + PRICE_PRECISION) * L
<1> DEFINE P == PRICE_PRECISION
           f == (r * q) \div P
           p == (L * r) \div t
           F == f * P
<1>1. P \in Nat /\ P > 0 /\ r * q \in Nat /\ L * r \in Nat
    BY MathAssumption, ProductNat
<1>2. f \in Nat /\ F <= r * q /\ r * q < F + P
    BY <1>1, DivBounds
<1>3. p \in Nat /\ p * t <= L * r /\ L * r < p * t + t
    BY <1>1, DivBounds
<1>4. F \in Nat
    BY <1>1, <1>2, ProductNat
<1> HIDE DEF P, f, p
<1>5. F * L < ((p + 1) * q) * t
    <2> HIDE DEF F
    <2>1. F * L <= (r * q) * L
        BY <1>1, <1>2, <1>4, MulMono
    <2>2. (r * q) * L = (L * r) * q
        OBVIOUS
    <2>3. (L * r) * q < (p * t + t) * q
        BY <1>1, <1>3
    <2>4. (p * t + t) * q = ((p + 1) * q) * t
        BY <1>3
    <2> QED BY <1>3, <1>4, <2>1, <2>2, <2>3, <2>4
<1>6. (p * q) * t <= (F + P) * L
    <2> HIDE DEF F
    <2>1. (p * q) * t = (p * t) * q
        BY <1>3
    <2>2. (p * t) * q <= (L * r) * q
        BY <1>1, <1>3
    <2>3. (L * r) * q = (r * q) * L
        OBVIOUS
    <2>4. (r * q) * L <= (F + P) * L
        BY <1>1, <1>2, <1>4
    <2> QED BY <1>1, <1>3, <1>4, <2>1, <2>2, <2>3, <2>4
<1> QED BY <1>2, <1>3, <1>5, <1>6 DEF P, f, p

\* The value of a position is what its liquidity tokens would be paid.
LEMMA ValueIsClaimed ==
    ASSUME NEW L \in Nat, L > 0, NEW t \in Nat, L <= t,
           NEW ra \in Nat, NEW rb \in Nat, NEW qa \in Nat, qa > 0, NEW qb \in Nat, qb > 0
    PROVE  LET v  == (((ra * qa) \div PRICE_PRECISION + (rb * qb) \div PRICE_PRECISION) * L)
                         \div t
               pa == (L * ra) \div t
               pb == (L * rb) \div t
           IN  /\ v * PRICE_PRECISION < (pa + 1) * qa + (pb + 1) * qb
               /\ pa * qa + pb * qb < (v + 3) * PRICE_PRECISION
<1> DEFINE P  == PRICE_PRECISION
           fa == (ra * qa) \div P
           fb == (rb * qb) \div P
           v  == ((fa + fb) * L) \div t
           pa == (L * ra) \div t
           pb == (L * rb) \div t
<1>1. P \in Nat /\ P > 0 /\ t > 0
    BY MathAssumption
<1>2. /\ fa \in Nat /\ pa \in Nat
      /\ (fa * P) * L < ((pa + 1) * qa) * t
      /\ (pa * qa) * t <= (fa * P + P) * L
    BY <1>1, PartIsPriced
<1>3. /\ fb \in Nat /\ pb \in Nat
      /\ (fb * P) * L < ((pb + 1) * qb) * t
      /\ (pb * qb) * t <= (fb * P + P) * L
    BY <1>1, PartIsPriced
<1> HIDE DEF P, fa, fb, pa, pb
<1> DEFINE M == (fa + fb) * L
<1>4. M \in Nat
    BY <1>2, <1>3, ProductNat
<1>5. v \in Nat /\ v * t <= M /\ M < v * t + t
    BY <1>1, <1>4, DivBounds
<1> HIDE DEF v
<1>6. M * P = (fa * P) * L + (fb * P) * L
    BY <1>1, <1>2, <1>3
<1> HIDE DEF M
<1>7. v * P < (pa + 1) * qa + (pb + 1) * qb
    <2>1. (v * t) * P <= M * P
        <3>1. v * t \in Nat
            BY <1>5, ProductNat
        <3> QED BY <1>1, <1>4, <1>5, <3>1, MulMono
    <2>2. (v * P) * t = (v * t) * P
        BY <1>1, <1>5
    <2>3. ((pa + 1) * qa + (pb + 1) * qb) * t = ((pa + 1) * qa) * t + ((pb + 1) * qb) * t
        BY <1>2, <1>3
    <2>4. (v * P) * t < ((pa + 1) * qa + (pb + 1) * qb) * t
        BY <1>1, <1>2, <1>3, <1>4, <1>5, <1>6, <2>1, <2>2, <2>3
    <2> QED BY <1>1, <1>2, <1>3, <1>5, <2>4, MulMonoStrict
<1>8. pa * qa + pb * qb < (v + 3) * P
    <2>1. (pa * qa + pb * qb) * t <= M * P + (2 * P) * L
        <3>1. (fa * P + P) * L + (fb * P + P) * L = M * P + (2 * P) * L
            BY <1>1, <1>2, <1>3, <1>6
        <3>2. (pa * qa + pb * qb) * t = (pa * qa) * t + (pb * qb) * t
            BY <1>2, <1>3
        <3> QED BY <1>1, <1>2, <1>3, <1>4, <3>1, <3>2
    <2>2. M * P < (v * t + t) * P
        BY <1>1, <1>4, <1>5
    <2>3. (2 * P) * L <= (2 * P) * t
        BY <1>1
    <2>4. (v * t + t) * P + (2 * P) * t = ((v + 3) * P) * t
        BY <1>1, <1>5
    <2>5. (pa * qa + pb * qb) * t < ((v + 3) * P) * t
        BY <1>1, <1>2, <1>3, <1>4, <1>5, <2>1, <2>2, <2>3, <2>4
    <2> QED BY <1>1, <1>2, <1>3, <1>5, <2>5, MulMonoStrict
<1> QED BY <1>7, <1>8 DEF P, fa, fb, v, pa, pb

\* A tracked position of a priced pair is valued at what the pair would pay.
LEMMA TrackedIsPriced == LpTypeOK /\ TrackedLpIsHeld => LpValueIsClaimed
<1> SUFFICES ASSUME LpTypeOK, TrackedLpIsHeld, lpBalance > 0, lpHasOracle, LpReadable
             PROVE  LET paid == Payout(lpBalance)
                    IN  /\ LpValue * PRICE_PRECISION
                               < (paid.a + 1) * quote.a + (paid.b + 1) * quote.b
                        /\ paid.a * quote.a + paid.b * quote.b
                               < (LpValue + 3) * PRICE_PRECISION
    BY DEF LpValueIsClaimed
<1>1. /\ lpBalance \in Nat /\ pair.total \in Nat /\ lpBalance <= pair.total
      /\ pair.a \in Nat /\ pair.b \in Nat /\ pair.a > 0 /\ pair.total > 0
      /\ quote.a \in Nat /\ quote.b \in Nat
    <2>1. /\ lpBalance \in Nat /\ lpTokens \in Nat
          /\ pair.a \in Nat /\ pair.b \in Nat /\ pair.total \in Nat
          /\ quote.a \in Nat /\ quote.b \in Nat
        BY DEF LpTypeOK, Pairs
    <2>2. lpBalance <= pair.total /\ (pair.total > 0 <=> pair.a > 0 /\ pair.b > 0)
        BY <2>1 DEF TrackedLpIsHeld
    <2> QED BY <2>1, <2>2
<1>2. ~Unpriced
    BY <1>1 DEF Unpriced
<1>3. quote.a > 0 /\ quote.b > 0
    BY <1>1, <1>2 DEF LpReadable
<1>4. LpValue = (((pair.a * quote.a) \div PRICE_PRECISION
                    + (pair.b * quote.b) \div PRICE_PRECISION) * lpBalance) \div pair.total
    BY <1>1, <1>2 DEF LpValue, PairValue
<1>5. Payout(lpBalance) = [a |-> (lpBalance * pair.a) \div pair.total,
                           b |-> (lpBalance * pair.b) \div pair.total]
    BY DEF Payout
<1> DEFINE v  == (((pair.a * quote.a) \div PRICE_PRECISION
                     + (pair.b * quote.b) \div PRICE_PRECISION) * lpBalance) \div pair.total
           pa == (lpBalance * pair.a) \div pair.total
           pb == (lpBalance * pair.b) \div pair.total
<1>6. /\ v * PRICE_PRECISION < (pa + 1) * quote.a + (pb + 1) * quote.b
      /\ pa * quote.a + pb * quote.b < (v + 3) * PRICE_PRECISION
    BY <1>1, <1>3, ValueIsClaimed
<1>7. LpValue = v /\ Payout(lpBalance).a = pa /\ Payout(lpBalance).b = pb
    BY <1>4, <1>5
<1> HIDE DEF v, pa, pb
<1> QED BY <1>6, <1>7

\* Every position is valued at what the pair would pay for it, at the prices of
\* the oracle, in every reachable state of the strategy and the pair.
THEOREM ValueIsPaid == LpSpec => []LpValueIsClaimed
BY TrackedIsPriced, TrackedIsHeld, PTL

-----------------------------------------------------------------------------
(* The vault that uses the strategy *)

\* What the vault keeps of its own accounting, the pair's, and the second token.
LpVaultInv == VaultInv /\ LpInv /\ other \in Nat /\ LpPositionsPriced

\* The part of the state the net asset value is computed from.
NavTypeOK ==
    /\ LpTypeOK
    /\ cash \in Nat
    /\ strategies \in Seq(Strategies)
    /\ price \in [Strategies -> Nat]
    /\ position \in [Strategies -> Nat]

NavIsNat == Nav \in Nat /\ LpValue \in Nat

LEMMA NavTyped == NavTypeOK => NavIsNat
<1> SUFFICES ASSUME NavTypeOK PROVE Nav \in Nat /\ LpValue \in Nat
    BY DEF NavIsNat
<1> DEFINE D == DOMAIN strategies
           f == [i \in D |-> StrategyValue(strategies[i], GetValue(strategies[i], position))]
<1>1. LpValue \in Nat
    BY LpValueNat DEF NavTypeOK
<1>2. IsFiniteSet(D) /\ \A i \in D : strategies[i] \in Strategies
    <2>1. D = 1 .. Len(strategies) /\ Len(strategies) \in Nat
        BY DEF NavTypeOK
    <2>2. \A i \in D : strategies[i] \in Strategies
        BY DEF NavTypeOK
    <2> QED BY <2>1, <2>2, FS_Interval
<1>3. ASSUME NEW s \in Strategies, NEW v \in Nat
      PROVE  StrategyValue(s, v) \in Nat
    <2>1. price[s] \in Nat /\ PRICE_PRECISION \in Nat /\ PRICE_PRECISION > 0
        BY MathAssumption DEF NavTypeOK
    <2>2. v * price[s] \in Nat
        BY <2>1, ProductNat
    <2>3. (v * price[s]) \div PRICE_PRECISION \in Nat
        BY <2>1, <2>2, DivBounds
    <2> QED BY <2>3 DEF StrategyValue
<1>4. \A s \in Strategies : GetValue(s, position) \in Nat
    BY <1>1 DEF GetValue, NavTypeOK
<1>5. f \in [D -> Nat]
    BY <1>2, <1>3, <1>4
<1>6. Nav = cash + SumFunction(f)
    BY DEF Nav, NavOf
<1> HIDE DEF D, f
<1>7. SumFunction(f) \in Nat
    BY <1>2, <1>5, SumOfNat
<1> QED BY <1>1, <1>6, <1>7 DEF NavTypeOK

\* The same of the state after a step.
LEMMA NavTypedAfter == NavTypeOK' => NavIsNat'
BY NavTyped, PTL

LEMMA LpVaultInit == VaultLpInit => LpVaultInv
<1> SUFFICES ASSUME VaultLpInit PROVE LpVaultInv
    OBVIOUS
<1>1. VaultInv
    BY VaultInvInit DEF VaultLpInit
<1>2. LpInit
    BY DEF VaultLpInit, Init
<1>3. LpInv
    BY <1>2, LpInvInit
<1>4. lpBalance = 0 /\ other = 0
    BY <1>2 DEF LpInit, VaultLpInit
<1> QED BY <1>1, <1>3, <1>4 DEF LpVaultInv, LpPositionsPriced

\* A call of the module Vault does nothing to the pair or its strategy.
LEMMA VaultCallLeavesPair ==
    ASSUME [Next]_vars
    PROVE  UNCHANGED lpVars /\ lpFlagged \subseteq lpFlagged'
<1> USE DEF strategyVars, listVars, vaultVars, vars
<1>1. CASE Deposits \/ Withdrawals
    BY <1>1 DEF Deposits, Withdrawals, Deposit, Withdraw
<1>2. CASE Investments \/ Unwindings
    BY <1>2 DEF Investments, Unwindings, Invest, Unwind
<1>3. CASE ListCall
    BY <1>3 DEF ListCall, SetStrategies, SetLpStrategy, SetOracle, SetStrategyOracleToken
<1>4. CASE ConfigCall \/ AccessCall
    BY <1>4 DEF ConfigCall, AccessCall, Configure, Pause, Unpause, SetDepositCap, SetMaxLossBps,
                SetMaxConcentrationBps, SetPrivatePool, SetValueGuardEnabled, SetExitCooldownSecs
<1>5. CASE MemberAdditions \/ MemberRemovals \/ HolderCall
    BY <1>5 DEF MemberAdditions, MemberRemovals, AddMember, RemoveMember, HolderCall,
                TransferShares, BurnShares
<1>6. CASE StrategyCall \/ Environment
    BY <1>6 DEF StrategyCall, SyncPosition, SetStrategyPaused, Environment, Donate, AddYield,
                PublishPrice
<1>7. CASE RoleAndFeeCall \/ Time \/ UNCHANGED vars
    BY <1>7 DEF RoleAndFeeCall, Time
<1> QED BY <1>1, <1>2, <1>3, <1>4, <1>5, <1>6, <1>7 DEF Next, AccountingNext

\* What an operation that uses the pair or the desk writes besides the pair and
\* the vault's two tokens: perhaps a flag, and a checkpoint.
LpOperation(c, op) ==
    /\ UNCHANGED <<feeVars, tokenVars, config, members, lastDeposit, accrualVars, strategies,
                   oracleSet, priceTokens, price, strategyVars>>
    /\ lpFlagged \subseteq lpFlagged' /\ lpFlagged' \subseteq Strategies
    /\ Checkpoint(c, op, Nav')

\* Such an operation keeps the vault's invariant if it keeps the pair's and
\* leaves the vault with base asset.
LEMMA OperationKeeps ==
    ASSUME VaultInv, NEW c \in Managers, NEW op \in Operations, LpOperation(c, op),
           LpTypeOK', cash' \in Nat
    PROVE  VaultInv' /\ Nav \in Nat /\ Nav' \in Nat /\ LpValue' \in Nat
<1>0. TypeOK /\ c \in Accounts
    BY VaultAssumption DEF VaultInv
<1>1. NavTypeOK
    BY <1>0 DEF TypeOK, NavTypeOK
<1>2. NavTypeOK'
    BY <1>0 DEF TypeOK, NavTypeOK, LpOperation, strategyVars
<1>3. Nav \in Nat /\ Nav' \in Nat /\ LpValue' \in Nat
    BY <1>1, <1>2, NavTyped, NavTypedAfter DEF NavIsNat
<1>4. opState' \in [Accounts -> OpStates \cup {None}]
    BY <1>0, <1>3, CheckpointKeeps DEF LpOperation
<1>5. FeeTypeOK' /\ FeesWithinCaps' /\ now' = now
    BY DEF LpOperation, feeVars, VaultInv, TypeOK, FeeTypeOK, FeesWithinCaps, WithinCaps
<1>6. TypeOK'
    BY <1>0, <1>4, <1>5
       DEF TypeOK, LpOperation, tokenVars, accrualVars, strategyVars
<1> QED BY <1>3, <1>5, <1>6 DEF VaultInv, SharesAccounted, LpOperation, tokenVars, accrualVars

\* The net asset value is that of both states, and so are the limits.
LEMMA InvestLpKeeps ==
    ASSUME LpVaultInv, NEW c \in Managers, NEW s \in Strategies, NEW offer \in Offers,
           NEW used \in Offers, NEW n \in 1 .. MaxLiquidity,
           InvestLp(c, s, offer, NoMinimum, used, n)
    PROVE  LpVaultInv' /\ LpOperation(c, "invest_lp") /\ Nav \in Nat /\ Nav' \in Nat
           /\ LpValue' \in Nat
<1>1. LpInv'
    BY DepositKeepsPair DEF InvestLp, LpVaultInv
<1>2. offer.a \in Nat /\ offer.b \in Nat
    BY PairAssumption DEF Offers
<1>3. cash' \in Nat /\ other' \in Nat
    <2>1. cash \in Nat /\ other \in Nat
        BY DEF LpVaultInv, VaultInv, TypeOK
    <2>2. /\ offer.a <= cash /\ offer.b <= other
          /\ cash' = cash - offer.a /\ other' = other - offer.b
        BY DEF InvestLp
    <2> QED BY <1>2, <2>1, <2>2
<1>4. /\ s \in lpFlagged' /\ s = PairStrategy /\ lpHasOracle
      /\ lpFlagged \subseteq lpFlagged' /\ lpFlagged' \subseteq Strategies
    BY DEF InvestLp, UsedAsPair, UsableAsPair, LpVaultInv, VaultInv, TypeOK
<1>5. LpOperation(c, "invest_lp")
    BY <1>4 DEF InvestLp, LpOperation
<1>6. VaultInv' /\ Nav \in Nat /\ Nav' \in Nat /\ LpValue' \in Nat
    BY <1>1, <1>3, <1>5, OperationKeeps DEF LpVaultInv, LpInv, Operations
<1>7. lpHasOracle'
    BY <1>4 DEF InvestLp, DepositLiquidity
<1>8. LpPositionsPriced'
    BY <1>4, <1>7 DEF LpPositionsPriced
<1> QED BY <1>1, <1>3, <1>5, <1>6, <1>8 DEF LpVaultInv

LEMMA UnwindLpKeeps ==
    ASSUME LpVaultInv, NEW c \in Managers, NEW s \in Strategies,
           NEW n \in 1 .. MaxLiquidity, UnwindLp(c, s, n, NoMinimum)
    PROVE  LpVaultInv' /\ LpOperation(c, "unwind_lp") /\ Nav \in Nat /\ Nav' \in Nat
           /\ lpBalance' < lpBalance
<1>1. LpInv'
    BY WithdrawKeepsPair DEF UnwindLp, LpVaultInv
<1>2. Payout(n).a \in Nat /\ Payout(n).b \in Nat
    <2>1. /\ n \in Nat /\ n > 0 /\ pair.a \in Nat /\ pair.b \in Nat
          /\ pair.total \in Nat /\ lpTokens <= pair.total /\ n <= lpTokens /\ lpTokens \in Nat
        BY PairAssumption
           DEF UnwindLp, WithdrawLiquidity, MayWithdrawLiquidity, Removes, LpVaultInv, LpInv,
               LpTypeOK,
               TrackedLpIsHeld
    <2>2. pair.total > 0 /\ n <= pair.total
        BY <2>1
    <2>3. (n * pair.a) \div pair.total \in Nat /\ (n * pair.b) \div pair.total \in Nat
        BY <2>1, <2>2, PartOfReserve
    <2> QED BY <2>3 DEF Payout
<1>3. cash' \in Nat /\ other' \in Nat
    <2>1. cash \in Nat /\ other \in Nat
        BY DEF LpVaultInv, VaultInv, TypeOK
    <2>2. cash' = cash + Payout(n).a /\ other' = other + Payout(n).b
        BY DEF UnwindLp
    <2> QED BY <1>2, <2>1, <2>2
<1>4. /\ s \in lpFlagged' /\ s = PairStrategy /\ lpHasOracle
      /\ lpFlagged \subseteq lpFlagged' /\ lpFlagged' \subseteq Strategies
    BY DEF UnwindLp, UsedAsPair, UsableAsPair, LpVaultInv, VaultInv, TypeOK
<1>5. LpOperation(c, "unwind_lp")
    BY <1>4 DEF UnwindLp, LpOperation
<1>6. VaultInv' /\ Nav \in Nat /\ Nav' \in Nat
    BY <1>1, <1>3, <1>5, OperationKeeps DEF LpVaultInv, LpInv, Operations
<1>7. lpHasOracle' /\ lpBalance' < lpBalance
    BY <1>4 DEF UnwindLp, WithdrawLiquidity, MayWithdrawLiquidity, LpVaultInv, LpInv, LpTypeOK
<1>8. LpPositionsPriced'
    BY <1>4, <1>7 DEF LpPositionsPriced
<1> QED BY <1>1, <1>3, <1>5, <1>6, <1>7, <1>8 DEF LpVaultInv

\* A trade moves the vault's two tokens only, one down and one up.
LEMMA TradeKeeps ==
    ASSUME LpVaultInv, NEW c \in Managers, NEW s \in Strategies, NEW path \in TradePaths,
           NEW n \in Amounts, NEW least \in Amounts, NEW out \in Amounts,
           NEW quoted \in DeskQuotes, ExecuteTrade(c, s, n, least, path, quoted, out)
    PROVE  /\ LpVaultInv' /\ LpOperation(c, "trade") /\ Nav \in Nat /\ Nav' \in Nat
           /\ UNCHANGED lpVars
           /\ least \in Nat /\ out \in Nat /\ out >= least
           /\ \/ cash' < cash /\ other' = other + out
              \/ other' < other /\ cash' = cash + out
<1>1. n \in Int /\ n > 0 /\ least \in Nat /\ out \in Nat /\ out >= least
    BY VaultAssumption
       DEF ExecuteTrade, PaysMinimum, Guard!ValidateSwapExactIn, Guard!CheckSlippage
<1>2. cash \in Nat /\ other \in Nat
    BY DEF LpVaultInv, VaultInv, TypeOK
<1>3. DeskSwaps(path, n, out)
    BY DEF ExecuteTrade
<1>4. /\ cash' \in Nat /\ other' \in Nat
      /\ \/ cash' < cash /\ other' = other + out
         \/ other' < other /\ cash' = cash + out
    <2>1. CASE path[1] = "a"
        BY <1>1, <1>2, <1>3, <2>1 DEF DeskSwaps
    <2>2. CASE path[1] # "a"
        BY <1>1, <1>2, <1>3, <2>2 DEF DeskSwaps
    <2> QED BY <2>1, <2>2
<1>5. UNCHANGED lpVars /\ UNCHANGED listVars /\ lpFlagged \subseteq Strategies
    BY DEF ExecuteTrade, LpVaultInv, VaultInv, TypeOK
<1>6. LpOperation(c, "trade")
    BY <1>5 DEF ExecuteTrade, LpOperation, listVars
<1>7. LpInv'
    BY <1>5, MarketKeepsPair DEF LpVaultInv
<1>8. VaultInv' /\ Nav \in Nat /\ Nav' \in Nat
    BY <1>4, <1>6, <1>7, OperationKeeps DEF LpVaultInv, LpInv, Operations
<1>9. LpPositionsPriced'
    BY <1>5 DEF LpVaultInv, LpPositionsPriced, lpVars, listVars
<1> QED BY <1>1, <1>4, <1>5, <1>6, <1>7, <1>8, <1>9 DEF LpVaultInv

\* Settings of the pair's strategy, what others do to the pair, the guard's
\* settings and gifts of the second token leave the rest as it is.
LEMMA PairCallKeeps ==
    ASSUME LpVaultInv, PairCall
    PROVE  LpVaultInv' /\ UNCHANGED <<lpBalance, cash, other>>
<1>1. UNCHANGED <<feeVars, vaultVars, other>> /\ (LpSettings \/ Market)
    BY DEF PairCall
<1>2. LpInv'
    BY <1>1, MarketKeepsPair DEF LpVaultInv
<1>3. FeeTypeOK' /\ FeesWithinCaps' /\ now' = now
    BY <1>1 DEF feeVars, LpVaultInv, VaultInv, TypeOK, FeeTypeOK, FeesWithinCaps, WithinCaps
<1>4. VaultInv'
    BY <1>1, <1>2, <1>3
       DEF LpVaultInv, VaultInv, TypeOK, SharesAccounted, LpInv, vaultVars, tokenVars, accountVars,
           accrualVars, listVars, strategyVars
<1>5. lpBalance' = lpBalance /\ (lpHasOracle => lpHasOracle')
    <2>1. CASE LpSettings
        <3>1. PICK c \in Callers :
                  SetLpOracle(c) \/ (\E flag \in BOOLEAN : SetLpPaused(c, flag))
            BY <2>1 DEF LpSettings
        <3>2. lpBalance' = lpBalance /\ (lpHasOracle' = TRUE \/ lpHasOracle' = lpHasOracle)
            BY <3>1 DEF SetLpOracle, SetLpPaused
        <3> QED BY <3>2
    <2>2. CASE Market
        <3>1. UNCHANGED <<lpBalance, lpHasOracle>>
            BY <2>2 DEF Market, Swap, OthersJoin, OthersLeave, GiveLiquidity, PublishQuote
        <3> QED BY <3>1
    <2> QED BY <1>1, <2>1, <2>2
<1>6. LpPositionsPriced' /\ cash' = cash /\ other' = other
    BY <1>1, <1>5 DEF LpVaultInv, LpPositionsPriced, vaultVars, listVars
<1> QED BY <1>1, <1>2, <1>4, <1>5, <1>6 DEF LpVaultInv

\* A step of the module Vault, or no step of it.
LEMMA VaultCallKeeps ==
    ASSUME LpVaultInv, [Next]_vars, other' \in Nat
    PROVE  LpVaultInv' /\ lpBalance' = lpBalance
<1>1. UNCHANGED lpVars /\ lpFlagged \subseteq lpFlagged'
    BY VaultCallLeavesPair
<1>2. VaultInv'
    BY VaultInvNext DEF LpVaultInv
<1>3. LpInv'
    BY <1>1, MarketKeepsPair DEF LpVaultInv
<1>4. LpPositionsPriced' /\ lpBalance' = lpBalance
    BY <1>1 DEF LpVaultInv, LpPositionsPriced, lpVars
<1> QED BY <1>2, <1>3, <1>4 DEF LpVaultInv

\* The steps of VaultLp that are none of its three operations.
LEMMA OtherLpSteps ==
    ASSUME LpVaultInv, [VaultLpNext]_lpVaultVars, ~LpInvestments, ~LpUnwindings, ~Trades
    PROVE  LpVaultInv' /\ lpBalance' = lpBalance /\ (cash' = cash \/ other' = other)
<1>1. CASE PairCall
    BY <1>1, PairCallKeeps
<1>2. CASE VaultCall
    BY <1>2, VaultCallKeeps DEF VaultCall, LpVaultInv
<1>3. CASE GuardSettings \/ WhitelistCall \/ UNCHANGED lpVaultVars
    <2>1. UNCHANGED vars /\ other' = other
        BY <1>3 DEF GuardSettings, SetTradeGuard, WhitelistCall, lpVaultVars
    <2> QED BY <2>1, VaultCallKeeps DEF LpVaultInv
<1>4. CASE Gifts
    <2>1. PICK n \in Amounts : GiveOther(n)
        BY <1>4 DEF Gifts
    <2>2. UNCHANGED vars /\ other' \in Nat /\ cash' = cash
        BY <2>1, VaultAssumption DEF GiveOther, LpVaultInv, vars, vaultVars
    <2> QED BY <2>2, VaultCallKeeps
<1> QED BY <1>1, <1>2, <1>3, <1>4 DEF VaultLpNext

LEMMA LpVaultNext == LpVaultInv /\ [VaultLpNext]_lpVaultVars => LpVaultInv'
<1> SUFFICES ASSUME LpVaultInv, [VaultLpNext]_lpVaultVars PROVE LpVaultInv'
    OBVIOUS
<1>1. CASE LpInvestments
    BY <1>1, InvestLpKeeps DEF LpInvestments
<1>2. CASE LpUnwindings
    BY <1>2, UnwindLpKeeps DEF LpUnwindings
<1>3. CASE Trades
    BY <1>3, TradeKeeps DEF Trades
<1> QED BY <1>1, <1>2, <1>3, OtherLpSteps

LEMMA LpVaultInvariant == VaultLpSpec => []LpVaultInv
BY LpVaultInit, LpVaultNext, PTL DEF VaultLpSpec

\* In every reachable state a position in the pair is counted at the oracle's
\* prices of the pair's tokens: its strategy has an oracle and is flagged, so
\* neither the count of its liquidity tokens nor a price token is ever used.
THEOREM PositionsArePriced == VaultLpSpec => []LpPositionsPriced
<1>1. LpVaultInv => LpPositionsPriced
    BY DEF LpVaultInv
<1> QED BY <1>1, LpVaultInvariant, PTL

\* Used by the vault, the strategy still holds every liquidity token it has on
\* record.
THEOREM TrackedIsHeldForVault == VaultLpSpec => []TrackedLpIsHeld
<1>1. LpVaultInv => TrackedLpIsHeld
    BY DEF LpVaultInv, LpInv
<1> QED BY <1>1, LpVaultInvariant, PTL

\* And its position enters the NAV at what the pair would pay for it.
THEOREM ValueIsPaidToVault == VaultLpSpec => []LpValueIsClaimed
<1>1. LpVaultInv => LpValueIsClaimed
    BY TrackedIsPriced DEF LpVaultInv, LpInv
<1> QED BY <1>1, LpVaultInvariant, PTL

-----------------------------------------------------------------------------
(* The way out of the pair *)

\* No call binds the guard to another vault.
LEMMA GuardVaultKept ==
    ASSUME [VaultLpNext]_lpVaultVars
    PROVE  guardVault' = guardVault
<1>1. ASSUME GuardUnasked \/ \E n \in Int : \/ Guard!ValidateInvest(VaultAddress, n)
                                            \/ Guard!ValidateUnwind(VaultAddress, n)
      PROVE  guardVault' = guardVault
    BY <1>1 DEF GuardUnasked, Guard!ValidateInvest, Guard!ValidateUnwind
<1>2. CASE LpInvestments
    <2>1. PICK s \in Strategies, offer \in Offers : GuardedInvest(s, offer.a + offer.b)
        BY <1>2 DEF LpInvestments, InvestLp
    <2>2. offer.a + offer.b \in Int
        <3>1. offer.a \in Nat /\ offer.b \in Nat
            BY <2>1, PairAssumption DEF Offers
        <3> QED BY <3>1
    <2> QED BY <1>1, <2>1, <2>2 DEF GuardedInvest
<1>3. CASE LpUnwindings
    <2>1. PICK s \in Strategies, n \in 1 .. MaxLiquidity : GuardedUnwind(s, n)
        BY <1>3 DEF LpUnwindings, UnwindLp
    <2> QED BY <1>1, <2>1 DEF GuardedUnwind
<1>4. CASE Trades
    BY <1>4 DEF Trades, ExecuteTrade, Guard!ValidateSwapExactIn
<1>5. CASE WhitelistCall \/ UNCHANGED lpVaultVars
    BY <1>5 DEF WhitelistCall, Guard!SetWhitelist, lpVaultVars, guardStateVars
<1>6. CASE VaultCall \/ GuardSettings \/ PairCall \/ Gifts
    BY <1>1, <1>6 DEF VaultCall, GuardSettings, SetTradeGuard, PairCall, Gifts, GiveOther
<1> QED BY <1>2, <1>3, <1>4, <1>5, <1>6 DEF VaultLpNext

\* With the limits that read the NAV off, the manager can take the whole
\* position out of the pair in every reachable state in which its strategy is
\* not paused: its record is covered by tokens it holds, it has its oracle, the
\* vault's guard lets every amount through, and no price is asked for.
THEOREM PairExitNeedsNoPrice == VaultLpSpec => []LpExitNeedsNoPrice
<1>1. VaultLpInit => guardVault = VaultAddress
    BY DEF VaultLpInit
<1>2. guardVault = VaultAddress /\ [VaultLpNext]_lpVaultVars => (guardVault = VaultAddress)'
    BY GuardVaultKept
<1>3. LpVaultInv /\ guardVault = VaultAddress => LpExitNeedsNoPrice
    <2> SUFFICES ASSUME LpVaultInv, guardVault = VaultAddress, lpBalance > 0,
                        PairStrategy \in Listed, ~lpPaused, ~ReadsNav
                 PROVE  MayUnwindLp(manager, PairStrategy, lpBalance, NoMinimum)
        BY DEF LpExitNeedsNoPrice
    <2>1. /\ lpBalance \in Nat /\ lpTokens \in Nat /\ lpBalance <= lpTokens
          /\ lpTokens <= pair.total /\ pair.a \in Nat /\ pair.b \in Nat /\ pair.total \in Nat
        BY DEF LpVaultInv, LpInv, LpTypeOK, TrackedLpIsHeld, Pairs
    <2>2. UsableAsPair(PairStrategy)
        BY DEF LpVaultInv, LpPositionsPriced, UsableAsPair
    <2>3. Guard!MoveAllowed(VaultAddress, lpBalance)
        BY DEF Guard!MoveAllowed
    <2>4. Payout(lpBalance).a >= 0 /\ Payout(lpBalance).b >= 0
        <3>1. lpBalance <= pair.total /\ pair.total > 0
            BY <2>1
        <3>2. /\ (lpBalance * pair.a) \div pair.total \in Nat
              /\ (lpBalance * pair.b) \div pair.total \in Nat
            BY <2>1, <3>1, PartOfReserve
        <3> QED BY <3>2 DEF Payout
    <2>5. MayWithdrawLiquidity(VaultAddress, lpBalance, NoMinimum)
        BY <2>1, <2>4 DEF MayWithdrawLiquidity, Removes, NoMinimum
    <2> QED BY <2>2, <2>3, <2>5 DEF MayUnwindLp, MayStart
<1> QED BY <1>1, <1>2, <1>3, LpVaultInvariant, PTL DEF VaultLpSpec

-----------------------------------------------------------------------------
(* Limits on what is moved and traded *)

LEMMA LossIsLimited ==
    ASSUME VaultInv, Nav \in Nat, Nav' \in Nat, KeepsValue, config.max_loss_bps > 0
    PROVE  Nav * (FEE_DENOMINATOR - config.max_loss_bps) <= Nav' * FEE_DENOMINATOR
<1>1. Nav' >= MinNav(Nav, config.max_loss_bps)
    BY DEF KeepsValue
<1>2. config.max_loss_bps \in Nat /\ config.max_loss_bps <= FEE_DENOMINATOR
    BY MathAssumption DEF VaultInv, TypeOK, ConfigType
<1> QED BY <1>1, <1>2, MinNavKept

LEMMA PartIsLimited ==
    ASSUME LpVaultInv, NEW c \in Managers, NEW s \in Strategies, NEW offer \in Offers,
           NEW used \in Offers, NEW n \in 1 .. MaxLiquidity,
           InvestLp(c, s, offer, NoMinimum, used, n),
           config.max_concentration_bps > 0, Nav' > 0
    PROVE  LpValue' * FEE_DENOMINATOR < (config.max_concentration_bps + 1) * Nav'
<1>1. Nav' \in Nat /\ LpValue' \in Nat
    BY InvestLpKeeps
<1>2. config.max_concentration_bps \in Nat
    BY MathAssumption DEF LpVaultInv, VaultInv, TypeOK, ConfigType
<1>3. PairInNav' = LpValue'
    BY DEF PairInNav, StrategyValue, InvestLp, UsedAsPair, UsableAsPair
<1>4. ConcentrationBps(LpValue', Nav') <= config.max_concentration_bps
    BY <1>3 DEF InvestLp, NotConcentrated
<1> QED BY <1>1, <1>2, <1>4, ConcentrationKept

\* Neither a move of liquidity nor a trade loses more of the NAV than is
\* tolerated, and no investment puts more of it in the pair, whatever the pair
\* takes, the desk pays and the oracle says.
THEOREM LpMovesKeepLimits == VaultLpSpec => LpMovesAreLimited
<1> DEFINE Lost == config.max_loss_bps > 0 =>
                      Nav * (FEE_DENOMINATOR - config.max_loss_bps) <= Nav' * FEE_DENOMINATOR
           Part == config.max_concentration_bps > 0 /\ lpBalance' > lpBalance /\ Nav' > 0 =>
                      LpValue' * FEE_DENOMINATOR < (config.max_concentration_bps + 1) * Nav'
           Limited == PairMoved \/ TokenTrade => Lost /\ Part
<1>1. ASSUME LpVaultInv, [VaultLpNext]_lpVaultVars PROVE Limited
    <2>0. VaultInv /\ lpBalance \in Nat
        BY <1>1 DEF LpVaultInv, LpInv, LpTypeOK
    <2>1. CASE LpInvestments
        <3>1. PICK c \in Managers, s \in Strategies, offer \in Offers, used \in Offers,
                   n \in 1 .. MaxLiquidity : InvestLp(c, s, offer, NoMinimum, used, n)
            BY <2>1 DEF LpInvestments
        <3>2. Lost
            BY <1>1, <2>0, <3>1, InvestLpKeeps, LossIsLimited DEF InvestLp
        <3>3. Part
            BY <1>1, <3>1, PartIsLimited
        <3> QED BY <3>2, <3>3
    <2>2. CASE LpUnwindings
        <3>1. PICK c \in Managers, s \in Strategies, n \in 1 .. MaxLiquidity :
                       UnwindLp(c, s, n, NoMinimum)
            BY <2>2 DEF LpUnwindings
        <3>2. Lost
            BY <1>1, <2>0, <3>1, UnwindLpKeeps, LossIsLimited DEF UnwindLp
        <3>3. lpBalance' < lpBalance /\ lpBalance' \in Nat
            BY <1>1, <3>1, UnwindLpKeeps DEF LpVaultInv, LpInv, LpTypeOK
        <3> QED BY <2>0, <3>2, <3>3
    <2>3. CASE Trades
        <3>1. PICK c \in Managers, s \in Strategies, path \in TradePaths,
                   n \in Amounts, least \in Amounts, out \in Amounts, quoted \in DeskQuotes :
                       ExecuteTrade(c, s, n, least, path, quoted, out)
            BY <2>3 DEF Trades
        <3>2. Lost
            BY <1>1, <2>0, <3>1, TradeKeeps, LossIsLimited DEF ExecuteTrade
        <3>3. lpBalance' = lpBalance
            BY <1>1, <3>1, TradeKeeps DEF lpVars
        <3> QED BY <2>0, <3>2, <3>3
    <2>4. CASE ~LpInvestments /\ ~LpUnwindings /\ ~Trades
        BY <1>1, <2>4, OtherLpSteps DEF PairMoved, TokenTrade
    <2> QED BY <2>1, <2>2, <2>3, <2>4
<1>2. LpVaultInv /\ [VaultLpNext]_lpVaultVars => [Limited]_lpVaultVars
    BY <1>1
<1> QED BY <1>2, LpVaultInvariant, PTL DEF VaultLpSpec, LpMovesAreLimited

\* An investment that goes through minted liquidity for the strategy.
LEMMA LiquidityIsMinted ==
    ASSUME LpVaultInv, NEW c \in Managers, NEW s \in Strategies, NEW offer \in Offers,
           NEW used \in Offers, NEW n \in 1 .. MaxLiquidity,
           InvestLp(c, s, offer, NoMinimum, used, n)
    PROVE  lpBalance' > lpBalance
<1>1. lpBalance \in Nat /\ lpTokens \in Nat /\ n \in Nat /\ n > 0
    BY PairAssumption DEF LpVaultInv, LpInv, LpTypeOK
<1>2. lpTokens' = lpTokens + n /\ lpBalance' = lpBalance + (lpTokens' - lpTokens)
    BY DEF InvestLp, DepositLiquidity, AddLiquidity
<1> QED BY <1>1, <1>2

\* The guard recorded what it let through of one trade.
LEMMA TradeIsApproved ==
    ASSUME LpVaultInv, NEW c \in Managers, NEW s \in Strategies, NEW path \in TradePaths,
           NEW n \in Amounts, NEW least \in Amounts, NEW out \in Amounts,
           NEW quoted \in DeskQuotes, ExecuteTrade(c, s, n, least, path, quoted, out)
    PROVE  /\ approved' # Nothing /\ approved'.tokens \subseteq whitelist
           /\ approved'.quote = quoted
<1> DEFINE path_tokens == {path[i] : i \in DOMAIN path}
<1>1. Guard!ValidateSwapExactIn(VaultAddress, n, least, path, quoted)
    BY DEF ExecuteTrade
<1>2. quoted \in Int /\ least \in Int /\ n \in Int
    BY VaultLpAssumption, VaultAssumption
<1>3. Guard!ToSet(path) = path_tokens
    BY DEF Guard!ToSet
<1> HIDE DEF path_tokens
<1>4. approved' = [kind |-> "exact_in", amount |-> n, limit |-> least,
                   quote |-> quoted, tokens |-> path_tokens]
    BY <1>1, <1>3 DEF Guard!ValidateSwapExactIn, Guard!LetThrough
<1>5. path_tokens \subseteq Tokens
    BY DEF TradePaths, Tokens, path_tokens
<1>6. approved' \in SwapApprovals
    BY <1>2, <1>4, <1>5 DEF SwapApprovals
<1>7. path_tokens \subseteq whitelist
    BY <1>1, <1>3 DEF Guard!ValidateSwapExactIn, Guard!CheckWhitelist
<1> QED BY <1>4, <1>6, <1>7, VaultLpAssumption

\* What the guard let through and the vault checked of one trade.
LEMMA TradeIsQuoted ==
    ASSUME LpVaultInv, NEW c \in Managers, NEW s \in Strategies, NEW path \in TradePaths,
           NEW n \in Amounts, NEW least \in Amounts, NEW out \in Amounts,
           NEW quoted \in DeskQuotes, ExecuteTrade(c, s, n, least, path, quoted, out),
           quoted * FEE_DENOMINATOR <= MaxI128
    PROVE  /\ approved' # Nothing /\ approved'.tokens \subseteq whitelist
           /\ approved'.quote = quoted
           /\ (quoted - out) * FEE_DENOMINATOR <= quoted * MAX_SLIPPAGE_BPS
<1>1. Guard!ValidateSwapExactIn(VaultAddress, n, least, path, quoted)
    BY DEF ExecuteTrade
<1>2. /\ quoted \in Nat /\ quoted > 0 /\ least \in Nat /\ least <= quoted
      /\ out \in Nat /\ out >= least /\ n \in Int
    BY <1>1, TradeKeeps, VaultLpAssumption, VaultAssumption
       DEF Guard!ValidateSwapExactIn, Guard!CheckSlippage
<1>3. /\ FEE_DENOMINATOR \in Nat /\ FEE_DENOMINATOR > 0
      /\ MAX_SLIPPAGE_BPS \in Nat /\ MAX_SLIPPAGE_BPS <= FEE_DENOMINATOR
    BY MathAssumption, VaultLpAssumption
<1>4. (quoted - out) * FEE_DENOMINATOR <= quoted * MAX_SLIPPAGE_BPS
    <2>1. quoted * MAX_SLIPPAGE_BPS <= quoted * FEE_DENOMINATOR
        BY <1>2, <1>3
    <2>2. (quoted - least) * FEE_DENOMINATOR <= quoted * FEE_DENOMINATOR
        BY <1>2, <1>3
    <2>3. Guard!SaturatingMul(quoted - least, FEE_DENOMINATOR)
              <= Guard!SaturatingMul(quoted, MAX_SLIPPAGE_BPS)
        BY <1>1 DEF Guard!ValidateSwapExactIn, Guard!CheckSlippage
    <2>4. (quoted - least) * FEE_DENOMINATOR <= quoted * MAX_SLIPPAGE_BPS
        BY <1>2, <1>3, <2>1, <2>2, <2>3, VaultLpAssumption DEF Guard!SaturatingMul
    <2>5. (quoted - out) * FEE_DENOMINATOR <= (quoted - least) * FEE_DENOMINATOR
        BY <1>2, <1>3
    <2> QED BY <1>2, <1>3, <2>4, <2>5
<1> QED BY <1>4, TradeIsApproved

\* As long as no quote is so large that the guard's product saturates, every
\* trade gives the vault the quote less the tolerated slippage, for whitelisted
\* tokens, whatever minimum the trader names.
THEOREM TradesGetTheirQuote ==
    ASSUME \A q \in DeskQuotes : q * FEE_DENOMINATOR <= MaxI128
    PROVE  VaultLpSpec => TradesKeepQuote
<1> DEFINE out == IF other' > other THEN other' - other ELSE cash' - cash
           Quoted == TokenTrade =>
                /\ approved' # Nothing /\ approved'.tokens \subseteq whitelist
                /\ (approved'.quote - out) * FEE_DENOMINATOR
                       <= approved'.quote * MAX_SLIPPAGE_BPS
<1>1. ASSUME LpVaultInv, [VaultLpNext]_lpVaultVars PROVE Quoted
    <2>1. CASE LpInvestments \/ LpUnwindings
        <3>1. lpBalance' # lpBalance
            <4>0. lpBalance \in Nat /\ lpBalance' \in Nat
                BY <1>1, LpVaultNext DEF LpVaultInv, LpInv, LpTypeOK
            <4>1. CASE LpInvestments
                BY <1>1, <4>0, <4>1, LiquidityIsMinted DEF LpInvestments
            <4>2. CASE LpUnwindings
                BY <1>1, <4>0, <4>2, UnwindLpKeeps DEF LpUnwindings
            <4> QED BY <2>1, <4>1, <4>2
        <3> QED BY <3>1 DEF TokenTrade, PairMoved
    <2>2. CASE Trades
        <3>1. PICK c \in Managers, s \in Strategies, path \in TradePaths,
                   n \in Amounts, least \in Amounts, paid \in Amounts, quoted \in DeskQuotes :
                       ExecuteTrade(c, s, n, least, path, quoted, paid)
            BY <2>2 DEF Trades
        <3>2. /\ approved' # Nothing /\ approved'.tokens \subseteq whitelist
              /\ approved'.quote = quoted
              /\ (quoted - paid) * FEE_DENOMINATOR <= quoted * MAX_SLIPPAGE_BPS
            BY <1>1, <3>1, TradeIsQuoted
        <3>3. ASSUME TokenTrade PROVE out = paid
            <4>1. /\ paid \in Nat /\ cash \in Nat /\ other \in Nat
                  /\ cash' \in Nat /\ other' \in Nat
                  /\ \/ cash' < cash /\ other' = other + paid
                     \/ other' < other /\ cash' = cash + paid
                BY <1>1, <3>1, TradeKeeps DEF LpVaultInv, VaultInv, TypeOK
            <4>2. cash' # cash /\ other' # other
                BY <3>3 DEF TokenTrade
            <4> HIDE DEF out
            <4>3. PICK c0, c1, o0, o1 : c0 = cash /\ c1 = cash' /\ o0 = other /\ o1 = other'
                OBVIOUS
            <4>4. \/ o1 > o0 /\ o1 - o0 = paid
                  \/ ~(o1 > o0) /\ c1 - c0 = paid
                <5>1. /\ paid \in Nat /\ c0 \in Nat /\ c1 \in Nat /\ o0 \in Nat /\ o1 \in Nat
                      /\ o1 # o0
                    BY <4>1, <4>2, <4>3
                <5>2. \/ c1 < c0 /\ o1 = o0 + paid
                      \/ o1 < o0 /\ c1 = c0 + paid
                    BY <4>1, <4>3
                <5> QED BY <5>1, <5>2
            <4>5. out = IF o1 > o0 THEN o1 - o0 ELSE c1 - c0
                BY <4>3 DEF out
            <4> QED BY <4>4, <4>5
        <3> HIDE DEF out
        <3> QED BY <3>2, <3>3
    <2>3. CASE ~LpInvestments /\ ~LpUnwindings /\ ~Trades
        BY <1>1, <2>3, OtherLpSteps DEF TokenTrade
    <2> QED BY <2>1, <2>2, <2>3
<1>2. LpVaultInv /\ [VaultLpNext]_lpVaultVars => [Quoted]_lpVaultVars
    BY <1>1
<1> QED BY <1>2, LpVaultInvariant, PTL DEF VaultLpSpec, TradesKeepQuote

-----------------------------------------------------------------------------
(* What the vault keeps of its own when it uses the pair *)

\* The operations of VaultLp leave shares, fees and deposits alone, so what
\* Vault's calls keep of them survives: every share has a holder, a round trip
\* gains nothing at the prices that positions and trades leave, and the cooldown
\* shown is the one enforced.
THEOREM VaultKeptWithPair ==
    VaultLpSpec => [](TypeOK /\ SharesAccounted /\ NoRoundTripGain /\ CooldownShownIsEnforced)
<1>1. LpVaultInv => TypeOK /\ SharesAccounted /\ NoRoundTripGain /\ CooldownShownIsEnforced
    BY RoundTrip, CooldownShown DEF LpVaultInv, VaultInv
<1> QED BY <1>1, LpVaultInvariant, PTL

\* The steps of VaultLp that are no call of the module Vault: no fee is minted,
\* and the pool is left alone.
LEMMA PairStepsMintNothing ==
    ASSUME [VaultLpNext]_lpVaultVars, ~VaultCall
    PROVE  feesMinted' = feesMinted /\ supply' = supply /\ pool' = pool
<1> USE DEF vars, vaultVars, tokenVars, accrualVars, strategyVars
<1>1. CASE LpInvestments \/ LpUnwindings
    BY <1>1 DEF LpInvestments, InvestLp, LpUnwindings, UnwindLp
<1>2. CASE Trades
    BY <1>2 DEF Trades, ExecuteTrade
<1>3. CASE GuardSettings \/ WhitelistCall \/ Gifts \/ UNCHANGED lpVaultVars
    BY <1>3 DEF GuardSettings, SetTradeGuard, WhitelistCall, Gifts, GiveOther, lpVaultVars
<1>4. CASE PairCall
    BY <1>4 DEF PairCall
<1> QED BY <1>1, <1>2, <1>3, <1>4 DEF VaultLpNext

\* At whatever value the pair's oracle, its swaps and the trades leave the NAV,
\* the performance fee leaves the shares worth the mark it was charged above.
THEOREM FeeLeavesGainWithPair == VaultLpSpec => [][MarkKept]_lpVaultVars
<1>1. ASSUME LpVaultInv, [VaultLpNext]_lpVaultVars
      PROVE  MarkKept
    <2>1. CASE VaultCall
        BY <1>1, <2>1, FeeLeavesGain DEF VaultCall, LpVaultInv
    <2>2. CASE ~VaultCall
        <3>1. feesMinted' = feesMinted /\ feesMinted.perf \in Nat
            BY <1>1, <2>2, PairStepsMintNothing DEF LpVaultInv, VaultInv, TypeOK
        <3> QED BY <3>1 DEF MarkKept
    <2> QED BY <2>1, <2>2
<1>2. LpVaultInv /\ [VaultLpNext]_lpVaultVars => [MarkKept]_lpVaultVars
    BY <1>1
<1> QED BY <1>2, LpVaultInvariant, PTL DEF VaultLpSpec

\* With none but this repository's strategies and desks on the list, base asset
\* leaves the vault against burned shares, with a move of liquidity that the
\* pair's strategy has on record, or in a trade of whitelisted tokens that the
\* guard let through.  The last two are no redemptions: the loss limit alone
\* says what they may cost.
THEOREM FundsLeaveThreeWays ==
    VaultLpSpec => [][ PaidOut > 0 =>
                         \/ Redeemed
                         \/ PairMoved
                         \/ approved' # Nothing /\ approved'.tokens \subseteq whitelist
                     ]_lpVaultVars
<1> DEFINE Let == approved' # Nothing /\ approved'.tokens \subseteq whitelist
           Leaves == PaidOut > 0 => Redeemed \/ PairMoved \/ Let
<1>1. ASSUME LpVaultInv, [VaultLpNext]_lpVaultVars
      PROVE  Leaves
    <2>1. CASE VaultCall
        BY <1>1, <2>1, RedemptionPays DEF VaultCall, LpVaultInv
    <2>2. CASE LpInvestments \/ LpUnwindings
        <3>0. lpBalance \in Nat /\ lpBalance' \in Nat
            BY <1>1, LpVaultNext DEF LpVaultInv, LpInv, LpTypeOK
        <3>1. CASE LpInvestments
            BY <1>1, <3>0, <3>1, LiquidityIsMinted DEF LpInvestments, PairMoved
        <3>2. CASE LpUnwindings
            BY <1>1, <3>0, <3>2, UnwindLpKeeps DEF LpUnwindings, PairMoved
        <3> QED BY <2>2, <3>1, <3>2
    <2>3. CASE Trades
        <3>1. PICK c \in Managers, s \in Strategies, path \in TradePaths,
                   n \in Amounts, least \in Amounts, paid \in Amounts, quoted \in DeskQuotes :
                       ExecuteTrade(c, s, n, least, path, quoted, paid)
            BY <2>3 DEF Trades
        <3> QED BY <1>1, <3>1, TradeIsApproved
    <2>4. CASE cash' = cash /\ pool' = pool
        BY <1>1, <2>4 DEF PaidOut, LpVaultInv, VaultInv, TypeOK
    <2>5. CASE GuardSettings \/ WhitelistCall \/ Gifts \/ PairCall \/ UNCHANGED lpVaultVars
        <3>1. cash' = cash /\ pool' = pool
            BY <2>5 DEF GuardSettings, SetTradeGuard, WhitelistCall, Gifts, GiveOther, PairCall,
                        lpVaultVars, vars, vaultVars, strategyVars
        <3> QED BY <2>4, <3>1
    <2> QED BY <1>1, <2>1, <2>2, <2>3, <2>5 DEF VaultLpNext
<1>2. LpVaultInv /\ [VaultLpNext]_lpVaultVars => [Leaves]_lpVaultVars
    BY <1>1
<1> QED BY <1>2, LpVaultInvariant, PTL DEF VaultLpSpec

=============================================================================
