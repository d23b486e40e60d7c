---------------------------- MODULE VaultProofs ----------------------------
(***************************************************************************)
(* Theorems of the vault: of its fee timelock, alone and with the notice   *)
(* depositors get (FeeTimelock, FeeNotice), of its accounting (Vault), of  *)
(* the same-ledger guard (VaultSameLedger) and of its accrued fees over    *)
(* time (VaultAccrual).  They hold for every number of accounts and of     *)
(* strategies, every list, price, amount, fee and cap, and every sequence  *)
(* of calls.                                                               *)
(***************************************************************************)
EXTENDS FeeNotice, VaultSameLedger, VaultAccrual, VaultMathProofs, SequenceTheorems

(* The fee timelock *)

\* The fee schedule stays well typed.
LEMMA FeeTypeStep ==
    ASSUME FeeTypeOK, FeeNext \/ UNCHANGED feeVars
    PROVE  FeeTypeOK'
<1> USE FeeAssumption DEF FeeTypeOK
<1>1. ASSUME NEW c \in Managers, NEW s \in Schedules, AnnounceFeeIncrease(c, s)
      PROVE  FeeTypeOK'
    BY <1>1 DEF AnnounceFeeIncrease, Announcements
<1>2. ASSUME NEW c \in Managers, CommitFeeIncrease(c)
      PROVE  FeeTypeOK'
    BY <1>2 DEF CommitFeeIncrease, Announcements
<1>3. ASSUME NEW c \in Managers, RenounceFeeIncrease(c)
      PROVE  FeeTypeOK'
    BY <1>3 DEF RenounceFeeIncrease
<1>4. CASE Tick
    BY <1>4 DEF Tick
<1>5. ASSUME NEW c \in Managers, NEW m \in Managers,
             SetManager(c, m) \/ SetTrader(c, m)
      PROVE  FeeTypeOK'
    BY <1>5 DEF SetManager, SetTrader
<1>6. ASSUME NEW c \in Managers, NEW k \in FeeKinds, NEW b \in Rates,
             SetFeeBps(c, k, b)
      PROVE  FeeTypeOK'
    BY <1>6 DEF SetFeeBps
<1>7. CASE UNCHANGED feeVars
    BY <1>7 DEF feeVars
<1> QED
    BY <1>1, <1>2, <1>3, <1>4, <1>5, <1>6, <1>7 DEF FeeNext, FeeCall

\* The caps are kept: a schedule is compared with them when it is announced, so
\* what a commit writes is within them.
LEMMA FeeCapStep ==
    ASSUME FeeTypeOK, FeesWithinCaps, FeeNext \/ UNCHANGED feeVars
    PROVE  FeesWithinCaps'
<1> USE DEF FeesWithinCaps, WithinCaps
<1>1. ASSUME NEW c \in Managers, NEW s \in Schedules, AnnounceFeeIncrease(c, s)
      PROVE  FeesWithinCaps'
    BY <1>1 DEF AnnounceFeeIncrease
<1>2. ASSUME NEW c \in Managers, CommitFeeIncrease(c)
      PROVE  FeesWithinCaps'
    BY <1>2 DEF CommitFeeIncrease
<1>3. ASSUME NEW c \in Managers, RenounceFeeIncrease(c)
      PROVE  FeesWithinCaps'
    BY <1>3 DEF RenounceFeeIncrease
<1>4. CASE Tick
    BY <1>4 DEF Tick
<1>5. ASSUME NEW c \in Managers, NEW m \in Managers,
             SetManager(c, m) \/ SetTrader(c, m)
      PROVE  FeesWithinCaps'
    BY <1>5 DEF SetManager, SetTrader
<1>6. ASSUME NEW c \in Managers, NEW k \in FeeKinds, NEW b \in Rates,
             SetFeeBps(c, k, b)
      PROVE  FeesWithinCaps'
    BY <1>6 DEF SetFeeBps, FeeTypeOK
<1>7. CASE UNCHANGED feeVars
    BY <1>7 DEF feeVars
<1> QED
    BY <1>1, <1>2, <1>3, <1>4, <1>5, <1>6, <1>7 DEF FeeNext, FeeCall

\* Recording the notices adds nothing to what the timelock does.
LEMMA NoticeStepIsFeeStep ==
    ASSUME [NoticeNext]_noticeVars
    PROVE  FeeNext \/ UNCHANGED feeVars
<1>1. CASE NoticeNext
    BY <1>1 DEF NoticeNext, FeeNext, FeeCall
<1>2. CASE UNCHANGED noticeVars
    BY <1>2 DEF noticeVars, feeVars
<1> QED BY <1>1, <1>2

\* The fee schedule is well typed in every reachable state.
THEOREM FeeTypeCorrect == NoticeSpec => []FeeTypeOK
<1>1. NoticeInit => FeeTypeOK
    BY FeeAssumption DEF NoticeInit, FeeInit, FeeTypeOK
<1>2. FeeTypeOK /\ [NoticeNext]_noticeVars => FeeTypeOK'
    BY FeeTypeStep, NoticeStepIsFeeStep
<1> QED
    BY <1>1, <1>2, PTL DEF NoticeSpec

\* No call sequence puts a fee, or a pending fee, above its cap.
THEOREM FeesCapped == NoticeSpec => []FeesWithinCaps
<1>1. NoticeInit => FeesWithinCaps
    BY DEF NoticeInit, FeeInit, FeesWithinCaps
<1>2. FeeTypeOK /\ FeesWithinCaps /\ [NoticeNext]_noticeVars => FeesWithinCaps'
    BY FeeCapStep, NoticeStepIsFeeStep
<1> QED
    BY <1>1, <1>2, FeeTypeCorrect, PTL DEF NoticeSpec

-----------------------------------------------------------------------------
(* The notice of a raise *)

\* The vault's pending record and what was announced agree in every state.
LEMMA NoticeInvariant == NoticeSpec => []NoticeInv
<1>1. NoticeInit => NoticeInv
  BY DEF NoticeInit, FeeInit, NoticeInv
<1>2. ASSUME FeeTypeOK, NoticeInv, [NoticeNext]_noticeVars
      PROVE  NoticeInv'
  <2> USE <1>2 DEF NoticeInv
  <2>1. ASSUME NEW c \in Managers, NEW s \in Schedules,
               AnnounceFeeIncrease(c, s), notice' = [schedule |-> s, since |-> now]
        PROVE  NoticeInv'
    <3>1. s \in [FeeKinds -> Nat] /\ now \in Nat
          /\ now + FEE_INCREASE_DELAY_SECS \in Nat
      BY FeeAssumption DEF FeeTypeOK
    <3>2. announced' \in Announcements /\ notice' \in Notices
      BY <2>1, <3>1 DEF AnnounceFeeIncrease, Announcements, Notices
    <3>3. announced' # NoSchedule /\ notice' # NoSchedule
      BY <3>2, FeeAssumption, NoticeAssumption
    <3> QED
      BY <2>1, <3>1, <3>3 DEF AnnounceFeeIncrease
  <2>2. ASSUME NEW c \in Managers, CommitFeeIncrease(c) \/ RenounceFeeIncrease(c),
               notice' = NoSchedule
        PROVE  NoticeInv'
    BY <2>2 DEF CommitFeeIncrease, RenounceFeeIncrease
  <2>3. CASE Tick /\ UNCHANGED notice
    BY <2>3 DEF Tick
  <2>4. ASSUME NEW c \in Managers, NEW m \in Managers,
               SetManager(c, m) \/ SetTrader(c, m), UNCHANGED notice
        PROVE  NoticeInv'
    BY <2>4 DEF SetManager, SetTrader
  <2>5. ASSUME NEW c \in Managers, NEW k \in FeeKinds, NEW b \in Rates,
               SetFeeBps(c, k, b), UNCHANGED notice
        PROVE  NoticeInv'
    BY <2>5 DEF SetFeeBps
  <2>6. CASE UNCHANGED noticeVars
    BY <2>6 DEF noticeVars
  <2> QED
    BY <2>1, <2>2, <2>3, <2>4, <2>5, <2>6 DEF NoticeNext
<1> QED
  BY <1>1, <1>2, FeeTypeCorrect, PTL DEF NoticeSpec

\* Depositors get the full delay's notice of every raise: only a commit can
\* raise a fee, and NoticeInv ties what it writes to what was announced.
THEOREM RaisesNoticed == NoticeSpec => RaisesAreNoticed
<1> DEFINE Noticed ==
        \A k \in FeeKinds : fees'[k] > fees[k] =>
            /\ notice # NoSchedule
            /\ fees'[k] = notice.schedule[k]
            /\ now >= notice.since + FEE_INCREASE_DELAY_SECS
<1>1. ASSUME FeeTypeOK, NoticeInv, NoticeNext
      PROVE  Noticed
  <2>0. fees \in [FeeKinds -> Nat]
    BY <1>1 DEF FeeTypeOK
  <2>1. ASSUME NEW c \in Managers, CommitFeeIncrease(c)
        PROVE  Noticed
    BY <1>1, <2>1 DEF CommitFeeIncrease, NoticeInv
  <2>2. ASSUME NEW c \in Managers, NEW k \in FeeKinds, NEW b \in Rates,
               SetFeeBps(c, k, b)
        PROVE  Noticed
    BY <2>0, <2>2, FeeAssumption DEF SetFeeBps
  <2>3. ASSUME UNCHANGED fees
        PROVE  Noticed
    BY <2>0, <2>3
  <2> QED
    BY <1>1, <2>1, <2>2, <2>3
       DEF NoticeNext, AnnounceFeeIncrease, RenounceFeeIncrease, Tick, SetManager, SetTrader
<1>2. FeeTypeOK /\ NoticeInv /\ [NoticeNext]_noticeVars => [Noticed]_noticeVars
  BY <1>1
<1> QED
  BY <1>2, FeeTypeCorrect, NoticeInvariant, PTL DEF NoticeSpec, RaisesAreNoticed

-----------------------------------------------------------------------------
(* Net asset value *)

\* What an invariant of the vault needs of the fees, and the two totals.
VaultInv == TypeOK /\ FeesWithinCaps /\ lastMgmtFeeTs <= now /\ SharesAccounted

\* A strategy's value is a natural number at every price.
LEMMA StrategyValueNat ==
    ASSUME TypeOK, NEW s \in Strategies, NEW v \in Nat
    PROVE  StrategyValue(s, v) \in Nat
<1>1. price[s] \in Nat /\ PRICE_PRECISION \in Nat /\ PRICE_PRECISION > 0
    BY MathAssumption DEF TypeOK
<1>2. v * price[s] \in Nat
    BY <1>1, ProductNat
<1>3. (v * price[s]) \div PRICE_PRECISION \in Nat
    BY <1>1, <1>2, DivBounds
<1> QED BY <1>3 DEF StrategyValue

\* So is what the two-asset strategy answers.
LEMMA LpValueNat ==
    ASSUME LpTypeOK
    PROVE  LpValue \in Nat
<1>1. /\ lpBalance \in Nat /\ pair.a \in Nat /\ pair.b \in Nat /\ pair.total \in Nat
      /\ quote.a \in Nat /\ quote.b \in Nat /\ PRICE_PRECISION \in Nat /\ PRICE_PRECISION > 0
    BY MathAssumption DEF LpTypeOK, Pairs
<1>2. pair.a * quote.a \in Nat /\ pair.b * quote.b \in Nat
    BY <1>1, ProductNat
<1>3. PairValue \in Nat
    <2>1. /\ (pair.a * quote.a) \div PRICE_PRECISION \in Nat
          /\ (pair.b * quote.b) \div PRICE_PRECISION \in Nat
        BY <1>1, <1>2, DivBounds
    <2> QED BY <2>1 DEF PairValue
<1>4. PairValue * lpBalance \in Nat
    BY <1>1, <1>3, ProductNat
<1>5. CASE lpBalance = 0 \/ Unpriced
    BY <1>1, <1>5 DEF LpValue
<1>6. CASE ~(lpBalance = 0 \/ Unpriced)
    <2>1. pair.total > 0
        BY <1>1, <1>6 DEF Unpriced
    <2>2. (PairValue * lpBalance) \div pair.total \in Nat
        BY <1>1, <1>4, <2>1, DivBounds
    <2> QED BY <1>6, <2>2 DEF LpValue
<1> QED BY <1>5, <1>6

LEMMA GetValueNat ==
    ASSUME TypeOK, NEW s \in Strategies, NEW pos \in [Strategies -> Nat]
    PROVE  GetValue(s, pos) \in Nat
<1>1. LpValue \in Nat
    BY LpValueNat DEF TypeOK
<1> QED BY <1>1 DEF GetValue

\* Every listed position is of a strategy there is.
LEMMA ListedAre ==
    ASSUME TypeOK
    PROVE  /\ DOMAIN strategies = 1 .. Len(strategies)
           /\ Len(strategies) \in Nat /\ IsFiniteSet(DOMAIN strategies)
           /\ \A i \in DOMAIN strategies : strategies[i] \in Strategies
           /\ Listed = {strategies[i] : i \in DOMAIN strategies}
           /\ Listed \subseteq Strategies
<1>1. strategies \in Seq(Strategies)
    BY DEF TypeOK
<1>2. DOMAIN strategies = 1 .. Len(strategies) /\ Len(strategies) \in Nat
    BY <1>1
<1>3. \A i \in DOMAIN strategies : strategies[i] \in Strategies
    BY <1>1
<1>4. IsFiniteSet(DOMAIN strategies)
    BY <1>2, FS_Interval
<1> QED BY <1>2, <1>3, <1>4 DEF Listed, ToSet

\* The net asset value is a natural number, and no less than the vault's own
\* base asset or any listed strategy's value.
LEMMA NavBounds ==
    ASSUME TypeOK, NEW c \in Nat, NEW pos \in [Strategies -> Nat]
    PROVE  /\ NavOf(c, pos) \in Nat /\ c <= NavOf(c, pos)
           /\ \A s \in Listed : StrategyValue(s, GetValue(s, pos)) + c <= NavOf(c, pos)
<1> DEFINE f == [i \in DOMAIN strategies |->
                    StrategyValue(strategies[i], GetValue(strategies[i], pos))]
<1>1. f \in [DOMAIN strategies -> Nat]
    BY ListedAre, GetValueNat, StrategyValueNat
<1>2. NavOf(c, pos) = c + SumFunction(f)
    BY DEF NavOf
<1>3. \A s \in Listed : \E i \in DOMAIN strategies : f[i] = StrategyValue(s, GetValue(s, pos))
    BY ListedAre
<1> HIDE DEF f
<1>4. SumFunction(f) \in Nat /\ \A i \in DOMAIN strategies : f[i] <= SumFunction(f)
    BY <1>1, ListedAre, SumOfNat
<1>5. ASSUME NEW s \in Listed
      PROVE  StrategyValue(s, GetValue(s, pos)) + c <= NavOf(c, pos)
    <2>1. PICK i \in DOMAIN strategies : f[i] = StrategyValue(s, GetValue(s, pos))
        BY <1>3
    <2>2. f[i] \in Nat /\ f[i] <= SumFunction(f)
        BY <1>1, <1>4
    <2> QED BY <1>2, <1>4, <2>1, <2>2
<1> QED BY <1>2, <1>4, <1>5

LEMMA NavNat ==
    ASSUME TypeOK
    PROVE  Nav \in Nat
<1>1. cash \in Nat /\ position \in [Strategies -> Nat]
    BY DEF TypeOK
<1> QED BY <1>1, NavBounds DEF Nav

\* So it is after a step that keeps the types.
NavIsNatural == Nav \in Nat

LEMMA NavNatAfter == TypeOK' => NavIsNatural'
<1>1. TypeOK => NavIsNatural
    BY NavNat DEF NavIsNatural
<1> QED BY <1>1, PTL

\* A call that leaves the two-asset strategy, the list and the prices alone
\* leaves the net asset value that its own base asset and positions make.
LEMMA NavFollows ==
    ASSUME UNCHANGED <<lpVars, listVars>>
    PROVE  Nav' = NavOf(cash', position')
BY DEF Nav, NavOf, GetValue, StrategyValue, LpValue, PairValue, Unpriced, lpVars, listVars

-----------------------------------------------------------------------------
(* Fees and balances *)

\* A fee is a natural number of shares at every price.
LEMMA FeeSharesNat ==
    ASSUME NEW feeValue \in Nat, NEW p \in Nat
    PROVE  FeeShares(feeValue, p) \in Nat
<1>1. PRICE_PRECISION \in Nat /\ AtLeastOne(p) \in Nat /\ AtLeastOne(p) > 0
    BY MathAssumption DEF AtLeastOne
<1>2. feeValue * PRICE_PRECISION \in Nat
    BY <1>1, ProductNat
<1> QED BY <1>1, <1>2, DivBounds DEF FeeShares

LEMMA MgmtFeeSharesNat ==
    ASSUME NEW nav \in Nat, NEW s \in Nat, NEW bps \in Nat, NEW t \in Nat
    PROVE  MgmtFeeShares(nav, s, bps, t) \in Nat
<1>1. /\ FEE_DENOMINATOR * SECONDS_PER_YEAR \in Nat
      /\ FEE_DENOMINATOR * SECONDS_PER_YEAR > 0
    BY MathAssumption
<1>2. nav * bps * t \in Nat
    BY ProductNat
<1>3. (nav * bps * t) \div (FEE_DENOMINATOR * SECONDS_PER_YEAR) \in Nat
    BY <1>1, <1>2, DivBounds
<1> QED BY <1>3, SharePriceNat, FeeSharesNat DEF MgmtFeeShares

LEMMA PerfFeeSharesNat ==
    ASSUME NEW p \in Nat, NEW mark \in Nat, mark <= p, NEW s \in Nat, NEW bps \in Nat
    PROVE  PerfFeeShares(p, mark, s, bps) \in Nat
<1>1. /\ PRICE_PRECISION * FEE_DENOMINATOR \in Nat
      /\ PRICE_PRECISION * FEE_DENOMINATOR > 0
    BY MathAssumption
<1>2. p - mark \in Nat
    OBVIOUS
<1>3. s * (p - mark) * bps \in Nat
    BY <1>2, ProductNat
<1>4. (s * (p - mark) * bps) \div (PRICE_PRECISION * FEE_DENOMINATOR) \in Nat
    BY <1>1, <1>3, DivBounds
<1> QED BY <1>4, FeeSharesNat DEF PerfFeeShares

\* What collect_fees computes: two natural numbers of shares, none while there
\* are no shares, and a high-water mark that is not lowered.
LEMMA AccruedBounds ==
    ASSUME VaultInv
    PROVE  /\ Accrued.mgmt \in Nat /\ Accrued.perf \in Nat
           /\ Accrued.mark \in Nat /\ highWaterMark <= Accrued.mark
           /\ FeeTotal(Accrued) = Accrued.mgmt + Accrued.perf
           /\ FeeTotal(Accrued) \in Nat
           /\ supply = 0 => FeeTotal(Accrued) = 0
<1> DEFINE mgmt    == IF supply = 0 THEN 0
                      ELSE MgmtFeeShares(Nav, supply, fees["mgmt"], now - lastMgmtFeeTs)
           current == SharePrice(Nav, supply + mgmt)
           gained  == supply > 0 /\ fees["perf"] > 0 /\ current > highWaterMark /\ highWaterMark > 0
           perf    == IF gained
                      THEN PerfFeeShares(current, highWaterMark, supply + mgmt, fees["perf"])
                      ELSE 0
           mark    == IF gained THEN current ELSE highWaterMark
<1>1. /\ supply \in Nat /\ highWaterMark \in Nat /\ now - lastMgmtFeeTs \in Nat
      /\ fees["mgmt"] \in Nat /\ fees["perf"] \in Nat /\ Nav \in Nat
    BY NavNat DEF VaultInv, TypeOK, FeeTypeOK, FeeKinds
<1>2. mgmt \in Nat
    BY <1>1, MgmtFeeSharesNat
<1>3. Accrued = [mgmt |-> mgmt, perf |-> perf, mark |-> mark]
    BY DEF Accrued
<1>4. supply = 0 => mgmt = 0 /\ perf = 0
    OBVIOUS
<1> HIDE DEF mgmt
<1>5. current \in Nat
    <2>1. supply + mgmt \in Nat
        BY <1>1, <1>2
    <2> QED BY <1>1, <2>1, SharePriceNat
<1>6. perf \in Nat
    <2>1. supply + mgmt \in Nat
        BY <1>1, <1>2
    <2> HIDE DEF current
    <2>2. gained => highWaterMark <= current
        BY <1>1, <1>5
    <2>3. ASSUME gained
          PROVE  PerfFeeShares(current, highWaterMark, supply + mgmt, fees["perf"]) \in Nat
        <3>1. highWaterMark <= current
            BY <2>2, <2>3
        <3> HIDE DEF gained, mgmt
        <3> QED BY <1>1, <1>5, <2>1, <3>1, PerfFeeSharesNat
    <2> QED BY <2>3
<1>7. mark \in Nat /\ highWaterMark <= mark
    BY <1>1, <1>5
<1> HIDE DEF perf, mark
<1> QED BY <1>2, <1>3, <1>4, <1>6, <1>7 DEF FeeTotal

LEMMA AreFinite == IsFiniteSet(Accounts) /\ IsFiniteSet(Strategies)
BY VaultAssumption

\* A credit moves the balance and the sum of all balances by the same amount.
LEMMA CreditSum ==
    ASSUME NEW bal \in [Accounts -> Int], NEW a \in Accounts, NEW n \in Int
    PROVE  /\ Credit(bal, a, n) \in [Accounts -> Int]
           /\ SumFunction(Credit(bal, a, n)) = SumFunction(bal) + n
           /\ \A x \in Accounts : Credit(bal, a, n)[x] = IF x = a THEN bal[a] + n ELSE bal[x]
           /\ SumFunction(bal) \in Int
<1> DEFINE new == Credit(bal, a, n)
<1>1. /\ new \in [Accounts -> Int] /\ new[a] = bal[a] + n
      /\ \A x \in Accounts \ {a} : bal[x] = new[x]
    BY DEF Credit
<1>2. bal[a] \in Int
    OBVIOUS
<1> HIDE DEF new
<1>3. SumFunction(bal) \in Int /\ SumFunction(new) = SumFunction(bal) - bal[a] + new[a]
    BY <1>1, AreFinite, SumChanged
<1> QED BY <1>1, <1>2, <1>3 DEF new

LEMMA TwoCredits ==
    ASSUME NEW bal \in [Accounts -> Nat], NEW a \in Accounts, NEW b \in Accounts,
           NEW m \in Int, NEW n \in Int
    PROVE  LET new == Credit(Credit(bal, a, m), b, n)
           IN  /\ new \in [Accounts -> Int]
               /\ SumFunction(new) = SumFunction(bal) + m + n
               /\ \A x \in Accounts : new[x] = bal[x] + (IF x = a THEN m ELSE 0)
                                                     + (IF x = b THEN n ELSE 0)
               /\ SumFunction(bal) \in Int
<1> DEFINE mid == Credit(bal, a, m)
           new == Credit(mid, b, n)
<1>1. bal \in [Accounts -> Int]
    OBVIOUS
<1>2. /\ mid \in [Accounts -> Int] /\ SumFunction(mid) = SumFunction(bal) + m
      /\ \A x \in Accounts : mid[x] = IF x = a THEN bal[a] + m ELSE bal[x]
      /\ SumFunction(bal) \in Int
    BY <1>1, CreditSum, ZenonT(30)
<1> HIDE DEF mid
<1>3. /\ new \in [Accounts -> Int] /\ SumFunction(new) = SumFunction(mid) + n
      /\ \A x \in Accounts : new[x] = IF x = b THEN mid[b] + n ELSE mid[x]
    BY <1>2, CreditSum, ZenonT(30)
<1> HIDE DEF new
<1>4. \A x \in Accounts : new[x] = bal[x] + (IF x = a THEN m ELSE 0) + (IF x = b THEN n ELSE 0)
    BY <1>1, <1>2, <1>3
<1>5. SumFunction(new) = SumFunction(bal) + m + n
    BY <1>2, <1>3
<1> QED BY <1>2, <1>3, <1>4, <1>5 DEF mid, new

-----------------------------------------------------------------------------
(* The auto-unwind *)

\* What the auto-unwind may have done to the vault's base asset, the positions
\* and the pool: base asset moved from the pool to the vault, no position was
\* raised, and what the vault holds and has put to work is the same, over all
\* strategies and over the listed ones.
Purses ==
    {st \in [cash : Nat, position : [Strategies -> Nat], pool : Nat, ok : BOOLEAN] :
        /\ st.cash + st.pool = cash + pool /\ cash <= st.cash
        /\ \A s \in Strategies : st.position[s] <= position[s]
        /\ \A B \in {Strategies, Listed} :
              st.cash + SumFunctionOnSet(st.position, B) = cash + SumFunctionOnSet(position, B)}

\* A pull that no strategy or pool refuses.
LEMMA PullMoves ==
    ASSUME TypeOK, NEW st \in Purses, NEW s \in Listed, NEW units \in Nat,
           s \in BlendStrategies, ~stratPaused[s], units <= st.position[s], units <= st.pool
    PROVE  LET r == Pull(st, s, units)
           IN  /\ r \in Purses /\ r.ok = st.ok
               /\ r.cash = st.cash + units /\ r.pool = st.pool - units
               /\ r.position = [st.position EXCEPT ![s] = @ - units]
<1> DEFINE r == Pull(st, s, units)
<1>1. /\ st \in [cash : Nat, position : [Strategies -> Nat], pool : Nat, ok : BOOLEAN]
      /\ st.cash + st.pool = cash + pool /\ cash <= st.cash
      /\ \A x \in Strategies : st.position[x] <= position[x]
      /\ \A B \in {Strategies, Listed} :
            st.cash + SumFunctionOnSet(st.position, B) = cash + SumFunctionOnSet(position, B)
      /\ cash \in Nat /\ pool \in Nat /\ position \in [Strategies -> Nat]
    BY DEF Purses, TypeOK
<1>2. s \in Strategies /\ Listed \subseteq Strategies
    BY ListedAre
<1>3. r = [st EXCEPT !.cash = @ + units, !.position[s] = @ - units, !.pool = @ - units]
    <2>1. st.position[s] \in Nat /\ st.pool \in Nat
        BY <1>1, <1>2
    <2>2. ~(units > st.position[s]) /\ ~(~PoolPays(st.pool, units))
        BY <2>1 DEF PoolPays
    <2> QED BY <2>2 DEF Pull
<1>4. /\ r.cash = st.cash + units /\ r.pool = st.pool - units /\ r.ok = st.ok
      /\ r.position = [st.position EXCEPT ![s] = @ - units]
      /\ r \in [cash : Nat, position : [Strategies -> Nat], pool : Nat, ok : BOOLEAN]
    <2>1. [st.position EXCEPT ![s] = @ - units] \in [Strategies -> Nat]
        BY <1>1, <1>2
    <2>2. st.cash + units \in Nat /\ st.pool - units \in Nat
        BY <1>1
    <2> QED BY <1>1, <1>3, <2>1, <2>2
<1>5. \A x \in Strategies : r.position[x] <= position[x]
    BY <1>1, <1>2, <1>4
<1> HIDE DEF r
<1>6. r.cash + r.pool = cash + pool /\ cash <= r.cash
    BY <1>1, <1>4
<1>7. ASSUME NEW B \in {Strategies, Listed}
      PROVE  r.cash + SumFunctionOnSet(r.position, B) = cash + SumFunctionOnSet(position, B)
    <2>1. B \in SUBSET Strategies /\ s \in B
        BY <1>2
    <2>2. /\ st.position \in [Strategies -> Int] /\ r.position \in [Strategies -> Int]
          /\ \A y \in Strategies \ {s} : st.position[y] = r.position[y]
          /\ r.position[s] = st.position[s] - units /\ st.position[s] \in Int
        BY <1>1, <1>2, <1>4
    <2>3. /\ SumFunctionOnSet(st.position, B) \in Int
          /\ SumFunctionOnSet(r.position, B)
                = SumFunctionOnSet(st.position, B) - st.position[s] + r.position[s]
        BY <1>2, <2>1, <2>2, AreFinite, SumOnSetChanged
    <2>4. st.cash + SumFunctionOnSet(st.position, B) = cash + SumFunctionOnSet(position, B)
        BY <1>1
    <2> DEFINE x == SumFunctionOnSet(st.position, B)
               y == SumFunctionOnSet(r.position, B)
               z == SumFunctionOnSet(position, B)
    <2>5. x \in Int /\ y = x - units /\ st.cash + x = cash + z /\ st.cash \in Nat
        BY <1>1, <2>2, <2>3, <2>4
    <2> HIDE DEF x, y, z
    <2>6. r.cash + y = cash + z
        BY <1>4, <2>5
    <2> QED BY <2>6 DEF y, z
<1> QED BY <1>4, <1>5, <1>6, <1>7 DEF Purses, r

LEMMA PullKeeps ==
    ASSUME TypeOK, NEW st \in Purses, NEW s \in Listed, NEW units \in Nat
    PROVE  Pull(st, s, units) \in Purses
<1>1. CASE s \notin BlendStrategies \/ stratPaused[s] \/ units > st.position[s]
           \/ ~PoolPays(st.pool, units)
    <2>1. Pull(st, s, units) = [st EXCEPT !.ok = FALSE]
        BY <1>1 DEF Pull
    <2> QED BY <2>1 DEF Purses
<1>2. CASE ~(s \notin BlendStrategies \/ stratPaused[s] \/ units > st.position[s]
             \/ ~PoolPays(st.pool, units))
    <2>1. st.position[s] \in Nat
        BY ListedAre DEF Purses
    <2>2. units <= st.position[s] /\ units <= st.pool
        BY <1>2, <2>1 DEF PoolPays
    <2> QED BY <1>2, <2>2, PullMoves
<1> QED BY <1>1, <1>2

LEMMA HeldNat ==
    ASSUME TypeOK, NEW st \in Purses, NEW s \in Strategies
    PROVE  Held(st, s) \in Nat
<1>1. st.position \in [Strategies -> Nat]
    BY DEF Purses
<1>2. StrategyValue(s, GetValue(s, st.position)) \in Nat
    BY <1>1, GetValueNat, StrategyValueNat
<1> QED BY <1>2 DEF Held

\* What one step of the first loop pulls, and one of the second.
LEMMA ProRataPulls ==
    ASSUME TypeOK, NEW need \in Nat, cash < need, NEW total \in Nat, total > 0,
           NEW st \in Purses, NEW s \in Listed
    PROVE  \/ ProRata(need, total, st, s) = st
           \/ \E units \in Nat :
                 /\ units > 0 /\ units <= Held(st, s)
                 /\ ProRata(need, total, st, s) = Pull(st, s, units)
<1> DEFINE worth == Held(st, s)
           part  == ((need - cash) * worth) \div total
           pull  == Least(part, worth)
<1>1. worth \in Nat /\ need - cash \in Nat
    <2>1. s \in Strategies
        BY ListedAre
    <2>2. worth \in Nat
        BY <2>1, HeldNat
    <2>3. need - cash \in Nat
        BY DEF TypeOK
    <2> QED BY <2>2, <2>3
<1>2. (need - cash) * worth \in Nat
    <2> HIDE DEF worth
    <2> QED BY <1>1, ProductNat
<1>3. part \in Nat
    BY <1>2, DivBounds
<1>4. pull \in Nat /\ pull <= worth
    <2> HIDE DEF part, worth
    <2> QED BY <1>1, <1>3 DEF Least
<1>5. ProRata(need, total, st, s) = IF pull > 0 THEN Pull(st, s, pull) ELSE st
    BY DEF ProRata
<1> HIDE DEF pull
<1> QED BY <1>4, <1>5

LEMMA SweepPulls ==
    ASSUME TypeOK, NEW need \in Nat, NEW st \in Purses, NEW s \in Listed
    PROVE  \/ /\ Sweep(need, st, s) = st
              /\ Held(st, s) = 0 \/ st.cash >= need
           \/ \E units \in Nat :
                 /\ units > 0 /\ units <= Held(st, s)
                 /\ units = Held(st, s) \/ st.cash + units = need
                 /\ Sweep(need, st, s) = Pull(st, s, units)
<1> DEFINE worth == Held(st, s)
           pull == Least(worth, need - st.cash)
<1>1. worth \in Nat /\ st.cash \in Nat
    BY HeldNat, ListedAre DEF Purses
<1>2. Sweep(need, st, s) = IF pull > 0 THEN Pull(st, s, pull) ELSE st
    BY DEF Sweep
<1> HIDE DEF worth
<1>3. /\ pull \in Int /\ pull <= worth
      /\ pull = worth \/ st.cash + pull = need
      /\ pull <= 0 => worth = 0 \/ st.cash >= need
    BY <1>1 DEF Least
<1> HIDE DEF pull
<1>4. CASE pull > 0
    BY <1>2, <1>3, <1>4 DEF worth
<1>5. CASE ~(pull > 0)
    <2>1. worth = 0 \/ st.cash >= need
        BY <1>3, <1>5
    <2> QED BY <1>2, <1>5, <2>1 DEF worth
<1> QED BY <1>4, <1>5

ProRataAll(need, total, start) ==
    FoldLeft(LAMBDA st, s : ProRata(need, total, st, s), start, strategies)

SweepAll(need, start) == FoldLeft(LAMBDA st, s : Sweep(need, st, s), start, strategies)

\* The first loop, over the list of strategies: a set that holds its start and
\* that none of its steps leaves holds its end.
LEMMA ProRataLoop ==
    ASSUME TypeOK, NEW need, NEW total, NEW T, NEW start \in T,
           \A st \in T, s \in Listed : ProRata(need, total, st, s) \in T
    PROVE  ProRataAll(need, total, start) \in T
<1> DEFINE n == Len(strategies)
           F == [p \in T \X (1 .. n) |-> ProRata(need, total, p[1], strategies[p[2]])]
           IsTable(h) == h = [s \in SUBSET (DOMAIN strategies) |->
                                 IF s = {} THEN start
                                 ELSE ProRata(need, total, h[s \ {Max(s)}], strategies[Max(s)])]
           h == CHOOSE h : IsTable(h)
<1>1. /\ n \in Nat /\ DOMAIN strategies = 1 .. n
      /\ \A i \in 1 .. n : strategies[i] \in Listed
    BY ListedAre
<1>2. \A y \in T, i \in 1 .. n :
          /\ F[<<y, i>>] = ProRata(need, total, y, strategies[i])
          /\ F[<<y, i>>] \in T
    BY <1>1
<1> HIDE DEF F, n
<1>3. \A s \in SUBSET (1 .. n) : s # {} => Max(s) \in s
    BY <1>1, LastPosition
<1>4. \E k : IsTable(k)
    <2>1. PICK k : IsLoopTable(k, n, T, start, F)
        BY <1>1, <1>2, LoopTable
    <2>2. \A s \in SUBSET (1 .. n) :
              k[s] = IF s = {} THEN start
                     ELSE ProRata(need, total, k[s \ {Max(s)}], strategies[Max(s)])
        BY <1>2, <1>3, <2>1 DEF IsLoopTable
    <2>3. k = [s \in SUBSET (1 .. n) |->
                  IF s = {} THEN start
                  ELSE ProRata(need, total, k[s \ {Max(s)}], strategies[Max(s)])]
        BY <2>1, <2>2 DEF IsLoopTable
    <2>4. IsTable(k)
        BY <1>1, <2>3
    <2> QED BY <2>4
<1>5. IsTable(h)
    <2> HIDE DEF IsTable
    <2> QED BY <1>4
<1>6. ProRataAll(need, total, start) = h[DOMAIN strategies]
    BY Zenon DEF ProRataAll, FoldLeft, MapThenFoldSet
<1> HIDE DEF h
<1>7. h[{}] \in T
    BY <1>1, <1>5
<1>8. ASSUME NEW s \in SUBSET (1 .. n), s # {}, h[s \ {Max(s)}] \in T
      PROVE  h[s] \in T
    <2>1. Max(s) \in 1 .. n
        BY <1>3, <1>8
    <2>2. h[s] = ProRata(need, total, h[s \ {Max(s)}], strategies[Max(s)])
        BY <1>1, <1>5, <1>8
    <2> QED BY <1>1, <1>8, <2>1, <2>2
<1>9. h[1 .. n] \in T
    BY <1>1, <1>7, <1>8, LoopInvariant
<1> QED BY <1>1, <1>6, <1>9

\* The second loop.  What a step does for its strategy and no later step undoes
\* is done for every listed strategy at the end.
LEMMA SweepLoop ==
    ASSUME TypeOK, NEW need, NEW T, NEW start \in T, NEW Done,
           \A st \in T, s \in Listed :
               /\ Sweep(need, st, s) \in T
               /\ <<Sweep(need, st, s), s>> \in Done
               /\ \A r \in Listed : <<st, r>> \in Done => <<Sweep(need, st, s), r>> \in Done
    PROVE  /\ SweepAll(need, start) \in T
           /\ \A s \in Listed : <<SweepAll(need, start), s>> \in Done
<1> DEFINE n == Len(strategies)
           F == [p \in T \X (1 .. n) |-> Sweep(need, p[1], strategies[p[2]])]
           IsTable(h) == h = [s \in SUBSET (DOMAIN strategies) |->
                                 IF s = {} THEN start
                                 ELSE Sweep(need, h[s \ {Max(s)}], strategies[Max(s)])]
           h == CHOOSE h : IsTable(h)
           k == [s \in SUBSET (1 .. n) |-> <<s, h[s]>>]
           Swept == {p \in (SUBSET (1 .. n)) \X T :
                        \A i \in p[1] : <<p[2], strategies[i]>> \in Done}
<1>1. /\ n \in Nat /\ DOMAIN strategies = 1 .. n
      /\ \A i \in 1 .. n : strategies[i] \in Listed
      /\ Listed = {strategies[i] : i \in 1 .. n}
    BY ListedAre
<1>2. \A y \in T, i \in 1 .. n :
          F[<<y, i>>] = Sweep(need, y, strategies[i]) /\ F[<<y, i>>] \in T
    BY <1>1
<1> HIDE DEF F, n
<1>3. \A s \in SUBSET (1 .. n) : s # {} => Max(s) \in s
    BY <1>1, LastPosition
<1>4. \E g : IsTable(g)
    <2>1. PICK g : IsLoopTable(g, n, T, start, F)
        BY <1>1, <1>2, LoopTable
    <2>2. \A s \in SUBSET (1 .. n) :
              g[s] = IF s = {} THEN start
                     ELSE Sweep(need, g[s \ {Max(s)}], strategies[Max(s)])
        BY <1>2, <1>3, <2>1 DEF IsLoopTable
    <2>3. g = [s \in SUBSET (1 .. n) |->
                  IF s = {} THEN start
                  ELSE Sweep(need, g[s \ {Max(s)}], strategies[Max(s)])]
        BY <2>1, <2>2 DEF IsLoopTable
    <2>4. IsTable(g)
        BY <1>1, <2>3
    <2> QED BY <2>4
<1>5. IsTable(h)
    <2> HIDE DEF IsTable
    <2> QED BY <1>4
<1>6. SweepAll(need, start) = h[DOMAIN strategies]
    BY Zenon DEF SweepAll, FoldLeft, MapThenFoldSet
<1> HIDE DEF h
<1>7. k[{}] \in Swept
    <2>1. h[{}] = start
        BY <1>1, <1>5
    <2> QED BY <2>1
<1>8. ASSUME NEW s \in SUBSET (1 .. n), s # {}, k[s \ {Max(s)}] \in Swept
      PROVE  k[s] \in Swept
    <2> DEFINE i == Max(s)
               y == h[s \ {i}]
    <2>1. i \in s /\ i \in 1 .. n /\ strategies[i] \in Listed
        BY <1>1, <1>3, <1>8
    <2>2. h[s] = Sweep(need, y, strategies[i])
        BY <1>1, <1>5, <1>8
    <2>3. y \in T /\ \A j \in s \ {i} : <<y, strategies[j]>> \in Done
        <3>1. k[s \ {i}] = <<s \ {i}, y>>
            OBVIOUS
        <3> HIDE DEF y, k, i
        <3> QED BY <1>8, <3>1 DEF i
    <2> HIDE DEF i, y
    <2>4. h[s] \in T /\ <<h[s], strategies[i]>> \in Done
        BY <2>1, <2>2, <2>3
    <2>5. ASSUME NEW j \in s PROVE <<h[s], strategies[j]>> \in Done
        <3>1. CASE j = i
            BY <2>4, <3>1
        <3>2. CASE j # i
            <4>1. <<y, strategies[j]>> \in Done /\ strategies[j] \in Listed
                BY <1>1, <2>3, <3>2
            <4> QED BY <2>1, <2>2, <2>3, <4>1
        <3> QED BY <3>1, <3>2
    <2> QED BY <2>4, <2>5
<1> HIDE DEF Swept, k
<1>9. k[1 .. n] \in Swept
    BY <1>1, <1>7, <1>8, LoopInvariant
<1>10. h[1 .. n] \in T /\ \A i \in 1 .. n : <<h[1 .. n], strategies[i]>> \in Done
    BY <1>9 DEF Swept, k
<1>11. SweepAll(need, start) = h[1 .. n]
    BY <1>1, <1>6
<1> QED BY <1>1, <1>10, <1>11

\* The auto-unwind as its two loops: no strategy is called when the vault holds
\* enough or the strategies are worth nothing.
LEMMA LiquidateRuns ==
    ASSUME TypeOK, NEW need \in Nat
    PROVE  LET start == [cash |-> cash, position |-> position, pool |-> pool, ok |-> TRUE]
               total == SumFunction([i \in DOMAIN strategies |-> Held(start, strategies[i])])
           IN  /\ start \in Purses /\ total \in Nat
               /\ cash >= need \/ total = 0 => Liquidate(need) = start
               /\ cash < need /\ total > 0 =>
                     Liquidate(need) = SweepAll(need, ProRataAll(need, total, start))
<1> DEFINE start == [cash |-> cash, position |-> position, pool |-> pool, ok |-> TRUE]
           f == [i \in DOMAIN strategies |-> Held(start, strategies[i])]
           total == SumFunction(f)
           swept == SweepAll(need, ProRataAll(need, total, start))
<1>1. start \in Purses
    BY DEF Purses, TypeOK
<1>2. Liquidate(need) = IF cash >= need \/ total = 0 THEN start ELSE swept
    BY Zenon DEF Liquidate, SweepAll, ProRataAll
<1>3. f \in [DOMAIN strategies -> Nat]
    <2> HIDE DEF start
    <2> QED BY <1>1, ListedAre, HeldNat
<1> HIDE DEF f
<1>4. total \in Nat
    BY <1>3, ListedAre, SumOfNat
<1> HIDE DEF total, swept, start
<1>5. cash < need /\ total > 0 => ~(cash >= need \/ total = 0)
    BY <1>4 DEF TypeOK
<1> QED BY <1>1, <1>2, <1>4, <1>5 DEF start, f, total, swept

\* However the loops round and whatever they reach, the auto-unwind only moves
\* base asset from the pool to the vault.
LEMMA LiquidateMoves ==
    ASSUME TypeOK, NEW need \in Nat
    PROVE  Liquidate(need) \in Purses
<1> DEFINE start == [cash |-> cash, position |-> position, pool |-> pool, ok |-> TRUE]
           total == SumFunction([i \in DOMAIN strategies |-> Held(start, strategies[i])])
           prorated == ProRataAll(need, total, start)
<1>1. /\ start \in Purses /\ total \in Nat
      /\ cash >= need \/ total = 0 => Liquidate(need) = start
      /\ cash < need /\ total > 0 => Liquidate(need) = SweepAll(need, prorated)
    BY LiquidateRuns
<1> HIDE DEF start, total
<1>2. CASE cash < need /\ total > 0
    <2>1. ASSUME NEW st \in Purses, NEW s \in Listed
          PROVE  ProRata(need, total, st, s) \in Purses
        BY <1>1, <1>2, ProRataPulls, PullKeeps
    <2>2. prorated \in Purses
        BY <1>1, <2>1, ProRataLoop
    <2> DEFINE Done == Purses \X Listed
    <2>3. ASSUME NEW st \in Purses, NEW s \in Listed
          PROVE  /\ Sweep(need, st, s) \in Purses
                 /\ <<Sweep(need, st, s), s>> \in Done
                 /\ \A r \in Listed : <<st, r>> \in Done => <<Sweep(need, st, s), r>> \in Done
        <3>1. Sweep(need, st, s) \in Purses
            BY SweepPulls, PullKeeps
        <3> QED BY <3>1
    <2> HIDE DEF Done, prorated
    <2>4. SweepAll(need, prorated) \in Purses
        BY <2>2, <2>3, SweepLoop
    <2> QED BY <1>1, <1>2, <2>4
<1>3. CASE ~(cash < need /\ total > 0)
    BY <1>1, <1>3 DEF TypeOK
<1> QED BY <1>2, <1>3

-----------------------------------------------------------------------------
(* Every call keeps the types, the fee caps and the sum of the balances *)

\* What a call leaves alone: the fees and roles, and the two-asset strategy.
LEMMA FeesAndPairKept ==
    ASSUME VaultInv, UNCHANGED <<feeVars, lpVars>>
    PROVE  /\ FeeTypeOK' /\ LpTypeOK' /\ FeesWithinCaps'
           /\ now' = now /\ manager' = manager /\ now \in Nat /\ manager \in Accounts
<1>1. FeeTypeOK' /\ now' = now /\ manager' = manager /\ now \in Nat /\ manager \in Accounts
    BY VaultAssumption DEF VaultInv, TypeOK, FeeTypeOK, feeVars
<1>2. LpTypeOK'
    BY DEF VaultInv, TypeOK, LpTypeOK, lpVars
<1>3. FeesWithinCaps'
    BY DEF VaultInv, FeesWithinCaps, WithinCaps, feeVars
<1> QED BY <1>1, <1>2, <1>3

LEMMA CollectKeeps ==
    ASSUME VaultInv, CollectFees
    PROVE  /\ lastMgmtFeeTs' = now /\ highWaterMark' \in Nat
           /\ feesMinted' \in [mgmt : Nat, perf : Nat]
           /\ feesMinted'.mgmt = feesMinted.mgmt + Accrued.mgmt
           /\ feesMinted'.perf = feesMinted.perf + Accrued.perf
           /\ FeesOf \in Nat /\ FeesOf' = FeesOf + FeeTotal(Accrued)
<1>1. /\ feesMinted \in [mgmt : Nat, perf : Nat]
      /\ feesMinted' = [mgmt |-> feesMinted.mgmt + Accrued.mgmt,
                        perf |-> feesMinted.perf + Accrued.perf]
      /\ lastMgmtFeeTs' = now /\ highWaterMark' = Accrued.mark
    BY DEF VaultInv, TypeOK, CollectFees
<1>2. Accrued.mgmt \in Nat /\ Accrued.perf \in Nat /\ Accrued.mark \in Nat
      /\ FeeTotal(Accrued) = Accrued.mgmt + Accrued.perf
    BY AccruedBounds
<1>3. FeesOf = feesMinted.mgmt + feesMinted.perf /\ FeesOf' = feesMinted'.mgmt + feesMinted'.perf
    BY DEF FeesOf, FeeTotal
<1> QED BY <1>1, <1>2, <1>3

LEMMA CheckpointKeeps ==
    ASSUME TypeOK, NEW a \in Accounts, NEW op \in Operations, NEW n \in Nat,
           Checkpoint(a, op, n)
    PROVE  opState' \in [Accounts -> OpStates \cup {None}]
<1>1. [ledger |-> now, op_type |-> op, expected_nav_after |-> n] \in OpStates
    BY DEF TypeOK, FeeTypeOK, OpStates
<1> QED BY <1>1 DEF TypeOK, Checkpoint

\* The numbers of a deposit.
LEMMA DepositNumbers ==
    ASSUME VaultInv, NEW amount \in Nat, amount > 0,
           NEW s \in Nat
    PROVE  LET total == DepositShares(amount, SharePrice(Nav, s), s)
               entry == EntryFeeShares(total, fees["entry"])
           IN  /\ total \in Nat /\ entry \in Nat /\ entry <= total
               /\ total * SharePrice(Nav, s) <= amount * PRICE_PRECISION
<1> DEFINE total == DepositShares(amount, SharePrice(Nav, s), s)
           entry == EntryFeeShares(total, fees["entry"])
<1>1. /\ fees["entry"] \in Nat /\ fees["entry"] <= FEE_DENOMINATOR
      /\ FEE_DENOMINATOR \in Nat /\ FEE_DENOMINATOR > 0
    <2>1. "entry" \in FeeKinds
        BY DEF FeeKinds
    <2>2. fees["entry"] \in Nat /\ fees["entry"] <= FeeCap["entry"]
          /\ FeeCap["entry"] \in Nat /\ FeeCap["entry"] <= FEE_DENOMINATOR
        BY <2>1, FeeAssumption, VaultAssumption
           DEF VaultInv, TypeOK, FeeTypeOK, FeesWithinCaps, WithinCaps
    <2> QED BY <2>2, MathAssumption
<1>2. total \in Nat /\ total * SharePrice(Nav, s) <= amount * PRICE_PRECISION
    <2>1. Nav \in Nat
        BY NavNat DEF VaultInv
    <2> QED BY <2>1, DepositSharesFair
<1> HIDE DEF total
<1>3. total * fees["entry"] \in Nat
    BY <1>1, <1>2, ProductNat
<1>4. entry \in Nat /\ entry * FEE_DENOMINATOR <= total * fees["entry"]
    BY <1>1, <1>3, DivBounds DEF EntryFeeShares
<1>5. entry <= total
    <2> HIDE DEF entry
    <2>1. fees["entry"] * total <= FEE_DENOMINATOR * total
        BY <1>1, <1>2, MulMono
    <2>2. entry * FEE_DENOMINATOR < (total + 1) * FEE_DENOMINATOR
        BY <1>1, <1>2, <1>3, <1>4, <2>1
    <2>3. entry < total + 1
        BY <1>1, <1>2, <1>4, <2>2, MulMonoStrict
    <2> QED BY <1>2, <1>4, <2>3
<1> QED BY <1>2, <1>4, <1>5 DEF total

LEMMA DepositKeeps ==
    ASSUME VaultInv, NEW from \in Accounts, NEW amount \in Amounts, Deposit(from, amount)
    PROVE  VaultInv'
<1> DEFINE fee   == FeeTotal(Accrued)
           s     == supply + fee
           total == DepositShares(amount, SharePrice(Nav, s), s)
           entry == EntryFeeShares(total, fees["entry"])
<1>0. TypeOK
    BY DEF VaultInv
<1>1. amount \in Nat /\ amount > 0
    BY VaultAssumption DEF Deposit
<1>2. fee \in Nat /\ s \in Nat
    BY <1>0, AccruedBounds DEF TypeOK
<1>3. total \in Nat /\ entry \in Nat /\ entry <= total
    BY <1>1, <1>2, DepositNumbers
<1>4. /\ CollectFees
      /\ shares' = Credit(Credit(shares, from, total - entry), manager, fee + entry)
      /\ supply' = s + total
      /\ cash' = cash + amount
      /\ lastDeposit' = [lastDeposit EXCEPT ![from] = now]
      /\ Checkpoint(from, "deposit", NavOf(cash', position'))
      /\ UNCHANGED <<feeVars, lpVars, config, members, listVars, strategyVars>>
    BY DEF Deposit, strategyVars
<1> HIDE DEF fee, total, entry
<1>5. /\ FeeTypeOK' /\ LpTypeOK' /\ FeesWithinCaps'
      /\ now' = now /\ now \in Nat /\ manager \in Accounts
    BY <1>4, FeesAndPairKept
<1>6. /\ shares' \in [Accounts -> Nat] /\ supply' \in Nat
      /\ supply' = SumFunction(shares')
    <2>1. shares \in [Accounts -> Nat] /\ supply \in Nat /\ supply = SumFunction(shares)
        BY DEF VaultInv, TypeOK, SharesAccounted
    <2>2. total - entry \in Nat /\ fee + entry \in Nat
        BY <1>2, <1>3
    <2> DEFINE m == total - entry
               k == fee + entry
    <2>3. m \in Int /\ k \in Int /\ m >= 0 /\ k >= 0 /\ m + k = total + fee
        BY <1>2, <1>3, <2>2
    <2>4. shares' = Credit(Credit(shares, from, m), manager, k)
        BY <1>4
    <2> HIDE DEF m, k
    <2>5. /\ shares' \in [Accounts -> Int]
          /\ SumFunction(shares') = SumFunction(shares) + m + k
          /\ \A x \in Accounts : shares'[x] = shares[x] + (IF x = from THEN m ELSE 0)
                                                        + (IF x = manager THEN k ELSE 0)
        BY <1>5, <2>1, <2>3, <2>4, TwoCredits
    <2>6. supply' = supply + fee + total
        BY <1>4
    <2>7. \A x \in Accounts : shares'[x] \in Nat
        BY <2>1, <2>3, <2>5
    <2> QED BY <1>2, <1>3, <2>1, <2>3, <2>5, <2>6, <2>7
<1>7. cash' \in Nat /\ position' \in [Strategies -> Nat] /\ pool' \in Nat
    BY <1>0, <1>1, <1>4 DEF TypeOK, strategyVars
<1>8. opState' \in [Accounts -> OpStates \cup {None}]
    <2>1. NavOf(cash', position') \in Nat
        BY <1>0, <1>7, NavBounds
    <2> QED BY <1>0, <1>4, <2>1, CheckpointKeeps DEF Operations
<1>9. /\ lastMgmtFeeTs' = now /\ highWaterMark' \in Nat
      /\ feesMinted' \in [mgmt : Nat, perf : Nat]
    BY <1>4, CollectKeeps
<1>10. lastDeposit' \in [Accounts -> Nat \cup {None}]
    BY <1>0, <1>4, <1>5 DEF TypeOK
<1>11. TypeOK'
    BY <1>0, <1>4, <1>5, <1>6, <1>7, <1>8, <1>9, <1>10 DEF TypeOK, listVars, strategyVars
<1> QED BY <1>5, <1>6, <1>9, <1>11 DEF VaultInv, SharesAccounted

\* The numbers of a withdrawal: what is paid is no more than the price of the
\* shares.
LEMMA WithdrawNumbers ==
    ASSUME VaultInv, NEW amount \in Nat, NEW s \in Nat
    PROVE  LET gross == BaseGross(amount, SharePrice(Nav, s))
               net   == BaseNet(gross, fees["exit"])
           IN  gross \in Nat /\ net \in Nat /\ net <= gross
<1> DEFINE gross == BaseGross(amount, SharePrice(Nav, s))
           net   == BaseNet(gross, fees["exit"])
           kept  == FEE_DENOMINATOR - fees["exit"]
<1>1. /\ kept \in Nat /\ kept <= FEE_DENOMINATOR
      /\ FEE_DENOMINATOR \in Nat /\ FEE_DENOMINATOR > 0
    <2>1. "exit" \in FeeKinds
        BY DEF FeeKinds
    <2>2. fees["exit"] \in Nat /\ fees["exit"] <= FeeCap["exit"]
          /\ FeeCap["exit"] \in Nat /\ FeeCap["exit"] <= FEE_DENOMINATOR
        BY <2>1, FeeAssumption, VaultAssumption
           DEF VaultInv, TypeOK, FeeTypeOK, FeesWithinCaps, WithinCaps
    <2> QED BY <2>2, MathAssumption
<1>2. gross \in Nat
    <2>1. SharePrice(Nav, s) \in Nat
        BY NavNat, SharePriceNat DEF VaultInv
    <2> QED BY <2>1, BaseGrossFair
<1>3. net = (gross * kept) \div FEE_DENOMINATOR
    BY DEF BaseNet
<1> HIDE DEF gross, kept, net
<1>4. gross * kept \in Nat
    BY <1>1, <1>2, ProductNat
<1>5. net \in Nat /\ net * FEE_DENOMINATOR <= gross * kept
    BY <1>1, <1>3, <1>4, DivBounds
<1>6. net <= gross
    <2>1. kept * gross <= FEE_DENOMINATOR * gross
        BY <1>1, <1>2, MulMono
    <2>2. net * FEE_DENOMINATOR < (gross + 1) * FEE_DENOMINATOR
        BY <1>1, <1>2, <1>4, <1>5, <2>1
    <2>3. net < gross + 1
        BY <1>1, <1>2, <1>5, <2>2, MulMonoStrict
    <2> QED BY <1>2, <1>5, <2>3
<1> QED BY <1>2, <1>5, <1>6 DEF gross, net

\* What a withdrawal does to the vault's holdings: they fall by what is paid,
\* and no position rises.
LEMMA WithdrawPays ==
    ASSUME VaultInv, NEW from \in Accounts, NEW amount \in Amounts, Withdraw(from, amount)
    PROVE  LET s   == supply + FeeTotal(Accrued)
               net == BaseNet(BaseGross(amount, SharePrice(Nav, s)), fees["exit"])
           IN  /\ amount \in Nat /\ amount > 0 /\ s \in Nat /\ amount <= shares[from]
               /\ net \in Nat /\ net > 0
               /\ cash' \in Nat /\ pool' \in Nat /\ position' \in [Strategies -> Nat]
               /\ cash' + pool' + net = cash + pool
               /\ \A r \in Strategies : position'[r] <= position[r]
               /\ \A B \in {Strategies, Listed} :
                     /\ SumFunctionOnSet(position, B) \in Nat
                     /\ SumFunctionOnSet(position', B) \in Nat
                     /\ cash' + SumFunctionOnSet(position', B) + net
                           = cash + SumFunctionOnSet(position, B)
<1> DEFINE s     == supply + FeeTotal(Accrued)
           net   == BaseNet(BaseGross(amount, SharePrice(Nav, s)), fees["exit"])
           after == Liquidate(net)
<1>0. TypeOK
    BY DEF VaultInv
<1>1. amount \in Nat /\ amount > 0 /\ amount <= shares[from]
    BY VaultAssumption DEF Withdraw
<1>2. s \in Nat
    BY <1>0, AccruedBounds DEF TypeOK
<1>3. net \in Nat
    BY <1>1, <1>2, WithdrawNumbers
<1>4. /\ net > 0 /\ after.cash >= net
      /\ cash' = after.cash - net /\ position' = after.position /\ pool' = after.pool
    BY DEF Withdraw
<1> HIDE DEF net
<1>5. after \in Purses
    BY <1>0, <1>3, LiquidateMoves
<1> HIDE DEF after
<1>6. /\ after.cash \in Nat /\ after.pool \in Nat /\ after.position \in [Strategies -> Nat]
      /\ after.cash + after.pool = cash + pool
      /\ \A r \in Strategies : after.position[r] <= position[r]
    BY <1>5 DEF Purses
<1>7. cash' + pool' + net = cash + pool /\ cash' \in Nat
    BY <1>3, <1>4, <1>6
<1>8. ASSUME NEW B \in {Strategies, Listed}
      PROVE  /\ SumFunctionOnSet(position, B) \in Nat
             /\ SumFunctionOnSet(position', B) \in Nat
             /\ cash' + SumFunctionOnSet(position', B) + net = cash + SumFunctionOnSet(position, B)
    <2> DEFINE x == SumFunctionOnSet(position, B)
               y == SumFunctionOnSet(after.position, B)
    <2>1. x \in Nat /\ y \in Nat
        <3>1. B \in SUBSET Strategies
            BY <1>0, ListedAre
        <3>2. \A r \in Strategies : position[r] \in Nat /\ after.position[r] \in Nat
            BY <1>0, <1>6 DEF TypeOK
        <3> QED BY <3>1, <3>2, AreFinite, SumType
    <2>2. after.cash + y = cash + x
        BY <1>5 DEF Purses
    <2>3. SumFunctionOnSet(position', B) = y
        BY <1>4
    <2> HIDE DEF x, y
    <2>4. cash' + y + net = cash + x
        BY <1>3, <1>4, <1>6, <2>1, <2>2
    <2> QED BY <2>1, <2>3, <2>4 DEF x
<1> QED BY <1>1, <1>2, <1>3, <1>4, <1>6, <1>7, <1>8 DEF net

LEMMA WithdrawKeeps ==
    ASSUME VaultInv, NEW from \in Accounts, NEW amount \in Amounts, Withdraw(from, amount)
    PROVE  VaultInv'
<1> DEFINE fee == FeeTotal(Accrued)
<1>0. TypeOK
    BY DEF VaultInv
<1>1. /\ amount \in Nat /\ amount > 0 /\ amount <= shares[from]
      /\ cash' \in Nat /\ pool' \in Nat /\ position' \in [Strategies -> Nat]
    BY WithdrawPays
<1>2. fee \in Nat
    BY AccruedBounds
<1>3. /\ CollectFees
      /\ shares' = Credit(Credit(shares, manager, fee), from, -amount)
      /\ supply' = (supply + fee) - amount
      /\ Checkpoint(from, "withdraw", NavOf(cash', position'))
      /\ UNCHANGED <<feeVars, lpVars, config, members, lastDeposit, listVars, stratPaused>>
    BY DEF Withdraw
<1> HIDE DEF fee
<1>4. /\ FeeTypeOK' /\ LpTypeOK' /\ FeesWithinCaps'
      /\ now' = now /\ now \in Nat /\ manager \in Accounts
    BY <1>3, FeesAndPairKept
<1>5. shares' \in [Accounts -> Nat] /\ supply' \in Nat /\ supply' = SumFunction(shares')
    <2>1. shares \in [Accounts -> Nat] /\ supply \in Nat /\ supply = SumFunction(shares)
        BY DEF VaultInv, TypeOK, SharesAccounted
    <2> DEFINE k == -amount
    <2>2. fee \in Int /\ fee >= 0 /\ k \in Int /\ k + amount = 0
        BY <1>1, <1>2
    <2>3. shares' = Credit(Credit(shares, manager, fee), from, k)
        BY <1>3
    <2> HIDE DEF k
    <2>4. /\ shares' \in [Accounts -> Int]
          /\ SumFunction(shares') = SumFunction(shares) + fee + k
          /\ \A x \in Accounts : shares'[x] = shares[x] + (IF x = manager THEN fee ELSE 0)
                                                        + (IF x = from THEN k ELSE 0)
        BY <1>4, <2>1, <2>2, <2>3, TwoCredits
    <2>5. \A x \in Accounts : shares'[x] \in Nat
        BY <1>1, <2>1, <2>2, <2>4
    <2>6. shares[from] <= supply
        BY <2>1, SumOfNat, VaultAssumption
    <2>7. supply' = SumFunction(shares') /\ supply' \in Nat
        BY <1>1, <1>3, <2>1, <2>2, <2>4, <2>6
    <2> QED BY <2>4, <2>5, <2>7
<1>6. opState' \in [Accounts -> OpStates \cup {None}]
    <2>1. NavOf(cash', position') \in Nat
        BY <1>0, <1>1, NavBounds
    <2> QED BY <1>0, <1>3, <2>1, CheckpointKeeps DEF Operations
<1>7. /\ lastMgmtFeeTs' = now /\ highWaterMark' \in Nat
      /\ feesMinted' \in [mgmt : Nat, perf : Nat]
    BY <1>3, CollectKeeps
<1>8. TypeOK'
    BY <1>0, <1>1, <1>3, <1>4, <1>5, <1>6, <1>7 DEF TypeOK, listVars
<1> QED BY <1>4, <1>5, <1>7, <1>8 DEF VaultInv, SharesAccounted

\* Investing and unwinding move base asset between the vault, a position and
\* the pool.
LEMMA MoveKeeps ==
    ASSUME VaultInv, NEW c \in Managers, NEW s \in Strategies, NEW n \in Amounts,
           Invest(c, s, n) \/ Unwind(c, s, n)
    PROVE  VaultInv'
<1>0. TypeOK /\ c \in Accounts
    BY VaultAssumption DEF VaultInv
<1>1. n \in Nat /\ n > 0
    BY VaultAssumption DEF Invest, Unwind, MayUnwind
<1>2. /\ UNCHANGED <<feeVars, lpVars, tokenVars, config, members, lastDeposit, accrualVars,
                     listVars, stratPaused>>
      /\ \E op \in Operations : Checkpoint(c, op, NavOf(cash', position'))
    BY DEF Invest, Unwind, NavAfterUnwind, Operations
<1>3. cash' \in Nat /\ position' \in [Strategies -> Nat] /\ pool' \in Nat
    <2>0. cash \in Nat /\ position \in [Strategies -> Nat] /\ pool \in Nat
        BY <1>0 DEF TypeOK
    <2>1. CASE Invest(c, s, n)
        BY <1>1, <2>0, <2>1 DEF Invest, BlendDeposit, Credit
    <2>2. CASE Unwind(c, s, n)
        BY <1>1, <2>0, <2>2 DEF Unwind, MayUnwind, Withdrawable, PoolPays, Credit
    <2> QED BY <2>1, <2>2
<1>4. FeeTypeOK' /\ LpTypeOK' /\ FeesWithinCaps' /\ now' = now
    BY <1>2, FeesAndPairKept
<1>5. opState' \in [Accounts -> OpStates \cup {None}]
    <2>1. NavOf(cash', position') \in Nat
        BY <1>0, <1>3, NavBounds
    <2> QED BY <1>0, <1>2, <2>1, CheckpointKeeps
<1>6. TypeOK'
    BY <1>0, <1>2, <1>3, <1>4, <1>5 DEF TypeOK, tokenVars, accrualVars, listVars
<1> QED BY <1>2, <1>4, <1>6 DEF VaultInv, SharesAccounted, tokenVars, accrualVars

\* The manager's settings touch none of the amounts.
LEMMA ListKeeps ==
    ASSUME VaultInv, ListCall
    PROVE  VaultInv'
<1>1. /\ UNCHANGED <<feeVars, lpVars, tokenVars, cash, config, accountVars, accrualVars,
                     price, strategyVars>>
      /\ strategies' \in Seq(Strategies) /\ lpFlagged' \subseteq Strategies
      /\ priceTokens' \subseteq Strategies /\ oracleSet' \in BOOLEAN
    BY VaultAssumption
       DEF VaultInv, TypeOK, ListCall, SetStrategies, SetLpStrategy, SetOracle,
           SetStrategyOracleToken
<1>2. FeeTypeOK' /\ LpTypeOK' /\ FeesWithinCaps' /\ now' = now
    BY <1>1, FeesAndPairKept
<1> QED BY <1>1, <1>2
        DEF VaultInv, TypeOK, SharesAccounted, tokenVars, accountVars, accrualVars, strategyVars

LEMMA ConfigureKeeps ==
    ASSUME VaultInv, NEW c, NEW new \in ConfigType, Configure(c, new)
    PROVE  VaultInv'
<1>1. /\ UNCHANGED <<feeVars, lpVars, tokenVars, cash, accountVars, accrualVars, listVars,
                     strategyVars>>
      /\ config' \in ConfigType
    BY DEF Configure
<1>2. FeeTypeOK' /\ LpTypeOK' /\ FeesWithinCaps' /\ now' = now
    BY <1>1, FeesAndPairKept
<1> QED BY <1>1, <1>2
        DEF VaultInv, TypeOK, SharesAccounted, tokenVars, accountVars, accrualVars, listVars,
            strategyVars

LEMMA ConfigKeeps ==
    ASSUME VaultInv, ConfigCall \/ AccessCall
    PROVE  VaultInv'
<1> DEFINE Sets(c) == \E new \in ConfigType : Configure(c, new)
<1>1. config \in ConfigType /\ Settings \subseteq Int /\ FEE_DENOMINATOR \in Nat
    BY VaultAssumption, MathAssumption DEF VaultInv, TypeOK
<1>2. ASSUME NEW c, Pause(c) \/ Unpause(c)
             \/ (\E b \in BOOLEAN : SetPrivatePool(c, b) \/ SetValueGuardEnabled(c, b))
      PROVE  Sets(c)
    BY <1>1, <1>2 DEF Pause, Unpause, SetPrivatePool, SetValueGuardEnabled, ConfigType
<1>3. ASSUME NEW c, NEW n \in Settings,
             SetDepositCap(c, n) \/ (n \in Nat /\ SetExitCooldownSecs(c, n))
      PROVE  Sets(c)
    BY <1>1, <1>3 DEF SetDepositCap, SetExitCooldownSecs, ConfigType
<1>4. ASSUME NEW c, NEW n \in Nat, SetMaxLossBps(c, n) \/ SetMaxConcentrationBps(c, n)
      PROVE  Sets(c)
    BY <1>1, <1>4 DEF SetMaxLossBps, SetMaxConcentrationBps, ConfigType
<1>5. \E c \in Managers : Sets(c)
    <2> HIDE DEF Sets
    <2> QED BY <1>2, <1>3, <1>4 DEF ConfigCall, AccessCall
<1> QED BY <1>5, ConfigureKeeps

LEMMA MembersKeep ==
    ASSUME VaultInv, MemberAdditions \/ MemberRemovals
    PROVE  VaultInv'
<1>1. /\ UNCHANGED <<feeVars, lpVars, tokenVars, cash, config, lastDeposit, accrualVars,
                     listVars, strategyVars>>
      /\ members' \subseteq Accounts
      /\ opState' \in [Accounts -> OpStates \cup {None}]
    BY DEF VaultInv, TypeOK, MemberAdditions, MemberRemovals, AddMember, RemoveMember
<1>2. FeeTypeOK' /\ LpTypeOK' /\ FeesWithinCaps' /\ now' = now
    BY <1>1, FeesAndPairKept
<1> QED BY <1>1, <1>2
        DEF VaultInv, TypeOK, SharesAccounted, tokenVars, accrualVars, listVars, strategyVars

\* A holder moves or burns shares of his own.
LEMMA HolderKeeps ==
    ASSUME VaultInv, HolderCall
    PROVE  VaultInv'
<1>0. shares \in [Accounts -> Nat] /\ supply \in Nat /\ supply = SumFunction(shares)
    BY DEF VaultInv, TypeOK, SharesAccounted
<1> DEFINE Kept ==
        /\ UNCHANGED <<feeVars, lpVars, cash, config, accountVars, accrualVars, listVars,
                       strategyVars>>
        /\ shares' \in [Accounts -> Nat] /\ supply' \in Nat /\ supply' = SumFunction(shares')
<1>1. Kept
    <2>1. ASSUME NEW a \in Accounts, NEW b \in Accounts, NEW n \in Amounts,
                 TransferShares(a, b, n)
          PROVE  Kept
        <3> DEFINE k == -n
        <3>1. n \in Int /\ n > 0 /\ n <= shares[a] /\ k \in Int /\ k + n = 0
            BY <2>1, VaultAssumption DEF TransferShares
        <3>2. /\ UNCHANGED <<feeVars, lpVars, supply, cash, config, accountVars, accrualVars,
                             listVars, strategyVars>>
              /\ shares' = Credit(Credit(shares, a, k), b, n)
            BY <2>1 DEF TransferShares
        <3> HIDE DEF k
        <3>3. /\ shares' \in [Accounts -> Int]
              /\ SumFunction(shares') = SumFunction(shares) + k + n
              /\ \A x \in Accounts : shares'[x] = shares[x] + (IF x = a THEN k ELSE 0)
                                                            + (IF x = b THEN n ELSE 0)
            BY <1>0, <3>1, <3>2, TwoCredits
        <3>4. \A x \in Accounts : shares'[x] \in Nat
            BY <1>0, <3>1, <3>3
        <3> QED BY <1>0, <3>1, <3>2, <3>3, <3>4
    <2>2. ASSUME NEW a \in Accounts, NEW n \in Amounts, BurnShares(a, n)
          PROVE  Kept
        <3> DEFINE k == -n
        <3>1. n \in Int /\ n > 0 /\ n <= shares[a] /\ k \in Int /\ k + n = 0
            BY <2>2, VaultAssumption DEF BurnShares
        <3>2. /\ UNCHANGED <<feeVars, lpVars, cash, config, accountVars, accrualVars, listVars,
                             strategyVars>>
              /\ shares' = Credit(shares, a, k) /\ supply' = supply - n
            BY <2>2 DEF BurnShares
        <3> HIDE DEF k
        <3>3. /\ shares' \in [Accounts -> Int] /\ SumFunction(shares') = SumFunction(shares) + k
              /\ \A x \in Accounts : shares'[x] = IF x = a THEN shares[a] + k ELSE shares[x]
            BY <1>0, <3>1, <3>2, CreditSum
        <3>4. \A x \in Accounts : shares'[x] \in Nat
            BY <1>0, <3>1, <3>3
        <3>5. shares[a] <= supply
            BY <1>0, SumOfNat, VaultAssumption
        <3> QED BY <1>0, <3>1, <3>2, <3>3, <3>4, <3>5
    <2> QED BY <2>1, <2>2 DEF HolderCall
<1>2. FeeTypeOK' /\ LpTypeOK' /\ FeesWithinCaps' /\ now' = now
    BY <1>1, FeesAndPairKept
<1> QED BY <1>1, <1>2
        DEF VaultInv, TypeOK, SharesAccounted, accountVars, accrualVars, listVars, strategyVars

\* What the strategies' manager, the pool, the oracle and donors do.
LEMMA OthersKeep ==
    ASSUME VaultInv, StrategyCall \/ Environment
    PROVE  VaultInv'
<1>0. /\ cash \in Nat /\ pool \in Nat /\ position \in [Strategies -> Nat]
      /\ stratPaused \in [Strategies -> BOOLEAN] /\ price \in [Strategies -> Nat]
      /\ Amounts \subseteq Int /\ Prices \subseteq Nat
    BY VaultAssumption DEF VaultInv, TypeOK
<1>1. /\ UNCHANGED <<feeVars, lpVars, tokenVars, config, accountVars, accrualVars,
                     strategies, lpFlagged, oracleSet, priceTokens>>
      /\ cash' \in Nat /\ pool' \in Nat /\ position' \in [Strategies -> Nat]
      /\ stratPaused' \in [Strategies -> BOOLEAN] /\ price' \in [Strategies -> Nat]
    <2>1. CASE StrategyCall
        BY <1>0, <2>1
           DEF StrategyCall, SyncPosition, SetStrategyPaused, BlendStrategies, listVars
    <2>2. CASE Environment
        BY <1>0, <2>2 DEF Environment, Donate, AddYield, PublishPrice, listVars, strategyVars
    <2> QED BY <2>1, <2>2
<1>2. FeeTypeOK' /\ LpTypeOK' /\ FeesWithinCaps' /\ now' = now
    BY <1>1, FeesAndPairKept
<1> QED BY <1>1, <1>2 DEF VaultInv, TypeOK, SharesAccounted, tokenVars, accountVars, accrualVars

LEMMA FeeCallsKeep ==
    ASSUME VaultInv, RoleAndFeeCall \/ Time
    PROVE  VaultInv'
<1>1. FeeNext /\ UNCHANGED <<lpVars, vaultVars>>
    BY DEF RoleAndFeeCall, Time, FeeNext
<1>2. FeeTypeOK' /\ FeesWithinCaps'
    BY <1>1, FeeTypeStep, FeeCapStep DEF VaultInv, TypeOK
<1>3. now' \in Nat /\ now <= now'
    BY DEF RoleAndFeeCall, Time, FeeCall, SetManager, SetTrader, SetFeeBps, AnnounceFeeIncrease,
           CommitFeeIncrease, RenounceFeeIncrease, Tick, VaultInv, TypeOK, FeeTypeOK
<1>4. LpTypeOK'
    BY <1>1 DEF VaultInv, TypeOK, LpTypeOK, lpVars
<1>5. SharesAccounted' /\ lastMgmtFeeTs' = lastMgmtFeeTs
    BY <1>1 DEF VaultInv, SharesAccounted, vaultVars, tokenVars, accrualVars
<1>6. TypeOK'
    BY <1>1, <1>2, <1>4
       DEF VaultInv, TypeOK, vaultVars, tokenVars, accountVars, accrualVars, listVars, strategyVars
<1>7. lastMgmtFeeTs' <= now'
    BY <1>3, <1>5 DEF VaultInv, TypeOK, FeeTypeOK
<1> QED BY <1>2, <1>5, <1>6, <1>7 DEF VaultInv

LEMMA VaultInvInit == Init => VaultInv
<1> SUFFICES ASSUME Init PROVE VaultInv
    OBVIOUS
<1>1. FeeTypeOK /\ FeesWithinCaps /\ now = 0
    BY FeeAssumption DEF Init, FeeInit, FeeTypeOK, FeesWithinCaps
<1>2. LpTypeOK
    BY PairAssumption DEF Init, LpInit, LpTypeOK
<1>3. shares = [a \in Accounts |-> 0] /\ supply = 0 /\ SharesAccounted
    BY VaultAssumption, SumOfZeros DEF Init, SharesAccounted
<1>4. config \in ConfigType
    BY VaultAssumption, MathAssumption DEF Init, ConfigType
<1>5. strategies \in Seq(Strategies)
    BY DEF Init
<1>6. /\ shares \in [Accounts -> Nat] /\ lastDeposit \in [Accounts -> Nat \cup {None}]
      /\ opState \in [Accounts -> OpStates \cup {None}]
      /\ price \in [Strategies -> Nat] /\ position \in [Strategies -> Nat]
      /\ stratPaused \in [Strategies -> BOOLEAN]
    BY DEF Init
<1>7. /\ cash \in Nat /\ members \subseteq Accounts
      /\ lastMgmtFeeTs \in Nat /\ highWaterMark \in Nat
      /\ feesMinted \in [mgmt : Nat, perf : Nat]
      /\ lpFlagged \subseteq Strategies /\ priceTokens \subseteq Strategies
      /\ oracleSet \in BOOLEAN /\ pool \in Nat
    BY <1>1, MathAssumption DEF Init
<1>8. TypeOK
    BY <1>1, <1>2, <1>3, <1>4, <1>5, <1>6, <1>7 DEF TypeOK
<1> QED BY <1>1, <1>3, <1>8 DEF VaultInv, Init

LEMMA VaultInvNext == VaultInv /\ [Next]_vars => VaultInv'
<1> SUFFICES ASSUME VaultInv, [Next]_vars PROVE VaultInv'
    OBVIOUS
<1>1. CASE Deposits \/ Withdrawals
    BY <1>1, DepositKeeps, WithdrawKeeps DEF Deposits, Withdrawals
<1>2. CASE Investments \/ Unwindings
    BY <1>2, MoveKeeps DEF Investments, Unwindings
<1>3. CASE UNCHANGED vars
    <2>1. UNCHANGED <<feeVars, lpVars, vaultVars>>
        BY <1>3 DEF vars
    <2>2. FeeTypeOK' /\ LpTypeOK' /\ FeesWithinCaps' /\ now' = now
        BY <2>1, FeesAndPairKept
    <2> QED BY <2>1, <2>2
            DEF VaultInv, TypeOK, SharesAccounted, vaultVars, tokenVars, accountVars, accrualVars,
                listVars, strategyVars
<1> QED BY <1>1, <1>2, <1>3, ListKeeps, ConfigKeeps, MembersKeep, HolderKeeps, OthersKeep,
           FeeCallsKeep
        DEF Next, AccountingNext

LEMMA VaultInvariant == Spec => []VaultInv
BY VaultInvInit, VaultInvNext, PTL DEF Spec

\* The vault's state is well typed: no balance, position, fee or time is ever
\* negative, and no limit above 100 %.
THEOREM VaultTypeCorrect == Spec => []TypeOK
<1>1. VaultInv => TypeOK
    BY DEF VaultInv
<1> QED BY <1>1, VaultInvariant, PTL

\* The shares outstanding are those the holders have.
THEOREM SharesAreAccounted == Spec => []SharesAccounted
<1>1. VaultInv => SharesAccounted
    BY DEF VaultInv
<1> QED BY <1>1, VaultInvariant, PTL

-----------------------------------------------------------------------------
(* What holds of every state *)

\* The instant a cooldown ends is the same for who asks and for who withdraws.
LEMMA CooldownShown == TypeOK => CooldownShownIsEnforced
<1>1. ASSUME TypeOK, NEW a \in Accounts
      PROVE  (RemainingCooldown(a) = 0) = MayExit(a)
    <2>1. /\ config.exit_cooldown \in Nat /\ now \in Nat
          /\ lastDeposit[a] \in Nat \cup {None}
        BY <1>1 DEF TypeOK, FeeTypeOK, ConfigType
    <2>2. CASE config.exit_cooldown = 0 \/ lastDeposit[a] = None
        BY <2>1, <2>2 DEF RemainingCooldown, MayExit, CooledDown
    <2>3. CASE ~(config.exit_cooldown = 0 \/ lastDeposit[a] = None)
        <3>1. lastDeposit[a] \in Nat /\ config.exit_cooldown > 0
            BY <2>1, <2>3
        <3>2. RemainingCooldown(a) = IF lastDeposit[a] + config.exit_cooldown > now
                                     THEN (lastDeposit[a] + config.exit_cooldown) - now
                                     ELSE 0
            BY <2>3 DEF RemainingCooldown
        <3>3. MayExit(a) = (now >= lastDeposit[a] + config.exit_cooldown)
            BY <2>3, <3>1 DEF MayExit, CooledDown
        <3> QED BY <2>1, <3>1, <3>2, <3>3
    <2> QED BY <2>2, <2>3
<1> QED BY <1>1 DEF CooldownShownIsEnforced

\* The cooldown a holder is shown is over exactly when he may withdraw.
THEOREM CooldownIsExact == Spec => []CooldownShownIsEnforced
BY CooldownShown, VaultTypeCorrect, PTL

\* What one deposit mints is worth no more than the deposit.
LEMMA RoundTrip == VaultInv => NoRoundTripGain
<1>1. ASSUME VaultInv, (supply = 0) = (Nav = 0), NEW amount \in 1 .. MaxNav
      PROVE  LET total == DepositShares(amount, SharePrice(Nav, supply), supply)
                 mine  == total - EntryFeeShares(total, fees["entry"])
             IN  BaseGross(mine, SharePrice(Nav + amount, supply + total)) <= amount
    <2> DEFINE total == DepositShares(amount, SharePrice(Nav, supply), supply)
               entry == EntryFeeShares(total, fees["entry"])
               mine  == total - entry
    <2>1. amount \in Nat /\ amount > 0 /\ supply \in Nat /\ Nav \in Nat
        BY <1>1, NavNat, VaultAssumption DEF VaultInv, TypeOK
    <2>2. total \in Nat /\ entry \in Nat /\ entry <= total
        BY <1>1, <2>1, DepositNumbers
    <2>3. mine \in Nat /\ mine <= total
        <3> HIDE DEF total, entry
        <3> QED BY <2>2
    <2> HIDE DEF entry, mine
    <2>4. BaseGross(mine, SharePrice(Nav + amount, supply + total)) <= amount
        BY <1>1, <2>1, <2>3, RoundTripNeverGains
    <2> QED BY <2>4 DEF mine, entry
<1> QED BY <1>1 DEF NoRoundTripGain

\* Depositing and redeeming at once never pays more than was deposited, at
\* whatever price any sequence of calls has left the vault.
THEOREM RoundTripsDoNotGain == Spec => []NoRoundTripGain
BY RoundTrip, VaultInvariant, PTL

-----------------------------------------------------------------------------
(* What no step does *)

\* Only deposits and withdrawals mint fee shares; only they and burning change
\* the supply.
LEMMA OthersMintNothing ==
    ASSUME [Next]_vars, ~Deposits, ~Withdrawals
    PROVE  feesMinted' = feesMinted
BY DEF Next, AccountingNext, Investments, Invest, Unwindings, Unwind, ListCall, SetStrategies,
       SetLpStrategy, SetOracle, SetStrategyOracleToken, ConfigCall, AccessCall, Configure, Pause,
       Unpause, SetDepositCap, SetMaxLossBps, SetMaxConcentrationBps, SetPrivatePool,
       SetValueGuardEnabled, SetExitCooldownSecs, MemberAdditions, AddMember, MemberRemovals,
       RemoveMember, HolderCall, TransferShares, BurnShares, StrategyCall, SyncPosition,
       SetStrategyPaused, Environment, Donate, AddYield, PublishPrice, RoleAndFeeCall, Time,
       accrualVars, vaultVars, vars

\* After a performance fee the shares are still worth the mark they were
\* charged above: the fee is a part of the gain, at a price rounded down.
LEMMA FeeLeavesMark ==
    ASSUME NEW nav \in Nat, NEW s \in Nat, s > 0, NEW mark \in Nat, mark > 0,
           NEW bps \in Nat, bps <= FEE_DENOMINATOR, SharePrice(nav, s) > mark
    PROVE  SharePrice(nav, s + PerfFeeShares(SharePrice(nav, s), mark, s, bps)) >= mark
<1> DEFINE P == PRICE_PRECISION
           D == FEE_DENOMINATOR
           p == SharePrice(nav, s)
           gain == s * (p - mark)
           v == (gain * bps) \div (P * D)
           f == (v * P) \div p
<1>1. P \in Nat /\ P > 0 /\ D \in Nat /\ D > 0 /\ P * D \in Nat /\ P * D > 0
    BY MathAssumption
<1>2. p \in Nat /\ p > mark /\ p - mark \in Nat
    <2>1. p \in Nat
        BY SharePriceNat
    <2> HIDE DEF p
    <2> QED BY <2>1 DEF p
<1>3. nav > 0 => p * s <= nav * P
    BY SharePriceFits
<1>4. PerfFeeShares(p, mark, s, bps) = f
    <2> HIDE DEF p
    <2>1. AtLeastOne(p) = p
        BY <1>2 DEF AtLeastOne
    <2> QED BY <2>1 DEF PerfFeeShares, FeeShares
<1>5. nav = 0 => SharePrice(nav, s + f) = p
    BY DEF SharePrice
<1> HIDE DEF p
<1>6. gain \in Nat /\ mark * s + gain = p * s
    BY <1>2
<1> HIDE DEF gain, P, D
<1>7. gain * bps \in Nat
    BY <1>6, ProductNat
<1>8. v \in Nat /\ v * (P * D) <= gain * bps
    BY <1>1, <1>7, DivBounds
<1> HIDE DEF v
<1>9. f \in Nat /\ f * p <= v * P
    <2>1. v * P \in Nat
        BY <1>1, <1>8, ProductNat
    <2> QED BY <1>2, <2>1, DivBounds
<1> HIDE DEF f
<1>10. v * P <= gain
    <2>1. bps * gain <= D * gain
        BY <1>1, <1>6, MulMono DEF D
    <2>2. (v * P) * D <= gain * D
        BY <1>1, <1>6, <1>7, <1>8, <2>1
    <2>3. (v * P) * D < (gain + 1) * D
        BY <1>1, <1>6, <1>8, <2>2
    <2>4. v * P < gain + 1
        BY <1>1, <1>6, <1>8, <2>3, MulMonoStrict
    <2> QED BY <1>1, <1>6, <1>8, <2>4
<1>11. mark * (s + f) <= p * s
    <2>1. mark * f <= p * f
        BY <1>2, <1>9, MulMono
    <2> QED BY <1>1, <1>2, <1>6, <1>8, <1>9, <1>10, <2>1
<1>12. SharePrice(nav, s + f) >= mark
    <2>1. CASE nav = 0
        BY <1>2, <1>5, <2>1
    <2>2. CASE nav > 0
        <3>1. s + f \in Nat /\ s + f > 0 /\ mark * (s + f) <= nav * PRICE_PRECISION
            BY <1>1, <1>2, <1>3, <1>9, <1>11, <2>2 DEF P
        <3>2. mark <= SharePrice(nav, s + f)
            BY <2>2, <3>1, SharePriceAtLeast
        <3>3. SharePrice(nav, s + f) \in Nat
            BY <3>1, SharePriceNat
        <3> QED BY <3>2, <3>3
    <2> QED BY <2>1, <2>2
<1> QED BY <1>4, <1>12 DEF p

\* Of one step.
LEMMA FeeLeavesGain ==
    ASSUME VaultInv, [Next]_vars
    PROVE  MarkKept
<1> SUFFICES ASSUME feesMinted'.perf > feesMinted.perf
             PROVE  SharePrice(Nav, supply + FeesOf' - FeesOf) >= highWaterMark
    BY DEF MarkKept
<1> DEFINE s == supply + Accrued.mgmt
           p == SharePrice(Nav, s)
<1>1. CollectFees
    <2>1. feesMinted.perf \in Nat
        BY DEF VaultInv, TypeOK
    <2>2. Deposits \/ Withdrawals
        BY <2>1, OthersMintNothing
    <2> QED BY <2>2 DEF Deposits, Withdrawals, Deposit, Withdraw
<1>2. /\ feesMinted'.perf = feesMinted.perf + Accrued.perf
      /\ FeesOf \in Nat /\ FeesOf' = FeesOf + FeeTotal(Accrued)
    BY <1>1, CollectKeeps
<1>3. /\ Accrued.mgmt \in Nat /\ Accrued.perf \in Nat
      /\ FeeTotal(Accrued) = Accrued.mgmt + Accrued.perf
    BY AccruedBounds
<1>4. /\ feesMinted.perf \in Nat /\ supply \in Nat /\ highWaterMark \in Nat /\ Nav \in Nat
      /\ fees["perf"] \in Nat /\ fees["perf"] <= FEE_DENOMINATOR
    <2>1. "perf" \in FeeKinds
        BY DEF FeeKinds
    <2>2. fees["perf"] \in Nat /\ fees["perf"] <= FeeCap["perf"]
          /\ FeeCap["perf"] \in Nat /\ FeeCap["perf"] <= FEE_DENOMINATOR
        BY <2>1, FeeAssumption, VaultAssumption
           DEF VaultInv, TypeOK, FeeTypeOK, FeesWithinCaps, WithinCaps
    <2>3. fees["perf"] <= FEE_DENOMINATOR
        BY <2>2, MathAssumption
    <2> QED BY <2>2, <2>3, NavNat DEF VaultInv, TypeOK
<1>5. Accrued.perf > 0
    BY <1>2, <1>3, <1>4
<1>6. /\ supply > 0 /\ p > highWaterMark /\ highWaterMark > 0
      /\ Accrued.perf = PerfFeeShares(p, highWaterMark, s, fees["perf"])
    <2>1. Accrued.perf = IF supply > 0 /\ fees["perf"] > 0 /\ p > highWaterMark
                            /\ highWaterMark > 0
                         THEN PerfFeeShares(p, highWaterMark, s, fees["perf"])
                         ELSE 0
        BY DEF Accrued
    <2> HIDE DEF p, s
    <2> QED BY <1>5, <2>1
<1>7. s \in Nat /\ s > 0
    BY <1>3, <1>4, <1>6
<1>8. supply + FeesOf' - FeesOf = s + Accrued.perf
    BY <1>2, <1>3, <1>4
<1> HIDE DEF s
<1>9. SharePrice(Nav, s + Accrued.perf) >= highWaterMark
    BY <1>4, <1>6, <1>7, FeeLeavesMark
<1> QED BY <1>8, <1>9

\* The performance fee of a call leaves the shares worth at least the mark it
\* was charged above.
THEOREM PerformanceFeeLeavesGain == Spec => PerfFeeLeavesGain
<1>1. VaultInv /\ [Next]_vars => [MarkKept]_vars
    BY FeeLeavesGain
<1> QED BY <1>1, VaultInvariant, PTL DEF Spec, PerfFeeLeavesGain

\* Of one step, only a withdrawal pays out, and it burns what it pays for.
LEMMA RedemptionPays ==
    ASSUME VaultInv, [Next]_vars
    PROVE  PaidOut > 0 => Redeemed
<1> DEFINE out    == cash + pool - cash' - pool'
           minted == FeesOf' - FeesOf
           burned == supply + minted - supply'
           Priced == burned > 0 /\ out <= BaseGross(burned, SharePrice(Nav, supply + minted))
           Leaves == out > 0 => Priced
<1>1. Leaves
    <2>0. cash \in Nat /\ pool \in Nat /\ position \in [Strategies -> Nat]
        BY DEF VaultInv, TypeOK
    <2>1. ASSUME NEW a \in Accounts, NEW n \in Amounts, Withdraw(a, n)
          PROVE  Leaves
        <3> DEFINE fee == FeeTotal(Accrued)
                   s   == supply + fee
                   gross == BaseGross(n, SharePrice(Nav, s))
                   net   == BaseNet(gross, fees["exit"])
        <3>1. /\ n \in Nat /\ n > 0 /\ s \in Nat /\ net \in Nat
              /\ cash' \in Nat /\ pool' \in Nat /\ cash' + pool' + net = cash + pool
            BY <2>1, WithdrawPays
        <3>2. gross \in Nat /\ net <= gross
            BY <3>1, WithdrawNumbers
        <3>3. FeesOf \in Nat /\ FeesOf' = FeesOf + fee /\ fee \in Nat /\ supply \in Nat
            <4>1. CollectFees
                BY <2>1 DEF Withdraw
            <4> QED BY <4>1, CollectKeeps, AccruedBounds DEF VaultInv, TypeOK
        <3>4. supply' = s - n
            BY <2>1 DEF Withdraw
        <3> HIDE DEF fee, net
        <3>5. minted = fee /\ supply + minted = s
            BY <3>3
        <3>6. burned = n
            BY <3>1, <3>3, <3>4
        <3>7. out = net
            <4>1. PICK c \in Int, p \in Int : c = cash' /\ p = pool'
                BY <3>1
            <4>2. c + p + net = cash + pool /\ out = cash + pool - c - p
                BY <3>1, <4>1
            <4> HIDE DEF out
            <4> QED BY <2>0, <3>1, <4>2
        <3> HIDE DEF out, minted, burned
        <3> QED BY <3>1, <3>2, <3>5, <3>6, <3>7
    <2>2. ASSUME cash' + pool' >= cash + pool, cash' \in Int, pool' \in Int
          PROVE  Leaves
        <3>1. PICK c \in Int, p \in Int : c = cash' /\ p = pool'
            BY <2>2
        <3>2. c + p >= cash + pool /\ out = cash + pool - c - p
            BY <2>2, <3>1
        <3> HIDE DEF out, Priced
        <3> QED BY <2>0, <3>2
    <2>3. CASE Deposits
        <3>1. \E n \in Nat : cash' = cash + n /\ pool' = pool
            BY <2>3, VaultAssumption DEF Deposits, Deposit, strategyVars
        <3> HIDE DEF Leaves
        <3> QED BY <2>0, <2>2, <3>1
    <2>4. CASE Investments \/ Unwindings
        <3>1. \E n \in Int : \/ cash' = cash - n /\ pool' = pool + n
                             \/ cash' = cash + n /\ pool' = pool - n
            BY <2>4, VaultAssumption
               DEF Investments, Invest, Unwindings, Unwind, BlendDeposit, MayUnwind, Withdrawable
        <3> HIDE DEF Leaves
        <3> QED BY <2>0, <2>2, <3>1
    <2>5. CASE Environment
        <3>1. ASSUME NEW n \in Amounts, Donate(n) \/ AddYield(n)
              PROVE  cash' \in Int /\ pool' \in Int /\ cash' + pool' >= cash + pool
            BY <2>0, <3>1, VaultAssumption DEF Donate, AddYield, strategyVars
        <3>2. ASSUME NEW s \in Strategies, NEW p \in Prices, PublishPrice(s, p)
              PROVE  cash' \in Int /\ pool' \in Int /\ cash' + pool' >= cash + pool
            BY <2>0, <3>2 DEF PublishPrice, strategyVars
        <3>3. cash' \in Int /\ pool' \in Int /\ cash' + pool' >= cash + pool
            BY <2>5, <3>1, <3>2 DEF Environment
        <3> HIDE DEF Leaves
        <3> QED BY <2>2, <3>3
    <2>6. ASSUME cash' = cash, pool' = pool
          PROVE  Leaves
        BY <2>0, <2>2, <2>6
    <2> HIDE DEF Leaves
    <2>7. CASE ListCall \/ ConfigCall \/ AccessCall \/ MemberAdditions \/ MemberRemovals
        BY <2>6, <2>7
           DEF ListCall, SetStrategies, SetLpStrategy, SetOracle, SetStrategyOracleToken,
               ConfigCall, AccessCall, Configure, Pause, Unpause, SetDepositCap, SetMaxLossBps,
               SetMaxConcentrationBps, SetPrivatePool, SetValueGuardEnabled,
               SetExitCooldownSecs, MemberAdditions, AddMember, MemberRemovals, RemoveMember,
               strategyVars
    <2>8. CASE HolderCall \/ StrategyCall \/ RoleAndFeeCall \/ Time \/ UNCHANGED vars
        BY <2>6, <2>8
           DEF HolderCall, TransferShares, BurnShares, StrategyCall, SyncPosition,
               SetStrategyPaused, RoleAndFeeCall, Time, vaultVars, vars, strategyVars
    <2> QED BY <2>1, <2>3, <2>4, <2>5, <2>7, <2>8 DEF Next, AccountingNext, Withdrawals
<1> QED BY <1>1 DEF PaidOut, Redeemed

\* Invested in this repository's Blend strategies only, base asset leaves the
\* vault and its pool against burned shares only, and for no more than their
\* price.
THEOREM OnlyRedemptionsPay == Spec => FundsLeaveOnlyByRedemption
<1>1. VaultInv /\ [Next]_vars => [PaidOut > 0 => Redeemed]_vars
    BY RedemptionPays
<1> QED BY <1>1, VaultInvariant, PTL DEF Spec, FundsLeaveOnlyByRedemption

\* Base asset and positions move together only by an investment, an unwinding
\* or a withdrawal.
LEMMA OthersMoveNothing ==
    ASSUME [Next]_vars, ~Investments, ~Unwindings, ~Withdrawals
    PROVE  cash' = cash \/ position' = position
BY DEF Next, AccountingNext, Deposits, Deposit, ListCall, SetStrategies,
       SetLpStrategy, SetOracle, SetStrategyOracleToken, ConfigCall, AccessCall, Configure, Pause,
       Unpause, SetDepositCap, SetMaxLossBps, SetMaxConcentrationBps, SetPrivatePool,
       SetValueGuardEnabled, SetExitCooldownSecs, MemberAdditions, AddMember, MemberRemovals,
       RemoveMember, HolderCall, TransferShares, BurnShares, StrategyCall, SyncPosition,
       SetStrategyPaused, Environment, Donate, AddYield, PublishPrice, RoleAndFeeCall, Time,
       strategyVars, vaultVars, vars

\* What the post-execution NAV guard lets pass has lost no more than the
\* tolerated part.
LEMMA MinNavKept ==
    ASSUME NEW before \in Nat, NEW after \in Nat, NEW bps \in Nat, bps <= FEE_DENOMINATOR,
           after >= MinNav(before, bps)
    PROVE  before * (FEE_DENOMINATOR - bps) <= after * FEE_DENOMINATOR
<1> DEFINE D == FEE_DENOMINATOR
           lost == (before * bps) \div D
<1>1. D \in Nat /\ D > 0 /\ before * bps \in Nat
    BY MathAssumption, ProductNat
<1>2. lost \in Nat /\ lost * D <= before * bps
    BY <1>1, DivBounds
<1>3. after >= before - lost
    BY DEF MinNav
<1> HIDE DEF lost, D
<1>4. before * D <= after * D + lost * D
    <2>1. before <= after + lost
        BY <1>2, <1>3
    <2>2. before * D <= (after + lost) * D
        BY <1>1, <1>2, <2>1, MulMono
    <2> QED BY <1>1, <1>2, <2>2
<1>5. before * (D - bps) = before * D - before * bps
    BY <1>1
<1> DEFINE x == before * D
           y == after * D
           z == lost * D
           w == before * bps
<1>6. x \in Nat /\ y \in Nat /\ z \in Nat /\ w \in Nat
    BY <1>1, <1>2, ProductNat
<1>7. x - w <= y
    <2> HIDE DEF x, y, z, w
    <2>1. x <= y + z /\ z <= w
        BY <1>2, <1>4 DEF x, y, z, w
    <2> QED BY <1>6, <2>1
<1> QED BY <1>5, <1>7 DEF D

\* What the concentration guard lets pass is less than one basis point over the
\* limit.
LEMMA ConcentrationKept ==
    ASSUME NEW v \in Nat, NEW nav \in Nat, nav > 0, NEW bps \in Nat,
           ConcentrationBps(v, nav) <= bps
    PROVE  v * FEE_DENOMINATOR < (bps + 1) * nav
<1> DEFINE d == (v * FEE_DENOMINATOR) \div nav
           x == v * FEE_DENOMINATOR
<1>1. x \in Nat
    BY MathAssumption, ProductNat
<1>2. d \in Nat /\ x < d * nav + nav
    BY <1>1, DivBounds
<1>3. d <= bps
    BY DEF ConcentrationBps
<1> HIDE DEF d, x
<1>4. d * nav <= bps * nav
    BY <1>2, <1>3, MulMono
<1>5. (bps + 1) * nav = bps * nav + nav
    OBVIOUS
<1>6. d * nav \in Nat /\ bps * nav \in Nat
    BY <1>2, ProductNat
<1> QED BY <1>1, <1>2, <1>4, <1>5, <1>6 DEF x

\* The limits that an investment or an unwinding leaves behind.
LEMMA MoveLimits ==
    ASSUME VaultInv, NEW c \in Managers, NEW s \in Strategies, NEW n \in Amounts,
           Invest(c, s, n) \/ Unwind(c, s, n)
    PROVE  /\ config.max_loss_bps > 0 =>
                  Nav * (FEE_DENOMINATOR - config.max_loss_bps) <= Nav' * FEE_DENOMINATOR
           /\ config.max_concentration_bps > 0 /\ cash' < cash /\ Nav' > 0 =>
                  /\ position'[s] > position[s]
                  /\ StrategyValue(s, position'[s]) * FEE_DENOMINATOR
                         < (config.max_concentration_bps + 1) * Nav'
<1>0. TypeOK /\ TypeOK'
    BY MoveKeeps DEF VaultInv
<1>1. /\ Nav \in Nat /\ Nav' \in Nat /\ Nav' = NavOf(cash', position')
      /\ cash \in Nat /\ position \in [Strategies -> Nat] /\ position' \in [Strategies -> Nat]
      /\ config.max_loss_bps \in 0 .. FEE_DENOMINATOR
      /\ config.max_concentration_bps \in 0 .. FEE_DENOMINATOR /\ FEE_DENOMINATOR \in Nat
      /\ n \in Nat /\ n > 0
    <2>1. Nav \in Nat
        BY <1>0, NavNat
    <2>2. Nav' = NavOf(cash', position')
        BY NavFollows DEF Invest, Unwind
    <2>3. cash' \in Nat /\ position' \in [Strategies -> Nat]
        BY <1>0 DEF TypeOK
    <2>4. NavOf(cash', position') \in Nat
        BY <1>0, <2>3, NavBounds
    <2>5. n \in Nat /\ n > 0
        BY VaultAssumption DEF Invest, Unwind, MayUnwind
    <2> QED BY <1>0, <2>1, <2>2, <2>3, <2>4, <2>5, MathAssumption DEF TypeOK, ConfigType
<1>2. ASSUME config.max_loss_bps > 0
      PROVE  Nav * (FEE_DENOMINATOR - config.max_loss_bps) <= Nav' * FEE_DENOMINATOR
    <2>1. Nav' >= MinNav(Nav, config.max_loss_bps)
        BY <1>1, <1>2 DEF Invest, Unwind, MayUnwind, NavAfterUnwind
    <2>2. config.max_loss_bps \in Nat /\ config.max_loss_bps <= FEE_DENOMINATOR
        BY <1>1
    <2> QED BY <1>1, <2>1, <2>2, MinNavKept
<1>3. ASSUME config.max_concentration_bps > 0, cash' < cash, Nav' > 0
      PROVE  /\ position'[s] > position[s]
             /\ StrategyValue(s, position'[s]) * FEE_DENOMINATOR
                    < (config.max_concentration_bps + 1) * Nav'
    <2>1. Invest(c, s, n)
        BY <1>1, <1>3 DEF Unwind, MayUnwind, Withdrawable
    <2>2. position'[s] > position[s]
        BY <1>1, <2>1 DEF Invest, BlendDeposit, Credit
    <2>3. ConcentrationBps(StrategyValue(s, position'[s]), Nav') <= config.max_concentration_bps
        BY <1>1, <1>3, <2>1 DEF Invest
    <2>4. StrategyValue(s, position'[s]) \in Nat /\ config.max_concentration_bps \in Nat
        BY <1>0, <1>1, StrategyValueNat
    <2> QED BY <1>1, <1>3, <2>2, <2>3, <2>4, ConcentrationKept
<1> QED BY <1>2, <1>3

\* No investment or unwinding loses more of the NAV than is tolerated, or puts
\* more of it in one strategy, whatever the prices and the list.
THEOREM MovesKeepLimits == Spec => MovesAreLimited
<1> DEFINE Limited ==
        Moved =>
        /\ config.max_loss_bps > 0 =>
               Nav * (FEE_DENOMINATOR - config.max_loss_bps) <= Nav' * FEE_DENOMINATOR
        /\ config.max_concentration_bps > 0 /\ cash' < cash /\ Nav' > 0 =>
               \E s \in Strategies :
                   /\ position'[s] > position[s]
                   /\ StrategyValue(s, position'[s]) * FEE_DENOMINATOR
                          < (config.max_concentration_bps + 1) * Nav'
<1>1. ASSUME VaultInv, [Next]_vars
      PROVE  Limited
    <2>1. CASE Investments \/ Unwindings
        BY <1>1, <2>1, MoveLimits DEF Investments, Unwindings
    <2>2. CASE Withdrawals
        <3>1. PICK a \in Accounts, n \in Amounts : Withdraw(a, n)
            BY <2>2 DEF Withdrawals
        <3>2. n \in Nat /\ n > 0 /\ supply \in Nat
            BY <1>1, <3>1, WithdrawPays DEF VaultInv, TypeOK
        <3>3. supply' = (supply + FeeTotal(Accrued)) - n /\ CollectFees
            BY <3>1 DEF Withdraw
        <3>4. /\ FeesOf \in Nat /\ FeesOf' = FeesOf + FeeTotal(Accrued)
              /\ FeeTotal(Accrued) \in Nat
            BY <1>1, <3>3, CollectKeeps, AccruedBounds
        <3>5. ~Moved
            <4> SUFFICES ASSUME supply' = supply, feesMinted' = feesMinted PROVE FALSE
                BY DEF Moved
            <4>1. FeesOf' = FeesOf
                BY DEF FeesOf, FeeTotal
            <4>2. FeeTotal(Accrued) = 0
                BY <3>4, <4>1
            <4> QED BY <3>2, <3>3, <4>2
        <3> QED BY <3>5
    <2>3. CASE ~Investments /\ ~Unwindings /\ ~Withdrawals
        BY <1>1, <2>3, OthersMoveNothing DEF Moved
    <2> QED BY <2>1, <2>2, <2>3
<1>2. VaultInv /\ [Next]_vars => [Limited]_vars
    BY <1>1
<1> QED BY <1>2, VaultInvariant, PTL DEF Spec, MovesAreLimited

-----------------------------------------------------------------------------
(* Shares are dealt in at their price *)

\* What a deposit brings and what it is issued for it: at the price after the
\* fee shares, the new shares, entry fee included, are worth no more than what
\* was paid.
LEMMA DepositSells ==
    ASSUME VaultInv, NEW from \in Accounts, NEW amount \in Amounts, Deposit(from, amount)
    PROVE  LET fee == FeeTotal(Accrued)
           IN  /\ fee \in Nat /\ (supply = 0 => fee = 0)
               /\ FeesOf \in Nat /\ FeesOf' = FeesOf + fee
               /\ amount \in Nat /\ amount > 0
               /\ cash' = cash + amount /\ position' = position /\ strategies' = strategies
               /\ \E n \in Nat :
                     /\ n > 0 /\ supply' = (supply + fee) + n
                     /\ n * SharePrice(Nav, supply + fee) <= amount * PRICE_PRECISION
<1> DEFINE fee   == FeeTotal(Accrued)
           s     == supply + fee
           total == DepositShares(amount, SharePrice(Nav, s), s)
           entry == EntryFeeShares(total, fees["entry"])
<1>1. amount \in Nat /\ amount > 0
    BY VaultAssumption DEF Deposit
<1>2. fee \in Nat /\ s \in Nat /\ (supply = 0 => fee = 0)
    <2>1. fee \in Nat /\ (supply = 0 => fee = 0)
        BY AccruedBounds
    <2>2. supply \in Nat
        BY DEF VaultInv, TypeOK
    <2> HIDE DEF fee
    <2> QED BY <2>1, <2>2
<1>3. /\ total \in Nat /\ entry \in Nat /\ entry <= total
      /\ total * SharePrice(Nav, s) <= amount * PRICE_PRECISION
    BY <1>1, <1>2, DepositNumbers
<1>4. /\ CollectFees /\ total - entry > 0
      /\ supply' = s + total /\ cash' = cash + amount
      /\ position' = position /\ strategies' = strategies
    BY DEF Deposit, strategyVars, listVars
<1>5. FeesOf \in Nat /\ FeesOf' = FeesOf + fee
    BY <1>4, CollectKeeps
<1>6. total > 0
    <2> HIDE DEF total, entry
    <2> QED BY <1>3, <1>4
<1> HIDE DEF total, fee
<1> QED BY <1>1, <1>2, <1>3, <1>4, <1>5, <1>6 DEF fee

\* What a withdrawal takes and what it redeems for it: what is paid is worth no
\* more than the shares, at the price after the fee shares.
LEMMA WithdrawBuys ==
    ASSUME VaultInv, NEW from \in Accounts, NEW amount \in Amounts, Withdraw(from, amount)
    PROVE  LET fee == FeeTotal(Accrued)
           IN  /\ fee \in Nat /\ FeesOf \in Nat /\ FeesOf' = FeesOf + fee
               /\ amount \in Nat /\ amount > 0 /\ amount <= supply
               /\ supply' = (supply + fee) - amount /\ strategies' = strategies
               /\ \E paid \in Nat :
                     /\ paid > 0
                     /\ paid * PRICE_PRECISION <= amount * SharePrice(Nav, supply + fee)
                     /\ \A B \in {Strategies, Listed} :
                           /\ SumFunctionOnSet(position, B) \in Nat
                           /\ SumFunctionOnSet(position', B) \in Nat
                           /\ cash' + SumFunctionOnSet(position', B) + paid
                                 = cash + SumFunctionOnSet(position, B)
<1> DEFINE fee   == FeeTotal(Accrued)
           s     == supply + fee
           p     == SharePrice(Nav, s)
           gross == BaseGross(amount, p)
           net   == BaseNet(gross, fees["exit"])
<1>1. /\ amount \in Nat /\ amount > 0 /\ s \in Nat /\ amount <= shares[from]
      /\ net \in Nat /\ net > 0
      /\ \A B \in {Strategies, Listed} :
            /\ SumFunctionOnSet(position, B) \in Nat
            /\ SumFunctionOnSet(position', B) \in Nat
            /\ cash' + SumFunctionOnSet(position', B) + net = cash + SumFunctionOnSet(position, B)
    BY WithdrawPays
<1>2. gross \in Nat /\ net <= gross
    BY <1>1, WithdrawNumbers
<1>3. gross * PRICE_PRECISION <= amount * p
    <2>1. p \in Nat
        BY <1>1, NavNat, SharePriceNat DEF VaultInv
    <2> HIDE DEF p
    <2> QED BY <1>1, <2>1, BaseGrossFair
<1>4. amount <= supply
    <2>1. shares \in [Accounts -> Nat] /\ supply = SumFunction(shares) /\ supply \in Nat
        BY DEF VaultInv, TypeOK, SharesAccounted
    <2>2. shares[from] <= supply /\ shares[from] \in Nat
        BY <2>1, AreFinite, SumOfNat
    <2> QED BY <1>1, <2>1, <2>2
<1>5. CollectFees /\ supply' = s - amount /\ strategies' = strategies
    BY DEF Withdraw, listVars
<1>6. fee \in Nat /\ FeesOf \in Nat /\ FeesOf' = FeesOf + fee
    BY <1>5, CollectKeeps, AccruedBounds
<1>7. net * PRICE_PRECISION <= amount * p
    <2>1. PRICE_PRECISION \in Nat
        BY MathAssumption
    <2>2. p \in Nat
        BY <1>1, NavNat, SharePriceNat DEF VaultInv
    <2> DEFINE x == net * PRICE_PRECISION
               y == gross * PRICE_PRECISION
               z == amount * p
    <2> HIDE DEF net, gross, p
    <2>3. x <= y
        BY <1>1, <1>2, <2>1, MulMono
    <2>4. x \in Nat /\ y \in Nat /\ z \in Nat /\ y <= z
        BY <1>1, <1>2, <1>3, <2>1, <2>2, ProductNat
    <2> HIDE DEF x, y, z
    <2>5. x <= z
        BY <2>3, <2>4
    <2> QED BY <2>5 DEF x, z
<1> HIDE DEF net, p, fee
<1> QED BY <1>1, <1>4, <1>5, <1>6, <1>7 DEF fee, p

\* Every other call: base asset is given to the vault or nothing moves, shares
\* are burned, base asset moves between the vault and a listed position, or a
\* position is reported.
LEMMA OtherCalls ==
    ASSUME VaultInv, [Next]_vars, ~Deposits, ~Withdrawals
    PROVE  /\ FeesOf' = FeesOf
           /\ \/ position' = position /\ supply' = supply /\ cash <= cash'
              \/ /\ UNCHANGED <<cash, position, lpVars, listVars>>
                 /\ \E n \in Nat : n <= supply /\ supply' = supply - n
              \/ /\ UNCHANGED <<supply, lpVars, listVars>>
                 /\ \A B \in {Strategies, Listed} :
                       cash' + SumFunctionOnSet(position', B) = cash + SumFunctionOnSet(position, B)
              \/ Reported /\ "sync" \in Calls /\ UNCHANGED <<supply, lpVars, listVars>>
<1> DEFINE Given    == position' = position /\ supply' = supply /\ cash <= cash'
           Burned   == /\ UNCHANGED <<cash, position, lpVars, listVars>>
                       /\ \E n \in Nat : n <= supply /\ supply' = supply - n
           Shifted  == /\ UNCHANGED <<supply, lpVars, listVars>>
                       /\ \A B \in {Strategies, Listed} :
                             cash' + SumFunctionOnSet(position', B)
                                 = cash + SumFunctionOnSet(position, B)
           Synced   == Reported /\ "sync" \in Calls /\ UNCHANGED <<supply, lpVars, listVars>>
<1>0. /\ cash \in Nat /\ supply \in Nat /\ position \in [Strategies -> Nat]
      /\ Listed \subseteq Strategies /\ Amounts \subseteq Int
    BY ListedAre, VaultAssumption DEF VaultInv, TypeOK
<1>1. FeesOf' = FeesOf
    BY OthersMintNothing DEF FeesOf
<1>2. ASSUME UNCHANGED <<cash, position, supply>>
      PROVE  Given
    BY <1>0, <1>2
<1>3. CASE Investments \/ Unwindings
    <2>1. PICK s \in Listed, k \in Int :
              /\ cash' = cash - k /\ position' = Credit(position, s, k)
              /\ UNCHANGED <<supply, lpVars, listVars>>
        BY <1>0, <1>3
           DEF Investments, Invest, Unwindings, Unwind, BlendDeposit, MayUnwind,
               Withdrawable, tokenVars
    <2>2. /\ position \in [Strategies -> Int] /\ position' \in [Strategies -> Int]
          /\ \A r \in Strategies \ {s} : position[r] = position'[r]
          /\ position'[s] = position[s] + k /\ position[s] \in Int
        BY <1>0, <2>1 DEF Credit
    <2>3. ASSUME NEW B \in {Strategies, Listed}
          PROVE  cash' + SumFunctionOnSet(position', B) = cash + SumFunctionOnSet(position, B)
        <3> DEFINE x == SumFunctionOnSet(position, B)
                   y == SumFunctionOnSet(position', B)
        <3>1. B \in SUBSET Strategies /\ s \in B /\ s \in Strategies
            BY <1>0
        <3>2. x \in Int /\ y \in Int /\ y = x - position[s] + position'[s]
            BY <2>2, <3>1, AreFinite, SumOnSetChanged
        <3> HIDE DEF x, y
        <3>3. cash' + y = cash + x
            BY <1>0, <2>1, <2>2, <3>2
        <3> QED BY <3>3 DEF x, y
    <2>4. Shifted
        BY <2>1, <2>3
    <2> HIDE DEF Given, Burned, Shifted, Synced
    <2> QED BY <1>1, <2>4 DEF Given, Burned, Shifted, Synced
<1>4. CASE HolderCall
    <2>1. ASSUME NEW a \in Accounts, NEW n \in Amounts, BurnShares(a, n)
          PROVE  Burned
        <3>1. n \in Int /\ n > 0 /\ n <= shares[a]
            BY <1>0, <2>1 DEF BurnShares
        <3>2. shares \in [Accounts -> Nat] /\ supply = SumFunction(shares)
            BY DEF VaultInv, TypeOK, SharesAccounted
        <3>3. shares[a] <= supply /\ shares[a] \in Nat
            BY <3>2, AreFinite, SumOfNat
        <3>4. n \in Nat /\ n <= supply /\ supply' = supply - n
            BY <1>0, <2>1, <3>1, <3>3 DEF BurnShares
        <3> QED BY <2>1, <3>4 DEF BurnShares, strategyVars
    <2>2. ASSUME NEW a \in Accounts, NEW b \in Accounts, NEW n \in Amounts,
                 TransferShares(a, b, n)
          PROVE  Given
        BY <1>0, <2>2 DEF TransferShares, strategyVars
    <2>3. Burned \/ Given
        <3> HIDE DEF Burned, Given
        <3> QED BY <1>4, <2>1, <2>2 DEF HolderCall
    <2> HIDE DEF Given, Burned, Shifted, Synced
    <2> QED BY <1>1, <2>3 DEF Given, Burned, Shifted, Synced
<1>5. CASE StrategyCall
    <2>1. \/ UNCHANGED <<cash, position, supply>>
          \/ "sync" \in Calls /\ cash' = cash /\ UNCHANGED <<supply, lpVars, listVars>>
        BY <1>5 DEF StrategyCall, SyncPosition, SetStrategyPaused, tokenVars
    <2>2. Given \/ Synced
        BY <1>0, <2>1 DEF Reported
    <2> HIDE DEF Given, Burned, Shifted, Synced
    <2> QED BY <1>1, <2>2 DEF Given, Burned, Shifted, Synced
<1>6. CASE Environment
    <2>1. Given
        BY <1>0, <1>6 DEF Environment, Donate, AddYield, PublishPrice, tokenVars, strategyVars
    <2> QED BY <1>1, <2>1
<1>7. CASE ListCall \/ ConfigCall \/ AccessCall \/ MemberAdditions \/ MemberRemovals
    <2>1. UNCHANGED <<cash, position, supply>>
        BY <1>7
           DEF ListCall, SetStrategies, SetLpStrategy, SetOracle, SetStrategyOracleToken,
               ConfigCall, AccessCall, Configure, Pause, Unpause, SetDepositCap, SetMaxLossBps,
               SetMaxConcentrationBps, SetPrivatePool, SetValueGuardEnabled,
               SetExitCooldownSecs, MemberAdditions, AddMember, MemberRemovals, RemoveMember,
               tokenVars, strategyVars
    <2> QED BY <1>1, <1>2, <2>1
<1>8. CASE RoleAndFeeCall \/ Time \/ UNCHANGED vars
    <2>1. UNCHANGED <<cash, position, supply>>
        BY <1>8 DEF RoleAndFeeCall, Time, vars, vaultVars, tokenVars, strategyVars
    <2> QED BY <1>1, <1>2, <2>1
<1> QED BY <1>3, <1>4, <1>5, <1>6, <1>7, <1>8 DEF Next, AccountingNext

\* All positions together are those of a function on a finite set.
LEMMA PrincipalIs ==
    ASSUME TypeOK
    PROVE  /\ Principal = cash + SumFunctionOnSet(position, Strategies)
           /\ SumFunctionOnSet(position, Strategies) \in Nat
<1>1. position \in [Strategies -> Nat]
    BY DEF TypeOK
<1>2. SumFunction(position) = SumFunctionOnSet(position, Strategies)
    BY <1>1, Zenon DEF SumFunction
<1>3. SumFunctionOnSet(position, Strategies) \in Nat
    BY <1>1, AreFinite, SumType
<1> QED BY <1>2, <1>3 DEF Principal

\* A withdrawal lowers the net asset value by no more than it pays, while no
\* position counts for more than its units: the units it takes back come in
\* for at least what they counted for.
LEMMA WithdrawLowersNav ==
    ASSUME VaultInv, VaultInv', NEW from \in Accounts, NEW amount \in Amounts,
           Withdraw(from, amount), \A s \in Listed : CountedAtMostPar(s)
    PROVE  \E paid \in Nat :
              /\ paid > 0 /\ Nav <= Nav' + paid
              /\ paid * PRICE_PRECISION <= amount * SharePrice(Nav, supply + FeeTotal(Accrued))
<1> DEFINE fee == FeeTotal(Accrued)
           D == DOMAIN strategies
           left == position'
           f == [i \in D |-> StrategyValue(strategies[i], GetValue(strategies[i], position))]
           g == [i \in D |-> StrategyValue(strategies[i], GetValue(strategies[i], left))]
           h == [i \in D |-> position[strategies[i]]]
           k == [i \in D |-> left[strategies[i]]]
           x == SumFunctionOnSet(position, Listed)
           y == SumFunctionOnSet(left, Listed)
           c == cash'
           v == Nav'
<1>1. PICK paid \in Nat : /\ paid > 0
                         /\ paid * PRICE_PRECISION <= amount * SharePrice(Nav, supply + fee)
                         /\ x \in Nat /\ y \in Nat /\ c + y + paid = cash + x
    BY WithdrawBuys
<1>2. /\ TypeOK /\ cash \in Nat /\ c \in Nat /\ position \in [Strategies -> Nat]
      /\ left \in [Strategies -> Nat] /\ \A r \in Strategies : left[r] <= position[r]
    BY WithdrawPays DEF VaultInv, TypeOK
<1>3. v = NavOf(c, left)
    <2>1. UNCHANGED <<lpVars, listVars>>
        BY DEF Withdraw
    <2> QED BY <2>1, NavFollows
<1> HIDE DEF fee, left, c, v
<1>4. f \in [D -> Nat] /\ g \in [D -> Nat] /\ h \in [D -> Nat] /\ k \in [D -> Nat]
    BY <1>2, ListedAre, GetValueNat, StrategyValueNat
<1>5. ASSUME NEW i \in D
      PROVE  f[i] + k[i] <= g[i] + h[i]
    <2> DEFINE s == strategies[i]
               a == position[s]
               b == left[s]
    <2>1. s \in Strategies /\ s \in Listed /\ CountedAtMostPar(s)
        BY <1>2, ListedAre
    <2>2. a \in Nat /\ b \in Nat /\ b <= a /\ price[s] \in Nat
        BY <1>2, <2>1 DEF TypeOK
    <2>3. CASE s = PairStrategy
        <3>1. f[i] = g[i] /\ g[i] \in Nat
            BY <1>4, <2>3 DEF GetValue
        <3>2. h[i] = a /\ k[i] = b
            OBVIOUS
        <3> HIDE DEF a, b, f, g, h, k
        <3> QED BY <2>2, <3>1, <3>2
    <2>4. CASE s # PairStrategy
        <3>1. f[i] = StrategyValue(s, a) /\ g[i] = StrategyValue(s, b) /\ h[i] = a /\ k[i] = b
            BY <2>4 DEF GetValue
        <3>2. StrategyValue(s, a) <= a
            BY <2>1 DEF CountedAtMostPar
        <3>3. StrategyValue(s, a) + b <= StrategyValue(s, b) + a
            <4> DEFINE Priced == s \notin lpFlagged /\ oracleSet /\ s \in priceTokens
                       p == price[s]
            <4>1. \A n \in Nat : StrategyValue(s, n) = IF n # 0 /\ Priced
                                                       THEN (n * p) \div PRICE_PRECISION ELSE n
                BY DEF StrategyValue
            <4>2. (0 * p) \div PRICE_PRECISION = 0
                <5>1. 0 * p = 0 /\ 0 \div PRICE_PRECISION = 0
                    BY <2>2, MathAssumption
                <5> QED BY <5>1
            <4> HIDE DEF s, a, b, p, Priced
            <4>3. CASE ~Priced
                BY <2>2, <4>1, <4>3
            <4>4. CASE Priced
                <5>1. /\ StrategyValue(s, a) = (a * p) \div PRICE_PRECISION
                      /\ StrategyValue(s, b) = (b * p) \div PRICE_PRECISION
                    BY <2>2, <4>1, <4>2, <4>4
                <5>2. p \in Nat
                    BY <2>2 DEF p
                <5> QED BY <2>2, <3>2, <5>1, <5>2, PartAtMostPar
            <4> QED BY <4>3, <4>4
        <3> HIDE DEF f, g, h, k, a, b
        <3> QED BY <3>1, <3>3
    <2> QED BY <2>3, <2>4
<1>6. IsFiniteSet(D)
    BY <1>2, ListedAre
<1>7. SumFunction(f) + SumFunction(k) <= SumFunction(g) + SumFunction(h)
    <2> HIDE DEF f, g, h, k, D
    <2> QED BY <1>4, <1>5, <1>6, SumsCompared
<1>8. ASSUME NEW pos \in [Strategies -> Nat]
      PROVE  SumFunction([i \in D |-> pos[strategies[i]]]) = SumFunctionOnSet(pos, Listed)
    <2> DEFINE n == Len(strategies)
    <2>1. /\ n \in Nat /\ D = 1 .. n /\ \A i \in 1 .. n : strategies[i] \in Strategies
          /\ Listed = {strategies[i] : i \in 1 .. n} /\ IsFiniteSet(Strategies)
        BY <1>2, ListedAre, AreFinite
    <2>2. \A i \in 1 .. n, j \in 1 .. n : strategies[i] = strategies[j] => i = j
        <3>1. \A i \in D : CountedAtMostPar(strategies[i])
            BY <1>2, ListedAre
        <3> QED BY <2>1, <3>1 DEF CountedAtMostPar
    <2> HIDE DEF n, D
    <2>3. SumFunction([i \in 1 .. n |-> pos[strategies[i]]])
              = SumFunctionOnSet(pos, {strategies[i] : i \in 1 .. n})
        BY <2>1, <2>2, SumAlongList
    <2> QED BY <2>1, <2>3
<1>9. SumFunction(h) = x /\ SumFunction(k) = y
    BY <1>2, <1>8
<1>10. Nav = cash + SumFunction(f) /\ v = c + SumFunction(g)
    BY <1>3 DEF Nav, NavOf
<1>11. /\ SumFunction(f) \in Nat /\ SumFunction(g) \in Nat
    <2> HIDE DEF f, g, h, k, D
    <2> QED BY <1>4, <1>6, SumOfNat
<1> HIDE DEF f, g, h, k, x, y
<1>12. Nav <= v + paid
    BY <1>1, <1>2, <1>7, <1>9, <1>10, <1>11
<1> QED BY <1>1, <1>12 DEF v, fee

\* A call that deals in shares does not lower the price for the others either
\* while positions count for less than their units.
LEMMA DealingKeepsPrice ==
    ASSUME VaultInv, VaultInv', [Next]_vars, Nav > 0, supply' > 0, Dealt,
           \A s \in Listed : CountedAtMostPar(s)
    PROVE  SharePrice(Nav', supply') >= SharePrice(Nav, supply + FeesOf' - FeesOf)
<1> DEFINE c == cash'
           v == Nav'
           r == supply'
<1>1. /\ Nav \in Nat /\ v \in Nat /\ supply \in Nat /\ r \in Nat /\ r > 0
      /\ cash \in Nat /\ c \in Nat
    <2>1. Nav \in Nat /\ Nav' \in Nat
        BY NavNat, NavNatAfter DEF VaultInv, NavIsNatural
    <2> QED BY <2>1 DEF VaultInv, TypeOK
<1>2. ASSUME UNCHANGED <<position, lpVars, listVars>>
      PROVE  v = Nav + (c - cash)
    <2> DEFINE held == [i \in DOMAIN strategies |->
                           StrategyValue(strategies[i], GetValue(strategies[i], position))]
    <2>1. Nav = cash + SumFunction(held) /\ v = c + SumFunction(held)
        <3>1. v = NavOf(c, position)
            BY <1>2, NavFollows
        <3> QED BY <3>1 DEF Nav, NavOf
    <2>2. SumFunction(held) \in Nat
        <3>1. TypeOK /\ position \in [Strategies -> Nat]
            BY DEF VaultInv, TypeOK
        <3>2. held \in [DOMAIN strategies -> Nat] /\ IsFiniteSet(DOMAIN strategies)
            BY <3>1, ListedAre, GetValueNat, StrategyValueNat
        <3> HIDE DEF held
        <3> QED BY <3>2, SumOfNat
    <2> HIDE DEF held, c, v
    <2> QED BY <1>1, <2>1, <2>2
<1> HIDE DEF c, v, r
<1>3. ASSUME NEW a \in Accounts, NEW n \in Amounts, Deposit(a, n)
      PROVE  SharePrice(v, r) >= SharePrice(Nav, supply + FeesOf' - FeesOf)
    <2> DEFINE fee == FeeTotal(Accrued)
    <2>1. /\ fee \in Nat /\ FeesOf \in Nat /\ FeesOf' = FeesOf + fee
          /\ n \in Nat /\ c = cash + n
        BY <1>3, DepositSells DEF c
    <2>2. PICK m \in Nat : /\ m > 0 /\ r = (supply + fee) + m
                           /\ m * SharePrice(Nav, supply + fee) <= n * PRICE_PRECISION
        BY <1>3, DepositSells DEF r
    <2>3. v = Nav + n
        <3>1. UNCHANGED <<position, lpVars, listVars>>
            BY <1>3 DEF Deposit, strategyVars
        <3> HIDE DEF fee
        <3> QED BY <1>1, <1>2, <2>1, <3>1
    <2> HIDE DEF fee
    <2>4. supply + fee \in Nat /\ supply + FeesOf' - FeesOf = supply + fee
        BY <1>1, <2>1
    <2>5. SharePrice(Nav + n, (supply + fee) + m) >= SharePrice(Nav, supply + fee)
        BY <1>1, <2>1, <2>2, <2>4, IssueKeepsPrice
    <2> QED BY <2>2, <2>3, <2>4, <2>5
<1>4. ASSUME NEW a \in Accounts, NEW n \in Amounts, Withdraw(a, n)
      PROVE  SharePrice(v, r) >= SharePrice(Nav, supply + FeesOf' - FeesOf)
    <2> DEFINE fee == FeeTotal(Accrued)
               p == SharePrice(Nav, supply + fee)
    <2>1. /\ fee \in Nat /\ FeesOf \in Nat /\ FeesOf' = FeesOf + fee
          /\ n \in Nat /\ r = (supply + fee) - n
        BY <1>4, WithdrawBuys DEF r
    <2>2. PICK paid \in Nat : paid > 0 /\ Nav <= v + paid /\ paid * PRICE_PRECISION <= n * p
        BY <1>4, WithdrawLowersNav DEF v
    <2> HIDE DEF fee
    <2>3. supply + fee \in Nat /\ supply + FeesOf' - FeesOf = supply + fee /\ n < supply + fee
        BY <1>1, <2>1
    <2>4. p \in Nat /\ p * (supply + fee) <= Nav * PRICE_PRECISION /\ PRICE_PRECISION \in Nat
        <3>1. supply + fee > 0
            BY <2>1, <2>3
        <3> QED BY <1>1, <2>3, <3>1, SharePriceNat, SharePriceFits, MathAssumption
    <2>5. paid <= Nav
        <3> DEFINE q == PRICE_PRECISION
                   s == supply + fee
        <3>1. n * p <= s * p
            <4> HIDE DEF p
            <4> QED BY <2>1, <2>3, <2>4, MulMono
        <3>2. s \in Nat /\ q \in Nat /\ p \in Nat
            BY <2>3, <2>4
        <3>3. s * p = p * s
            <4> HIDE DEF p, s
            <4> QED BY <3>2
        <3> HIDE DEF p, q, s
        <3>4. paid * q <= Nav * q
            BY <1>1, <2>1, <2>2, <2>4, <3>1, <3>2, <3>3 DEF q, s
        <3>5. PRICE_PRECISION > 0
            BY MathAssumption
        <3>6. paid * q < (Nav + 1) * q
            <4>1. (Nav + 1) * q = Nav * q + q
                BY <1>1, <3>2
            <4>2. paid * q \in Nat /\ Nav * q \in Nat
                BY <1>1, <3>2, ProductNat
            <4> QED BY <3>2, <3>4, <3>5, <4>1, <4>2 DEF q
        <3>7. paid < Nav + 1
            BY <1>1, <3>2, <3>6, MulMonoStrict
        <3> QED BY <1>1, <3>7
    <2>6. SharePrice(Nav - paid, (supply + fee) - n) >= p
        BY <1>1, <2>1, <2>2, <2>3, <2>5, RedemptionKeepsPrice
    <2>7. SharePrice(v, r) >= SharePrice(Nav - paid, r)
        <3>1. Nav - paid \in Nat /\ Nav - paid <= v /\ Nav - paid > 0
            BY <1>1, <2>1, <2>2, <2>3, <2>5, RedemptionKeepsPrice
        <3> QED BY <1>1, <3>1, PriceIsMonotone
    <2>8. SharePrice(v, r) \in Nat /\ SharePrice(Nav - paid, r) \in Nat /\ p \in Nat
        <3>1. Nav - paid \in Nat
            BY <1>1, <2>2, <2>5
        <3> QED BY <1>1, <2>4, <3>1, SharePriceNat
    <2>9. SharePrice(v, r) >= p
        <3> HIDE DEF p
        <3> QED BY <2>1, <2>6, <2>7, <2>8
    <2> QED BY <2>3, <2>9
<1>5. CASE ~Deposits /\ ~Withdrawals
    <2>1. FeesOf' = FeesOf /\ FeesOf \in Nat
        <3>1. FeesOf' = FeesOf
            BY <1>5, OtherCalls
        <3> QED BY <3>1 DEF VaultInv, TypeOK, FeesOf, FeeTotal
    <2>2. r # supply /\ supply + FeesOf' - FeesOf = supply
        BY <1>1, <2>1 DEF Dealt, r
    <2>3. UNCHANGED <<cash, position, lpVars, listVars>> /\ r <= supply
        BY <1>1, <1>5, <2>2, OtherCalls DEF r
    <2>4. v = Nav
        BY <1>1, <1>2, <2>3 DEF c
    <2>5. SharePrice(Nav, r) >= SharePrice(Nav, supply)
        <3>1. r <= supply
            BY <2>3
        <3> QED BY <1>1, <3>1, PriceIsMonotone
    <2> QED BY <2>2, <2>4, <2>5 DEF v, r
<1> QED BY <1>3, <1>4, <1>5 DEF Deposits, Withdrawals, v, r

\* Nobody who holds on is diluted, in no sequence of calls that leaves the
\* valuation at par, nor by dealing in shares while it is below: the fee shares
\* apart, no call lowers the share price.
THEOREM HoldersAreNotDiluted == Spec => NoDilution
<1> DEFINE AtFaceValue == AtPar /\ AtPar' /\ ~Reported
           BelowPar == Dealt /\ \A s \in Listed : CountedAtMostPar(s)
           Kept == Nav > 0 /\ supply' > 0 /\ (AtFaceValue \/ BelowPar) =>
                       SharePrice(Nav', supply') >= SharePrice(Nav, supply + FeesOf' - FeesOf)
           x == SumFunctionOnSet(position, Strategies)
           y == SumFunctionOnSet(position', Strategies)
<1>1. ASSUME VaultInv, VaultInv', [Next]_vars
      PROVE  Kept
    <2> SUFFICES ASSUME Nav > 0, supply' > 0, AtPar, AtPar', ~Reported
                 PROVE  SharePrice(Nav', supply') >= SharePrice(Nav, supply + FeesOf' - FeesOf)
        BY <1>1, DealingKeepsPrice
    <2>1. /\ Nav \in Nat /\ Nav = cash + x /\ x \in Nat
          /\ Nav' = cash' + y /\ y \in Nat
          /\ cash \in Nat /\ cash' \in Nat /\ supply \in Nat /\ supply' \in Nat
        <3>1. Nav \in Nat /\ Nav = cash + x /\ x \in Nat
            BY <1>1, NavNat, PrincipalIs DEF VaultInv, AtPar
        <3>2. Principal' = cash' + SumFunctionOnSet(position', Strategies) /\ y \in Nat
            <4>1. position' \in [Strategies -> Nat]
                BY <1>1 DEF VaultInv, TypeOK
            <4>2. SumFunction(position') = SumFunctionOnSet(position', Strategies)
                BY <4>1, Zenon DEF SumFunction
            <4>3. y \in Nat
                BY <4>1, AreFinite, SumType
            <4> QED BY <4>2, <4>3 DEF Principal
        <3> QED BY <1>1, <3>1, <3>2 DEF VaultInv, TypeOK, AtPar
    <2> DEFINE c == cash'
               v == Nav'
               r == supply'
    <2> HIDE DEF x, y, c, v, r
    <2>0. /\ Nav \in Nat /\ Nav = cash + x /\ x \in Nat /\ v = c + y /\ y \in Nat
          /\ cash \in Nat /\ c \in Nat /\ supply \in Nat /\ r \in Nat /\ v \in Nat
          /\ Nav > 0 /\ r > 0
        <3>1. v = c + y /\ c \in Nat /\ r \in Nat
            BY <2>1 DEF c, v, r
        <3>2. r > 0
            BY DEF r
        <3>3. v \in Nat
            BY <2>1, <3>1
        <3> QED BY <2>1, <3>1, <3>2, <3>3
    <2>2. ASSUME NEW a \in Accounts, NEW n \in Amounts, Deposit(a, n)
          PROVE  SharePrice(Nav', supply') >= SharePrice(Nav, supply + FeesOf' - FeesOf)
        <3> DEFINE fee == FeeTotal(Accrued)
        <3>1. /\ fee \in Nat /\ FeesOf \in Nat /\ FeesOf' = FeesOf + fee
              /\ n \in Nat /\ cash' = cash + n /\ position' = position
            BY <1>1, <2>2, DepositSells
        <3>2. PICK k \in Nat : /\ k > 0 /\ supply' = (supply + fee) + k
                               /\ k * SharePrice(Nav, supply + fee) <= n * PRICE_PRECISION
            BY <1>1, <2>2, DepositSells
        <3> HIDE DEF fee
        <3>3. y = x
            BY <3>1 DEF x, y
        <3>4. supply + fee \in Nat /\ supply + FeesOf' - FeesOf = supply + fee /\ Nav' = Nav + n
            BY <2>1, <3>1, <3>3
        <3>5. SharePrice(Nav + n, (supply + fee) + k) >= SharePrice(Nav, supply + fee)
            BY <2>1, <3>1, <3>2, <3>4, IssueKeepsPrice
        <3> QED BY <3>2, <3>4, <3>5
    <2>3. ASSUME NEW a \in Accounts, NEW n \in Amounts, Withdraw(a, n)
          PROVE  SharePrice(Nav', supply') >= SharePrice(Nav, supply + FeesOf' - FeesOf)
        <3> DEFINE fee == FeeTotal(Accrued)
        <3>1. /\ fee \in Nat /\ FeesOf \in Nat /\ FeesOf' = FeesOf + fee
              /\ n \in Nat /\ supply' = (supply + fee) - n
            BY <1>1, <2>3, WithdrawBuys
        <3>2. PICK paid \in Nat : /\ paid > 0 /\ c + y + paid = cash + x
                                  /\ paid * PRICE_PRECISION <= n * SharePrice(Nav, supply + fee)
            BY <1>1, <2>3, WithdrawBuys DEF x, y, c
        <3> HIDE DEF fee
        <3>3. supply + fee \in Nat /\ supply + FeesOf' - FeesOf = supply + fee
            BY <2>0, <3>1
        <3>4. v = Nav - paid /\ paid <= Nav
            BY <2>0, <3>2
        <3>5. r = (supply + fee) - n /\ n < supply + fee
            BY <2>0, <3>1, <3>3 DEF r
        <3>6. SharePrice(Nav - paid, (supply + fee) - n) >= SharePrice(Nav, supply + fee)
            BY <2>0, <3>1, <3>2, <3>3, <3>4, <3>5, RedemptionKeepsPrice
        <3> QED BY <3>3, <3>4, <3>5, <3>6 DEF v, r
    <2>4. CASE ~Deposits /\ ~Withdrawals
        <3>1. FeesOf' = FeesOf /\ FeesOf \in Nat
            <4>1. FeesOf' = FeesOf
                BY <1>1, <2>4, OtherCalls
            <4>2. feesMinted.mgmt \in Nat /\ feesMinted.perf \in Nat
                BY <1>1 DEF VaultInv, TypeOK
            <4> QED BY <4>1, <4>2 DEF FeesOf, FeeTotal
        <3>2. \/ y = x /\ r = supply /\ cash <= c
              \/ y = x /\ c = cash /\ \E n \in Nat : n <= supply /\ r = supply - n
              \/ r = supply /\ c + y = cash + x
            BY <1>1, <2>4, OtherCalls DEF x, y, c, r
        <3>3. r <= supply /\ Nav <= v
            BY <2>0, <3>2
        <3>4. supply + FeesOf' - FeesOf = supply
            BY <2>0, <3>1
        <3>5. SharePrice(v, r) >= SharePrice(Nav, supply)
            BY <2>0, <3>3, PriceIsMonotone
        <3> QED BY <3>4, <3>5 DEF v, r
    <2> QED BY <2>2, <2>3, <2>4 DEF Deposits, Withdrawals
<1>2. VaultInv /\ VaultInv' /\ [Next]_vars => [Kept]_vars
    BY <1>1
<1> QED BY <1>2, VaultInvariant, PTL DEF Spec, NoDilution

-----------------------------------------------------------------------------
(* The vault implements ShareLedger *)

\* While no oracle values them, a list without repetitions counts every position
\* at face value, and once.
NoRepeats(list) ==
    \A i \in DOMAIN list, j \in DOMAIN list : list[i] = list[j] => i = j

OnlyBlend(pos) == \A s \in Strategies : s \notin BlendStrategies => pos[s] = 0

FaceInv == lpBalance = 0 /\ ~oracleSet /\ OnlyBlend(position) /\ NoRepeats(strategies)

LEMMA NavAtFace ==
    ASSUME TypeOK, FaceInv, NEW c \in Nat, NEW pos \in [Strategies -> Nat], OnlyBlend(pos)
    PROVE  /\ NavOf(c, pos) = c + SumFunctionOnSet(pos, Listed)
           /\ SumFunctionOnSet(pos, Listed) \in Nat
<1> DEFINE n == Len(strategies)
           f == [i \in 1 .. n |-> StrategyValue(strategies[i], GetValue(strategies[i], pos))]
           g == [i \in 1 .. n |-> pos[strategies[i]]]
<1>1. /\ n \in Nat /\ DOMAIN strategies = 1 .. n
      /\ \A i \in 1 .. n : strategies[i] \in Strategies
      /\ Listed = {strategies[i] : i \in 1 .. n} /\ Listed \in SUBSET Strategies
    BY ListedAre
<1>2. NavOf(c, pos) = c + SumFunction(f)
    BY <1>1 DEF NavOf
<1>3. \A s \in Strategies : StrategyValue(s, GetValue(s, pos)) = pos[s]
    BY DEF FaceInv, OnlyBlend, StrategyValue, GetValue, LpValue, BlendStrategies
<1>4. f = g
    BY <1>1, <1>3
<1>5. \A i \in 1 .. n, j \in 1 .. n : strategies[i] = strategies[j] => i = j
    BY <1>1 DEF FaceInv, NoRepeats
<1>6. SumFunction(g) = SumFunctionOnSet(pos, Listed)
    <2>1. IsFiniteSet(Strategies) /\ n \in Nat /\ \A i \in 1 .. n : strategies[i] \in Strategies
        BY <1>1, AreFinite
    <2> HIDE DEF n
    <2>2. SumFunction([i \in 1 .. n |-> pos[strategies[i]]])
              = SumFunctionOnSet(pos, {strategies[i] : i \in 1 .. n})
        BY <1>5, <2>1, SumAlongList, SMTT(30)
    <2> QED BY <1>1, <2>2
<1> HIDE DEF n
<1>7. SumFunctionOnSet(pos, Listed) \in Nat
    BY <1>1, AreFinite, SumType
<1> HIDE DEF f, g
<1> QED BY <1>2, <1>4, <1>6, <1>7

\* A strategy that leaves the list is worth nothing.
LEMMA OnlyEmptyLeave ==
    ASSUME [Next]_vars
    PROVE  \A s \in Listed \ Listed' : GetValue(s, position) = 0
<1>1. CASE strategies' = strategies
    BY <1>1 DEF Listed
<1>2. ASSUME NEW c \in Managers, NEW l \in StrategyLists, SetStrategies(c, l)
      PROVE  \A s \in Listed \ Listed' : GetValue(s, position) = 0
    <2>1. Listed' = ToSet(l) /\ Removable(l)
        BY <1>2 DEF SetStrategies, Listed
    <2> QED BY <2>1 DEF Removable
<1>3. CASE ListCall
    <2>1. ASSUME NEW c \in Managers,
                 SetOracle(c) \/ \E s \in Strategies :
                     SetStrategyOracleToken(c, s) \/ \E b \in BOOLEAN : SetLpStrategy(c, s, b)
          PROVE  strategies' = strategies
        BY <2>1 DEF SetOracle, SetStrategyOracleToken, SetLpStrategy
    <2> QED BY <1>1, <1>2, <1>3, <2>1 DEF ListCall
<1>4. CASE Deposits \/ Withdrawals \/ Investments \/ Unwindings
    BY <1>1, <1>4
       DEF Deposits, Deposit, Withdrawals, Withdraw, Investments, Invest, Unwindings, Unwind,
           listVars
<1>5. CASE ConfigCall \/ AccessCall \/ HolderCall \/ StrategyCall \/ Environment
    BY <1>1, <1>5
       DEF ConfigCall, AccessCall, Configure, Pause, Unpause, SetDepositCap, SetMaxLossBps,
           SetMaxConcentrationBps, SetPrivatePool, SetValueGuardEnabled, SetExitCooldownSecs,
           HolderCall, TransferShares, BurnShares, StrategyCall, SyncPosition,
           SetStrategyPaused, Environment, Donate, AddYield, PublishPrice, listVars
<1>6. CASE MemberAdditions \/ MemberRemovals \/ RoleAndFeeCall \/ Time \/ UNCHANGED vars
    BY <1>1, <1>6
       DEF MemberAdditions, AddMember, MemberRemovals, RemoveMember, RoleAndFeeCall, Time, vars,
           vaultVars, listVars
<1> QED BY <1>3, <1>4, <1>5, <1>6 DEF Next, AccountingNext

\* Positions are those of Blend strategies, whoever moves or reports them.
LEMMA OnlyBlendNext ==
    ASSUME VaultInv, VaultInv', OnlyBlend(position), [Next]_vars
    PROVE  OnlyBlend(position')
<1>0. position \in [Strategies -> Nat] /\ position' \in [Strategies -> Nat]
    BY DEF VaultInv, TypeOK
<1>1. ASSUME NEW a \in Accounts, NEW n \in Amounts, Withdraw(a, n)
      PROVE  OnlyBlend(position')
    <2>1. \A s \in Strategies : position'[s] <= position[s]
        BY <1>1, WithdrawPays
    <2> QED BY <1>0, <2>1 DEF OnlyBlend
<1>2. CASE Investments \/ Unwindings
    <2>1. ASSUME NEW s \in BlendStrategies, NEW k, position' = Credit(position, s, k)
          PROVE  OnlyBlend(position')
        BY <1>0, <2>1 DEF OnlyBlend, Credit
    <2>2. ASSUME NEW c, NEW s, NEW n, Invest(c, s, n)
          PROVE  OnlyBlend(position')
        BY <2>1, <2>2 DEF Invest, BlendDeposit
    <2>3. ASSUME NEW c, NEW s, NEW n, Unwind(c, s, n)
          PROVE  OnlyBlend(position')
        <3>1. s \in BlendStrategies /\ position' = Credit(position, s, -n)
            BY <2>3 DEF Unwind, MayUnwind, Withdrawable
        <3> QED BY <2>1, <3>1
    <2> QED BY <1>2, <2>2, <2>3 DEF Investments, Unwindings
<1>3. CASE StrategyCall
    BY <1>0, <1>3 DEF StrategyCall, SyncPosition, SetStrategyPaused, OnlyBlend
<1>4. CASE position' = position
    BY <1>4 DEF OnlyBlend
<1>5. CASE Deposits \/ ListCall \/ ConfigCall \/ AccessCall \/ HolderCall \/ Environment
    BY <1>4, <1>5
       DEF Deposits, Deposit, ListCall, SetStrategies, SetLpStrategy, SetOracle,
           SetStrategyOracleToken, ConfigCall, AccessCall, Configure, Pause, Unpause,
           SetDepositCap, SetMaxLossBps, SetMaxConcentrationBps, SetPrivatePool,
           SetValueGuardEnabled, SetExitCooldownSecs, HolderCall, TransferShares, BurnShares,
           Environment, Donate, AddYield, PublishPrice, strategyVars
<1>6. CASE MemberAdditions \/ MemberRemovals \/ RoleAndFeeCall \/ Time \/ UNCHANGED vars
    BY <1>4, <1>6
       DEF MemberAdditions, AddMember, MemberRemovals, RemoveMember, RoleAndFeeCall, Time, vars,
           vaultVars, strategyVars
<1> QED BY <1>1, <1>2, <1>3, <1>5, <1>6 DEF Next, AccountingNext, Withdrawals

\* What the oracle and the list are, no call changes but set_oracle and
\* set_strategies.
LEMMA OracleAndListNext ==
    ASSUME [Next]_vars, "set_oracle" \notin Calls
    PROVE  /\ oracleSet' = oracleSet /\ UNCHANGED lpVars
           /\ strategies' = strategies \/ strategies' \in StrategyLists
<1>1. CASE ListCall
    BY <1>1 DEF ListCall, SetStrategies, SetLpStrategy
<1>2. CASE Deposits \/ Withdrawals \/ Investments \/ Unwindings
    BY <1>2
       DEF Deposits, Deposit, Withdrawals, Withdraw, Investments, Invest, Unwindings, Unwind,
           listVars
<1>3. CASE ConfigCall \/ AccessCall \/ HolderCall \/ StrategyCall \/ Environment
    BY <1>3
       DEF ConfigCall, AccessCall, Configure, Pause, Unpause, SetDepositCap, SetMaxLossBps,
           SetMaxConcentrationBps, SetPrivatePool, SetValueGuardEnabled, SetExitCooldownSecs,
           HolderCall, TransferShares, BurnShares, StrategyCall, SyncPosition,
           SetStrategyPaused, Environment, Donate, AddYield, PublishPrice, listVars
<1>4. CASE MemberAdditions \/ MemberRemovals \/ RoleAndFeeCall \/ Time \/ UNCHANGED vars
    BY <1>4
       DEF MemberAdditions, AddMember, MemberRemovals, RemoveMember, RoleAndFeeCall, Time, vars,
           vaultVars, listVars
<1> QED BY <1>1, <1>2, <1>3, <1>4 DEF Next, AccountingNext

LEMMA FaceInvariant ==
    ASSUME "set_oracle" \notin Calls, \A l \in StrategyLists : NoRepeats(l)
    PROVE  Spec => []FaceInv
<1>1. Init => FaceInv
    BY DEF Init, LpInit, FaceInv, OnlyBlend, NoRepeats
<1>2. ASSUME VaultInv, VaultInv', FaceInv, [Next]_vars
      PROVE  FaceInv'
    <2>1. OnlyBlend(position')
        BY <1>2, OnlyBlendNext DEF FaceInv
    <2>2. oracleSet' = oracleSet /\ lpBalance' = lpBalance
        BY <1>2, OracleAndListNext DEF lpVars
    <2>3. NoRepeats(strategies')
        BY <1>2, OracleAndListNext DEF FaceInv
    <2> QED BY <1>2, <2>1, <2>2, <2>3 DEF FaceInv, OnlyBlend
<1> QED BY <1>1, <1>2, VaultInvariant, PTL DEF Spec

\* The net asset value at face value.
FaceNav == /\ Nav = cash + SumFunctionOnSet(position, Listed)
           /\ Nav \in Nat /\ SumFunctionOnSet(position, Listed) \in Nat

LEMMA FaceNavInvariant ==
    ASSUME "set_oracle" \notin Calls, \A l \in StrategyLists : NoRepeats(l)
    PROVE  Spec => []FaceNav
<1>1. ASSUME VaultInv, FaceInv
      PROVE  FaceNav
    <2>1. TypeOK /\ cash \in Nat /\ position \in [Strategies -> Nat] /\ OnlyBlend(position)
        BY <1>1 DEF VaultInv, TypeOK, FaceInv
    <2>2. /\ Nav = cash + SumFunctionOnSet(position, Listed)
          /\ SumFunctionOnSet(position, Listed) \in Nat
        BY <1>1, <2>1, NavAtFace DEF Nav
    <2> QED BY <2>1, <2>2 DEF FaceNav
<1>2. VaultInv /\ FaceInv => FaceNav
    BY <1>1
<1> QED BY <1>2, VaultInvariant, FaceInvariant, PTL

\* A new list that keeps every strategy with a position is worth no less.
LEMMA ListKeepsSum ==
    ASSUME NEW pos \in [Strategies -> Nat], NEW A \in SUBSET Strategies,
           NEW B \in SUBSET Strategies, \A s \in A \ B : pos[s] = 0
    PROVE  SumFunctionOnSet(pos, A) <= SumFunctionOnSet(pos, B)
<1> DEFINE C == A \cap B
           f == [s \in A |-> pos[s]]
           w == SumFunctionOnSet(pos, A)
           t == SumFunctionOnSet(pos, C)
           z == SumFunctionOnSet(pos, B)
<1>1. IsFiniteSet(Strategies) /\ IsFiniteSet(A) /\ IsFiniteSet(B)
    BY AreFinite, FS_Subset
<1>2. w = t
    <2>1. f \in [A -> Nat] /\ C \in SUBSET A /\ \A s \in A \ C : f[s] = 0
        OBVIOUS
    <2>2. SumFunctionOnSet(f, A) = SumFunctionOnSet(f, C)
        <3> HIDE DEF f, C
        <3> QED BY <1>1, <2>1, SumOffZeros
    <2>3. SumFunctionOnSet(f, A) = w
        <3>1. \A s \in A : f[s] = pos[s]
            OBVIOUS
        <3> HIDE DEF f
        <3> QED BY <1>1, <2>1, <3>1, SumSame
    <2>4. SumFunctionOnSet(f, C) = t
        <3>1. \A s \in C : f[s] = pos[s]
            OBVIOUS
        <3>2. IsFiniteSet(C)
            BY <1>1, FS_Subset
        <3> HIDE DEF f, C
        <3> QED BY <2>1, <3>1, <3>2, SumSame
    <2> QED BY <2>2, <2>3, <2>4
<1>3. t <= z
    <2>1. C \in SUBSET B /\ \A s \in B : pos[s] \in Nat
        OBVIOUS
    <2> HIDE DEF C
    <2> QED BY <1>1, <2>1, SumOfPart
<1> HIDE DEF w, t, z
<1> QED BY <1>2, <1>3 DEF w, z

LEMMA LedgerQuote ==
    ASSUME NEW f
    PROVE  Ledger!Quote(f) = SharePrice(Nav, supply + f)
BY DEF Ledger!Quote, Ledger!SharePrice, SharePrice

\* What each call of the vault is to those who only see its totals.
LEMMA FaceStep ==
    ASSUME "set_oracle" \notin Calls, VaultInv, VaultInv', FaceInv, FaceNav, FaceNav',
           [Next]_vars
    PROVE  \/ \E f, a, n \in Nat : Ledger!Subscribe(f, a, n) \/ Ledger!Redeem(f, n, a)
           \/ \E a \in Nat : Ledger!Gift(a) \/ Ledger!Retire(a)
           \/ "sync" \in Calls /\ Ledger!Report(Nav') /\ Nav' \in Nat
<1> DEFINE x == SumFunctionOnSet(position, Listed)
           y == SumFunctionOnSet(position', Listed')
           c == cash'
           v == Nav'
           r == supply'
           g == FeesOf'
           Traded   == \E f, a, n \in Nat : Ledger!Subscribe(f, a, n) \/ Ledger!Redeem(f, n, a)
           Favoured == \E a \in Nat : Ledger!Gift(a) \/ Ledger!Retire(a)
           Revalued == "sync" \in Calls /\ Ledger!Report(Nav') /\ Nav' \in Nat
<1>1. /\ cash \in Nat /\ c \in Nat /\ supply \in Nat /\ r \in Nat
      /\ position \in [Strategies -> Nat]
    BY DEF VaultInv, TypeOK
<1>2. Nav = cash + x /\ Nav \in Nat /\ x \in Nat
    BY DEF FaceNav
<1>3. v = c + y /\ v \in Nat /\ y \in Nat
    BY DEF FaceNav
<1> HIDE DEF x, y, c, v, r, g, Traded, Favoured, Revalued
<1>4. ASSUME NEW from \in Accounts, NEW a \in Amounts, Deposit(from, a)
      PROVE  Traded
    <2> DEFINE f == FeeTotal(Accrued)
    <2>1. /\ f \in Nat /\ (supply = 0 => f = 0) /\ g = FeesOf + f
          /\ a \in Nat /\ a > 0 /\ c = cash + a /\ position' = position /\ strategies' = strategies
        BY <1>4, DepositSells DEF g, c
    <2>2. PICK n \in Nat : /\ n > 0 /\ r = (supply + f) + n
                           /\ n * SharePrice(Nav, supply + f) <= a * PRICE_PRECISION
        BY <1>4, DepositSells DEF r
    <2> HIDE DEF f
    <2>3. y = x
        BY <2>1 DEF x, y, Listed
    <2>4. v = Nav + a
        BY <1>1, <1>2, <1>3, <2>1, <2>3
    <2>5. Ledger!Subscribe(f, a, n)
        BY <2>1, <2>2, <2>4, LedgerQuote DEF Ledger!Subscribe, g, r, v
    <2> QED BY <2>1, <2>2, <2>5 DEF Traded
<1>5. ASSUME NEW from \in Accounts, NEW n \in Amounts, Withdraw(from, n)
      PROVE  Traded
    <2> DEFINE f == FeeTotal(Accrued)
    <2>1. /\ f \in Nat /\ g = FeesOf + f
          /\ n \in Nat /\ n > 0 /\ n <= supply /\ r = (supply + f) - n
          /\ strategies' = strategies
        BY <1>5, WithdrawBuys DEF g, r
    <2>2. y = SumFunctionOnSet(position', Listed)
        BY <2>1 DEF y, Listed
    <2>3. PICK a \in Nat : /\ a > 0 /\ a * PRICE_PRECISION <= n * SharePrice(Nav, supply + f)
                           /\ c + y + a = cash + x
        BY <1>5, <2>2, WithdrawBuys DEF x, c
    <2> HIDE DEF f
    <2>4. v = Nav - a /\ a <= Nav
        BY <1>1, <1>2, <1>3, <2>3
    <2>5. Ledger!Redeem(f, n, a)
        <3>1. supply' = supply + f - n
            BY <1>1, <2>1 DEF r
        <3> QED BY <2>1, <2>3, <2>4, <3>1, LedgerQuote DEF Ledger!Redeem, g, v
    <2> QED BY <2>1, <2>3, <2>5 DEF Traded
<1>6. ASSUME ~Deposits, ~Withdrawals
      PROVE  Favoured \/ Revalued
    <2>1. g = FeesOf
        BY <1>6, OtherCalls DEF g
    <2>2. ASSUME position' = position, r = supply, cash <= c
          PROVE  Favoured
        <3>1. Listed \in SUBSET Strategies /\ Listed' \in SUBSET Strategies
            <4>1. strategies \in Seq(Strategies) /\ strategies' \in Seq(Strategies)
                BY DEF VaultInv, TypeOK
            <4>2. \A l \in Seq(Strategies) : ToSet(l) \in SUBSET Strategies
                BY DEF ToSet
            <4> QED BY <4>1, <4>2 DEF Listed
        <3>2. \A s \in Listed \ Listed' : position[s] = 0
            BY <3>1, OnlyEmptyLeave DEF FaceInv, OnlyBlend, GetValue, BlendStrategies
        <3> DEFINE B == Listed'
        <3>3. y = SumFunctionOnSet(position, B)
            BY <2>2 DEF y
        <3> HIDE DEF B
        <3>4. x <= y
            BY <1>1, <3>1, <3>2, <3>3, ListKeepsSum DEF x, B
        <3>5. v - Nav \in Nat /\ v = Nav + (v - Nav)
            BY <1>1, <1>2, <1>3, <2>2, <3>4
        <3>6. Ledger!Gift(v - Nav)
            BY <2>1, <2>2, <3>5 DEF Ledger!Gift, g, r, v
        <3> QED BY <3>5, <3>6 DEF Favoured
    <2>3. ASSUME NEW n \in Nat, n <= supply, r = supply - n,
                 UNCHANGED <<cash, position, lpVars, listVars>>
          PROVE  Favoured
        <3>1. y = x /\ c = cash
            BY <2>3 DEF x, y, c, listVars, Listed
        <3>2. v = Nav
            BY <1>2, <1>3, <3>1
        <3>3. Ledger!Retire(n)
            BY <2>1, <2>3, <3>2 DEF Ledger!Retire, g, r, v
        <3> QED BY <3>3 DEF Favoured
    <2>4. ASSUME r = supply, UNCHANGED listVars,
                 cash' + SumFunctionOnSet(position', Listed)
                     = cash + SumFunctionOnSet(position, Listed)
          PROVE  Favoured
        <3>1. c + y = cash + x
            BY <2>4 DEF x, y, c, listVars, Listed
        <3>2. v = Nav + 0
            BY <1>1, <1>2, <1>3, <3>1
        <3>3. Ledger!Gift(0)
            BY <2>1, <2>4, <3>2 DEF Ledger!Gift, g, r, v
        <3> QED BY <3>3 DEF Favoured
    <2>5. ASSUME "sync" \in Calls, r = supply
          PROVE  Revalued
        BY <1>3, <2>1, <2>5 DEF Ledger!Report, Revalued, g, r, v
    <2> QED BY <1>6, <2>2, <2>3, <2>4, <2>5, OtherCalls DEF r, c
<1>7. Traded \/ Favoured \/ Revalued
    BY <1>4, <1>5, <1>6 DEF Deposits, Withdrawals
<1> QED BY <1>7 DEF Traded, Favoured, Revalued

\* While no oracle revalues its positions and no strategy is listed twice, the
\* vault implements the ledger its share holders rely on, whatever the amounts:
\* every call deals at the price or favours those who hold on, and only a
\* strategy's own report revalues them.
THEOREM VaultImplementsShareLedger ==
    ASSUME "set_oracle" \notin Calls, \A l \in StrategyLists : NoRepeats(l),
           LedgerAmounts = Nat
    PROVE  Spec => ImplementsShareLedger
<1>1. Init => Ledger!LedgerInit
    <2> SUFFICES ASSUME Init PROVE Ledger!LedgerInit
        OBVIOUS
    <2>1. FaceInv /\ VaultInv /\ position = [s \in Strategies |-> 0] /\ strategies = <<>>
        BY VaultInvInit DEF Init, LpInit, FaceInv, OnlyBlend, NoRepeats
    <2>2. Nav = 0
        <3>1. Nav = 0 + SumFunctionOnSet(position, Listed)
            <4>1. position \in [Strategies -> Nat] /\ OnlyBlend(position) /\ cash = 0
                BY <2>1 DEF Init, FaceInv
            <4> QED BY <2>1, <4>1, NavAtFace DEF VaultInv, Nav
        <3>2. Listed = {}
            BY <2>1 DEF Listed, ToSet
        <3>3. SumFunctionOnSet(position, {}) = 0
            BY SumStep, FS_EmptySet
        <3> QED BY <3>1, <3>2, <3>3
    <2> QED BY <2>2 DEF Init, Ledger!LedgerInit, FeesOf, FeeTotal
<1>2. VaultInv /\ VaultInv' /\ FaceInv /\ FaceNav /\ FaceNav' /\ [Next]_vars
          => [Ledger!LedgerNext]_(Ledger!ledgerVars)
    <2> SUFFICES ASSUME VaultInv, VaultInv', FaceInv, FaceNav, FaceNav', [Next]_vars
                 PROVE  Ledger!LedgerNext
        OBVIOUS
    <2> QED BY FaceStep DEF Ledger!LedgerNext
<1> QED BY <1>1, <1>2, VaultInvariant, FaceInvariant, FaceNavInvariant, PTL
        DEF Spec, ImplementsShareLedger, Ledger!LedgerSpec

\* ShareLedger again, with what is proved of it.
Proved == INSTANCE ShareLedgerProofs WITH
              nav <- Nav, supply <- supply, feeShares <- FeesOf,
              Quantities <- LedgerAmounts,
              Reports <- IF Calls \cap {"sync", "price"} = {} THEN {} ELSE LedgerAmounts

LEMMA SameLedger == Ledger!LedgerSpec <=> Proved!LedgerSpec
<1>1. Ledger!LedgerInit <=> Proved!LedgerInit
    BY DEF Ledger!LedgerInit, Proved!LedgerInit
<1>2. \A f : Ledger!Quote(f) = Proved!Quote(f)
    BY DEF Ledger!Quote, Proved!Quote, Ledger!SharePrice, Proved!SharePrice
<1>3. \A f, a, n : Ledger!Subscribe(f, a, n) <=> Proved!Subscribe(f, a, n)
    BY <1>2 DEF Ledger!Subscribe, Proved!Subscribe
<1>4. \A f, a, n : Ledger!Redeem(f, n, a) <=> Proved!Redeem(f, n, a)
    BY <1>2 DEF Ledger!Redeem, Proved!Redeem
<1>5. \A a : /\ Ledger!Gift(a) <=> Proved!Gift(a)
             /\ Ledger!Retire(a) <=> Proved!Retire(a)
             /\ Ledger!Report(a) <=> Proved!Report(a)
    BY DEF Ledger!Gift, Proved!Gift, Ledger!Retire, Proved!Retire, Ledger!Report, Proved!Report
<1>6. Ledger!LedgerNext <=> Proved!LedgerNext
    BY <1>3, <1>4, <1>5 DEF Ledger!LedgerNext, Proved!LedgerNext
<1>7. Ledger!ledgerVars = Proved!ledgerVars /\ Ledger!ledgerVars' = Proved!ledgerVars'
    BY DEF Ledger!ledgerVars, Proved!ledgerVars
<1>8. [Ledger!LedgerNext]_(Ledger!ledgerVars) <=> [Proved!LedgerNext]_(Proved!ledgerVars)
    BY <1>6, <1>7
<1> QED BY <1>1, <1>8, PTL DEF Ledger!LedgerSpec, Proved!LedgerSpec

\* So what is proved of the abstract ledger holds of the vault: without an
\* oracle, no step but a strategy's report lowers the price for those who hold
\* on, and none exhausts what is behind shares that remain.  Unlike NoDilution
\* this asks nothing of the two states of the step.
THEOREM VaultKeepsLedgerPromises ==
    ASSUME "set_oracle" \notin Calls, \A l \in StrategyLists : NoRepeats(l),
           LedgerAmounts = Nat
    PROVE  Spec => Proved!PriceNeverFalls /\ Proved!BackingIsKept
<1>1. /\ LedgerAmounts \subseteq Nat
      /\ (IF Calls \cap {"sync", "price"} = {} THEN {} ELSE LedgerAmounts) \subseteq Nat
    BY VaultAssumption
<1>2. /\ PRICE_PRECISION \in Nat \ {0}
      /\ FEE_DENOMINATOR \in Nat \ {0}
      /\ SECONDS_PER_YEAR \in Nat \ {0}
    BY MathAssumption
<1>3. Proved!LedgerSpec => Proved!PriceNeverFalls
    BY <1>1, <1>2, Proved!LedgerPriceNeverFalls, PTL
<1>4. Proved!LedgerSpec => Proved!BackingIsKept
    BY <1>1, <1>2, Proved!LedgerBackingIsKept, PTL
<1>5. Spec => Ledger!LedgerSpec
    BY VaultImplementsShareLedger, PTL DEF ImplementsShareLedger
<1> QED BY <1>3, <1>4, <1>5, SameLedger, PTL

\* A step that is not a report leaves something behind the shares there are.
LEMMA BackedNext ==
    ASSUME "set_oracle" \notin Calls, "sync" \notin Calls, VaultInv, VaultInv', FaceInv,
           FaceNav, FaceNav', SharesAreBacked, [Next]_vars
    PROVE  SharesAreBacked'
<1> DEFINE v == Nav'
           r == supply'
<1>1. /\ supply \in Nat /\ r \in Nat /\ Nav \in Nat /\ v \in Nat
      /\ supply > 0 => Nav > 0
    BY DEF VaultInv, TypeOK, FaceNav, SharesAreBacked
<1> HIDE DEF v, r
<1>2. ASSUME NEW f \in Nat, NEW a \in Nat, NEW n \in Nat, Ledger!Redeem(f, n, a), r > 0
      PROVE  v > 0
    <2>1. v = Nav - a /\ r = (supply + f) - n /\ a > 0 /\ a <= Nav
        BY <1>1, <1>2 DEF Ledger!Redeem, v, r
    <2>2. a * PRICE_PRECISION <= n * SharePrice(Nav, supply + f)
        BY <1>2, LedgerQuote DEF Ledger!Redeem
    <2>3. supply + f \in Nat /\ n < supply + f
        BY <1>1, <1>2, <2>1
    <2>4. Nav - a > 0
        BY <1>1, <2>1, <2>2, <2>3, RedemptionKeepsPrice
    <2> QED BY <2>1, <2>4
<1>3. ASSUME NEW f \in Nat, NEW a \in Nat, NEW n \in Nat, Ledger!Subscribe(f, a, n)
      PROVE  v > 0
    BY <1>1, <1>3 DEF Ledger!Subscribe, v
<1>4. ASSUME NEW a \in Nat, Ledger!Gift(a) \/ Ledger!Retire(a), r > 0
      PROVE  v > 0
    BY <1>1, <1>4 DEF Ledger!Gift, Ledger!Retire, v, r
<1>5. r > 0 => v > 0
    BY <1>2, <1>3, <1>4, FaceStep
<1> QED BY <1>5 DEF SharesAreBacked, v, r

\* Outstanding shares always have something behind them, whatever fee shares
\* have made of their price, unless an oracle or a strategy revalues a position
\* or a strategy is listed twice.
THEOREM SharesStayBacked ==
    ASSUME "set_oracle" \notin Calls, "sync" \notin Calls,
           \A l \in StrategyLists : NoRepeats(l)
    PROVE  Spec => []SharesAreBacked
<1>1. Init => SharesAreBacked
    BY DEF Init, SharesAreBacked
<1>2. VaultInv /\ VaultInv' /\ FaceInv /\ FaceNav /\ FaceNav' /\ SharesAreBacked /\ [Next]_vars
          => SharesAreBacked'
    BY BackedNext
<1> QED BY <1>1, <1>2, VaultInvariant, FaceInvariant, FaceNavInvariant, PTL DEF Spec

-----------------------------------------------------------------------------
(* Funded strategies stay on the list *)

\* What set_strategies sees of a position is get_value, which for the
\* two-asset strategy says something else than its position: the invariant
\* needs that only a Blend strategy ever has one.
FundedInv == \A s \in Strategies : position[s] > 0 => s \in Listed /\ s \in BlendStrategies

\* A call that leaves the list alone and raises no position but one of a listed
\* Blend strategy.
LEMMA FundedKept ==
    ASSUME FundedInv, strategies' = strategies,
           position \in [Strategies -> Nat], position' \in [Strategies -> Nat],
           \A s \in Strategies : \/ position'[s] <= position[s]
                                 \/ s \in Listed /\ s \in BlendStrategies
    PROVE  FundedInv'
BY DEF FundedInv, Listed, BlendStrategies

LEMMA FundedNext ==
    ASSUME "sync" \notin Calls, VaultInv, FundedInv, [Next]_vars
    PROVE  FundedInv'
<1>0. position \in [Strategies -> Nat] /\ position' \in [Strategies -> Nat]
    BY VaultInvNext DEF VaultInv, TypeOK
<1>1. ASSUME NEW a \in Accounts, NEW n \in Amounts, Withdraw(a, n)
      PROVE  FundedInv'
    <2>1. strategies' = strategies
        BY <1>1 DEF Withdraw, listVars
    <2>2. \A s \in Strategies : position'[s] <= position[s]
        BY <1>1, WithdrawPays
    <2> QED BY <1>0, <2>1, <2>2, FundedKept
<1>2. ASSUME NEW c \in Managers, NEW s \in Strategies, NEW n \in Amounts,
             Invest(c, s, n) \/ Unwind(c, s, n)
      PROVE  FundedInv'
    <2>1. /\ strategies' = strategies /\ s \in Listed /\ s \in BlendStrategies
          /\ \E k \in Int : position' = Credit(position, s, k)
        BY <1>2, VaultAssumption
           DEF Invest, Unwind, BlendDeposit, MayUnwind, Withdrawable, listVars
    <2>2. \A r \in Strategies \ {s} : position'[r] = position[r]
        BY <1>0, <2>1 DEF Credit
    <2> QED BY <1>0, <2>1, <2>2, FundedKept
<1>3. ASSUME NEW c \in Managers, NEW l \in StrategyLists, SetStrategies(c, l)
      PROVE  FundedInv'
    <2>1. position' = position /\ Listed' = ToSet(l) /\ Removable(l)
        BY <1>3 DEF SetStrategies, strategyVars, Listed
    <2>2. \A s \in Listed \ ToSet(l) : s \in BlendStrategies => position[s] = 0
        BY <2>1 DEF Removable, GetValue, BlendStrategies
    <2> QED BY <1>0, <2>1, <2>2 DEF FundedInv, BlendStrategies
<1>4. CASE position' = position /\ strategies' = strategies
    BY <1>0, <1>4, FundedKept
<1>5. CASE Deposits \/ ConfigCall \/ AccessCall \/ HolderCall \/ StrategyCall \/ Environment
    BY <1>4, <1>5
       DEF Deposits, Deposit, ConfigCall, AccessCall, Configure, Pause, Unpause, SetDepositCap,
           SetMaxLossBps, SetMaxConcentrationBps, SetPrivatePool, SetValueGuardEnabled,
           SetExitCooldownSecs, HolderCall, TransferShares, BurnShares, StrategyCall,
           SetStrategyPaused, Environment, Donate, AddYield, PublishPrice, listVars, strategyVars
<1>6. CASE MemberAdditions \/ MemberRemovals \/ RoleAndFeeCall \/ Time \/ UNCHANGED vars
    BY <1>4, <1>6
       DEF MemberAdditions, AddMember, MemberRemovals, RemoveMember, RoleAndFeeCall, Time, vars,
           vaultVars, listVars, strategyVars
<1>7. CASE ListCall
    <2>1. ASSUME NEW c \in Managers,
                 SetOracle(c) \/ \E s \in Strategies :
                     SetStrategyOracleToken(c, s) \/ \E b \in BOOLEAN : SetLpStrategy(c, s, b)
          PROVE  FundedInv'
        BY <1>4, <2>1 DEF SetOracle, SetStrategyOracleToken, SetLpStrategy, strategyVars
    <2> QED BY <1>3, <1>7, <2>1 DEF ListCall
<1> QED BY <1>1, <1>2, <1>5, <1>6, <1>7
        DEF Next, AccountingNext, Withdrawals, Investments, Unwindings

\* No sequence of calls leaves a strategy that holds a position off the list,
\* unless a strategy's manager reports a position (sync_position) for one that
\* is not on it.
THEOREM FundedStrategiesStayListed ==
    ASSUME "sync" \notin Calls
    PROVE  Spec => []FundedStrategiesListed
<1>1. Init => FundedInv
    BY DEF Init, FundedInv
<1>2. VaultInv /\ FundedInv /\ [Next]_vars => FundedInv'
    BY FundedNext
<1>3. FundedInv => FundedStrategiesListed
    BY DEF FundedInv, FundedStrategiesListed
<1> QED BY <1>1, <1>2, <1>3, VaultInvariant, PTL DEF Spec

-----------------------------------------------------------------------------
(* The auto-unwind covers every payment *)

\* Without oracle prices and reports: every position is a listed Blend
\* strategy's, counts at face value, and is covered by the pool.
CoverInv == /\ FundedInv /\ lpBalance = 0 /\ ~oracleSet
            /\ SumFunctionOnSet(position, Strategies) <= pool

\* What the pool owes moves with what it holds.
LEMMA PoolCoversNext ==
    ASSUME "sync" \notin Calls, VaultInv, VaultInv', [Next]_vars,
           SumFunctionOnSet(position, Strategies) <= pool
    PROVE  SumFunctionOnSet(position', Strategies) <= pool'
<1> DEFINE x == SumFunctionOnSet(position, Strategies)
           y == SumFunctionOnSet(position', Strategies)
           c == cash'
           p == pool'
<1>0. /\ cash \in Nat /\ pool \in Nat /\ c \in Nat /\ p \in Nat
      /\ position \in [Strategies -> Nat] /\ position' \in [Strategies -> Nat]
    BY DEF VaultInv, TypeOK
<1>1. x \in Nat /\ y \in Nat /\ x <= pool
    BY <1>0, AreFinite, SumType
<1> HIDE DEF x, y, c, p
<1> SUFFICES y <= p
    BY DEF y, p
<1>2. ASSUME NEW a \in Accounts, NEW n \in Amounts, Withdraw(a, n)
      PROVE  y <= p
    <2>1. PICK net \in Nat : c + p + net = cash + pool /\ c + y + net = cash + x
        BY <1>2, WithdrawPays DEF x, y, c, p
    <2> QED BY <1>0, <1>1, <2>1
<1>3. CASE Investments \/ Unwindings
    <2>1. PICK s \in Strategies, k \in Int : position' = Credit(position, s, k) /\ p = pool + k
        BY <1>0, <1>3, VaultAssumption
           DEF Investments, Invest, Unwindings, Unwind, BlendDeposit, MayUnwind, Withdrawable, p
    <2>2. /\ position \in [Strategies -> Int] /\ position' \in [Strategies -> Int]
          /\ \A r \in Strategies \ {s} : position[r] = position'[r]
          /\ position'[s] = position[s] + k /\ position[s] \in Int
        BY <1>0, <2>1 DEF Credit
    <2>3. y = x - position[s] + position'[s]
        BY <2>2, AreFinite, SumOnSetChanged DEF x, y
    <2>4. y = x + k
        BY <1>1, <2>2, <2>3
    <2> QED BY <1>0, <1>1, <2>1, <2>4
<1>4. ASSUME position' = position, pool <= p
      PROVE  y <= p
    BY <1>0, <1>1, <1>4 DEF x, y
<1>5. CASE Environment
    <2>1. position' = position /\ pool <= pool'
        BY <1>0, <1>5, VaultAssumption
           DEF Environment, Donate, AddYield, PublishPrice, strategyVars
    <2> QED BY <1>4, <2>1 DEF p
<1>6. CASE StrategyCall
    BY <1>0, <1>4, <1>6 DEF StrategyCall, SetStrategyPaused, p
<1>7. CASE Deposits \/ ListCall \/ ConfigCall \/ AccessCall \/ HolderCall
    <2>1. position' = position /\ pool' = pool
        BY <1>7
           DEF Deposits, Deposit, ListCall, SetStrategies, SetLpStrategy, SetOracle,
               SetStrategyOracleToken, ConfigCall, AccessCall, Configure, Pause, Unpause,
               SetDepositCap, SetMaxLossBps, SetMaxConcentrationBps, SetPrivatePool,
               SetValueGuardEnabled, SetExitCooldownSecs, HolderCall, TransferShares, BurnShares,
               strategyVars
    <2> QED BY <1>0, <1>4, <2>1 DEF p
<1>8. CASE MemberAdditions \/ MemberRemovals \/ RoleAndFeeCall \/ Time \/ UNCHANGED vars
    <2>1. position' = position /\ pool' = pool
        BY <1>8
           DEF MemberAdditions, AddMember, MemberRemovals, RemoveMember, RoleAndFeeCall, Time,
               vars, vaultVars, strategyVars
    <2> QED BY <1>0, <1>4, <2>1 DEF p
<1> QED BY <1>2, <1>3, <1>5, <1>6, <1>7, <1>8 DEF Next, AccountingNext, Withdrawals

\* While nothing is paused or flagged, no pull of the auto-unwind is refused.
LEMMA NoPullRefused ==
    ASSUME TypeOK, CoverInv, \A s \in Strategies : ~stratPaused[s],
           NEW st \in Purses, NEW s \in Listed, NEW units \in Nat,
           units > 0, units <= st.position[s]
    PROVE  LET r == Pull(st, s, units)
           IN  /\ r \in Purses /\ r.ok = st.ok
               /\ r.cash = st.cash + units
               /\ r.position = [st.position EXCEPT ![s] = @ - units]
<1>1. /\ s \in Strategies /\ st.position \in [Strategies -> Nat]
      /\ st.cash \in Nat /\ st.pool \in Nat /\ cash \in Nat /\ pool \in Nat
      /\ position \in [Strategies -> Nat]
      /\ st.position[s] <= position[s] /\ st.cash + st.pool = cash + pool
      /\ st.cash + SumFunctionOnSet(st.position, Strategies)
             = cash + SumFunctionOnSet(position, Strategies)
    BY ListedAre DEF Purses, TypeOK
<1>2. s \in BlendStrategies
    BY <1>1 DEF CoverInv, FundedInv
<1>3. units <= st.pool
    <2> DEFINE x == SumFunctionOnSet(position, Strategies)
               y == SumFunctionOnSet(st.position, Strategies)
    <2>1. st.position[s] <= y /\ y \in Nat
        <3>1. y = SumFunction(st.position)
            BY <1>1, Zenon DEF SumFunction
        <3> QED BY <1>1, <3>1, AreFinite, SumOfNat
    <2>2. x \in Nat /\ x <= pool
        BY <1>1, AreFinite, SumType DEF CoverInv
    <2>3. st.cash + y = cash + x /\ st.position[s] \in Nat
        BY <1>1
    <2> HIDE DEF x, y
    <2> QED BY <1>1, <2>1, <2>2, <2>3
<1> QED BY <1>1, <1>2, <1>3, PullMoves

\* What a strategy holds is what it is worth.
LEMMA HeldIsPosition ==
    ASSUME TypeOK, CoverInv, lpFlagged = {}, NEW st \in Purses, NEW s \in Strategies
    PROVE  Held(st, s) = st.position[s]
<1>1. position[s] \in Nat /\ st.position[s] \in Nat /\ st.position[s] <= position[s]
    BY DEF TypeOK, Purses
<1>2. s = PairStrategy => position[s] = 0
    BY <1>1 DEF CoverInv, FundedInv, BlendStrategies
<1>3. GetValue(s, st.position) = st.position[s]
    BY <1>1, <1>2 DEF CoverInv, GetValue, LpValue
<1> QED BY <1>3 DEF CoverInv, Held, StrategyValue

LEMMA UnwindCovers ==
    ASSUME TypeOK, CoverInv, lpFlagged = {}, \A s \in Strategies : ~stratPaused[s],
           NEW need \in Nat, need <= Principal
    PROVE  Liquidate(need).ok /\ Liquidate(need).cash >= need
<1> DEFINE start == [cash |-> cash, position |-> position, pool |-> pool, ok |-> TRUE]
           f == [i \in DOMAIN strategies |-> Held(start, strategies[i])]
           total == SumFunction(f)
           prorated == ProRataAll(need, total, start)
           T == {st \in Purses : st.ok}
           Done == {p \in T \X Listed : p[1].cash >= need \/ p[1].position[p[2]] = 0}
<1>1. /\ start \in T /\ total \in Nat
      /\ cash >= need \/ total = 0 => Liquidate(need) = start
      /\ cash < need /\ total > 0 => Liquidate(need) = SweepAll(need, prorated)
    BY LiquidateRuns
<1>2. cash \in Nat /\ position \in [Strategies -> Nat]
    BY DEF TypeOK
<1>3. Listed \subseteq Strategies
    BY ListedAre
<1>4. start.cash = cash /\ start.position = position
    OBVIOUS
<1> HIDE DEF start, total
\* Whoever holds nothing more at a listed strategy holds everything himself.
<1>5. ASSUME NEW st \in Purses, \A s \in Listed : st.position[s] = 0
      PROVE  st.cash >= need
    <2> DEFINE x == SumFunctionOnSet(position, Strategies)
               g == st.position
    <2>1. /\ g \in [Strategies -> Nat] /\ st.cash \in Nat
          /\ st.cash + SumFunctionOnSet(g, Strategies) = cash + x
        BY <1>5 DEF Purses
    <2>2. \A s \in Strategies : g[s] = 0
        BY <1>2, <1>5 DEF Purses, CoverInv, FundedInv
    <2>3. g = [s \in Strategies |-> 0]
        BY <2>1, <2>2
    <2>4. SumFunctionOnSet(g, Strategies) = 0
        <3>1. SumFunction(g) = 0
            BY <2>3, AreFinite, SumOfZeros
        <3>2. SumFunction(g) = SumFunctionOnSet(g, Strategies)
            BY <2>1, Zenon DEF SumFunction
        <3> QED BY <3>1, <3>2
    <2>5. Principal = cash + x /\ x \in Nat
        BY PrincipalIs
    <2> HIDE DEF x, g
    <2> QED BY <1>2, <2>1, <2>4, <2>5
<1>6. CASE cash >= need
    BY <1>1, <1>4, <1>6
<1>7. CASE cash < need /\ total = 0
    <2>1. f \in [DOMAIN strategies -> Nat] /\ IsFiniteSet(DOMAIN strategies)
        <3>1. start \in Purses
            BY <1>1
        <3> QED BY <3>1, ListedAre, HeldNat
    <2> HIDE DEF f
    <2>2. \A i \in DOMAIN strategies : f[i] <= 0 /\ f[i] \in Nat
        BY <1>7, <2>1, SumOfNat DEF total
    <2>3. \A i \in DOMAIN strategies : Held(start, strategies[i]) = 0
        BY <2>2 DEF f
    <2>4. \A s \in Listed : Held(start, s) = 0
        BY <2>3, ListedAre
    <2>5. \A s \in Listed : start.position[s] = 0
        BY <1>1, <1>3, <2>4, HeldIsPosition
    <2>6. start.cash >= need
        BY <1>1, <1>5, <2>5
    <2> QED BY <1>1, <1>7, <2>6
<1>8. CASE cash < need /\ total > 0
    <2>1. ASSUME NEW st \in T, NEW s \in Listed
          PROVE  ProRata(need, total, st, s) \in T
        <3>1. Held(st, s) = st.position[s]
            BY <1>3, HeldIsPosition
        <3>2. ASSUME NEW units \in Nat, units > 0, units <= Held(st, s)
              PROVE  Pull(st, s, units) \in T
            BY <3>1, <3>2, NoPullRefused
        <3> QED BY <1>1, <1>8, <3>2, ProRataPulls
    <2>2. ASSUME NEW st \in T, NEW s \in Listed
          PROVE  /\ Sweep(need, st, s) \in T
                 /\ <<Sweep(need, st, s), s>> \in Done
                 /\ \A r \in Listed : <<st, r>> \in Done => <<Sweep(need, st, s), r>> \in Done
        <3>1. /\ Held(st, s) = st.position[s] /\ st.cash \in Nat
              /\ st.position \in [Strategies -> Nat] /\ s \in Strategies
            BY <1>3, HeldIsPosition DEF Purses
        <3>2. CASE Sweep(need, st, s) = st /\ (Held(st, s) = 0 \/ st.cash >= need)
            BY <3>1, <3>2
        <3>3. ASSUME NEW units \in Nat, units > 0, units <= Held(st, s),
                     units = Held(st, s) \/ st.cash + units = need,
                     Sweep(need, st, s) = Pull(st, s, units)
              PROVE  /\ Sweep(need, st, s) \in T
                     /\ <<Sweep(need, st, s), s>> \in Done
                     /\ \A r \in Listed : <<st, r>> \in Done => <<Sweep(need, st, s), r>> \in Done
            <4> DEFINE q == Sweep(need, st, s)
            <4>1. /\ q \in T /\ q.cash = st.cash + units
                  /\ q.position = [st.position EXCEPT ![s] = @ - units]
                BY <3>1, <3>3, NoPullRefused
            <4> HIDE DEF q
            <4>2. \A r \in Listed : q.position[r] = IF r = s THEN st.position[s] - units
                                                    ELSE st.position[r]
                BY <1>3, <3>1, <4>1
            <4>3. q.cash >= need \/ q.position[s] = 0
                BY <3>1, <3>3, <4>1, <4>2
            <4>4. ASSUME NEW r \in Listed, <<st, r>> \in Done
                  PROVE  q.cash >= need \/ q.position[r] = 0
                <5>1. st.cash >= need \/ st.position[r] = 0
                    BY <4>4
                <5> QED BY <3>1, <3>3, <4>1, <4>2, <4>3, <5>1
            <4> QED BY <4>1, <4>3, <4>4 DEF q
        <3> HIDE DEF T, Done
        <3>4. st \in Purses
            BY DEF T
        <3> QED BY <3>2, <3>3, <3>4, SweepPulls
    <2>3. prorated \in T
        <3> HIDE DEF T
        <3> QED BY <1>1, <2>1, ProRataLoop
    <2> DEFINE end == SweepAll(need, prorated)
    <2>4. end \in T /\ \A s \in Listed : <<end, s>> \in Done
        <3> HIDE DEF T, Done, prorated
        <3> QED BY <2>2, <2>3, SweepLoop
    <2>5. Liquidate(need) = end
        BY <1>1, <1>8
    <2> HIDE DEF end
    <2>6. end \in Purses /\ end.ok /\ \A s \in Listed : end.cash >= need \/ end.position[s] = 0
        BY <2>4
    <2>7. end.cash >= need
        BY <1>5, <2>6
    <2> QED BY <2>5, <2>6, <2>7
<1>9. total \in Nat
    BY <1>1
<1> HIDE DEF f
<1> QED BY <1>2, <1>6, <1>7, <1>8, <1>9

\* The auto-unwind covers any payment up to the NAV, whatever the split over
\* the strategies, the rounding of the shares and the repetitions of the list.
THEOREM AutoUnwindAlwaysCovers ==
    ASSUME "sync" \notin Calls, "set_oracle" \notin Calls
    PROVE  Spec => []AutoUnwindCovers
<1>1. Init => CoverInv
    <2> SUFFICES ASSUME Init PROVE CoverInv
        OBVIOUS
    <2>1. TypeOK /\ position = [s \in Strategies |-> 0]
        BY VaultInvInit DEF VaultInv, Init
    <2>2. SumFunctionOnSet(position, Strategies) = 0
        <3>1. SumFunction(position) = 0
            BY <2>1, AreFinite, SumOfZeros
        <3>2. SumFunction(position) = SumFunctionOnSet(position, Strategies)
            BY <2>1, Zenon DEF SumFunction
        <3> QED BY <3>1, <3>2
    <2> QED BY <2>1, <2>2 DEF Init, LpInit, CoverInv, FundedInv
<1>2. VaultInv /\ VaultInv' /\ CoverInv /\ [Next]_vars => CoverInv'
    <2> SUFFICES ASSUME VaultInv, VaultInv', CoverInv, [Next]_vars PROVE CoverInv'
        OBVIOUS
    <2>1. FundedInv'
        BY FundedNext DEF CoverInv
    <2>2. oracleSet' = oracleSet /\ lpBalance' = lpBalance
        BY OracleAndListNext DEF lpVars
    <2>3. SumFunctionOnSet(position', Strategies) <= pool'
        BY PoolCoversNext DEF CoverInv
    <2> QED BY <2>1, <2>2, <2>3 DEF CoverInv
<1>3. VaultInv /\ CoverInv => AutoUnwindCovers
    <2> SUFFICES ASSUME VaultInv, CoverInv, AtPar, lpFlagged = {},
                        \A s \in Strategies : ~stratPaused[s], NEW need \in 1 .. Nav
                 PROVE  Liquidate(need).ok /\ Liquidate(need).cash >= need
        BY DEF AutoUnwindCovers
    <2>1. TypeOK /\ Nav \in Nat /\ Nav = Principal
        BY NavNat DEF VaultInv, AtPar
    <2>2. need \in Nat /\ need <= Principal
        BY <2>1
    <2> QED BY <2>1, <2>2, UnwindCovers
<1> QED BY <1>1, <1>2, <1>3, VaultInvariant, PTL DEF Spec

-----------------------------------------------------------------------------
(* Recovery *)

\* A loss limit tolerates a loss, so it refuses nothing that loses nothing.
LEMMA NothingLostIsKept ==
    ASSUME NEW before \in Nat, NEW after \in Nat, NEW bps \in Nat, before <= after
    PROVE  after >= MinNav(before, bps)
<1> DEFINE lost == (before * bps) \div FEE_DENOMINATOR
<1>1. lost \in Nat
    BY MathAssumption, ProductNat, DivBounds
<1>2. MinNav(before, bps) = before - lost
    BY DEF MinNav
<1> HIDE DEF lost
<1> QED BY <1>1, <1>2

\* Taking a position back whole moves its units into the vault's base asset
\* and its value out of the sum, and nothing else of the sum changes.
LEMMA WholePositionBack ==
    ASSUME TypeOK, OnlyBlend(position), NEW s \in Listed, position[s] > 0,
           CountedAtMostPar(s)
    PROVE  NavAfterUnwind(s, position[s]) >= Nav
<1> DEFINE D == DOMAIN strategies
           units == position[s]
           left == Credit(position, s, -units)
           f == [i \in D |-> StrategyValue(strategies[i], GetValue(strategies[i], position))]
           g == [i \in D |-> StrategyValue(strategies[i], GetValue(strategies[i], left))]
<1>1. /\ s \in Strategies /\ position \in [Strategies -> Nat] /\ cash \in Nat
      /\ units \in Nat /\ s # PairStrategy
    BY ListedAre DEF TypeOK, OnlyBlend, BlendStrategies
<1>2. /\ left \in [Strategies -> Nat] /\ left[s] = 0
      /\ \A r \in Strategies \ {s} : left[r] = position[r]
    BY <1>1 DEF Credit
<1>3. PICK x \in D : strategies[x] = s
    BY ListedAre
<1>4. f \in [D -> Nat] /\ g \in [D -> Nat]
    BY <1>1, <1>2, ListedAre, GetValueNat, StrategyValueNat
<1>5. \A y \in D \ {x} : f[y] = g[y]
    <2>1. \A y \in D \ {x} : strategies[y] \in Strategies \ {s}
        BY <1>3, ListedAre DEF CountedAtMostPar
    <2>2. \A r \in Strategies \ {s} : GetValue(r, left) = GetValue(r, position)
        BY <1>2 DEF GetValue
    <2> QED BY <2>1, <2>2
<1>6. f[x] <= units /\ g[x] = 0
    <2>1. GetValue(s, position) = units /\ GetValue(s, left) = 0
        BY <1>1, <1>2 DEF GetValue
    <2>2. StrategyValue(s, units) <= units /\ StrategyValue(s, 0) = 0
        BY DEF CountedAtMostPar, StrategyValue
    <2> QED BY <1>3, <2>1, <2>2
<1>7. Nav = cash + SumFunction(f) /\ NavAfterUnwind(s, units) = cash + units + SumFunction(g)
    BY DEF Nav, NavOf, NavAfterUnwind
<1>8. IsFiniteSet(D)
    BY ListedAre
<1> HIDE DEF f, g, D
<1>9. /\ SumFunction(f) \in Int /\ SumFunction(g) \in Int
      /\ SumFunction(g) = SumFunction(f) - f[x] + g[x]
    <2>1. f \in [D -> Int] /\ g \in [D -> Int]
        BY <1>4
    <2> QED BY <1>3, <1>5, <1>8, <2>1, SumChanged
<1>10. f[x] \in Nat
    BY <1>3, <1>4
<1> HIDE DEF units
<1> QED BY <1>1, <1>6, <1>7, <1>9, <1>10 DEF units

\* The manager can take back every position that its pool covers, paused or
\* not, at any prices of the other strategies and in any order of settings:
\* only a limit that reads the NAV asks that it can be read, and then that the
\* position counts for no more than it brings.
THEOREM PositionsComeBack == Spec => []PauseKeepsRecovery
<1>1. Init => OnlyBlend(position)
    BY DEF Init, OnlyBlend
<1>2. VaultInv /\ VaultInv' /\ OnlyBlend(position) /\ [Next]_vars => OnlyBlend(position)'
    BY OnlyBlendNext DEF OnlyBlend
<1>3. VaultInv /\ OnlyBlend(position) => PauseKeepsRecovery
    <2> SUFFICES ASSUME VaultInv, OnlyBlend(position), NEW s \in Listed,
                        position[s] \in 1 .. pool, ~stratPaused[s],
                        ReadsNav => /\ Readable(position) /\ CountedAtMostPar(s)
                                    /\ opState[manager] = None \/ opState[manager].ledger < now
                 PROVE  MayUnwind(manager, s, position[s])
        BY DEF PauseKeepsRecovery
    <2>1. /\ TypeOK /\ s \in Strategies /\ position \in [Strategies -> Nat] /\ cash \in Nat
          /\ pool \in Nat /\ now \in Nat
        BY ListedAre DEF VaultInv, TypeOK, FeeTypeOK
    <2>2. position[s] > 0 /\ position[s] <= pool /\ position[s] \in Nat
        BY <2>1
    <2>3. Withdrawable(s, position[s])
        BY <2>1, <2>2 DEF Withdrawable, PoolPays, OnlyBlend
    <2>4. ReadsNav => Readable(position) /\ OpGuardAllows(manager, "unwind")
        BY <2>1 DEF OpGuardAllows
    <2>5. ASSUME config.max_loss_bps > 0
          PROVE  NavAfterUnwind(s, position[s]) >= MinNav(Nav, config.max_loss_bps)
        <3>1. NavAfterUnwind(s, position[s]) >= Nav
            BY <2>1, <2>2, <2>5, WholePositionBack DEF ReadsNav
        <3>2. Nav \in Nat /\ config.max_loss_bps \in Nat
            <4>1. config.max_loss_bps \in Nat
                BY <2>1, MathAssumption DEF TypeOK, ConfigType
            <4> QED BY <2>1, <4>1, NavNat
        <3>3. NavAfterUnwind(s, position[s]) \in Nat
            <4>1. Credit(position, s, -position[s]) \in [Strategies -> Nat]
                BY <2>1 DEF Credit
            <4>2. cash + position[s] \in Nat
                BY <2>1
            <4> QED BY <2>1, <4>1, <4>2, NavBounds DEF NavAfterUnwind
        <3> QED BY <3>1, <3>2, <3>3, NothingLostIsKept
    <2> QED BY <2>2, <2>3, <2>4, <2>5 DEF MayUnwind
<1> QED BY <1>1, <1>2, <1>3, VaultInvariant, PTL DEF Spec

-----------------------------------------------------------------------------
(* The same-ledger value guard *)

\* A step of VaultSameLedger is a step of the vault: an account that invests or
\* unwinds is the manager.
LEMMA GuardStepIsVaultStep ==
    ASSUME VaultInv, [GuardNext]_guardVars
    PROVE  [Next]_vars
<1>1. manager \in Managers
    BY DEF VaultInv, TypeOK, FeeTypeOK
<1>2. ASSUME NEW a \in Accounts, NEW op \in Operations, Operates(a, op)
      PROVE  Next
    <2>1. ASSUME NEW n \in Amounts, NEW s \in Strategies, Invest(a, s, n) \/ Unwind(a, s, n)
          PROVE  a \in Managers
        BY <1>1, <2>1 DEF Invest, Unwind, MayUnwind
    <2> QED BY <1>2, <2>1
            DEF Operates, Next, AccountingNext, Deposits, Withdrawals, Investments, Unwindings
<1>3. CASE Removal \/ Reconfiguration \/ NewLedger \/ Unrelated
    BY <1>3 DEF Removal, Reconfiguration, NewLedger, Unrelated, MemberRemovals, Next, AccountingNext
<1>4. CASE UNCHANGED guardVars
    BY <1>4 DEF guardVars
<1> QED BY <1>2, <1>3, <1>4 DEF GuardNext, Operation

LEMMA GuardedVaultInvariant == GuardSpec => []VaultInv
<1>1. GuardInit => VaultInv
    BY VaultInvInit DEF GuardInit
<1>2. VaultInv /\ [GuardNext]_guardVars => VaultInv'
    BY GuardStepIsVaultStep, VaultInvNext
<1> QED BY <1>1, <1>2, PTL DEF GuardSpec

\* What an operation checks and leaves while the guard is on.
LEMMA OperationChecks ==
    ASSUME VaultInv, VaultInv', NEW a \in Accounts, NEW op \in Operations, Operates(a, op)
    PROVE  /\ now' = now /\ config' = config /\ Nav' \in Nat
           /\ config.value_guard =>
                /\ OpGuardAllows(a, op)
                /\ opState' = [opState EXCEPT ![a] =
                       [ledger |-> now, op_type |-> op, expected_nav_after |-> Nav']]
<1>1. /\ now' = now /\ config' = config
      /\ Checkpoint(a, op, NavOf(cash', position'))
      /\ UNCHANGED <<lpVars, listVars>>
    <2> DEFINE Done(k) == /\ now' = now /\ config' = config
                          /\ Checkpoint(a, k, NavOf(cash', position'))
                          /\ UNCHANGED <<lpVars, listVars>>
    <2>1. ASSUME NEW n \in Amounts, Deposit(a, n)
          PROVE  Done("deposit")
        BY <2>1 DEF Deposit, feeVars, strategyVars
    <2>2. ASSUME NEW n \in Amounts, Withdraw(a, n)
          PROVE  Done("withdraw")
        BY <2>2 DEF Withdraw, feeVars
    <2>3. ASSUME NEW n \in Amounts, NEW s \in Strategies, Invest(a, s, n)
          PROVE  Done("invest")
        BY <2>3 DEF Invest, feeVars
    <2>4. ASSUME NEW n \in Amounts, NEW s \in Strategies, Unwind(a, s, n)
          PROVE  Done("unwind")
        BY <2>4 DEF Unwind, MayUnwind, NavAfterUnwind, feeVars
    <2> HIDE DEF Done
    <2>5. Done(op)
        BY <2>1, <2>2, <2>3, <2>4 DEF Operates
    <2> QED BY <2>5 DEF Done
<1>2. Nav' = NavOf(cash', position')
    BY <1>1, NavFollows
<1>3. config.value_guard => OpGuardAllows(a, op)
    BY DEF Operates, Deposit, Withdraw, Invest, Unwind, MayUnwind, ReadsNav
<1>4. Nav' \in Nat
    <2>1. cash' \in Nat /\ position' \in [Strategies -> Nat]
        BY DEF VaultInv, TypeOK
    <2> QED BY <1>2, <2>1, NavBounds DEF VaultInv
<1> QED BY <1>1, <1>2, <1>3, <1>4 DEF Checkpoint

\* An operation under the guard: the account did nothing else in this ledger,
\* and finds the NAV it left.
LEMMA GuardedOperation ==
    ASSUME VaultInv, VaultInv', GuardInv, NEW a \in Accounts, NEW op \in Operations,
           Operation(a, op)
    PROVE  GuardInv'
<1>0. /\ now' = now /\ config' = config /\ Nav' \in Nat
      /\ config.value_guard =>
           /\ OpGuardAllows(a, op)
           /\ opState' = [opState EXCEPT ![a] =
                  [ledger |-> now, op_type |-> op, expected_nav_after |-> Nav']]
    BY OperationChecks DEF Operation
<1>1. /\ opState \in [Accounts -> OpStates \cup {None}] /\ now \in Nat
      /\ kinds \in [Accounts -> SUBSET Operations] /\ navLeft \in [Accounts -> Nat]
      /\ undisturbed
    BY DEF VaultInv, TypeOK, FeeTypeOK, GuardInv
<1>2. CASE ~config.value_guard
    <2>1. \A b \in Accounts : kinds'[b] = {}
        BY <1>2 DEF GuardInv, Operation, guardHistory
    <2>2. UNCHANGED guardHistory
        BY <1>2 DEF Operation
    <2> QED BY <1>1, <2>1, <2>2 DEF GuardInv, guardHistory
<1>3. CASE config.value_guard
    <2>1. /\ undisturbed' = (undisturbed /\ (kinds[a] # {} => Nav = navLeft[a]))
          /\ kinds' = [kinds EXCEPT ![a] = kinds[a] \cup {op}]
          /\ navLeft' = [navLeft EXCEPT ![a] = Nav']
        BY <1>3 DEF Operation
    <2>2. ASSUME kinds[a] # {}
          PROVE  kinds[a] = {op} /\ Nav = navLeft[a]
        <3>1. PICK k \in Operations :
                /\ kinds[a] = {k}
                /\ opState[a] = [ledger |-> now, op_type |-> k, expected_nav_after |-> navLeft[a]]
            BY <2>2 DEF GuardInv
        <3>2. opState[a] \in OpStates
            BY <1>1, <3>1 DEF OpStates
        <3>3. opState[a] # None /\ opState[a].ledger = now
            BY <3>1, <3>2, AbsenceAssumption
        <3>4. opState[a].op_type = op /\ opState[a].expected_nav_after = Nav
            BY <1>0, <1>3, <3>3 DEF OpGuardAllows
        <3> QED BY <3>1, <3>4
    <2>3. undisturbed'
        BY <1>1, <2>1, <2>2
    <2>4. kinds' \in [Accounts -> SUBSET Operations] /\ navLeft' \in [Accounts -> Nat]
        BY <1>0, <1>1, <2>1
    <2>5. /\ kinds'[a] = {op} /\ navLeft'[a] = Nav'
          /\ opState'[a] = [ledger |-> now', op_type |-> op, expected_nav_after |-> Nav']
        BY <1>0, <1>1, <1>3, <2>1, <2>2
    <2>6. \A b \in Accounts \ {a} :
            kinds'[b] = kinds[b] /\ navLeft'[b] = navLeft[b] /\ opState'[b] = opState[b]
        BY <1>0, <1>1, <1>3, <2>1
    <2>7. ASSUME NEW b \in Accounts, kinds'[b] # {}
          PROVE  \E k \in Operations :
                    /\ kinds'[b] = {k}
                    /\ opState'[b] = [ledger |-> now', op_type |-> k,
                                      expected_nav_after |-> navLeft'[b]]
        <3>1. CASE b = a
            BY <2>5, <3>1
        <3>2. CASE b # a
            BY <1>0, <2>6, <2>7, <3>2 DEF GuardInv
        <3> QED BY <3>1, <3>2
    <2> QED BY <1>0, <1>3, <2>3, <2>4, <2>7 DEF GuardInv
<1> QED BY <1>2, <1>3

LEMMA GuardInvNext ==
    ASSUME VaultInv, VaultInv', GuardInv, [GuardNext]_guardVars
    PROVE  GuardInv'
<1>1. ASSUME NEW a \in Accounts, NEW op \in Operations, Operation(a, op)
      PROVE  GuardInv'
    BY <1>1, GuardedOperation
<1>2. CASE Removal
    <2>1. PICK c \in Managers, a \in Accounts :
            /\ RemoveMember(c, a)
            /\ kinds' = [kinds EXCEPT ![a] = {}] /\ navLeft' = [navLeft EXCEPT ![a] = 0]
            /\ undisturbed' = undisturbed
        BY <1>2 DEF Removal
    <2>2. /\ now' = now /\ config' = config /\ opState \in [Accounts -> OpStates \cup {None}]
          /\ opState' = [opState EXCEPT ![a] = None]
        BY <2>1 DEF RemoveMember, feeVars, VaultInv, TypeOK
    <2> QED BY <2>1, <2>2 DEF GuardInv
<1>3. CASE Reconfiguration
    <2>1. now' = now /\ opState' = opState
        BY <1>3
           DEF Reconfiguration, ConfigCall, AccessCall, Configure, Pause, Unpause, SetDepositCap,
               SetMaxLossBps, SetMaxConcentrationBps, SetPrivatePool, SetValueGuardEnabled,
               SetExitCooldownSecs, feeVars, accountVars
    <2>2. /\ kinds' = IF config'.value_guard THEN kinds ELSE Fresh
          /\ navLeft' = navLeft /\ undisturbed' = undisturbed
        BY <1>3 DEF Reconfiguration
    <2>3. CASE config'.value_guard
        BY <2>1, <2>2, <2>3 DEF GuardInv
    <2>4. CASE ~config'.value_guard
        BY <2>1, <2>2, <2>4 DEF GuardInv, Fresh
    <2> QED BY <2>3, <2>4
<1>4. CASE NewLedger
    BY <1>4 DEF NewLedger, Fresh, GuardInv
<1>5. CASE Unrelated \/ UNCHANGED guardVars
    <2>1. UNCHANGED guardHistory
        BY <1>5 DEF Unrelated, guardVars
    <2>2. now' = now /\ opState' = opState /\ config' = config
        <3>1. CASE ListCall \/ MemberAdditions \/ HolderCall
            BY <3>1
               DEF ListCall, SetStrategies, SetLpStrategy, SetOracle, SetStrategyOracleToken,
                   MemberAdditions, AddMember, HolderCall, TransferShares, BurnShares, feeVars,
                   accountVars
        <3>2. CASE StrategyCall \/ Environment \/ UNCHANGED vars
            BY <3>2
               DEF StrategyCall, SyncPosition, SetStrategyPaused, Environment, Donate, AddYield,
                   PublishPrice, vars, vaultVars, feeVars, accountVars
        <3> QED BY <1>5, <3>1, <3>2 DEF Unrelated, guardVars
    <2> QED BY <2>1, <2>2 DEF GuardInv, guardHistory
<1> QED BY <1>1, <1>2, <1>3, <1>4, <1>5 DEF GuardNext

LEMMA GuardInvariant == GuardSpec => []GuardInv
<1>1. GuardInit => GuardInv
    BY DEF GuardInit, GuardInv, Fresh
<1>2. VaultInv /\ VaultInv' /\ GuardInv /\ [GuardNext]_guardVars => GuardInv'
    BY GuardInvNext
<1> QED BY <1>1, <1>2, GuardedVaultInvariant, PTL DEF GuardSpec

\* With the guard on, nobody mixes two kinds of operation within one ledger.
THEOREM OneKindInALedger == GuardSpec => []OneKindPerLedger
<1>1. ASSUME GuardInv, NEW a \in Accounts
      PROVE  Cardinality(kinds[a]) <= 1
    <2>1. CASE kinds[a] = {}
        BY <2>1, FS_EmptySet
    <2>2. CASE kinds[a] # {}
        <3>1. PICK op \in Operations : kinds[a] = {op}
            BY <1>1, <2>2 DEF GuardInv
        <3>2. Cardinality({op}) = 1
            BY FS_Singleton, Zenon
        <3> QED BY <3>1, <3>2
    <2> QED BY <2>1, <2>2
<1>2. GuardInv => OneKindPerLedger
    BY <1>1 DEF OneKindPerLedger
<1> QED BY <1>2, GuardInvariant, PTL

\* ... and nobody operates on a NAV other than the one he left.
THEOREM NavIsFoundAsLeft == GuardSpec => []NavFoundAsLeft
<1>1. GuardInv => NavFoundAsLeft
    BY DEF GuardInv, NavFoundAsLeft
<1> QED BY <1>1, GuardInvariant, PTL

-----------------------------------------------------------------------------
(* Accrued fees over time *)

\* A step of VaultAccrual is a step of the vault.
LEMMA AccrualStepIsVaultStep ==
    ASSUME [AccrualNext]_accrualSpecVars
    PROVE  [Next]_vars
<1>1. CASE AccrualNext
    BY <1>1 DEF AccrualNext, Collecting, Elapsing, Other, Next, AccountingNext
<1>2. CASE UNCHANGED accrualSpecVars
    BY <1>2 DEF accrualSpecVars
<1> QED BY <1>1, <1>2

LEMMA AccruingVaultInvariant == AccrualSpec => []VaultInv
<1>1. AccrualInit => VaultInv
    BY VaultInvInit DEF AccrualInit
<1>2. VaultInv /\ [AccrualNext]_accrualSpecVars => VaultInv'
    BY AccrualStepIsVaultStep, VaultInvNext
<1> QED BY <1>1, <1>2, PTL DEF AccrualSpec

\* What a deposit or a withdrawal mints for the fees: the management fee of the
\* time since the last one, and a performance fee above the mark only.
LEMMA CollectionMints ==
    ASSUME VaultInv, CollectFees
    PROVE  /\ Minted("mgmt") = IF supply = 0 THEN 0
                               ELSE MgmtFeeShares(Nav, supply, fees["mgmt"], now - lastMgmtFeeTs)
           /\ lastMgmtFeeTs' = now
           /\ highWaterMark' \in Nat /\ highWaterMark <= highWaterMark'
           /\ Minted("perf") > 0 => GainPrice > highWaterMark /\ GainPrice = highWaterMark'
<1>1. /\ Minted("mgmt") = Accrued.mgmt /\ Minted("perf") = Accrued.perf
      /\ lastMgmtFeeTs' = now /\ highWaterMark' = Accrued.mark
    <2>1. /\ feesMinted'.mgmt = feesMinted.mgmt + Accrued.mgmt
          /\ feesMinted'.perf = feesMinted.perf + Accrued.perf
          /\ feesMinted.mgmt \in Nat /\ feesMinted.perf \in Nat
        BY CollectKeeps DEF VaultInv, TypeOK
    <2>2. Accrued.mgmt \in Nat /\ Accrued.perf \in Nat
        BY AccruedBounds
    <2> QED BY <2>1, <2>2 DEF Minted, CollectFees
<1> DEFINE current == SharePrice(Nav, supply + Accrued.mgmt)
           gained  == supply > 0 /\ fees["perf"] > 0 /\ current > highWaterMark /\ highWaterMark > 0
<1>2. /\ Accrued.mgmt = IF supply = 0 THEN 0
                        ELSE MgmtFeeShares(Nav, supply, fees["mgmt"], now - lastMgmtFeeTs)
      /\ Accrued.mark = IF gained THEN current ELSE highWaterMark
      /\ Accrued.perf # 0 => gained
    BY DEF Accrued
<1>3. GainPrice = current
    BY <1>1 DEF GainPrice
<1>4. Accrued.mark \in Nat /\ highWaterMark <= Accrued.mark /\ Accrued.perf \in Nat
    BY AccruedBounds
<1> HIDE DEF current
<1> QED BY <1>1, <1>2, <1>3, <1>4

LEMMA AccrualInvNext ==
    ASSUME VaultInv, AccrualInv, [AccrualNext]_accrualSpecVars
    PROVE  AccrualInv'
<1>1. /\ now \in Nat /\ lastMgmtFeeTs \in Nat /\ highWaterMark \in Nat
      /\ elapsed \in Nat /\ peak \in Nat /\ now = lastMgmtFeeTs + elapsed /\ peak <= highWaterMark
    BY DEF VaultInv, TypeOK, FeeTypeOK, AccrualInv
<1>2. CASE Collecting
    <2>1. CollectFees /\ now' = now
        BY <1>2 DEF Collecting, Deposits, Deposit, Withdrawals, Withdraw, feeVars
    <2>2. /\ lastMgmtFeeTs' = now
          /\ highWaterMark' \in Nat /\ highWaterMark <= highWaterMark'
          /\ Minted("perf") > 0 => GainPrice > highWaterMark /\ GainPrice = highWaterMark'
        BY <2>1, CollectionMints
    <2>3. elapsed' = 0 /\ peak' = IF Minted("perf") > 0 THEN GainPrice ELSE peak
        BY <1>2 DEF Collecting
    <2> QED BY <1>1, <2>1, <2>2, <2>3 DEF AccrualInv
<1>3. CASE Elapsing
    <2>1. /\ now' = now + 1 /\ lastMgmtFeeTs' = lastMgmtFeeTs /\ highWaterMark' = highWaterMark
          /\ elapsed' = elapsed + 1 /\ peak' = peak
        BY <1>3 DEF Elapsing, Time, Tick, vaultVars, accrualVars
    <2> QED BY <1>1, <2>1 DEF AccrualInv
<1>4. CASE Other \/ UNCHANGED accrualSpecVars
    <2>1. UNCHANGED historyVars
        BY <1>4 DEF Other, accrualSpecVars
    <2>2. now' = now /\ lastMgmtFeeTs' = lastMgmtFeeTs /\ highWaterMark' = highWaterMark
        <3>1. CASE HolderCall \/ ConfigCall \/ AccessCall
            BY <3>1
               DEF HolderCall, TransferShares, BurnShares, ConfigCall, AccessCall, Configure, Pause,
                   Unpause, SetDepositCap, SetMaxLossBps, SetMaxConcentrationBps, SetPrivatePool,
                   SetValueGuardEnabled, SetExitCooldownSecs, feeVars, accrualVars
        <3>2. CASE Environment \/ RoleAndFeeCall \/ UNCHANGED vars
            BY <3>2
               DEF Environment, Donate, AddYield, PublishPrice, RoleAndFeeCall, FeeCall, SetManager,
                   SetTrader, SetFeeBps, AnnounceFeeIncrease, CommitFeeIncrease,
                   RenounceFeeIncrease, vars, vaultVars, feeVars, accrualVars
        <3> QED BY <1>4, <3>1, <3>2 DEF Other, accrualSpecVars
    <2> QED BY <1>1, <2>1, <2>2 DEF AccrualInv, historyVars
<1> QED BY <1>2, <1>3, <1>4 DEF AccrualNext

LEMMA AccrualInvariant == AccrualSpec => []AccrualInv
<1>1. AccrualInit => AccrualInv
    BY MathAssumption DEF AccrualInit, Init, FeeInit, AccrualInv
<1>2. VaultInv /\ AccrualInv /\ [AccrualNext]_accrualSpecVars => AccrualInv'
    BY AccrualInvNext
<1> QED BY <1>1, <1>2, AccruingVaultInvariant, PTL DEF AccrualSpec

\* A step of VaultAccrual that mints fee shares collects fees.
LEMMA MintingCollects ==
    ASSUME [AccrualNext]_accrualSpecVars, feesMinted' # feesMinted
    PROVE  CollectFees
<1>1. [Next]_vars
    BY AccrualStepIsVaultStep
<1>2. Deposits \/ Withdrawals
    BY <1>1, OthersMintNothing
<1> QED BY <1>2 DEF Deposits, Deposit, Withdrawals, Withdraw

\* A management fee covers no more time than has passed since the last one.
THEOREM ManagementFeeNotBackdated == AccrualSpec => MgmtFeeNotBackdated
<1> DEFINE Bounded == Minted("mgmt") <= MgmtFeeShares(Nav, supply, fees["mgmt"], elapsed)
<1>1. ASSUME VaultInv, AccrualInv, [AccrualNext]_accrualSpecVars
      PROVE  Bounded
    <2>1. /\ Nav \in Nat /\ supply \in Nat /\ fees["mgmt"] \in Nat /\ elapsed \in Nat
          /\ now \in Nat /\ lastMgmtFeeTs \in Nat /\ now - lastMgmtFeeTs = elapsed
          /\ feesMinted.mgmt \in Nat
        BY <1>1, NavNat DEF VaultInv, TypeOK, FeeTypeOK, FeeKinds, AccrualInv
    <2>2. MgmtFeeShares(Nav, supply, fees["mgmt"], elapsed) \in Nat
        BY <2>1, MgmtFeeSharesNat
    <2>3. CASE feesMinted' = feesMinted
        BY <2>1, <2>2, <2>3 DEF Minted
    <2>4. CASE feesMinted' # feesMinted
        <3>1. CollectFees
            BY <1>1, <2>4, MintingCollects
        <3>2. Minted("mgmt") = IF supply = 0 THEN 0
                               ELSE MgmtFeeShares(Nav, supply, fees["mgmt"], elapsed)
            BY <1>1, <2>1, <3>1, CollectionMints
        <3> QED BY <2>2, <3>2
    <2> QED BY <2>3, <2>4
<1>2. VaultInv /\ AccrualInv /\ [AccrualNext]_accrualSpecVars => [Bounded]_accrualSpecVars
    BY <1>1
<1> QED BY <1>2, AccruingVaultInvariant, AccrualInvariant, PTL DEF AccrualSpec, MgmtFeeNotBackdated

\* A performance fee is charged only above every price it was charged at before.
THEOREM GainsChargedOnce == AccrualSpec => GainChargedOnce
<1> DEFINE Above == Minted("perf") > 0 => GainPrice > peak
<1>1. ASSUME VaultInv, AccrualInv, [AccrualNext]_accrualSpecVars
      PROVE  Above
    <2>1. CASE feesMinted' = feesMinted
        <3>1. feesMinted.perf \in Nat
            BY <1>1 DEF VaultInv, TypeOK
        <3> QED BY <2>1, <3>1 DEF Minted
    <2>2. CASE feesMinted' # feesMinted
        <3>1. CollectFees
            BY <1>1, <2>2, MintingCollects
        <3>2. Minted("perf") > 0 => GainPrice > highWaterMark /\ GainPrice = highWaterMark'
            BY <1>1, <3>1, CollectionMints
        <3>3. /\ peak \in Nat /\ peak <= highWaterMark
              /\ highWaterMark \in Nat /\ highWaterMark' \in Nat
            BY <1>1, <3>1, CollectionMints DEF VaultInv, TypeOK, AccrualInv
        <3> QED BY <3>2, <3>3
    <2> QED BY <2>1, <2>2
<1>2. VaultInv /\ AccrualInv /\ [AccrualNext]_accrualSpecVars => [Above]_accrualSpecVars
    BY <1>1
<1> QED BY <1>2, AccruingVaultInvariant, AccrualInvariant, PTL DEF AccrualSpec, GainChargedOnce

=============================================================================
