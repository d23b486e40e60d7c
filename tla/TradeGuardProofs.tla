-------------------------- MODULE TradeGuardProofs --------------------------
(***************************************************************************)
(* The checks of both guards for every width, tolerance, list and path.    *)
(***************************************************************************)
EXTENDS TradeGuards, TLAPS

\* Products keep the order of their factors.
LEMMA ProductMono ==
    ASSUME NEW x \in Nat, NEW y \in Nat, NEW c \in Nat, x <= y
    PROVE  x * c <= y * c /\ x * c \in Nat
OBVIOUS

\* Saturated products are natural numbers and keep that order.
LEMMA SaturatingMono ==
    ASSUME NEW x \in Nat, NEW y \in Nat, NEW c \in Nat, x <= y
    PROVE  /\ SaturatingMul(x, c) \in Nat
           /\ SaturatingMul(x, c) <= SaturatingMul(y, c)
<1>1. MaxI128 \in Nat
    BY GuardAssumption
<1>2. x * c \in Nat /\ y * c \in Nat /\ x * c <= y * c
    BY ProductMono
<1> QED
    BY <1>1, <1>2 DEF SaturatingMul

\* A saturated product is a natural number.
LEMMA SaturatingNat ==
    ASSUME NEW x \in Nat, NEW c \in Nat
    PROVE  SaturatingMul(x, c) \in Nat
<1>1. MaxI128 \in Nat /\ x * c \in Nat
    BY GuardAssumption, ProductMono
<1> QED
    BY <1>1 DEF SaturatingMul

\* Where products are exact the saturated comparison is the exact one.
LEMMA ExactSlippage ==
    ASSUME NEW q \in Nat, NEW d \in Nat,
           Unsaturated(q), Unsaturated(d),
           SaturatingMul(d, BPS) <= SaturatingMul(q, MAX_SLIPPAGE_BPS)
    PROVE  d * BPS <= q * MAX_SLIPPAGE_BPS
<1>1. /\ MaxI128 \in Nat /\ BPS \in Nat /\ MAX_SLIPPAGE_BPS \in Nat
      /\ MAX_SLIPPAGE_BPS <= BPS
    BY GuardAssumption
<1>2. MAX_SLIPPAGE_BPS * q <= BPS * q
    BY <1>1, ProductMono
<1>3. q * MAX_SLIPPAGE_BPS <= q * BPS
    BY <1>1, <1>2
<1>4. q * MAX_SLIPPAGE_BPS \in Nat /\ q * BPS \in Nat /\ d * BPS \in Nat
    BY <1>1, ProductMono
<1>5. q * MAX_SLIPPAGE_BPS <= MaxI128
    BY <1>1, <1>3, <1>4 DEF Unsaturated
<1>6. SaturatingMul(d, BPS) = d * BPS
    BY <1>1, <1>4 DEF SaturatingMul, Unsaturated
<1>7. SaturatingMul(q, MAX_SLIPPAGE_BPS) = q * MAX_SLIPPAGE_BPS
    BY <1>1, <1>4, <1>5 DEF SaturatingMul
<1> QED
    BY <1>6, <1>7

\* A smaller amount saturates no sooner.
LEMMA UnsaturatedBelow ==
    ASSUME NEW x \in Nat, NEW y \in Nat, x <= y, Unsaturated(y)
    PROVE  Unsaturated(x)
<1>1. MaxI128 \in Nat /\ BPS \in Nat
    BY GuardAssumption
<1>2. x * BPS <= y * BPS /\ x * BPS \in Nat /\ y * BPS \in Nat
    BY <1>1, ProductMono
<1> QED
    BY <1>1, <1>2 DEF Unsaturated

\* An accepted minimum output is within the tolerance.
LEMMA ExactInKeepsQuote ==
    ASSUME NEW l \in Int, NEW q \in Int, CheckSlippage(l, q), Unsaturated(q)
    PROVE  WithinSlippage(l, q, q)
<1>1. l \in Nat /\ q \in Nat /\ q - l \in Nat /\ q - l <= q
    BY DEF CheckSlippage
<1>2. Unsaturated(q - l)
    BY <1>1, UnsaturatedBelow
<1>3. SaturatingMul(q - l, BPS) <= SaturatingMul(q, MAX_SLIPPAGE_BPS)
    BY DEF CheckSlippage
<1>4. (q - l) * BPS <= q * MAX_SLIPPAGE_BPS
    BY <1>1, <1>2, <1>3, ExactSlippage
<1> QED
    BY <1>4 DEF WithinSlippage

\* An accepted maximum input is within the tolerance.
LEMMA ExactOutKeepsQuote ==
    ASSUME NEW l \in Int, NEW q \in Int, CheckExactOutSlippage(l, q), l > 0,
           Unsaturated(q), Unsaturated(l)
    PROVE  WithinSlippage(q, l, q)
<1>1. /\ BPS \in Nat /\ MAX_SLIPPAGE_BPS \in Nat
    BY GuardAssumption
<1>2. q \in Nat /\ l \in Nat
    BY DEF CheckExactOutSlippage
<1>3. q * MAX_SLIPPAGE_BPS \in Nat
    BY <1>1, <1>2, ProductMono
<1>4. CASE l > q
  <2>1. l - q \in Nat /\ l - q <= l
      BY <1>2, <1>4
  <2>2. Unsaturated(l - q)
      BY <1>2, <2>1, UnsaturatedBelow
  <2>3. SaturatingMul(l - q, BPS) <= SaturatingMul(q, MAX_SLIPPAGE_BPS)
      BY <1>4 DEF CheckExactOutSlippage
  <2>4. (l - q) * BPS <= q * MAX_SLIPPAGE_BPS
      BY <1>2, <2>1, <2>2, <2>3, ExactSlippage
  <2> QED
      BY <2>4 DEF WithinSlippage
<1>5. CASE l <= q
  <2> DEFINE n == q - l
  <2>1. n \in Nat /\ l - q = -n
      BY <1>2, <1>5
  <2>2. n * BPS \in Nat
      BY <1>1, <2>1, ProductMono
  <2>3. (l - q) * BPS = -(n * BPS)
      BY <1>1, <2>1
  <2> HIDE DEF n
  <2> QED
      BY <1>3, <2>2, <2>3 DEF WithinSlippage
<1> QED
    BY <1>2, <1>4, <1>5

\* A higher minimum output is accepted where a lower one is.
LEMMA MoreOut ==
    ASSUME NEW q \in Int, NEW l \in Int, NEW m \in Int,
           CheckSlippage(l, q), l <= m, m <= q
    PROVE  CheckSlippage(m, q)
<1>0. BPS \in Nat /\ MAX_SLIPPAGE_BPS \in Nat
    BY GuardAssumption
<1>1. /\ q \in Nat /\ m \in Nat /\ l \in Nat
      /\ q - m \in Nat /\ q - l \in Nat /\ q - m <= q - l
    BY DEF CheckSlippage
<1>2. /\ SaturatingMul(q - m, BPS) \in Nat
      /\ SaturatingMul(q - m, BPS) <= SaturatingMul(q - l, BPS)
    BY <1>0, <1>1, SaturatingMono
<1>3. /\ SaturatingMul(q - l, BPS) \in Nat
      /\ SaturatingMul(q, MAX_SLIPPAGE_BPS) \in Nat
    BY <1>0, <1>1, SaturatingNat
<1> QED
    BY <1>1, <1>2, <1>3 DEF CheckSlippage

\* A lower maximum input is accepted where a higher one is.
LEMMA LessIn ==
    ASSUME NEW q \in Int, NEW l \in Int, NEW m \in Int,
           CheckExactOutSlippage(l, q), m <= l
    PROVE  CheckExactOutSlippage(m, q)
<1>0. BPS \in Nat /\ MAX_SLIPPAGE_BPS \in Nat
    BY GuardAssumption
<1>1. q \in Nat /\ 0 < q
    BY DEF CheckExactOutSlippage
<1>2. CASE m > q
  <2>1. /\ m - q \in Nat /\ l - q \in Nat /\ m - q <= l - q /\ l > q
      BY <1>1, <1>2
  <2>2. /\ SaturatingMul(m - q, BPS) <= SaturatingMul(l - q, BPS)
        /\ SaturatingMul(m - q, BPS) \in Nat /\ SaturatingMul(l - q, BPS) \in Nat
        /\ SaturatingMul(q, MAX_SLIPPAGE_BPS) \in Nat
      BY <1>0, <1>1, <2>1, SaturatingMono, SMTT(30)
  <2> QED
      BY <1>1, <2>1, <2>2 DEF CheckExactOutSlippage
<1>3. CASE ~(m > q)
    BY <1>1, <1>3 DEF CheckExactOutSlippage
<1> QED
    BY <1>2, <1>3

-----------------------------------------------------------------------------

\* What a guard has let through has the terms its checks require.
ApprovedTerms ==
    approved # Nothing =>
        /\ approved.limit \in Int /\ approved.quote \in Int
        /\ approved.kind \in {"swap", "exact_in"} =>
               CheckSlippage(approved.limit, approved.quote)
        /\ approved.kind = "exact_out" =>
               CheckExactOutSlippage(approved.limit, approved.quote) /\ approved.limit > 0

\* A swap with an amount in: any kind whose terms passed CheckSlippage.
LEMMA TermsOfAmountIn ==
    ASSUME NEW l \in Int, NEW q \in Int, CheckSlippage(l, q),
           approved'.limit = l, approved'.quote = q,
           approved'.kind \in {"swap", "exact_in"}
    PROVE  ApprovedTerms'
BY DEF ApprovedTerms, CheckSlippage, SaturatingMul

\* A swap with an amount out.
LEMMA TermsOfAmountOut ==
    ASSUME NEW l \in Int, NEW q \in Int, CheckExactOutSlippage(l, q), l > 0,
           approved'.limit = l, approved'.quote = q, approved'.kind = "exact_out"
    PROVE  ApprovedTerms'
BY DEF ApprovedTerms, CheckExactOutSlippage, SaturatingMul

\* What both guards do besides swaps records no terms.
LEMMA TermsOfCommon ==
    ASSUME ApprovedTerms, CommonNext PROVE ApprovedTerms'
<1>1. \/ approved' = approved
      \/ /\ approved'.kind \in {"invest", "unwind"}
         /\ approved'.limit = 0 /\ approved'.quote = 0
    BY DEF CommonNext, Initialize, SetWhitelist, ValidateInvest,
           ValidateUnwind, LetThrough
<1> QED
    BY <1>1 DEF ApprovedTerms, CheckSlippage, CheckExactOutSlippage, SaturatingMul

\* Only validated terms are recorded.
LEMMA TermsStep ==
    ApprovedTerms /\ [GuardsNext]_<<guardVars, dex>> => ApprovedTerms'
<1> SUFFICES ASSUME ApprovedTerms, [GuardsNext]_<<guardVars, dex>>
             PROVE  ApprovedTerms'
    OBVIOUS
<1>0. Amounts \subseteq Int
    BY GuardAssumption
<1>1. CASE SoroswapNext
  <2>1. ASSUME NEW c \in Addresses, NEW a \in Amounts, NEW l \in Amounts,
               NEW q \in Amounts, NEW p \in Paths, ValidateSwapExactIn(c, a, l, p, q)
        PROVE  ApprovedTerms'
    <3>1. /\ approved'.limit = l /\ approved'.quote = q /\ approved'.kind = "exact_in"
          /\ CheckSlippage(l, q)
        BY <2>1 DEF ValidateSwapExactIn, LetThrough
    <3> QED
        BY <1>0, <3>1, TermsOfAmountIn
  <2>2. ASSUME NEW c \in Addresses, NEW a \in Amounts, NEW l \in Amounts,
               NEW q \in Amounts, NEW p \in Paths, ValidateSwapExactOut(c, a, l, p, q)
        PROVE  ApprovedTerms'
    <3>1. /\ approved'.limit = l /\ approved'.quote = q /\ approved'.kind = "exact_out"
          /\ CheckExactOutSlippage(l, q) /\ l > 0
        BY <1>0, <2>2 DEF ValidateSwapExactOut, LetThrough, CheckExactOutSlippage
    <3> QED
        BY <1>0, <3>1, TermsOfAmountOut
  <2> QED
      BY <1>1, <2>1, <2>2, TermsOfCommon DEF SoroswapNext
<1>2. CASE PhoenixNext
  <2>1. ASSUME NEW c \in Addresses, NEW a \in Amounts, NEW l \in Amounts,
               NEW q \in Amounts, NEW ops \in Operations, ValidateSwap(c, a, l, ops, q)
        PROVE  ApprovedTerms'
    <3>1. /\ approved'.limit = l /\ approved'.quote = q /\ approved'.kind = "swap"
          /\ CheckSlippage(l, q)
        BY <2>1 DEF ValidateSwap, LetThrough
    <3> QED
        BY <1>0, <3>1, TermsOfAmountIn
  <2>2. ASSUME NEW c \in Addresses, NEW a \in Amounts, NEW l \in Amounts,
               NEW q \in Amounts, NEW p \in Paths, ValidateSwapAlong(c, a, l, p, q)
        PROVE  ApprovedTerms'
    <3>1. /\ approved'.limit = l /\ approved'.quote = q /\ approved'.kind = "exact_in"
          /\ CheckSlippage(l, q)
        BY <2>2 DEF ValidateSwapAlong, LetThrough
    <3> QED
        BY <1>0, <3>1, TermsOfAmountIn
  <2> QED
      BY <1>2, <2>1, <2>2, TermsOfCommon DEF PhoenixNext
<1>3. CASE UNCHANGED <<guardVars, dex>>
    BY <1>3 DEF guardVars, ApprovedTerms, CheckSlippage, CheckExactOutSlippage,
                SaturatingMul
<1> QED
    BY <1>1, <1>2, <1>3 DEF GuardsNext

\* Whatever either guard lets through keeps the quote within the tolerance, for
\* every i128 width, tolerance, whitelist, path and list of operations, while
\* products are exact.
THEOREM GuardsKeepQuote == GuardsSpec => []SwapsKeepQuote
<1>1. GuardsInit => ApprovedTerms
    BY DEF GuardsInit, GuardInit, ApprovedTerms
<1>2. ApprovedTerms => SwapsKeepQuote
    BY ExactInKeepsQuote, ExactOutKeepsQuote DEF ApprovedTerms, SwapsKeepQuote
<1> QED
    BY <1>1, <1>2, TermsStep, PTL DEF GuardsSpec

\* Whatever either guard lets through, it would let through on better terms, for
\* every width: saturation keeps the order of products.
THEOREM BetterTermsAccepted == GuardsSpec => []BetterTermsPass
<1>1. GuardsInit => ApprovedTerms
    BY DEF GuardsInit, GuardInit, ApprovedTerms
<1>2. ApprovedTerms => BetterTermsPass
  <2>1. Amounts \subseteq Int
      BY GuardAssumption
  <2> QED
      BY <2>1, MoreOut, LessIn DEF ApprovedTerms, BetterTermsPass
<1> QED
    BY <1>1, <1>2, TermsStep, PTL DEF GuardsSpec

\* The operations of a path: one for each hop, trading the path's tokens.
LEMMA OperationsAre ==
    ASSUME NEW p \in Seq(Tokens)
    PROVE  /\ OperationsOf(p) \in Seq(SwapOperation)
           /\ Len(OperationsOf(p)) = IF Len(p) = 0 THEN 0 ELSE Len(p) - 1
           /\ Traded(OperationsOf(p)) = UNION {{p[i], p[i + 1]} : i \in 1 .. Len(p) - 1}
<1> DEFINE n == IF Len(p) = 0 THEN 0 ELSE Len(p) - 1
           ops == OperationsOf(p)
<1>1. n \in Nat /\ 1 .. n = 1 .. Len(p) - 1
    OBVIOUS
<1>2. \A i \in 1 .. n : p[i] \in Tokens /\ p[i + 1] \in Tokens
    OBVIOUS
<1>3. ops = [i \in 1 .. n |-> [offer_asset |-> p[i], ask_asset |-> p[i + 1]]]
    BY <1>1 DEF OperationsOf
<1>4. ops \in [1 .. n -> SwapOperation]
    <2> HIDE DEF n
    <2> QED BY <1>2, <1>3 DEF SwapOperation
<1> HIDE DEF n
<1>5. ops \in Seq(SwapOperation) /\ Len(ops) = n /\ DOMAIN ops = 1 .. n
    BY <1>1, <1>4
<1>6. ToSet(ops) = {[offer_asset |-> p[i], ask_asset |-> p[i + 1]] : i \in 1 .. n}
    <2> HIDE DEF ops
    <2> QED BY <1>3, <1>5 DEF ToSet
<1> HIDE DEF ops
<1>7. /\ \A op \in ToSet(ops) : \E i \in 1 .. n : op.offer_asset = p[i] /\ op.ask_asset = p[i + 1]
      /\ \A i \in 1 .. n : \E op \in ToSet(ops) : op.offer_asset = p[i] /\ op.ask_asset = p[i + 1]
    <2>1. ASSUME NEW op \in ToSet(ops)
          PROVE  \E i \in 1 .. n : op.offer_asset = p[i] /\ op.ask_asset = p[i + 1]
        <3>1. PICK i \in 1 .. n : op = [offer_asset |-> p[i], ask_asset |-> p[i + 1]]
            BY <1>6, Zenon
        <3> QED BY <3>1
    <2>2. ASSUME NEW i \in 1 .. n
          PROVE  \E op \in ToSet(ops) : op.offer_asset = p[i] /\ op.ask_asset = p[i + 1]
        <3> DEFINE op == [offer_asset |-> p[i], ask_asset |-> p[i + 1]]
        <3>1. op \in ToSet(ops)
            BY <1>6, Zenon
        <3>2. op.offer_asset = p[i] /\ op.ask_asset = p[i + 1]
            OBVIOUS
        <3> QED BY <3>1, <3>2
    <2> QED BY <2>1, <2>2
<1>8. Traded(ops) = UNION {{p[i], p[i + 1]} : i \in 1 .. n}
    <2>1. \A t : t \in Traded(ops)
                  <=> \E op \in ToSet(ops) : t = op.offer_asset \/ t = op.ask_asset
        BY DEF Traded
    <2>2. ASSUME NEW t
          PROVE  t \in Traded(ops) <=> \E i \in 1 .. n : t = p[i] \/ t = p[i + 1]
        <3>1. ASSUME t \in Traded(ops)
              PROVE  \E i \in 1 .. n : t = p[i] \/ t = p[i + 1]
            <4>1. PICK op \in ToSet(ops) : t = op.offer_asset \/ t = op.ask_asset
                BY <2>1, <3>1
            <4> QED BY <1>7, <4>1
        <3>2. ASSUME NEW i \in 1 .. n, t = p[i] \/ t = p[i + 1]
              PROVE  t \in Traded(ops)
            <4>1. PICK op \in ToSet(ops) : op.offer_asset = p[i] /\ op.ask_asset = p[i + 1]
                BY <1>7
            <4> QED BY <2>1, <3>2, <4>1
        <3> QED BY <3>1, <3>2
    <2> DEFINE hops == {{p[i], p[i + 1]} : i \in 1 .. n}
    <2>3. ASSUME NEW t
          PROVE  t \in UNION hops <=> \E i \in 1 .. n : t = p[i] \/ t = p[i + 1]
        <3>1. t \in UNION hops <=> \E h \in hops : t \in h
            OBVIOUS
        <3>2. (\E h \in hops : t \in h) <=> \E i \in 1 .. n : t \in {p[i], p[i + 1]}
            BY Zenon
        <3> QED BY <3>1, <3>2
    <2> HIDE DEF hops
    <2>4. Traded(ops) = UNION hops
        BY <2>2, <2>3
    <2> QED BY <2>4 DEF hops
<1> QED BY <1>1, <1>5, <1>8 DEF n, ops

\* A path is allowed exactly when the operations it stands for are, for every
\* path, whitelist and limit.
THEOREM PathsMeanOperations == GuardsSpec => []PathMeansOperations
<1>1. ASSUME NEW p \in Paths
      PROVE  PathAllowed(p) <=> OperationsAllowed(OperationsOf(p))
    <2>1. p \in Seq(Tokens) /\ MAX_OPERATIONS \in Nat
        BY GuardAssumption, PhoenixAssumption
    <2>2. /\ Len(OperationsOf(p)) = IF Len(p) = 0 THEN 0 ELSE Len(p) - 1
          /\ Traded(OperationsOf(p)) = UNION {{p[i], p[i + 1]} : i \in 1 .. Len(p) - 1}
        BY <2>1, OperationsAre
    <2>3. Len(p) \in Nat
        BY <2>1
    <2> QED BY <2>1, <2>2, <2>3 DEF PathAllowed, OperationsAllowed
<1>2. PathMeansOperations
    BY <1>1 DEF PathMeansOperations
<1> QED BY <1>2, PTL

=============================================================================
