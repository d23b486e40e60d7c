-------------------------- MODULE VaultMathProofs --------------------------
(***************************************************************************)
(* What the vault's truncating divisions guarantee, for every amount and   *)
(* every precision; and what its sums and loops do, for every length.      *)
(*                                                                         *)
(* A sum or a loop is a fold of the community modules: a recursive         *)
(* function over the parts of a finite set.  No theorem of the library     *)
(* gives induction over sets without a parameter that is an operator;      *)
(* here a property is the set of what has it (NatSetInduction and          *)
(* SubsetInduction), and a step of a loop is a function.                   *)
(***************************************************************************)
EXTENDS VaultMath, FiniteSetsExt, FiniteSetTheorems, TLAPS

\* The truncating division of the code, on non-negative operands.
LEMMA DivBounds ==
    ASSUME NEW a \in Nat, NEW b \in Nat, b > 0
    PROVE  /\ a \div b \in Nat
           /\ (a \div b) * b <= a
           /\ a < (a \div b) * b + b
<1>1. \E q \in Int : q = a \div b
    OBVIOUS
<1> QED OBVIOUS

\* Amounts, prices and rates multiply to natural numbers.
LEMMA ProductNat ==
    ASSUME NEW a \in Nat, NEW b \in Nat
    PROVE  a * b \in Nat
OBVIOUS

\* Multiplying by a price or a rate keeps the order of two amounts.
LEMMA MulMono ==
    ASSUME NEW a \in Nat, NEW b \in Nat, NEW c \in Nat, a <= b
    PROVE  a * c <= b * c
OBVIOUS

\* ... and the order of two products is that of their factors.
LEMMA MulMonoStrict ==
    ASSUME NEW a \in Int, NEW b \in Int, NEW c \in Nat, a * c < b * c
    PROVE  a < b
OBVIOUS

\* A quotient is at least every number whose product fits the dividend.
LEMMA DivGe ==
    ASSUME NEW a \in Nat, NEW b \in Nat, b > 0, NEW q \in Nat, q * b <= a
    PROVE  q <= a \div b
<1> DEFINE d == a \div b
<1>1. d \in Nat /\ a < d * b + b
    BY DivBounds
<1> HIDE DEF d
<1>2. q * b < (d + 1) * b
    BY <1>1
<1>3. q < d + 1
    BY <1>1, <1>2, MulMonoStrict
<1>4. q <= d
    BY <1>1, <1>3
<1> QED BY <1>4 DEF d

-----------------------------------------------------------------------------

\* share_price is a natural number: no NAV and supply make it negative.
LEMMA SharePriceNat ==
    ASSUME NEW nav \in Nat, NEW supply \in Nat
    PROVE  SharePrice(nav, supply) \in Nat
<1>1. PRICE_PRECISION \in Nat
    BY MathAssumption
<1>2. nav * PRICE_PRECISION \in Nat
    BY <1>1, ProductNat
<1>3. CASE supply = 0 \/ nav = 0
    BY <1>1, <1>3 DEF SharePrice
<1>4. CASE ~(supply = 0 \/ nav = 0)
    <2>1. (nav * PRICE_PRECISION) \div supply \in Nat
        BY <1>2, <1>4, DivBounds
    <2> QED BY <2>1, <1>4 DEF SharePrice
<1> QED BY <1>3, <1>4

\* All shares together are never priced above the net asset value.
LEMMA SharePriceFits ==
    ASSUME NEW nav \in Nat, NEW supply \in Nat, nav > 0, supply > 0
    PROVE  SharePrice(nav, supply) * supply <= nav * PRICE_PRECISION
<1>1. nav * PRICE_PRECISION \in Nat
    BY MathAssumption, ProductNat
<1>2. SharePrice(nav, supply) = (nav * PRICE_PRECISION) \div supply
    BY DEF SharePrice
<1> QED BY <1>1, <1>2, DivBounds

\* A price at which all shares fit into the net asset value is not above the
\* share price.
LEMMA SharePriceAtLeast ==
    ASSUME NEW nav \in Nat, NEW supply \in Nat, nav > 0, supply > 0,
           NEW p \in Nat, p * supply <= nav * PRICE_PRECISION
    PROVE  p <= SharePrice(nav, supply)
<1>1. nav * PRICE_PRECISION \in Nat
    BY MathAssumption, ProductNat
<1>2. SharePrice(nav, supply) = (nav * PRICE_PRECISION) \div supply
    BY DEF SharePrice
<1> QED BY <1>1, <1>2, DivGe

\* deposit: the shares issued, at the price they were issued at, are worth no
\* more than the base asset paid for them.
LEMMA DepositSharesFair ==
    ASSUME NEW amount \in Nat, NEW nav \in Nat, NEW supply \in Nat
    PROVE  LET p == SharePrice(nav, supply)
           IN  /\ DepositShares(amount, p, supply) \in Nat
               /\ DepositShares(amount, p, supply) * p <= amount * PRICE_PRECISION
<1> DEFINE p == SharePrice(nav, supply)
<1>0. PRICE_PRECISION \in Nat /\ p \in Nat
    BY MathAssumption, SharePriceNat
<1>1. amount * PRICE_PRECISION \in Nat
    BY <1>0, ProductNat
<1>2. supply = 0 => p = PRICE_PRECISION
    BY DEF SharePrice
<1> HIDE DEF p
<1>3. CASE p = 0 \/ supply = 0
    <2>1. DepositShares(amount, p, supply) = amount
        BY <1>3 DEF DepositShares
    <2>2. amount * p <= amount * PRICE_PRECISION
        <3>1. CASE p = 0
            BY <3>1, <1>1
        <3>2. CASE supply = 0
            BY <3>2, <1>0, <1>2
        <3> QED BY <3>1, <3>2, <1>3
    <2> QED BY <2>1, <2>2 DEF p
<1>4. CASE ~(p = 0 \/ supply = 0)
    <2>1. DepositShares(amount, p, supply) = (amount * PRICE_PRECISION) \div p
        BY <1>4 DEF DepositShares
    <2>2. /\ (amount * PRICE_PRECISION) \div p \in Nat
          /\ ((amount * PRICE_PRECISION) \div p) * p <= amount * PRICE_PRECISION
        BY <1>0, <1>1, <1>4, DivBounds
    <2> QED BY <2>1, <2>2 DEF p
<1> QED BY <1>3, <1>4

\* withdraw: the base asset paid before the exit fee is worth no more than the
\* shares redeemed for it.
LEMMA BaseGrossFair ==
    ASSUME NEW redeemed \in Nat, NEW p \in Nat
    PROVE  /\ BaseGross(redeemed, p) \in Nat
           /\ BaseGross(redeemed, p) * PRICE_PRECISION <= redeemed * p
<1>1. PRICE_PRECISION \in Nat /\ PRICE_PRECISION > 0
    BY MathAssumption
<1>2. redeemed * p \in Nat
    BY ProductNat
<1> QED BY <1>1, <1>2, DivBounds DEF BaseGross

\* What a fraction of the shares can be redeemed for is covered by the net
\* asset value, so a redemption never asks for more than there is.
LEMMA RedemptionIsCovered ==
    ASSUME NEW nav \in Nat, NEW supply \in Nat, nav > 0, supply > 0,
           NEW redeemed \in Nat, redeemed <= supply
    PROVE  BaseGross(redeemed, SharePrice(nav, supply)) <= nav
<1> DEFINE p == SharePrice(nav, supply)
           b == BaseGross(redeemed, p)
<1>1. p \in Nat /\ PRICE_PRECISION \in Nat /\ PRICE_PRECISION > 0
    BY SharePriceNat, MathAssumption
<1>2. p * supply <= nav * PRICE_PRECISION
    BY SharePriceFits
<1>3. b \in Nat /\ b * PRICE_PRECISION <= redeemed * p
    BY <1>1, BaseGrossFair
<1> HIDE DEF p, b
<1>4. redeemed * p <= supply * p
    BY <1>1, MulMono
<1>5. b * PRICE_PRECISION < (nav + 1) * PRICE_PRECISION
    BY <1>1, <1>2, <1>3, <1>4
<1>6. b < nav + 1
    BY <1>1, <1>3, <1>5, MulMonoStrict
<1>7. b <= nav
    BY <1>3, <1>6
<1> QED BY <1>7 DEF p, b

\* At least as much behind no more shares: the price does not fall.
LEMMA PriceIsMonotone ==
    ASSUME NEW v \in Nat, NEW w \in Nat, NEW s \in Nat, NEW r \in Nat,
           v > 0, v <= w, r <= s, r > 0
    PROVE  SharePrice(w, r) >= SharePrice(v, s)
<1> DEFINE p == SharePrice(v, s)
<1>1. p \in Nat /\ PRICE_PRECISION \in Nat
    BY SharePriceNat, MathAssumption
<1>2. p * s <= v * PRICE_PRECISION
    BY SharePriceFits
<1>3. SharePrice(w, r) \in Nat
    BY SharePriceNat
<1>4. r * p <= s * p
    BY <1>1, MulMono
<1>5. v * PRICE_PRECISION <= w * PRICE_PRECISION
    BY <1>1, MulMono
<1> HIDE DEF p
<1>6. p * r <= w * PRICE_PRECISION
    BY <1>1, <1>2, <1>4, <1>5
<1>7. p <= SharePrice(w, r)
    BY <1>1, <1>6, SharePriceAtLeast
<1> QED BY <1>1, <1>3, <1>7 DEF p

\* Shares issued for at least their price leave the price at least as high.
LEMMA IssueKeepsPrice ==
    ASSUME NEW nav \in Nat, nav > 0, NEW s \in Nat, NEW a \in Nat, NEW n \in Nat, n > 0,
           n * SharePrice(nav, s) <= a * PRICE_PRECISION
    PROVE  SharePrice(nav + a, s + n) >= SharePrice(nav, s)
<1> DEFINE p == SharePrice(nav, s)
<1>1. PRICE_PRECISION \in Nat /\ p \in Nat
    BY MathAssumption, SharePriceNat
<1>2. n * p <= a * PRICE_PRECISION
    OBVIOUS
<1>3. s > 0 => p * s <= nav * PRICE_PRECISION
    BY SharePriceFits
<1> HIDE DEF p
<1>4. p * s <= nav * PRICE_PRECISION
    <2>1. CASE s = 0
        BY <2>1, <1>1, ProductNat
    <2> QED BY <2>1, <1>3
<1>5. p * (s + n) <= (nav + a) * PRICE_PRECISION
    BY <1>1, <1>2, <1>4
<1>6. nav + a \in Nat /\ nav + a > 0 /\ s + n \in Nat /\ s + n > 0
    OBVIOUS
<1>7. p <= SharePrice(nav + a, s + n)
    BY <1>1, <1>5, <1>6, SharePriceAtLeast
<1>8. SharePrice(nav + a, s + n) \in Nat
    BY <1>6, SharePriceNat
<1> QED BY <1>1, <1>7, <1>8 DEF p

\* Shares redeemed for at most their price leave something behind every
\* remaining share, and the price at least as high.
LEMMA RedemptionKeepsPrice ==
    ASSUME NEW nav \in Nat, NEW s \in Nat, NEW a \in Nat, NEW n \in Nat,
           a > 0, a <= nav, n < s,
           a * PRICE_PRECISION <= n * SharePrice(nav, s)
    PROVE  nav - a > 0 /\ SharePrice(nav - a, s - n) >= SharePrice(nav, s)
<1> DEFINE p == SharePrice(nav, s)
<1>1. PRICE_PRECISION \in Nat /\ PRICE_PRECISION > 0 /\ p \in Nat
    BY MathAssumption, SharePriceNat
<1>2. a * PRICE_PRECISION <= n * p
    OBVIOUS
<1>3. p * s <= nav * PRICE_PRECISION
    BY SharePriceFits
<1>4. s - n \in Nat /\ s - n > 0 /\ nav - a \in Nat
    OBVIOUS
<1> HIDE DEF p
<1>5. p * (s - n) <= (nav - a) * PRICE_PRECISION
    BY <1>1, <1>2, <1>3
<1>6. nav - a > 0
    <2>1. a * PRICE_PRECISION > 0
        BY <1>1
    <2>2. p > 0
        BY <2>1, <1>1, <1>2
    <2>3. p * (s - n) > 0
        BY <2>2, <1>1, <1>4
    <2>4. nav - a = 0 => (nav - a) * PRICE_PRECISION = 0
        BY <1>1
    <2>5. (nav - a) * PRICE_PRECISION > 0
        BY <2>3, <1>1, <1>4, <1>5
    <2>6. nav - a # 0
        BY <2>4, <2>5
    <2> QED BY <2>6, <1>4
<1>7. p <= SharePrice(nav - a, s - n)
    BY <1>1, <1>4, <1>5, <1>6, SharePriceAtLeast
<1>8. SharePrice(nav - a, s - n) \in Nat
    BY <1>4, SharePriceNat
<1> QED BY <1>1, <1>6, <1>7, <1>8 DEF p

\* For every amount, vault and entry fee: depositing and redeeming at once,
\* before any exit fee, never returns more than the amount.  A depositor who is
\* issued `total` shares and keeps `mine` of them faces the price `after`.  If
\* the shares were worth more than the amount, the others' shares would be worth
\* less than before, so the price would have fallen, and at a lower price the
\* new shares are worth less than was paid for them.
THEOREM RoundTripNeverGains ==
    ASSUME NEW amount \in Nat, NEW nav \in Nat, NEW supply \in Nat, NEW mine \in Nat,
           amount > 0,
           (supply = 0) <=> (nav = 0),
           mine <= DepositShares(amount, SharePrice(nav, supply), supply)
    PROVE  LET total == DepositShares(amount, SharePrice(nav, supply), supply)
               after == SharePrice(nav + amount, supply + total)
           IN  BaseGross(mine, after) <= amount
<1> DEFINE p == SharePrice(nav, supply)
           t == DepositShares(amount, p, supply)
           q == SharePrice(nav + amount, supply + t)
           b == BaseGross(mine, q)
<1>1. PRICE_PRECISION \in Nat /\ PRICE_PRECISION > 0 /\ p \in Nat
    BY MathAssumption, SharePriceNat
<1>2. t \in Nat /\ t * p <= amount * PRICE_PRECISION
    BY DepositSharesFair
<1>3. mine <= t
    OBVIOUS
<1>4. supply = 0 => t = amount
    BY DEF DepositShares
<1>5. supply + t \in Nat /\ nav + amount \in Nat /\ nav + amount > 0
    BY <1>2
<1> HIDE DEF t
<1>6. q \in Nat
    BY <1>5, SharePriceNat
<1>7. t > 0 => q * (supply + t) <= (nav + amount) * PRICE_PRECISION
    BY <1>2, <1>5, SharePriceFits
<1>8. supply > 0 /\ nav > 0 /\ q * supply <= nav * PRICE_PRECISION => q <= p
    BY <1>6, SharePriceAtLeast
<1>9. b \in Nat /\ b * PRICE_PRECISION <= mine * q
    BY <1>6, BaseGrossFair
<1> HIDE DEF p, q, b
<1>10. t * q <= amount * PRICE_PRECISION
    <2>1. CASE t = 0
        BY <2>1, <1>1, <1>6, ProductNat
    <2>2. CASE t > 0 /\ supply = 0
        BY <2>2, <1>1, <1>2, <1>6, <1>7
    <2>3. CASE t > 0 /\ supply > 0
        <3>1. nav > 0
            BY <2>3
        <3>2. q * supply + q * t <= nav * PRICE_PRECISION + amount * PRICE_PRECISION
            BY <2>3, <1>1, <1>2, <1>6, <1>7
        <3>3. CASE q * supply <= nav * PRICE_PRECISION
            <4>1. q * t <= p * t
                BY <2>3, <3>1, <3>3, <1>1, <1>2, <1>6, <1>8, MulMono
            <4> QED BY <4>1, <1>1, <1>2, <1>6
        <3>4. CASE ~(q * supply <= nav * PRICE_PRECISION)
            BY <3>2, <3>4, <1>1, <1>2, <1>6
        <3> QED BY <3>3, <3>4
    <2> QED BY <2>1, <2>2, <2>3, <1>2
<1>11. mine * q <= t * q
    BY <1>2, <1>3, <1>6, MulMono
<1>12. b * PRICE_PRECISION < (amount + 1) * PRICE_PRECISION
    BY <1>1, <1>2, <1>6, <1>9, <1>10, <1>11
<1>13. b < amount + 1
    BY <1>1, <1>9, <1>12, MulMonoStrict
<1>14. b <= amount
    BY <1>9, <1>13
<1> QED BY <1>14 DEF b, q, t, p

-----------------------------------------------------------------------------
(* Induction *)

\* Induction over a set of natural numbers.
LEMMA NatSetInduction ==
    ASSUME NEW T, T \subseteq Nat, 0 \in T, \A n \in T : n + 1 \in T
    PROVE  T = Nat
<1> DEFINE U == Nat \ T
<1>1. CASE U # {}
    <2>1. IsWellFoundedOn(OpToRel(<, Nat), Nat)
        BY NatLessThanWellFounded
    <2>2. PICK x \in U : \A y \in U : ~(<<y, x>> \in OpToRel(<, Nat))
        <3> HIDE DEF U
        <3>1. U \subseteq Nat
            BY DEF U
        <3> QED BY <1>1, <2>1, <3>1, WFMin
    <2>3. x \in Nat /\ x # 0 /\ x - 1 \in Nat
        OBVIOUS
    <2>4. x - 1 \in U
        OBVIOUS
    <2>5. <<x - 1, x>> \in OpToRel(<, Nat)
        BY <2>3 DEF OpToRel
    <2> QED BY <2>2, <2>4, <2>5
<1> QED BY <1>1

\* What a proper part of a finite set has to do with its size.
LEMMA SmallerPart ==
    ASSUME NEW S, IsFiniteSet(S), NEW s \in SUBSET S
    PROVE  /\ IsFiniteSet(s) /\ Cardinality(s) \in Nat /\ Cardinality(s) <= Cardinality(S)
           /\ Cardinality(s) = 0 <=> s = {}
           /\ \A x \in s : Cardinality(s \ {x}) = Cardinality(s) - 1
<1>1. IsFiniteSet(s) /\ Cardinality(s) <= Cardinality(S)
    BY FS_Subset
<1> QED BY <1>1, FS_CardinalityType, FS_EmptySet, FS_RemoveElement

\* Induction over the subsets of a finite set: what holds of {}, and of a set
\* when it holds of the set less any one element, holds of all.
LEMMA SubsetInduction ==
    ASSUME NEW D, IsFiniteSet(D), NEW P, P \subseteq SUBSET D, {} \in P,
           \A s \in SUBSET D : s # {} /\ (\A x \in s : s \ {x} \in P) => s \in P
    PROVE  P = SUBSET D
<1> DEFINE T == {n \in Nat : \A s \in SUBSET D : Cardinality(s) = n => s \in P}
<1>1. 0 \in T
    BY SmallerPart
<1>2. ASSUME NEW n \in T PROVE n + 1 \in T
    <2> SUFFICES ASSUME NEW s \in SUBSET D, Cardinality(s) = n + 1 PROVE s \in P
        OBVIOUS
    <2>1. n \in Nat /\ \A r \in SUBSET D : Cardinality(r) = n => r \in P
        OBVIOUS
    <2>2. s # {} /\ \A x \in s : Cardinality(s \ {x}) = n
        BY <2>1, SmallerPart
    <2> QED BY <2>1, <2>2
<1>3. T = Nat
    <2> HIDE DEF T
    <2> QED BY <1>1, <1>2, NatSetInduction DEF T
<1>4. ASSUME NEW s \in SUBSET D PROVE s \in P
    BY <1>3, SmallerPart
<1> QED BY <1>4

-----------------------------------------------------------------------------
(* Sums *)

\* The table that SumFunctionOnSet looks its result up in.
IsSumTable(f, D, g) ==
    g = [s \in D |->
            IF s = {} THEN 0
            ELSE f[CHOOSE x \in s : TRUE] + g[s \ {CHOOSE x \in s : TRUE}]]

LEMMA SumTableExists ==
    ASSUME NEW f, NEW S, IsFiniteSet(S)
    PROVE  \E g : IsSumTable(f, SUBSET S, g)
<1> DEFINE Small(n) == {s \in SUBSET S : Cardinality(s) <= n}
           T == {n \in Nat : \E g : IsSumTable(f, Small(n), g)}
           Any(s) == CHOOSE x \in s : TRUE
<1>1. 0 \in T
    <2> DEFINE g == [s \in Small(0) |-> 0]
    <2>1. \A s \in Small(0) : s = {}
        BY SmallerPart
    <2>2. g = [s \in Small(0) |-> IF s = {} THEN 0 ELSE f[Any(s)] + g[s \ {Any(s)}]]
        BY <2>1
    <2> QED BY <2>2 DEF IsSumTable
<1>2. ASSUME NEW n \in T PROVE n + 1 \in T
    <2>1. PICK g : IsSumTable(f, Small(n), g)
        OBVIOUS
    <2> DEFINE Entry(s, h) == IF s = {} THEN 0 ELSE f[Any(s)] + h[s \ {Any(s)}]
               h == [s \in Small(n + 1) |-> Entry(s, g)]
    <2>2. \A s \in Small(n) : g[s] = Entry(s, g)
        BY <2>1 DEF IsSumTable
    <2>3. \A s \in Small(n + 1) : s # {} => s \ {Any(s)} \in Small(n)
        <3> SUFFICES ASSUME NEW s \in Small(n + 1), s # {}
                     PROVE  s \ {Any(s)} \in Small(n)
            OBVIOUS
        <3>1. Any(s) \in s
            OBVIOUS
        <3> HIDE DEF Any
        <3> QED BY <3>1, SmallerPart
    <2>4. \A s \in Small(n) : s \in Small(n + 1)
        BY SmallerPart
    <2> HIDE DEF Small, Any
    <2>5. \A s \in Small(n + 1) : Entry(s, g) = Entry(s, h)
        BY <2>2, <2>3, <2>4
    <2>6. h = [s \in Small(n + 1) |-> Entry(s, h)]
        BY <2>5
    <2>7. IsSumTable(f, Small(n + 1), h)
        BY <2>6 DEF IsSumTable, Any
    <2> QED BY <2>7
<1>3. Cardinality(S) \in T
    <2> HIDE DEF T
    <2>1. T = Nat
        BY <1>1, <1>2, NatSetInduction DEF T
    <2> QED BY <2>1, FS_CardinalityType
<1>4. Small(Cardinality(S)) = SUBSET S
    BY SmallerPart
<1> QED BY <1>3, <1>4

\* The sum is what every such table has: the entry of a set of f's domain does
\* not depend on the table it is looked up in.
LEMMA SumInTable ==
    ASSUME NEW f, NEW S, IsFiniteSet(S), NEW g, IsSumTable(f, SUBSET S, g), NEW r \in SUBSET S
    PROVE  SumFunctionOnSet(f, r) = g[r]
<1> DEFINE h == CHOOSE h : IsSumTable(f, SUBSET r, h)
           Any(s) == CHOOSE x \in s : TRUE
           P == {s \in SUBSET r : g[s] = h[s]}
<1>1. IsFiniteSet(r)
    BY SmallerPart
<1>2. IsSumTable(f, SUBSET r, h)
    BY <1>1, SumTableExists
<1>3. SumFunctionOnSet(f, r) = h[r]
    BY Zenon DEF SumFunctionOnSet, FoldFunctionOnSet, MapThenFoldSet, IsSumTable
<1> HIDE DEF h
<1>4. \A s \in SUBSET r : h[s] = IF s = {} THEN 0 ELSE f[Any(s)] + h[s \ {Any(s)}]
    BY <1>2 DEF IsSumTable
<1>5. \A s \in SUBSET r : g[s] = IF s = {} THEN 0 ELSE f[Any(s)] + g[s \ {Any(s)}]
    BY DEF IsSumTable
<1>6. \A s \in SUBSET r : s # {} => Any(s) \in s
    OBVIOUS
<1> HIDE DEF Any
<1>7. P \subseteq SUBSET r /\ {} \in P
    BY <1>4, <1>5
<1>8. \A s \in SUBSET r : s # {} /\ (\A x \in s : s \ {x} \in P) => s \in P
    BY <1>4, <1>5, <1>6
<1>9. P = SUBSET r
    <2> HIDE DEF P
    <2> QED BY <1>1, <1>7, <1>8, SubsetInduction
<1> QED BY <1>3, <1>9

\* A sum is the value of some element and the sum of the others.
LEMMA SumStep ==
    ASSUME NEW f, NEW S, IsFiniteSet(S)
    PROVE  /\ SumFunctionOnSet(f, {}) = 0
           /\ S # {} => \E x \in S :
                 SumFunctionOnSet(f, S) = f[x] + SumFunctionOnSet(f, S \ {x})
<1>1. PICK g : IsSumTable(f, SUBSET S, g)
    BY SumTableExists
<1>2. \A s \in SUBSET S : SumFunctionOnSet(f, s) = g[s]
    BY <1>1, SumInTable
<1> DEFINE x == CHOOSE x \in S : TRUE
<1>3. g[{}] = 0 /\ (S # {} => g[S] = f[x] + g[S \ {x}])
    BY <1>1 DEF IsSumTable
<1>4. S # {} => x \in S
    OBVIOUS
<1> HIDE DEF x
<1> QED BY <1>2, <1>3, <1>4

\* Sums of integers are integers, sums of natural numbers natural numbers.
LEMMA SumType ==
    ASSUME NEW D, IsFiniteSet(D), NEW f, NEW s \in SUBSET D
    PROVE  /\ (\A x \in D : f[x] \in Int) => SumFunctionOnSet(f, s) \in Int
           /\ (\A x \in D : f[x] \in Nat) => SumFunctionOnSet(f, s) \in Nat
<1> DEFINE Sum(r) == SumFunctionOnSet(f, r)
<1>1. Sum({}) = 0
    BY SumStep, FS_EmptySet
<1>2. \A r \in SUBSET D : r # {} => \E x \in r : Sum(r) = f[x] + Sum(r \ {x})
    BY SmallerPart, SumStep
<1> HIDE DEF Sum
<1>3. ASSUME \A x \in D : f[x] \in Int PROVE Sum(s) \in Int
    <2> DEFINE P == {r \in SUBSET D : Sum(r) \in Int}
    <2>1. {} \in P
        BY <1>1
    <2>2. ASSUME NEW r \in SUBSET D, r # {}, \A x \in r : r \ {x} \in P
          PROVE  r \in P
        <3>1. PICK x \in r : Sum(r) = f[x] + Sum(r \ {x})
            BY <1>2, <2>2
        <3>2. Sum(r \ {x}) \in Int /\ f[x] \in Int
            BY <1>3, <2>2
        <3> QED BY <3>1, <3>2
    <2>3. P = SUBSET D
        <3>1. P \subseteq SUBSET D
            OBVIOUS
        <3> HIDE DEF P
        <3> QED BY <2>1, <2>2, <3>1, SubsetInduction
    <2> QED BY <2>3
<1>4. ASSUME \A x \in D : f[x] \in Nat PROVE Sum(s) \in Nat
    <2> DEFINE P == {r \in SUBSET D : Sum(r) \in Nat}
    <2>1. {} \in P
        BY <1>1
    <2>2. ASSUME NEW r \in SUBSET D, r # {}, \A x \in r : r \ {x} \in P
          PROVE  r \in P
        <3>1. PICK x \in r : Sum(r) = f[x] + Sum(r \ {x})
            BY <1>2, <2>2
        <3>2. Sum(r \ {x}) \in Nat /\ f[x] \in Nat
            BY <1>4, <2>2
        <3> QED BY <3>1, <3>2
    <2>3. P = SUBSET D
        <3>1. P \subseteq SUBSET D
            OBVIOUS
        <3> HIDE DEF P
        <3> QED BY <2>1, <2>2, <3>1, SubsetInduction
    <2> QED BY <2>3
<1> QED BY <1>3, <1>4 DEF Sum

\* Any element of a sum may be taken out first.
LEMMA SumRemove ==
    ASSUME NEW D, IsFiniteSet(D), NEW f, \A x \in D : f[x] \in Int
    PROVE  \A x \in D : SumFunctionOnSet(f, D) = f[x] + SumFunctionOnSet(f, D \ {x})
<1> DEFINE Sum(s) == SumFunctionOnSet(f, s)
           P == {s \in SUBSET D : \A x \in s : Sum(s) = f[x] + Sum(s \ {x})}
<1>1. \A s \in SUBSET D : Sum(s) \in Int
    BY SumType
<1>2. \A s \in SUBSET D : s # {} => \E x \in s : Sum(s) = f[x] + Sum(s \ {x})
    BY SmallerPart, SumStep
<1> HIDE DEF Sum
<1>3. {} \in P
    OBVIOUS
<1>4. ASSUME NEW s \in SUBSET D, s # {}, \A x \in s : s \ {x} \in P
      PROVE  s \in P
    <2>1. PICK y \in s : Sum(s) = f[y] + Sum(s \ {y})
        BY <1>2, <1>4
    <2>2. ASSUME NEW x \in s, x # y PROVE Sum(s) = f[x] + Sum(s \ {x})
        <3>1. Sum(s \ {y}) = f[x] + Sum((s \ {y}) \ {x})
            BY <1>4, <2>2
        <3>2. Sum(s \ {x}) = f[y] + Sum((s \ {x}) \ {y})
            BY <1>4, <2>2
        <3>3. (s \ {y}) \ {x} = (s \ {x}) \ {y}
            OBVIOUS
        <3> DEFINE rest == Sum((s \ {x}) \ {y})
        <3>4. rest \in Int /\ f[x] \in Int /\ f[y] \in Int
            <4>1. (s \ {x}) \ {y} \in SUBSET D
                OBVIOUS
            <4> QED BY <1>1, <4>1
        <3>5. Sum(s) = f[y] + (f[x] + rest) /\ Sum(s \ {x}) = f[y] + rest
            BY <2>1, <3>1, <3>2, <3>3
        <3> HIDE DEF rest
        <3> QED BY <3>4, <3>5
    <2>3. \A x \in s : Sum(s) = f[x] + Sum(s \ {x})
        BY <2>1, <2>2
    <2> QED BY <2>3
<1>5. P = SUBSET D
    <2>1. P \subseteq SUBSET D
        OBVIOUS
    <2> HIDE DEF P
    <2> QED BY <1>3, <1>4, <2>1, SubsetInduction
<1>6. \A x \in D : Sum(D) = f[x] + Sum(D \ {x})
    BY <1>5
<1> QED BY <1>6 DEF Sum

\* A sum depends on the values that are summed only.
LEMMA SumSame ==
    ASSUME NEW D, IsFiniteSet(D), NEW f, NEW g, \A x \in D : f[x] \in Int /\ f[x] = g[x]
    PROVE  SumFunctionOnSet(f, D) = SumFunctionOnSet(g, D)
<1> DEFINE F(s) == SumFunctionOnSet(f, s)
           G(s) == SumFunctionOnSet(g, s)
           P == {s \in SUBSET D : F(s) = G(s)}
<1>1. F({}) = 0 /\ G({}) = 0
    BY SumStep, FS_EmptySet
<1>2. \A s \in SUBSET D, x \in D : x \in s =>
          F(s) = f[x] + F(s \ {x}) /\ G(s) = g[x] + G(s \ {x})
    BY SmallerPart, SumRemove
<1> HIDE DEF F, G
<1>3. {} \in P
    BY <1>1
<1>4. ASSUME NEW s \in SUBSET D, s # {}, \A x \in s : s \ {x} \in P
      PROVE  s \in P
    <2>1. PICK x \in s : TRUE
        BY <1>4
    <2>2. F(s) = f[x] + F(s \ {x}) /\ G(s) = g[x] + G(s \ {x})
        BY <1>2
    <2>3. F(s \ {x}) = G(s \ {x})
        BY <1>4
    <2> QED BY <2>2, <2>3
<1>5. P = SUBSET D
    <2>1. P \subseteq SUBSET D
        OBVIOUS
    <2> HIDE DEF P
    <2> QED BY <1>3, <1>4, <2>1, SubsetInduction
<1> QED BY <1>5 DEF F, G

\* Changing one entry changes the sum by as much.
LEMMA SumChanged ==
    ASSUME NEW D, IsFiniteSet(D), NEW f \in [D -> Int], NEW g \in [D -> Int],
           NEW x \in D, \A y \in D \ {x} : f[y] = g[y]
    PROVE  /\ SumFunction(f) \in Int /\ SumFunction(g) \in Int
           /\ SumFunction(g) = SumFunction(f) - f[x] + g[x]
<1>1. SumFunction(f) = SumFunctionOnSet(f, D) /\ SumFunction(g) = SumFunctionOnSet(g, D)
    BY Zenon DEF SumFunction
<1>2. IsFiniteSet(D \ {x})
    BY FS_RemoveElement
<1>3. SumFunctionOnSet(f, D \ {x}) = SumFunctionOnSet(g, D \ {x})
    BY <1>2, SumSame
<1>4. /\ SumFunctionOnSet(f, D) = f[x] + SumFunctionOnSet(f, D \ {x})
      /\ SumFunctionOnSet(g, D) = g[x] + SumFunctionOnSet(g, D \ {x})
    BY SumRemove
<1>5. SumFunctionOnSet(f, D \ {x}) \in Int
    BY SumType
<1> QED BY <1>1, <1>3, <1>4, <1>5

\* A sum of natural numbers is at least each of them.
LEMMA SumOfNat ==
    ASSUME NEW D, IsFiniteSet(D), NEW f \in [D -> Nat]
    PROVE  /\ SumFunction(f) \in Nat
           /\ \A x \in D : f[x] <= SumFunction(f)
<1>1. SumFunction(f) = SumFunctionOnSet(f, D)
    BY Zenon DEF SumFunction
<1>2. SumFunctionOnSet(f, D) \in Nat
    BY SumType
<1>3. ASSUME NEW x \in D PROVE f[x] <= SumFunctionOnSet(f, D)
    <2>1. SumFunctionOnSet(f, D) = f[x] + SumFunctionOnSet(f, D \ {x})
        BY SumRemove
    <2>2. SumFunctionOnSet(f, D \ {x}) \in Nat
        BY SumType
    <2> QED BY <2>1, <2>2
<1> QED BY <1>1, <1>2, <1>3

\* The entries of a function that is zero everywhere add up to nothing.
LEMMA SumOfZeros ==
    ASSUME NEW D, IsFiniteSet(D)
    PROVE  SumFunction([x \in D |-> 0]) = 0
<1> DEFINE f == [x \in D |-> 0]
           P == {s \in SUBSET D : SumFunctionOnSet(f, s) = 0}
<1>1. SumFunction(f) = SumFunctionOnSet(f, D)
    BY Zenon DEF SumFunction
<1>2. \A x \in D : f[x] = 0
    OBVIOUS
<1> HIDE DEF f
<1>3. {} \in P
    BY SumStep, FS_EmptySet
<1>4. ASSUME NEW s \in SUBSET D, s # {}, \A x \in s : s \ {x} \in P
      PROVE  s \in P
    <2>1. PICK x \in s : SumFunctionOnSet(f, s) = f[x] + SumFunctionOnSet(f, s \ {x})
        BY <1>4, SmallerPart, SumStep
    <2>2. SumFunctionOnSet(f, s \ {x}) = 0 /\ f[x] = 0
        BY <1>2, <1>4
    <2> QED BY <2>1, <2>2
<1>5. P = SUBSET D
    <2>1. P \subseteq SUBSET D
        OBVIOUS
    <2> HIDE DEF P
    <2> QED BY <1>3, <1>4, <2>1, SubsetInduction
<1> QED BY <1>1, <1>5 DEF f

\* Changing one entry changes the sum over every set with that entry by as much.
LEMMA SumOnSetChanged ==
    ASSUME NEW D, IsFiniteSet(D), NEW f \in [D -> Int], NEW g \in [D -> Int],
           NEW x \in D, \A y \in D \ {x} : f[y] = g[y],
           NEW B \in SUBSET D, x \in B
    PROVE  /\ SumFunctionOnSet(f, B) \in Int /\ SumFunctionOnSet(g, B) \in Int
           /\ SumFunctionOnSet(g, B) = SumFunctionOnSet(f, B) - f[x] + g[x]
<1>1. IsFiniteSet(B) /\ IsFiniteSet(B \ {x})
    BY SmallerPart, FS_RemoveElement
<1>2. SumFunctionOnSet(f, B \ {x}) = SumFunctionOnSet(g, B \ {x})
    BY <1>1, SumSame
<1>3. /\ SumFunctionOnSet(f, B) = f[x] + SumFunctionOnSet(f, B \ {x})
      /\ SumFunctionOnSet(g, B) = g[x] + SumFunctionOnSet(g, B \ {x})
    BY <1>1, SumRemove
<1>4. SumFunctionOnSet(f, B \ {x}) \in Int
    BY SumType
<1> QED BY <1>2, <1>3, <1>4

\* A sum over a set with more elements on which the function is zero is no more
\* and no less.
LEMMA SumOffZeros ==
    ASSUME NEW D, IsFiniteSet(D), NEW f \in [D -> Nat], NEW B \in SUBSET D,
           \A x \in D \ B : f[x] = 0
    PROVE  SumFunctionOnSet(f, D) = SumFunctionOnSet(f, B)
<1> DEFINE F(s) == SumFunctionOnSet(f, s)
           P == {s \in SUBSET D : F(s) = F(s \cap B)}
<1>1. \A s \in SUBSET D : F(s) \in Nat
    BY SumType
<1>2. \A s \in SUBSET D, x \in D : x \in s => F(s) = f[x] + F(s \ {x})
    BY SmallerPart, SumRemove
<1> HIDE DEF F
<1>3. {} \in P
    <2>1. {} \cap B = {}
        OBVIOUS
    <2> QED BY <2>1
<1>4. ASSUME NEW s \in SUBSET D, s # {}, \A x \in s : s \ {x} \in P
      PROVE  s \in P
    <2>1. PICK x \in s : TRUE
        BY <1>4
    <2>2. F(s \ {x}) = F((s \ {x}) \cap B) /\ F(s) = f[x] + F(s \ {x})
        BY <1>2, <1>4
    <2>3. CASE x \in B
        <3>1. (s \ {x}) \cap B = (s \cap B) \ {x} /\ x \in s \cap B /\ s \cap B \in SUBSET D
            BY <2>3
        <3>2. F(s \cap B) = f[x] + F((s \cap B) \ {x})
            BY <1>2, <3>1
        <3> QED BY <2>2, <3>1, <3>2
    <2>4. CASE x \notin B
        <3>1. (s \ {x}) \cap B = s \cap B /\ f[x] = 0 /\ s \cap B \in SUBSET D
            BY <2>4
        <3> QED BY <1>1, <2>2, <3>1
    <2> QED BY <2>3, <2>4
<1>5. P = SUBSET D
    <2>1. P \subseteq SUBSET D
        OBVIOUS
    <2> HIDE DEF P
    <2> QED BY <1>3, <1>4, <2>1, SubsetInduction
<1>6. F(D) = F(D \cap B) /\ D \cap B = B
    BY <1>5
<1> QED BY <1>6 DEF F

\* A sum of natural numbers over a part of a set is no more than over the set.
LEMMA SumOfPart ==
    ASSUME NEW D, IsFiniteSet(D), NEW f, \A x \in D : f[x] \in Nat, NEW B \in SUBSET D
    PROVE  SumFunctionOnSet(f, B) <= SumFunctionOnSet(f, D)
<1> DEFINE F(s) == SumFunctionOnSet(f, s)
           P == {s \in SUBSET D : F(s \cap B) <= F(s)}
<1>1. \A s \in SUBSET D : F(s) \in Nat
    BY SumType
<1>2. ASSUME NEW s \in SUBSET D, NEW x \in s
      PROVE  F(s) = f[x] + F(s \ {x})
    <2>1. IsFiniteSet(s) /\ \A y \in s : f[y] \in Int
        BY SmallerPart
    <2> QED BY <2>1, SumRemove
<1> HIDE DEF F
<1>3. {} \in P
    <2>1. {} \cap B = {} /\ F({}) \in Nat
        BY <1>1
    <2> QED BY <2>1
<1>4. ASSUME NEW s \in SUBSET D, s # {}, \A x \in s : s \ {x} \in P
      PROVE  s \in P
    <2>1. PICK x \in s : TRUE
        BY <1>4
    <2> DEFINE rest == s \ {x}
               part == rest \cap B
    <2>2. rest \in SUBSET D /\ part \in SUBSET D
        OBVIOUS
    <2>3. F(part) <= F(rest) /\ F(s) = f[x] + F(rest)
        BY <1>2, <1>4
    <2>4. F(s \cap B) = F(part) \/ F(s \cap B) = f[x] + F(part)
        <3>1. CASE x \in B
            <4>1. part = (s \cap B) \ {x} /\ x \in s \cap B /\ s \cap B \in SUBSET D
                BY <3>1
            <4> HIDE DEF part
            <4> QED BY <1>2, <4>1
        <3>2. CASE x \notin B
            <4>1. part = s \cap B
                BY <3>2
            <4> QED BY <4>1
        <3> QED BY <3>1, <3>2
    <2> HIDE DEF part, rest
    <2>5. F(part) \in Nat /\ F(rest) \in Nat /\ f[x] \in Nat
        BY <1>1, <2>2
    <2>6. F(s \cap B) <= F(s)
        BY <2>3, <2>4, <2>5
    <2> QED BY <2>6
<1>5. P = SUBSET D
    <2>1. P \subseteq SUBSET D
        OBVIOUS
    <2> HIDE DEF P
    <2> QED BY <1>3, <1>4, <2>1, SubsetInduction
<1>6. F(D \cap B) <= F(D) /\ D \cap B = B
    BY <1>5
<1> QED BY <1>6 DEF F

\* Two pairs of entries that compare everywhere compare in their sums.
LEMMA SumsCompared ==
    ASSUME NEW D, IsFiniteSet(D), NEW f \in [D -> Nat], NEW g \in [D -> Nat],
           NEW h \in [D -> Nat], NEW k \in [D -> Nat],
           \A x \in D : f[x] + g[x] <= h[x] + k[x]
    PROVE  SumFunction(f) + SumFunction(g) <= SumFunction(h) + SumFunction(k)
<1> DEFINE F(s) == SumFunctionOnSet(f, s)
           G(s) == SumFunctionOnSet(g, s)
           H(s) == SumFunctionOnSet(h, s)
           K(s) == SumFunctionOnSet(k, s)
           P == {s \in SUBSET D : F(s) + G(s) <= H(s) + K(s)}
<1>1. /\ SumFunction(f) = F(D) /\ SumFunction(g) = G(D)
      /\ SumFunction(h) = H(D) /\ SumFunction(k) = K(D)
    BY Zenon DEF SumFunction
<1>2. F({}) = 0 /\ G({}) = 0 /\ H({}) = 0 /\ K({}) = 0
    BY SumStep, FS_EmptySet
<1>3. \A s \in SUBSET D : F(s) \in Nat /\ G(s) \in Nat /\ H(s) \in Nat /\ K(s) \in Nat
    BY SumType
<1>4. ASSUME NEW s \in SUBSET D, NEW x \in s
      PROVE  /\ F(s) = f[x] + F(s \ {x}) /\ G(s) = g[x] + G(s \ {x})
             /\ H(s) = h[x] + H(s \ {x}) /\ K(s) = k[x] + K(s \ {x})
    <2>1. IsFiniteSet(s)
        BY SmallerPart
    <2>2. \A y \in s : f[y] \in Int /\ g[y] \in Int /\ h[y] \in Int /\ k[y] \in Int
        OBVIOUS
    <2> QED BY <2>1, <2>2, SumRemove
<1> HIDE DEF F, G, H, K
<1>5. {} \in P
    BY <1>2
<1>6. ASSUME NEW s \in SUBSET D, s # {}, \A x \in s : s \ {x} \in P
      PROVE  s \in P
    <2>1. PICK x \in s : TRUE
        BY <1>6
    <2>2. s \ {x} \in SUBSET D /\ F(s \ {x}) + G(s \ {x}) <= H(s \ {x}) + K(s \ {x})
        BY <1>6
    <2>3. /\ f[x] \in Nat /\ g[x] \in Nat /\ h[x] \in Nat /\ k[x] \in Nat
          /\ f[x] + g[x] <= h[x] + k[x]
        OBVIOUS
    <2>4. F(s) + G(s) <= H(s) + K(s)
        BY <1>3, <1>4, <2>2, <2>3
    <2> QED BY <2>4
<1>7. P = SUBSET D
    <2>1. P \subseteq SUBSET D
        OBVIOUS
    <2> HIDE DEF P
    <2> QED BY <1>5, <1>6, <2>1, SubsetInduction
<1>8. F(D) + G(D) <= H(D) + K(D)
    BY <1>7
<1> QED BY <1>1, <1>8

\* What counts for at most its units loses, with some of them gone, at most as
\* much as went, at whatever price it is counted.
LEMMA PartAtMostPar ==
    ASSUME NEW p \in Nat, NEW v \in Nat, NEW w \in Nat, w <= v,
           (v * p) \div PRICE_PRECISION <= v
    PROVE  (v * p) \div PRICE_PRECISION + w <= (w * p) \div PRICE_PRECISION + v
<1> DEFINE q == PRICE_PRECISION
           a == (v * p) \div q
           b == (w * p) \div q
<1>1. q \in Nat /\ q > 0
    BY MathAssumption
<1>2. v * p \in Nat /\ w * p \in Nat
    BY ProductNat
<1>3. a \in Nat /\ a * q <= v * p /\ b \in Nat /\ w * p < b * q + q
    BY <1>1, <1>2, DivBounds
<1>4. a <= v
    OBVIOUS
<1>5. CASE p >= q
    <2>1. w * q <= w * p
        <3>1. q * w <= p * w
            BY <1>1, <1>5, MulMono
        <3> QED BY <1>1, <3>1
    <2>2. w <= b
        BY <1>1, <1>2, <2>1, DivGe
    <2> HIDE DEF a, b
    <2> QED BY <1>3, <1>4, <2>2 DEF a, b
<1>6. CASE p < q
    <2> DEFINE d == v - w
    <2>1. d \in Nat /\ v = w + d
        OBVIOUS
    <2> HIDE DEF a, b, q, d
    <2>2. d * p <= d * q
        <3>1. p * d <= q * d
            BY <1>1, <1>6, <2>1, MulMono
        <3> QED BY <1>1, <2>1, <3>1
    <2>3. v * p = w * p + d * p
        BY <2>1
    <2>4. a * q < (b + 1 + d) * q
        <3>1. (b + 1 + d) * q = b * q + q + d * q
            BY <1>1, <1>3, <2>1
        <3> QED BY <1>1, <1>3, <2>1, <2>2, <2>3, <3>1
    <2>5. a < b + 1 + d
        BY <1>1, <1>3, <2>1, <2>4, MulMonoStrict
    <2>6. a + w <= b + v
        BY <1>3, <2>1, <2>5
    <2> QED BY <2>6 DEF a, b, q
<1> QED BY <1>1, <1>5, <1>6

\* The entries that a list without repetitions names add up to the sum over the
\* set of what it names.
LEMMA SumAlongList ==
    ASSUME NEW D, IsFiniteSet(D), NEW f \in [D -> Nat], NEW n \in Nat,
           NEW l, \A i \in 1 .. n : l[i] \in D,
           \A i \in 1 .. n, j \in 1 .. n : l[i] = l[j] => i = j
    PROVE  SumFunction([i \in 1 .. n |-> f[l[i]]]) = SumFunctionOnSet(f, {l[i] : i \in 1 .. n})
<1> DEFINE I == 1 .. n
           g == [i \in I |-> f[l[i]]]
           Named(s) == {l[i] : i \in s}
           F(s) == SumFunctionOnSet(f, s)
           G(s) == SumFunctionOnSet(g, s)
           P == {s \in SUBSET I : G(s) = F(Named(s))}
<1>1. IsFiniteSet(I)
    BY FS_Interval
<1>2. SumFunction(g) = G(I)
    BY Zenon DEF SumFunction
<1>3. /\ \A i \in I : l[i] \in D /\ g[i] = f[l[i]] /\ g[i] \in Int /\ f[l[i]] \in Int
      /\ \A i \in I, j \in I : l[i] = l[j] => i = j
    OBVIOUS
<1>4. ASSUME NEW s \in SUBSET D, NEW x \in s
      PROVE  F(s) = f[x] + F(s \ {x})
    <2>1. IsFiniteSet(s) /\ \A y \in s : f[y] \in Int
        BY SmallerPart
    <2> QED BY <2>1, SumRemove
<1> HIDE DEF I, g
<1>5. ASSUME NEW s \in SUBSET I, NEW i \in s
      PROVE  G(s) = g[i] + G(s \ {i})
    <2>1. IsFiniteSet(s) /\ \A y \in s : g[y] \in Int
        BY <1>1, <1>3, SmallerPart
    <2> QED BY <2>1, SumRemove
<1>6. G({}) = 0 /\ F({}) = 0
    BY SumStep, FS_EmptySet
<1> HIDE DEF F, G
<1>7. {} \in P
    <2>1. Named({}) = {}
        OBVIOUS
    <2> QED BY <1>6, <2>1
<1>8. ASSUME NEW s \in SUBSET I, s # {}, \A i \in s : s \ {i} \in P
      PROVE  s \in P
    <2>1. PICK i \in s : TRUE
        BY <1>8
    <2>2. Named(s \ {i}) = Named(s) \ {l[i]}
        BY <1>3
    <2>3. Named(s) \in SUBSET D /\ l[i] \in Named(s) /\ l[i] \in D
        BY <1>3
    <2>4. G(s \ {i}) = F(Named(s \ {i}))
        BY <1>8
    <2> HIDE DEF Named
    <2>5. F(Named(s)) = f[l[i]] + F(Named(s) \ {l[i]})
        BY <1>4, <2>3
    <2>6. G(s) = g[i] + G(s \ {i})
        BY <1>5
    <2> QED BY <1>3, <2>2, <2>4, <2>5, <2>6
<1>9. P = SUBSET I
    <2>1. P \subseteq SUBSET I
        OBVIOUS
    <2> HIDE DEF P
    <2> QED BY <1>1, <1>7, <1>8, <2>1, SubsetInduction
<1>10. G(I) = F(Named(I))
    BY <1>9
<1> QED BY <1>2, <1>10 DEF F, g, I

-----------------------------------------------------------------------------
(* Loops *)

\* Positions of a list: a set of them has a last one.
LEMMA LastPosition ==
    ASSUME NEW n \in Nat, NEW s \in SUBSET (1 .. n), s # {}
    PROVE  Max(s) \in s
<1> DEFINE D == 1 .. n
           P == {r \in SUBSET D : r # {} => \E x \in r : \A y \in r : x >= y}
<1>1. IsFiniteSet(D) /\ D \subseteq Nat
    BY FS_Interval
<1> HIDE DEF D
<1>2. {} \in P
    OBVIOUS
<1>3. ASSUME NEW r \in SUBSET D, r # {}, \A x \in r : r \ {x} \in P
      PROVE  r \in P
    <2>1. PICK z \in r : TRUE
        BY <1>3
    <2>2. CASE r \ {z} = {}
        <3>1. \A y \in r : y = z
            BY <2>2
        <3>2. \A y \in r : z >= y
            BY <1>1, <3>1
        <3> QED BY <3>2
    <2>3. CASE r \ {z} # {}
        <3>1. PICK x \in r \ {z} : \A y \in r \ {z} : x >= y
            BY <1>3, <2>3
        <3>2. x \in Nat /\ z \in Nat /\ \A y \in r : y \in Nat
            BY <1>1
        <3>3. (\A y \in r : x >= y) \/ (\A y \in r : z >= y)
            BY <3>1, <3>2
        <3> QED BY <3>3
    <2> QED BY <2>2, <2>3
<1>4. P = SUBSET D
    <2>1. P \subseteq SUBSET D
        OBVIOUS
    <2> HIDE DEF P
    <2> QED BY <1>1, <1>2, <1>3, <2>1, SubsetInduction
<1>5. \E x \in s : \A y \in s : x >= y
    BY <1>4 DEF D
<1> QED BY <1>5 DEF Max

\* h is a table for a fold of F over the parts of S, with values in T; pick says
\* which element of a part comes last.
IsFoldTable(h, S, T, c, F, pick) ==
    \A s \in SUBSET S : /\ h[s] \in T
                        /\ h[s] = IF s = {} THEN c ELSE F[<<h[s \ {pick[s]}], pick[s]>>]

\* The table a fold is looked up in exists, and has only values of T, when the
\* fold starts in T and no step leaves T.
LEMMA FoldTableExists ==
    ASSUME NEW S, IsFiniteSet(S), NEW T, NEW c \in T, NEW F,
           NEW pick, \A s \in SUBSET S : s # {} => pick[s] \in s,
           \A y \in T, x \in S : F[<<y, x>>] \in T
    PROVE  \E h : IsFoldTable(h, S, T, c, F, pick)
<1> DEFINE Small(k) == {s \in SUBSET S : Cardinality(s) <= k}
           Entry(s, h) == IF s = {} THEN c ELSE F[<<h[s \ {pick[s]}], pick[s]>>]
           Fits(k, h) == \A s \in Small(k) : h[s] = Entry(s, h) /\ h[s] \in T
           K == {k \in Nat : \E h : Fits(k, h)}
<1>1. 0 \in K
    <2> DEFINE h == [s \in Small(0) |-> c]
    <2>1. \A s \in Small(0) : s = {}
        BY SmallerPart
    <2>2. Fits(0, h)
        BY <2>1
    <2> QED BY <2>2
<1>2. ASSUME NEW k \in K PROVE k + 1 \in K
    <2>0. k \in Nat
        OBVIOUS
    <2>1. PICK g : Fits(k, g)
        OBVIOUS
    <2> DEFINE h == [s \in Small(k + 1) |-> Entry(s, g)]
    <2>2. \A s \in Small(k + 1) : s # {} => s \ {pick[s]} \in Small(k) /\ pick[s] \in S
        <3> SUFFICES ASSUME NEW s \in Small(k + 1), s # {}
                     PROVE  s \ {pick[s]} \in Small(k) /\ pick[s] \in S
            OBVIOUS
        <3>1. pick[s] \in s
            OBVIOUS
        <3> QED BY <2>0, <3>1, SmallerPart
    <2>3. \A s \in Small(k) : s \in Small(k + 1)
        BY <2>0, SmallerPart
    <2> HIDE DEF Small
    <2>4. \A s \in Small(k) : h[s] = g[s]
        BY <2>1, <2>3
    <2>5. ASSUME NEW s \in Small(k + 1)
          PROVE  h[s] = Entry(s, h) /\ h[s] \in T
        <3>1. CASE s = {}
            BY <3>1
        <3>2. CASE s # {}
            <4>1. s \ {pick[s]} \in Small(k) /\ pick[s] \in S
                BY <2>2, <3>2
            <4>2. h[s \ {pick[s]}] = g[s \ {pick[s]}] /\ g[s \ {pick[s]}] \in T
                BY <2>1, <2>4, <4>1
            <4>3. h[s] = F[<<g[s \ {pick[s]}], pick[s]>>]
                BY <3>2
            <4> QED BY <3>2, <4>1, <4>2, <4>3
        <3> QED BY <3>1, <3>2
    <2>6. Fits(k + 1, h)
        BY <2>5
    <2> HIDE DEF Fits, h
    <2> QED BY <2>0, <2>6
<1>3. Cardinality(S) \in K
    <2> HIDE DEF K
    <2>1. K = Nat
        BY <1>1, <1>2, NatSetInduction DEF K
    <2> QED BY <2>1, FS_CardinalityType
<1>4. PICK h : Fits(Cardinality(S), h)
    BY <1>3
<1>5. \A s \in SUBSET S : s \in Small(Cardinality(S))
    BY SmallerPart
<1> QED BY <1>4, <1>5 DEF IsFoldTable

\* ... for a loop over the positions of a list, the last of which is picked.
IsLoopTable(h, n, T, c, F) ==
    /\ h = [s \in SUBSET (1 .. n) |-> h[s]]
    /\ \A s \in SUBSET (1 .. n) :
          /\ h[s] \in T
          /\ h[s] = IF s = {} THEN c ELSE F[<<h[s \ {Max(s)}], Max(s)>>]

LEMMA LoopTable ==
    ASSUME NEW n \in Nat, NEW T, NEW c \in T, NEW F,
           \A y \in T, i \in 1 .. n : F[<<y, i>>] \in T
    PROVE  \E h : IsLoopTable(h, n, T, c, F)
<1> DEFINE pick == [s \in SUBSET (1 .. n) |-> Max(s)]
<1>1. \A s \in SUBSET (1 .. n) : s # {} => Max(s) \in s
    BY LastPosition
<1>2. \A s \in SUBSET (1 .. n) : pick[s] = Max(s)
    OBVIOUS
<1> HIDE DEF pick
<1>3. PICK g : IsFoldTable(g, 1 .. n, T, c, F, pick)
    <2>1. IsFiniteSet(1 .. n)
        BY FS_Interval
    <2>2. \A s \in SUBSET (1 .. n) : s # {} => pick[s] \in s
        BY <1>1, <1>2
    <2> QED BY <2>1, <2>2, FoldTableExists
<1> DEFINE h == [s \in SUBSET (1 .. n) |-> g[s]]
<1>4. \A s \in SUBSET (1 .. n) :
          /\ h[s] \in T
          /\ h[s] = IF s = {} THEN c ELSE F[<<h[s \ {Max(s)}], Max(s)>>]
    BY <1>2, <1>3 DEF IsFoldTable
<1>5. h = [s \in SUBSET (1 .. n) |-> h[s]]
    OBVIOUS
<1> HIDE DEF h
<1> QED BY <1>4, <1>5 DEF IsLoopTable

\* What holds of the start of a loop and is kept by each of its steps holds of
\* its end.
LEMMA LoopInvariant ==
    ASSUME NEW n \in Nat, NEW T, NEW h, h[{}] \in T,
           \A s \in SUBSET (1 .. n) : s # {} /\ h[s \ {Max(s)}] \in T => h[s] \in T
    PROVE  h[1 .. n] \in T
<1> DEFINE D == 1 .. n
           P == {s \in SUBSET D : h[s] \in T}
<1>1. IsFiniteSet(D)
    BY FS_Interval
<1>2. ASSUME NEW s \in SUBSET D, s # {}, \A x \in s : s \ {x} \in P
      PROVE  s \in P
    <2>1. Max(s) \in s
        BY <1>2, LastPosition
    <2> QED BY <1>2, <2>1
<1>3. P = SUBSET D
    <2>1. P \subseteq SUBSET D /\ {} \in P
        OBVIOUS
    <2> HIDE DEF P
    <2> QED BY <1>1, <1>2, <2>1, SubsetInduction
<1> QED BY <1>3

=============================================================================
