-------------------------- MODULE ShareTokenProofs --------------------------
(***************************************************************************)
(* Theorems of ShareToken: every entry point keeps the storage well typed, *)
(* no balance falls without an authorisation of its holder, and the stored *)
(* supply moves with the balances.  The lemmas about sums are those of     *)
(* VaultMathProofs.                                                        *)
(***************************************************************************)
EXTENDS ShareToken, VaultMathProofs

\* Spending writes a well-typed allowance: at most what was readable is spent.
LEMMA SpendAllowanceType ==
    ASSUME TokenTypeOK, NEW s \in Spenders, NEW a \in Accounts, NEW n \in Amounts,
           n > 0, SpendAllowance(a, s, n)
    PROVE  allowance' \in [Accounts \X Spenders -> AllowanceValue]
<1>1. /\ allowance \in [Accounts \X Spenders -> AllowanceValue]
      /\ allowance[a, s] \in AllowanceValue
  BY DEF TokenTypeOK
<1>2. /\ allowance[a, s].amount \in 0 .. MaxI128
      /\ allowance[a, s].expiration_ledger \in Nat
  BY <1>1 DEF AllowanceValue
<1>3. CurrentAllowance(a, s) \in 0 .. MaxI128
  <2>1. 0 \in 0 .. MaxI128
    BY TokenAssumption
  <2> QED
    BY <1>2, <2>1 DEF CurrentAllowance
<1>4. n \in Int /\ MaxI128 \in Nat /\ CurrentAllowance(a, s) >= n
  <2>1. MaxI128 \in Nat /\ Amounts \subseteq Int
    BY TokenAssumption
  <2> QED
    BY <2>1 DEF SpendAllowance
<1>5. CurrentAllowance(a, s) - n \in 0 .. MaxI128
  BY <1>3, <1>4
<1>6. [amount |-> CurrentAllowance(a, s) - n,
       expiration_ledger |-> allowance[a, s].expiration_ledger] \in AllowanceValue
  BY <1>2, <1>5 DEF AllowanceValue
<1> QED
  BY <1>1, <1>6 DEF SpendAllowance

\* One step of the token keeps every stored value inside its i128 range: the
\* checked sums and differences of the entry points are what bounds them.
LEMMA TokenTypeStep ==
    ASSUME TokenTypeOK, [TokenNext]_tokenVars
    PROVE  TokenTypeOK'
<1> USE TokenAssumption DEF TokenTypeOK, AllowanceValue, InI128, MinI128
<1>1. ASSUME NEW a \in Accounts, Initialize(a)
      PROVE  TokenTypeOK'
  BY <1>1 DEF Initialize
<1>2. ASSUME NEW a \in Accounts, NEW b \in Accounts, SetAdmin(a, b)
      PROVE  TokenTypeOK'
  BY <1>2 DEF SetAdmin
<1>3. ASSUME NEW a \in Accounts, NEW b \in Accounts, NEW n \in Amounts,
             Transfer(a, b, n)
      PROVE  TokenTypeOK'
  BY <1>3 DEF Transfer
<1>4. ASSUME NEW a \in Accounts, NEW n \in Amounts, Burn(a, n)
      PROVE  TokenTypeOK'
  BY <1>4 DEF Burn, Destroy
<1>5. ASSUME NEW a \in Accounts, NEW b \in Accounts, NEW n \in Amounts,
             Mint(a, b, n)
      PROVE  TokenTypeOK'
  BY <1>5 DEF Mint
<1>6. ASSUME NEW a \in Accounts, NEW b \in Spenders, NEW n \in Amounts,
             NEW e \in Expirations, Approve(a, b, n, e)
      PROVE  TokenTypeOK'
  BY <1>6 DEF Approve
<1>7. ASSUME NEW s \in Spenders, NEW a \in Accounts, NEW n \in Amounts,
             BurnFrom(s, a, n)
      PROVE  TokenTypeOK'
  BY <1>7, SpendAllowanceType DEF BurnFrom, Destroy
<1>8. ASSUME NEW s \in Spenders, NEW a \in Accounts, NEW b \in Accounts,
             NEW n \in Amounts, TransferFrom(s, a, b, n)
      PROVE  TokenTypeOK'
  <2>1. allowance' \in [Accounts \X Spenders -> AllowanceValue]
    <3> HIDE DEF TokenTypeOK, AllowanceValue
    <3> QED
      BY <1>8, SpendAllowanceType DEF TransferFrom
  <2>2. n \in Int /\ n > 0 /\ balance[a] >= n /\ balance[b] + n <= MaxI128
    BY <1>8 DEF TransferFrom
  <2>3. balance[a] \in 0 .. MaxI128 /\ balance[b] \in 0 .. MaxI128
    OBVIOUS
  <2>4. balance[a] - n \in 0 .. MaxI128 /\ balance[b] + n \in 0 .. MaxI128
    BY <2>2, <2>3
  <2>5. balance' = [[balance EXCEPT ![a] = balance[a] - n]
                        EXCEPT ![b] = balance[b] + n]
    BY <1>8 DEF TransferFrom
  <2>6. balance' \in [Accounts -> 0 .. MaxI128]
    BY <2>4, <2>5
  <2>7. UNCHANGED <<admin, totalSupply, sequence>>
    BY <1>8 DEF TransferFrom
  <2> QED
    BY <2>1, <2>6, <2>7
<1>9. CASE NextLedger
  BY <1>9 DEF NextLedger
<1>10. CASE UNCHANGED tokenVars
  BY <1>10 DEF tokenVars
<1>11. CASE OwnerStep
  <2> HIDE DEF TokenTypeOK
  <2> QED
    BY <1>1, <1>2, <1>3, <1>4, <1>5, <1>6, <1>11 DEF OwnerStep
<1>12. CASE SpenderStep
  <2> HIDE DEF TokenTypeOK
  <2> QED
    BY <1>7, <1>8, <1>12 DEF SpenderStep
<1> QED
  BY <1>9, <1>10, <1>11, <1>12 DEF TokenNext

\* The share token's storage is well typed in every reachable state.
THEOREM TokenTypeCorrect == TokenSpec => []TokenTypeOK
<1>1. TokenInit => TokenTypeOK
  BY TokenAssumption
     DEF TokenInit, TokenTypeOK, AllowanceValue, NoAllowance, MinI128
<1>2. TokenTypeOK /\ [TokenNext]_tokenVars => TokenTypeOK'
  BY TokenTypeStep
<1> QED
  BY <1>1, <1>2, PTL DEF TokenSpec

-----------------------------------------------------------------------------

\* What a delegated debit of n leaves behind: a live allowance that covered n
\* is lower by n.
LEMMA SpendIsPaid ==
    ASSUME TokenTypeOK, NEW s \in Spenders, NEW a \in Accounts, NEW n \in Amounts,
           n > 0, SpendAllowance(a, s, n)
    PROVE  /\ sequence <= allowance[a, s].expiration_ledger
           /\ allowance[a, s].amount - allowance'[a, s].amount = n
<1>1. /\ allowance \in [Accounts \X Spenders -> AllowanceValue]
      /\ allowance[a, s] \in AllowanceValue
      /\ sequence \in Nat
  BY DEF TokenTypeOK
<1>2. /\ allowance[a, s].amount \in 0 .. MaxI128
      /\ allowance[a, s].expiration_ledger \in Nat
  BY <1>1 DEF AllowanceValue
<1>3. n \in Nat
  BY TokenAssumption
<1> DEFINE left  == allowance[a, s].amount
           until == allowance[a, s].expiration_ledger
           left1 == allowance'[a, s].amount
<1>4. CurrentAllowance(a, s) = IF sequence > until THEN 0 ELSE left
  BY DEF CurrentAllowance
<1>5. CurrentAllowance(a, s) >= n /\ left1 = CurrentAllowance(a, s) - n
  BY <1>1 DEF SpendAllowance
<1>6. left \in Nat /\ until \in Nat /\ sequence \in Nat
  <2>1. MaxI128 \in Nat
    BY TokenAssumption
  <2>2. 0 .. MaxI128 \subseteq Nat
    BY <2>1
  <2> QED
    BY <1>1, <1>2, <2>2
<1> HIDE DEF left, until, left1
<1>7. sequence <= until /\ left - left1 = n
  BY <1>3, <1>4, <1>5, <1>6
<1> QED
  BY <1>7 DEF left, until, left1

\* No balance falls without its holder's signature or a live allowance that
\* pays for it, whoever calls whatever entry point.
THEOREM DebitsAuthorised == TokenSpec => DebitsAreAuthorised
<1> DEFINE Debit(a) == /\ \A b \in Accounts \ {a} : balance'[b] >= balance[b]
                       /\ HolderSigned(a) \/ SpenderPaid(a)
<1>1. ASSUME TokenTypeOK, TokenNext, NEW a \in Accounts, balance'[a] < balance[a]
      PROVE  Debit(a)
  <2>0. balance \in [Accounts -> Int] /\ Amounts \subseteq Int
    BY <1>1, TokenAssumption DEF TokenTypeOK
  <2>1. ASSUME NEW c \in Accounts, NEW d \in Accounts, NEW n \in Amounts,
               Transfer(c, d, n)
        PROVE  Debit(a)
    <3>1. c = a
      BY <1>1, <2>0, <2>1 DEF Transfer
    <3> QED
      BY <2>0, <2>1, <3>1 DEF Transfer, HolderSigned
  <2>2. ASSUME NEW c \in Accounts, NEW n \in Amounts, Burn(c, n)
        PROVE  Debit(a)
    <3>1. c = a
      BY <1>1, <2>0, <2>2 DEF Burn, Destroy
    <3>2. HolderSigned(a)
      BY <2>2, <3>1 DEF HolderSigned
    <3> QED
      BY <2>0, <2>2, <3>1, <3>2 DEF Burn, Destroy
  <2>3. ASSUME NEW s \in Spenders, NEW c \in Accounts, NEW n \in Amounts,
               BurnFrom(s, c, n)
        PROVE  Debit(a)
    <3>1. c = a /\ n > 0 /\ balance[a] - balance'[a] = n
      BY <1>1, <2>0, <2>3 DEF BurnFrom, Destroy
    <3>2. SpenderPaid(a)
      BY <1>1, <2>3, <3>1, SpendIsPaid DEF BurnFrom, SpenderPaid
    <3> QED
      BY <2>0, <2>3, <3>1, <3>2 DEF BurnFrom, Destroy
  <2>4. ASSUME NEW s \in Spenders, NEW c \in Accounts, NEW d \in Accounts,
               NEW n \in Amounts, TransferFrom(s, c, d, n)
        PROVE  Debit(a)
    <3>1. c = a /\ d # a /\ n > 0 /\ balance[a] - balance'[a] = n
      BY <1>1, <2>0, <2>4 DEF TransferFrom
    <3>2. SpenderPaid(a)
      BY <1>1, <2>4, <3>1, SpendIsPaid DEF TransferFrom, SpenderPaid
    <3> QED
      BY <2>0, <2>4, <3>1, <3>2 DEF TransferFrom
  <2>5. ASSUME NEW c \in Accounts, NEW d \in Accounts, NEW n \in Amounts,
               Mint(c, d, n)
        PROVE  FALSE
    BY <1>1, <2>0, <2>5 DEF Mint
  <2>6. ASSUME UNCHANGED balance
        PROVE  FALSE
    BY <1>1, <2>0, <2>6
  <2> QED
    BY <1>1, <2>1, <2>2, <2>3, <2>4, <2>5, <2>6
       DEF TokenNext, OwnerStep, SpenderStep, Initialize, SetAdmin, Approve, NextLedger
<1>2. TokenTypeOK /\ [TokenNext]_tokenVars =>
        [\A a \in Accounts : balance'[a] < balance[a] => Debit(a)]_tokenVars
  BY <1>1
<1> QED
  BY <1>2, TokenTypeCorrect, PTL DEF TokenSpec, DebitsAreAuthorised

-----------------------------------------------------------------------------

\* The balance of a, and no other, goes up by n.
Raised(old, new, a, n) ==
    new[a] = old[a] + n /\ \A b \in Accounts \ {a} : old[b] = new[b]

\* A balance that changes alone changes the outstanding tokens by as much.
LEMMA OneBalance ==
    ASSUME NEW old \in [Accounts -> Int], NEW new \in [Accounts -> Int],
           NEW a \in Accounts, NEW n \in Int, Raised(old, new, a, n)
    PROVE  /\ SumFunction(old) \in Int
           /\ SumFunction(new) = SumFunction(old) + n
<1>1. new[a] = old[a] + n /\ \A b \in Accounts \ {a} : old[b] = new[b]
  BY DEF Raised
<1>2. /\ SumFunction(old) \in Int /\ SumFunction(new) \in Int
      /\ SumFunction(new) = SumFunction(old) - old[a] + new[a]
  BY <1>1, TokenAssumption, SumChanged
<1>3. old[a] \in Int
  OBVIOUS
<1> QED
  BY <1>1, <1>2, <1>3

\* What one holder gives another leaves the outstanding tokens as they are.
LEMMA MovedBalance ==
    ASSUME NEW old \in [Accounts -> Int], NEW new \in [Accounts -> Int],
           NEW a \in Accounts, NEW b \in Accounts, a # b, NEW n \in Int,
           new[a] = old[a] - n, new[b] = old[b] + n,
           \A c \in Accounts \ {a, b} : old[c] = new[c]
    PROVE  SumFunction(old) \in Int /\ SumFunction(new) = SumFunction(old)
<1> DEFINE m   == -n
           mid == [old EXCEPT ![a] = @ + m]
<1>1. m \in Int /\ n + m = 0 /\ mid \in [Accounts -> Int]
  OBVIOUS
<1>2. Raised(mid, new, b, n) /\ Raised(old, mid, a, m)
  BY DEF Raised
<1> HIDE DEF m, mid
<1>3. SumFunction(old) \in Int /\ SumFunction(mid) = SumFunction(old) + m
  BY <1>1, <1>2, OneBalance
<1>4. SumFunction(new) = SumFunction(mid) + n
  BY <1>1, <1>2, OneBalance
<1> QED
  BY <1>1, <1>3, <1>4

\* Before initialize names an admin nothing is minted, so that its reset of the
\* stored supply loses nothing.
UnmintedInv == admin = NoAdmin => totalSupply = 0 /\ \A a \in Accounts : balance[a] = 0

LEMMA UnmintedStep ==
    ASSUME TokenTypeOK, UnmintedInv, [TokenNext]_tokenVars
    PROVE  UnmintedInv'
<1> SUFFICES ASSUME admin = NoAdmin, \A a \in Accounts : balance[a] = 0,
                    totalSupply = 0
             PROVE  totalSupply' = 0 /\ UNCHANGED balance
  <2>1. admin # NoAdmin => admin' # NoAdmin
    <3>1. admin' = admin \/ admin' \in Accounts
      BY Zenon
         DEF TokenNext, OwnerStep, SpenderStep, Initialize, SetAdmin, Transfer, Burn, Mint,
             Approve, BurnFrom, TransferFrom, NextLedger, tokenVars
    <3> QED
      BY <3>1, TokenAssumption
  <2> QED
    BY <2>1 DEF UnmintedInv
<1>1. ASSUME NEW n \in Amounts, NEW a \in Accounts, n > 0, balance[a] >= n
      PROVE  FALSE
  BY <1>1, TokenAssumption
<1>2. CASE OwnerStep
  <2>1. ASSUME NEW a \in Accounts, NEW b \in Accounts, NEW n \in Amounts,
               Transfer(a, b, n) \/ Burn(a, n) \/ Mint(a, b, n)
        PROVE  FALSE
    BY <1>1, <2>1 DEF Transfer, Burn, Destroy, Mint
  <2> QED
    BY <1>2, <2>1 DEF OwnerStep, Initialize, SetAdmin, Approve
<1>3. CASE SpenderStep
  BY <1>1, <1>3 DEF SpenderStep, BurnFrom, Destroy, TransferFrom
<1>4. CASE NextLedger \/ UNCHANGED tokenVars
  BY <1>4 DEF NextLedger, tokenVars
<1> QED
  BY <1>2, <1>3, <1>4 DEF TokenNext

LEMMA UnmintedInvariant == TokenSpec => []UnmintedInv
<1>1. TokenInit => UnmintedInv
  BY DEF TokenInit, UnmintedInv
<1>2. TokenTypeOK /\ UnmintedInv /\ [TokenNext]_tokenVars => UnmintedInv'
  BY UnmintedStep
<1> QED
  BY <1>1, <1>2, TokenTypeCorrect, PTL DEF TokenSpec

\* The stored supply moves by what the balances do, whoever calls whatever
\* entry point, unless a transfer_from has one holder as source and
\* destination.
THEOREM SupplyFollows == TokenSpec => SupplyFollowsBalances
<1> DEFINE Follows == totalSupply' - totalSupply = Outstanding' - Outstanding
           Between == \A s \in Spenders, a \in Accounts, n \in Amounts : ~TransferFrom(s, a, a, n)
<1>1. ASSUME TokenTypeOK, TokenTypeOK', UnmintedInv, [TokenNext]_tokenVars, Between
      PROVE  Follows
  <2>0. /\ balance \in [Accounts -> Int] /\ balance' \in [Accounts -> Int]
        /\ totalSupply \in Int /\ Amounts \subseteq Int
    BY <1>1, TokenAssumption DEF TokenTypeOK, MinI128
  <2>1. Outstanding \in Int
    <3>1. SumFunction(balance) = SumFunctionOnSet(balance, Accounts)
      BY <2>0, Zenon DEF SumFunction
    <3> QED
      BY <2>0, <3>1, TokenAssumption, SumType DEF Outstanding
  <2>2. ASSUME NEW a \in Accounts, NEW n \in Int, totalSupply' = totalSupply + n,
               Raised(balance, balance', a, n)
        PROVE  Follows
    <3>1. Outstanding' = Outstanding + n
      BY <2>0, <2>2, OneBalance DEF Outstanding
    <3> QED
      BY <2>0, <2>1, <2>2, <3>1
  <2>3. ASSUME NEW a \in Accounts, NEW b \in Accounts, NEW n \in Amounts, a # b,
               totalSupply' = totalSupply, balance'[a] = balance[a] - n,
               balance'[b] = balance[b] + n,
               \A c \in Accounts \ {a, b} : balance[c] = balance'[c]
        PROVE  Follows
    <3>1. Outstanding' = Outstanding
      BY <2>0, <2>3, MovedBalance DEF Outstanding
    <3> QED
      BY <2>0, <2>1, <2>3, <3>1
  <2>4. ASSUME UNCHANGED <<totalSupply, balance>>
        PROVE  Follows
    BY <2>0, <2>1, <2>4 DEF Outstanding
  <2>5. ASSUME NEW a \in Accounts, NEW n \in Amounts, Destroy(a, n)
        PROVE  Follows
    <3> DEFINE m == -n
    <3>1. /\ m \in Int /\ totalSupply' = totalSupply + m
          /\ Raised(balance, balance', a, m)
      BY <2>0, <2>5 DEF Destroy, Raised
    <3> HIDE DEF m, Follows
    <3> QED
      BY <2>2, <3>1
  <2>6. ASSUME NEW a \in Accounts, NEW b \in Accounts, NEW n \in Amounts, Transfer(a, b, n)
        PROVE  Follows
    <3> HIDE DEF Follows
    <3> QED
      BY <2>0, <2>3, <2>4, <2>6 DEF Transfer
  <2>7. ASSUME NEW s \in Spenders, NEW a \in Accounts, NEW b \in Accounts, NEW n \in Amounts,
               TransferFrom(s, a, b, n)
        PROVE  Follows
    <3>1. a # b
      BY <1>1, <2>7
    <3>2. /\ totalSupply' = totalSupply
          /\ balance'[a] = balance[a] - n /\ balance'[b] = balance[b] + n
          /\ \A c \in Accounts \ {a, b} : balance[c] = balance'[c]
      BY <2>0, <2>7, <3>1 DEF TransferFrom
    <3> HIDE DEF Follows
    <3> QED
      BY <2>3, <3>1, <3>2
  <2>8. ASSUME NEW a \in Accounts, NEW c \in Accounts, NEW n \in Amounts, Mint(c, a, n)
        PROVE  Follows
    <3> HIDE DEF Follows
    <3> QED
      BY <2>0, <2>2, <2>8 DEF Mint, Raised
  <2>9. ASSUME NEW a \in Accounts, Initialize(a)
        PROVE  Follows
    BY <1>1, <2>4, <2>9 DEF Initialize, UnmintedInv
  <2> HIDE DEF Follows
  <2>10. CASE OwnerStep
    BY <2>4, <2>5, <2>6, <2>8, <2>9, <2>10 DEF OwnerStep, SetAdmin, Burn, Approve
  <2>11. CASE SpenderStep
    BY <2>5, <2>7, <2>11 DEF SpenderStep, BurnFrom
  <2>12. CASE NextLedger \/ UNCHANGED tokenVars
    BY <2>4, <2>12 DEF NextLedger, tokenVars
  <2> QED
    BY <1>1, <2>10, <2>11, <2>12 DEF TokenNext
<1>2. TokenTypeOK /\ TokenTypeOK' /\ UnmintedInv /\ [TokenNext]_tokenVars =>
        [Between => Follows]_tokenVars
  BY <1>1
<1> QED
  BY <1>2, TokenTypeCorrect, UnmintedInvariant, PTL DEF TokenSpec, SupplyFollowsBalances

=============================================================================
